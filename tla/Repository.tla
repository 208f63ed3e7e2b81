------------------------------- MODULE Repository -------------------------------
(***************************************************************************)
(* The files in the folders of Folders (repository-file.service.ts) with   *)
(* their versions, the quota they count against and the links that share   *)
(* them.                                                                   *)
(*                                                                         *)
(* A file carries the number of its newest version and the id of its       *)
(* current one; a request reads them, works on the object store and the    *)
(* quota, and writes them in a later transaction.  The key of the object   *)
(* that holds a version comes from the caller, who uploaded it before, and *)
(* no constraint keeps two versions from bringing one key.  Every version  *)
(* weighs one unit.  Who may do what, names, expiry and retention play no  *)
(* part: they only refuse requests.                                        *)
(***************************************************************************)
EXTENDS Folders

CONSTANTS
  Files, Versions, Links,  \* uuids of the three tables
  Keys,                    \* file_key: the objects that were uploaded
  Quota,                   \* quota_bytes, in versions
  Limits                   \* max_access_count of a link; 0 is no limit

VARIABLES
  file,      \* repository_files
  version,   \* repository_file_versions
  gone,      \* keys whose object was removed from the store
  taken,     \* history: keys that a version was inserted with
  reused,    \* history: keys that a second version was inserted with
  used,      \* tenant_storage.used_bytes
  link,      \* repository_share_links
  disturbed  \* history: files given a version number that was read before
             \* another version was added

store == <<gone, taken, reused>>
fileVars == <<file, version, store, used, link, disturbed>>
vars == <<folderVars, file, version, store, used, link, req, served, disturbed>>

--------------------------------------------------------------------------------
File == [folder : FolderIds, total : Nat, current : Versions, archived : BOOLEAN]
Version == [file : Files, number : Nat, key : Keys]
Link == [file : Files, max : Limits, count : Nat]

ASSUME RepositoryAssumption ==
  /\ Quota \in Nat /\ Limits \subseteq Nat
  /\ IsFiniteSet(Handlers) /\ Handlers # {}
  /\ NoRow \notin File \cup Version \cup Link

\* An addition holds the number its version will have; stale: the file got
\* another version since it was read.
Request ==
  FolderRequest
  \cup [pc : {"creating"}, folder : FolderIds, key : Keys]
  \cup [pc : {"charging"}]
  \cup [pc : {"checking", "adding"}, file : Files, number : Nat, key : Keys, stale : BOOLEAN]
  \cup [pc : {"emptying", "deleting"}, version : Versions, key : Keys]
  \cup [pc : {"opening"}, link : Links]

Stored == {v \in Versions : version[v] # NoRow}
VersionsOf(f) == {v \in Stored : version[v].file = f}
Shared == {l \in Links : link[l] # NoRow}
Kept == {f \in Files : file[f] # NoRow}
FilesIn(d) == {f \in Kept : file[f].folder = d}
Readable(f) == file[f] # NoRow /\ ~file[f].archived

\* The type invariant of the component.
RepositoryTypeOK ==
  /\ FoldersTypeOK
  /\ file \in [Files -> File \cup {NoRow}]
  /\ \A f \in Kept : file[f].folder \in Existing
  /\ version \in [Versions -> Version \cup {NoRow}]
  /\ \A v \in Stored : file[version[v].file] # NoRow
  /\ gone \subseteq Keys /\ taken \subseteq Keys /\ reused \subseteq Keys
  /\ used \in Nat
  /\ link \in [Links -> Link \cup {NoRow}]
  /\ \A l \in Shared : file[link[l].file] # NoRow
  /\ req \in [Handlers -> Request]
  /\ served \in Nat /\ disturbed \subseteq Files

RepositoryInit ==
  /\ FoldersInit
  /\ file = [f \in Files |-> NoRow]
  /\ version = [v \in Versions |-> NoRow]
  /\ gone = {} /\ taken = {} /\ reused = {}
  /\ used = 0
  /\ link = [l \in Links |-> NoRow]
  /\ disturbed = {}

--------------------------------------------------------------------------------
\* A new version has a uuid no request knows.
Fresh(v) ==
  /\ v \notin Stored
  /\ \A h \in Handlers : req[h].pc \in {"emptying", "deleting"} => req[h].version # v

\* A version brings the key of its object.
Takes(k) ==
  /\ taken' = taken \cup {k}
  /\ reused' = IF k \in taken THEN reused \cup {k} ELSE reused
  /\ gone' = gone

\* assertUploadAllowed: what the request is about to store still fits.
UploadAllowed == used + 1 <= Quota

\* createFileRecord looks for the object, asks for quota ...
CreateFileRecord(h, d, k) ==
  /\ d \in Existing
  /\ k \notin gone
  /\ UploadAllowed
  /\ Begin(h, [pc |-> "creating", folder |-> d, key |-> k])
  /\ UNCHANGED <<folderVars, file, version, store, used, link, disturbed>>

\* Slip: the folder may be gone.
InsertFileAnywhere(h, f, v) ==
  /\ req[h].pc = "creating"
  /\ f \notin Kept /\ Fresh(v)
  /\ file' = [file EXCEPT ![f] = [folder |-> req[h].folder, total |-> 1,
                                 current |-> v, archived |-> FALSE]]
  /\ version' = [version EXCEPT ![v] = [file |-> f, number |-> 1, key |-> req[h].key]]
  /\ Takes(req[h].key)
  /\ req' = [req EXCEPT ![h] = [pc |-> "charging"]]
  /\ UNCHANGED <<folderVars, used, link, served, disturbed>>

\* ... and inserts the file with its first version, if its folder exists.
InsertFile(h, f, v) ==
  /\ req[h].pc = "creating"
  /\ IF req[h].folder \in Existing
     THEN /\ f \notin Kept /\ Fresh(v)
          /\ file' = [file EXCEPT ![f] = [folder |-> req[h].folder, total |-> 1,
                                         current |-> v, archived |-> FALSE]]
          /\ version' = [version EXCEPT ![v] = [file |-> f, number |-> 1, key |-> req[h].key]]
          /\ Takes(req[h].key)
          /\ req' = [req EXCEPT ![h] = [pc |-> "charging"]]
     ELSE /\ req' = [req EXCEPT ![h] = Free]
          /\ UNCHANGED <<file, version, store>>
  /\ UNCHANGED <<folderVars, used, link, served, disturbed>>

\* addNewVersion reads the file, looks for the object ...
AddNewVersion(h, f, k) ==
  /\ Readable(f)
  /\ k \notin gone
  /\ Begin(h, [pc |-> "checking", file |-> f, number |-> file[f].total + 1, key |-> k,
               stale |-> FALSE])
  /\ UNCHANGED <<folderVars, file, version, store, used, link, disturbed>>

\* ... asks for quota ...
CheckQuota(h) ==
  /\ req[h].pc = "checking"
  /\ req' = [req EXCEPT ![h] = IF UploadAllowed THEN [@ EXCEPT !.pc = "adding"] ELSE Free]
  /\ UNCHANGED <<folderVars, file, version, store, used, link, served, disturbed>>

\* ... and inserts the version as the current one, which the unique key of
\* file and number may refuse.
Outdated(g, f) ==
  IF req[g].pc \in {"checking", "adding"} /\ req[g].file = f
  THEN [req[g] EXCEPT !.stale = TRUE] ELSE req[g]

\* Slip: the total is not written.
InsertVersionUncounted(h, v) ==
  /\ req[h].pc = "adding"
  /\ Fresh(v)
  /\ \A w \in VersionsOf(req[h].file) : version[w].number # req[h].number
  /\ version' = [version EXCEPT ![v] = [file |-> req[h].file, number |-> req[h].number,
                                       key |-> req[h].key]]
  /\ Takes(req[h].key)
  /\ file' = [file EXCEPT ![req[h].file].current = v]
  /\ req' = [g \in Handlers |-> IF g = h THEN [pc |-> "charging"] ELSE Outdated(g, req[h].file)]
  /\ UNCHANGED <<folderVars, used, link, served, disturbed>>

InsertVersion(h, v) ==
  /\ req[h].pc = "adding"
  /\ LET f == req[h].file
         n == req[h].number
     IN  IF \E w \in VersionsOf(f) : version[w].number = n
         THEN /\ req' = [req EXCEPT ![h] = Free]
              /\ UNCHANGED <<file, version, store, disturbed>>
         ELSE /\ Fresh(v)
              /\ version' = [version EXCEPT ![v] = [file |-> f, number |-> n, key |-> req[h].key]]
              /\ Takes(req[h].key)
              /\ file' = [file EXCEPT ![f].total = n, ![f].current = v]
              /\ disturbed' = IF req[h].stale THEN disturbed \cup {f} ELSE disturbed
              /\ req' = [g \in Handlers |-> IF g = h THEN [pc |-> "charging"] ELSE Outdated(g, f)]
  /\ UNCHANGED <<folderVars, used, link, served>>

\* incrementUsage, after either transaction.
IncrementUsage(h) ==
  /\ req[h].pc = "charging"
  /\ used' = used + 1
  /\ req' = [req EXCEPT ![h] = Free]
  /\ UNCHANGED <<folderVars, file, version, store, link, served, disturbed>>

\* Slip: the current version may go.
DeleteAnyVersion(h, v) ==
  /\ v \in Stored
  /\ Readable(version[v].file)
  /\ Begin(h, [pc |-> "emptying", version |-> v, key |-> version[v].key])
  /\ UNCHANGED <<folderVars, file, version, store, used, link, disturbed>>

\* deleteVersion: "Cannot delete the current version" ...
DeleteVersion(h, v) ==
  /\ v \in Stored
  /\ Readable(version[v].file)
  /\ file[version[v].file].current # v
  /\ Begin(h, [pc |-> "emptying", version |-> v, key |-> version[v].key])
  /\ UNCHANGED <<folderVars, file, version, store, used, link, disturbed>>

\* ... removes the object, whoever else has it ...
DeleteObject(h) ==
  /\ req[h].pc = "emptying"
  /\ gone' = gone \cup {req[h].key}
  /\ req' = [req EXCEPT ![h].pc = "deleting"]
  /\ UNCHANGED <<folderVars, file, version, taken, reused, used, link, served, disturbed>>

\* ... and the row; the second delete of the row then fails the request.
DeleteRow(h) ==
  /\ req[h].pc = "deleting"
  /\ version' = [version EXCEPT ![req[h].version] = NoRow]
  /\ req' = [req EXCEPT ![h] = Free]
  /\ UNCHANGED <<folderVars, file, store, used, link, served, disturbed>>

\* softDelete.
SoftDelete(f) ==
  /\ Readable(f)
  /\ file' = [file EXCEPT ![f].archived = TRUE]
  /\ UNCHANGED <<folderVars, version, store, used, link, req, served, disturbed>>

--------------------------------------------------------------------------------
GenerateShareLink(l, f, max) ==
  /\ Readable(f)
  /\ l \notin Shared
  /\ \A h \in Handlers : req[h].pc = "opening" => req[h].link # l
  /\ link' = [link EXCEPT ![l] = [file |-> f, max |-> max, count |-> 0]]
  /\ UNCHANGED <<folderVars, file, version, store, used, req, served, disturbed>>

\* Slip: the last access is granted once more.
AccessShareLinkOnceMore(h, l) ==
  /\ l \in Shared
  /\ link[l].max # 0 => link[l].count <= link[l].max
  /\ ~file[link[l].file].archived
  /\ Begin(h, [pc |-> "opening", link |-> l])
  /\ UNCHANGED <<folderVars, file, version, store, used, link, disturbed>>

\* accessShareLink reads the link and its file ...
AccessShareLink(h, l) ==
  /\ l \in Shared
  /\ link[l].max # 0 => link[l].count < link[l].max
  /\ ~file[link[l].file].archived
  /\ Begin(h, [pc |-> "opening", link |-> l])
  /\ UNCHANGED <<folderVars, file, version, store, used, link, disturbed>>

\* ... and counts the access, unless the link is gone.
CountAccess(h) ==
  /\ req[h].pc = "opening"
  /\ link' = IF req[h].link \in Shared THEN [link EXCEPT ![req[h].link].count = @ + 1] ELSE link
  /\ req' = [req EXCEPT ![h] = Free]
  /\ UNCHANGED <<folderVars, file, version, store, used, served, disturbed>>

\* revokeShareLink deletes the link; its second delete then fails.
RevokeShareLink(l) ==
  /\ l \in Shared
  /\ Readable(link[l].file)
  /\ link' = [link EXCEPT ![l] = NoRow]
  /\ UNCHANGED <<folderVars, file, version, store, used, req, served, disturbed>>

\* A request dies at an await, or a statement of it fails; what it stored and
\* did not charge stays free.
Die(h) ==
  /\ req[h] # Free
  /\ req' = [req EXCEPT ![h] = Free]
  /\ UNCHANGED <<folderVars, file, version, store, used, link, served, disturbed>>

FolderStep(h) ==
  /\ \/ \E p \in FolderIds \cup {Root}, name \in Names : CreateFolder(h, p, name)
     \/ \E d \in FolderIds :
          \/ InsertFolder(h, d)
          \/ \E name \in Names : RenameFolder(h, d, name)
          \/ DeleteFolder(h, d, FilesIn(d))
     \/ FolderRenamed(h)
     \/ req[h].pc = "deletingFolder" /\ FolderDeleted(h, FilesIn(req[h].id))
  /\ UNCHANGED fileVars

RepositoryStep(h) ==
  \/ FolderStep(h)
  \/ \E d \in FolderIds, k \in Keys : CreateFileRecord(h, d, k)
  \/ \E f \in Files, v \in Versions : InsertFile(h, f, v)
  \/ \E f \in Files, k \in Keys : AddNewVersion(h, f, k)
  \/ CheckQuota(h)
  \/ \E v \in Versions : InsertVersion(h, v) \/ DeleteVersion(h, v)
  \/ IncrementUsage(h)
  \/ DeleteObject(h) \/ DeleteRow(h)
  \/ \E l \in Links : AccessShareLink(h, l)
  \/ CountAccess(h) \/ Die(h)

RepositoryNext ==
  \/ \E h \in Handlers : RepositoryStep(h)
  \/ \E f \in Files : SoftDelete(f)
  \/ \E l \in Links : RevokeShareLink(l) \/ (\E f \in Files, max \in Limits : GenerateShareLink(l, f, max))

RepositorySpec == RepositoryInit /\ [][RepositoryNext]_vars

--------------------------------------------------------------------------------
(***************************************************************************)
(* Properties                                                              *)
(***************************************************************************)

\* "Cannot delete the current version": whatever overlaps, a file's current
\* version is in the table, and its object in the store, unless two versions
\* were given the key of that object: nothing tells then that it is in use.
CurrentIsWhole ==
  \A f \in Kept :
      /\ file[f].current \in VersionsOf(f)
      /\ version[file[f].current].key \in gone => version[file[f].current].key \in reused

\* Readers serve the version with the highest number: it is the current one,
\* and its number the total, so that the next addition finds a free number.
\* Otherwise an addition wrote a number it had read before another addition,
\* and that a deletion had freed since.
NewestIsCurrent ==
  \A f \in Kept \ disturbed :
      /\ version[file[f].current].number = file[f].total
      /\ \A v \in VersionsOf(f) : version[v].number <= file[f].total

\* The quota is checked before the upload is charged, the accesses of a share
\* link before they are counted: neither is overrun by more than the other
\* requests in flight.
Others == Cardinality(Handlers) - 1
OverrunsBounded ==
  /\ used <= Quota + Others
  /\ \A l \in Shared : link[l].max # 0 => link[l].count <= link[l].max + Others
================================================================================
