-------------------------------- MODULE Folders --------------------------------
(***************************************************************************)
(* The folders of a school's repository (repository-folder.service.ts), in *)
(* one scope: a name, a parent, and a depth that is written at creation    *)
(* and never again.                                                        *)
(*                                                                         *)
(* Every request reads first and writes in a later statement.  The unique  *)
(* key over tenant, name, parent, scope and scope id refuses nothing where *)
(* scope id is null, so the names are kept apart by the reads alone.       *)
(***************************************************************************)
EXTENDS Naturals, FiniteSets

CONSTANTS
  FolderIds,   \* uuids of repository_folders
  Names,
  Root,        \* "no parent folder"
  NoRow,       \* "this uuid is not in its table"
  Handlers,    \* requests in flight at the same time
  MaxDepth,    \* depth of the lowest folders (2)
  MaxRequests  \* bound: requests

VARIABLES
  folder,   \* repository_folders
  req,      \* the requests in flight
  served,   \* requests begun so far
  blurred   \* history: folders named, or parted from their parent, by a
            \* request while another one changed what it had read

folderVars == <<folder, blurred>>

--------------------------------------------------------------------------------
Folder == [parent : FolderIds \cup {Root}, depth : 0..MaxDepth, name : Names]

ASSUME FoldersAssumption ==
  NoRow \notin Folder /\ Root \notin FolderIds /\ MaxDepth \in Nat /\ MaxRequests \in Nat

Free == [pc |-> "free"]

\* A creation holds the row, a renaming the folder and the name, a deletion the
\* folder.  History, stale: another request put or named a folder where this one
\* looked.
FolderRequest ==
  {Free}
  \cup [pc : {"creatingFolder"}, row : Folder, stale : BOOLEAN]
  \cup [pc : {"renamingFolder"}, id : FolderIds, name : Names, stale : BOOLEAN]
  \cup [pc : {"deletingFolder"}, id : FolderIds, stale : BOOLEAN]

Existing == {d \in FolderIds : folder[d] # NoRow}
Children(p) == {d \in Existing : folder[d].parent = p}
Named(p, name) == {d \in Children(p) : folder[d].name = name}

FoldersTypeOK ==
  /\ folder \in [FolderIds -> Folder \cup {NoRow}]
  /\ \A d \in Existing : folder[d].parent \in Existing \cup {Root}
  /\ blurred \subseteq FolderIds

FoldersInit ==
  /\ folder = [d \in FolderIds |-> NoRow]
  /\ req = [h \in Handlers |-> Free]
  /\ served = 0
  /\ blurred = {}

--------------------------------------------------------------------------------
Begin(h, next) ==
  /\ req[h] = Free
  /\ served < MaxRequests
  /\ served' = served + 1
  /\ req' = [req EXCEPT ![h] = next]

\* What request v found out about the folders below p is outdated.
Overtaken(v, p) ==
  IF \/ v.pc = "creatingFolder" /\ v.row.parent = p
     \/ v.pc = "deletingFolder" /\ v.id = p
     \/ v.pc = "renamingFolder" /\ v.id \in Existing /\ folder[v.id].parent = p
  THEN [v EXCEPT !.stale = TRUE] ELSE v
FinishFolder(h, p) ==
  req' = [g \in Handlers |-> IF g = h THEN Free ELSE Overtaken(req[g], p)]

\* create reads the parent ("max depth is 2") and the name.
DepthBelow(p) == IF p = Root THEN 0 ELSE folder[p].depth + 1

\* Without a parent, the name is looked for in every folder.
Clashing(p, name) == IF p = Root THEN {d \in Existing : folder[d].name = name} ELSE Named(p, name)

\* Slip: the name is not looked for.
CreateAnyFolder(h, p, name) ==
  /\ p \in Existing \cup {Root}
  /\ p # Root => folder[p].depth < MaxDepth
  /\ Begin(h, [pc |-> "creatingFolder", stale |-> FALSE,
               row |-> [parent |-> p, depth |-> DepthBelow(p), name |-> name]])
  /\ UNCHANGED folderVars

CreateFolder(h, p, name) ==
  /\ p \in Existing \cup {Root}
  /\ p # Root => folder[p].depth < MaxDepth
  /\ Clashing(p, name) = {}
  /\ Begin(h, [pc |-> "creatingFolder", stale |-> FALSE,
               row |-> [parent |-> p, depth |-> DepthBelow(p), name |-> name]])
  /\ UNCHANGED folderVars

\* A new folder has a uuid no request knows.
FreshFolder(d) ==
  /\ d \notin Existing
  /\ \A h \in Handlers :
       /\ req[h].pc \in {"renamingFolder", "deletingFolder"} => req[h].id # d
       /\ req[h].pc = "creatingFolder" => req[h].row.parent # d

\* The foreign key refuses a parent that is gone.
InsertFolder(h, d) ==
  /\ req[h].pc = "creatingFolder"
  /\ LET r == req[h].row
     IN  IF r.parent \in Existing \cup {Root}
         THEN /\ FreshFolder(d)
              /\ folder' = [folder EXCEPT ![d] = r]
              /\ blurred' = IF req[h].stale THEN blurred \cup {d} ELSE blurred \ {d}
              /\ FinishFolder(h, r.parent)
         ELSE /\ req' = [req EXCEPT ![h] = Free]
              /\ UNCHANGED folderVars
  /\ UNCHANGED served

\* rename: the folder that is found may be the one to rename.
RenameFolder(h, d, name) ==
  /\ d \in Existing
  /\ Named(folder[d].parent, name) # {} => folder[d].name = name
  /\ Begin(h, [pc |-> "renamingFolder", id |-> d, name |-> name, stale |-> FALSE])
  /\ UNCHANGED folderVars

FolderRenamed(h) ==
  /\ req[h].pc = "renamingFolder"
  /\ LET d == req[h].id
     IN  IF d \in Existing
         THEN /\ folder' = [folder EXCEPT ![d].name = req[h].name]
              /\ blurred' = IF req[h].stale THEN blurred \cup {d} ELSE blurred
              /\ FinishFolder(h, folder[d].parent)
         ELSE /\ req' = [req EXCEPT ![h] = Free]
              /\ UNCHANGED folderVars
  /\ UNCHANGED served

\* delete: "You cannot delete a folder that still contains files or subfolders";
\* files refers to what is in the folder.  A subfolder that came in after the
\* read loses its parent, and a file makes the foreign key refuse the deletion.
DeleteFolder(h, d, files) ==
  /\ d \in Existing
  /\ Children(d) = {} /\ files = {}
  /\ Begin(h, [pc |-> "deletingFolder", id |-> d, stale |-> FALSE])
  /\ UNCHANGED folderVars

FolderDeleted(h, files) ==
  /\ req[h].pc = "deletingFolder"
  /\ LET d == req[h].id
     IN  IF d \in Existing /\ files = {}
         THEN /\ folder' = [e \in FolderIds |->
                   IF e = d THEN NoRow
                   ELSE IF e \in Children(d) THEN [folder[e] EXCEPT !.parent = Root]
                   ELSE folder[e]]
              /\ blurred' = (blurred \ {d}) \cup (IF req[h].stale THEN Children(d) ELSE {})
              /\ req' = [g \in Handlers |->
                   IF g = h THEN Free
                   ELSE IF Children(d) # {} THEN Overtaken(req[g], Root) ELSE req[g]]
         ELSE /\ req' = [req EXCEPT ![h] = Free]
              /\ UNCHANGED folderVars
  /\ UNCHANGED served

--------------------------------------------------------------------------------
(***************************************************************************)
(* Properties                                                              *)
(***************************************************************************)

\* Two folders of one name in one place need a request that overlapped another
\* one there, or the loss of a parent.
NamesTellApart ==
  \A d, e \in Existing :
    d # e /\ folder[d].parent = folder[e].parent /\ folder[d].name = folder[e].name
      => d \in blurred \/ e \in blurred

\* The depth of a folder is its place in the tree, unless its parent was deleted
\* while it came in; then it, and all below it, is nearer to the root than its
\* depth says.
DepthIsPlace ==
  \A d \in Existing :
    IF folder[d].parent = Root THEN folder[d].depth = 0 \/ d \in blurred
    ELSE folder[d].depth = folder[folder[d].parent].depth + 1

\* "Folder already exists", "max depth is 2": names and depths describe the tree,
\* but for what overlapping requests left.
TreeIsSound == NamesTellApart /\ DepthIsPlace
================================================================================
