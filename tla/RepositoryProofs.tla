--------------------------- MODULE RepositoryProofs ---------------------------
(***************************************************************************)
(* Proofs about Folders and Repository, for any number of folders, files,  *)
(* versions, links and overlapping requests, any quota and any depth.      *)
(***************************************************************************)
EXTENDS Repository, FiniteSetTheorems, TLAPS

USE DEF store

--------------------------------------------------------------------------------
(***************************************************************************)
(* Folders.                                                                *)
(***************************************************************************)

FolderPcs == {"creatingFolder", "renamingFolder", "deletingFolder"}

\* What a request about a folder may rely on while nothing happened where it
\* looked: the name it is about to write is still free there, or the folder has
\* it already; the folder it is about to delete is still empty.  A depth that
\* was read stays true in any case, for a folder never changes its own.
FolderSound(h) ==
  /\ req[h].pc = "creatingFolder" =>
       /\ req[h].row.parent = Root => req[h].row.depth = 0
       /\ req[h].row.parent \in Existing => req[h].row.depth = folder[req[h].row.parent].depth + 1
       /\ ~req[h].stale => Named(req[h].row.parent, req[h].row.name) = {}
  /\ req[h].pc = "renamingFolder" =>
       \/ req[h].stale \/ req[h].id \notin Existing \ blurred
       \/ Named(folder[req[h].id].parent, req[h].name) = {}
       \/ folder[req[h].id].name = req[h].name
  /\ req[h].pc = "deletingFolder" => req[h].stale \/ Children(req[h].id) = {}

\* The inductive invariant of the folders.
FolderInv ==
  /\ FoldersTypeOK
  /\ req \in [Handlers -> Request]
  /\ \A h \in Handlers : FolderSound(h)
  /\ TreeIsSound

\* A file's current version is in the table.
CurrentIsStored == \A f \in Kept : file[f].current \in VersionsOf(f)

\* The inductive invariant of the files.  A version that a request empties or
\* deletes is never current again; a number that was read is the next one as long
\* as no other version was added.
FileSound(h) ==
  /\ req[h].pc \in {"checking", "adding"} =>
       req[h].file \in Kept /\ (~req[h].stale => req[h].number = file[req[h].file].total + 1)
  /\ req[h].pc \in {"emptying", "deleting"} => \A f \in Kept : file[f].current # req[h].version

FileInv ==
  /\ RepositoryTypeOK
  /\ \A h \in Handlers : FileSound(h)
  /\ CurrentIsStored /\ NewestIsCurrent

\* The inductive invariant of the objects: a key that was not reused is one
\* version's, and a request that removes an object holds the key of its version.
Deleting(h) == req[h].pc \in {"emptying", "deleting"}

KeysInv ==
  /\ gone \subseteq taken
  /\ \A v \in Stored : version[v].key \in taken
  /\ \A v, w \in Stored : v # w /\ version[v].key = version[w].key => version[v].key \in reused
  /\ \A h \in Handlers : Deleting(h) =>
       /\ req[h].key \in taken
       /\ \A v \in Stored : v # req[h].version /\ version[v].key = req[h].key => req[h].key \in reused
  /\ \A f \in Kept : version[file[f].current].key \in gone => version[file[f].current].key \in reused

\* The requests that were granted a unit of quota and may still charge it, and
\* those that were granted an access to a link and may still count it.
Charging == {h \in Handlers : req[h].pc \in {"creating", "adding", "charging"}}
Opening(l) == {h \in Handlers : req[h].pc = "opening" /\ req[h].link = l}

\* The inductive invariant of the counters: what is counted and what is granted
\* together overrun the limit by no more than the other requests.
Granted ==
  /\ used + Cardinality(Charging) <= Quota + Others
  /\ \A l \in Shared : link[l].max # 0 => link[l].count + Cardinality(Opening(l)) <= link[l].max + Others
--------------------------------------------------------------------------------
\* To be overtaken is to be marked stale, and nothing else; who is not marked
\* did not look below p.
LEMMA OvertakenKeeps ==
  ASSUME NEW v \in Request, NEW p, NEW w, w = Overtaken(v, p)
  PROVE  /\ w \in Request /\ w.pc = v.pc
         /\ v.pc \notin FolderPcs => w = v
         /\ v.pc = "creatingFolder" => w.row = v.row /\ (w.stale \/ (w = v /\ v.row.parent # p))
         /\ v.pc = "renamingFolder" =>
              /\ w.id = v.id /\ w.name = v.name
              /\ w.stale \/ (w = v /\ ~(v.id \in Existing /\ folder[v.id].parent = p))
         /\ v.pc = "deletingFolder" => w.id = v.id /\ (w.stale \/ (w = v /\ v.id # p))
<1>1. CASE v.pc = "creatingFolder"
  <2> DEFINE S == [pc : {"creatingFolder"}, row : Folder, stale : BOOLEAN]
  <2>1. v \in S
    BY <1>1 DEF Request, FolderRequest, Free
  <2>2. w \in S
    BY <2>1, <1>1 DEF Overtaken
  <2>3. w \in Request
    BY <2>2 DEF Request, FolderRequest
  <2> QED
    BY <2>1, <2>2, <2>3, <1>1 DEF Overtaken, FolderPcs
<1>2. CASE v.pc = "renamingFolder"
  <2> DEFINE S == [pc : {"renamingFolder"}, id : FolderIds, name : Names, stale : BOOLEAN]
  <2>1. v \in S
    BY <1>2 DEF Request, FolderRequest, Free
  <2>2. w \in S
    BY <2>1, <1>2 DEF Overtaken
  <2>3. w \in Request
    BY <2>2 DEF Request, FolderRequest
  <2> QED
    BY <2>1, <2>2, <2>3, <1>2 DEF Overtaken, FolderPcs
<1>3. CASE v.pc = "deletingFolder"
  <2> DEFINE S == [pc : {"deletingFolder"}, id : FolderIds, stale : BOOLEAN]
  <2>1. v \in S
    BY <1>3 DEF Request, FolderRequest, Free
  <2>2. w \in S
    BY <2>1, <1>3 DEF Overtaken
  <2>3. w \in Request
    BY <2>2 DEF Request, FolderRequest
  <2> QED
    BY <2>1, <2>2, <2>3, <1>3 DEF Overtaken, FolderPcs
<1>4. CASE v.pc \notin FolderPcs
  BY <1>4 DEF Overtaken, FolderPcs
<1> QED
  BY <1>1, <1>2, <1>3, <1>4 DEF FolderPcs

\* What a request of each kind holds.
LEMMA FolderShape ==
  ASSUME NEW v \in Request
  PROVE  /\ v.pc = "creatingFolder" => v.row \in Folder /\ v.stale \in BOOLEAN
         /\ v.pc = "renamingFolder" => v.id \in FolderIds /\ v.name \in Names /\ v.stale \in BOOLEAN
         /\ v.pc = "deletingFolder" => v.id \in FolderIds /\ v.stale \in BOOLEAN
BY DEF Request, FolderRequest, Free

\* What one begins and how one ends are requests.
LEMMA FolderRecords ==
  /\ Free \in Request
  /\ \A r \in Folder, b \in BOOLEAN : [pc |-> "creatingFolder", stale |-> b, row |-> r] \in Request
  /\ \A d \in FolderIds, n \in Names, b \in BOOLEAN :
       [pc |-> "renamingFolder", id |-> d, name |-> n, stale |-> b] \in Request
  /\ \A d \in FolderIds, b \in BOOLEAN : [pc |-> "deletingFolder", id |-> d, stale |-> b] \in Request
BY DEF Request, FolderRequest, Free

\* One request moves while the folders stay: the others keep what they rely on.
LEMMA FoldersAside ==
  ASSUME FolderInv, NEW h \in Handlers, NEW v \in Request, req' = [req EXCEPT ![h] = v],
         UNCHANGED folderVars, FolderSound(h)'
  PROVE  FolderInv'
<1>1. FoldersTypeOK' /\ TreeIsSound'
  BY DEF FolderInv, folderVars, FoldersTypeOK, Existing, TreeIsSound, NamesTellApart, DepthIsPlace
<1>2. req' \in [Handlers -> Request]
  BY DEF FolderInv
<1>3. ASSUME NEW g \in Handlers, g # h
      PROVE  FolderSound(g)'
  <2>1. req'[g] = req[g] /\ FolderSound(g)
    BY <1>3 DEF FolderInv
  <2> QED
    BY <2>1 DEF FolderSound, folderVars, Existing, Children, Named
<1> QED
  BY <1>1, <1>2, <1>3 DEF FolderInv

\* A request about something else relies on no folder.
LEMMA OtherStepKeepsFolders ==
  ASSUME FolderInv, NEW h \in Handlers, NEW v \in Request, v.pc \notin FolderPcs,
         req' = [req EXCEPT ![h] = v], UNCHANGED folderVars
  PROVE  FolderInv'
<1>1. FolderSound(h)'
  BY DEF FolderSound, FolderPcs, FolderInv
<1> QED
  BY <1>1, FoldersAside

LEMMA CreateKeepsFolders ==
  ASSUME FolderInv, NEW h \in Handlers, NEW p \in FolderIds \cup {Root}, NEW name \in Names,
         CreateFolder(h, p, name)
  PROVE  FolderInv'
<1> DEFINE r == [parent |-> p, depth |-> DepthBelow(p), name |-> name]
           v == [pc |-> "creatingFolder", stale |-> FALSE, row |-> r]
<1>1. DepthBelow(p) \in 0..MaxDepth
  BY FoldersAssumption DEF CreateFolder, DepthBelow, FolderInv, FoldersTypeOK, Existing, Folder
<1>2. v \in Request
  BY <1>1, FolderRecords DEF Folder
<1>3. req' = [req EXCEPT ![h] = v] /\ UNCHANGED folderVars
  BY DEF CreateFolder, Begin
<1>4. Named(p, name) = {}
  BY DEF CreateFolder, Clashing, Named, Children
<1>5. FolderSound(h)'
  <2>1. req'[h] = v
    BY <1>3 DEF FolderInv
  <2> QED
    BY <2>1, <1>3, <1>4, FoldersAssumption
       DEF FolderSound, folderVars, DepthBelow, Existing, Named, Children, FolderInv
<1> QED
  BY <1>2, <1>3, <1>5, FoldersAside

LEMMA RenameKeepsFolders ==
  ASSUME FolderInv, NEW h \in Handlers, NEW d \in FolderIds, NEW name \in Names,
         RenameFolder(h, d, name)
  PROVE  FolderInv'
<1> DEFINE v == [pc |-> "renamingFolder", id |-> d, name |-> name, stale |-> FALSE]
<1>1. v \in Request
  BY FolderRecords
<1>2. req' = [req EXCEPT ![h] = v] /\ UNCHANGED folderVars
  BY DEF RenameFolder, Begin
<1>3. FolderSound(h)'
  <2>1. req'[h] = v
    BY <1>2 DEF FolderInv
  <2> QED
    BY <2>1, <1>2 DEF FolderSound, folderVars, Existing, Named, Children, RenameFolder
<1> QED
  BY <1>1, <1>2, <1>3, FoldersAside

LEMMA DeleteKeepsFolders ==
  ASSUME FolderInv, NEW h \in Handlers, NEW d \in FolderIds, NEW files, DeleteFolder(h, d, files)
  PROVE  FolderInv'
<1> DEFINE v == [pc |-> "deletingFolder", id |-> d, stale |-> FALSE]
<1>1. v \in Request
  BY FolderRecords
<1>2. req' = [req EXCEPT ![h] = v] /\ UNCHANGED folderVars
  BY DEF DeleteFolder, Begin
<1>3. FolderSound(h)'
  <2>1. req'[h] = v
    BY <1>2 DEF FolderInv
  <2> QED
    BY <2>1, <1>2 DEF FolderSound, folderVars, Existing, Children, DeleteFolder
<1> QED
  BY <1>1, <1>2, <1>3, FoldersAside

\* The insertion of a folder d as r says.
LEMMA InsertKeepsFolders ==
  ASSUME FolderInv, NEW h \in Handlers, NEW d \in FolderIds, InsertFolder(h, d)
  PROVE  FolderInv'
<1> USE DEF FolderInv
<1>1. CASE req[h].row.parent \notin Existing \cup {Root}
  BY <1>1, FolderRecords, OtherStepKeepsFolders DEF InsertFolder, Free, FolderPcs
<1>2. CASE req[h].row.parent \in Existing \cup {Root}
  <2> DEFINE r == req[h].row
  <2>1. /\ req[h].pc = "creatingFolder" /\ FreshFolder(d)
        /\ folder' = [folder EXCEPT ![d] = r]
        /\ blurred' = IF req[h].stale THEN blurred \cup {d} ELSE blurred \ {d}
        /\ FinishFolder(h, r.parent)
    BY <1>2 DEF InsertFolder
  <2>2. r \in Folder /\ req[h].stale \in BOOLEAN
    BY <2>1, FolderShape
  <2>3. d \notin Existing /\ folder'[d] = r /\ \A e \in FolderIds : e # d => folder'[e] = folder[e]
    BY <2>1 DEF FreshFolder, FoldersTypeOK
  <2>4. Existing' = Existing \cup {d}
    BY <2>2, <2>3, FoldersAssumption DEF Existing
  <2>5. r.parent # d /\ d # Root
    BY <1>2, <2>3, FoldersAssumption
  <2>6. FoldersTypeOK'
    BY <1>2, <2>1, <2>2, <2>3, <2>4 DEF FoldersTypeOK
  <2>7. \A q : r.parent # q => Children(q)' = Children(q)
    BY <2>3, <2>4 DEF Children, Existing
  <2>8. \A q, n : r.parent # q => Named(q, n)' = Named(q, n)
    <3> SUFFICES ASSUME NEW q, NEW n, r.parent # q PROVE Named(q, n)' = Named(q, n)
      OBVIOUS
    <3>1. Children(q)' = Children(q) /\ d \notin Children(q) /\ Children(q) \subseteq FolderIds
      BY <2>3, <2>7 DEF Children, Existing
    <3> QED
      BY <3>1, <2>3 DEF Named
  <2>9. req'[h] = Free /\ \A g \in Handlers : g # h => req'[g] = Overtaken(req[g], r.parent)
    BY <2>1 DEF FinishFolder
  <2>10. req' \in [Handlers -> Request]
    <3>1. req' = [g \in Handlers |-> IF g = h THEN Free ELSE Overtaken(req[g], r.parent)]
      BY <2>1 DEF FinishFolder
    <3>2. \A g \in Handlers : Overtaken(req[g], r.parent) \in Request
      BY OvertakenKeeps
    <3> QED
      BY <3>1, <3>2, FolderRecords
  <2>11. ASSUME NEW g \in Handlers, g # h
         PROVE  FolderSound(g)'
    <3> DEFINE v == req[g]
               w == req'[g]
    <3>1. w = Overtaken(v, r.parent) /\ v \in Request /\ FolderSound(g)
      BY <2>9, <2>11
    <3>2. CASE v.pc = "creatingFolder"
      <4>1. w.pc = v.pc /\ w.row = v.row /\ (w.stale \/ (w = v /\ v.row.parent # r.parent)) /\ v.row \in Folder
        BY <3>1, <3>2, OvertakenKeeps, FolderShape
      <4>2. v.row.parent # d
        BY <3>2, <2>1 DEF FreshFolder
      <4>3. v.row.parent \in Existing' => folder'[v.row.parent] = folder[v.row.parent] /\ v.row.parent \in Existing
        BY <4>2, <2>3, <2>4 DEF Existing
      <4> QED
        BY <3>1, <3>2, <4>1, <4>3, <2>8 DEF FolderSound
    <3>3. CASE v.pc = "renamingFolder"
      <4>1. /\ w.pc = v.pc /\ w.id = v.id /\ w.name = v.name /\ v.id \in FolderIds
            /\ w.stale \/ (w = v /\ ~(v.id \in Existing /\ folder[v.id].parent = r.parent))
        BY <3>1, <3>3, OvertakenKeeps, FolderShape
      <4>2. v.id # d
        BY <3>3, <2>1 DEF FreshFolder
      <4>3. /\ folder'[v.id] = folder[v.id]
            /\ v.id \in Existing' \ blurred' => v.id \in Existing \ blurred
        BY <4>1, <4>2, <2>1, <2>3, <2>4
      <4> QED
        BY <3>1, <3>3, <4>1, <4>3, <2>8 DEF FolderSound
    <3>4. CASE v.pc = "deletingFolder"
      <4>1. w.pc = v.pc /\ w.id = v.id /\ (w.stale \/ (w = v /\ v.id # r.parent))
        BY <3>1, <3>4, OvertakenKeeps
      <4> QED
        BY <3>1, <3>4, <4>1, <2>7 DEF FolderSound
    <3>5. CASE v.pc \notin FolderPcs
      <4>1. w = v
        BY <3>1, <3>5, OvertakenKeeps
      <4> QED
        BY <3>5, <4>1 DEF FolderSound, FolderPcs
    <3> QED
      BY <3>2, <3>3, <3>4, <3>5 DEF FolderPcs
  <2>12. FolderSound(h)'
    BY <2>9 DEF FolderSound, Free
  <2>13. NamesTellApart'
    <3>1. ~req[h].stale => Named(r.parent, r.name) = {}
      BY <2>1 DEF FolderSound
    <3>2. ASSUME NEW e \in Existing, folder[e].parent = r.parent, folder[e].name = r.name
          PROVE  d \in blurred'
      <4>1. e \in Named(r.parent, r.name)
        BY <3>2 DEF Named, Children
      <4> QED
        BY <3>1, <4>1, <2>1
    <3>3. \A e \in Existing : e # d /\ e \in FolderIds /\ folder'[e] = folder[e] /\ (e \in blurred => e \in blurred')
      BY <2>1, <2>3 DEF Existing
    <3> QED
      BY <2>3, <2>4, <3>2, <3>3 DEF NamesTellApart, TreeIsSound
  <2>14. DepthIsPlace'
    <3>1. /\ r.parent = Root => r.depth = 0
          /\ r.parent \in Existing => r.depth = folder[r.parent].depth + 1
      BY <2>1 DEF FolderSound
    <3>2. \A e \in Existing : e # d /\ e \in FolderIds /\ folder'[e] = folder[e] /\ (e \in blurred => e \in blurred')
      BY <2>1, <2>3 DEF Existing
    <3>3. \A e \in Existing : folder[e].parent \in Existing \cup {Root}
      BY DEF FoldersTypeOK
    <3> QED
      BY <1>2, <2>3, <2>4, <3>1, <3>2, <3>3 DEF DepthIsPlace, TreeIsSound
  <2> QED
    BY <2>6, <2>10, <2>11, <2>12, <2>13, <2>14 DEF TreeIsSound
<1> QED
  BY <1>1, <1>2

\* A folder is given the name it was looked up for.
LEMMA RenamedKeepsFolders ==
  ASSUME FolderInv, NEW h \in Handlers, FolderRenamed(h)
  PROVE  FolderInv'
<1> USE DEF FolderInv
<1> DEFINE d == req[h].id
           n == req[h].name
           p == folder[d].parent
<1>1. CASE d \notin Existing
  BY <1>1, FolderRecords, OtherStepKeepsFolders DEF FolderRenamed, Free, FolderPcs
<1>2. CASE d \in Existing
  <2>1. /\ req[h].pc = "renamingFolder" /\ d \in FolderIds /\ n \in Names /\ req[h].stale \in BOOLEAN
        /\ folder' = [folder EXCEPT ![d].name = n]
        /\ blurred' = IF req[h].stale THEN blurred \cup {d} ELSE blurred
        /\ FinishFolder(h, p)
    BY <1>2, FolderShape DEF FolderRenamed
  <2>2. folder[d] \in Folder
    BY <1>2 DEF FoldersTypeOK, Existing
  <2>3. /\ folder'[d] \in Folder /\ folder'[d].name = n
        /\ folder'[d].parent = p /\ folder'[d].depth = folder[d].depth
        /\ \A e \in FolderIds : e # d => folder'[e] = folder[e]
    BY <2>1, <2>2 DEF Folder, FoldersTypeOK
  <2>4. Existing' = Existing
    BY <1>2, <2>3, FoldersAssumption DEF Existing
  <2>5. \A q : Children(q)' = Children(q)
    BY <2>3, <2>4 DEF Children, Existing
  <2>6. \A q, m : q # p => Named(q, m)' = Named(q, m)
    <3> SUFFICES ASSUME NEW q, NEW m, q # p PROVE Named(q, m)' = Named(q, m)
      OBVIOUS
    <3>1. d \notin Children(q) /\ Children(q) \subseteq FolderIds
      BY DEF Children, Existing
    <3> QED
      BY <3>1, <2>3, <2>5 DEF Named
  <2>7. FoldersTypeOK'
    BY <2>1, <2>2, <2>3, <2>4 DEF FoldersTypeOK
  <2>8. req'[h] = Free /\ \A g \in Handlers : g # h => req'[g] = Overtaken(req[g], p)
    BY <2>1 DEF FinishFolder
  <2>9. req' \in [Handlers -> Request]
    <3>1. req' = [g \in Handlers |-> IF g = h THEN Free ELSE Overtaken(req[g], p)]
      BY <2>1 DEF FinishFolder
    <3>2. \A g \in Handlers : Overtaken(req[g], p) \in Request
      BY OvertakenKeeps
    <3> QED
      BY <3>1, <3>2, FolderRecords
  <2>10. ASSUME NEW g \in Handlers, g # h
         PROVE  FolderSound(g)'
    <3> DEFINE v == req[g]
               w == req'[g]
    <3>1. w = Overtaken(v, p) /\ v \in Request /\ FolderSound(g)
      BY <2>8, <2>10
    <3>2. CASE v.pc = "creatingFolder"
      <4>1. w.pc = v.pc /\ w.row = v.row /\ (w.stale \/ (w = v /\ v.row.parent # p))
        BY <3>1, <3>2, OvertakenKeeps
      <4>2. v.row.parent \in Existing => folder'[v.row.parent].depth = folder[v.row.parent].depth
        BY <2>3 DEF Existing
      <4> QED
        BY <3>1, <3>2, <4>1, <4>2, <2>4, <2>6 DEF FolderSound
    <3>3. CASE v.pc = "renamingFolder"
      <4>1. /\ w.pc = v.pc /\ w.id = v.id /\ w.name = v.name
            /\ w.stale \/ (w = v /\ ~(v.id \in Existing /\ folder[v.id].parent = p))
        BY <3>1, <3>3, OvertakenKeeps
      <4>2. CASE w.stale \/ v.id \notin Existing \ blurred
        BY <3>3, <4>1, <4>2, <2>1, <2>4 DEF FolderSound
      <4>3. CASE ~w.stale /\ v.id \in Existing \ blurred
        <5>1. v.id # d /\ folder'[v.id] = folder[v.id] /\ folder[v.id].parent # p
          BY <4>1, <4>3, <2>3 DEF Existing
        <5> QED
          BY <3>1, <3>3, <4>1, <4>3, <5>1, <2>6 DEF FolderSound
      <4> QED
        BY <4>2, <4>3
    <3>4. CASE v.pc = "deletingFolder"
      <4>1. w.pc = v.pc /\ w.id = v.id /\ (w.stale \/ w = v)
        BY <3>1, <3>4, OvertakenKeeps
      <4> QED
        BY <3>1, <3>4, <4>1, <2>5 DEF FolderSound
    <3>5. CASE v.pc \notin FolderPcs
      <4>1. w = v
        BY <3>1, <3>5, OvertakenKeeps
      <4> QED
        BY <3>5, <4>1 DEF FolderSound, FolderPcs
    <3> QED
      BY <3>2, <3>3, <3>4, <3>5 DEF FolderPcs
  <2>11. FolderSound(h)'
    BY <2>8 DEF FolderSound, Free
  <2>12. NamesTellApart'
    <3>1. \/ req[h].stale \/ d \in blurred
          \/ Named(p, n) = {} \/ folder[d].name = n
      BY <1>2, <2>1 DEF FolderSound
    <3>2. ASSUME NEW e \in Existing, e # d, folder[e].parent = p, folder[e].name = n
          PROVE  d \in blurred' \/ e \in blurred'
      <4>1. e \in Named(p, n)
        BY <3>2 DEF Named, Children
      <4>2. folder[d].name = n => d \in blurred \/ e \in blurred
        BY <1>2, <3>2 DEF NamesTellApart, TreeIsSound
      <4> QED
        BY <3>1, <4>1, <4>2, <2>1
    <3>3. \A e \in Existing : e # d => e \in FolderIds /\ folder'[e] = folder[e]
      BY <2>3 DEF Existing
    <3>4. \A e \in Existing : e \in blurred => e \in blurred'
      BY <2>1
    <3> QED
      BY <2>3, <2>4, <3>2, <3>3, <3>4 DEF NamesTellApart, TreeIsSound
  <2>13. DepthIsPlace'
    <3>1. \A e \in Existing : /\ folder'[e].parent = folder[e].parent /\ folder'[e].depth = folder[e].depth
                              /\ (e \in blurred => e \in blurred')
      BY <2>1, <2>3 DEF Existing
    <3>2. \A e \in Existing : folder[e].parent \in Existing \cup {Root}
      BY DEF FoldersTypeOK
    <3> QED
      BY <2>4, <3>1, <3>2 DEF DepthIsPlace, TreeIsSound
  <2> QED
    BY <2>7, <2>9, <2>10, <2>11, <2>12, <2>13 DEF TreeIsSound
<1> QED
  BY <1>1, <1>2

\* A folder goes; what came in below it is left at the root, and known to be there
\* by accident.
LEMMA DeletedKeepsFolders ==
  ASSUME FolderInv, NEW h \in Handlers, NEW files, req[h].pc = "deletingFolder", FolderDeleted(h, files)
  PROVE  FolderInv'
<1> USE DEF FolderInv
<1> DEFINE d == req[h].id
           K == Children(d)
<1>1. CASE ~(d \in Existing /\ files = {})
  BY <1>1, FolderRecords, OtherStepKeepsFolders DEF FolderDeleted, Free, FolderPcs
<1>2. CASE d \in Existing /\ files = {}
  <2>1. /\ d \in FolderIds /\ d # Root
        /\ folder' = [e \in FolderIds |->
              IF e = d THEN NoRow ELSE IF e \in K THEN [folder[e] EXCEPT !.parent = Root] ELSE folder[e]]
        /\ blurred' = (blurred \ {d}) \cup (IF req[h].stale THEN K ELSE {})
        /\ req' = [g \in Handlers |->
              IF g = h THEN Free ELSE IF K # {} THEN Overtaken(req[g], Root) ELSE req[g]]
    BY <1>2, FoldersAssumption DEF FolderDeleted, Existing
  <2>2. blurred' = (blurred \ {d}) \cup K
    BY <2>1 DEF FolderSound
  <2>3. \A e \in Existing : folder[e] \in Folder /\ e \in FolderIds
    BY DEF FoldersTypeOK, Existing
  <2>4. /\ folder'[d] = NoRow
        /\ \A e \in Existing \ {d} :
             /\ folder'[e] \in Folder
             /\ folder'[e].name = folder[e].name /\ folder'[e].depth = folder[e].depth
             /\ folder'[e].parent = (IF e \in K THEN Root ELSE folder[e].parent)
             /\ e \notin K => folder'[e] = folder[e]
        /\ \A e \in FolderIds \ Existing : folder'[e] = NoRow
    BY <2>1, <2>3 DEF Folder, Children, Existing
  <2>5. Existing' = Existing \ {d}
    BY <2>1, <2>4, FoldersAssumption DEF Existing
  <2>6. FoldersTypeOK'
    <3>1. folder' \in [FolderIds -> Folder \cup {NoRow}]
      BY <2>1, <2>4
    <3>2. \A e \in Existing' : folder'[e].parent \in Existing' \cup {Root}
      BY <2>3, <2>4, <2>5 DEF FoldersTypeOK, Children
    <3>3. blurred' \subseteq FolderIds
      BY <2>2 DEF FoldersTypeOK, Children, Existing
    <3> QED
      BY <3>1, <3>2, <3>3 DEF FoldersTypeOK
  <2>7. \A q : q # Root \/ K = {} => Children(q)' \subseteq Children(q)
    BY <2>4, <2>5 DEF Children
  <2>8. \A q, m : q # Root \/ K = {} => Named(q, m)' \subseteq Named(q, m)
    <3> SUFFICES ASSUME NEW q, NEW m, q # Root \/ K = {} PROVE Named(q, m)' \subseteq Named(q, m)
      OBVIOUS
    <3>1. Children(q)' \subseteq Children(q) /\ Children(q)' \subseteq Existing \ {d}
      BY <2>5, <2>7 DEF Children
    <3> QED
      BY <3>1, <2>4 DEF Named
  <2>9. ASSUME NEW g \in Handlers
        PROVE  req'[g] \in Request /\ FolderSound(g)'
    <3> DEFINE v == req[g]
               w == req'[g]
    <3>1. CASE g = h
      BY <2>1, <3>1, FolderRecords DEF FolderSound, Free
    <3>2. CASE g # h
      <4>1. v \in Request /\ FolderSound(g) /\ (w = Overtaken(v, Root) \/ (K = {} /\ w = v))
        BY <2>1, <3>2
      <4>2. CASE v.pc = "creatingFolder"
        <5>1. /\ w \in Request /\ w.pc = v.pc /\ w.row = v.row
              /\ w.stale \/ (w = v /\ (v.row.parent # Root \/ K = {}))
          BY <4>1, <4>2, OvertakenKeeps
        <5>2. v.row.parent \in Existing' =>
                v.row.parent \in Existing /\ folder'[v.row.parent].depth = folder[v.row.parent].depth
          BY <2>4, <2>5
        <5> QED
          BY <4>1, <4>2, <5>1, <5>2, <2>8 DEF FolderSound
      <4>3. CASE v.pc = "renamingFolder"
        <5>1. /\ w \in Request /\ w.pc = v.pc /\ w.id = v.id /\ w.name = v.name
              /\ w.stale \/ (w = v /\ (K = {} \/ ~(v.id \in Existing /\ folder[v.id].parent = Root)))
          BY <4>1, <4>3, OvertakenKeeps
        <5>2. CASE w.stale \/ v.id \notin Existing' \ blurred'
          BY <4>3, <5>1, <5>2 DEF FolderSound
        <5>3. CASE ~w.stale /\ v.id \in Existing' \ blurred'
          <6>1. v.id \in Existing \ blurred /\ v.id \notin K /\ v.id # d
            BY <5>3, <2>2, <2>5
          <6>2. folder'[v.id] = folder[v.id] /\ (folder[v.id].parent # Root \/ K = {})
            BY <5>1, <5>3, <6>1, <2>4
          <6> QED
            BY <4>1, <4>3, <5>1, <5>3, <6>1, <6>2, <2>8 DEF FolderSound
        <5> QED
          BY <5>1, <5>2, <5>3
      <4>4. CASE v.pc = "deletingFolder"
        <5>1. w \in Request /\ w.pc = v.pc /\ w.id = v.id /\ (w.stale \/ w = v) /\ v.id \in FolderIds
          BY <4>1, <4>4, OvertakenKeeps, FolderShape
        <5>2. v.id # Root
          BY <5>1, FoldersAssumption
        <5> QED
          BY <4>1, <4>4, <5>1, <5>2, <2>7 DEF FolderSound
      <4>5. CASE v.pc \notin FolderPcs
        <5>1. w = v
          BY <4>1, <4>5, OvertakenKeeps
        <5> QED
          BY <4>1, <4>5, <5>1 DEF FolderSound, FolderPcs
      <4> QED
        BY <4>2, <4>3, <4>4, <4>5 DEF FolderPcs
    <3> QED
      BY <3>1, <3>2
  <2>10. req' \in [Handlers -> Request]
    BY <2>1, <2>9
  <2>11. NamesTellApart'
    <3>1. \A e \in Existing' \ blurred' : e \in Existing \ blurred /\ folder'[e] = folder[e]
      BY <2>2, <2>4, <2>5
    <3> QED
      BY <3>1 DEF NamesTellApart, TreeIsSound
  <2>12. DepthIsPlace'
    <3> SUFFICES ASSUME NEW e \in Existing'
                 PROVE  IF folder'[e].parent = Root THEN folder'[e].depth = 0 \/ e \in blurred'
                        ELSE folder'[e].depth = folder'[folder'[e].parent].depth + 1
      BY DEF DepthIsPlace
    <3>1. e \in Existing /\ e # d
      BY <2>5
    <3>2. CASE e \in K
      BY <3>1, <3>2, <2>2, <2>4
    <3>3. CASE e \notin K
      <4>1. folder'[e] = folder[e] /\ (e \in blurred => e \in blurred')
        BY <3>1, <3>3, <2>2, <2>4
      <4>2. CASE folder[e].parent = Root
        BY <3>1, <4>1, <4>2 DEF DepthIsPlace, TreeIsSound
      <4>3. CASE folder[e].parent # Root
        <5>1. folder[e].parent \in Existing \ {d}
          BY <3>1, <3>3, <4>3 DEF FoldersTypeOK, Children
        <5>2. folder'[folder[e].parent].depth = folder[folder[e].parent].depth
          BY <5>1, <2>4
        <5> QED
          BY <3>1, <4>1, <4>3, <5>2 DEF DepthIsPlace, TreeIsSound
      <4> QED
        BY <4>2, <4>3
    <3> QED
      BY <3>2, <3>3
  <2> QED
    BY <2>6, <2>9, <2>10, <2>11, <2>12 DEF TreeIsSound
<1> QED
  BY <1>1, <1>2

LEMMA FolderStepKeepsFolders ==
  ASSUME FolderInv, NEW h \in Handlers, FolderStep(h)
  PROVE  FolderInv'
BY CreateKeepsFolders, InsertKeepsFolders, RenameKeepsFolders, RenamedKeepsFolders, DeleteKeepsFolders,
   DeletedKeepsFolders
   DEF FolderStep

--------------------------------------------------------------------------------
(***************************************************************************)
(* Files, versions and links.                                              *)
(***************************************************************************)

\* What a request about a file, a version or a link holds.
LEMMA FileShape ==
  ASSUME NEW v \in Request
  PROVE  /\ v.pc = "creating" => v.folder \in FolderIds /\ v.key \in Keys
         /\ v.pc \in {"checking", "adding"} =>
              v \in [pc : {"checking", "adding"}, file : Files, number : Nat, key : Keys, stale : BOOLEAN]
         /\ v.pc \in {"emptying", "deleting"} => v \in [pc : {"emptying", "deleting"}, version : Versions, key : Keys]
         /\ v.pc = "opening" => v.link \in Links
BY DEF Request, FolderRequest, Free

LEMMA FileRecords ==
  /\ Free \in Request
  /\ [pc |-> "charging"] \in Request
  /\ \A d \in FolderIds, k \in Keys : [pc |-> "creating", folder |-> d, key |-> k] \in Request
  /\ \A f \in Files, n \in Nat, k \in Keys, b \in BOOLEAN :
       [pc |-> "checking", file |-> f, number |-> n, key |-> k, stale |-> b] \in Request
  /\ \A v \in Versions, k \in Keys, p \in {"emptying", "deleting"} :
       [pc |-> p, version |-> v, key |-> k] \in Request
  /\ \A l \in Links : [pc |-> "opening", link |-> l] \in Request
BY DEF Request, FolderRequest, Free

\* The pc names of the steps that the invariant says something about.
FilePcs == {"checking", "adding", "emptying", "deleting"}

\* Nothing happens to files and versions, and who moves on still knows what it
\* relies on.
LEMMA FilesAside ==
  ASSUME FileInv, FoldersTypeOK', req' \in [Handlers -> Request],
         UNCHANGED <<file, version, store, disturbed>>,
         \A f \in Kept : file[f].folder \in Existing',
         \A g \in Handlers : req'[g] = req[g] \/ FileSound(g)',
         used' \in Nat, served' \in Nat,
         link' \in [Links -> Link \cup {NoRow}], \A l \in Shared' : file[link'[l].file] # NoRow
  PROVE  FileInv'
<1>1. Kept' = Kept /\ Stored' = Stored /\ \A f : VersionsOf(f)' = VersionsOf(f)
  BY DEF Kept, Stored, VersionsOf
<1>2. RepositoryTypeOK'
  BY <1>1 DEF FileInv, RepositoryTypeOK
<1>3. \A g \in Handlers : FileSound(g)'
  BY <1>1 DEF FileInv, FileSound
<1>4. CurrentIsStored' /\ NewestIsCurrent'
  BY <1>1 DEF FileInv, CurrentIsStored, NewestIsCurrent
<1> QED
  BY <1>2, <1>3, <1>4 DEF FileInv

\* One request moves and nothing else happens.
LEMMA RequestAside ==
  ASSUME FileInv, NEW h \in Handlers, NEW v \in Request, req' = [req EXCEPT ![h] = v],
         v.pc \notin FilePcs \/ FileSound(h)', served' \in Nat,
         UNCHANGED <<folderVars, file, version, store, used, link, disturbed>>
  PROVE  FileInv'
<1>1. req' \in [Handlers -> Request] /\ req'[h] = v /\ \A g \in Handlers : g # h => req'[g] = req[g]
  BY DEF FileInv, RepositoryTypeOK
<1>2. FoldersTypeOK' /\ Existing' = Existing /\ Shared' = Shared
  BY DEF FileInv, RepositoryTypeOK, folderVars, FoldersTypeOK, Existing, Shared
<1>3. FileSound(h)'
  BY <1>1 DEF FileSound, FilePcs
<1> QED
  BY <1>1, <1>2, <1>3, FilesAside DEF FileInv, RepositoryTypeOK

\* A folder request is about no file, and deletes no folder that files are in.
LEMMA FolderStepFrame ==
  ASSUME FolderInv, NEW h \in Handlers, FolderStep(h)
  PROVE  /\ \A g \in Handlers :
              req'[g] = req[g] \/ {req[g].pc, req'[g].pc} \subseteq FolderPcs \cup {"free"}
         /\ \A f \in Kept : file[f].folder \in Existing => file[f].folder \in Existing'
         /\ served' \in {served, served + 1} /\ UNCHANGED fileVars
<1> USE DEF FolderPcs, FolderInv, Free
<1>1. ASSUME NEW p \in FolderIds \cup {Root}, NEW name \in Names, CreateFolder(h, p, name)
      PROVE  \A g \in Handlers : req'[g] = req[g] \/ {req[g].pc, req'[g].pc} \subseteq FolderPcs \cup {"free"}
  BY <1>1 DEF CreateFolder, Begin
<1>2. ASSUME NEW d \in FolderIds, NEW name \in Names, RenameFolder(h, d, name)
      PROVE  \A g \in Handlers : req'[g] = req[g] \/ {req[g].pc, req'[g].pc} \subseteq FolderPcs \cup {"free"}
  BY <1>2 DEF RenameFolder, Begin
<1>3. ASSUME NEW d \in FolderIds, DeleteFolder(h, d, FilesIn(d))
      PROVE  \A g \in Handlers : req'[g] = req[g] \/ {req[g].pc, req'[g].pc} \subseteq FolderPcs \cup {"free"}
  BY <1>3 DEF DeleteFolder, Begin
<1>4. ASSUME NEW p, NEW g \in Handlers, req'[g] = Overtaken(req[g], p)
      PROVE  req'[g] = req[g] \/ {req[g].pc, req'[g].pc} \subseteq FolderPcs \cup {"free"}
  BY <1>4, OvertakenKeeps
<1>5. ASSUME NEW d \in FolderIds, InsertFolder(h, d)
      PROVE  \A g \in Handlers : req'[g] = req[g] \/ {req[g].pc, req'[g].pc} \subseteq FolderPcs \cup {"free"}
  <2>1. /\ req[h].pc = "creatingFolder" /\ req'[h] = Free
        /\ \A g \in Handlers : g # h => req'[g] = req[g] \/ req'[g] = Overtaken(req[g], req[h].row.parent)
    BY <1>5 DEF InsertFolder, FinishFolder
  <2> QED
    BY <2>1, <1>4
<1>6. ASSUME FolderRenamed(h)
      PROVE  \A g \in Handlers : req'[g] = req[g] \/ {req[g].pc, req'[g].pc} \subseteq FolderPcs \cup {"free"}
  <2>1. /\ req[h].pc = "renamingFolder" /\ req'[h] = Free
        /\ \A g \in Handlers : g # h => req'[g] = req[g] \/ req'[g] = Overtaken(req[g], folder[req[h].id].parent)
    BY <1>6 DEF FolderRenamed, FinishFolder
  <2> QED
    BY <2>1, <1>4
<1>7. ASSUME req[h].pc = "deletingFolder", FolderDeleted(h, FilesIn(req[h].id))
      PROVE  \A g \in Handlers : req'[g] = req[g] \/ {req[g].pc, req'[g].pc} \subseteq FolderPcs \cup {"free"}
  <2>1. /\ req'[h] = Free
        /\ \A g \in Handlers : g # h => req'[g] = req[g] \/ req'[g] = Overtaken(req[g], Root)
    BY <1>7 DEF FolderDeleted
  <2> QED
    BY <1>7, <2>1, <1>4
<1>8. \A g \in Handlers : req'[g] = req[g] \/ {req[g].pc, req'[g].pc} \subseteq FolderPcs \cup {"free"}
  BY <1>1, <1>2, <1>3, <1>5, <1>6, <1>7 DEF FolderStep
<1>9. ASSUME NEW f \in Kept, file[f].folder \in Existing
      PROVE  file[f].folder \in Existing'
  <2> DEFINE e == file[f].folder
  <2>1. folder[e] \in Folder /\ e \in FolderIds
    BY <1>9 DEF FoldersTypeOK, Existing
  <2>2. CASE folder' = folder
    BY <1>9, <2>2 DEF Existing
  <2>3. ASSUME NEW d \in FolderIds, InsertFolder(h, d)
        PROVE  e \in Existing'
    <3>1. folder' = folder \/ (d # e /\ folder' = [folder EXCEPT ![d] = req[h].row])
      BY <2>3, <1>9 DEF InsertFolder, FreshFolder, folderVars
    <3> QED
      BY <3>1, <1>9, <2>1 DEF Existing, FoldersTypeOK
  <2>4. CASE FolderRenamed(h)
    <3>1. folder' = folder \/ folder' = [folder EXCEPT ![req[h].id].name = req[h].name]
      BY <2>4 DEF FolderRenamed, folderVars
    <3>2. req[h].name \in Names
      BY <2>4, FolderShape DEF FolderRenamed
    <3>3. folder'[e] \in Folder
      BY <3>1, <3>2, <2>1 DEF Folder, FoldersTypeOK
    <3> QED
      BY <3>3, <2>1, FoldersAssumption DEF Existing
  <2>5. CASE req[h].pc = "deletingFolder" /\ FolderDeleted(h, FilesIn(req[h].id))
    <3> DEFINE d == req[h].id
    <3>1. CASE folder' = folder
      BY <1>9, <3>1 DEF Existing
    <3>2. CASE /\ FilesIn(d) = {}
               /\ folder' = [x \in FolderIds |->
                     IF x = d THEN NoRow
                     ELSE IF x \in Children(d) THEN [folder[x] EXCEPT !.parent = Root] ELSE folder[x]]
      <4>1. e # d
        BY <3>2 DEF FilesIn
      <4>2. folder'[e] \in Folder
        BY <3>2, <4>1, <2>1 DEF Folder
      <4> QED
        BY <4>2, <2>1, FoldersAssumption DEF Existing
    <3> QED
      BY <2>5, <3>1, <3>2 DEF FolderDeleted, folderVars
  <2> QED
    BY <2>2, <2>3, <2>4, <2>5 DEF FolderStep, CreateFolder, RenameFolder, DeleteFolder, folderVars
<1>10. served' \in {served, served + 1}
  BY DEF FolderStep, CreateFolder, RenameFolder, DeleteFolder, Begin, InsertFolder, FolderRenamed, FolderDeleted
<1> QED
  BY <1>8, <1>9, <1>10 DEF FolderStep

LEMMA FolderStepKeepsFiles ==
  ASSUME FolderInv, FolderInv', FileInv, NEW h \in Handlers, FolderStep(h)
  PROVE  FileInv'
<1>1. \A g \in Handlers : req'[g] = req[g] \/ FileSound(g)'
  BY FolderStepFrame DEF FileSound, FolderPcs
<1>2. Shared' = Shared
  BY FolderStepFrame DEF Shared, fileVars
<1> QED
  BY <1>1, <1>2, FolderStepFrame, FilesAside DEF fileVars, FolderInv, FileInv, RepositoryTypeOK

\* One request moves on, and it is still about no folder.
LEMMA FileStepKeepsFolders ==
  ASSUME FolderInv, NEW h \in Handlers, req' \in [Handlers -> Request],
         req[h].pc \notin FolderPcs, req'[h].pc \notin FolderPcs,
         \A g \in Handlers : g # h => req'[g] = req[g] \/ {req[g].pc, req'[g].pc} \subseteq FilePcs,
         UNCHANGED folderVars
  PROVE  FolderInv'
<1>1. FoldersTypeOK' /\ TreeIsSound'
  BY DEF FolderInv, folderVars, FoldersTypeOK, Existing, TreeIsSound, NamesTellApart, DepthIsPlace
<1>2. ASSUME NEW g \in Handlers
      PROVE  FolderSound(g)'
  <2>1. CASE req'[g] = req[g]
    <3>1. FolderSound(g)
      BY DEF FolderInv
    <3> QED
      BY <2>1, <3>1 DEF FolderSound, folderVars, Existing, Children, Named
  <2>2. CASE req'[g].pc \notin FolderPcs
    BY <2>2 DEF FolderSound, FolderPcs
  <2> QED
    BY <2>1, <2>2 DEF FilePcs, FolderPcs
<1> QED
  BY <1>1, <1>2 DEF FolderInv

LEMMA InsertFileKeepsFiles ==
  ASSUME FileInv, NEW h \in Handlers, NEW f \in Files, NEW v \in Versions, InsertFile(h, f, v)
  PROVE  FileInv'
<1>1. CASE req[h].folder \notin Existing
  BY <1>1, RequestAside, FileRecords DEF InsertFile, Free, FilePcs, FileInv, RepositoryTypeOK
<1>2. CASE req[h].folder \in Existing
  <2> DEFINE d == req[h].folder
             k == req[h].key
  <2>1. /\ req[h].pc = "creating" /\ f \notin Kept /\ Fresh(v)
        /\ file' = [file EXCEPT ![f] = [folder |-> d, total |-> 1, current |-> v, archived |-> FALSE]]
        /\ version' = [version EXCEPT ![v] = [file |-> f, number |-> 1, key |-> k]]
        /\ req' = [req EXCEPT ![h] = [pc |-> "charging"]]
        /\ Takes(k)
        /\ UNCHANGED <<folderVars, used, link, served, disturbed>>
    BY <1>2 DEF InsertFile
  <2>2. d \in FolderIds /\ k \in Keys
    BY <2>1, FileShape DEF FileInv, RepositoryTypeOK
  <2>3. /\ file'[f] = [folder |-> d, total |-> 1, current |-> v, archived |-> FALSE]
        /\ version'[v] = [file |-> f, number |-> 1, key |-> k]
        /\ \A e \in Files : e # f => file'[e] = file[e]
        /\ \A w \in Versions : w # v => version'[w] = version[w]
    BY <2>1 DEF FileInv, RepositoryTypeOK
  <2>4. file'[f] \in File /\ version'[v] \in Version
    BY <2>2, <2>3 DEF File, Version
  <2>14. gone' \subseteq Keys /\ taken' \subseteq Keys /\ reused' \subseteq Keys
    BY <2>1, <2>2 DEF Takes, FileInv, RepositoryTypeOK
  <2>5. Kept' = Kept \cup {f} /\ Stored' = Stored \cup {v} /\ v \notin Stored
    <3>1. file'[f] # NoRow /\ version'[v] # NoRow
      BY <2>4, RepositoryAssumption
    <3>2. Kept' = Kept \cup {f}
      BY <2>3, <3>1 DEF Kept
    <3>3. Stored' = Stored \cup {v}
      BY <2>3, <3>1 DEF Stored
    <3> QED
      BY <2>1, <3>2, <3>3 DEF Fresh
  <2>6. \A w \in Stored : version[w].file \in Kept
    BY DEF FileInv, RepositoryTypeOK, Stored, Kept, Version
  <2>7. VersionsOf(f)' = {v} /\ \A e \in Kept : VersionsOf(e)' = VersionsOf(e)
    <3>1. \A e : VersionsOf(e)' = {w \in Stored' : version'[w].file = e}
      BY DEF VersionsOf
    <3> QED
      BY <3>1, <2>1, <2>3, <2>5, <2>6 DEF VersionsOf, Stored
  <2>8. \A g \in Handlers : g # h => req'[g] = req[g]
    BY <2>1 DEF FileInv, RepositoryTypeOK
  <2>9. req'[h] = [pc |-> "charging"] /\ req' \in [Handlers -> Request]
    BY <2>1, FileRecords DEF FileInv, RepositoryTypeOK
  <2>10. RepositoryTypeOK'
    <3>1. FoldersTypeOK' /\ Existing' = Existing
      BY <2>1 DEF FileInv, RepositoryTypeOK, FoldersTypeOK, Existing, folderVars
    <3>2. file' \in [Files -> File \cup {NoRow}] /\ version' \in [Versions -> Version \cup {NoRow}]
      BY <2>1, <2>3, <2>4 DEF FileInv, RepositoryTypeOK
    <3>3. \A e \in Kept' : file'[e].folder \in Existing
      BY <1>2, <2>1, <2>3, <2>5 DEF FileInv, RepositoryTypeOK, Kept
    <3>4. \A w \in Stored' : file'[version'[w].file] # NoRow
      BY <2>1, <2>3, <2>4, <2>5, <2>6, RepositoryAssumption DEF Kept, Stored
    <3>5. \A l \in Shared' : file'[link'[l].file] # NoRow
      BY <2>1, <2>3, <2>4, RepositoryAssumption DEF FileInv, RepositoryTypeOK, Shared, Link, Kept
    <3> QED
      BY <3>1, <3>2, <3>3, <3>4, <3>5, <2>1, <2>5, <2>9, <2>14 DEF FileInv, RepositoryTypeOK
  <2>11. ASSUME NEW g \in Handlers PROVE FileSound(g)'
    <3>1. CASE g = h
      BY <2>9, <3>1 DEF FileSound
    <3>2. CASE g # h
      <4>1. req'[g] = req[g] /\ FileSound(g)
        BY <2>8, <3>2 DEF FileInv
      <4>2. req[g].pc \in {"emptying", "deleting"} => req[g].version # v
        BY <2>1 DEF Fresh
      <4> QED
        BY <4>1, <4>2, <2>1, <2>3, <2>5 DEF FileSound, Kept
    <3> QED
      BY <3>1, <3>2
  <2>12. CurrentIsStored'
    BY <2>1, <2>3, <2>5, <2>7 DEF CurrentIsStored, Kept, FileInv, RepositoryTypeOK
  <2>13. NewestIsCurrent'
    <3>1. \A e \in Kept \ disturbed : version'[file[e].current] = version[file[e].current]
      BY <2>3, <2>5 DEF FileInv, CurrentIsStored, VersionsOf, Stored
    <3>2. \A e \in Kept : \A w \in VersionsOf(e) : version'[w] = version[w]
      BY <2>3, <2>5 DEF VersionsOf, Stored
    <3> QED
      BY <3>1, <3>2, <2>1, <2>3, <2>5, <2>7 DEF NewestIsCurrent, Kept, FileInv
  <2> QED
    BY <2>10, <2>11, <2>12, <2>13 DEF FileInv
<1> QED
  BY <1>1, <1>2

LEMMA AddKeepsFiles ==
  ASSUME FileInv, NEW h \in Handlers, NEW f \in Files, NEW k \in Keys, AddNewVersion(h, f, k)
  PROVE  FileInv'
<1> DEFINE v == [pc |-> "checking", file |-> f, number |-> file[f].total + 1, key |-> k, stale |-> FALSE]
<1>1. f \in Kept /\ file[f] \in File
  BY DEF AddNewVersion, Readable, Kept, FileInv, RepositoryTypeOK
<1>2. v \in Request
  <2>1. file[f].total + 1 \in Nat
    BY <1>1 DEF File
  <2>2. \A n \in Nat : [pc |-> "checking", file |-> f, number |-> n, key |-> k, stale |-> FALSE] \in Request
    BY FileRecords
  <2> QED
    BY <2>1, <2>2
<1>3. /\ req' = [req EXCEPT ![h] = v] /\ served' \in Nat
      /\ UNCHANGED <<folderVars, file, version, store, used, link, disturbed>>
  BY DEF AddNewVersion, Begin, FileInv, RepositoryTypeOK
<1>4. FileSound(h)'
  <2>1. req'[h] = v /\ Kept' = Kept /\ file' = file
    BY <1>3 DEF FileInv, RepositoryTypeOK, Kept
  <2> QED
    BY <1>1, <2>1 DEF FileSound
<1> HIDE DEF v
<1> QED
  BY <1>2, <1>3, <1>4, RequestAside

LEMMA CheckKeepsFiles ==
  ASSUME FileInv, NEW h \in Handlers, CheckQuota(h)
  PROVE  FileInv'
<1>1. req[h] \in [pc : {"checking", "adding"}, file : Files, number : Nat, key : Keys, stale : BOOLEAN]
  BY FileShape DEF CheckQuota, FileInv, RepositoryTypeOK
<1>2. PICK v \in {Free, [req[h] EXCEPT !.pc = "adding"]} : req' = [req EXCEPT ![h] = v]
  BY DEF CheckQuota
<1>3. v \in Request
  BY <1>1, <1>2, FileRecords DEF Request
<1>4. UNCHANGED <<folderVars, file, version, store, used, link, disturbed>> /\ served' \in Nat /\ Kept' = Kept
  BY DEF CheckQuota, FileInv, RepositoryTypeOK, Kept
<1>5. req'[h] = v
  BY <1>2 DEF FileInv, RepositoryTypeOK
<1>6. v.pc \notin FilePcs \/ FileSound(h)'
  <2>1. CASE v = Free
    BY <2>1 DEF Free, FilePcs
  <2>2. CASE v = [req[h] EXCEPT !.pc = "adding"]
    <3>1. v.pc = "adding" /\ v.file = req[h].file /\ v.number = req[h].number /\ v.stale = req[h].stale
      BY <1>1, <2>2
    <3>2. FileSound(h) /\ req[h].pc \in {"checking", "adding"}
      BY <1>1 DEF FileInv
    <3> QED
      BY <3>1, <3>2, <1>4, <1>5 DEF FileSound
  <2> QED
    BY <1>2, <2>1, <2>2
<1> QED
  BY <1>2, <1>3, <1>4, <1>6, RequestAside

\* What becomes of the other requests when a version is inserted.
LEMMA OutdatedKeeps ==
  ASSUME NEW g \in Handlers, req[g] \in Request, NEW f, NEW w, w = Outdated(g, f)
  PROVE  /\ w \in Request /\ w.pc = req[g].pc
         /\ w = req[g] \/ (w.pc \in {"checking", "adding"} /\ w.stale /\ w.file = f)
         /\ w.pc \in {"checking", "adding"} => w.file = req[g].file /\ (w = req[g] => w.file # f \/ w.stale)
<1>1. CASE req[g].pc \in {"checking", "adding"}
  <2> DEFINE S == [pc : {"checking", "adding"}, file : Files, number : Nat, key : Keys, stale : BOOLEAN]
  <2>1. req[g] \in S
    BY <1>1, FileShape
  <2>2. w \in S
    BY <2>1, <1>1 DEF Outdated
  <2>3. w \in Request
    BY <2>2 DEF Request
  <2> QED
    BY <2>1, <2>2, <2>3, <1>1 DEF Outdated
<1>2. CASE req[g].pc \notin {"checking", "adding"}
  BY <1>2 DEF Outdated
<1> QED
  BY <1>1, <1>2

LEMMA InsertVersionKeepsFiles ==
  ASSUME FileInv, NEW h \in Handlers, NEW v \in Versions, InsertVersion(h, v)
  PROVE  FileInv'
<1>1. CASE \E w \in VersionsOf(req[h].file) : version[w].number = req[h].number
  BY <1>1, RequestAside, FileRecords DEF InsertVersion, Free, FilePcs, FileInv, RepositoryTypeOK
<1>2. CASE ~\E w \in VersionsOf(req[h].file) : version[w].number = req[h].number
  <2>1. /\ req[h] \in [pc : {"checking", "adding"}, file : Files, number : Nat, key : Keys, stale : BOOLEAN]
        /\ req[h].pc = "adding"
    BY FileShape DEF InsertVersion, FileInv, RepositoryTypeOK
  <2>2. PICK f \in Files, n \in Nat, k \in Keys, b \in BOOLEAN :
          f = req[h].file /\ n = req[h].number /\ k = req[h].key /\ b = req[h].stale
    BY <2>1
  <2>3. /\ Fresh(v)
        /\ version' = [version EXCEPT ![v] = [file |-> f, number |-> n, key |-> k]]
        /\ Takes(k)
        /\ file' = [file EXCEPT ![f].total = n, ![f].current = v]
        /\ disturbed' = IF b THEN disturbed \cup {f} ELSE disturbed
        /\ req' = [g \in Handlers |-> IF g = h THEN [pc |-> "charging"] ELSE Outdated(g, f)]
        /\ UNCHANGED <<folderVars, used, link, served>>
    BY <1>2, <2>2 DEF InsertVersion
  <2>4. f \in Kept /\ (~b => n = file[f].total + 1) /\ file[f] \in File
    BY <2>1, <2>2 DEF FileInv, FileSound, Kept, RepositoryTypeOK
  <2>5. /\ file'[f] = [file[f] EXCEPT !.total = n, !.current = v]
        /\ version'[v] = [file |-> f, number |-> n, key |-> k]
        /\ \A e \in Files : e # f => file'[e] = file[e]
        /\ \A w \in Versions : w # v => version'[w] = version[w]
    BY <2>3 DEF FileInv, RepositoryTypeOK
  <2>6. /\ file'[f] \in File /\ file'[f].total = n /\ file'[f].current = v
        /\ file'[f].folder = file[f].folder /\ version'[v] \in Version
    <3>1. version'[v] \in Version
      BY <2>5 DEF Version
    <3>2. file'[f] \in File
      BY <2>4, <2>5 DEF File
    <3>3. file'[f].total = n /\ file'[f].current = v /\ file'[f].folder = file[f].folder
      BY <2>4, <2>5 DEF File
    <3> QED
      BY <3>1, <3>2, <3>3
  <2>7. Kept' = Kept /\ Stored' = Stored \cup {v} /\ v \notin Stored
    <3>1. file'[f] # NoRow /\ version'[v] # NoRow
      BY <2>6, RepositoryAssumption
    <3>2. Kept' = Kept
      BY <2>4, <2>5, <3>1 DEF Kept
    <3>3. Stored' = Stored \cup {v}
      BY <2>5, <3>1 DEF Stored
    <3> QED
      BY <2>3, <3>2, <3>3 DEF Fresh
  <2>8. \A w \in Stored : version[w].file \in Kept
    BY DEF FileInv, RepositoryTypeOK, Stored, Kept, Version
  <2>9. VersionsOf(f)' = VersionsOf(f) \cup {v} /\ \A e \in Kept : e # f => VersionsOf(e)' = VersionsOf(e)
    <3>1. \A e : VersionsOf(e)' = {w \in Stored' : version'[w].file = e}
      BY DEF VersionsOf
    <3> QED
      BY <3>1, <2>4, <2>5, <2>7, <2>8 DEF VersionsOf, Stored
  <2>10. ASSUME NEW g \in Handlers PROVE req'[g] \in Request /\ FileSound(g)'
    <3>1. CASE g = h
      BY <2>3, <3>1, FileRecords DEF FileSound
    <3>2. CASE g # h
      <4>1. req'[g] = Outdated(g, f) /\ req[g] \in Request /\ FileSound(g)
        BY <2>3, <3>2 DEF FileInv, RepositoryTypeOK
      <4>2. /\ req'[g] \in Request /\ req'[g].pc = req[g].pc
            /\ req'[g] = req[g] \/ (req'[g].pc \in {"checking", "adding"} /\ req'[g].stale /\ req'[g].file = f)
            /\ req'[g].pc \in {"checking", "adding"} =>
                 req'[g].file = req[g].file /\ (req'[g] = req[g] => req'[g].file # f \/ req'[g].stale)
        BY <4>1, OutdatedKeeps
      <4>3. req[g].pc \in {"emptying", "deleting"} => req[g].version # v
        BY <2>3 DEF Fresh
      <4>4. CASE req[g].pc \in {"checking", "adding"}
        <5>1. req[g].file \in Kept /\ (~req[g].stale => req[g].number = file[req[g].file].total + 1)
          BY <4>1, <4>4 DEF FileSound
        <5>2. req'[g].stale \/ (req'[g] = req[g] /\ file'[req[g].file] = file[req[g].file])
          BY <4>2, <4>4, <5>1, <2>5 DEF Kept
        <5> QED
          BY <4>2, <4>4, <5>1, <5>2, <2>7 DEF FileSound
      <4>5. CASE req[g].pc \notin {"checking", "adding"}
        <5>1. req'[g] = req[g]
          BY <4>2, <4>5
        <5> QED
          BY <4>1, <4>2, <4>3, <4>5, <5>1, <2>5, <2>6, <2>7 DEF FileSound, Kept
      <4> QED
        BY <4>4, <4>5
    <3> QED
      BY <3>1, <3>2
  <2>11. RepositoryTypeOK'
    <3>1. FoldersTypeOK' /\ Existing' = Existing
      BY <2>3 DEF FileInv, RepositoryTypeOK, FoldersTypeOK, Existing, folderVars
    <3>2. /\ file' \in [Files -> File \cup {NoRow}] /\ version' \in [Versions -> Version \cup {NoRow}]
          /\ req' \in [Handlers -> Request]
      BY <2>3, <2>5, <2>6, <2>10 DEF FileInv, RepositoryTypeOK
    <3>3. \A e \in Kept' : file'[e].folder \in Existing
      BY <2>4, <2>5, <2>6, <2>7 DEF FileInv, RepositoryTypeOK, Kept
    <3>4. \A w \in Stored' : file'[version'[w].file] # NoRow
      BY <2>4, <2>5, <2>6, <2>7, <2>8, RepositoryAssumption DEF Kept, Stored
    <3>5. \A l \in Shared' : file'[link'[l].file] # NoRow
      <4>1. Shared' = Shared /\ link' = link
        BY <2>3 DEF Shared
      <4>2. \A l \in Shared : link[l].file \in Kept
        BY DEF FileInv, RepositoryTypeOK, Shared, Link, Kept
      <4> QED
        BY <4>1, <4>2, <2>7 DEF Kept
    <3>6. /\ disturbed' \subseteq Files /\ used' \in Nat /\ served' \in Nat
          /\ link' \in [Links -> Link \cup {NoRow}]
      BY <2>3, <2>7 DEF FileInv, RepositoryTypeOK
    <3>7. gone' \subseteq Keys /\ taken' \subseteq Keys /\ reused' \subseteq Keys
      BY <2>3 DEF Takes, FileInv, RepositoryTypeOK
    <3> QED
      BY <3>1, <3>2, <3>3, <3>4, <3>5, <3>6, <3>7 DEF RepositoryTypeOK
  <2>12. CurrentIsStored'
    BY <2>3, <2>5, <2>6, <2>7, <2>9 DEF CurrentIsStored, Kept, FileInv, RepositoryTypeOK
  <2>13. NewestIsCurrent'
    <3> SUFFICES ASSUME NEW e \in Kept, e \notin disturbed'
                 PROVE  /\ version'[file'[e].current].number = file'[e].total
                        /\ \A w \in VersionsOf(e)' : version'[w].number <= file'[e].total
      BY <2>7 DEF NewestIsCurrent
    <3>1. e \notin disturbed /\ (e = f => ~b)
      BY <2>3
    <3>2. /\ version[file[e].current].number = file[e].total
          /\ \A w \in VersionsOf(e) : version[w].number <= file[e].total /\ version'[w] = version[w]
          /\ version'[file[e].current] = version[file[e].current]
      BY <3>1, <2>5, <2>7 DEF FileInv, NewestIsCurrent, CurrentIsStored, VersionsOf, Stored
    <3>3. CASE e # f
      BY <3>2, <3>3, <2>5, <2>9 DEF Kept
    <3>4. CASE e = f
      <4>1. \A w \in VersionsOf(f) : version[w].number \in Nat
        BY DEF VersionsOf, Stored, FileInv, RepositoryTypeOK, Version
      <4>2. file[f].total \in Nat /\ n = file[f].total + 1
        BY <2>4, <3>1, <3>4 DEF File
      <4> QED
        BY <3>2, <3>4, <4>1, <4>2, <2>5, <2>6, <2>9
    <3> QED
      BY <3>3, <3>4
  <2> QED
    BY <2>10, <2>11, <2>12, <2>13 DEF FileInv
<1> QED
  BY <1>1, <1>2

LEMMA DeleteVersionKeepsFiles ==
  ASSUME FileInv, NEW h \in Handlers, NEW v \in Versions, DeleteVersion(h, v)
  PROVE  FileInv'
<1> DEFINE r == [pc |-> "emptying", version |-> v, key |-> version[v].key]
<1>1. r \in Request
  <2>1. version[v].key \in Keys
    BY DEF DeleteVersion, Stored, FileInv, RepositoryTypeOK, Version
  <2> QED
    BY <2>1, FileRecords
<1>2. /\ req' = [req EXCEPT ![h] = r] /\ served' \in Nat
      /\ UNCHANGED <<folderVars, file, version, store, used, link, disturbed>>
  BY DEF DeleteVersion, Begin, FileInv, RepositoryTypeOK
<1>3. \A f \in Kept : file[f].current # v
  <2>1. v \in Stored /\ file[version[v].file].current # v
    BY DEF DeleteVersion
  <2> QED
    BY <2>1 DEF FileInv, CurrentIsStored, VersionsOf
<1>4. FileSound(h)'
  <2>1. req'[h] = r /\ Kept' = Kept /\ file' = file
    BY <1>2 DEF FileInv, RepositoryTypeOK, Kept
  <2> QED
    BY <1>3, <2>1 DEF FileSound
<1> HIDE DEF r
<1> QED
  BY <1>1, <1>2, <1>4, RequestAside

\* What a request is about to delete is nobody's current version, and will not be.
LEMMA DeleteObjectKeepsFiles ==
  ASSUME FileInv, NEW h \in Handlers, DeleteObject(h)
  PROVE  FileInv'
<1>1. /\ req[h] \in [pc : {"emptying", "deleting"}, version : Versions, key : Keys] /\ req[h].pc = "emptying"
      /\ FileSound(h)
  BY FileShape DEF DeleteObject, FileInv, RepositoryTypeOK
<1>2. PICK v \in Versions, k \in Keys : v = req[h].version /\ k = req[h].key
  BY <1>1
<1>3. /\ req' = [req EXCEPT ![h] = [pc |-> "deleting", version |-> v, key |-> k]]
      /\ gone' = gone \cup {k}
      /\ UNCHANGED <<folderVars, file, version, taken, reused, used, link, served, disturbed>>
  <2>1. [req[h] EXCEPT !.pc = "deleting"] = [pc |-> "deleting", version |-> v, key |-> k]
    BY <1>1, <1>2
  <2> QED
    BY <2>1, <1>2 DEF DeleteObject
<1>4. /\ req' \in [Handlers -> Request] /\ req'[h] = [pc |-> "deleting", version |-> v, key |-> k]
      /\ \A g \in Handlers : g # h => req'[g] = req[g]
  BY <1>3, FileRecords DEF FileInv, RepositoryTypeOK
<1>5. /\ FoldersTypeOK' /\ Existing' = Existing /\ Kept' = Kept /\ Stored' = Stored /\ Shared' = Shared
      /\ \A f \in Kept : VersionsOf(f)' = VersionsOf(f)
  BY <1>3 DEF FileInv, RepositoryTypeOK, FoldersTypeOK, Existing, folderVars, Kept, Stored, Shared, VersionsOf
<1>6. \A f \in Kept : file[f].current # v
  BY <1>1, <1>2 DEF FileSound
<1>7. RepositoryTypeOK'
  BY <1>3, <1>4, <1>5 DEF FileInv, RepositoryTypeOK
<1>8. \A g \in Handlers : FileSound(g)'
  BY <1>3, <1>4, <1>5, <1>6 DEF FileInv, FileSound
<1>9. CurrentIsStored' /\ NewestIsCurrent'
  BY <1>3, <1>5, <1>6 DEF FileInv, CurrentIsStored, NewestIsCurrent
<1> QED
  BY <1>7, <1>8, <1>9 DEF FileInv

LEMMA DeleteRowKeepsFiles ==
  ASSUME FileInv, NEW h \in Handlers, DeleteRow(h)
  PROVE  FileInv'
<1>1. /\ req[h] \in [pc : {"emptying", "deleting"}, version : Versions, key : Keys] /\ req[h].pc = "deleting"
      /\ FileSound(h)
  BY FileShape DEF DeleteRow, FileInv, RepositoryTypeOK
<1>2. PICK v \in Versions : v = req[h].version
  BY <1>1
<1>3. /\ req' = [req EXCEPT ![h] = Free]
      /\ version' = [version EXCEPT ![v] = NoRow]
      /\ UNCHANGED <<folderVars, file, store, used, link, served, disturbed>>
  BY <1>2 DEF DeleteRow
<1>4. /\ req' \in [Handlers -> Request] /\ req'[h] = Free
      /\ \A g \in Handlers : g # h => req'[g] = req[g]
  BY <1>3, FileRecords DEF FileInv, RepositoryTypeOK
<1>5. /\ FoldersTypeOK' /\ Existing' = Existing /\ Kept' = Kept /\ Shared' = Shared
  BY <1>3 DEF FileInv, RepositoryTypeOK, FoldersTypeOK, Existing, folderVars, Kept, Shared
<1>6. /\ Stored' = Stored \ {v} /\ \A w \in Stored' : version'[w] = version[w]
      /\ \A f \in Kept : VersionsOf(f)' = VersionsOf(f) \ {v}
  <2>1. version'[v] = NoRow /\ \A w \in Versions : w # v => version'[w] = version[w]
    BY <1>3 DEF FileInv, RepositoryTypeOK
  <2>2. Stored' = Stored \ {v}
    BY <2>1 DEF Stored
  <2>3. \A f \in Kept : VersionsOf(f)' = {w \in Stored' : version'[w].file = f}
    BY DEF VersionsOf
  <2> QED
    BY <2>1, <2>2, <2>3 DEF VersionsOf, Stored
<1>7. \A f \in Kept : file[f].current # v
  BY <1>1, <1>2 DEF FileSound
<1>8. RepositoryTypeOK'
  <2>1. version' \in [Versions -> Version \cup {NoRow}]
    BY <1>3 DEF FileInv, RepositoryTypeOK
  <2> QED
    BY <2>1, <1>3, <1>4, <1>5, <1>6 DEF FileInv, RepositoryTypeOK
<1>9. \A g \in Handlers : FileSound(g)'
  BY <1>3, <1>4, <1>5 DEF FileInv, FileSound, Free
<1>10. CurrentIsStored'
  BY <1>3, <1>5, <1>6, <1>7 DEF FileInv, CurrentIsStored
<1>11. NewestIsCurrent'
  <2>1. \A f \in Kept : version'[file[f].current] = version[file[f].current]
    BY <1>6, <1>7 DEF FileInv, CurrentIsStored, VersionsOf
  <2>2. \A f \in Kept : \A w \in VersionsOf(f)' : w \in VersionsOf(f) /\ version'[w] = version[w]
    BY <1>6 DEF VersionsOf
  <2> QED
    BY <1>3, <1>5, <2>1, <2>2 DEF FileInv, NewestIsCurrent
<1> QED
  BY <1>8, <1>9, <1>10, <1>11 DEF FileInv

LEMMA SoftDeleteKeepsFiles ==
  ASSUME FileInv, NEW f \in Files, SoftDelete(f)
  PROVE  FileInv'
<1>1. file' = [file EXCEPT ![f].archived = TRUE]
      /\ UNCHANGED <<folderVars, version, store, used, link, req, served, disturbed>>
  BY DEF SoftDelete
<1>2. f \in Kept /\ file[f] \in File
  BY DEF SoftDelete, Readable, Kept, FileInv, RepositoryTypeOK
<1>3. file'[f] = [file[f] EXCEPT !.archived = TRUE] /\ \A e \in Files : e # f => file'[e] = file[e]
  BY <1>1 DEF FileInv, RepositoryTypeOK
<1>4. file'[f] \in File
  BY <1>2, <1>3 DEF File
<1>5. \A e \in Kept : /\ file'[e].folder = file[e].folder /\ file'[e].total = file[e].total
                      /\ file'[e].current = file[e].current /\ file'[e] # NoRow
  BY <1>2, <1>3, <1>4, RepositoryAssumption DEF File, Kept
<1>6. Kept' = Kept
  BY <1>3, <1>5, <1>2 DEF Kept
<1>7. /\ FoldersTypeOK' /\ Existing' = Existing /\ Stored' = Stored /\ Shared' = Shared
      /\ \A e \in Kept : VersionsOf(e)' = VersionsOf(e)
  BY <1>1 DEF FileInv, RepositoryTypeOK, FoldersTypeOK, Existing, folderVars, Stored, Shared, VersionsOf
<1>8. RepositoryTypeOK'
  <2>1. file' \in [Files -> File \cup {NoRow}]
    BY <1>1, <1>3, <1>4 DEF FileInv, RepositoryTypeOK
  <2>2. \A w \in Stored : version[w].file \in Kept
    BY DEF FileInv, RepositoryTypeOK, Stored, Kept, Version
  <2>3. \A l \in Shared : link[l].file \in Kept
    BY DEF FileInv, RepositoryTypeOK, Shared, Link, Kept
  <2>4. /\ \A w \in Stored' : file'[version'[w].file] # NoRow
        /\ \A l \in Shared' : file'[link'[l].file] # NoRow
        /\ \A e \in Kept' : file'[e].folder \in Existing
    BY <2>2, <2>3, <1>1, <1>5, <1>6, <1>7 DEF FileInv, RepositoryTypeOK
  <2> QED
    BY <2>1, <2>4, <1>1, <1>6, <1>7 DEF FileInv, RepositoryTypeOK
<1>9. \A g \in Handlers : FileSound(g)'
  BY <1>1, <1>5, <1>6 DEF FileInv, FileSound
<1>10. CurrentIsStored' /\ NewestIsCurrent'
  BY <1>1, <1>5, <1>6, <1>7 DEF FileInv, CurrentIsStored, NewestIsCurrent
<1> QED
  BY <1>8, <1>9, <1>10 DEF FileInv

\* Links: what happens to them disturbs no file.
LEMMA LinksAside ==
  ASSUME FileInv, NEW h \in Handlers, NEW r \in Request, r.pc \notin FilePcs,
         req' = req \/ req' = [req EXCEPT ![h] = r],
         UNCHANGED <<folderVars, file, version, store, disturbed>>, used' \in Nat, served' \in Nat,
         link' \in [Links -> Link \cup {NoRow}], \A l \in Shared' : link'[l].file \in Kept
  PROVE  FileInv'
<1>1. req' \in [Handlers -> Request] /\ \A g \in Handlers : req'[g] = req[g] \/ req'[g] = r
  BY DEF FileInv, RepositoryTypeOK
<1>2. FoldersTypeOK' /\ Existing' = Existing
  BY DEF FileInv, RepositoryTypeOK, folderVars, FoldersTypeOK, Existing
<1>3. \A g \in Handlers : req'[g] = req[g] \/ FileSound(g)'
  BY <1>1 DEF FileSound, FilePcs
<1> QED
  BY <1>1, <1>2, <1>3, FilesAside DEF FileInv, RepositoryTypeOK, Kept

LEMMA CountKeepsFiles ==
  ASSUME FileInv, NEW h \in Handlers, CountAccess(h)
  PROVE  FileInv'
<1>1. PICK l \in Links : l = req[h].link
  BY FileShape DEF CountAccess, FileInv, RepositoryTypeOK
<1>2. \A m \in Shared : link[m] \in Link /\ link[m].file \in Kept
  BY DEF FileInv, RepositoryTypeOK, Shared, Link, Kept
<1>3. link' \in [Links -> Link \cup {NoRow}] /\ \A m \in Shared' : link'[m].file \in Kept
  <2>1. CASE l \in Shared
    <3>1. link' = [link EXCEPT ![l] = [link[l] EXCEPT !.count = link[l].count + 1]]
      BY <1>1, <2>1 DEF CountAccess
    <3>2. link[l] \in Link
      BY <1>2, <2>1
    <3>3. [link[l] EXCEPT !.count = link[l].count + 1] \in Link
      BY <3>2 DEF Link
    <3>4. link'[l].file = link[l].file /\ link' \in [Links -> Link \cup {NoRow}]
      BY <3>1, <3>2, <3>3 DEF FileInv, RepositoryTypeOK, Link
    <3>5. \A m \in Links : m # l => link'[m] = link[m]
      BY <3>1 DEF FileInv, RepositoryTypeOK
    <3> QED
      BY <1>2, <2>1, <3>4, <3>5 DEF Shared
  <2>2. CASE l \notin Shared
    BY <1>1, <1>2, <2>2 DEF CountAccess, FileInv, RepositoryTypeOK, Shared
  <2> QED
    BY <2>1, <2>2
<1> QED
  BY <1>3, LinksAside, FileRecords DEF CountAccess, Free, FilePcs, FileInv, RepositoryTypeOK

LEMMA RevokeKeepsFiles ==
  ASSUME FileInv, NEW l \in Links, RevokeShareLink(l)
  PROVE  FileInv'
<1>1. PICK h \in Handlers : TRUE
  BY RepositoryAssumption
<1>2. link' \in [Links -> Link \cup {NoRow}] /\ \A m \in Shared' : link'[m].file \in Kept
  <2>1. \A m \in Shared : link[m] \in Link /\ link[m].file \in Kept
    BY DEF FileInv, RepositoryTypeOK, Shared, Link, Kept
  <2> QED
    BY <2>1 DEF RevokeShareLink, FileInv, RepositoryTypeOK, Shared
<1> QED
  BY <1>2, LinksAside, FileRecords DEF RevokeShareLink, Free, FilePcs, FileInv, RepositoryTypeOK

LEMMA GenerateKeepsFiles ==
  ASSUME FileInv, NEW l \in Links, NEW f \in Files, NEW max \in Limits, GenerateShareLink(l, f, max)
  PROVE  FileInv'
<1>1. PICK h \in Handlers : TRUE
  BY RepositoryAssumption
<1>2. link' \in [Links -> Link \cup {NoRow}] /\ \A m \in Shared' : link'[m].file \in Kept
  <2>1. \A m \in Shared : link[m] \in Link /\ link[m].file \in Kept
    BY DEF FileInv, RepositoryTypeOK, Shared, Link, Kept
  <2>2. [file |-> f, max |-> max, count |-> 0] \in Link /\ f \in Kept
    BY DEF Link, GenerateShareLink, Readable, Kept
  <2>3. link' = [link EXCEPT ![l] = [file |-> f, max |-> max, count |-> 0]]
    BY DEF GenerateShareLink
  <2> QED
    BY <2>1, <2>2, <2>3 DEF FileInv, RepositoryTypeOK, Shared
<1> QED
  BY <1>2, LinksAside, FileRecords DEF GenerateShareLink, Free, FilePcs, FileInv, RepositoryTypeOK

\* The steps of a request that are not about folders.
FileStep(h) ==
  \/ \E d \in FolderIds, k \in Keys : CreateFileRecord(h, d, k)
  \/ \E f \in Files, v \in Versions : InsertFile(h, f, v)
  \/ \E f \in Files, k \in Keys : AddNewVersion(h, f, k)
  \/ CheckQuota(h)
  \/ \E v \in Versions : InsertVersion(h, v) \/ DeleteVersion(h, v)
  \/ IncrementUsage(h)
  \/ DeleteObject(h) \/ DeleteRow(h)
  \/ \E l \in Links : AccessShareLink(h, l)
  \/ CountAccess(h)

LEMMA StepIsFolderOrFileStep ==
  ASSUME NEW h \in Handlers, RepositoryStep(h)
  PROVE  FolderStep(h) \/ FileStep(h) \/ Die(h)
BY DEF RepositoryStep, FileStep

LEMMA FileStepKeepsFiles ==
  ASSUME FileInv, NEW h \in Handlers, FileStep(h)
  PROVE  FileInv'
<1>0. ASSUME NEW v \in Request, v.pc \notin FilePcs, Begin(h, v),
             UNCHANGED <<folderVars, file, version, store, used, link, disturbed>>
      PROVE  FileInv'
  <2>1. served' \in Nat
    BY <1>0 DEF Begin, FileInv, RepositoryTypeOK
  <2> QED
    BY <1>0, <2>1, RequestAside DEF Begin
<1>1. ASSUME NEW d \in FolderIds, NEW k \in Keys, CreateFileRecord(h, d, k)
      PROVE  FileInv'
  BY <1>1, <1>0, FileRecords DEF CreateFileRecord, FilePcs
<1>2. ASSUME IncrementUsage(h)
      PROVE  FileInv'
  <2>1. used' \in Nat /\ served' \in Nat /\ link' \in [Links -> Link \cup {NoRow}]
    BY <1>2 DEF IncrementUsage, FileInv, RepositoryTypeOK
  <2>2. \A l \in Shared' : link'[l].file \in Kept
    BY <1>2 DEF IncrementUsage, FileInv, RepositoryTypeOK, Shared, Link, Kept
  <2>3. req' = [req EXCEPT ![h] = Free] /\ UNCHANGED <<folderVars, file, version, store, disturbed>>
    BY <1>2 DEF IncrementUsage
  <2>4. Free \in Request /\ Free.pc \notin FilePcs
    BY FileRecords DEF Free, FilePcs
  <2> QED
    BY <2>1, <2>2, <2>3, <2>4, LinksAside
<1>3. ASSUME NEW l \in Links, AccessShareLink(h, l)
      PROVE  FileInv'
  BY <1>3, <1>0, FileRecords DEF AccessShareLink, FilePcs
<1> QED
  BY <1>1, <1>2, <1>3, InsertFileKeepsFiles, AddKeepsFiles, CheckKeepsFiles, InsertVersionKeepsFiles,
     DeleteVersionKeepsFiles, DeleteObjectKeepsFiles, DeleteRowKeepsFiles, CountKeepsFiles
     DEF FileStep

\* What a step of a request about a file does to the requests.
LEMMA FileStepFrame ==
  ASSUME FileInv, NEW h \in Handlers, FileStep(h)
  PROVE  /\ req[h].pc \notin FolderPcs /\ req'[h].pc \notin FolderPcs
         /\ \A g \in Handlers : g # h =>
              \/ req'[g] = req[g]
              \/ req[g].pc \in {"checking", "adding"} /\ req'[g].pc = req[g].pc
         /\ UNCHANGED folderVars
<1> USE DEF FolderPcs, Free
<1>1. req \in [Handlers -> Request]
  BY DEF FileInv, RepositoryTypeOK
<1>2. ASSUME NEW v, Begin(h, v), v.pc \notin FolderPcs
      PROVE  req[h].pc \notin FolderPcs /\ req'[h].pc \notin FolderPcs
             /\ \A g \in Handlers : g # h => req'[g] = req[g]
  BY <1>1, <1>2 DEF Begin
<1>3. CASE \E d \in FolderIds, k \in Keys : CreateFileRecord(h, d, k)
  BY <1>2, <1>3 DEF CreateFileRecord
<1>4. CASE \E f \in Files, k \in Keys : AddNewVersion(h, f, k)
  BY <1>2, <1>4 DEF AddNewVersion
<1>5. CASE \E v \in Versions : DeleteVersion(h, v)
  BY <1>2, <1>5 DEF DeleteVersion
<1>6. CASE \E l \in Links : AccessShareLink(h, l)
  BY <1>2, <1>6 DEF AccessShareLink
<1>7. CASE \E f \in Files, v \in Versions : InsertFile(h, f, v)
  BY <1>1, <1>7 DEF InsertFile
<1>8. CASE CheckQuota(h)
  <2>1. req[h] \in [pc : {"checking", "adding"}, file : Files, number : Nat, key : Keys, stale : BOOLEAN]
    BY <1>1, <1>8, FileShape DEF CheckQuota
  <2> QED
    BY <1>1, <1>8, <2>1 DEF CheckQuota
<1>9. CASE \E v \in Versions : InsertVersion(h, v)
  <2>1. PICK v \in Versions : InsertVersion(h, v)
    BY <1>9
  <2>2. CASE req' = [req EXCEPT ![h] = Free]
    BY <1>1, <2>1, <2>2 DEF InsertVersion
  <2>3. CASE req' = [g \in Handlers |-> IF g = h THEN [pc |-> "charging"] ELSE Outdated(g, req[h].file)]
    <3>1. req'[h].pc = "charging" /\ req[h].pc = "adding" /\ UNCHANGED folderVars
      BY <2>1, <2>3 DEF InsertVersion
    <3>2. ASSUME NEW g \in Handlers, g # h
          PROVE  req'[g] = req[g] \/ (req[g].pc \in {"checking", "adding"} /\ req'[g].pc = req[g].pc)
      BY <1>1, <2>3, <3>2, OutdatedKeeps
    <3> QED
      BY <3>1, <3>2
  <2> QED
    BY <2>1, <2>2, <2>3 DEF InsertVersion
<1>10. CASE IncrementUsage(h)
  BY <1>1, <1>10 DEF IncrementUsage
<1>11. CASE DeleteObject(h)
  <2>1. req[h] \in [pc : {"emptying", "deleting"}, version : Versions, key : Keys]
    BY <1>1, <1>11, FileShape DEF DeleteObject
  <2> QED
    BY <1>1, <1>11, <2>1 DEF DeleteObject
<1>12. CASE DeleteRow(h)
  BY <1>1, <1>12 DEF DeleteRow
<1>13. CASE CountAccess(h)
  BY <1>1, <1>13 DEF CountAccess
<1> QED
  BY <1>3, <1>4, <1>5, <1>6, <1>7, <1>8, <1>9, <1>10, <1>11, <1>12, <1>13 DEF FileStep

LEMMA NextKeepsFoldersAndFiles ==
  ASSUME FolderInv, FileInv, RepositoryNext
  PROVE  FolderInv' /\ FileInv'
<1>1. ASSUME NEW h \in Handlers, RepositoryStep(h)
      PROVE  FolderInv' /\ FileInv'
  <2>1. CASE FolderStep(h)
    BY <2>1, FolderStepKeepsFolders, FolderStepKeepsFiles
  <2>2. CASE FileStep(h)
    <3>1. FileInv'
      BY <2>2, FileStepKeepsFiles
    <3>2. \A g \in Handlers : g # h => req'[g] = req[g] \/ {req[g].pc, req'[g].pc} \subseteq FilePcs
      BY <2>2, FileStepFrame DEF FilePcs
    <3>3. req' \in [Handlers -> Request]
      BY <3>1 DEF FileInv, RepositoryTypeOK
    <3> QED
      BY <2>2, <3>1, <3>2, <3>3, FileStepFrame, FileStepKeepsFolders
  <2>3. CASE Die(h)
    BY <2>3, RequestAside, OtherStepKeepsFolders, FileRecords
       DEF Die, Free, FilePcs, FolderPcs, FileInv, RepositoryTypeOK
  <2> QED
    BY <1>1, <2>1, <2>2, <2>3, StepIsFolderOrFileStep
<1>2. ASSUME UNCHANGED <<folderVars, req>>
      PROVE  FolderInv'
  <2>1. FoldersTypeOK' /\ TreeIsSound' /\ req' \in [Handlers -> Request]
    BY <1>2 DEF FolderInv, folderVars, FoldersTypeOK, Existing, TreeIsSound, NamesTellApart, DepthIsPlace
  <2>2. \A g \in Handlers : FolderSound(g)'
    BY <1>2 DEF FolderInv, FolderSound, folderVars, Existing, Children, Named
  <2> QED
    BY <2>1, <2>2 DEF FolderInv
<1>3. ASSUME NEW f \in Files, SoftDelete(f)
      PROVE  FolderInv' /\ FileInv'
  BY <1>2, <1>3, SoftDeleteKeepsFiles DEF SoftDelete
<1>4. ASSUME NEW l \in Links, RevokeShareLink(l)
      PROVE  FolderInv' /\ FileInv'
  BY <1>2, <1>4, RevokeKeepsFiles DEF RevokeShareLink
<1>5. ASSUME NEW l \in Links, NEW f \in Files, NEW max \in Limits, GenerateShareLink(l, f, max)
      PROVE  FolderInv' /\ FileInv'
  BY <1>2, <1>5, GenerateKeepsFiles DEF GenerateShareLink
<1> QED
  BY <1>1, <1>3, <1>4, <1>5 DEF RepositoryNext

--------------------------------------------------------------------------------
(***************************************************************************)
(* Objects and their keys.                                                 *)
(***************************************************************************)

\* Neither files nor versions nor objects change, and who begins to delete a
\* version holds its key.
LEMMA KeysAside ==
  ASSUME FileInv, KeysInv, UNCHANGED <<version, store>>,
         \A f \in Kept' : f \in Kept /\ file'[f].current = file[f].current,
         \A g \in Handlers :
           \/ req'[g] = req[g] \/ ~Deleting(g)'
           \/ req'[g].version \in Stored /\ req'[g].key = version[req'[g].version].key
  PROVE  KeysInv'
<1>1. Stored' = Stored
  BY DEF Stored
<1>2. ASSUME NEW g \in Handlers, Deleting(g)'
      PROVE  /\ req'[g].key \in taken
             /\ \A v \in Stored :
                  v # req'[g].version /\ version[v].key = req'[g].key => req'[g].key \in reused
  <2>1. CASE req'[g] = req[g]
    BY <1>2, <2>1 DEF KeysInv, Deleting
  <2>2. CASE req'[g].version \in Stored /\ req'[g].key = version[req'[g].version].key
    BY <2>2 DEF KeysInv
  <2> QED
    BY <1>2, <2>1, <2>2
<1> QED
  BY <1>1, <1>2 DEF KeysInv

\* A version brings a key: nobody had it, or it is reused from now on.
LEMMA KeysTaken ==
  ASSUME FileInv, FileInv', KeysInv, NEW k, Takes(k), NEW f \in Files, NEW v \in Versions, v \notin Stored,
         version'[v].key = k, Stored' = Stored \cup {v}, \A w \in Stored : version'[w] = version[w],
         file'[f].current = v, Kept' = Kept \cup {f},
         \A e \in Kept : e # f => file'[e].current = file[e].current,
         \A g \in Handlers : ~Deleting(g)' \/ req'[g] = req[g]
  PROVE  KeysInv'
<1>1. /\ taken' = taken \cup {k} /\ gone' = gone
      /\ reused' = IF k \in taken THEN reused \cup {k} ELSE reused
  BY DEF Takes
<1>2. ASSUME NEW g \in Handlers, Deleting(g)'
      PROVE  /\ req'[g].key \in taken'
             /\ \A w \in Stored' :
                  w # req'[g].version /\ version'[w].key = req'[g].key => req'[g].key \in reused'
  <2>1. req'[g] = req[g] /\ Deleting(g)
    BY <1>2 DEF Deleting
  <2> QED
    BY <1>1, <2>1 DEF KeysInv
<1>3. \A e \in Kept : e # f => file[e].current \in Stored
  BY DEF FileInv, CurrentIsStored, VersionsOf
<1>4. ASSUME NEW e \in Kept', version'[file'[e].current].key \in gone'
      PROVE  version'[file'[e].current].key \in reused'
  <2>1. CASE e = f
    BY <1>1, <1>4, <2>1 DEF KeysInv
  <2>2. CASE e # f
    <3>1. e \in Kept /\ file'[e].current = file[e].current /\ file[e].current \in Stored
      BY <1>3, <2>2
    <3> QED
      BY <1>1, <1>4, <3>1 DEF KeysInv
  <2> QED
    BY <2>1, <2>2
<1>5. /\ gone' \subseteq taken' /\ \A w \in Stored' : version'[w].key \in taken'
      /\ \A w, u \in Stored' : w # u /\ version'[w].key = version'[u].key => version'[w].key \in reused'
  BY <1>1 DEF KeysInv
<1> QED
  BY <1>2, <1>4, <1>5 DEF KeysInv

LEMMA InsertFileKeepsKeys ==
  ASSUME FileInv, FileInv', KeysInv, NEW h \in Handlers, NEW f \in Files, NEW v \in Versions,
         InsertFile(h, f, v)
  PROVE  KeysInv'
<1>1. CASE req[h].folder \notin Existing
  <2>1. UNCHANGED <<file, version, store>> /\ req' = [req EXCEPT ![h] = Free]
    BY <1>1 DEF InsertFile
  <2>2. \A g \in Handlers : req'[g] = req[g] \/ ~Deleting(g)'
    BY <2>1 DEF FileInv, RepositoryTypeOK, Deleting, Free
  <2> QED
    BY <2>1, <2>2, KeysAside DEF Kept
<1>2. CASE req[h].folder \in Existing
  <2>1. PICK k : k = req[h].key
    OBVIOUS
  <2>2. PICK d : d = req[h].folder
    OBVIOUS
  <2>3. /\ f \notin Kept /\ v \notin Stored /\ Takes(k)
        /\ file' = [file EXCEPT ![f] = [folder |-> d, total |-> 1, current |-> v, archived |-> FALSE]]
        /\ version' = [version EXCEPT ![v] = [file |-> f, number |-> 1, key |-> k]]
        /\ req' = [req EXCEPT ![h] = [pc |-> "charging"]]
    BY <1>2, <2>1, <2>2 DEF InsertFile, Fresh
  <2>4. /\ file'[f] = [folder |-> d, total |-> 1, current |-> v, archived |-> FALSE]
        /\ version'[v] = [file |-> f, number |-> 1, key |-> k]
        /\ \A e \in Files : e # f => file'[e] = file[e]
        /\ \A w \in Versions : w # v => version'[w] = version[w]
    BY <2>3 DEF FileInv, RepositoryTypeOK
  <2>5. file'[f] # NoRow /\ version'[v] # NoRow
    <3>1. k \in Keys /\ d \in FolderIds
      BY <1>2, <2>1, <2>2, FileShape DEF InsertFile, FileInv, RepositoryTypeOK
    <3>2. file'[f] \in File /\ version'[v] \in Version
      BY <2>4, <3>1 DEF File, Version
    <3> QED
      BY <3>2, RepositoryAssumption
  <2>6. Kept' = Kept \cup {f} /\ Stored' = Stored \cup {v}
    BY <2>4, <2>5 DEF Kept, Stored
  <2>7. \A g \in Handlers : ~Deleting(g)' \/ req'[g] = req[g]
    BY <2>3 DEF FileInv, RepositoryTypeOK, Deleting
  <2>8. file'[f].current = v /\ version'[v].key = k
    BY <2>4
  <2>9. /\ \A e \in Kept : e # f => file'[e].current = file[e].current
        /\ \A w \in Stored : version'[w] = version[w]
    BY <2>3, <2>4 DEF Kept, Stored
  <2> QED
    BY <2>3, <2>6, <2>7, <2>8, <2>9, KeysTaken
<1> QED
  BY <1>1, <1>2

LEMMA InsertVersionKeepsKeys ==
  ASSUME FileInv, FileInv', KeysInv, NEW h \in Handlers, NEW v \in Versions, InsertVersion(h, v)
  PROVE  KeysInv'
<1>1. CASE \E w \in VersionsOf(req[h].file) : version[w].number = req[h].number
  <2>1. UNCHANGED <<file, version, store>> /\ req' = [req EXCEPT ![h] = Free]
    BY <1>1 DEF InsertVersion
  <2>2. \A g \in Handlers : req'[g] = req[g] \/ ~Deleting(g)'
    BY <2>1 DEF FileInv, RepositoryTypeOK, Deleting, Free
  <2> QED
    BY <2>1, <2>2, KeysAside DEF Kept
<1>2. CASE ~\E w \in VersionsOf(req[h].file) : version[w].number = req[h].number
  <2>1. /\ req[h] \in [pc : {"checking", "adding"}, file : Files, number : Nat, key : Keys, stale : BOOLEAN]
        /\ req[h].pc = "adding"
    BY FileShape DEF InsertVersion, FileInv, RepositoryTypeOK
  <2>2. PICK f \in Files, n \in Nat, k \in Keys : f = req[h].file /\ n = req[h].number /\ k = req[h].key
    BY <2>1
  <2>3. /\ v \notin Stored /\ Takes(k)
        /\ version' = [version EXCEPT ![v] = [file |-> f, number |-> n, key |-> k]]
        /\ file' = [file EXCEPT ![f].total = n, ![f].current = v]
        /\ req' = [g \in Handlers |-> IF g = h THEN [pc |-> "charging"] ELSE Outdated(g, f)]
    BY <1>2, <2>2 DEF InsertVersion, Fresh
  <2>4. f \in Kept /\ file[f] \in File
    BY <2>1, <2>2 DEF FileInv, FileSound, Kept, RepositoryTypeOK
  <2>5. /\ file'[f] = [file[f] EXCEPT !.total = n, !.current = v]
        /\ version'[v] = [file |-> f, number |-> n, key |-> k]
        /\ \A e \in Files : e # f => file'[e] = file[e]
        /\ \A w \in Versions : w # v => version'[w] = version[w]
    BY <2>3 DEF FileInv, RepositoryTypeOK
  <2>6. file'[f] \in File /\ file'[f].current = v /\ version'[v] \in Version /\ version'[v].key = k
    <3>1. version'[v] \in Version /\ version'[v].key = k
      BY <2>5 DEF Version
    <3>2. file'[f] \in File
      BY <2>4, <2>5 DEF File
    <3>3. file'[f].current = v
      BY <2>4, <2>5 DEF File
    <3> QED
      BY <3>1, <3>2, <3>3
  <2>7. Kept' = Kept \cup {f} /\ Stored' = Stored \cup {v}
    <3>1. file'[f] # NoRow /\ version'[v] # NoRow
      BY <2>6, RepositoryAssumption
    <3> QED
      BY <2>4, <2>5, <3>1 DEF Kept, Stored
  <2>8. \A g \in Handlers : ~Deleting(g)' \/ req'[g] = req[g]
    <3>1. ASSUME NEW g \in Handlers, g # h PROVE ~Deleting(g)' \/ req'[g] = req[g]
      <4>1. req'[g] = Outdated(g, f) /\ req[g] \in Request
        BY <2>3, <3>1 DEF FileInv, RepositoryTypeOK
      <4>2. req'[g] = req[g] \/ req'[g].pc \in {"checking", "adding"}
        BY <4>1, OutdatedKeeps
      <4> QED
        BY <4>2 DEF Deleting
    <3>2. ~Deleting(h)'
      BY <2>3 DEF Deleting
    <3> QED
      BY <3>1, <3>2
  <2>9. /\ \A e \in Kept : e # f => file'[e].current = file[e].current
        /\ \A w \in Stored : version'[w] = version[w]
    BY <2>3, <2>5 DEF Kept, Stored
  <2> QED
    BY <2>3, <2>6, <2>7, <2>8, <2>9, KeysTaken
<1> QED
  BY <1>1, <1>2

LEMMA DeleteObjectKeepsKeys ==
  ASSUME FileInv, KeysInv, NEW h \in Handlers, DeleteObject(h)
  PROVE  KeysInv'
<1>1. /\ req[h] \in [pc : {"emptying", "deleting"}, version : Versions, key : Keys] /\ Deleting(h)
      /\ FileSound(h)
  BY FileShape DEF DeleteObject, FileInv, RepositoryTypeOK, Deleting
<1>2. PICK v \in Versions, k \in Keys : v = req[h].version /\ k = req[h].key
  BY <1>1
<1>3. /\ req' = [req EXCEPT ![h] = [pc |-> "deleting", version |-> v, key |-> k]]
      /\ gone' = gone \cup {k} /\ UNCHANGED <<file, version, taken, reused>>
  <2>1. [req[h] EXCEPT !.pc = "deleting"] = [pc |-> "deleting", version |-> v, key |-> k]
    BY <1>1, <1>2
  <2> QED
    BY <2>1, <1>2 DEF DeleteObject
<1>4. ASSUME NEW g \in Handlers
      PROVE  /\ Deleting(g)' => Deleting(g)
             /\ Deleting(g)' => req'[g].version = req[g].version /\ req'[g].key = req[g].key
  BY <1>1, <1>2, <1>3 DEF FileInv, RepositoryTypeOK, Deleting
<1>5. Stored' = Stored /\ Kept' = Kept
  BY <1>3 DEF Stored, Kept
<1>6. k \in taken /\ \A w \in Stored : w # v /\ version[w].key = k => k \in reused
  BY <1>1, <1>2 DEF KeysInv
<1>7. ASSUME NEW f \in Kept, version[file[f].current].key = k PROVE k \in reused
  <2>1. file[f].current \in Stored /\ file[f].current # v
    BY <1>1, <1>2 DEF FileInv, CurrentIsStored, VersionsOf, FileSound, Deleting
  <2> QED
    BY <1>6, <1>7, <2>1
<1>8. \A f \in Kept' : version'[file'[f].current].key \in gone' => version'[file'[f].current].key \in reused'
  BY <1>3, <1>5, <1>7 DEF KeysInv
<1>9. \A g \in Handlers : Deleting(g)' =>
        /\ req'[g].key \in taken'
        /\ \A w \in Stored' : w # req'[g].version /\ version'[w].key = req'[g].key => req'[g].key \in reused'
  BY <1>3, <1>4, <1>5 DEF KeysInv
<1> QED
  BY <1>3, <1>5, <1>6, <1>8, <1>9 DEF KeysInv

LEMMA DeleteRowKeepsKeys ==
  ASSUME FileInv, KeysInv, NEW h \in Handlers, DeleteRow(h)
  PROVE  KeysInv'
<1>1. /\ req[h] \in [pc : {"emptying", "deleting"}, version : Versions, key : Keys] /\ Deleting(h)
      /\ FileSound(h)
  BY FileShape DEF DeleteRow, FileInv, RepositoryTypeOK, Deleting
<1>2. PICK v \in Versions : v = req[h].version
  BY <1>1
<1>3. /\ req' = [req EXCEPT ![h] = Free] /\ version' = [version EXCEPT ![v] = NoRow]
      /\ UNCHANGED <<file, store>>
  BY <1>2 DEF DeleteRow
<1>4. \A g \in Handlers : Deleting(g)' => req'[g] = req[g] /\ Deleting(g)
  BY <1>3 DEF FileInv, RepositoryTypeOK, Deleting, Free
<1>5. \A w \in Stored' : w \in Stored /\ version'[w] = version[w]
  BY <1>3 DEF Stored, FileInv, RepositoryTypeOK
<1>6. ASSUME NEW f \in Kept'
      PROVE  f \in Kept /\ version'[file'[f].current] = version[file[f].current]
  <2>1. f \in Kept /\ file[f].current # v /\ file[f].current \in Stored
    BY <1>1, <1>2, <1>3 DEF Kept, FileSound, Deleting, FileInv, CurrentIsStored, VersionsOf
  <2> QED
    BY <2>1, <1>3 DEF FileInv, RepositoryTypeOK, Stored
<1>7. \A g \in Handlers : Deleting(g)' =>
        /\ req'[g].key \in taken'
        /\ \A w \in Stored' : w # req'[g].version /\ version'[w].key = req'[g].key => req'[g].key \in reused'
  BY <1>3, <1>4, <1>5 DEF KeysInv
<1> QED
  BY <1>3, <1>5, <1>6, <1>7 DEF KeysInv

\* Every other step leaves the versions and the objects alone.
LEMMA NextKeepsKeys ==
  ASSUME FolderInv, FileInv, KeysInv, RepositoryNext
  PROVE  KeysInv'
<1>0. FileInv'
  BY NextKeepsFoldersAndFiles
<1>1. req \in [Handlers -> Request]
  BY DEF FileInv, RepositoryTypeOK
<1>2. ASSUME UNCHANGED <<file, version, store>>, \A g \in Handlers : req'[g] = req[g] \/ ~Deleting(g)'
      PROVE  KeysInv'
  BY <1>2, KeysAside DEF Kept
<1>3. ASSUME NEW h \in Handlers, NEW w, w.pc \notin {"emptying", "deleting"}, req' = [req EXCEPT ![h] = w],
             UNCHANGED <<file, version, store>>
      PROVE  KeysInv'
  BY <1>1, <1>2, <1>3 DEF Deleting
<1>4. ASSUME NEW h \in Handlers, FolderStep(h) PROVE KeysInv'
  <2>1. UNCHANGED <<file, version, store>>
    BY <1>4 DEF FolderStep, fileVars
  <2>2. \A g \in Handlers : req'[g] = req[g] \/ ~Deleting(g)'
    BY <1>4, FolderStepFrame DEF Deleting, FolderPcs
  <2> QED
    BY <1>2, <2>1, <2>2
<1>5. ASSUME NEW h \in Handlers, FileStep(h) PROVE KeysInv'
  <2>1. ASSUME NEW d \in FolderIds, NEW k \in Keys, CreateFileRecord(h, d, k) PROVE KeysInv'
    BY <1>3, <2>1 DEF CreateFileRecord, Begin
  <2>2. ASSUME NEW f \in Files, NEW k \in Keys, AddNewVersion(h, f, k) PROVE KeysInv'
    BY <1>3, <2>2 DEF AddNewVersion, Begin
  <2>3. ASSUME CheckQuota(h) PROVE KeysInv'
    <3>1. req[h] \in [pc : {"checking", "adding"}, file : Files, number : Nat, key : Keys, stale : BOOLEAN]
      BY <1>1, <2>3, FileShape DEF CheckQuota
    <3>2. [req[h] EXCEPT !.pc = "adding"].pc = "adding" /\ Free.pc = "free"
      BY <3>1 DEF Free
    <3>3. PICK w \in {Free, [req[h] EXCEPT !.pc = "adding"]} : req' = [req EXCEPT ![h] = w]
      BY <2>3 DEF CheckQuota
    <3> QED
      BY <1>3, <2>3, <3>2, <3>3 DEF CheckQuota
  <2>4. ASSUME NEW v \in Versions, DeleteVersion(h, v) PROVE KeysInv'
    <3>1. /\ req' = [req EXCEPT ![h] = [pc |-> "emptying", version |-> v, key |-> version[v].key]]
          /\ UNCHANGED <<file, version, store>> /\ v \in Stored
      BY <2>4 DEF DeleteVersion, Begin
    <3>2. \A g \in Handlers : \/ req'[g] = req[g]
                              \/ req'[g].version \in Stored /\ req'[g].key = version[req'[g].version].key
      BY <1>1, <3>1
    <3> QED
      BY <3>1, <3>2, KeysAside DEF Kept
  <2>5. ASSUME IncrementUsage(h) PROVE KeysInv'
    BY <1>3, <2>5 DEF IncrementUsage, Free
  <2>6. ASSUME NEW l \in Links, AccessShareLink(h, l) PROVE KeysInv'
    BY <1>3, <2>6 DEF AccessShareLink, Begin
  <2>7. ASSUME CountAccess(h) PROVE KeysInv'
    BY <1>3, <2>7 DEF CountAccess, Free
  <2> QED
    BY <1>0, <1>5, <2>1, <2>2, <2>3, <2>4, <2>5, <2>6, <2>7, InsertFileKeepsKeys, InsertVersionKeepsKeys,
       DeleteObjectKeepsKeys, DeleteRowKeepsKeys DEF FileStep
<1>6. ASSUME NEW h \in Handlers, Die(h) PROVE KeysInv'
  BY <1>3, <1>6 DEF Die, Free
<1>7. ASSUME NEW f \in Files, SoftDelete(f) PROVE KeysInv'
  <2>1. \A e \in Files : file'[e] # NoRow => file[e] # NoRow /\ file'[e].current = file[e].current
    <3>1. file' = [file EXCEPT ![f].archived = TRUE] /\ f \in Kept /\ file[f] \in File
      BY <1>7 DEF SoftDelete, Readable, Kept, FileInv, RepositoryTypeOK
    <3>2. file'[f] = [file[f] EXCEPT !.archived = TRUE] /\ \A e \in Files : e # f => file'[e] = file[e]
      BY <3>1 DEF FileInv, RepositoryTypeOK
    <3>3. file'[f].current = file[f].current
      BY <3>1, <3>2 DEF File
    <3> QED
      BY <3>1, <3>2, <3>3 DEF Kept
  <2>2. UNCHANGED <<version, store, req>>
    BY <1>7 DEF SoftDelete
  <2> QED
    BY <2>1, <2>2, KeysAside DEF Kept
<1>8. ASSUME UNCHANGED <<file, version, store, req>> PROVE KeysInv'
  BY <1>2, <1>8
<1> QED
  BY <1>4, <1>5, <1>6, <1>7, <1>8, StepIsFolderOrFileStep
     DEF RepositoryNext, RevokeShareLink, GenerateShareLink

--------------------------------------------------------------------------------
(***************************************************************************)
(* Quota and accesses.                                                     *)
(***************************************************************************)

LEMMA HandlersCount ==
  /\ IsFiniteSet(Handlers) /\ Others \in Nat /\ Cardinality(Handlers) = Others + 1
  /\ \A S \in SUBSET Handlers : IsFiniteSet(S) /\ Cardinality(S) \in 0..Others + 1
<1>1. IsFiniteSet(Handlers) /\ Cardinality(Handlers) \in Nat /\ Cardinality(Handlers) # 0
  BY RepositoryAssumption, FS_CardinalityType, FS_EmptySet
<1>2. ASSUME NEW S \in SUBSET Handlers
      PROVE  IsFiniteSet(S) /\ Cardinality(S) \in Nat /\ Cardinality(S) <= Cardinality(Handlers)
  BY <1>1, FS_Subset, FS_CardinalityType
<1> QED
  BY <1>1, <1>2 DEF Others

\* A request that charges or counts leaves the set of those that still may.
LEMMA OneLeaves ==
  ASSUME NEW S \in SUBSET Handlers, NEW h \in S
  PROVE  Cardinality(S \ {h}) = Cardinality(S) - 1
BY HandlersCount, FS_RemoveElement

LEMMA FewerWait ==
  ASSUME NEW S \in SUBSET Handlers, NEW T \in SUBSET S
  PROVE  Cardinality(T) <= Cardinality(S)
BY HandlersCount, FS_Subset

\* The others of a request about a file keep what they were granted.
LEMMA GrantsStay ==
  ASSUME FileInv, NEW h \in Handlers, FileStep(h) \/ Die(h)
  PROVE  /\ Charging' \ {h} = Charging \ {h}
         /\ \A l \in Links : Opening(l)' \ {h} = Opening(l) \ {h}
<1>1. \A g \in Handlers : g # h =>
        \/ req'[g] = req[g]
        \/ req[g].pc \in {"checking", "adding"} /\ req'[g].pc = req[g].pc
  <2>1. CASE FileStep(h)
    BY <2>1, FileStepFrame
  <2>2. CASE Die(h)
    BY <2>2 DEF Die, FileInv, RepositoryTypeOK
  <2> QED
    BY <2>1, <2>2
<1>2. Charging' = {g \in Handlers : req'[g].pc \in {"creating", "adding", "charging"}}
  BY DEF Charging
<1>3. \A l \in Links : Opening(l)' = {g \in Handlers : req'[g].pc = "opening" /\ req'[g].link = l}
  BY DEF Opening
<1> QED
  BY <1>1, <1>2, <1>3 DEF Charging, Opening

LEMMA UsageStep ==
  ASSUME FileInv, NEW h \in Handlers, FileStep(h) \/ Die(h)
  PROVE  \/ used' = used /\ Charging' \subseteq Charging
         \/ used' = used /\ UploadAllowed
         \/ used' = used + 1 /\ h \in Charging /\ Charging' = Charging \ {h}
<1> DEFINE Pcs == {"creating", "adding", "charging"}
<1>1. Charging' \ {h} = Charging \ {h}
  BY GrantsStay
<1>2. (h \in Charging' <=> req'[h].pc \in Pcs) /\ (h \in Charging <=> req[h].pc \in Pcs)
  BY DEF Charging
<1>3. req \in [Handlers -> Request]
  BY DEF FileInv, RepositoryTypeOK
<1>4. ASSUME used' = used, req'[h].pc \in Pcs => req[h].pc \in Pcs
      PROVE  used' = used /\ Charging' \subseteq Charging
  BY <1>1, <1>2, <1>4
<1>5. ASSUME NEW v, Begin(h, v)
      PROVE  req'[h] = v
  BY <1>3, <1>5 DEF Begin
<1>6. CASE Die(h)
  BY <1>3, <1>4, <1>6 DEF Die, Free
<1>7. CASE \E d \in FolderIds, k \in Keys : CreateFileRecord(h, d, k)
  BY <1>7 DEF CreateFileRecord
<1>8. CASE \E f \in Files, v \in Versions : InsertFile(h, f, v)
  BY <1>3, <1>4, <1>8 DEF InsertFile, Free
<1>9. CASE \E f \in Files, k \in Keys : AddNewVersion(h, f, k)
  <2>1. req'[h].pc = "checking" /\ used' = used
    BY <1>5, <1>9 DEF AddNewVersion
  <2> QED
    BY <1>4, <2>1
<1>10. CASE CheckQuota(h)
  BY <1>3, <1>4, <1>10 DEF CheckQuota, Free
<1>11. CASE \E v \in Versions : InsertVersion(h, v)
  <2>1. used' = used /\ req[h].pc = "adding"
    BY <1>11 DEF InsertVersion
  <2> QED
    BY <1>4, <2>1
<1>12. CASE \E v \in Versions : DeleteVersion(h, v)
  <2>1. req'[h].pc = "emptying" /\ used' = used
    BY <1>5, <1>12 DEF DeleteVersion
  <2> QED
    BY <1>4, <2>1
<1>13. CASE IncrementUsage(h)
  <2>1. req[h].pc = "charging" /\ req'[h].pc = "free" /\ used' = used + 1
    BY <1>3, <1>13 DEF IncrementUsage, Free
  <2> QED
    BY <1>1, <1>2, <2>1
<1>14. CASE DeleteObject(h)
  <2>1. req[h] \in [pc : {"emptying", "deleting"}, version : Versions, key : Keys]
    BY <1>3, <1>14, FileShape DEF DeleteObject
  <2>2. req'[h].pc = "deleting" /\ used' = used
    BY <1>3, <1>14, <2>1 DEF DeleteObject
  <2> QED
    BY <1>4, <2>2
<1>15. CASE DeleteRow(h) \/ CountAccess(h)
  <2>1. req'[h].pc = "free" /\ used' = used
    BY <1>3, <1>15 DEF DeleteRow, CountAccess, Free
  <2> QED
    BY <1>4, <2>1
<1>16. CASE \E l \in Links : AccessShareLink(h, l)
  <2>1. req'[h].pc = "opening" /\ used' = used
    BY <1>5, <1>16 DEF AccessShareLink
  <2> QED
    BY <1>4, <2>1
<1> QED
  BY <1>6, <1>7, <1>8, <1>9, <1>10, <1>11, <1>12, <1>13, <1>14, <1>15, <1>16 DEF FileStep

LEMMA AccessStep ==
  ASSUME FileInv, NEW h \in Handlers, FileStep(h) \/ Die(h), NEW l \in Shared
  PROVE  /\ l \in Shared' => link'[l].max = link[l].max
         /\ \/ link' = link /\ Opening(l)' \subseteq Opening(l)
            \/ link' = link /\ (link[l].max # 0 => link[l].count < link[l].max)
            \/ link'[l] = link[l] /\ Opening(l)' \subseteq Opening(l)
            \/ /\ link'[l].count = link[l].count + 1
               /\ h \in Opening(l) /\ Opening(l)' = Opening(l) \ {h}
<1>1. Opening(l)' \ {h} = Opening(l) \ {h} /\ l \in Links
  BY GrantsStay DEF Shared
<1>2. /\ h \in Opening(l)' <=> (req'[h].pc = "opening" /\ req'[h].link = l)
      /\ h \in Opening(l) <=> (req[h].pc = "opening" /\ req[h].link = l)
  BY DEF Opening
<1>3. req \in [Handlers -> Request] /\ link[l] \in Link
  BY DEF FileInv, RepositoryTypeOK, Shared
<1>4. CASE \E m \in Links : AccessShareLink(h, m)
  <2>1. PICK m \in Links : AccessShareLink(h, m)
    BY <1>4
  <2>2. req'[h] = [pc |-> "opening", link |-> m] /\ link' = link
    BY <1>3, <2>1 DEF AccessShareLink, Begin
  <2>3. CASE m = l
    BY <2>1, <2>2, <2>3 DEF AccessShareLink
  <2>4. CASE m # l
    BY <1>1, <1>2, <2>2, <2>4
  <2> QED
    BY <2>3, <2>4
<1>5. CASE CountAccess(h)
  <2>1. PICK m \in Links : m = req[h].link
    BY <1>3, <1>5, FileShape DEF CountAccess
  <2>2. req[h].pc = "opening" /\ req'[h] = Free
    BY <1>3, <1>5 DEF CountAccess
  <2>3. CASE m = l
    <3>1. link' = [link EXCEPT ![l] = [link[l] EXCEPT !.count = link[l].count + 1]]
      BY <1>5, <2>1, <2>3 DEF CountAccess
    <3>2. link'[l] = [link[l] EXCEPT !.count = link[l].count + 1]
      BY <1>1, <3>1 DEF FileInv, RepositoryTypeOK
    <3>3. link'[l].count = link[l].count + 1 /\ link'[l].max = link[l].max
      BY <1>3, <3>2 DEF Link
    <3> QED
      BY <1>1, <1>2, <2>1, <2>2, <2>3, <3>3 DEF Free
  <2>4. CASE m # l
    <3>1. link'[l] = link[l]
      BY <1>1, <1>5, <2>1, <2>4 DEF CountAccess, FileInv, RepositoryTypeOK
    <3> QED
      BY <1>1, <1>2, <2>2, <3>1 DEF Free
  <2> QED
    BY <2>3, <2>4
<1>6. ASSUME NEW v, Begin(h, v)
      PROVE  req'[h] = v
  BY <1>3, <1>6 DEF Begin
<1>7. ASSUME link' = link, req'[h].pc # "opening"
      PROVE  link' = link /\ Opening(l)' \subseteq Opening(l)
  BY <1>1, <1>2, <1>7
<1>8. CASE \/ Die(h) \/ IncrementUsage(h) \/ DeleteRow(h)
           \/ \E f \in Files, v \in Versions : InsertFile(h, f, v)
  <2>1. link' = link /\ req'[h].pc \in {"free", "charging"}
    BY <1>3, <1>8 DEF Die, IncrementUsage, DeleteRow, InsertFile, Free
  <2> QED
    BY <1>7, <2>1
<1>9. CASE \E v \in Versions : InsertVersion(h, v)
  <2>1. link' = link /\ req'[h].pc \in {"free", "charging"}
    BY <1>3, <1>9 DEF InsertVersion, Free
  <2> QED
    BY <1>7, <2>1
<1>10. CASE \E d \in FolderIds, k \in Keys : CreateFileRecord(h, d, k)
  <2>1. link' = link /\ req'[h].pc = "creating"
    BY <1>6, <1>10 DEF CreateFileRecord
  <2> QED
    BY <1>7, <2>1
<1>11. CASE \E f \in Files, k \in Keys : AddNewVersion(h, f, k)
  <2>1. link' = link /\ req'[h].pc = "checking"
    BY <1>6, <1>11 DEF AddNewVersion
  <2> QED
    BY <1>7, <2>1
<1>12. CASE \E v \in Versions : DeleteVersion(h, v)
  <2>1. link' = link /\ req'[h].pc = "emptying"
    BY <1>6, <1>12 DEF DeleteVersion
  <2> QED
    BY <1>7, <2>1
<1>13. CASE CheckQuota(h)
  <2>1. req[h] \in [pc : {"checking", "adding"}, file : Files, number : Nat, key : Keys, stale : BOOLEAN]
    BY <1>3, <1>13, FileShape DEF CheckQuota
  <2>2. link' = link /\ req'[h].pc \in {"free", "adding"}
    BY <1>3, <1>13, <2>1 DEF CheckQuota, Free
  <2> QED
    BY <1>7, <2>2
<1>14. CASE DeleteObject(h)
  <2>1. req[h] \in [pc : {"emptying", "deleting"}, version : Versions, key : Keys]
    BY <1>3, <1>14, FileShape DEF DeleteObject
  <2>2. link' = link /\ req'[h].pc = "deleting"
    BY <1>3, <1>14, <2>1 DEF DeleteObject
  <2> QED
    BY <1>7, <2>2
<1>15. link' = link => (l \in Shared' => link'[l].max = link[l].max)
  OBVIOUS
<1> QED
  BY <1>4, <1>5, <1>8, <1>9, <1>10, <1>11, <1>12, <1>13, <1>14, <1>15 DEF FileStep

LEMMA GrantedWaits ==
  /\ Charging \in SUBSET Handlers /\ Charging' \in SUBSET Handlers
  /\ \A l \in Links : Opening(l) \in SUBSET Handlers /\ Opening(l)' \in SUBSET Handlers
BY DEF Charging, Opening

LEMMA FileStepKeepsGranted ==
  ASSUME FileInv, Granted, NEW h \in Handlers, FileStep(h) \/ Die(h)
  PROVE  Granted'
<1>1. used' + Cardinality(Charging') <= Quota + Others
  <2>1. /\ used \in Nat /\ Quota \in Nat /\ Others \in Nat
        /\ Cardinality(Charging) \in Nat /\ Cardinality(Charging') \in 0..Others + 1
        /\ used + Cardinality(Charging) <= Quota + Others
    BY HandlersCount, GrantedWaits, RepositoryAssumption DEF FileInv, RepositoryTypeOK, Granted
  <2>2. CASE used' = used /\ Charging' \subseteq Charging
    <3>1. Cardinality(Charging') <= Cardinality(Charging)
      BY <2>2, GrantedWaits, FewerWait
    <3> QED
      BY <2>1, <2>2, <3>1
  <2>3. CASE used' = used /\ UploadAllowed
    BY <2>1, <2>3 DEF UploadAllowed
  <2>4. CASE used' = used + 1 /\ h \in Charging /\ Charging' = Charging \ {h}
    <3>1. Cardinality(Charging') = Cardinality(Charging) - 1
      BY <2>4, GrantedWaits, OneLeaves
    <3> QED
      BY <2>1, <2>4, <3>1
  <2> QED
    BY <2>2, <2>3, <2>4, UsageStep
<1>2. Shared' \subseteq Shared
  <2>1. CASE link' = link
    BY <2>1 DEF Shared
  <2>2. CASE CountAccess(h)
    BY <2>2 DEF CountAccess, FileInv, RepositoryTypeOK, Shared
  <2>3. link' = link \/ CountAccess(h)
    BY DEF FileStep, Die, CreateFileRecord, InsertFile, AddNewVersion, CheckQuota, InsertVersion,
           DeleteVersion, IncrementUsage, DeleteObject, DeleteRow, AccessShareLink
  <2> QED
    BY <2>1, <2>2, <2>3
<1>3. ASSUME NEW l \in Shared', link'[l].max # 0
      PROVE  link'[l].count + Cardinality(Opening(l)') <= link'[l].max + Others
  <2>1. l \in Shared /\ l \in Links /\ link[l] \in Link
    BY <1>2 DEF Shared, FileInv, RepositoryTypeOK
  <2>2. link'[l].max = link[l].max
    BY <2>1, AccessStep
  <2>3. /\ link[l].count \in Nat /\ link[l].max \in Nat /\ Others \in Nat
        /\ Cardinality(Opening(l)) \in Nat /\ Cardinality(Opening(l)') \in 0..Others + 1
        /\ link[l].count + Cardinality(Opening(l)) <= link[l].max + Others
    <3>1. Opening(l) \in SUBSET Handlers /\ Opening(l)' \in SUBSET Handlers
      BY <2>1, GrantedWaits
    <3>2. Cardinality(Opening(l)) \in 0..Others + 1 /\ Cardinality(Opening(l)') \in 0..Others + 1 /\ Others \in Nat
      BY <3>1, HandlersCount
    <3>3. link[l].count \in Nat /\ link[l].max \in Nat
      BY <2>1, RepositoryAssumption DEF Link
    <3> QED
      BY <1>3, <2>1, <2>2, <3>2, <3>3 DEF Granted
  <2>4. ASSUME link'[l] = link[l], Opening(l)' \subseteq Opening(l)
        PROVE  link'[l].count + Cardinality(Opening(l)') <= link'[l].max + Others
    <3>1. Cardinality(Opening(l)') <= Cardinality(Opening(l))
      BY <2>1, <2>4, GrantedWaits, FewerWait
    <3> QED
      BY <2>3, <2>4, <3>1
  <2>5. CASE link' = link /\ (link[l].max # 0 => link[l].count < link[l].max)
    BY <1>3, <2>3, <2>5
  <2>6. CASE /\ link'[l].count = link[l].count + 1
             /\ h \in Opening(l) /\ Opening(l)' = Opening(l) \ {h}
    <3>1. Cardinality(Opening(l)') = Cardinality(Opening(l)) - 1
      BY <2>1, <2>6, GrantedWaits, OneLeaves
    <3> QED
      BY <2>2, <2>3, <2>6, <3>1
  <2> QED
    BY <2>1, <2>4, <2>5, <2>6, AccessStep
<1> QED
  BY <1>1, <1>3 DEF Granted

LEMMA NextKeepsGranted ==
  ASSUME FolderInv, FileInv, Granted, RepositoryNext
  PROVE  Granted'
<1>1. ASSUME \A g \in Handlers : req'[g] = req[g] \/ {req[g].pc, req'[g].pc} \subseteq FolderPcs \cup {"free"},
             UNCHANGED <<used, link>>
      PROVE  Granted'
  <2>1. Charging' = {g \in Handlers : req'[g].pc \in {"creating", "adding", "charging"}}
    BY DEF Charging
  <2>2. \A l : Opening(l)' = {g \in Handlers : req'[g].pc = "opening" /\ req'[g].link = l}
    BY DEF Opening
  <2>3. Charging' = Charging
    BY <1>1, <2>1 DEF Charging, FolderPcs
  <2>4. \A l : Opening(l)' = Opening(l)
    BY <1>1, <2>2 DEF Opening, FolderPcs
  <2> QED
    BY <1>1, <2>3, <2>4 DEF Granted, Shared, Others
<1>2. ASSUME NEW h \in Handlers, RepositoryStep(h)
      PROVE  Granted'
  <2>1. CASE FolderStep(h)
    BY <1>1, <2>1, FolderStepFrame DEF fileVars
  <2> QED
    BY <1>2, <2>1, FileStepKeepsGranted, StepIsFolderOrFileStep
<1>3. ASSUME NEW f \in Files, SoftDelete(f)
      PROVE  Granted'
  BY <1>1, <1>3 DEF SoftDelete
<1>4. ASSUME UNCHANGED <<req, used>>,
             \A m \in Shared' : \/ link'[m] = link[m] /\ m \in Shared
                                \/ link'[m].count = 0 /\ link'[m].max \in Nat /\ Opening(m) = {}
      PROVE  Granted'
  <2>1. Charging' = Charging /\ \A m : Opening(m)' = Opening(m)
    BY <1>4 DEF Charging, Opening
  <2>2. ASSUME NEW m \in Shared', link'[m].max # 0
        PROVE  link'[m].count + Cardinality(Opening(m)') <= link'[m].max + Others
    <3>1. CASE link'[m] = link[m] /\ m \in Shared
      BY <2>1, <2>2, <3>1 DEF Granted
    <3>2. CASE link'[m].count = 0 /\ link'[m].max \in Nat /\ Opening(m) = {}
      <4>1. Cardinality(Opening(m)') = 0
        BY <2>1, <3>2, FS_EmptySet
      <4> QED
        BY <3>2, <4>1, HandlersCount
    <3> QED
      BY <1>4, <3>1, <3>2
  <2> QED
    BY <1>4, <2>1, <2>2 DEF Granted, Others
<1>5. ASSUME NEW l \in Links, RevokeShareLink(l)
      PROVE  Granted'
  <2>1. \A m \in Shared' : link'[m] = link[m] /\ m \in Shared
    BY <1>5 DEF RevokeShareLink, FileInv, RepositoryTypeOK, Shared
  <2> QED
    BY <1>4, <1>5, <2>1 DEF RevokeShareLink
<1>6. ASSUME NEW l \in Links, NEW f \in Files, NEW max \in Limits, GenerateShareLink(l, f, max)
      PROVE  Granted'
  <2>1. link' = [link EXCEPT ![l] = [file |-> f, max |-> max, count |-> 0]] /\ UNCHANGED <<req, used>>
    BY <1>6 DEF GenerateShareLink
  <2>2. Opening(l) = {}
    BY <1>6 DEF GenerateShareLink, Opening
  <2>3. link'[l] = [file |-> f, max |-> max, count |-> 0] /\ \A m \in Links : m # l => link'[m] = link[m]
    BY <2>1 DEF FileInv, RepositoryTypeOK
  <2>4. max \in Nat
    BY RepositoryAssumption
  <2>5. \A m \in Shared' : \/ link'[m] = link[m] /\ m \in Shared
                           \/ link'[m].count = 0 /\ link'[m].max \in Nat /\ Opening(m) = {}
    BY <2>2, <2>3, <2>4 DEF Shared
  <2> QED
    BY <1>4, <2>1, <2>5
<1> QED
  BY <1>2, <1>3, <1>5, <1>6 DEF RepositoryNext

--------------------------------------------------------------------------------
(***************************************************************************)
(* Theorems.                                                               *)
(***************************************************************************)

RepositoryInv == FolderInv /\ FileInv /\ KeysInv /\ Granted

LEMMA RepositoryStarts ==
  ASSUME RepositoryInit
  PROVE  RepositoryInv
<1> USE DEF RepositoryInit, FoldersInit
<1>1. Existing = {} /\ Kept = {} /\ Stored = {} /\ Shared = {} /\ Charging = {}
  BY DEF Existing, Kept, Stored, Shared, Charging, Free
<1>2. \A h \in Handlers : req[h] = Free /\ Free \in Request
  BY FileRecords
<1>3. FoldersTypeOK /\ req \in [Handlers -> Request]
  BY <1>1, <1>2 DEF FoldersTypeOK
<1>4. FolderInv
  BY <1>1, <1>2, <1>3 DEF FolderInv, FolderSound, TreeIsSound, NamesTellApart, DepthIsPlace, Free
<1>5. RepositoryTypeOK
  BY <1>1, <1>3 DEF RepositoryTypeOK
<1>6. FileInv
  BY <1>1, <1>2, <1>5 DEF FileInv, FileSound, CurrentIsStored, NewestIsCurrent, Free
<1>7. Granted
  BY <1>1, HandlersCount, FS_EmptySet, RepositoryAssumption DEF Granted
<1>8. KeysInv
  BY <1>1, <1>2 DEF KeysInv, Deleting, Free
<1> QED
  BY <1>4, <1>6, <1>7, <1>8 DEF RepositoryInv

LEMMA RepositoryContinues ==
  ASSUME RepositoryInv, [RepositoryNext]_vars
  PROVE  RepositoryInv'
<1>1. CASE RepositoryNext
  BY <1>1, NextKeepsFoldersAndFiles, NextKeepsKeys, NextKeepsGranted DEF RepositoryInv
<1>2. CASE UNCHANGED vars
  <2>1. FolderInv'
    BY <1>2 DEF RepositoryInv, vars, folderVars, FolderInv, FoldersTypeOK, Existing, FolderSound, Children, Named,
           TreeIsSound, NamesTellApart, DepthIsPlace
  <2>2. FileInv'
    BY <1>2, <2>1, FilesAside DEF RepositoryInv, vars, folderVars, FolderInv, FileInv, RepositoryTypeOK, Shared,
           Kept, Existing
  <2>3. Granted'
    BY <1>2 DEF RepositoryInv, vars, Granted, Charging, Opening, Shared, Others
  <2>4. KeysInv'
    BY <1>2, KeysAside DEF RepositoryInv, vars, Kept, Deleting
  <2> QED
    BY <2>1, <2>2, <2>3, <2>4 DEF RepositoryInv
<1> QED
  BY <1>1, <1>2

LEMMA RepositoryAlways == RepositorySpec => []RepositoryInv
BY RepositoryStarts, RepositoryContinues, PTL DEF RepositorySpec

\* Whatever requests overlap and wherever they die, the rows of the repository
\* refer to rows there are: a file to its folder, a version and a link to their
\* file, a folder to its parent.
THEOREM RepositoryTypeCorrect == RepositorySpec => []RepositoryTypeOK
<1>1. RepositoryInv => RepositoryTypeOK
  BY DEF RepositoryInv, FileInv
<1> QED
  BY <1>1, RepositoryAlways, PTL

\* "Folder already exists", "max depth is 2": folders of one name in one place,
\* and depths that are not the place in the tree, come of overlapping requests
\* only, however many there are.
THEOREM TreeIsSoundHolds == RepositorySpec => []TreeIsSound
<1>1. RepositoryInv => TreeIsSound
  BY DEF RepositoryInv, FolderInv
<1> QED
  BY <1>1, RepositoryAlways, PTL

\* "Cannot delete the current version": deleteVersion checks this before it
\* empties and deletes, in steps of its own, and no addition in between makes
\* the version current again; and the object it removes is the current version's
\* only if one key was given twice.
THEOREM CurrentIsWholeHolds == RepositorySpec => []CurrentIsWhole
<1>1. RepositoryInv => CurrentIsWhole
  BY DEF RepositoryInv, FileInv, CurrentIsStored, KeysInv, CurrentIsWhole
<1> QED
  BY <1>1, RepositoryAlways, PTL

\* The unique key of file and number keeps additions that read the same total
\* apart, unless the version that took the number is deleted in between.
THEOREM NewestIsCurrentHolds == RepositorySpec => []NewestIsCurrent
<1>1. RepositoryInv => NewestIsCurrent
  BY DEF RepositoryInv, FileInv
<1> QED
  BY <1>1, RepositoryAlways, PTL

\* Quota and access limits are overrun by less than the number of requests that
\* overlap, whatever that number and the limits are.
THEOREM OverrunsBoundedHolds == RepositorySpec => []OverrunsBounded
<1>1. RepositoryInv => OverrunsBounded
  <2> SUFFICES ASSUME RepositoryInv
               PROVE  OverrunsBounded
    OBVIOUS
  <2>1. Quota \in Nat /\ Others \in Nat /\ used \in Nat
    BY HandlersCount, RepositoryAssumption DEF RepositoryInv, FileInv, RepositoryTypeOK
  <2>2. used <= Quota + Others
    <3>1. Cardinality(Charging) \in 0..Others + 1
      BY HandlersCount, GrantedWaits
    <3> QED
      BY <2>1, <3>1 DEF RepositoryInv, Granted
  <2>3. ASSUME NEW l \in Shared, link[l].max # 0
        PROVE  link[l].count <= link[l].max + Others
    <3>1. l \in Links /\ link[l] \in Link
      BY DEF Shared, RepositoryInv, FileInv, RepositoryTypeOK
    <3>2. Cardinality(Opening(l)) \in 0..Others + 1
      BY <3>1, HandlersCount, GrantedWaits
    <3>3. link[l].count \in Nat /\ link[l].max \in Nat
      BY <3>1, RepositoryAssumption DEF Link
    <3>4. link[l].count + Cardinality(Opening(l)) <= link[l].max + Others
      BY <2>3 DEF RepositoryInv, Granted
    <3> QED
      BY <2>1, <3>2, <3>3, <3>4
  <2> QED
    BY <2>2, <2>3 DEF OverrunsBounded
<1> QED
  BY <1>1, RepositoryAlways, PTL
================================================================================
