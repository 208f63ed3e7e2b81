---------------------------- MODULE CalendarProofs ----------------------------
(***************************************************************************)
(* Proofs about Calendar, for any number of sessions, terms, names and     *)
(* overlapping requests, and any limit of terms per session.               *)
(***************************************************************************)
EXTENDS Calendar, FiniteSetTheorems, TLAPS

Table(id) == IF id \in Sessions THEN Sessions ELSE Terms

\* What a request may rely on as long as no row of its table was made current:
\* once its statement has cleared what it saw, no flag is left but its own, and
\* what it is about to delete is not current.
Settled(h) ==
  /\ req[h].pc = "clearing" =>
       /\ req[h].seen \subseteq Siblings(req[h].row.parent)
       /\ ~req[h].stale => current \cap Siblings(req[h].row.parent) \subseteq req[h].seen
  /\ req[h].pc = "inserting" => req[h].stale \/ current \cap Siblings(req[h].row.parent) = {}
  /\ req[h].pc = "switching" =>
       /\ req[h].seen \subseteq Table(req[h].id)
       /\ ~req[h].stale => current \cap Table(req[h].id) \subseteq req[h].seen \cup {req[h].id}
  /\ req[h].pc = "deleting" => req[h].stale \/ req[h].id \notin current

\* A term that was counted has its place as long as no other one came in.
Counted(h) ==
  req[h].pc \in {"ready", "clearing", "inserting"} /\ req[h].row.parent \in Sessions /\ ~req[h].crowded
    => Cardinality(TermsOf(req[h].row.parent)) < TermLimit

\* The inductive invariant.
CalendarInv ==
  /\ CalendarTypeOK
  /\ \A h \in Handlers : Settled(h) /\ Counted(h)
  /\ OneCurrent /\ TermsWithinLimit

--------------------------------------------------------------------------------
(***************************************************************************)
(* Rows and requests.                                                      *)
(***************************************************************************)

\* A row and its siblings are in one table.
LEMMA Tables ==
  ASSUME CalendarTypeOK
  PROVE  /\ \A i \in Live : i \in Ids /\ row[i] \in Row /\ Siblings(row[i].parent) = Table(i) /\ i \in Table(i)
         /\ \A i \in Live \cap Sessions : row[i].parent = School
         /\ \A i \in Live \cap Terms : row[i].parent \in Sessions /\ row[i].parent \in Live
         /\ \A r \in Row : (r.parent = School => Siblings(r.parent) = Sessions)
                           /\ (r.parent # School => Siblings(r.parent) = Terms /\ r.parent \in Sessions)
BY CalendarAssumption DEF CalendarTypeOK, Live, Ids, Row, Siblings, Table

LEMMA FewTerms ==
  ASSUME NEW S \in SUBSET Terms, NEW T \in SUBSET S
  PROVE  /\ IsFiniteSet(S) /\ IsFiniteSet(T) /\ Cardinality(S) \in Nat /\ Cardinality(T) \in Nat
         /\ Cardinality(T) <= Cardinality(S)
BY CalendarAssumption, FS_Subset, FS_CardinalityType

LEMMA OneMoreTerm ==
  ASSUME NEW S \in SUBSET Terms, NEW t
  PROVE  Cardinality(S \cup {t}) <= Cardinality(S) + 1
<1>1. IsFiniteSet(S) /\ Cardinality(S) \in Nat
  BY FewTerms
<1> QED
  BY <1>1, FS_AddElement

CreationPcs == {"counting", "ready", "clearing", "inserting"}
CreationRequest ==
  [pc : CreationPcs, row : Row, flag : BOOLEAN, seen : SUBSET Ids, stale : BOOLEAN, crowded : BOOLEAN]
SwitchRequest == [pc : {"switching"}, id : Ids, seen : SUBSET Ids, stale : BOOLEAN]
DeletionRequest == [pc : {"deleting"}, id : Ids, seen : SUBSET Work, stale : BOOLEAN]

LEMMA RequestShape ==
  ASSUME NEW v \in Request
  PROVE  /\ v.pc \in CreationPcs => v \in CreationRequest
         /\ v.pc = "switching" => v \in SwitchRequest
         /\ v.pc = "deleting" => v \in DeletionRequest
         /\ v.pc \in CreationPcs \cup {"switching", "deleting", "free"}
BY DEF Request, Free, CreationPcs, CreationRequest, SwitchRequest, DeletionRequest

LEMMA RequestKinds ==
  /\ Free \in Request
  /\ CreationRequest \subseteq Request /\ SwitchRequest \subseteq Request /\ DeletionRequest \subseteq Request
BY DEF Request, Free, CreationPcs, CreationRequest, SwitchRequest, DeletionRequest

\* To be outdated is to be marked stale, and nothing else.
LEMMA SwitchedKeeps ==
  ASSUME NEW g \in Handlers, req[g] \in Request, NEW id, NEW w, w = Switched(g, id)
  PROVE  /\ w \in Request /\ w.pc = req[g].pc
         /\ w.pc \in CreationPcs =>
              /\ w.row = req[g].row /\ w.seen = req[g].seen /\ w.crowded = req[g].crowded
              /\ req[g].stale => w.stale
              /\ w.pc \in {"clearing", "inserting"} => w.stale \/ id \notin Siblings(w.row.parent)
         /\ w.pc = "switching" =>
              /\ w.id = req[g].id /\ w.seen = req[g].seen
              /\ req[g].stale => w.stale
              /\ w.stale \/ ~({id, w.id} \subseteq Siblings(row'[id].parent))
         /\ w.pc = "deleting" =>
              /\ w.id = req[g].id /\ (req[g].stale => w.stale)
              /\ w.stale \/ id # w.id
<1>1. CASE req[g].pc \in CreationPcs
  <2>1. req[g] \in CreationRequest
    BY <1>1, RequestShape
  <2>2. w \in CreationRequest
    BY <1>1, <2>1 DEF Switched, CreationRequest, CreationPcs
  <2>3. w \in Request
    BY <2>2, RequestKinds
  <2> QED
    BY <1>1, <2>1, <2>2, <2>3 DEF Switched, CreationRequest, CreationPcs
<1>2. CASE req[g].pc = "switching"
  <2>1. req[g] \in SwitchRequest
    BY <1>2, RequestShape
  <2>2. w \in SwitchRequest
    BY <1>2, <2>1 DEF Switched, SwitchRequest
  <2>3. w \in Request
    BY <2>2, RequestKinds
  <2> QED
    BY <1>2, <2>1, <2>2, <2>3 DEF Switched, SwitchRequest, CreationPcs
<1>3. CASE req[g].pc = "deleting"
  <2>1. req[g] \in DeletionRequest
    BY <1>3, RequestShape
  <2>2. w \in DeletionRequest
    BY <1>3, <2>1 DEF Switched, DeletionRequest
  <2>3. w \in Request
    BY <2>2, RequestKinds
  <2> QED
    BY <1>3, <2>1, <2>2, <2>3 DEF Switched, DeletionRequest, CreationPcs
<1>4. CASE req[g].pc = "free"
  BY <1>4 DEF Switched, CreationPcs
<1> QED
  BY <1>1, <1>2, <1>3, <1>4, RequestShape

\* So it is when a row is inserted, or marked crowded.
LEMMA OutdatedKeeps ==
  ASSUME NEW g \in Handlers, req[g] \in Request, NEW id, NEW fl \in BOOLEAN, NEW w, w = Outdated(g, id, fl)
  PROVE  /\ w \in Request /\ w.pc = req[g].pc
         /\ w.pc \in CreationPcs =>
              /\ w.row = req[g].row /\ w.seen = req[g].seen
              /\ req[g].stale => w.stale
              /\ req[g].crowded => w.crowded
              /\ w.pc \in {"clearing", "inserting"} => w.stale \/ ~fl \/ id \notin Siblings(w.row.parent)
              /\ w.pc # "counting" => w.crowded \/ w.row.parent # row'[id].parent
         /\ w.pc = "switching" =>
              /\ w.id = req[g].id /\ w.seen = req[g].seen
              /\ req[g].stale => w.stale
              /\ w.stale \/ ~fl \/ ~({id, w.id} \subseteq Siblings(row'[id].parent))
         /\ w.pc = "deleting" =>
              /\ w.id = req[g].id /\ (req[g].stale => w.stale)
              /\ w.stale \/ ~fl \/ id # w.id
<1>1. PICK v : v = IF fl THEN Switched(g, id) ELSE req[g]
  OBVIOUS
<1>2. /\ v \in Request /\ v.pc = req[g].pc
      /\ v.pc \in CreationPcs =>
           /\ v.row = req[g].row /\ v.seen = req[g].seen /\ v.crowded = req[g].crowded
           /\ req[g].stale => v.stale
           /\ v.pc \in {"clearing", "inserting"} => v.stale \/ ~fl \/ id \notin Siblings(v.row.parent)
      /\ v.pc = "switching" =>
           /\ v.id = req[g].id /\ v.seen = req[g].seen
           /\ req[g].stale => v.stale
           /\ v.stale \/ ~fl \/ ~({id, v.id} \subseteq Siblings(row'[id].parent))
      /\ v.pc = "deleting" =>
           /\ v.id = req[g].id /\ (req[g].stale => v.stale)
           /\ v.stale \/ ~fl \/ id # v.id
  BY <1>1, SwitchedKeeps
<1>3. w = IF v.pc \in {"ready", "clearing", "inserting"} /\ v.row.parent = row'[id].parent
          THEN [v EXCEPT !.crowded = TRUE] ELSE v
  BY <1>1 DEF Outdated
<1>4. CASE v.pc \in {"ready", "clearing", "inserting"}
  <2>1. v \in CreationRequest
    BY <1>2, <1>4, RequestShape DEF CreationPcs
  <2>2. w \in CreationRequest
    BY <1>3, <2>1 DEF CreationRequest
  <2>3. w \in Request
    BY <2>2, RequestKinds
  <2>4. /\ w.pc = v.pc /\ w.row = v.row /\ w.seen = v.seen /\ w.stale = v.stale
        /\ w.crowded \/ (w.crowded = v.crowded /\ w.row.parent # row'[id].parent)
    BY <1>3, <1>4, <2>1 DEF CreationRequest
  <2> QED
    BY <1>2, <1>4, <2>3, <2>4 DEF CreationPcs
<1>5. CASE v.pc \notin {"ready", "clearing", "inserting"}
  <2>1. w = v
    BY <1>3, <1>5
  <2> QED
    BY <1>2, <1>5, <2>1 DEF CreationPcs
<1> QED
  BY <1>4, <1>5

--------------------------------------------------------------------------------
(***************************************************************************)
(* Steps that set no flag.                                                 *)
(***************************************************************************)

\* A request that does not move keeps what it relies on while flags are cleared
\* and terms removed.
LEMMA OthersKeep ==
  ASSUME NEW g \in Handlers, req[g] \in Request, Settled(g), Counted(g), req'[g] = req[g],
         current' \subseteq current, \A s \in Sessions : TermsOf(s)' \subseteq TermsOf(s)
  PROVE  Settled(g)' /\ Counted(g)'
<1>1. Settled(g)'
  BY DEF Settled, Siblings, Table
<1>2. Counted(g)'
  <2> SUFFICES ASSUME req[g].pc \in {"ready", "clearing", "inserting"}, req[g].row.parent \in Sessions,
                      ~req[g].crowded
               PROVE  Cardinality(TermsOf(req[g].row.parent)') < TermLimit
    BY DEF Counted
  <2>1. PICK s \in Sessions : s = req[g].row.parent
    OBVIOUS
  <2>2. Cardinality(TermsOf(s)) < TermLimit
    BY <2>1 DEF Counted
  <2>3. TermsOf(s) \in SUBSET Terms /\ TermsOf(s)' \in SUBSET TermsOf(s)
    BY DEF TermsOf
  <2>4. /\ Cardinality(TermsOf(s)) \in Nat /\ Cardinality(TermsOf(s)') \in Nat
        /\ Cardinality(TermsOf(s)') <= Cardinality(TermsOf(s))
    BY <2>3, FewTerms
  <2>5. Cardinality(TermsOf(s)') < TermLimit
    BY <2>2, <2>4, CalendarAssumption
  <2> QED
    BY <2>1, <2>5
<1> QED
  BY <1>1, <1>2

\* One request moves and nothing else happens.
LEMMA RequestAside ==
  ASSUME CalendarInv, NEW h \in Handlers, NEW v \in Request, req' = [req EXCEPT ![h] = v],
         UNCHANGED <<row, current, refs, mixed, late>>, served' \in Nat, Settled(h)', Counted(h)'
  PROVE  CalendarInv'
<1>1. req' \in [Handlers -> Request] /\ \A g \in Handlers : g # h => req'[g] = req[g]
  BY DEF CalendarInv, CalendarTypeOK
<1>2. Live' = Live /\ \A s \in Sessions : TermsOf(s)' = TermsOf(s)
  BY DEF Live, TermsOf
<1>3. CalendarTypeOK'
  BY <1>1, <1>2 DEF CalendarInv, CalendarTypeOK
<1>4. ASSUME NEW g \in Handlers, g # h
      PROVE  Settled(g)' /\ Counted(g)'
  BY <1>1, <1>2, <1>4, OthersKeep DEF CalendarInv, CalendarTypeOK
<1>5. OneCurrent' /\ TermsWithinLimit'
  BY <1>2 DEF CalendarInv, OneCurrent, TermsWithinLimit
<1> QED
  BY <1>3, <1>4, <1>5 DEF CalendarInv

LEMMA FreeAside ==
  ASSUME CalendarInv, NEW h \in Handlers, req' = [req EXCEPT ![h] = Free],
         UNCHANGED <<row, current, refs, mixed, late, served>>
  PROVE  CalendarInv'
<1>1. req'[h] = Free /\ served' \in Nat
  BY DEF CalendarInv, CalendarTypeOK
<1>2. Settled(h)' /\ Counted(h)'
  BY <1>1 DEF Settled, Counted, Free
<1> QED
  BY <1>1, <1>2, RequestAside, RequestKinds

LEMMA BeginKeeps ==
  ASSUME CalendarInv, NEW h \in Handlers, NEW v \in Request, Begin(h, v), Settled(h)', Counted(h)'
  PROVE  CalendarInv'
<1>1. served' \in Nat
  BY DEF Begin, CalendarInv, CalendarTypeOK
<1> QED
  BY <1>1, RequestAside DEF Begin

\* What requests begin with.
LEMMA Beginnings ==
  ASSUME CalendarInv, NEW h \in Handlers, NEW v, Begin(h, v)
  PROVE  req'[h] = v /\ current' = current /\ row' = row
BY DEF Begin, CalendarInv, CalendarTypeOK

LEMMA CreationBegins ==
  ASSUME CalendarInv, NEW h \in Handlers, NEW r \in Row, NEW flag \in BOOLEAN,
         NEW pc \in {"counting", "ready"}, pc = "counting" \/ r.parent \notin Sessions,
         Begin(h, Creation(pc, r, flag))
  PROVE  CalendarInv'
<1>1. Creation(pc, r, flag) \in CreationRequest
  BY DEF Creation, CreationRequest, CreationPcs
<1>2. /\ Creation(pc, r, flag) \in Request
      /\ Creation(pc, r, flag).pc = pc /\ Creation(pc, r, flag).row = r
  BY <1>1, RequestKinds DEF Creation
<1>3. req'[h] = Creation(pc, r, flag)
  BY Beginnings
<1>4. Settled(h)' /\ Counted(h)'
  BY <1>2, <1>3 DEF Settled, Counted
<1> QED
  BY <1>2, <1>4, BeginKeeps

LEMMA SwitchBegins ==
  ASSUME CalendarInv, NEW h \in Handlers, NEW id \in Ids, BeginSwitch(h, id)
  PROVE  CalendarInv'
<1> DEFINE v == [pc |-> "switching", id |-> id, stale |-> FALSE, seen |-> current \cap Siblings(row[id].parent)]
<1>1. id \in Live /\ Begin(h, v)
  BY DEF BeginSwitch
<1>2. Siblings(row[id].parent) = Table(id)
  BY <1>1, Tables DEF CalendarInv
<1>3. v \in Request
  <2>1. current \cap Siblings(row[id].parent) \in SUBSET Ids
    BY DEF CalendarInv, CalendarTypeOK, Live
  <2>2. v \in SwitchRequest
    BY <2>1 DEF SwitchRequest
  <2> QED
    BY <2>2, RequestKinds
<1>4. Settled(h)' /\ Counted(h)'
  <2>1. req'[h] = v /\ current' = current
    BY <1>1, Beginnings
  <2> QED
    BY <1>2, <2>1 DEF Settled, Counted, Table
<1> HIDE DEF v
<1> QED
  BY <1>1, <1>3, <1>4, BeginKeeps

LEMMA DeletionBegins ==
  ASSUME CalendarInv, NEW h \in Handlers, NEW id \in Ids, id \notin current, NEW S \in SUBSET Work,
         Begin(h, [pc |-> "deleting", id |-> id, seen |-> S, stale |-> FALSE])
  PROVE  CalendarInv'
<1> DEFINE v == [pc |-> "deleting", id |-> id, seen |-> S, stale |-> FALSE]
<1>1. v \in Request
  <2>1. v \in DeletionRequest
    BY DEF DeletionRequest
  <2> QED
    BY <2>1, RequestKinds
<1>2. Settled(h)' /\ Counted(h)'
  <2>1. req'[h] = v /\ current' = current
    BY Beginnings
  <2> QED
    BY <2>1 DEF Settled, Counted
<1>3. Begin(h, v)
  OBVIOUS
<1> HIDE DEF v
<1> QED
  BY <1>1, <1>2, <1>3, BeginKeeps

LEMMA CountKeeps ==
  ASSUME CalendarInv, NEW h \in Handlers, CountTerms(h)
  PROVE  CalendarInv'
<1>1. req[h] \in CreationRequest /\ req[h].pc = "counting"
  BY RequestShape DEF CountTerms, CalendarInv, CalendarTypeOK, CreationPcs
<1>2. PICK s : s = req[h].row.parent
  OBVIOUS
<1>3. CASE Cardinality(TermsOf(s)) >= TermLimit
  BY <1>2, <1>3, FreeAside DEF CountTerms
<1>4. CASE ~(Cardinality(TermsOf(s)) >= TermLimit)
  <2>1. PICK v : v = [req[h] EXCEPT !.pc = "ready"]
    OBVIOUS
  <2>2. /\ v \in CreationRequest /\ v.pc = "ready" /\ v.row = req[h].row
    BY <1>1, <2>1 DEF CreationRequest, CreationPcs
  <2>3. v \in Request
    BY <2>2, RequestKinds
  <2>4. /\ req' = [req EXCEPT ![h] = v] /\ UNCHANGED <<row, current, refs, served, mixed, late>>
    BY <1>2, <1>4, <2>1 DEF CountTerms
  <2>5. req'[h] = v /\ served' \in Nat
    BY <2>4 DEF CalendarInv, CalendarTypeOK
  <2>6. Settled(h)'
    BY <2>2, <2>5 DEF Settled
  <2>7. Counted(h)'
    <3>1. TermsOf(s)' = TermsOf(s)
      BY <2>4 DEF TermsOf, Live
    <3>2. Cardinality(TermsOf(s)) \in Nat
      BY FewTerms DEF TermsOf
    <3>3. Cardinality(TermsOf(s)') < TermLimit
      BY <1>4, <3>1, <3>2, CalendarAssumption
    <3> QED
      BY <1>2, <2>2, <2>5, <3>3 DEF Counted
  <2> QED
    BY <2>3, <2>4, <2>5, <2>6, <2>7, RequestAside
<1> QED
  BY <1>3, <1>4

LEMMA ClearKeeps ==
  ASSUME CalendarInv, NEW h \in Handlers, Clear(h)
  PROVE  CalendarInv'
<1>1. req[h] \in CreationRequest /\ req[h].pc = "ready" /\ Counted(h)
  BY RequestShape DEF Clear, CalendarInv, CalendarTypeOK, CreationPcs
<1>2. PICK S : S = current \cap Siblings(req[h].row.parent)
  OBVIOUS
<1>3. S \subseteq Ids
  BY <1>2 DEF CalendarInv, CalendarTypeOK, Live
<1>4. PICK v : v = [req[h] EXCEPT !.pc = "clearing", !.seen = S]
  OBVIOUS
<1>5. /\ v \in CreationRequest /\ v.pc = "clearing" /\ v.row = req[h].row /\ v.seen = S
      /\ v.crowded = req[h].crowded
  BY <1>1, <1>3, <1>4 DEF CreationRequest, CreationPcs
<1>6. req' = [req EXCEPT ![h] = v] /\ UNCHANGED <<row, current, refs, served, mixed, late>>
  BY <1>2, <1>4 DEF Clear
<1>7. req'[h] = v /\ served' \in Nat /\ v \in Request
  BY <1>5, <1>6, RequestKinds DEF CalendarInv, CalendarTypeOK
<1>8. Settled(h)'
  BY <1>2, <1>5, <1>6, <1>7 DEF Settled, Siblings
<1>9. Counted(h)'
  BY <1>1, <1>5, <1>6, <1>7 DEF Counted, TermsOf, Live
<1> QED
  BY <1>6, <1>7, <1>8, <1>9, RequestAside

LEMMA ClearedKeeps ==
  ASSUME CalendarInv, NEW h \in Handlers, Cleared(h)
  PROVE  CalendarInv'
<1>1. /\ req[h] \in CreationRequest /\ req[h].pc = "clearing" /\ Counted(h) /\ Settled(h)
  BY RequestShape DEF Cleared, CalendarInv, CalendarTypeOK, CreationPcs
<1>2. PICK v : v = [req[h] EXCEPT !.pc = "inserting", !.seen = {}]
  OBVIOUS
<1>3. /\ v \in CreationRequest /\ v.pc = "inserting" /\ v.row = req[h].row
      /\ v.crowded = req[h].crowded /\ v.stale = req[h].stale
  BY <1>1, <1>2 DEF CreationRequest, CreationPcs
<1>4. /\ req' = [req EXCEPT ![h] = v] /\ UNCHANGED <<row, refs, served, late>>
      /\ current' = current \ req[h].seen /\ mixed' = mixed \ req[h].seen
  BY <1>2 DEF Cleared
<1>5. /\ req' \in [Handlers -> Request] /\ req'[h] = v
      /\ \A g \in Handlers : g # h => req'[g] = req[g]
  BY <1>3, <1>4, RequestKinds DEF CalendarInv, CalendarTypeOK
<1>6. Live' = Live /\ \A s : TermsOf(s)' = TermsOf(s)
  BY <1>4 DEF Live, TermsOf
<1>7. CalendarTypeOK'
  BY <1>4, <1>5, <1>6 DEF CalendarInv, CalendarTypeOK
<1>8. ASSUME NEW g \in Handlers
      PROVE  Settled(g)' /\ Counted(g)'
  <2>1. CASE g = h
    <3>1. Settled(h)'
      BY <1>1, <1>3, <1>4, <1>5 DEF Settled, Siblings
    <3>2. Counted(h)'
      BY <1>1, <1>3, <1>5, <1>6 DEF Counted
    <3> QED
      BY <2>1, <3>1, <3>2
  <2>2. CASE g # h
    BY <1>4, <1>5, <1>6, <2>2, OthersKeep DEF CalendarInv, CalendarTypeOK
  <2> QED
    BY <2>1, <2>2
<1>9. OneCurrent' /\ TermsWithinLimit'
  BY <1>4, <1>6 DEF CalendarInv, OneCurrent, TermsWithinLimit
<1> QED
  BY <1>7, <1>8, <1>9 DEF CalendarInv

LEMMA RenameKeeps ==
  ASSUME CalendarInv, NEW id \in Ids, NEW name \in Names, Rename(id, name)
  PROVE  CalendarInv'
<1>1. id \in Live /\ row[id] \in Row
  BY Tables DEF Rename, CalendarInv
<1>2. PICK r : r = [row[id] EXCEPT !.name = name]
  OBVIOUS
<1>3. r \in Row /\ r.parent = row[id].parent
  BY <1>1, <1>2 DEF Row
<1>4. row' = [row EXCEPT ![id] = r] /\ UNCHANGED <<current, refs, req, served, mixed, late>>
  BY <1>2 DEF Rename
<1>5. row'[id] = r /\ \A i \in Ids : i # id => row'[i] = row[i]
  BY <1>4 DEF CalendarInv, CalendarTypeOK
<1>6. r # NoRow
  BY <1>3, CalendarAssumption
<1>7. Live' = Live /\ \A i \in Live : row'[i].parent = row[i].parent
  BY <1>1, <1>3, <1>5, <1>6 DEF Live
<1>8. \A s : TermsOf(s)' = TermsOf(s)
  BY <1>7 DEF TermsOf
<1>9. CalendarTypeOK'
  <2>1. row' \in [Ids -> Row \cup {NoRow}]
    BY <1>3, <1>4 DEF CalendarInv, CalendarTypeOK
  <2> QED
    BY <2>1, <1>4, <1>7 DEF CalendarInv, CalendarTypeOK
<1>10. ASSUME NEW g \in Handlers
       PROVE  Settled(g)' /\ Counted(g)'
  BY <1>4, <1>8, OthersKeep DEF CalendarInv, CalendarTypeOK
<1>11. OneCurrent' /\ TermsWithinLimit'
  BY <1>4, <1>8 DEF CalendarInv, OneCurrent, TermsWithinLimit
<1> QED
  BY <1>9, <1>10, <1>11 DEF CalendarInv

LEMMA UseKeeps ==
  ASSUME CalendarInv, NEW t \in Terms, NEW ref \in Work \cup {Slots}, UseTerm(t, ref)
  PROVE  CalendarInv'
<1>1. refs' \in [Terms -> SUBSET (Work \cup {Slots})] /\ UNCHANGED <<row, current, req, served, mixed, late>>
  BY DEF UseTerm, CalendarInv, CalendarTypeOK
<1>2. Live' = Live /\ \A s : TermsOf(s)' = TermsOf(s)
  BY <1>1 DEF Live, TermsOf
<1>3. CalendarTypeOK'
  BY <1>1, <1>2 DEF CalendarInv, CalendarTypeOK
<1>4. ASSUME NEW g \in Handlers
      PROVE  Settled(g)' /\ Counted(g)'
  BY <1>1, <1>2, OthersKeep DEF CalendarInv, CalendarTypeOK
<1>5. OneCurrent' /\ TermsWithinLimit'
  BY <1>1, <1>2 DEF CalendarInv, OneCurrent, TermsWithinLimit
<1> QED
  BY <1>3, <1>4, <1>5 DEF CalendarInv

LEMMA DeleteKeeps ==
  ASSUME CalendarInv, NEW h \in Handlers, Delete(h)
  PROVE  CalendarInv'
<1>1. req[h] \in DeletionRequest /\ req[h].pc = "deleting"
  BY RequestShape DEF Delete, CalendarInv, CalendarTypeOK
<1>2. PICK gone : gone = IF Refused(h) THEN {} ELSE Doomed(req[h].id)
  OBVIOUS
<1>3. /\ row' = [i \in Ids |-> IF i \in gone THEN NoRow ELSE row[i]]
      /\ current' = current \ gone
      /\ refs' = [t \in Terms |-> IF t \in gone THEN {} ELSE refs[t]]
      /\ mixed' = mixed \ gone /\ late' = late \ gone
      /\ req' = [req EXCEPT ![h] = Free] /\ served' = served
  BY <1>2 DEF Delete
<1>4. /\ req' \in [Handlers -> Request] /\ req'[h] = Free
      /\ \A g \in Handlers : g # h => req'[g] = req[g]
  BY <1>3, RequestKinds DEF CalendarInv, CalendarTypeOK
<1>5. Live' = Live \ gone /\ \A i \in Live' : row'[i] = row[i]
  BY <1>3 DEF Live
<1>6. \A s : TermsOf(s)' = TermsOf(s) \ gone
  <2>1. \A s : TermsOf(s)' = {t \in Terms \cap Live' : row'[t].parent = s}
    BY DEF TermsOf
  <2> QED
    BY <1>5, <2>1 DEF TermsOf
<1>7. \A t \in Terms \cap Live : row[t].parent \in gone => t \in gone
  <2>1. \A t \in Terms \cap Live : row[t].parent \in Sessions
    BY Tables DEF CalendarInv
  <2> QED
    BY <1>2, <2>1, CalendarAssumption DEF Doomed, TermsOf
<1>8. CalendarTypeOK'
  <2>1. \A t \in Terms \cap Live' : row'[t].parent \in Sessions \cap Live'
    BY <1>5, <1>7, Tables DEF CalendarInv
  <2>2. row' \in [Ids -> Row \cup {NoRow}] /\ refs' \in [Terms -> SUBSET (Work \cup {Slots})]
    BY <1>3 DEF CalendarInv, CalendarTypeOK
  <2>3. \A s \in Sessions \cap Live' : row'[s].parent = School
    BY <1>5 DEF CalendarInv, CalendarTypeOK
  <2> QED
    BY <2>1, <2>2, <2>3, <1>3, <1>4, <1>5 DEF CalendarInv, CalendarTypeOK
<1>9. ASSUME NEW g \in Handlers
      PROVE  Settled(g)' /\ Counted(g)'
  <2>1. CASE g = h
    BY <1>4, <2>1 DEF Settled, Counted, Free
  <2>2. CASE g # h
    BY <1>3, <1>4, <1>6, <2>2, OthersKeep DEF CalendarInv, CalendarTypeOK
  <2> QED
    BY <2>1, <2>2
<1>10. OneCurrent'
  BY <1>3 DEF CalendarInv, OneCurrent
<1>11. TermsWithinLimit'
  <2> SUFFICES ASSUME NEW s \in Sessions
               PROVE  Cardinality(TermsOf(s)' \ late') <= TermLimit
    BY DEF TermsWithinLimit
  <2>1. TermsOf(s) \ late \in SUBSET Terms /\ TermsOf(s)' \ late' \in SUBSET (TermsOf(s) \ late)
    BY <1>3, <1>6 DEF TermsOf
  <2>2. Cardinality(TermsOf(s) \ late) <= TermLimit
    BY DEF CalendarInv, TermsWithinLimit
  <2>3. /\ Cardinality(TermsOf(s)' \ late') <= Cardinality(TermsOf(s) \ late)
        /\ Cardinality(TermsOf(s)' \ late') \in Nat /\ Cardinality(TermsOf(s) \ late) \in Nat
    BY <2>1, FewTerms
  <2> QED
    BY <2>2, <2>3, CalendarAssumption
<1> QED
  BY <1>8, <1>9, <1>10, <1>11 DEF CalendarInv

--------------------------------------------------------------------------------
(***************************************************************************)
(* Steps that set a flag or insert a row.                                  *)
(***************************************************************************)

LEMMA CommitKeeps ==
  ASSUME CalendarInv, NEW h \in Handlers, CommitSwitch(h)
  PROVE  CalendarInv'
<1>1. req[h] \in SwitchRequest /\ req[h].pc = "switching" /\ Settled(h)
  BY RequestShape DEF CommitSwitch, CalendarInv, CalendarTypeOK
<1>2. PICK id \in Ids : id = req[h].id
  BY <1>1 DEF SwitchRequest
<1>3. CASE id \notin Live
  BY <1>2, <1>3, FreeAside DEF CommitSwitch
<1>4. CASE id \in Live
  <2>1. PICK seen, st : seen = req[h].seen /\ st = req[h].stale
    OBVIOUS
  <2>2. /\ current' = (current \ seen) \cup {id}
        /\ mixed' = IF st THEN (mixed \ seen) \cup {id} ELSE mixed \ (seen \cup {id})
        /\ row' = row /\ UNCHANGED <<refs, served, late>>
        /\ req' = [g \in Handlers |-> IF g = h THEN Free ELSE Switched(g, id)]
    BY <1>2, <1>4, <2>1 DEF CommitSwitch
  <2>3. seen \subseteq Table(id) /\ (~st => current \cap Table(id) \subseteq seen \cup {id})
    BY <1>1, <1>2, <2>1 DEF Settled
  <2>4. Siblings(row'[id].parent) = Table(id) /\ id \in Table(id)
    BY <1>4, <2>2, Tables DEF CalendarInv
  <2>5. Live' = Live /\ \A s : TermsOf(s)' = TermsOf(s)
    BY <2>2 DEF Live, TermsOf
  <2>6. ASSUME NEW g \in Handlers
        PROVE  req'[g] \in Request /\ Settled(g)' /\ Counted(g)'
    <3>1. CASE g = h
      BY <2>2, <3>1, RequestKinds DEF Settled, Counted, Free
    <3>2. CASE g # h
      <4>1. PICK w : w = Switched(g, id)
        OBVIOUS
      <4>2. req'[g] = w /\ req[g] \in Request /\ Settled(g) /\ Counted(g)
        BY <2>2, <3>2, <4>1 DEF CalendarInv, CalendarTypeOK
      <4>3. w \in Request /\ w.pc = req[g].pc
        BY <4>1, <4>2, SwitchedKeeps
      <4>4. CASE w.pc \in CreationPcs
        <5>1. /\ w.row = req[g].row /\ w.seen = req[g].seen /\ w.crowded = req[g].crowded
              /\ req[g].stale => w.stale
              /\ w.pc \in {"clearing", "inserting"} => w.stale \/ id \notin Siblings(w.row.parent)
          BY <4>1, <4>2, <4>4, SwitchedKeeps
        <5>2. Counted(g)'
          BY <2>5, <4>2, <4>3, <5>1 DEF Counted
        <5>3. Settled(g)'
          BY <2>2, <4>2, <4>3, <4>4, <5>1 DEF Settled, CreationPcs, Siblings
        <5> QED
          BY <4>2, <4>3, <5>2, <5>3
      <4>5. CASE w.pc = "switching"
        <5>1. /\ w.id = req[g].id /\ w.seen = req[g].seen
              /\ req[g].stale => w.stale
              /\ w.stale \/ w.id \notin Table(id)
          BY <2>4, <4>1, <4>2, <4>5, SwitchedKeeps
        <5>2. w.id \in Ids
          BY <4>3, <4>5, RequestShape DEF SwitchRequest
        <5>3. w.id \notin Table(id) => id \notin Table(w.id)
          BY <2>4, <5>2, CalendarAssumption DEF Table, Ids
        <5> QED
          BY <2>2, <4>2, <4>3, <4>5, <5>1, <5>3 DEF Settled, Counted, Table
      <4>6. CASE w.pc = "deleting"
        <5>1. w.id = req[g].id /\ (req[g].stale => w.stale) /\ (w.stale \/ id # w.id)
          BY <4>1, <4>2, <4>6, SwitchedKeeps
        <5> QED
          BY <2>2, <4>2, <4>3, <4>6, <5>1 DEF Settled, Counted
      <4>7. CASE w.pc = "free"
        BY <4>2, <4>3, <4>7 DEF Settled, Counted
      <4> QED
        BY <4>3, <4>4, <4>5, <4>6, <4>7, RequestShape
    <3> QED
      BY <3>1, <3>2
  <2>7. CalendarTypeOK'
    <3>1. req' \in [Handlers -> Request]
      BY <2>2, <2>6
    <3>2. current' \subseteq Live' /\ mixed' \subseteq Ids
      BY <1>4, <2>2, <2>5 DEF CalendarInv, CalendarTypeOK
    <3> QED
      BY <2>2, <2>5, <3>1, <3>2 DEF CalendarInv, CalendarTypeOK
  <2>8. OneCurrent'
    <3> SUFFICES ASSUME NEW table \in {Sessions, Terms}, NEW i \in current' \cap table,
                        NEW j \in current' \cap table, i # j
                 PROVE  i \in mixed' \/ j \in mixed'
      BY DEF OneCurrent
    <3>1. CASE i # id /\ j # id
      <4>1. i \in current /\ j \in current /\ i \notin seen /\ j \notin seen
        BY <2>2, <3>1
      <4>2. i \in mixed \/ j \in mixed
        BY <4>1 DEF CalendarInv, OneCurrent
      <4> QED
        BY <2>2, <3>1, <4>1, <4>2
    <3>2. CASE i = id \/ j = id
      <4>1. CASE st
        BY <2>2, <3>2, <4>1
      <4>2. CASE ~st
        <5>1. table = Table(id)
          BY <2>4, <3>2, CalendarAssumption DEF Table
        <5> QED
          BY <2>2, <2>3, <3>2, <4>2, <5>1
      <4> QED
        BY <4>1, <4>2
    <3> QED
      BY <3>1, <3>2
  <2>9. TermsWithinLimit'
    BY <2>2, <2>5 DEF CalendarInv, TermsWithinLimit
  <2> QED
    BY <2>6, <2>7, <2>8, <2>9 DEF CalendarInv
<1> QED
  BY <1>3, <1>4

LEMMA InsertKeeps ==
  ASSUME CalendarInv, NEW h \in Handlers, NEW id \in Ids, Insert(h, id)
  PROVE  CalendarInv'
<1>1. /\ req[h] \in CreationRequest /\ req[h].pc \in {"ready", "inserting"} /\ Settled(h) /\ Counted(h)
      /\ req[h].flag <=> req[h].pc = "inserting"
  BY RequestShape DEF Insert, CalendarInv, CalendarTypeOK, CreationPcs
<1>2. PICK r \in Row, fl \in BOOLEAN, st \in BOOLEAN, cr \in BOOLEAN :
        r = req[h].row /\ fl = req[h].flag /\ st = req[h].stale /\ cr = req[h].crowded
  BY <1>1 DEF CreationRequest
<1>3. CASE Taken(r) \/ r.parent \notin Live \cup {School}
  BY <1>2, <1>3, FreeAside DEF Insert
<1>4. CASE ~(Taken(r) \/ r.parent \notin Live \cup {School})
  <2>1. /\ id \in Siblings(r.parent) /\ id \notin Live /\ ~Known(id)
        /\ row' = [row EXCEPT ![id] = r]
        /\ current' = IF fl THEN current \cup {id} ELSE current
        /\ mixed' = IF fl /\ st THEN mixed \cup {id} ELSE mixed \ {id}
        /\ late' = IF cr /\ id \in Terms THEN late \cup {id} ELSE late \ {id}
        /\ req' = [g \in Handlers |-> IF g = h THEN Free ELSE Outdated(g, id, fl)]
        /\ UNCHANGED <<refs, served>>
    BY <1>2, <1>4 DEF Insert
  <2>2. row'[id] = r /\ \A i \in Ids : i # id => row'[i] = row[i]
    BY <2>1 DEF CalendarInv, CalendarTypeOK
  <2>3. r # NoRow
    BY CalendarAssumption
  <2>4. Live' = Live \cup {id}
    BY <2>2, <2>3 DEF Live
  <2>5. id \notin current
    BY <2>1 DEF CalendarInv, CalendarTypeOK
  <2>6. Siblings(r.parent) = Table(id) /\ id \in Table(id)
        /\ (id \in Sessions => r.parent = School) /\ (id \in Terms => r.parent \in Sessions /\ r.parent \in Live)
    <3>1. /\ r.parent = School => Siblings(r.parent) = Sessions
          /\ r.parent # School => Siblings(r.parent) = Terms /\ r.parent \in Sessions
      BY Tables DEF CalendarInv
    <3> QED
      BY <1>4, <2>1, <3>1, CalendarAssumption DEF Table
  <2>7. \A s \in Sessions :
          TermsOf(s)' = IF s = r.parent THEN TermsOf(s) \cup {id} ELSE TermsOf(s)
    <3>1. \A s : TermsOf(s)' = {t \in Terms \cap Live' : row'[t].parent = s}
      BY DEF TermsOf
    <3>2. \A s \in Sessions : s = r.parent => id \in Terms
      BY <2>1, CalendarAssumption DEF Siblings
    <3>3. \A t \in Terms \cap Live : row'[t] = row[t] /\ t # id
      BY <2>1, <2>2 DEF Ids
    <3>4. ASSUME NEW s \in Sessions, NEW t
          PROVE  t \in TermsOf(s)' <=> t \in (IF s = r.parent THEN TermsOf(s) \cup {id} ELSE TermsOf(s))
      BY <2>2, <2>4, <3>1, <3>2, <3>3 DEF TermsOf
    <3> QED
      BY <3>4
  <2>8. ASSUME NEW g \in Handlers
        PROVE  req'[g] \in Request /\ Settled(g)' /\ Counted(g)'
    <3>1. CASE g = h
      BY <2>1, <3>1, RequestKinds DEF Settled, Counted, Free
    <3>2. CASE g # h
      <4>1. PICK w : w = Outdated(g, id, fl)
        OBVIOUS
      <4>2. req'[g] = w /\ req[g] \in Request /\ Settled(g) /\ Counted(g)
        BY <2>1, <3>2, <4>1 DEF CalendarInv, CalendarTypeOK
      <4>3. w \in Request /\ w.pc = req[g].pc
        BY <4>1, <4>2, OutdatedKeeps
      <4>4. CASE w.pc \in CreationPcs
        <5>1. /\ w.row = req[g].row /\ w.seen = req[g].seen
              /\ req[g].stale => w.stale
              /\ req[g].crowded => w.crowded
              /\ w.pc \in {"clearing", "inserting"} => w.stale \/ ~fl \/ id \notin Siblings(w.row.parent)
              /\ w.pc # "counting" => w.crowded \/ w.row.parent # r.parent
          BY <2>2, <4>1, <4>2, <4>4, OutdatedKeeps
        <5>2. w.crowded \in BOOLEAN /\ req[g].crowded \in BOOLEAN
          BY <4>2, <4>3, <4>4, RequestShape DEF CreationRequest
        <5>3. Counted(g)'
          BY <2>7, <4>2, <4>3, <5>1, <5>2 DEF Counted
        <5>4. Settled(g)'
          BY <2>1, <4>2, <4>3, <4>4, <5>1 DEF Settled, CreationPcs, Siblings
        <5> QED
          BY <4>2, <4>3, <5>3, <5>4
      <4>5. CASE w.pc = "switching"
        <5>1. /\ w.id = req[g].id /\ w.seen = req[g].seen
              /\ req[g].stale => w.stale
              /\ w.stale \/ ~fl \/ w.id \notin Table(id)
          BY <2>2, <2>6, <4>1, <4>2, <4>5, OutdatedKeeps
        <5>2. w.id \in Ids
          BY <4>3, <4>5, RequestShape DEF SwitchRequest
        <5>3. w.id \notin Table(id) => id \notin Table(w.id)
          BY <2>6, <5>2, CalendarAssumption DEF Table, Ids
        <5> QED
          BY <2>1, <4>2, <4>3, <4>5, <5>1, <5>3 DEF Settled, Counted, Table
      <4>6. CASE w.pc = "deleting"
        <5>1. w.id = req[g].id /\ (req[g].stale => w.stale) /\ (w.stale \/ ~fl \/ id # w.id)
          BY <4>1, <4>2, <4>6, OutdatedKeeps
        <5> QED
          BY <2>1, <4>2, <4>3, <4>6, <5>1 DEF Settled, Counted
      <4>7. CASE w.pc = "free"
        BY <4>2, <4>3, <4>7 DEF Settled, Counted
      <4> QED
        BY <4>3, <4>4, <4>5, <4>6, <4>7, RequestShape
    <3> QED
      BY <3>1, <3>2
  <2>9. CalendarTypeOK'
    <3>1. req' \in [Handlers -> Request]
      BY <2>1, <2>8
    <3>2. current' \subseteq Live' /\ mixed' \subseteq Ids /\ late' \subseteq Terms
      BY <2>1, <2>4 DEF CalendarInv, CalendarTypeOK
    <3>3. row' \in [Ids -> Row \cup {NoRow}]
      BY <2>1 DEF CalendarInv, CalendarTypeOK
    <3>4. \A s \in Sessions \cap Live' : row'[s].parent = School
      BY <2>2, <2>4, <2>6, Tables DEF CalendarInv
    <3>5. \A t \in Terms \cap Live' : row'[t].parent \in Sessions \cap Live'
      BY <2>2, <2>4, <2>6, Tables DEF CalendarInv
    <3> QED
      BY <2>1, <3>1, <3>2, <3>3, <3>4, <3>5 DEF CalendarInv, CalendarTypeOK
  <2>10. OneCurrent'
    <3> SUFFICES ASSUME NEW table \in {Sessions, Terms}, NEW i \in current' \cap table,
                        NEW j \in current' \cap table, i # j
                 PROVE  i \in mixed' \/ j \in mixed'
      BY DEF OneCurrent
    <3>1. CASE i # id /\ j # id
      <4>1. i \in current /\ j \in current
        BY <2>1, <3>1
      <4>2. i \in mixed \/ j \in mixed
        BY <4>1 DEF CalendarInv, OneCurrent
      <4> QED
        BY <2>1, <3>1, <4>2
    <3>2. CASE i = id \/ j = id
      <4>1. fl
        BY <2>1, <2>5, <3>2
      <4>2. CASE st
        BY <2>1, <3>2, <4>1, <4>2
      <4>3. CASE ~st
        <5>1. current \cap Table(id) = {}
          BY <1>1, <1>2, <2>6, <4>1, <4>3 DEF Settled
        <5>2. table = Table(id)
          BY <2>6, <3>2, CalendarAssumption DEF Table
        <5> QED
          BY <2>1, <3>2, <4>1, <5>1, <5>2
      <4> QED
        BY <4>2, <4>3
    <3> QED
      BY <3>1, <3>2
  <2>11. TermsWithinLimit'
    <3> SUFFICES ASSUME NEW s \in Sessions
                 PROVE  Cardinality(TermsOf(s)' \ late') <= TermLimit
      BY DEF TermsWithinLimit
    <3>1. Cardinality(TermsOf(s) \ late) <= TermLimit
      BY DEF CalendarInv, TermsWithinLimit
    <3>2. TermsOf(s) \in SUBSET Terms /\ id \notin TermsOf(s)
      BY <2>1 DEF TermsOf
    <3>3. CASE s # r.parent \/ cr
      <4>1. TermsOf(s)' \ late' = TermsOf(s) \ late
        <5>1. CASE s # r.parent
          BY <2>1, <2>7, <3>2, <5>1
        <5>2. CASE s = r.parent /\ cr
          <6>1. id \in Terms
            BY <2>1, <5>2, CalendarAssumption DEF Siblings
          <6> QED
            BY <2>1, <2>7, <3>2, <5>2, <6>1
        <5> QED
          BY <3>3, <5>1, <5>2
      <4> QED
        BY <3>1, <4>1
    <3>4. CASE s = r.parent /\ ~cr
      <4>1. Cardinality(TermsOf(s)) < TermLimit
        BY <1>1, <1>2, <3>4 DEF Counted
      <4>2. id \in Terms
        BY <2>1, <3>4, CalendarAssumption DEF Siblings
      <4>3. /\ TermsOf(s) \cup {id} \in SUBSET Terms
            /\ TermsOf(s)' \ late' \in SUBSET (TermsOf(s) \cup {id})
        BY <2>7, <3>2, <3>4, <4>2
      <4>4. /\ Cardinality(TermsOf(s)' \ late') <= Cardinality(TermsOf(s) \cup {id})
            /\ Cardinality(TermsOf(s)' \ late') \in Nat /\ Cardinality(TermsOf(s) \cup {id}) \in Nat
        BY <4>3, FewTerms
      <4>5. Cardinality(TermsOf(s) \cup {id}) <= Cardinality(TermsOf(s)) + 1 /\ Cardinality(TermsOf(s)) \in Nat
        BY <3>2, OneMoreTerm, FewTerms
      <4> QED
        BY <4>1, <4>4, <4>5, CalendarAssumption
    <3> QED
      BY <3>3, <3>4
  <2> QED
    BY <2>8, <2>9, <2>10, <2>11 DEF CalendarInv
<1> QED
  BY <1>3, <1>4

--------------------------------------------------------------------------------
(***************************************************************************)
(* Theorems.                                                               *)
(***************************************************************************)

LEMMA CalendarStarts ==
  ASSUME CalendarInit
  PROVE  CalendarInv
<1>1. Live = {} /\ \A s : TermsOf(s) = {}
  BY DEF CalendarInit, Live, TermsOf
<1>2. CalendarTypeOK
  BY <1>1, RequestKinds DEF CalendarInit, CalendarTypeOK
<1>3. \A h \in Handlers : Settled(h) /\ Counted(h)
  BY DEF CalendarInit, Settled, Counted, Free
<1>4. OneCurrent
  BY DEF CalendarInit, OneCurrent
<1>5. TermsWithinLimit
  <2>1. \A s \in Sessions : TermsOf(s) \ late = {}
    BY <1>1
  <2> QED
    BY <2>1, FS_EmptySet, CalendarAssumption DEF TermsWithinLimit
<1> QED
  BY <1>2, <1>3, <1>4, <1>5 DEF CalendarInv

LEMMA CalendarContinues ==
  ASSUME CalendarInv, [CalendarNext]_vars
  PROVE  CalendarInv'
<1>1. ASSUME NEW h \in Handlers, NEW name \in Names, NEW flag \in BOOLEAN, CreateAcademicSession(h, name, flag)
      PROVE  CalendarInv'
  <2>1. [parent |-> School, name |-> name] \in Row
    BY DEF Row
  <2> QED
    BY <1>1, <2>1, CreationBegins, CalendarAssumption DEF CreateAcademicSession
<1>2. ASSUME NEW h \in Handlers, NEW name \in Names, NEW flag \in BOOLEAN, NEW s \in Sessions,
             CreateTerm(h, s, name, flag)
      PROVE  CalendarInv'
  <2>1. [parent |-> s, name |-> name] \in Row
    BY DEF Row
  <2> QED
    BY <1>2, <2>1, CreationBegins DEF CreateTerm
<1>3. ASSUME NEW h \in Handlers, NEW s \in Sessions,
             MarkAcademicSessionAsCurrent(h, s) \/ DeleteAcademicSession(h, s)
      PROVE  CalendarInv'
  BY <1>3, SwitchBegins, DeletionBegins DEF MarkAcademicSessionAsCurrent, DeleteAcademicSession, Ids
<1>4. ASSUME NEW h \in Handlers, NEW t \in Terms, SetCurrentTerm(h, t) \/ DeleteTerm(h, t)
      PROVE  CalendarInv'
  <2>1. CASE SetCurrentTerm(h, t)
    BY <2>1, SwitchBegins DEF SetCurrentTerm, Ids
  <2>2. CASE DeleteTerm(h, t)
    <3>1. refs[t] \ {Slots} \in SUBSET Work
      BY DEF CalendarInv, CalendarTypeOK
    <3> QED
      BY <2>2, <3>1, DeletionBegins DEF DeleteTerm, Ids
  <2> QED
    BY <1>4, <2>1, <2>2
<1>5. ASSUME NEW h \in Handlers, Die(h)
      PROVE  CalendarInv'
  BY <1>5, FreeAside DEF Die
<1>6. CASE CalendarNext
  BY <1>1, <1>2, <1>3, <1>4, <1>5, <1>6, CountKeeps, ClearKeeps, ClearedKeeps, InsertKeeps, CommitKeeps,
     DeleteKeeps, RenameKeeps, UseKeeps
     DEF CalendarNext
<1>7. CASE UNCHANGED vars
  <2>1. CalendarTypeOK' /\ OneCurrent' /\ TermsWithinLimit'
    BY <1>7 DEF vars, CalendarInv, CalendarTypeOK, Live, OneCurrent, TermsWithinLimit, TermsOf
  <2>2. \A g \in Handlers : Settled(g)' /\ Counted(g)'
    BY <1>7 DEF vars, CalendarInv, Settled, Counted, TermsOf, Live, Siblings, Table
  <2> QED
    BY <2>1, <2>2 DEF CalendarInv
<1> QED
  BY <1>6, <1>7

LEMMA CalendarAlways == CalendarSpec => []CalendarInv
BY CalendarStarts, CalendarContinues, PTL DEF CalendarSpec

\* Whatever creations, switches and deletions overlap: a flag is that of a row,
\* a term has its session.
THEOREM CalendarTypeCorrect == CalendarSpec => []CalendarTypeOK
<1>1. CalendarInv => CalendarTypeOK
  BY DEF CalendarInv
<1> QED
  BY <1>1, CalendarAlways, PTL

\* "Only one term can be current at a time": two current rows of one table were
\* made current by requests that overlapped, however many there are.
THEOREM OneCurrentHolds == CalendarSpec => []OneCurrent
<1>1. CalendarInv => OneCurrent
  BY DEF CalendarInv
<1> QED
  BY <1>1, CalendarAlways, PTL

\* "Cannot create more than 3 terms per session": those above the limit came in
\* while another creation of a term of the session was under way.
THEOREM TermsWithinLimitHolds == CalendarSpec => []TermsWithinLimit
<1>1. CalendarInv => TermsWithinLimit
  BY DEF CalendarInv
<1> QED
  BY <1>1, CalendarAlways, PTL

LEMMA DeletionSpares ==
  ASSUME CalendarInv, NEW h \in Handlers, Delete(h)
  PROVE  CurrentStays /\ WorkStays
<1>1. req[h] \in DeletionRequest /\ req[h].pc = "deleting" /\ (req[h].stale \/ req[h].id \notin current)
  BY RequestShape DEF Delete, CalendarInv, CalendarTypeOK, Settled
<1>2. PICK id \in Ids : id = req[h].id
  BY <1>1 DEF DeletionRequest
<1>3. PICK gone : gone = IF Refused(h) THEN {} ELSE Doomed(id)
  OBVIOUS
<1>4. row' = [i \in Ids |-> IF i \in gone THEN NoRow ELSE row[i]]
  BY <1>2, <1>3 DEF Delete
<1>5. Live' = Live \ gone /\ Live \subseteq Ids
  BY <1>4 DEF Live
<1>6. CurrentStays
  <2> SUFFICES ASSUME NEW i \in current \ Live'
               PROVE  \/ row[i].parent \in Sessions \ (current \cup Live')
                      \/ \E g \in Handlers :
                           req[g].pc = "deleting" /\ req[g].stale /\ req[g].id \in {i, row[i].parent}
    BY DEF CurrentStays
  <2>1. i \in gone /\ i \in Live
    BY <1>5 DEF CalendarInv, CalendarTypeOK
  <2>2. CASE i = id
    BY <1>1, <1>2, <2>2
  <2>3. CASE i # id
    <3>1. id \in Sessions /\ id \in gone /\ row[i].parent = id
      BY <1>3, <2>1, <2>3 DEF Doomed, TermsOf
    <3>2. id \notin Live'
      BY <1>5, <3>1
    <3> QED
      BY <1>1, <1>2, <3>1, <3>2
  <2> QED
    BY <2>2, <2>3
<1>7. WorkStays
  <2> SUFFICES ASSUME NEW t \in (Live \ Live') \cap Terms, refs[t] # {}
               PROVE  \E g \in Handlers :
                        req[g].pc = "deleting" /\ req[g].id = t /\ refs[t] \subseteq req[g].seen \cup {Slots}
    BY DEF WorkStays
  <2>1. t \in gone /\ ~Refused(h)
    BY <1>3, <1>5
  <2>2. id \notin Sessions
    BY <1>2, <1>3, <2>1, CalendarAssumption DEF Doomed, Refused
  <2>3. t = id
    BY <1>3, <2>1, <2>2 DEF Doomed
  <2> QED
    BY <1>1, <1>2, <2>1, <2>2, <2>3 DEF Refused
<1> QED
  BY <1>6, <1>7

\* "Cannot delete the current term", nor the current session, nor a term that
\* something refers to which its deletion did not see: a step that takes a row
\* away took it by a deletion that has these excuses, and no other.
THEOREM DeletionsSpareHolds == CalendarSpec => DeletionsSpare
<1>1. ASSUME CalendarInv, [CalendarNext]_vars
      PROVE  [CurrentStays /\ WorkStays]_vars
  <2>1. ASSUME Live \subseteq Live'
        PROVE  CurrentStays /\ WorkStays
    BY <1>1, <2>1 DEF CurrentStays, WorkStays, CalendarInv, CalendarTypeOK
  <2>2. CASE row' = row
    BY <2>1, <2>2 DEF Live
  <2>3. ASSUME NEW h \in Handlers, NEW id \in Ids, Insert(h, id)
        PROVE  CurrentStays /\ WorkStays
    <3>1. PICK r : r = req[h].row
      OBVIOUS
    <3>2. r \in Row
      BY <1>1, <2>3, <3>1, RequestShape DEF Insert, CalendarInv, CalendarTypeOK, CreationPcs, CreationRequest
    <3>3. row' = row \/ row' = [row EXCEPT ![id] = r]
      BY <2>3, <3>1 DEF Insert
    <3>4. r # NoRow
      BY <3>2, CalendarAssumption
    <3>5. Live \subseteq Live'
      BY <1>1, <3>3, <3>4 DEF Live, CalendarInv, CalendarTypeOK
    <3> QED
      BY <2>1, <3>5
  <2>4. ASSUME NEW id \in Ids, NEW name \in Names, Rename(id, name)
        PROVE  CurrentStays /\ WorkStays
    <3>1. PICK r : r = [row[id] EXCEPT !.name = name]
      OBVIOUS
    <3>2. row[id] \in Row /\ row' = [row EXCEPT ![id] = r]
      BY <1>1, <2>4, <3>1, Tables DEF Rename, CalendarInv
    <3>3. r \in Row
      BY <3>1, <3>2 DEF Row
    <3>4. r # NoRow
      BY <3>3, CalendarAssumption
    <3>5. Live \subseteq Live'
      BY <1>1, <3>2, <3>4 DEF Live, CalendarInv, CalendarTypeOK
    <3> QED
      BY <2>1, <3>5
  <2>5. ASSUME CalendarNext, ~(\E h \in Handlers : Delete(h)),
               ~(\E h \in Handlers, id \in Ids : Insert(h, id)),
               ~(\E id \in Ids, name \in Names : Rename(id, name))
        PROVE  row' = row
    BY <2>5 DEF CalendarNext, CreateAcademicSession, CreateTerm, Begin, CountTerms, Clear, Cleared,
                MarkAcademicSessionAsCurrent, SetCurrentTerm, BeginSwitch, DeleteAcademicSession, DeleteTerm,
                CommitSwitch, Die, UseTerm
  <2> QED
    BY <1>1, <2>2, <2>3, <2>4, <2>5, DeletionSpares
<1> QED
  BY <1>1, CalendarAlways, PTL DEF CalendarSpec, DeletionsSpare
================================================================================
