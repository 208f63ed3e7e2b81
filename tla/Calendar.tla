-------------------------------- MODULE Calendar --------------------------------
(***************************************************************************)
(* The academic calendar of one school (school-setup.service.ts): sessions *)
(* and their terms, the current one of each, and what deleting them takes  *)
(* along.                                                                  *)
(*                                                                         *)
(* Sessions and terms are rows with a parent (the school, or a session), a *)
(* name that is unique below the parent, and is_current.  A statement that *)
(* clears flags sees the rows that were committed when it began; it may    *)
(* have to wait for a lock before it takes effect.  Dates play no part.    *)
(***************************************************************************)
EXTENDS Naturals, FiniteSets

CONSTANTS
  Sessions, Terms,  \* uuids available to academic_sessions and academic_terms
  School,           \* the tenant, parent of the sessions
  Names,
  NoRow,            \* "this uuid is not in its table"
  Work,             \* what refers to a term: assessments
  Slots,            \* and the rest: slots, tutorials, lectures, registrations
  Handlers,         \* requests in flight at the same time
  TermLimit,        \* terms per session (3)
  MaxRequests       \* bound: creations, switches and deletions

VARIABLES
  row,      \* academic_sessions and academic_terms, by uuid
  current,  \* the rows with is_current
  refs,     \* refs[t]: the rows with a foreign key to term t
  req,      \* the requests in flight
  served,   \* requests begun so far
  mixed,    \* history: rows made current while another request wrote flags
  late      \* history: terms inserted while another term of the session was

vars == <<row, current, refs, req, served, mixed, late>>

--------------------------------------------------------------------------------
Ids == Sessions \cup Terms
Row == [parent : Sessions \cup {School}, name : Names]

ASSUME CalendarAssumption ==
  /\ TermLimit \in Nat /\ MaxRequests \in Nat
  /\ Sessions \cap Terms = {} /\ IsFiniteSet(Terms)
  /\ School \notin Sessions /\ NoRow \notin Row /\ Slots \notin Work

Free == [pc |-> "free"]

\* A creation holds its row and flag, a switch or a deletion its target, and
\* seen is what a statement found when it began.  History: stale, a row of the
\* same table was made current since; crowded, a term was inserted into the
\* session since they were counted.
Request ==
  {Free}
  \cup [pc : {"counting", "ready", "clearing", "inserting"}, row : Row, flag : BOOLEAN,
        seen : SUBSET Ids, stale : BOOLEAN, crowded : BOOLEAN]
  \cup [pc : {"switching"}, id : Ids, seen : SUBSET Ids, stale : BOOLEAN]
  \cup [pc : {"deleting"}, id : Ids, seen : SUBSET Work, stale : BOOLEAN]

Live == {i \in Ids : row[i] # NoRow}
Siblings(parent) == IF parent = School THEN Sessions ELSE Terms
TermsOf(s) == {t \in Terms \cap Live : row[t].parent = s}

\* @@unique([tenant_id, name]) and @@unique([academic_session_id, name]).
Taken(r) == \E i \in Live : row[i] = r

\* The type invariant of the component: flags are columns of rows, a term has
\* its session.
CalendarTypeOK ==
  /\ row \in [Ids -> Row \cup {NoRow}]
  /\ current \subseteq Live
  /\ refs \in [Terms -> SUBSET (Work \cup {Slots})]
  /\ req \in [Handlers -> Request]
  /\ served \in Nat /\ mixed \subseteq Ids /\ late \subseteq Terms
  /\ \A s \in Sessions \cap Live : row[s].parent = School
  /\ \A t \in Terms \cap Live : row[t].parent \in Sessions \cap Live

--------------------------------------------------------------------------------
CalendarInit ==
  /\ row = [i \in Ids |-> NoRow]
  /\ current = {}
  /\ refs = [t \in Terms |-> {}]
  /\ req = [h \in Handlers |-> Free]
  /\ served = 0
  /\ mixed = {} /\ late = {}

Begin(h, next) ==
  /\ req[h] = Free
  /\ served < MaxRequests
  /\ served' = served + 1
  /\ req' = [req EXCEPT ![h] = next]
  /\ UNCHANGED <<row, current, refs, mixed, late>>

Creation(pc, r, flag) ==
  [pc |-> pc, row |-> r, flag |-> flag, seen |-> {}, stale |-> FALSE, crowded |-> FALSE]

\* createAcademicSession looks the name up.
CreateAcademicSession(h, name, flag) ==
  LET r == [parent |-> School, name |-> name]
  IN  ~Taken(r) /\ Begin(h, Creation("ready", r, flag))

\* createTerm looks the session and the name up, then counts.
CreateTerm(h, s, name, flag) ==
  LET r == [parent |-> s, name |-> name]
  IN  s \in Live /\ ~Taken(r) /\ Begin(h, Creation("counting", r, flag))

\* Slip: one term too many.
CountOneMore(h) ==
  /\ req[h].pc = "counting"
  /\ req' = [req EXCEPT ![h] =
       IF Cardinality(TermsOf(@.row.parent)) > TermLimit THEN Free ELSE [@ EXCEPT !.pc = "ready"]]
  /\ UNCHANGED <<row, current, refs, served, mixed, late>>

CountTerms(h) ==
  /\ req[h].pc = "counting"
  /\ req' = [req EXCEPT ![h] =
       IF Cardinality(TermsOf(@.row.parent)) >= TermLimit THEN Free ELSE [@ EXCEPT !.pc = "ready"]]
  /\ UNCHANGED <<row, current, refs, served, mixed, late>>

\* Slip: the flags of the other terms of the session are cleared.
ClearSession(h) ==
  /\ req[h].pc = "ready" /\ req[h].flag
  /\ req' = [req EXCEPT ![h].pc = "clearing",
                        ![h].seen = {i \in current : row[i].parent = req[h].row.parent}]
  /\ UNCHANGED <<row, current, refs, served, mixed, late>>

\* "Only one session (term) can be current at a time": a creation that sets
\* the flag clears those of the whole school first, in a statement of its own ...
Clear(h) ==
  /\ req[h].pc = "ready" /\ req[h].flag
  /\ req' = [req EXCEPT ![h].pc = "clearing",
                        ![h].seen = current \cap Siblings(req[h].row.parent)]
  /\ UNCHANGED <<row, current, refs, served, mixed, late>>

Cleared(h) ==
  /\ req[h].pc = "clearing"
  /\ current' = current \ req[h].seen
  /\ mixed' = mixed \ req[h].seen
  /\ req' = [req EXCEPT ![h].pc = "inserting", ![h].seen = {}]
  /\ UNCHANGED <<row, refs, served, late>>

\* What request g knows is outdated when id is made current ...
Switched(g, id) ==
  IF \/ req[g].pc \in {"clearing", "inserting"} /\ id \in Siblings(req[g].row.parent)
     \/ req[g].pc = "switching" /\ {id, req[g].id} \subseteq Siblings(row'[id].parent)
     \/ req[g].pc = "deleting" /\ id = req[g].id
  THEN [req[g] EXCEPT !.stale = TRUE] ELSE req[g]

\* ... or inserted.
Outdated(g, id, flag) ==
  LET v == IF flag THEN Switched(g, id) ELSE req[g]
  IN  IF v.pc \in {"ready", "clearing", "inserting"} /\ v.row.parent = row'[id].parent
      THEN [v EXCEPT !.crowded = TRUE] ELSE v

\* No request knows a uuid that is new.
Known(id) ==
  \E g \in Handlers :
    \/ req[g].pc \in {"switching", "deleting"} /\ id = req[g].id
    \/ req[g].pc \in {"switching", "clearing"} /\ id \in req[g].seen

\* ... and inserts the row, which the keys of the schema may refuse.
Insert(h, id) ==
  /\ req[h].pc \in {"ready", "inserting"}
  /\ req[h].flag <=> req[h].pc = "inserting"
  /\ LET r == req[h].row
     IN  IF Taken(r) \/ r.parent \notin Live \cup {School}
         THEN /\ req' = [req EXCEPT ![h] = Free]
              /\ UNCHANGED <<row, current, mixed, late>>
         ELSE /\ id \in Siblings(r.parent) \ Live /\ ~Known(id)
              /\ row' = [row EXCEPT ![id] = r]
              /\ current' = IF req[h].flag THEN current \cup {id} ELSE current
              /\ mixed' = IF req[h].flag /\ req[h].stale THEN mixed \cup {id} ELSE mixed \ {id}
              /\ late' = IF req[h].crowded /\ id \in Terms THEN late \cup {id} ELSE late \ {id}
              /\ req' = [g \in Handlers |->
                           IF g = h THEN Free ELSE Outdated(g, id, req[h].flag)]
  /\ UNCHANGED <<refs, served>>

\* markAcademicSessionAsCurrent and setCurrentTerm find the row; their
\* transaction clears the flags it finds when it begins ...
BeginSwitch(h, id) ==
  /\ id \in Live
  /\ Begin(h, [pc |-> "switching", id |-> id, stale |-> FALSE,
               seen |-> current \cap Siblings(row[id].parent)])
MarkAcademicSessionAsCurrent(h, s) == BeginSwitch(h, s)
SetCurrentTerm(h, t) == BeginSwitch(h, t)

\* ... and sets that of the row, if it is still there.
CommitSwitch(h) ==
  /\ req[h].pc = "switching"
  /\ LET id == req[h].id
     IN  IF id \in Live
         THEN /\ current' = (current \ req[h].seen) \cup {id}
              /\ mixed' = IF req[h].stale THEN (mixed \ req[h].seen) \cup {id}
                          ELSE mixed \ (req[h].seen \cup {id})
              /\ row' = row
              /\ req' = [g \in Handlers |-> IF g = h THEN Free ELSE Switched(g, id)]
         ELSE /\ req' = [req EXCEPT ![h] = Free]
              /\ UNCHANGED <<row, current, mixed>>
  /\ UNCHANGED <<refs, served, late>>

\* updateAcademicSession and updateTerm: the name in one statement, which the
\* unique keys may refuse.
Rename(id, name) ==
  /\ id \in Live
  /\ LET r == [row[id] EXCEPT !.name = name]
     IN  ~Taken(r) /\ row' = [row EXCEPT ![id] = r]
  /\ UNCHANGED <<current, refs, req, served, mixed, late>>

\* Other services add rows that refer to a term they read.
UseTerm(t, ref) ==
  /\ t \in Live
  /\ ref \notin refs[t]
  /\ refs' = [refs EXCEPT ![t] = @ \cup {ref}]
  /\ UNCHANGED <<row, current, req, served, mixed, late>>

\* "Cannot delete current academic session".
DeleteAcademicSession(h, s) ==
  /\ s \in Live \ current
  /\ Begin(h, [pc |-> "deleting", id |-> s, seen |-> {}, stale |-> FALSE])

\* Slip: the current term may be deleted.
DeleteAnyTerm(h, t) ==
  /\ t \in Live
  /\ Begin(h, [pc |-> "deleting", id |-> t, seen |-> refs[t] \ {Slots}, stale |-> FALSE])

\* "Cannot delete the current term"; then its assessments are looked up.
DeleteTerm(h, t) ==
  /\ t \in Live \ current
  /\ Begin(h, [pc |-> "deleting", id |-> t, seen |-> refs[t] \ {Slots}, stale |-> FALSE])

\* What the transaction of deleteTerm, or the cascade from a session, deletes,
\* and whether a foreign key refuses it.
Doomed(id) == IF id \in Sessions THEN {id} \cup TermsOf(id) ELSE {id} \cap Live
Refused(h) ==
  IF req[h].id \in Sessions
  THEN \E t \in TermsOf(req[h].id) : refs[t] # {}
  ELSE ~(refs[req[h].id] \subseteq req[h].seen \cup {Slots})

\* Slip: the terms of a session do not go with it.
DeleteAlone(h) ==
  /\ req[h].pc = "deleting"
  /\ LET gone == {req[h].id}
     IN  /\ row' = [i \in Ids |-> IF i \in gone THEN NoRow ELSE row[i]]
         /\ current' = current \ gone
         /\ refs' = [t \in Terms |-> IF t \in gone THEN {} ELSE refs[t]]
         /\ mixed' = mixed \ gone /\ late' = late \ gone
  /\ req' = [req EXCEPT ![h] = Free]
  /\ UNCHANGED served

Delete(h) ==
  /\ req[h].pc = "deleting"
  /\ LET gone == IF Refused(h) THEN {} ELSE Doomed(req[h].id)
     IN  /\ row' = [i \in Ids |-> IF i \in gone THEN NoRow ELSE row[i]]
         /\ current' = current \ gone
         /\ refs' = [t \in Terms |-> IF t \in gone THEN {} ELSE refs[t]]
         /\ mixed' = mixed \ gone /\ late' = late \ gone
  /\ req' = [req EXCEPT ![h] = Free]
  /\ UNCHANGED served

\* A request dies at an await, or its transaction is rolled back.
Die(h) ==
  /\ req[h] # Free
  /\ req' = [req EXCEPT ![h] = Free]
  /\ UNCHANGED <<row, current, refs, served, mixed, late>>

CalendarNext ==
  \/ \E h \in Handlers :
       \/ \E name \in Names, flag \in BOOLEAN :
            \/ CreateAcademicSession(h, name, flag)
            \/ \E s \in Sessions : CreateTerm(h, s, name, flag)
       \/ CountTerms(h) \/ Clear(h) \/ Cleared(h)
       \/ \E id \in Ids : Insert(h, id)
       \/ \E s \in Sessions : MarkAcademicSessionAsCurrent(h, s) \/ DeleteAcademicSession(h, s)
       \/ \E t \in Terms : SetCurrentTerm(h, t) \/ DeleteTerm(h, t)
       \/ CommitSwitch(h) \/ Delete(h) \/ Die(h)
  \/ \E id \in Ids, name \in Names : Rename(id, name)
  \/ \E t \in Terms, ref \in Work \cup {Slots} : UseTerm(t, ref)

CalendarSpec == CalendarInit /\ [][CalendarNext]_vars

--------------------------------------------------------------------------------
(***************************************************************************)
(* Properties                                                              *)
(***************************************************************************)

\* "Only one term can be current at a time", and only one session: two of them
\* need a request that made one current while another did the same.
OneCurrent ==
  \A table \in {Sessions, Terms} : \A i, j \in current \cap table :
    i # j => i \in mixed \/ j \in mixed

\* "Cannot create more than 3 terms per session": more need terms that were
\* inserted after another request had counted.
TermsWithinLimit ==
  \A s \in Sessions : Cardinality(TermsOf(s) \ late) <= TermLimit

\* A current row goes only if it became current while its deletion was under
\* way, or if it is a term of a session that is not current and goes.
CurrentStays ==
  \A i \in current \ Live' :
    \/ row[i].parent \in Sessions \ (current \cup Live')
    \/ \E h \in Handlers :
         req[h].pc = "deleting" /\ req[h].stale /\ req[h].id \in {i, row[i].parent}

\* An assessment created while its term is being deleted is not lost, and the
\* deletion of a session never takes along a term that anything refers to.
WorkStays ==
  \A t \in (Live \ Live') \cap Terms :
    refs[t] # {} => \E h \in Handlers :
      req[h].pc = "deleting" /\ req[h].id = t /\ refs[t] \subseteq req[h].seen \cup {Slots}

\* "Cannot delete the current term", nor the current session, nor what was not
\* there to be seen: deletions spare them.
DeletionsSpare == [][CurrentStays /\ WorkStays]_vars

================================================================================
