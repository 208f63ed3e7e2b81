--------------------------------- MODULE People ---------------------------------
(***************************************************************************)
(* The creation of users (users.service.ts), beside the teachers and       *)
(* heads of Departments: the numbers that students are given, and the      *)
(* wards of their guardians.                                               *)
(*                                                                         *)
(* A number that is not given is the one after the highest in use; what is *)
(* highest is decided by the database on strings, and what comes after by  *)
(* parseInt, so that a number is the two things these tell of its string:  *)
(* its place in the order and what is read of it.  A guardian is created   *)
(* in one transaction that writes the guardian's own list of wards and the *)
(* guardian of every ward; it runs at Read Committed, so that it sees what *)
(* others committed, and waits for rows that others have written.          *)
(***************************************************************************)
EXTENDS Departments

CONSTANTS
  Students, Guardians,  \* uuids of users, by role
  Base,                 \* digits of a number (10)
  Wide,                 \* the first number with more digits than the padding
  Customs,              \* numbers admins choose themselves, of any form
  Garbled,              \* the number made of NaN: "0NaN" for a student
  NaN                   \* what parseInt reads of a string without a number

VARIABLES
  identifier,  \* users: identifier
  matric,      \* student_profiles: matric_number
  wards,       \* guardian_profiles: ward_ids, the students whose id is in it
  spaced,      \* guardian_profiles: ward_ids, those whose id is in it with
               \* spaces about it, and not without
  guardian,    \* student_profiles: guardian_ids, of at most one id
  contested    \* history: students whose guardian was written by a request
               \* that had read them before another guardian was

userVars == <<identifier, matric, wards, spaced, guardian, contested>>
vars == <<deptVars, identifier, matric, wards, spaced, guardian, contested, req, served>>

--------------------------------------------------------------------------------
\* Strings after a fixed prefix, "GFA/2026/"; those without it nobody looks at.
Numbers == [place : Nat, read : Nat \cup {NaN}]

\* "orderBy: { matric_number: 'desc' }" compares strings: "10000" comes after
\* "1000" and before "1001" (in this order up to Base * Wide).
Rank(n) == IF n < Wide THEN 2 * Base * n ELSE 2 * n + 1

\* padStart: the string made of a number.
Padded(n) == [place |-> Rank(n), read |-> n]

ASSUME PeopleAssumption ==
  /\ Base \in Nat \ {0, 1} /\ Wide \in Nat \ {0}
  /\ NaN \notin Nat
  /\ Customs \subseteq Numbers /\ Garbled \in Numbers
  /\ Students \cap Guardians = {} /\ NoRow \notin Numbers \cup Guardians /\ None \notin Guardians

\* A creation of a student holds the number; that of a guardian the wards it has
\* still to read (todo), the one it has just read, and those it has written;
\* late are the ones it wrote although their guardian had changed, and spaced the
\* ones whose id the form has with spaces only.
Request ==
  DepartmentRequest
  \cup [pc : {"numbered"}, number : Numbers]
  \cup [pc : {"linking"}, guardian : Guardians, id : Customs \cup Guardians, todo : SUBSET Students,
        done : SUBSET Students, late : SUBSET Students, spaced : SUBSET Students]
  \cup [pc : {"writing"}, guardian : Guardians, id : Customs \cup Guardians, todo : SUBSET Students,
        done : SUBSET Students, late : SUBSET Students, spaced : SUBSET Students, ward : Students, stale : BOOLEAN]

Enrolled == {s \in Students : matric[s] # NoRow}
Users == Students \cup Guardians
Taken == {identifier[u] : u \in Users} \ {NoRow}
Matrics == {matric[s] : s \in Enrolled}

PeopleInit ==
  /\ DepartmentsInit
  /\ identifier = [u \in Users |-> NoRow]
  /\ matric = [s \in Students |-> NoRow]
  /\ wards = [g \in Guardians |-> {}]
  /\ spaced = [g \in Guardians |-> {}]
  /\ guardian = [s \in Students |-> None]
  /\ contested = {}

--------------------------------------------------------------------------------
LastOf(ns) == CHOOSE n \in ns : \A k \in ns : k.place <= n.place

\* Slip: the number after the count.
NextByCount(ns) == Padded(Cardinality(ns) + 1)

\* getNextMatricNumber; those of teachers and staff differ in the padding.  What
\* is not read as a number is padded all the same.
NextNumber(ns) ==
  IF ns = {} THEN Padded(1)
  ELSE IF LastOf(ns).read = NaN THEN Garbled ELSE Padded(LastOf(ns).read + 1)

\* create, of a student without a number, reads the highest one ...
NumberStudent(h) ==
  /\ Begin(h, [pc |-> "numbered", number |-> NextNumber(Matrics)])
  /\ UNCHANGED <<deptVars, userVars>>

\* The requests that link students to a guardian, and the students they name.
Linking == {h \in Handlers : req[h].pc \in {"linking", "writing"}}
Named(v) == v.todo \cup v.done \cup (IF v.pc = "writing" THEN {v.ward} ELSE {})

\* A new user has a uuid nobody knows.
Enroll(s, number) ==
  /\ identifier[s] = NoRow
  /\ \A g \in Guardians : s \notin wards[g] \cup spaced[g]
  /\ \A h \in Linking : s \notin Named(req[h])
  /\ identifier' = [identifier EXCEPT ![s] = number]
  /\ matric' = [matric EXCEPT ![s] = number]

\* ... and inserts user and profile, unless the number is taken.
InsertStudent(h, s) ==
  /\ req[h].pc = "numbered"
  /\ IF req[h].number \in Taken \cup Matrics THEN UNCHANGED <<identifier, matric>>
     ELSE Enroll(s, req[h].number)
  /\ req' = [req EXCEPT ![h] = Free]
  /\ UNCHANGED <<deptVars, wards, spaced, guardian, contested, served>>

\* create, of a student with a number.
AdmitStudent(s, number) ==
  /\ served < MaxRequests
  /\ number \notin Taken \cup Matrics
  /\ Enroll(s, number)
  /\ served' = served + 1
  /\ UNCHANGED <<deptVars, wards, spaced, guardian, contested, req>>

\* create, of a guardian: the form names the students ws, those of sp with spaces
\* about the id, which are trimmed for the links.
CreateGuardian(h, g, id, ws, sp) ==
  /\ identifier[g] = NoRow /\ id \notin Taken
  /\ \A k \in Linking : req[k].guardian # g
  /\ \A s \in Students : guardian[s] # g
  /\ ws \subseteq Enrolled /\ sp \subseteq ws
  /\ Begin(h, [pc |-> "linking", guardian |-> g, id |-> id, todo |-> ws, done |-> {}, late |-> {}, spaced |-> sp])
  /\ UNCHANGED <<deptVars, userVars>>

\* Slip: a guardian that is there already is replaced.
ReadAnyWard(h, s) ==
  /\ req[h].pc = "linking"
  /\ s \in req[h].todo
  /\ LET r == req[h]
     IN  req' = [req EXCEPT ![h] = [pc |-> "writing", guardian |-> r.guardian, id |-> r.id,
                                    todo |-> r.todo \ {s}, done |-> r.done, late |-> r.late, spaced |-> r.spaced,
                                    ward |-> s, stale |-> FALSE]]
  /\ UNCHANGED <<deptVars, userVars, served>>

\* linkParentToStudentWards: a student who is gone, or "already linked to another
\* parent", ends the transaction, with nothing written.
ReadWard(h, s) ==
  /\ req[h].pc = "linking"
  /\ s \in req[h].todo
  /\ LET r == req[h]
     IN  req' = [req EXCEPT ![h] =
           IF s \notin Enrolled \/ guardian[s] # None THEN Free
           ELSE [pc |-> "writing", guardian |-> r.guardian, id |-> r.id, todo |-> r.todo \ {s},
                 done |-> r.done, late |-> r.late, spaced |-> r.spaced, ward |-> s, stale |-> FALSE]]
  /\ UNCHANGED <<deptVars, userVars, served>>

\* The row is locked until the transaction that wrote it ends.
Locked(h, s) == \E k \in Linking \ {h} : s \in req[k].done

WriteWard(h) ==
  /\ req[h].pc = "writing"
  /\ ~Locked(h, req[h].ward)
  /\ LET r == req[h]
     IN  req' = [req EXCEPT ![h] =
           IF r.ward \notin Enrolled THEN Free
           ELSE [pc |-> "linking", guardian |-> r.guardian, id |-> r.id, todo |-> r.todo,
                 done |-> r.done \cup {r.ward}, late |-> r.late \cup (IF r.stale THEN {r.ward} ELSE {}),
                 spaced |-> r.spaced]]
  /\ UNCHANGED <<deptVars, userVars, served>>

\* The commit; if somebody else has the identifier, the request can only die.
\* The list of the profile is the form's, as it came.
CommitGuardian(h) ==
  /\ req[h].pc = "linking" /\ req[h].todo = {}
  /\ req[h].id \notin Taken
  /\ LET r == req[h]
     IN  /\ identifier' = [identifier EXCEPT ![r.guardian] = r.id]
         /\ wards' = [wards EXCEPT ![r.guardian] = r.done \ r.spaced]
         /\ spaced' = [spaced EXCEPT ![r.guardian] = r.done \cap r.spaced]
         /\ guardian' = [s \in Students |-> IF s \in r.done THEN r.guardian ELSE guardian[s]]
         /\ contested' = contested \cup r.late
         /\ req' = [k \in Handlers |->
              IF k = h THEN Free
              ELSE IF req[k].pc = "writing" /\ req[k].ward \in r.done THEN [req[k] EXCEPT !.stale = TRUE]
              ELSE req[k]]
  /\ UNCHANGED <<deptVars, matric, served>>

\* remove deletes the user and, by cascade, the profile; nobody else's list of
\* wards or guardians is looked at.
Remove(u) ==
  /\ served < MaxRequests
  /\ identifier[u] # NoRow
  /\ \A h \in Linking : u \notin req[h].done
  /\ identifier' = [identifier EXCEPT ![u] = NoRow]
  /\ matric' = [s \in Students |-> IF s = u THEN NoRow ELSE matric[s]]
  /\ guardian' = [s \in Students |-> IF s = u THEN None ELSE guardian[s]]
  /\ wards' = [g \in Guardians |-> IF g = u THEN {} ELSE wards[g]]
  /\ spaced' = [g \in Guardians |-> IF g = u THEN {} ELSE spaced[g]]
  /\ contested' = contested \ {u}
  /\ served' = served + 1
  /\ UNCHANGED <<deptVars, req>>

\* A request dies, a statement of it fails, or the database ends a transaction
\* that waits in a circle: what was not committed is not there.
Die(h) ==
  /\ req[h] # Free
  /\ req' = [req EXCEPT ![h] = Free]
  /\ UNCHANGED <<deptVars, userVars, served>>

UserStep(h) ==
  \/ NumberStudent(h)
  \/ \E s \in Students : InsertStudent(h, s) \/ ReadWard(h, s)
  \/ \E g \in Guardians, id \in Customs \cup Guardians, ws \in SUBSET Students : \E sp \in SUBSET ws :
       CreateGuardian(h, g, id, ws, sp)
  \/ WriteWard(h) \/ CommitGuardian(h)

PeopleNext ==
  \/ \E h \in Handlers : UserStep(h) \/ Die(h) \/ (DepartmentStep(h) /\ UNCHANGED userVars)
  \/ \E s \in Students, number \in Customs : AdmitStudent(s, number)
  \/ \E u \in Users : Remove(u)
  \/ DepartmentWrite /\ UNCHANGED userVars

PeopleSpec == PeopleInit /\ [][PeopleNext]_vars

--------------------------------------------------------------------------------
(***************************************************************************)
(* Properties                                                              *)
(***************************************************************************)

\* "At most one parent/guardian per student": the list of the guardian, by which
\* the repository grants access, and the guardian of the student, who is
\* notified, say the same of those who are there, unless two creations for the
\* student overlapped, or the form had spaces about the id: those are in the list
\* too, where nobody finds the student.
WardsAgree ==
  \A s \in Enrolled \ contested, g \in Guardians :
    identifier[g] # NoRow => (s \in wards[g] \cup spaced[g] <=> guardian[s] = g)

\* "Auto-generates when not provided": the number the next student is given is
\* free, unless the highest one is not as it would have been made, because
\* somebody chose it, or the padding is used up; or somebody is known by a number
\* that is not the matric number of a student.
NumbersRunOn ==
  NextNumber(Matrics) \in Taken =>
    \/ \E u \in Users : identifier[u] \notin Matrics \cup {NoRow}
    \/ LastOf(Matrics) \notin {Padded(n) : n \in 1..Wide - 2}
================================================================================
