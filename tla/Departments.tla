------------------------------ MODULE Departments ------------------------------
(***************************************************************************)
(* The departments of a school and their heads (school-setup.service.ts),  *)
(* against the department on a teacher's profile (users.service.ts).       *)
(*                                                                         *)
(* Two services keep each other's rule by reading each other's table, in   *)
(* statements of their own, before they write.  The profile's department   *)
(* is a plain string: nothing clears it when the department goes.          *)
(***************************************************************************)
EXTENDS Naturals, FiniteSets

CONSTANTS
  DeptIds,     \* uuids available to departments rows
  Teachers,
  None,        \* no head, no department
  NoRow,       \* "this uuid is not in the table"
  Handlers,    \* requests in flight at the same time
  MaxRequests  \* bound: requests

VARIABLES
  head,     \* departments, by uuid: hod_id
  home,     \* teacher_profiles: department_id
  req,      \* the requests in flight
  served,   \* requests begun so far
  blurred   \* history: heads written about by a request while another one
            \* changed what it had read

deptVars == <<head, home, blurred>>

--------------------------------------------------------------------------------
ASSUME DepartmentsAssumption ==
  /\ NoRow \notin Teachers /\ None \notin Teachers /\ NoRow # None
  /\ None \notin DeptIds
  /\ IsFiniteSet(DeptIds)
  /\ MaxRequests \in Nat

Free == [pc |-> "free"]

\* An appointment makes the teacher head of a department that exists, or of a
\* new one; a move writes the profile.  History, stale: another request wrote
\* about the teacher after this one had read about him.
DepartmentRequest ==
  {Free}
  \cup [pc : {"comparing", "appointing"}, dept : DeptIds, new : BOOLEAN, teacher : Teachers, stale : BOOLEAN]
  \cup [pc : {"moving"}, dept : DeptIds \cup {None}, teacher : Teachers, stale : BOOLEAN]

Existing == {d \in DeptIds : head[d] # NoRow}
HeadedBy(t) == {d \in DeptIds : head[d] = t}

DepartmentsInit ==
  /\ head = [d \in DeptIds |-> NoRow]
  /\ home = [t \in Teachers |-> None]
  /\ req = [h \in Handlers |-> Free]
  /\ served = 0
  /\ blurred = {}

--------------------------------------------------------------------------------
Begin(h, next) ==
  /\ req[h] = Free
  /\ served < MaxRequests
  /\ served' = served + 1
  /\ req' = [req EXCEPT ![h] = next]

\* A new department has a uuid nobody knows.
Unknown(d) ==
  /\ d \notin Existing
  /\ \A t \in Teachers : home[t] # d
  /\ \A h \in Handlers : req[h].pc \in {"comparing", "appointing", "moving"} => req[h].dept # d

\* The writes about t leave the other requests about t with what they read.
About(v, t) == v.pc \in {"comparing", "appointing", "moving"} /\ v.teacher = t
FinishAbout(h, t) ==
  req' = [g \in Handlers |-> IF g = h THEN Free
                             ELSE IF About(req[g], t) THEN [req[g] EXCEPT !.stale = TRUE] ELSE req[g]]

\* The end of a request about t.  A teacher who heads nothing has no rule to keep.
Blur(h, t) ==
  blurred' = {u \in blurred \cup (IF req[h].stale THEN {t} ELSE {}) : \E d \in DeptIds : head'[d] = u}

\* createDepartment without a head.
CreateDepartment(d) ==
  /\ served < MaxRequests
  /\ Unknown(d)
  /\ head' = [head EXCEPT ![d] = None]
  /\ served' = served + 1
  /\ UNCHANGED <<home, req, blurred>>

\* assertHodNotDuplicatedAcrossDepartments, for a department that exists or for
\* a new one ...
AppointHead(h, d, new, t) ==
  /\ IF new THEN Unknown(d) ELSE d \in Existing
  /\ HeadedBy(t) \subseteq (IF new THEN {} ELSE {d})
  /\ Begin(h, [pc |-> "comparing", dept |-> d, new |-> new, teacher |-> t, stale |-> FALSE])
  /\ UNCHANGED deptVars

\* Slip: the profile is not looked at.
CompareNothing(h) ==
  /\ req[h].pc = "comparing"
  /\ req' = [req EXCEPT ![h].pc = "appointing"]
  /\ UNCHANGED <<deptVars, served>>

\* ... then assertTeacherProfileClearForNewHodAppointment for a new department,
\* assertTeacherProfileDepartmentMatchesHodDepartment for one that exists ...
CompareProfile(h) ==
  /\ req[h].pc = "comparing"
  /\ req' = [req EXCEPT ![h] =
       IF home[req[h].teacher] \in {None} \cup (IF req[h].new THEN {} ELSE {req[h].dept})
       THEN [@ EXCEPT !.pc = "appointing"] ELSE Free]
  /\ UNCHANGED <<deptVars, served>>

\* ... and the write, which fails when the department to update is gone.
WriteHead(h) ==
  /\ req[h].pc = "appointing"
  /\ LET t == req[h].teacher
         d == req[h].dept
     IN  IF req[h].new \/ d \in Existing
         THEN /\ head' = [head EXCEPT ![d] = t]
              /\ FinishAbout(h, t)
              /\ Blur(h, t)
         ELSE /\ req' = [req EXCEPT ![h] = Free]
              /\ UNCHANGED <<head, blurred>>
  /\ UNCHANGED <<home, served>>

\* updateDepartment with hod_id null.
DismissHead(d) ==
  /\ d \in Existing
  /\ served < MaxRequests
  /\ head' = [head EXCEPT ![d] = None]
  /\ blurred' = blurred \cap {head'[e] : e \in DeptIds}
  /\ served' = served + 1
  /\ UNCHANGED <<home, req>>

\* deleteDepartment clears the department of subjects and classes, and of no
\* profile.
DeleteDepartment(d) ==
  /\ d \in Existing
  /\ served < MaxRequests
  /\ head' = [head EXCEPT ![d] = NoRow]
  /\ blurred' = blurred \cap {head'[e] : e \in DeptIds}
  /\ served' = served + 1
  /\ UNCHANGED <<home, req>>

\* update of a user with department_id, which need not be of a department:
\* assertTeacherDepartmentUpdateAllowed looks at one the teacher heads ...
MoveTeacher(h, t, d) ==
  /\ HeadedBy(t) = {} \/ d \in HeadedBy(t)
  /\ Begin(h, [pc |-> "moving", dept |-> d, teacher |-> t, stale |-> FALSE])
  /\ UNCHANGED deptVars

\* ... and the transaction writes the profile.  Null alone writes nothing, but
\* together with another field of the profile it does.
WriteHome(h) ==
  /\ req[h].pc = "moving"
  /\ home' = [home EXCEPT ![req[h].teacher] = req[h].dept]
  /\ head' = head
  /\ FinishAbout(h, req[h].teacher)
  /\ Blur(h, req[h].teacher)
  /\ UNCHANGED served

DepartmentStep(h) ==
  \/ \E d \in DeptIds, new \in BOOLEAN, t \in Teachers : AppointHead(h, d, new, t)
  \/ CompareProfile(h) \/ WriteHead(h) \/ WriteHome(h)
  \/ \E t \in Teachers, d \in DeptIds \cup {None} : MoveTeacher(h, t, d)

\* The handlers that check nothing but that the department is there.
DepartmentWrite ==
  \E d \in DeptIds : CreateDepartment(d) \/ DismissHead(d) \/ DeleteDepartment(d)

--------------------------------------------------------------------------------
(***************************************************************************)
(* Properties                                                              *)
(***************************************************************************)

\* "A user may be HOD of at most one department per tenant", and "HODs must keep
\* their profile aligned with the department they head": each service keeps the
\* rule of both, but for requests about one teacher that overlapped.
HeadsAligned ==
  \A t \in Teachers \ blurred :
    \A d \in HeadedBy(t) : HeadedBy(t) = {d} /\ home[t] \in {d, None}
================================================================================
