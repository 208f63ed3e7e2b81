------------------------------- MODULE Placement -------------------------------
(***************************************************************************)
(* Classes and the seats in them (school-setup.service.ts): classes are    *)
(* created, resized and deleted, students are assigned, transferred and    *)
(* removed one by one or in bulk, and users.service.ts writes class_id     *)
(* without asking for a seat.                                              *)
(*                                                                         *)
(* A request that wants seats reads the class, counts its students and     *)
(* updates the profiles in statements of their own; nothing locks the      *)
(* class.  The names, departments and teachers of classes play no part.    *)
(***************************************************************************)
EXTENDS Naturals, FiniteSets

CONSTANTS
  Classes,     \* uuids of classes
  Students,    \* users with a student profile, once they are created
  Capacities,  \* what a class may be given; 0 when the field is left out
  NoClass,     \* "no class": of a profile, or of a uuid not in the table
  NoStudent,   \* "not created yet"
  Handlers,    \* requests in flight at the same time
  MaxRequests  \* bound: requests of more than one statement

VARIABLES
  capacity,  \* capacity[c] of a class in the table
  seat,      \* student_profiles.class_id
  req,       \* the requests in flight
  served     \* requests begun so far

ASSUME PlacementAssumption ==
  /\ Capacities \subseteq Nat /\ 0 \in Capacities
  /\ NoClass \notin Classes \cup Capacities
  /\ NoStudent \notin Classes \cup {NoClass}
  /\ IsFiniteSet(Students) /\ MaxRequests \in Nat

--------------------------------------------------------------------------------
Free == [pc |-> "free"]

\* A placement holds its class, the capacity it read and the students left; a
\* deletion its class.  History, stale: since the request counted the class, a
\* student was placed in it by another one or its capacity was changed.
PlacementRequest ==
  {Free}
  \cup [pc : {"counting", "placing"}, class : Classes, capacity : Capacities,
        left : SUBSET Students, stale : BOOLEAN]
  \cup [pc : {"deletingClass"}, class : Classes, stale : BOOLEAN]

Open == {c \in Classes : capacity[c] # NoClass}
Enrolled == {s \in Students : seat[s] # NoStudent}
Seated(c) == {s \in Students : seat[s] = c}

\* The type invariant of the component: a profile refers to a class that is in
\* the table, whatever was deleted while a student was being placed.
PlacementTypeOK ==
  /\ capacity \in [Classes -> Capacities \cup {NoClass}]
  /\ seat \in [Students -> Classes \cup {NoClass, NoStudent}]
  /\ \A s \in Students : seat[s] \in Classes => seat[s] \in Open
  /\ served \in 0..MaxRequests

PlacementInit ==
  /\ capacity = [c \in Classes |-> NoClass]
  /\ seat = [s \in Students |-> NoStudent]
  /\ req = [h \in Handlers |-> Free]
  /\ served = 0

--------------------------------------------------------------------------------
\* A request whose checks passed.
Begin(h, next) ==
  /\ req[h] = Free
  /\ served < MaxRequests
  /\ served' = served + 1
  /\ req' = [req EXCEPT ![h] = next]

\* What the other requests in flight counted in class c is outdated.
Outdated(v, c) ==
  IF v.pc \in {"placing", "deletingClass"} /\ v.class = c THEN [v EXCEPT !.stale = TRUE] ELSE v
OutdateAll(c) == req' = [g \in Handlers |-> Outdated(req[g], c)]

\* A new class has a uuid no request knows.
Knows(v, c) == v.pc \in {"counting", "placing", "deletingClass"} /\ v.class = c

\* createClass and updateClass.
CreateClass(c, n) ==
  /\ c \notin Open
  /\ \A h \in Handlers : ~Knows(req[h], c)
  /\ capacity' = [capacity EXCEPT ![c] = n]
  /\ UNCHANGED <<seat, req, served>>

UpdateClass(c, n) ==
  /\ c \in Open /\ n # capacity[c]
  /\ capacity' = [capacity EXCEPT ![c] = n]
  /\ OutdateAll(c)
  /\ UNCHANGED <<seat, served>>

\* users.service: create and bulkImport give a new student, whose uuid no request
\* knows, the class of the form (without one the foreign key refuses it), update
\* moves a student, and remove deletes the user and with it the profile.
CreateStudent(s, c) ==
  /\ s \notin Enrolled /\ c \in Open
  /\ \A h \in Handlers : req[h].pc \in {"counting", "placing"} => s \notin req[h].left
  /\ seat' = [seat EXCEPT ![s] = c]
  /\ OutdateAll(c)
  /\ UNCHANGED <<capacity, served>>

UpdateStudent(s, c) ==
  /\ s \in Enrolled /\ c \in Open \ {seat[s]}
  /\ seat' = [seat EXCEPT ![s] = c]
  /\ OutdateAll(c)
  /\ UNCHANGED <<capacity, served>>

RemoveStudent(s) ==
  /\ s \in Enrolled
  /\ seat' = [seat EXCEPT ![s] = NoStudent]
  /\ UNCHANGED <<capacity, req, served>>

--------------------------------------------------------------------------------
\* The three placements read the class; assign refuses a student who has one,
\* transfer a student who is there already, bulk assign nobody.
Placing(h, c, students) ==
  /\ c \in Open
  /\ Begin(h, [pc |-> "counting", class |-> c, capacity |-> capacity[c],
               left |-> students, stale |-> FALSE])
  /\ UNCHANGED <<capacity, seat>>

AssignStudentToClass(h, c, s) == seat[s] = NoClass /\ Placing(h, c, {s})
TransferStudentToClass(h, c, s) == s \in Enrolled /\ seat[s] # c /\ Placing(h, c, {s})
BulkAssignStudentsToClass(h, c, students) ==
  students \subseteq Enrolled /\ students # {} /\ Placing(h, c, students)

\* Slip: the students to come are not counted.
CountSeatsTaken(h) ==
  /\ req[h].pc = "counting"
  /\ LET v == req[h]
         full == Cardinality(Seated(v.class)) > v.capacity
     IN  req' = [req EXCEPT ![h] =
           IF full THEN Free
           ELSE [v EXCEPT !.pc = "placing", !.stale = capacity[v.class] # v.capacity]]
  /\ UNCHANGED <<capacity, seat, served>>

\* Then they count, once.
CountSeats(h) ==
  /\ req[h].pc = "counting"
  /\ LET v == req[h]
         full == Cardinality(Seated(v.class)) + Cardinality(v.left) > v.capacity
     IN  req' = [req EXCEPT ![h] =
           IF full THEN Free
           ELSE [v EXCEPT !.pc = "placing", !.stale = capacity[v.class] # v.capacity]]
  /\ UNCHANGED <<capacity, seat, served>>

\* And they update the profiles one after the other, unless the student is gone,
\* or the class, and the foreign key refuses it: bulk assign skips the student.
Place(h, s) ==
  /\ req[h].pc = "placing"
  /\ s \in req[h].left
  /\ LET c == req[h].class
         left == req[h].left \ {s}
         moves == c \in Open /\ s \in Enrolled /\ seat[s] # c
     IN  /\ seat' = IF moves THEN [seat EXCEPT ![s] = c] ELSE seat
         /\ req' = [g \in Handlers |->
              IF g = h THEN IF left = {} THEN Free ELSE [req[h] EXCEPT !.left = left]
              ELSE IF moves THEN Outdated(req[g], c) ELSE req[g]]
  /\ UNCHANGED <<capacity, served>>

RemoveStudentFromClass(s) ==
  /\ seat[s] \in Classes
  /\ seat' = [seat EXCEPT ![s] = NoClass]
  /\ UNCHANGED <<capacity, req, served>>

\* deleteClass counts the students and deletes the class; the foreign key of a
\* profile that came in between is set to null.
DeleteClass(h, c) ==
  /\ c \in Open
  /\ Seated(c) = {}
  /\ Begin(h, [pc |-> "deletingClass", class |-> c, stale |-> FALSE])
  /\ UNCHANGED <<capacity, seat>>

\* A request dies at an await, or a statement of it fails.
Die(h) ==
  /\ req[h] # Free
  /\ req' = [req EXCEPT ![h] = Free]
  /\ UNCHANGED <<capacity, seat, served>>
================================================================================
