------------------------------- MODULE Curriculum -------------------------------
(***************************************************************************)
(* What the classes of Placement are taught (school-setup.service.ts): the *)
(* subjects offered in a class, their teachers, the registrations of the   *)
(* students by term, and the copies of these rows that classes.subject_ids,*)
(* teacher_profiles.assigned_subject_ids and                               *)
(* student_profiles.registered_subject_ids keep.                           *)
(*                                                                         *)
(* A request first changes the rows and then brings the copies it affects  *)
(* up to date one after the other, each with a statement that reads the    *)
(* rows and a statement that writes the list.  A request may find any term *)
(* current, and any term may be deleted: which one is current is a matter  *)
(* of Calendar.                                                            *)
(***************************************************************************)
EXTENDS Placement

CONSTANTS
  Subjects,  \* uuids of subjects
  Offers,    \* uuids available to class_subjects
  Teachers,  \* users with a teacher profile, once they are created
  Terms,     \* uuids available to academic_terms
  NoTerm,    \* "of no term"
  NoOffer,   \* "this uuid is not in class_subjects"
  Nobody     \* "no list is being written"

VARIABLES
  subjects,    \* the subjects in the table
  offer,       \* class_subjects, by uuid
  teaches,     \* subject_teachers: <<offer, teacher>>
  hired,       \* the teachers in the table
  terms,       \* the terms in the table
  registered,  \* student_subject_registrations: <<student, offer, term>>
  ids,         \* the copied list of each class, teacher and student
  copied,      \* history: the term whose rows the list of a student was
               \* written from
  stray        \* history: owners of a list that came from a form, or whose
               \* last write, or whose last change of rows, was lost on an
               \* overlap, a failure, a deleted class or a deleted term

staff == <<hired, terms>>
lists == <<ids, copied, stray>>
curriculum == <<subjects, offer, teaches, staff, registered, lists>>
vars == <<capacity, seat, req, served, subjects, offer, teaches, hired, terms, registered,
          ids, copied, stray>>

--------------------------------------------------------------------------------
Kinds == {"COMPULSORY", "ELECTIVE", "OPTIONAL"}
Offer == [class : Classes, subject : Subjects, kind : Kinds]
Owners == Classes \cup Teachers \cup Students

ASSUME CurriculumAssumption ==
  /\ NoOffer \notin Offer /\ Nobody \notin Owners /\ NoTerm \notin Terms
  /\ Classes \cap Teachers = {} /\ Classes \cap Students = {} /\ Students \cap Teachers = {}

Offered == {o \in Offers : offer[o] # NoOffer}
OffersOf(c) == {o \in Offered : offer[o].class = c}
TeachersOf(o) == {t \in Teachers : <<o, t>> \in teaches}
IsRegistered(o) == \E s \in Students, t \in Terms : <<s, o, t>> \in registered

\* The rows the list of an owner copies, for a student those of term t.
Rows(x, t) ==
  {o \in Offered : offer[o].class = x \/ <<o, x>> \in teaches \/ <<x, o, t>> \in registered}
Source(x, t) == {offer[o].subject : o \in Rows(x, t)}

\* Owners that are not in the table.
Gone(x) ==
  \/ x \in Classes \ Open
  \/ x \in Teachers \ hired
  \/ x \in Students \ Enrolled

\* Requests that write several rows, that read what they delete, and that
\* bring the lists of todo up to date, now that of at, having read seen.
\* History, stale: what the request read has changed since.
CurriculumRequest ==
  [pc : {"offering"}, class : Classes, left : SUBSET (Subjects \X Kinds)]
  \cup [pc : {"appointing"}, offer : Offers, left : SUBSET Teachers]
  \cup [pc : {"deletingSubject"}, subject : Subjects, todo : SUBSET Owners, stale : BOOLEAN]
  \cup [pc : {"withdrawing"}, offer : Offers, todo : SUBSET Owners, stale : BOOLEAN]
  \cup [pc : {"registering"}, student : Students, offers : SUBSET Offers, term : Terms,
        again : BOOLEAN]
  \cup [pc : {"syncing"}, todo : SUBSET Owners, at : Owners \cup {Nobody}, seen : SUBSET Subjects,
        stale : BOOLEAN, term : Terms \cup {NoTerm}, offer : Offers \cup {NoOffer},
        left : SUBSET Teachers]

\* The type invariant of the component: the foreign keys hold, and a class
\* offers a subject once.
CurriculumTypeOK ==
  /\ PlacementTypeOK
  /\ req \in [Handlers -> PlacementRequest \cup CurriculumRequest]
  /\ subjects \subseteq Subjects
  /\ offer \in [Offers -> Offer \cup {NoOffer}]
  /\ \A o \in Offered : offer[o].class \in Open /\ offer[o].subject \in subjects
  /\ \A o, p \in Offered :
       o # p => offer[o].class # offer[p].class \/ offer[o].subject # offer[p].subject
  /\ hired \subseteq Teachers /\ terms \subseteq Terms
  /\ teaches \subseteq Offered \X Teachers
  /\ registered \subseteq Enrolled \X Offered \X terms
  /\ ids \in [Owners -> SUBSET Subjects] /\ stray \subseteq Owners
  /\ copied \in [Owners -> Terms \cup {NoTerm}]

CurriculumInit ==
  /\ PlacementInit
  /\ subjects = {}
  /\ offer = [o \in Offers |-> NoOffer]
  /\ teaches = {} /\ registered = {}
  /\ hired = {} /\ terms = {}
  /\ ids = [x \in Owners |-> {}]
  /\ copied = [x \in Owners |-> NoTerm]
  /\ stray = {}

--------------------------------------------------------------------------------
\* A request that has changed rows starts on the lists of todo.
Syncing(todo, t, o, left) ==
  [pc |-> "syncing", todo |-> todo, at |-> Nobody, seen |-> {}, stale |-> FALSE,
   term |-> t, offer |-> o, left |-> left]
Sync(todo) == Syncing(todo, NoTerm, NoOffer, {})

\* The lists a request still has to write.
Due(v) ==
  IF v.pc = "syncing" THEN v.todo \cup ({v.at} \ {Nobody})
  ELSE IF v.pc = "offering" THEN {v.class} ELSE {}

\* Rows of the owners in xs and of the subjects in ms have changed.
Touched(v, xs, ms) ==
  IF \/ v.pc = "syncing" /\ v.at \in xs
     \/ v.pc = "deletingSubject" /\ v.subject \in ms
     \/ v.pc = "withdrawing" /\ v.offer \in Offered /\ offer[v.offer].subject \in ms
  THEN [v EXCEPT !.stale = TRUE] ELSE v
Touch(h, next, xs, ms) ==
  req' = [g \in Handlers |-> IF g = h THEN next ELSE Touched(req[g], xs, ms)]
BeginTouching(h, next, xs, ms) ==
  /\ req[h] = Free
  /\ served < MaxRequests
  /\ served' = served + 1
  /\ Touch(h, next, xs, ms)

\* A new row has a uuid no request knows.
Fresh(o) ==
  /\ o \notin Offered
  /\ \A h \in Handlers :
       /\ req[h].pc \in {"appointing", "withdrawing", "syncing"} => req[h].offer # o
       /\ req[h].pc = "registering" => o \notin req[h].offers

CreateSubject(m) ==
  /\ m \notin subjects
  /\ \A h \in Handlers : req[h].pc = "deletingSubject" => req[h].subject # m
  /\ subjects' = subjects \cup {m}
  /\ UNCHANGED <<capacity, seat, req, served, offer, teaches, staff, registered, lists>>

--------------------------------------------------------------------------------
\* Subjects of a class.  The unique key of class_subjects refuses a pair that
\* exists, the foreign keys a class or a subject that does not.
Offerable(c, m) ==
  /\ c \in Open /\ m \in subjects
  /\ \A o \in OffersOf(c) : offer[o].subject # m
NewOffer(o, c, m, kind) ==
  /\ Fresh(o)
  /\ offer' = [offer EXCEPT ![o] = [class |-> c, subject |-> m, kind |-> kind]]

AssignSubjectToClass(h, o, c, m, kind) ==
  /\ Offerable(c, m)
  /\ NewOffer(o, c, m, kind)
  /\ BeginTouching(h, Sync({c}), {c}, {m})
  /\ UNCHANGED <<capacity, seat, subjects, teaches, staff, registered, lists>>

BulkAssignSubjectsToClass(h, c, items) ==
  /\ c \in Open
  /\ items # {}
  /\ Begin(h, [pc |-> "offering", class |-> c, left |-> items])
  /\ UNCHANGED <<capacity, seat, curriculum>>

\* The loop skips what the database refuses; after it, the class is brought up
\* to date.
OfferSubject(h, o, item) ==
  /\ req[h].pc = "offering"
  /\ item \in req[h].left
  /\ LET c == req[h].class
         left == req[h].left \ {item}
         next == IF left = {} THEN Sync({c}) ELSE [req[h] EXCEPT !.left = left]
     IN  IF Offerable(c, item[1])
         THEN NewOffer(o, c, item[1], item[2]) /\ Touch(h, next, {c}, {item[1]})
         ELSE offer' = offer /\ req' = [req EXCEPT ![h] = next]
  /\ UNCHANGED <<capacity, seat, served, subjects, teaches, staff, registered, lists>>

\* Deletions take the teachers along, and are refused while a student is
\* registered.  A list the request did not know of stays as it is.
Withdraw(h, gone) ==
  LET owners == {offer[o].class : o \in gone} \cup UNION {TeachersOf(o) : o \in gone}
  IN  IF \E o \in gone : IsRegistered(o)
      THEN /\ req' = [req EXCEPT ![h] = Free]
           /\ UNCHANGED <<subjects, offer, teaches, stray>>
      ELSE /\ offer' = [o \in Offers |-> IF o \in gone THEN NoOffer ELSE offer[o]]
           /\ teaches' = {p \in teaches : p[1] \notin gone}
           /\ Touch(h, IF req[h].todo = {} THEN Free ELSE Sync(req[h].todo), owners, {})
           /\ stray' = IF req[h].stale THEN stray \cup (owners \ req[h].todo) ELSE stray
           /\ subjects' = IF req[h].pc = "deletingSubject"
                          THEN subjects \ {req[h].subject} ELSE subjects

\* Slip: the teachers are not looked up.
RemoveSubjectAlone(h, o) ==
  /\ o \in Offered
  /\ Begin(h, [pc |-> "withdrawing", offer |-> o, stale |-> FALSE, todo |-> {offer[o].class}])
  /\ UNCHANGED <<capacity, seat, curriculum>>

\* removeSubjectFromClass and deleteSubject look the owners up first.
RemoveSubjectFromClass(h, o) ==
  /\ o \in Offered
  /\ Begin(h, [pc |-> "withdrawing", offer |-> o, stale |-> FALSE,
               todo |-> {offer[o].class} \cup TeachersOf(o)])
  /\ UNCHANGED <<capacity, seat, curriculum>>

SubjectRemoved(h) ==
  /\ req[h].pc = "withdrawing"
  /\ IF req[h].offer \in Offered
     THEN Withdraw(h, {req[h].offer})
     ELSE req' = [req EXCEPT ![h] = Free] /\ UNCHANGED <<subjects, offer, teaches, stray>>
  /\ UNCHANGED <<capacity, seat, served, staff, registered, ids, copied>>

DeleteSubject(h, m) ==
  LET offers == {o \in Offered : offer[o].subject = m}
  IN  /\ m \in subjects
      /\ Begin(h, [pc |-> "deletingSubject", subject |-> m, stale |-> FALSE,
                   todo |-> {offer[o].class : o \in offers} \cup UNION {TeachersOf(o) : o \in offers}])
      /\ UNCHANGED <<capacity, seat, curriculum>>

SubjectDeleted(h) ==
  /\ req[h].pc = "deletingSubject"
  /\ IF req[h].subject \in subjects
     THEN Withdraw(h, {o \in Offered : offer[o].subject = req[h].subject})
     ELSE req' = [req EXCEPT ![h] = Free] /\ UNCHANGED <<subjects, offer, teaches, stray>>
  /\ UNCHANGED <<capacity, seat, served, staff, registered, ids, copied>>

--------------------------------------------------------------------------------
\* Teachers of a subject in a class.
AssignTeacherToClassSubject(h, o, t) ==
  /\ o \in Offered /\ t \in hired /\ <<o, t>> \notin teaches
  /\ teaches' = teaches \cup {<<o, t>>}
  /\ BeginTouching(h, Sync({t}), {t}, {offer[o].subject})
  /\ UNCHANGED <<capacity, seat, subjects, offer, staff, registered, lists>>

BulkAssignTeachersToClassSubjects(h, o, ts) ==
  /\ o \in Offered
  /\ ts # {}
  /\ Begin(h, [pc |-> "appointing", offer |-> o, left |-> ts])
  /\ UNCHANGED <<capacity, seat, curriculum>>

\* The loop brings the list of each teacher it adds up to date at once; nothing
\* asks whether the ids are those of teachers.
AppointTeacher(h, t) ==
  /\ req[h].pc = "appointing"
  /\ t \in req[h].left
  /\ LET o == req[h].offer
         left == req[h].left \ {t}
     IN  IF o \in Offered /\ <<o, t>> \notin teaches
         THEN /\ teaches' = teaches \cup {<<o, t>>}
              /\ Touch(h, Syncing({t}, NoTerm, o, left), {t}, {offer[o].subject})
         ELSE /\ teaches' = teaches
              /\ req' = [req EXCEPT ![h] = IF left = {} THEN Free ELSE [@ EXCEPT !.left = left]]
  /\ UNCHANGED <<capacity, seat, served, subjects, offer, staff, registered, lists>>

RemoveTeacherFromClassSubject(h, o, t) ==
  /\ t \in hired /\ <<o, t>> \in teaches
  /\ teaches' = teaches \ {<<o, t>>}
  /\ BeginTouching(h, Sync({t}), {t}, {})
  /\ UNCHANGED <<capacity, seat, subjects, offer, staff, registered, lists>>

--------------------------------------------------------------------------------
\* registerSubjectsForStudent takes subject ids but compares the electives with
\* the ids of class_subjects: it registers everything but the electives.
RegisterSubjectsForStudent(h, s, t) ==
  /\ seat[s] \in Classes /\ t \in terms
  /\ Begin(h, [pc |-> "registering", student |-> s, term |-> t, again |-> FALSE,
               offers |-> {o \in OffersOf(seat[s]) : offer[o].kind # "ELECTIVE"}])
  /\ UNCHANGED <<capacity, seat, curriculum>>

\* updateSubjectRegistration takes ids of class_subjects, all the compulsory
\* ones of the class among them.
UpdateSubjectRegistration(h, s, t, chosen) ==
  /\ seat[s] \in Classes /\ t \in terms
  /\ chosen \subseteq OffersOf(seat[s])
  /\ {o \in OffersOf(seat[s]) : offer[o].kind = "COMPULSORY"} \subseteq chosen
  /\ Begin(h, [pc |-> "registering", student |-> s, term |-> t, again |-> TRUE, offers |-> chosen])
  /\ UNCHANGED <<capacity, seat, curriculum>>

\* Slip: every registration is taken away.
DroppedAll(h) ==
  IF req[h].again
  THEN {p \in registered : p[1] = req[h].student /\ p[3] = req[h].term} ELSE {}

\* What their transaction takes away: with a new choice, the electives of the term.
Dropped(h) ==
  IF req[h].again
  THEN {p \in registered : /\ p[1] = req[h].student /\ p[3] = req[h].term
                           /\ offer[p[2]].kind = "ELECTIVE"} ELSE {}

\* The transaction, and the list of the student after it.
Enter(h) ==
  LET s == req[h].student
  IN  /\ registered' = (registered \ Dropped(h)) \cup ({s} \X req[h].offers \X {req[h].term})
      /\ Touch(h, Syncing({s}, req[h].term, NoOffer, {}), {s}, {})

\* Slip: what was offered when the request began is registered.
RegisterLate(h) ==
  /\ req[h].pc = "registering"
  /\ Enter(h)
  /\ UNCHANGED <<capacity, seat, served, subjects, offer, teaches, staff, lists>>

\* The foreign keys of a registration: subject, student and term.
Refused(v) ==
  /\ v.offers # {}
  /\ ~(v.offers \subseteq Offered) \/ v.student \notin Enrolled \/ v.term \notin terms

Register(h) ==
  /\ req[h].pc = "registering"
  /\ IF Refused(req[h])
     THEN /\ registered' = registered
          /\ req' = [req EXCEPT ![h] = Free]
     ELSE Enter(h)
  /\ UNCHANGED <<capacity, seat, served, subjects, offer, teaches, staff, lists>>

--------------------------------------------------------------------------------
\* What comes after the list of at.
NextSync(v) ==
  IF v.todo # {} THEN [v EXCEPT !.at = Nobody, !.seen = {}, !.stale = FALSE]
  ELSE IF v.left # {} THEN [pc |-> "appointing", offer |-> v.offer, left |-> v.left]
  ELSE Free

\* syncClassSubjectIds, syncTeacherAssignedSubjectIds and
\* syncStudentRegisteredSubjectIdsForTerm: classes come before teachers, and a
\* teacher without a profile is passed over.
SyncRead(h, x) ==
  /\ req[h].pc = "syncing"
  /\ req[h].at = Nobody
  /\ x \in req[h].todo
  /\ x \in Classes \/ req[h].todo \cap Classes = {}
  /\ LET rest == [req[h] EXCEPT !.todo = @ \ {x}]
     IN  req' = [req EXCEPT ![h] =
           IF x \in Teachers \ hired THEN NextSync(rest)
           ELSE [rest EXCEPT !.at = x, !.seen = Source(x, rest.term), !.stale = FALSE]]
  /\ UNCHANGED <<capacity, seat, served, curriculum>>

\* The update of an owner that is gone fails, and only the loop goes on.
SyncWrite(h) ==
  /\ req[h].pc = "syncing"
  /\ req[h].at # Nobody
  /\ LET x == req[h].at
     IN  IF Gone(x)
         THEN /\ req' = [req EXCEPT ![h] = NextSync([@ EXCEPT !.todo = {}])]
              /\ stray' = stray \cup req[h].todo
              /\ UNCHANGED <<ids, copied>>
         ELSE /\ req' = [req EXCEPT ![h] = NextSync(@)]
              /\ stray' = IF req[h].stale THEN stray \cup {x} ELSE stray \ {x}
              /\ ids' = [ids EXCEPT ![x] = req[h].seen]
              /\ copied' = [copied EXCEPT ![x] = req[h].term]
  /\ UNCHANGED <<capacity, seat, served, subjects, offer, teaches, staff, registered>>

--------------------------------------------------------------------------------
\* A new owner, of whom no request knows, and its list.
NewList(x, list) ==
  /\ \A h \in Handlers :
       /\ x \notin Due(req[h])
       /\ req[h].pc \in {"withdrawing", "deletingSubject"} => x \notin req[h].todo
       /\ req[h].pc = "appointing" => x \notin req[h].left
       /\ req[h].pc = "syncing" => x \notin req[h].left
       /\ req[h].pc = "registering" => x # req[h].student
  /\ ids' = [ids EXCEPT ![x] = list]
  /\ copied' = [copied EXCEPT ![x] = NoTerm]
  /\ stray' = IF list = {} THEN stray \ {x} ELSE stray \cup {x}

\* A new class and a new student have empty lists.
ClassCreated(c, n) ==
  /\ CreateClass(c, n)
  /\ NewList(c, {})
  /\ UNCHANGED <<subjects, offer, teaches, staff, registered>>

StudentCreated(s, c) ==
  /\ CreateStudent(s, c)
  /\ NewList(s, {})
  /\ UNCHANGED <<subjects, offer, teaches, staff, registered>>

\* users.service gives a new teacher the list of the form, with no row behind
\* it, and leaves the rows of a teacher it deletes.
TeacherCreated(t, list) ==
  /\ t \notin hired /\ \A o \in Offers : <<o, t>> \notin teaches
  /\ NewList(t, list)
  /\ hired' = hired \cup {t}
  /\ UNCHANGED <<capacity, seat, req, served, subjects, offer, teaches, terms, registered>>

TeacherRemoved(t) ==
  /\ t \in hired
  /\ hired' = hired \ {t}
  /\ UNCHANGED <<capacity, seat, req, served, subjects, offer, teaches, terms, registered, lists>>

\* The registrations of a deleted student go by the cascade.
StudentRemoved(s) ==
  /\ RemoveStudent(s)
  /\ registered' = {p \in registered : p[1] # s}
  /\ UNCHANGED <<subjects, offer, teaches, staff, lists>>

\* A new term has a uuid no request knows.
TermCreated(t) ==
  /\ t \notin terms
  /\ \A h \in Handlers : req[h].pc \in {"registering", "syncing"} => req[h].term # t
  /\ \A x \in Owners : copied[x] # t
  /\ terms' = terms \cup {t}
  /\ UNCHANGED <<capacity, seat, req, served, subjects, offer, teaches, hired, registered, lists>>

\* deleteTerm, and deleteAcademicSession where nothing is registered, take the
\* registrations of the term along and leave the lists of the students alone.
TermRemoved(t) ==
  LET owners == {p[1] : p \in {q \in registered : q[3] = t}}
  IN  /\ t \in terms
      /\ terms' = terms \ {t}
      /\ registered' = {p \in registered : p[3] # t}
      /\ stray' = stray \cup {s \in owners : copied[s] = t}
      /\ req' = [g \in Handlers |-> Touched(req[g], owners, {})]
      /\ UNCHANGED <<capacity, seat, served, subjects, offer, teaches, hired, ids, copied>>

\* deleteClass takes the offers of the class and their teachers along, unless a
\* student is registered for one, and leaves the lists of the teachers alone.
ClassRemoved(h) ==
  /\ req[h].pc = "deletingClass"
  /\ LET c == req[h].class
         gone == OffersOf(c)
         ts == UNION {TeachersOf(o) : o \in gone}
     IN  IF \E o \in gone : IsRegistered(o)
         THEN Die(h) /\ UNCHANGED curriculum
         ELSE /\ capacity' = [capacity EXCEPT ![c] = NoClass]
              /\ seat' = [s \in Students |-> IF seat[s] = c THEN NoClass ELSE seat[s]]
              /\ offer' = [o \in Offers |-> IF o \in gone THEN NoOffer ELSE offer[o]]
              /\ teaches' = {p \in teaches : p[1] \notin gone}
              /\ stray' = stray \cup ts
              /\ Touch(h, Free, ts, {})
              /\ UNCHANGED <<served, subjects, staff, registered, ids, copied>>

\* A request dies with lists it still had to write.
Abort(h) ==
  /\ Die(h)
  /\ stray' = stray \cup Due(req[h])
  /\ UNCHANGED <<subjects, offer, teaches, staff, registered, ids, copied>>

PlacementStep ==
  /\ \/ \E c \in Classes, n \in Capacities : UpdateClass(c, n)
     \/ \E s \in Students :
          \/ \E c \in Classes : UpdateStudent(s, c)
          \/ RemoveStudentFromClass(s)
     \/ \E h \in Handlers :
          \/ \E c \in Classes :
               \/ \E s \in Students : AssignStudentToClass(h, c, s) \/ TransferStudentToClass(h, c, s)
               \/ \E ss \in SUBSET Students : BulkAssignStudentsToClass(h, c, ss)
               \/ DeleteClass(h, c)
          \/ CountSeats(h)
          \/ \E s \in Students : Place(h, s)
  /\ UNCHANGED curriculum

CurriculumStep(h) ==
  \/ \E o \in Offers, c \in Classes, m \in Subjects, kind \in Kinds :
       AssignSubjectToClass(h, o, c, m, kind)
  \/ \E c \in Classes, items \in SUBSET (Subjects \X Kinds) : BulkAssignSubjectsToClass(h, c, items)
  \/ \E o \in Offers, item \in Subjects \X Kinds : OfferSubject(h, o, item)
  \/ \E o \in Offers :
       \/ RemoveSubjectFromClass(h, o)
       \/ \E t \in Teachers :
            AssignTeacherToClassSubject(h, o, t) \/ RemoveTeacherFromClassSubject(h, o, t)
       \/ \E ts \in SUBSET Teachers : BulkAssignTeachersToClassSubjects(h, o, ts)
  \/ SubjectRemoved(h) \/ SubjectDeleted(h)
  \/ \E m \in Subjects : DeleteSubject(h, m)
  \/ \E t \in Teachers : AppointTeacher(h, t)
  \/ \E s \in Students, t \in Terms :
       \/ RegisterSubjectsForStudent(h, s, t)
       \/ \E chosen \in SUBSET Offers : UpdateSubjectRegistration(h, s, t, chosen)
  \/ Register(h)
  \/ \E x \in Owners : SyncRead(h, x)
  \/ SyncWrite(h) \/ ClassRemoved(h) \/ Abort(h)

\* Who and what comes and goes with one statement.
RosterStep ==
  \/ \E c \in Classes, n \in Capacities : ClassCreated(c, n)
  \/ \E s \in Students, c \in Classes : StudentCreated(s, c)
  \/ \E s \in Students : StudentRemoved(s)
  \/ \E t \in Teachers, list \in SUBSET Subjects : TeacherCreated(t, list)
  \/ \E t \in Teachers : TeacherRemoved(t)
  \/ \E t \in Terms : TermCreated(t) \/ TermRemoved(t)
  \/ \E m \in Subjects : CreateSubject(m)

CurriculumNext ==
  \/ RosterStep
  \/ PlacementStep
  \/ \E h \in Handlers : CurriculumStep(h)

CurriculumSpec == CurriculumInit /\ [][CurriculumNext]_vars

--------------------------------------------------------------------------------
(***************************************************************************)
(* Properties                                                              *)
(***************************************************************************)

\* h seats one of its students in c.
Seats(h, c) ==
  /\ req[h].pc = "placing" /\ req[h].class = c /\ seat' # seat
  /\ req'[h].pc = "free" \/ (req'[h].pc = "placing" /\ req'[h].left # req[h].left)

\* A placement overfills its class only if, since it counted, another request
\* seated a student in it or changed its capacity.
FillsWithinCapacity ==
  \A h \in Handlers, c \in Classes :
    Seats(h, c) /\ ~req[h].stale => Cardinality(Seated(c)') <= capacity[c]

\* A student loses the seat with the class only by coming in between the count
\* and the deletion.
UnseatsNobody ==
  \A s \in Students :
    seat[s] \in Open \ Open'
      => \E h \in Handlers :
           req[h].pc = "deletingClass" /\ req[h].class = seat[s] /\ req[h].stale

\* "Class is at full capacity", "Cannot delete class, it has students": the seats
\* of a class are neither overfilled nor swept away but by requests that overlap.
SeatsHold == [][FillsWithinCapacity /\ UnseatsNobody]_vars

\* The student of registration p chooses again in its term.
ChoosesAgain(p) ==
  \E h \in Handlers :
    req[h].pc = "registering" /\ req[h].again /\ req[h].student = p[1] /\ req[h].term = p[3]

\* "Compulsory subjects cannot be deregistered": a registration goes only when
\* its student chooses again, and then only if it is an elective, or with its
\* student or its term; neither the deletion of a subject nor that of a class
\* takes one along.
RegistrationsStay ==
  [][\A p \in registered \ registered' :
       \/ offer[p[2]].kind = "ELECTIVE" /\ ChoosesAgain(p)
       \/ p[1] \in Enrolled \ Enrolled'
       \/ p[3] \in terms \ terms']_vars

\* "Keep in sync with ClassSubject": the list of a class, a teacher or a student
\* is that of the rows, for a student those of the term it was written for, when
\* no request is about to write it, unless two requests overlapped on it, one
\* failed halfway, a class or a term went with its rows, or a teacher was
\* created with a list and nothing has written it since.
ListsAgree ==
  \A x \in Owners :
    \/ Gone(x) \/ x \in stray
    \/ \E h \in Handlers : x \in Due(req[h])
    \/ ids[x] = Source(x, copied[x])
================================================================================
