---------------------------- MODULE CurriculumProofs ----------------------------
(***************************************************************************)
(* Proofs about Placement and Curriculum.                                  *)
(***************************************************************************)
EXTENDS Curriculum, FiniteSetTheorems, TLAPS

USE DEF staff, lists

--------------------------------------------------------------------------------
(***************************************************************************)
(* Requests.                                                               *)
(***************************************************************************)

Request == PlacementRequest \cup CurriculumRequest

\* The shapes of requests, one per stage of a handler.
Seating == [pc : {"counting", "placing"}, class : Classes, capacity : Capacities,
            left : SUBSET Students, stale : BOOLEAN]
DeletingClass == [pc : {"deletingClass"}, class : Classes, stale : BOOLEAN]
Offering == [pc : {"offering"}, class : Classes, left : SUBSET (Subjects \X Kinds)]
Appointing == [pc : {"appointing"}, offer : Offers, left : SUBSET Teachers]
DeletingSubject ==
  [pc : {"deletingSubject"}, subject : Subjects, todo : SUBSET Owners, stale : BOOLEAN]
Withdrawing == [pc : {"withdrawing"}, offer : Offers, todo : SUBSET Owners, stale : BOOLEAN]
Registering ==
  [pc : {"registering"}, student : Students, offers : SUBSET Offers, term : Terms,
   again : BOOLEAN]
SyncingLists ==
  [pc : {"syncing"}, todo : SUBSET Owners, at : Owners \cup {Nobody}, seen : SUBSET Subjects,
   stale : BOOLEAN, term : Terms \cup {NoTerm}, offer : Offers \cup {NoOffer},
   left : SUBSET Teachers]

\* The stage tells the shape.
LEMMA Shapes ==
  ASSUME NEW v \in Request
  PROVE  /\ v.pc = "free" => v = Free
         /\ v.pc \in {"counting", "placing"} => v \in Seating
         /\ v.pc = "deletingClass" => v \in DeletingClass
         /\ v.pc = "offering" => v \in Offering
         /\ v.pc = "appointing" => v \in Appointing
         /\ v.pc = "deletingSubject" => v \in DeletingSubject
         /\ v.pc = "withdrawing" => v \in Withdrawing
         /\ v.pc = "registering" => v \in Registering
         /\ v.pc = "syncing" => v \in SyncingLists
<1>1. \/ v = Free \/ v \in Seating \/ v \in DeletingClass \/ v \in Offering \/ v \in Appointing
      \/ v \in DeletingSubject \/ v \in Withdrawing \/ v \in Registering \/ v \in SyncingLists
  BY Zenon DEF Request, PlacementRequest, CurriculumRequest, Seating, DeletingClass, Offering,
     Appointing, DeletingSubject, Withdrawing, Registering, SyncingLists
<1>2. /\ v = Free => v.pc = "free"
      /\ v \in Seating => v.pc \in {"counting", "placing"}
      /\ v \in DeletingClass => v.pc = "deletingClass"
      /\ v \in Offering => v.pc = "offering"
      /\ v \in Appointing => v.pc = "appointing"
      /\ v \in DeletingSubject => v.pc = "deletingSubject"
      /\ v \in Withdrawing => v.pc = "withdrawing"
      /\ v \in Registering => v.pc = "registering"
      /\ v \in SyncingLists => v.pc = "syncing"
  BY DEF Free, Seating, DeletingClass, Offering, Appointing, DeletingSubject, Withdrawing,
     Registering, SyncingLists
<1> QED
  BY <1>1, <1>2

LEMMA ShapesAreRequests ==
  /\ Free \in Request /\ Seating \subseteq Request /\ DeletingClass \subseteq Request
  /\ Offering \subseteq Request /\ Appointing \subseteq Request
  /\ DeletingSubject \subseteq Request /\ Withdrawing \subseteq Request
  /\ Registering \subseteq Request /\ SyncingLists \subseteq Request
BY Zenon DEF Request, PlacementRequest, CurriculumRequest, Seating, DeletingClass, Offering,
   Appointing, DeletingSubject, Withdrawing, Registering, SyncingLists

\* What another request does to v: at most, it makes what v read stale.
Aged(v, w) ==
  \/ w = v
  \/ /\ v.pc \in {"placing", "deletingClass", "deletingSubject", "withdrawing", "syncing"}
     /\ w = [v EXCEPT !.stale = TRUE]

LEMMA AgedIsRequest ==
  ASSUME NEW v \in Request, NEW w, Aged(v, w)
  PROVE  /\ w \in Request /\ w.pc = v.pc
         /\ v.pc \in {"counting", "placing"} =>
              w.class = v.class /\ w.capacity = v.capacity /\ w.left = v.left
         /\ v.pc = "deletingClass" => w.class = v.class
         /\ v.pc = "deletingSubject" => w.subject = v.subject /\ w.todo = v.todo
         /\ v.pc = "withdrawing" => w.offer = v.offer /\ w.todo = v.todo
         /\ v.pc = "registering" => w = v
         /\ v.pc = "syncing" =>
              /\ w.todo = v.todo /\ w.at = v.at /\ w.seen = v.seen
              /\ w.term = v.term /\ w.offer = v.offer /\ w.left = v.left
         /\ v.pc \in {"free", "counting", "offering", "appointing", "registering"} => w = v
         /\ Due(w) = Due(v)
<1>1. CASE w = v
  BY <1>1
<1>2. CASE v.pc \in {"placing"} /\ w = [v EXCEPT !.stale = TRUE]
  <2>1. v \in Seating
    BY <1>2, Shapes
  <2>2. w \in Seating /\ w.pc = v.pc /\ w.class = v.class /\ w.capacity = v.capacity /\ w.left = v.left
    BY <1>2, <2>1 DEF Seating
  <2> QED
    BY <1>2, <2>2, ShapesAreRequests DEF Due
<1>3. CASE v.pc = "deletingClass" /\ w = [v EXCEPT !.stale = TRUE]
  <2>1. v \in DeletingClass
    BY <1>3, Shapes
  <2>2. w \in DeletingClass /\ w.pc = v.pc /\ w.class = v.class
    BY <1>3, <2>1 DEF DeletingClass
  <2> QED
    BY <1>3, <2>2, ShapesAreRequests DEF Due
<1>4. CASE v.pc = "deletingSubject" /\ w = [v EXCEPT !.stale = TRUE]
  <2>1. v \in DeletingSubject
    BY <1>4, Shapes
  <2>2. w \in DeletingSubject /\ w.pc = v.pc /\ w.subject = v.subject /\ w.todo = v.todo
    BY <1>4, <2>1 DEF DeletingSubject
  <2> QED
    BY <1>4, <2>2, ShapesAreRequests DEF Due
<1>5. CASE v.pc = "withdrawing" /\ w = [v EXCEPT !.stale = TRUE]
  <2>1. v \in Withdrawing
    BY <1>5, Shapes
  <2>2. w \in Withdrawing /\ w.pc = v.pc /\ w.offer = v.offer /\ w.todo = v.todo
    BY <1>5, <2>1 DEF Withdrawing
  <2> QED
    BY <1>5, <2>2, ShapesAreRequests DEF Due
<1>6. CASE v.pc = "syncing" /\ w = [v EXCEPT !.stale = TRUE]
  <2>1. v \in SyncingLists
    BY <1>6, Shapes
  <2>2. /\ w \in SyncingLists /\ w.pc = v.pc /\ w.todo = v.todo /\ w.at = v.at /\ w.seen = v.seen
        /\ w.term = v.term /\ w.offer = v.offer /\ w.left = v.left
    BY <1>6, <2>1 DEF SyncingLists
  <2> QED
    BY <1>6, <2>2, ShapesAreRequests DEF Due
<1> QED
  BY <1>1, <1>2, <1>3, <1>4, <1>5, <1>6 DEF Aged

LEMMA OutdatedAges ==
  ASSUME NEW v, NEW c
  PROVE  Aged(v, Outdated(v, c))
BY DEF Aged, Outdated

LEMMA TouchedAges ==
  ASSUME NEW v, NEW xs, NEW ms
  PROVE  Aged(v, Touched(v, xs, ms))
BY DEF Aged, Touched

\* Handler h goes on as next, the others age at most.
Advance(old, new, h, next) ==
  /\ new = [g \in Handlers |-> new[g]]
  /\ new[h] = next
  /\ \A g \in Handlers \ {h} : Aged(old[g], new[g])

LEMMA ExceptAdvances ==
  ASSUME req \in [Handlers -> Request], NEW h \in Handlers, NEW next,
         req' = [req EXCEPT ![h] = next]
  PROVE  Advance(req, req', h, next)
<1>1. /\ req' = [g \in Handlers |-> req'[g]] /\ req'[h] = next
      /\ \A g \in Handlers \ {h} : req'[g] = req[g]
  OBVIOUS
<1> QED
  BY <1>1 DEF Advance, Aged

LEMMA TouchAdvances ==
  ASSUME NEW h \in Handlers, NEW next, NEW xs, NEW ms, Touch(h, next, xs, ms)
  PROVE  Advance(req, req', h, next)
<1>1. req' = [g \in Handlers |-> IF g = h THEN next ELSE Touched(req[g], xs, ms)]
  BY DEF Touch
<1>2. /\ req' = [g \in Handlers |-> req'[g]] /\ req'[h] = next
      /\ \A g \in Handlers \ {h} : req'[g] = Touched(req[g], xs, ms)
  BY <1>1
<1> QED
  BY <1>2, TouchedAges, Zenon DEF Advance

\* What the model says of every request: its shape, and that the teachers still
\* to appoint have a subject to be appointed to.
Sound(v) ==
  /\ v \in Request
  /\ v.pc = "syncing" /\ v.left # {} => v.offer \in Offers

RequestsSound ==
  /\ req \in [Handlers -> Request]
  /\ \A h \in Handlers : Sound(req[h])

LEMMA AgedIsSound ==
  ASSUME NEW v, NEW w, Sound(v), Aged(v, w)
  PROVE  Sound(w)
<1>1. v \in Request
  BY DEF Sound
<1> QED
  BY <1>1, AgedIsRequest DEF Sound

LEMMA AdvanceIsSound ==
  ASSUME RequestsSound, NEW h \in Handlers, NEW next, Advance(req, req', h, next),
         Sound(next)
  PROVE  RequestsSound'
<1>1. \A g \in Handlers : Sound(req'[g])
  BY AgedIsSound DEF RequestsSound, Advance
<1>2. \A g \in Handlers : req'[g] \in Request
  BY <1>1 DEF Sound
<1>3. req' \in [Handlers -> Request]
  BY <1>2 DEF Advance
<1> QED
  BY <1>1, <1>3 DEF RequestsSound

LEMMA AllAgedAreSound ==
  ASSUME RequestsSound, req' = [g \in Handlers |-> req'[g]],
         \A g \in Handlers : Aged(req[g], req'[g])
  PROVE  RequestsSound'
<1>1. \A g \in Handlers : Sound(req'[g])
  BY AgedIsSound DEF RequestsSound
<1>2. \A g \in Handlers : req'[g] \in Request
  BY <1>1 DEF Sound
<1>3. req' \in [Handlers -> Request]
  BY <1>2
<1> QED
  BY <1>1, <1>3 DEF RequestsSound

LEMMA PlacementIsSound ==
  ASSUME NEW v \in {Free} \cup Seating \cup DeletingClass \cup Offering \cup Appointing
                     \cup DeletingSubject \cup Withdrawing \cup Registering
  PROVE  Sound(v)
<1>1. v \in Request
  BY ShapesAreRequests
<1>2. v.pc # "syncing"
  BY DEF Free, Seating, DeletingClass, Offering, Appointing, DeletingSubject, Withdrawing,
     Registering
<1> QED
  BY <1>1, <1>2 DEF Sound

--------------------------------------------------------------------------------
(***************************************************************************)
(* Types and foreign keys.                                                 *)
(***************************************************************************)

\* The foreign and unique keys of the tables, and the lists.
KeysHold ==
  /\ subjects \subseteq Subjects
  /\ offer \in [Offers -> Offer \cup {NoOffer}]
  /\ \A o \in Offered : offer[o].class \in Open /\ offer[o].subject \in subjects
  /\ \A o, p \in Offered :
       o # p => offer[o].class # offer[p].class \/ offer[o].subject # offer[p].subject
  /\ teaches \subseteq Offered \X Teachers
  /\ hired \subseteq Teachers /\ terms \subseteq Terms
  /\ registered \subseteq Enrolled \X Offered \X terms
  /\ ids \in [Owners -> SUBSET Subjects] /\ stray \subseteq Owners
  /\ copied \in [Owners -> Terms \cup {NoTerm}]

\* The inductive invariant: the keys hold, and requests have what they need to
\* keep them.
CurriculumInv == PlacementTypeOK /\ RequestsSound /\ KeysHold

LEMMA KeysGrow ==
  ASSUME KeysHold, Open \subseteq Open', Enrolled \subseteq Enrolled',
         UNCHANGED <<subjects, offer, teaches, staff, registered>>,
         ids' \in [Owners -> SUBSET Subjects], stray' \subseteq Owners,
         copied' \in [Owners -> Terms \cup {NoTerm}]
  PROVE  KeysHold'
<1>1. Offered' = Offered
  BY DEF Offered
<1> QED
  BY <1>1 DEF KeysHold

LEMMA InitHolds ==
  ASSUME CurriculumInit
  PROVE  CurriculumInv
<1> USE DEF CurriculumInit, PlacementInit
<1>1. PlacementTypeOK
  BY PlacementAssumption DEF PlacementTypeOK
<1>2. RequestsSound
  BY ShapesAreRequests, PlacementIsSound DEF RequestsSound
<1>3. Offered = {}
  BY DEF Offered
<1>4. KeysHold
  BY <1>3 DEF KeysHold
<1> QED
  BY <1>1, <1>2, <1>4 DEF CurriculumInv

\* What a step of Placement does to the requests in flight: those of the
\* curriculum do not change.
PlacementMoves ==
  /\ req' \in [Handlers -> Request]
  /\ \A h \in Handlers :
       \/ req'[h] = req[h]
       \/ /\ req[h] \in {Free} \cup Seating \cup DeletingClass
          /\ req'[h] \in {Free} \cup Seating \cup DeletingClass

LEMMA OutdateMoves ==
  ASSUME req \in [Handlers -> Request], NEW c, OutdateAll(c)
  PROVE  PlacementMoves
<1>1. req' = [g \in Handlers |-> Outdated(req[g], c)]
  BY DEF OutdateAll
<1>2. \A g \in Handlers : Aged(req[g], Outdated(req[g], c))
  BY OutdatedAges
<1>3. \A g \in Handlers : Outdated(req[g], c) \in Request /\ Outdated(req[g], c).pc = req[g].pc
  BY <1>2, AgedIsRequest
<1>4. \A g \in Handlers :
        Outdated(req[g], c) = req[g] \/ req[g].pc \in {"placing", "deletingClass"}
  BY DEF Outdated
<1>5. \A g \in Handlers :
        \/ Outdated(req[g], c) = req[g]
        \/ /\ req[g] \in Seating \cup DeletingClass
           /\ Outdated(req[g], c) \in Seating \cup DeletingClass
  BY <1>3, <1>4, Shapes
<1> QED
  BY <1>1, <1>3, <1>5 DEF PlacementMoves

LEMMA ExceptMoves ==
  ASSUME req \in [Handlers -> Request], NEW h \in Handlers,
         req[h] \in {Free} \cup Seating \cup DeletingClass,
         NEW next \in {Free} \cup Seating \cup DeletingClass, req' = [req EXCEPT ![h] = next]
  PROVE  PlacementMoves
<1>1. next \in Request
  BY ShapesAreRequests
<1> QED
  BY <1>1 DEF PlacementMoves

LEMMA MovesAreSound ==
  ASSUME RequestsSound, PlacementMoves
  PROVE  RequestsSound'
<1>1. \A h \in Handlers : Sound(req'[h])
  <2> SUFFICES ASSUME NEW h \in Handlers
               PROVE  Sound(req'[h])
    OBVIOUS
  <2>1. CASE req'[h] = req[h]
    BY <2>1 DEF RequestsSound, Sound
  <2>2. CASE req'[h] \in {Free} \cup Seating \cup DeletingClass
    BY <2>2, PlacementIsSound
  <2> QED
    BY <2>1, <2>2 DEF PlacementMoves
<1> QED
  BY <1>1 DEF RequestsSound, PlacementMoves

\* A step of Placement keeps the types, closes no class and removes no student.
PlacementKept ==
  PlacementTypeOK' /\ PlacementMoves /\ Open' = Open /\ Enrolled \subseteq Enrolled'

LEMMA SeatChangeKeeps ==
  ASSUME CurriculumInv, NEW s \in Students, NEW c \in Open \cup {NoClass},
         seat' = [seat EXCEPT ![s] = c], UNCHANGED <<capacity, served>>
  PROVE  PlacementTypeOK' /\ Open' = Open /\ Enrolled \subseteq Enrolled'
<1>1. Open' = Open /\ c \in Classes \cup {NoClass}
  BY DEF Open
<1>2. \A t \in Students : seat'[t] = IF t = s THEN c ELSE seat[t]
  BY DEF CurriculumInv, PlacementTypeOK
<1>3. Enrolled \subseteq Enrolled'
  BY <1>1, <1>2, PlacementAssumption DEF Enrolled
<1>4. seat' \in [Students -> Classes \cup {NoClass, NoStudent}]
  BY <1>1 DEF CurriculumInv, PlacementTypeOK
<1>5. \A t \in Students : seat'[t] \in Classes => seat'[t] \in Open'
  BY <1>1, <1>2, PlacementAssumption DEF CurriculumInv, PlacementTypeOK
<1> QED
  BY <1>1, <1>3, <1>4, <1>5 DEF CurriculumInv, PlacementTypeOK

LEMMA BeginKeeps ==
  ASSUME CurriculumInv, NEW h \in Handlers, NEW next, Begin(h, next), UNCHANGED <<capacity, seat>>
  PROVE  /\ PlacementTypeOK' /\ Open' = Open /\ Enrolled' = Enrolled
         /\ req[h] = Free /\ req' = [req EXCEPT ![h] = next]
<1>1. served' \in 0..MaxRequests
  BY PlacementAssumption DEF CurriculumInv, PlacementTypeOK, Begin
<1>2. Open' = Open /\ Enrolled' = Enrolled
  BY DEF Open, Enrolled
<1> QED
  BY <1>1, <1>2 DEF CurriculumInv, PlacementTypeOK, Begin

LEMMA UpdateClassKeeps ==
  ASSUME CurriculumInv, NEW c \in Classes, NEW n \in Capacities, UpdateClass(c, n)
  PROVE  PlacementKept
<1> USE DEF UpdateClass
<1>1. PlacementMoves
  BY OutdateMoves DEF CurriculumInv, RequestsSound
<1>2. capacity' \in [Classes -> Capacities \cup {NoClass}]
  BY DEF CurriculumInv, PlacementTypeOK
<1>3. Open' = Open
  BY PlacementAssumption DEF Open, CurriculumInv, PlacementTypeOK
<1>4. Enrolled' = Enrolled
  BY DEF Enrolled
<1> QED
  BY <1>1, <1>2, <1>3, <1>4 DEF CurriculumInv, PlacementTypeOK, PlacementKept

LEMMA EnrolmentKeeps ==
  ASSUME CurriculumInv, NEW s \in Students, NEW c \in Classes,
         CreateStudent(s, c) \/ UpdateStudent(s, c)
  PROVE  PlacementKept
<1>1. /\ c \in Open /\ seat' = [seat EXCEPT ![s] = c]
      /\ OutdateAll(c) /\ UNCHANGED <<capacity, served>>
  BY DEF CreateStudent, UpdateStudent
<1>2. PlacementMoves
  BY <1>1, OutdateMoves DEF CurriculumInv, RequestsSound
<1> QED
  BY <1>1, <1>2, SeatChangeKeeps DEF PlacementKept

LEMMA RemovalKeeps ==
  ASSUME CurriculumInv, NEW s \in Students, RemoveStudentFromClass(s)
  PROVE  PlacementKept
<1>1. PlacementMoves
  BY DEF PlacementMoves, RemoveStudentFromClass, CurriculumInv, RequestsSound
<1> QED
  BY <1>1, SeatChangeKeeps DEF PlacementKept, RemoveStudentFromClass

LEMMA PlacingKeeps ==
  ASSUME CurriculumInv, NEW h \in Handlers, NEW c \in Classes, NEW ss \in SUBSET Students,
         Placing(h, c, ss)
  PROVE  PlacementKept
<1> DEFINE next == [pc |-> "counting", class |-> c, capacity |-> capacity[c],
                    left |-> ss, stale |-> FALSE]
<1>1. capacity[c] \in Capacities
  BY DEF Placing, Open, CurriculumInv, PlacementTypeOK
<1>2. next \in Seating
  BY <1>1 DEF Seating
<1>3. Begin(h, next) /\ UNCHANGED <<capacity, seat>>
  BY DEF Placing
<1> HIDE DEF next
<1>4. /\ PlacementTypeOK' /\ Open' = Open /\ Enrolled' = Enrolled
      /\ req[h] = Free /\ req' = [req EXCEPT ![h] = next]
  BY <1>3, BeginKeeps
<1>5. PlacementMoves
  BY <1>2, <1>4, ExceptMoves DEF CurriculumInv, RequestsSound
<1> QED
  BY <1>4, <1>5 DEF PlacementKept

LEMMA DeleteClassKeeps ==
  ASSUME CurriculumInv, NEW h \in Handlers, NEW c \in Classes, DeleteClass(h, c)
  PROVE  PlacementKept
<1> DEFINE next == [pc |-> "deletingClass", class |-> c, stale |-> FALSE]
<1>1. next \in DeletingClass
  BY DEF DeletingClass
<1>2. Begin(h, next) /\ UNCHANGED <<capacity, seat>>
  BY DEF DeleteClass
<1> HIDE DEF next
<1>3. /\ PlacementTypeOK' /\ Open' = Open /\ Enrolled' = Enrolled
      /\ req[h] = Free /\ req' = [req EXCEPT ![h] = next]
  BY <1>2, BeginKeeps
<1>4. PlacementMoves
  BY <1>1, <1>3, ExceptMoves DEF CurriculumInv, RequestsSound
<1> QED
  BY <1>3, <1>4 DEF PlacementKept

LEMMA CountSeatsKeeps ==
  ASSUME CurriculumInv, NEW h \in Handlers, CountSeats(h)
  PROVE  PlacementKept
<1>1. PICK full \in BOOLEAN :
        req' = [req EXCEPT ![h] = IF full THEN Free
                 ELSE [req[h] EXCEPT !.pc = "placing", !.stale = capacity[req[h].class] # req[h].capacity]]
  BY DEF CountSeats
<1>2. req[h] \in Seating
  BY Shapes DEF CountSeats, CurriculumInv, RequestsSound
<1> DEFINE next == IF full THEN Free
                   ELSE [req[h] EXCEPT !.pc = "placing", !.stale = capacity[req[h].class] # req[h].capacity]
<1>3. next \in {Free} \cup Seating
  BY <1>2 DEF Seating
<1>4. req' = [req EXCEPT ![h] = next]
  BY <1>1
<1> HIDE DEF next
<1>5. PlacementMoves
  BY <1>2, <1>3, <1>4, ExceptMoves DEF CurriculumInv, RequestsSound
<1>6. Open' = Open /\ Enrolled' = Enrolled
  BY DEF CountSeats, Open, Enrolled
<1> QED
  BY <1>5, <1>6 DEF PlacementKept, CountSeats, CurriculumInv, PlacementTypeOK

LEMMA PlaceKeeps ==
  ASSUME CurriculumInv, NEW h \in Handlers, NEW s \in Students, Place(h, s)
  PROVE  PlacementKept
<1> DEFINE c == req[h].class
           next == IF req[h].left \ {s} = {} THEN Free ELSE [req[h] EXCEPT !.left = req[h].left \ {s}]
<1>1. req[h] \in Seating
  BY Shapes DEF Place, CurriculumInv, RequestsSound
<1>2. next \in {Free} \cup Seating
  BY <1>1 DEF Seating
<1>3. PICK moves \in BOOLEAN :
        /\ seat' = IF moves THEN [seat EXCEPT ![s] = c] ELSE seat
        /\ moves => c \in Open
        /\ req' = [g \in Handlers |-> IF g = h THEN next
                                      ELSE IF moves THEN Outdated(req[g], c) ELSE req[g]]
  <2>1. req[h].left \ {s} = {} \/ req[h].left \ {s} # {}
    OBVIOUS
  <2> QED
    BY DEF Place
<1> HIDE DEF next
<1>4. \A g \in Handlers : Aged(req[g], Outdated(req[g], c))
  BY OutdatedAges
<1>5. \A g \in Handlers : Outdated(req[g], c) \in Request /\ Outdated(req[g], c).pc = req[g].pc
  BY <1>4, AgedIsRequest DEF CurriculumInv, RequestsSound
<1>6. \A g \in Handlers :
        \/ Outdated(req[g], c) = req[g]
        \/ /\ req[g] \in Seating \cup DeletingClass
           /\ Outdated(req[g], c) \in Seating \cup DeletingClass
  <2>1. \A g \in Handlers : Outdated(req[g], c) = req[g] \/ req[g].pc \in {"placing", "deletingClass"}
    BY DEF Outdated
  <2> QED
    BY <1>5, <2>1, Shapes DEF CurriculumInv, RequestsSound
<1>7. next \in Request
  BY <1>2, ShapesAreRequests
<1>8. PlacementMoves
  BY <1>1, <1>2, <1>3, <1>5, <1>6, <1>7 DEF PlacementMoves, CurriculumInv, RequestsSound
<1>9. UNCHANGED <<capacity, served>>
  BY DEF Place
<1>10. CASE moves
  BY <1>3, <1>8, <1>9, <1>10, SeatChangeKeeps DEF PlacementKept
<1>11. CASE ~moves
  <2>1. Open' = Open /\ Enrolled' = Enrolled /\ seat' = seat
    BY <1>3, <1>9, <1>11 DEF Open, Enrolled
  <2> QED
    BY <1>8, <1>9, <2>1 DEF PlacementKept, CurriculumInv, PlacementTypeOK
<1> QED
  BY <1>10, <1>11

LEMMA PlacementStepKeeps ==
  ASSUME CurriculumInv, PlacementStep
  PROVE  PlacementKept
<1>1. ASSUME NEW c \in Classes, NEW n \in Capacities, UpdateClass(c, n)
      PROVE  PlacementKept
  BY <1>1, UpdateClassKeeps
<1>2. ASSUME NEW s \in Students, NEW c \in Classes, UpdateStudent(s, c)
      PROVE  PlacementKept
  BY <1>2, EnrolmentKeeps
<1>3. ASSUME NEW s \in Students, RemoveStudentFromClass(s)
      PROVE  PlacementKept
  BY <1>3, RemovalKeeps
<1>4. ASSUME NEW h \in Handlers, NEW c \in Classes, NEW s \in Students,
             AssignStudentToClass(h, c, s) \/ TransferStudentToClass(h, c, s)
      PROVE  PlacementKept
  BY <1>4, PlacingKeeps DEF AssignStudentToClass, TransferStudentToClass
<1>5. ASSUME NEW h \in Handlers, NEW c \in Classes, NEW ss \in SUBSET Students,
             BulkAssignStudentsToClass(h, c, ss)
      PROVE  PlacementKept
  BY <1>5, PlacingKeeps DEF BulkAssignStudentsToClass
<1>6. ASSUME NEW h \in Handlers, NEW c \in Classes, DeleteClass(h, c)
      PROVE  PlacementKept
  BY <1>6, DeleteClassKeeps
<1>7. ASSUME NEW h \in Handlers, CountSeats(h)
      PROVE  PlacementKept
  BY <1>7, CountSeatsKeeps
<1>8. ASSUME NEW h \in Handlers, NEW s \in Students, Place(h, s)
      PROVE  PlacementKept
  BY <1>8, PlaceKeeps
<1> QED
  BY <1>1, <1>2, <1>3, <1>4, <1>5, <1>6, <1>7, <1>8, Zenon DEF PlacementStep

LEMMA OfferFields ==
  ASSUME KeysHold, NEW o \in Offered
  PROVE  /\ o \in Offers /\ offer[o] \in Offer
         /\ offer[o].class \in Classes /\ offer[o].subject \in Subjects
<1>1. o \in Offers /\ offer[o] # NoOffer
  BY DEF Offered
<1>2. offer[o] \in Offer
  BY <1>1 DEF KeysHold
<1> QED
  BY <1>1, <1>2 DEF Offer

\* What the insert into class_subjects leaves.
LEMMA NewOfferKeeps ==
  ASSUME KeysHold, NEW o \in Offers, NEW c \in Classes, NEW m \in Subjects, NEW kind \in Kinds,
         Offerable(c, m), NewOffer(o, c, m, kind),
         UNCHANGED <<capacity, seat, subjects, teaches, staff, registered, lists>>
  PROVE  KeysHold' /\ Offered' = Offered \cup {o} /\ \A p \in Offered : offer'[p] = offer[p]
<1>1. o \notin Offered /\ offer' = [offer EXCEPT ![o] = [class |-> c, subject |-> m, kind |-> kind]]
  BY DEF NewOffer, Fresh
<1>2. [class |-> c, subject |-> m, kind |-> kind] \in Offer
  BY DEF Offer
<1>3. /\ offer' \in [Offers -> Offer \cup {NoOffer}]
      /\ offer'[o] \in Offer /\ offer'[o].class = c /\ offer'[o].subject = m
      /\ \A p \in Offers \ {o} : offer'[p] = offer[p]
  BY <1>1, <1>2 DEF KeysHold
<1>4. Offered' = Offered \cup {o} /\ \A p \in Offered : offer'[p] = offer[p]
  BY <1>1, <1>3, CurriculumAssumption DEF Offered
<1>5. Open' = Open /\ Enrolled' = Enrolled
  BY DEF Open, Enrolled
<1>6. c \in Open /\ m \in subjects
  BY DEF Offerable
<1>7. \A p \in Offered : offer[p].class # c \/ offer[p].subject # m
  BY DEF Offerable, OffersOf
<1>8. \A p \in Offered' : offer'[p].class \in Open' /\ offer'[p].subject \in subjects'
  BY <1>3, <1>4, <1>5, <1>6 DEF KeysHold
<1>9. \A p, q \in Offered' :
        p # q => offer'[p].class # offer'[q].class \/ offer'[p].subject # offer'[q].subject
  BY <1>1, <1>3, <1>4, <1>7 DEF KeysHold
<1>10. teaches \subseteq Offered' \X Teachers /\ registered \subseteq Enrolled \X Offered' \X terms
  BY <1>4 DEF KeysHold
<1> QED
  BY <1>3, <1>4, <1>5, <1>8, <1>9, <1>10 DEF KeysHold

\* What a deletion in class_subjects leaves: the teachers go along by cascade,
\* and there are no registrations.
LEMMA LossKeeps ==
  ASSUME KeysHold, NEW gone \in SUBSET Offered, \A o \in gone : ~IsRegistered(o),
         offer' = [o \in Offers |-> IF o \in gone THEN NoOffer ELSE offer[o]],
         teaches' = {p \in teaches : p[1] \notin gone},
         subjects' \subseteq subjects,
         \A o \in Offered \ gone : offer[o].class \in Open' /\ offer[o].subject \in subjects',
         Enrolled \subseteq Enrolled', UNCHANGED <<staff, registered, ids, copied>>,
         stray' \subseteq Owners
  PROVE  KeysHold' /\ Offered' = Offered \ gone /\ \A o \in Offered \ gone : offer'[o] = offer[o]
<1>1. /\ offer' \in [Offers -> Offer \cup {NoOffer}]
      /\ Offered' = Offered \ gone
      /\ \A o \in Offered \ gone : offer'[o] = offer[o]
  BY CurriculumAssumption DEF KeysHold, Offered
<1>2. \A p \in registered :
        /\ p[1] \in Enrolled /\ p[2] \in Offered \ gone /\ p[3] \in terms
        /\ p = <<p[1], p[2], p[3]>>
  <2>1. \A p \in registered :
          p[1] \in Enrolled /\ p[2] \in Offered /\ p[3] \in terms /\ p = <<p[1], p[2], p[3]>>
    BY DEF KeysHold
  <2>2. \A p \in registered : p[1] \in Students /\ p[3] \in Terms
    BY <2>1 DEF Enrolled, KeysHold
  <2> QED
    BY <2>1, <2>2 DEF IsRegistered
<1>3. registered' \subseteq Enrolled' \X Offered' \X terms'
  BY <1>1, <1>2
<1>4. teaches' \subseteq Offered' \X Teachers
  BY <1>1 DEF KeysHold
<1>5. \A o \in Offered' : offer'[o].class \in Open' /\ offer'[o].subject \in subjects'
  BY <1>1
<1>6. \A o, p \in Offered' :
        o # p => offer'[o].class # offer'[p].class \/ offer'[o].subject # offer'[p].subject
  BY <1>1 DEF KeysHold
<1> QED
  BY <1>1, <1>3, <1>4, <1>5, <1>6 DEF KeysHold

\* The steps that leave the tables of Placement alone.
LEMMA TablesStay ==
  ASSUME CurriculumInv, UNCHANGED <<capacity, seat>>, served' \in {served} \/ served' \in 0..MaxRequests
  PROVE  PlacementTypeOK' /\ Open' = Open /\ Enrolled' = Enrolled
BY DEF CurriculumInv, PlacementTypeOK, Open, Enrolled

\* The step of a handler: a sound next stage and sound keys are enough.
LEMMA StepKeeps ==
  ASSUME CurriculumInv, UNCHANGED <<capacity, seat>>, served' = served, NEW h \in Handlers,
         NEW next, Sound(next), KeysHold',
         req' = [req EXCEPT ![h] = next] \/ \E xs, ms : Touch(h, next, xs, ms)
  PROVE  CurriculumInv'
<1>1. PlacementTypeOK' /\ Enrolled' = Enrolled
  BY TablesStay
<1>2. Advance(req, req', h, next)
  BY ExceptAdvances, TouchAdvances DEF CurriculumInv, RequestsSound
<1> QED
  BY <1>1, <1>2, AdvanceIsSound DEF CurriculumInv

\* The first statement of a request.
LEMMA FirstStepKeeps ==
  ASSUME CurriculumInv, UNCHANGED <<capacity, seat>>, NEW h \in Handlers,
         NEW next, Sound(next), KeysHold',
         Begin(h, next) \/ \E xs, ms : BeginTouching(h, next, xs, ms)
  PROVE  CurriculumInv'
<1>1. served' \in 0..MaxRequests
  BY PlacementAssumption DEF Begin, BeginTouching, CurriculumInv, PlacementTypeOK
<1>2. PlacementTypeOK' /\ Enrolled' = Enrolled
  BY <1>1, TablesStay
<1>3. Advance(req, req', h, next)
  BY ExceptAdvances, TouchAdvances DEF CurriculumInv, RequestsSound, Begin, BeginTouching
<1> QED
  BY <1>2, <1>3, AdvanceIsSound DEF CurriculumInv

LEMMA CurriculumStays ==
  ASSUME CurriculumInv, UNCHANGED curriculum, UNCHANGED <<capacity, seat>>
  PROVE  KeysHold'
BY DEF CurriculumInv, KeysHold, curriculum, Offered, Open, Enrolled

\* A request on its way to the lists of todo.
LEMMA SyncIsSound ==
  ASSUME NEW todo \in SUBSET Owners, NEW t \in Terms \cup {NoTerm}, NEW o \in Offers \cup {NoOffer},
         NEW left \in SUBSET Teachers, left # {} => o \in Offers
  PROVE  Sound(Syncing(todo, t, o, left)) /\ Syncing(todo, t, o, left) \in SyncingLists
<1>1. Syncing(todo, t, o, left) \in SyncingLists
  BY DEF Syncing, SyncingLists
<1>2. /\ Syncing(todo, t, o, left).offer = o /\ Syncing(todo, t, o, left).left = left
      /\ Syncing(todo, t, o, left).pc = "syncing"
  BY DEF Syncing
<1> QED
  BY <1>1, <1>2, ShapesAreRequests DEF Sound

LEMMA PlainSyncIsSound ==
  ASSUME NEW todo \in SUBSET Owners
  PROVE  Sound(Sync(todo)) /\ Sync(todo) \in SyncingLists
BY SyncIsSound DEF Sync

LEMMA AssignSubjectKeeps ==
  ASSUME CurriculumInv, NEW h \in Handlers, NEW o \in Offers, NEW c \in Classes, NEW m \in Subjects,
         NEW kind \in Kinds, AssignSubjectToClass(h, o, c, m, kind)
  PROVE  CurriculumInv'
<1> USE DEF AssignSubjectToClass
<1>1. KeysHold'
  BY NewOfferKeeps DEF CurriculumInv
<1>2. Sound(Sync({c}))
  BY PlainSyncIsSound DEF Owners
<1> QED
  BY <1>1, <1>2, FirstStepKeeps

LEMMA BulkAssignSubjectsKeeps ==
  ASSUME CurriculumInv, NEW h \in Handlers, NEW c \in Classes, NEW items \in SUBSET (Subjects \X Kinds),
         BulkAssignSubjectsToClass(h, c, items)
  PROVE  CurriculumInv'
<1> DEFINE next == [pc |-> "offering", class |-> c, left |-> items]
<1>1. next \in Offering
  BY DEF Offering
<1>2. Begin(h, next) /\ UNCHANGED <<capacity, seat>> /\ UNCHANGED curriculum
  BY DEF BulkAssignSubjectsToClass
<1> HIDE DEF next
<1> QED
  BY <1>1, <1>2, PlacementIsSound, CurriculumStays, FirstStepKeeps

LEMMA OfferSubjectKeeps ==
  ASSUME CurriculumInv, NEW h \in Handlers, NEW o \in Offers, NEW item \in Subjects \X Kinds,
         OfferSubject(h, o, item)
  PROVE  CurriculumInv'
<1> DEFINE c == req[h].class
           left == req[h].left \ {item}
           next == IF left = {} THEN Sync({c}) ELSE [req[h] EXCEPT !.left = left]
<1>1. req[h] \in Offering
  BY Shapes DEF OfferSubject, CurriculumInv, RequestsSound
<1>2. c \in Classes /\ item[1] \in Subjects /\ item[2] \in Kinds
  BY <1>1 DEF Offering
<1>3. Sound(Sync({c}))
  BY <1>2, PlainSyncIsSound DEF Owners
<1>4. [req[h] EXCEPT !.left = left] \in Offering
  BY <1>1 DEF Offering
<1>5. Sound(next)
  BY <1>3, <1>4, PlacementIsSound
<1>6. /\ \/ Offerable(c, item[1]) /\ NewOffer(o, c, item[1], item[2]) /\ Touch(h, next, {c}, {item[1]})
         \/ offer' = offer /\ req' = [req EXCEPT ![h] = next]
      /\ UNCHANGED <<capacity, seat, served, subjects, teaches, staff, registered, lists>>
  BY DEF OfferSubject
<1> HIDE DEF next
<1>7. KeysHold'
  <2>1. CASE Offerable(c, item[1]) /\ NewOffer(o, c, item[1], item[2])
    BY <1>2, <1>6, <2>1, NewOfferKeeps DEF CurriculumInv
  <2>2. CASE offer' = offer
    BY <1>6, <2>2, CurriculumStays DEF curriculum
  <2> QED
    BY <1>6, <2>1, <2>2
<1> QED
  BY <1>5, <1>6, <1>7, StepKeeps

LEMMA LookUpKeeps ==
  ASSUME CurriculumInv, NEW h \in Handlers, NEW o \in Offers, RemoveSubjectFromClass(h, o)
  PROVE  CurriculumInv'
<1> DEFINE next == [pc |-> "withdrawing", offer |-> o, stale |-> FALSE,
                    todo |-> {offer[o].class} \cup TeachersOf(o)]
<1>1. {offer[o].class} \cup TeachersOf(o) \subseteq Owners
  BY OfferFields DEF RemoveSubjectFromClass, CurriculumInv, TeachersOf, Owners
<1>2. next \in Withdrawing
  BY <1>1 DEF Withdrawing
<1>3. Begin(h, next) /\ UNCHANGED <<capacity, seat>> /\ UNCHANGED curriculum
  BY DEF RemoveSubjectFromClass
<1> HIDE DEF next
<1> QED
  BY <1>2, <1>3, PlacementIsSound, CurriculumStays, FirstStepKeeps

LEMMA DeleteSubjectKeeps ==
  ASSUME CurriculumInv, NEW h \in Handlers, NEW m \in Subjects, DeleteSubject(h, m)
  PROVE  CurriculumInv'
<1> DEFINE offers == {o \in Offered : offer[o].subject = m}
           todo == {offer[o].class : o \in offers} \cup UNION {TeachersOf(o) : o \in offers}
           next == [pc |-> "deletingSubject", subject |-> m, stale |-> FALSE, todo |-> todo]
<1>1. todo \subseteq Owners
  BY OfferFields DEF CurriculumInv, TeachersOf, Owners
<1>2. next \in DeletingSubject
  BY <1>1 DEF DeletingSubject
<1>3. Begin(h, next) /\ UNCHANGED <<capacity, seat>> /\ UNCHANGED curriculum
  BY DEF DeleteSubject
<1> HIDE DEF next
<1> QED
  BY <1>2, <1>3, PlacementIsSound, CurriculumStays, FirstStepKeeps

\* The owners of the lists that offers in gone are copied to.
OwnersOf(gone) == {offer[o].class : o \in gone} \cup UNION {TeachersOf(o) : o \in gone}

LEMMA OwnersOfAreOwners ==
  ASSUME KeysHold, NEW gone \in SUBSET Offered
  PROVE  OwnersOf(gone) \subseteq Owners
BY OfferFields DEF OwnersOf, TeachersOf, Owners

\* A refused deletion.
LEMMA RefusalKeeps ==
  ASSUME CurriculumInv, NEW h \in Handlers, req' = [req EXCEPT ![h] = Free],
         UNCHANGED <<capacity, seat, served, subjects, offer, teaches, staff, registered, lists>>
  PROVE  CurriculumInv'
<1>1. KeysHold'
  BY CurriculumStays DEF curriculum
<1> QED
  BY <1>1, PlacementIsSound, StepKeeps

LEMMA WithdrawKeeps ==
  ASSUME CurriculumInv, NEW h \in Handlers, NEW gone \in SUBSET Offered,
         req[h] \in Withdrawing \cup DeletingSubject, Withdraw(h, gone),
         \A o \in Offered \ gone :
           req[h].pc = "deletingSubject" => offer[o].subject # req[h].subject,
         UNCHANGED <<capacity, seat, served, staff, registered, ids, copied>>
  PROVE  CurriculumInv'
<1> DEFINE next == IF req[h].todo = {} THEN Free ELSE Sync(req[h].todo)
<1>1. CASE \E o \in gone : IsRegistered(o)
  BY <1>1, RefusalKeeps DEF Withdraw
<1>2. CASE \A o \in gone : ~IsRegistered(o)
  <2>1. /\ offer' = [o \in Offers |-> IF o \in gone THEN NoOffer ELSE offer[o]]
        /\ teaches' = {p \in teaches : p[1] \notin gone}
        /\ Touch(h, next, OwnersOf(gone), {})
        /\ stray' = IF req[h].stale THEN stray \cup (OwnersOf(gone) \ req[h].todo) ELSE stray
        /\ subjects' = IF req[h].pc = "deletingSubject" THEN subjects \ {req[h].subject} ELSE subjects
    BY <1>2 DEF Withdraw, OwnersOf
  <2>2. req[h].todo \in SUBSET Owners
    BY DEF Withdrawing, DeletingSubject
  <2>3. Sound(next)
    BY <2>2, PlainSyncIsSound, PlacementIsSound
  <2>4. stray' \subseteq Owners
    BY <2>1, OwnersOfAreOwners DEF CurriculumInv, KeysHold
  <2>5. Open' = Open /\ Enrolled' = Enrolled
    BY DEF Open, Enrolled
  <2>6. subjects' \subseteq subjects
        /\ \A o \in Offered \ gone : offer[o].class \in Open' /\ offer[o].subject \in subjects'
    BY <2>1, <2>5 DEF CurriculumInv, KeysHold
  <2>7. KeysHold'
    BY <1>2, <2>1, <2>4, <2>5, <2>6, LossKeeps DEF CurriculumInv
  <2> HIDE DEF next
  <2> QED
    BY <2>1, <2>3, <2>7, StepKeeps
<1> QED
  BY <1>1, <1>2

LEMMA SubjectRemovedKeeps ==
  ASSUME CurriculumInv, NEW h \in Handlers, SubjectRemoved(h)
  PROVE  CurriculumInv'
<1>1. req[h] \in Withdrawing /\ req[h].pc = "withdrawing"
  BY Shapes DEF SubjectRemoved, CurriculumInv, RequestsSound
<1>2. CASE req[h].offer \in Offered
  BY <1>1, <1>2, WithdrawKeeps DEF SubjectRemoved
<1>3. CASE req[h].offer \notin Offered
  BY <1>3, RefusalKeeps DEF SubjectRemoved
<1> QED
  BY <1>2, <1>3

LEMMA SubjectDeletedKeeps ==
  ASSUME CurriculumInv, NEW h \in Handlers, SubjectDeleted(h)
  PROVE  CurriculumInv'
<1>1. req[h] \in DeletingSubject
  BY Shapes DEF SubjectDeleted, CurriculumInv, RequestsSound
<1> DEFINE gone == {o \in Offered : offer[o].subject = req[h].subject}
<1>2. CASE req[h].subject \in subjects
  <2>1. gone \in SUBSET Offered /\ \A o \in Offered \ gone : offer[o].subject # req[h].subject
    OBVIOUS
  <2>2. Withdraw(h, gone)
    BY <1>2 DEF SubjectDeleted
  <2> HIDE DEF gone
  <2> QED
    BY <1>1, <2>1, <2>2, WithdrawKeeps DEF SubjectDeleted
<1>3. CASE req[h].subject \notin subjects
  BY <1>3, RefusalKeeps DEF SubjectDeleted
<1> QED
  BY <1>2, <1>3

LEMMA TeachersChange ==
  ASSUME CurriculumInv, UNCHANGED <<capacity, seat, subjects, offer, staff, registered, lists>>,
         teaches' \subseteq Offered \X Teachers
  PROVE  KeysHold'
BY DEF CurriculumInv, KeysHold, Offered, Open, Enrolled

LEMMA TeacherKeeps ==
  ASSUME CurriculumInv, NEW h \in Handlers, NEW o \in Offers, NEW t \in Teachers,
         AssignTeacherToClassSubject(h, o, t) \/ RemoveTeacherFromClassSubject(h, o, t)
  PROVE  CurriculumInv'
<1>1. /\ UNCHANGED <<capacity, seat, subjects, offer, staff, registered, lists>>
      /\ \E xs, ms : BeginTouching(h, Sync({t}), xs, ms)
      /\ teaches' \subseteq Offered \X Teachers
  BY DEF AssignTeacherToClassSubject, RemoveTeacherFromClassSubject, CurriculumInv, KeysHold
<1>2. KeysHold'
  BY <1>1, TeachersChange
<1>3. Sound(Sync({t}))
  BY PlainSyncIsSound DEF Owners
<1> QED
  BY <1>1, <1>2, <1>3, FirstStepKeeps

LEMMA BulkAppointKeeps ==
  ASSUME CurriculumInv, NEW h \in Handlers, NEW o \in Offers, NEW ts \in SUBSET Teachers,
         BulkAssignTeachersToClassSubjects(h, o, ts)
  PROVE  CurriculumInv'
<1> DEFINE next == [pc |-> "appointing", offer |-> o, left |-> ts]
<1>1. next \in Appointing
  BY DEF Appointing
<1>2. Begin(h, next) /\ UNCHANGED <<capacity, seat>> /\ UNCHANGED curriculum
  BY DEF BulkAssignTeachersToClassSubjects
<1> HIDE DEF next
<1> QED
  BY <1>1, <1>2, PlacementIsSound, CurriculumStays, FirstStepKeeps

LEMMA AppointKeeps ==
  ASSUME CurriculumInv, NEW h \in Handlers, NEW t \in Teachers, AppointTeacher(h, t)
  PROVE  CurriculumInv'
<1> DEFINE o == req[h].offer
           left == req[h].left \ {t}
           next == IF left = {} THEN Free ELSE [req[h] EXCEPT !.left = left]
<1>1. req[h] \in Appointing
  BY Shapes DEF AppointTeacher, CurriculumInv, RequestsSound
<1>2. o \in Offers /\ left \in SUBSET Teachers /\ {t} \in SUBSET Owners
  BY <1>1 DEF Appointing, Owners
<1>3. Sound(Syncing({t}, NoTerm, o, left))
  BY <1>2, SyncIsSound
<1>4. [req[h] EXCEPT !.left = left] \in Appointing
  BY <1>1 DEF Appointing
<1>5. Sound(next)
  BY <1>4, PlacementIsSound
<1>6. UNCHANGED <<capacity, seat, served, subjects, offer, staff, registered, lists>>
  BY DEF AppointTeacher
<1>7. CASE o \in Offered /\ <<o, t>> \notin teaches
  <2>1. /\ teaches' = teaches \cup {<<o, t>>}
        /\ \E xs, ms : Touch(h, Syncing({t}, NoTerm, o, left), xs, ms)
    BY <1>7 DEF AppointTeacher
  <2>2. teaches' \subseteq Offered \X Teachers
    BY <1>7, <2>1 DEF CurriculumInv, KeysHold
  <2> QED
    BY <1>3, <1>6, <2>1, <2>2, TeachersChange, StepKeeps
<1>8. CASE ~(o \in Offered /\ <<o, t>> \notin teaches)
  <2>1. teaches' = teaches /\ req' = [req EXCEPT ![h] = next]
    BY <1>1, <1>8 DEF AppointTeacher, CurriculumInv, RequestsSound
  <2>2. KeysHold'
    BY <1>6, <2>1, CurriculumStays DEF curriculum
  <2> HIDE DEF next
  <2> QED
    BY <1>5, <1>6, <2>1, <2>2, StepKeeps
<1> QED
  BY <1>7, <1>8

LEMMA ChoiceKeeps ==
  ASSUME CurriculumInv, NEW h \in Handlers, NEW s \in Students, NEW t \in Terms,
         \/ RegisterSubjectsForStudent(h, s, t)
         \/ \E chosen \in SUBSET Offers : UpdateSubjectRegistration(h, s, t, chosen)
  PROVE  CurriculumInv'
<1>1. PICK again \in BOOLEAN, chosen \in SUBSET Offers :
        /\ Begin(h, [pc |-> "registering", student |-> s, term |-> t, again |-> again,
                     offers |-> chosen])
        /\ UNCHANGED <<capacity, seat>> /\ UNCHANGED curriculum
  <2>1. {o \in OffersOf(seat[s]) : offer[o].kind # "ELECTIVE"} \in SUBSET Offers
    BY DEF OffersOf, Offered
  <2>2. CASE RegisterSubjectsForStudent(h, s, t)
    BY <2>1, <2>2 DEF RegisterSubjectsForStudent
  <2>3. CASE \E chosen \in SUBSET Offers : UpdateSubjectRegistration(h, s, t, chosen)
    BY <2>3 DEF UpdateSubjectRegistration
  <2> QED
    BY <2>2, <2>3
<1> DEFINE next == [pc |-> "registering", student |-> s, term |-> t, again |-> again,
                    offers |-> chosen]
<1>2. next \in Registering
  BY DEF Registering
<1>4. Begin(h, next)
  BY <1>1
<1> HIDE DEF next
<1>5. Sound(next)
  BY <1>2, PlacementIsSound
<1> QED
  BY <1>1, <1>4, <1>5, CurriculumStays, FirstStepKeeps

LEMMA RegisterKeeps ==
  ASSUME CurriculumInv, NEW h \in Handlers, Register(h)
  PROVE  CurriculumInv'
<1> DEFINE s == req[h].student
           t == req[h].term
<1>1. req[h] \in Registering
  BY Shapes DEF Register, CurriculumInv, RequestsSound
<1>2. s \in Students /\ t \in Terms /\ {s} \in SUBSET Owners
  BY <1>1 DEF Registering, Owners
<1>3. CASE ~Refused(req[h])
  <2>1. /\ registered' = (registered \ Dropped(h)) \cup ({s} \X req[h].offers \X {t})
        /\ Touch(h, Syncing({s}, t, NoOffer, {}), {s}, {})
        /\ UNCHANGED <<capacity, seat, served, subjects, offer, teaches, staff, lists>>
    BY <1>3 DEF Register, Enter
  <2>2. req[h].offers = {} \/ (req[h].offers \subseteq Offered /\ s \in Enrolled /\ t \in terms)
    BY <1>3 DEF Refused
  <2>3. {s} \X req[h].offers \X {t} \subseteq Enrolled \X Offered \X terms
    BY <2>2
  <2>4. registered' \subseteq Enrolled \X Offered \X terms
    BY <2>1, <2>3 DEF CurriculumInv, KeysHold
  <2>5. KeysHold'
    BY <2>1, <2>4 DEF CurriculumInv, KeysHold, Offered, Open, Enrolled
  <2>6. Sound(Syncing({s}, t, NoOffer, {}))
    BY <1>2, SyncIsSound
  <2> QED
    BY <2>1, <2>5, <2>6, StepKeeps
<1>4. CASE Refused(req[h])
  BY <1>4, RefusalKeeps DEF Register
<1> QED
  BY <1>3, <1>4

LEMMA NextSyncIsSound ==
  ASSUME NEW v \in SyncingLists, v.left # {} => v.offer \in Offers
  PROVE  Sound(NextSync(v))
<1>1. CASE v.todo # {}
  <2> DEFINE next == [v EXCEPT !.at = Nobody, !.seen = {}, !.stale = FALSE]
  <2>1. next \in SyncingLists /\ next.offer = v.offer /\ next.left = v.left /\ next.pc = "syncing"
    BY DEF SyncingLists
  <2>2. NextSync(v) = next
    BY <1>1 DEF NextSync
  <2> HIDE DEF next
  <2> QED
    BY <2>1, <2>2, ShapesAreRequests DEF Sound
<1>2. CASE v.todo = {} /\ v.left # {}
  <2>1. [pc |-> "appointing", offer |-> v.offer, left |-> v.left] \in Appointing
    BY <1>2 DEF SyncingLists, Appointing
  <2> QED
    BY <1>2, <2>1, PlacementIsSound DEF NextSync
<1>3. CASE v.todo = {} /\ v.left = {}
  BY <1>3, PlacementIsSound DEF NextSync
<1> QED
  BY <1>1, <1>2, <1>3

LEMMA SyncReadKeeps ==
  ASSUME CurriculumInv, NEW h \in Handlers, NEW x \in Owners, SyncRead(h, x)
  PROVE  CurriculumInv'
<1> DEFINE rest == [req[h] EXCEPT !.todo = @ \ {x}]
           read == [rest EXCEPT !.at = x, !.seen = Source(x, rest.term), !.stale = FALSE]
           next == IF x \in Teachers \ hired THEN NextSync(rest) ELSE read
<1>1. req[h] \in SyncingLists /\ (req[h].left # {} => req[h].offer \in Offers)
  BY Shapes DEF SyncRead, CurriculumInv, RequestsSound, Sound
<1>2. rest \in SyncingLists /\ rest.offer = req[h].offer /\ rest.left = req[h].left
  BY <1>1 DEF SyncingLists
<1>3. \A t : Source(x, t) \in SUBSET Subjects
  BY OfferFields DEF CurriculumInv, Source, Rows
<1>4. req' = [req EXCEPT ![h] = next]
  BY <1>1 DEF SyncRead, CurriculumInv, RequestsSound
<1>5. Sound(NextSync(rest))
  <2> HIDE DEF rest
  <2> QED
    BY <1>1, <1>2, NextSyncIsSound
<1>6. Sound(read)
  <2> HIDE DEF rest
  <2>1. PICK seen \in SUBSET Subjects : read = [rest EXCEPT !.at = x, !.seen = seen, !.stale = FALSE]
    BY <1>3
  <2>2. read \in SyncingLists /\ read.offer = rest.offer /\ read.left = rest.left
    BY <1>2, <2>1 DEF SyncingLists
  <2> HIDE DEF read
  <2> QED
    BY <1>1, <1>2, <2>2, ShapesAreRequests DEF Sound
<1> HIDE DEF rest, read
<1>7. Sound(next)
  BY <1>5, <1>6
<1>8. KeysHold'
  BY CurriculumStays DEF SyncRead
<1> HIDE DEF next
<1> QED
  BY <1>4, <1>7, <1>8, StepKeeps DEF SyncRead

LEMMA ListsChange ==
  ASSUME CurriculumInv, UNCHANGED <<capacity, seat, subjects, offer, teaches, staff, registered>>,
         ids' \in [Owners -> SUBSET Subjects], stray' \subseteq Owners,
         copied' \in [Owners -> Terms \cup {NoTerm}]
  PROVE  KeysHold'
BY DEF CurriculumInv, KeysHold, Offered, Open, Enrolled

LEMMA SyncWriteKeeps ==
  ASSUME CurriculumInv, NEW h \in Handlers, SyncWrite(h)
  PROVE  CurriculumInv'
<1> DEFINE x == req[h].at
           failed == [req[h] EXCEPT !.todo = {}]
<1>1. /\ req[h] \in SyncingLists /\ (req[h].left # {} => req[h].offer \in Offers)
      /\ x # Nobody
  BY Shapes DEF SyncWrite, CurriculumInv, RequestsSound, Sound
<1>2. /\ x \in Owners /\ req[h].todo \subseteq Owners /\ req[h].seen \in SUBSET Subjects
      /\ req[h].term \in Terms \cup {NoTerm}
  BY <1>1 DEF SyncingLists
<1>3. UNCHANGED <<capacity, seat, served, subjects, offer, teaches, staff, registered>>
  BY DEF SyncWrite
<1>4. CASE Gone(x)
  <2>1. /\ req' = [req EXCEPT ![h] = NextSync(failed)] /\ stray' = stray \cup req[h].todo
        /\ UNCHANGED <<ids, copied>>
    BY <1>4 DEF SyncWrite, CurriculumInv, RequestsSound
  <2>2. KeysHold'
    BY <1>2, <1>3, <2>1, ListsChange DEF CurriculumInv, KeysHold
  <2>3. failed \in SyncingLists /\ failed.offer = req[h].offer /\ failed.left = req[h].left
    BY <1>1 DEF SyncingLists
  <2> HIDE DEF failed
  <2>4. Sound(NextSync(failed))
    BY <1>1, <2>3, NextSyncIsSound
  <2> QED
    BY <1>3, <2>1, <2>2, <2>4, StepKeeps
<1>5. CASE ~Gone(x)
  <2>1. /\ req' = [req EXCEPT ![h] = NextSync(req[h])]
        /\ stray' = IF req[h].stale THEN stray \cup {x} ELSE stray \ {x}
        /\ ids' = [ids EXCEPT ![x] = req[h].seen]
        /\ copied' = [copied EXCEPT ![x] = req[h].term]
    BY <1>5 DEF SyncWrite, CurriculumInv, RequestsSound
  <2>2. /\ ids' \in [Owners -> SUBSET Subjects] /\ stray' \subseteq Owners
        /\ copied' \in [Owners -> Terms \cup {NoTerm}]
    BY <1>2, <2>1 DEF CurriculumInv, KeysHold
  <2>3. KeysHold'
    BY <1>3, <2>2, ListsChange
  <2> QED
    BY <1>1, <1>3, <2>1, <2>3, NextSyncIsSound, StepKeeps
<1> QED
  BY <1>4, <1>5

LEMMA NewListKeeps ==
  ASSUME KeysHold, NEW x \in Owners, NEW list \in SUBSET Subjects, NewList(x, list)
  PROVE  /\ ids' \in [Owners -> SUBSET Subjects] /\ stray' \subseteq Owners
         /\ copied' \in [Owners -> Terms \cup {NoTerm}]
BY DEF KeysHold, NewList

LEMMA ClassCreatedKeeps ==
  ASSUME CurriculumInv, NEW c \in Classes, NEW n \in Capacities, ClassCreated(c, n)
  PROVE  CurriculumInv'
<1>1. /\ c \notin Open /\ capacity' = [capacity EXCEPT ![c] = n] /\ NewList(c, {})
      /\ UNCHANGED <<seat, req, served, subjects, offer, teaches, staff, registered>>
  BY DEF ClassCreated, CreateClass
<1>2. capacity' \in [Classes -> Capacities \cup {NoClass}] /\ Open \subseteq Open'
  BY <1>1, PlacementAssumption DEF CurriculumInv, PlacementTypeOK, Open
<1>3. Enrolled' = Enrolled
  BY <1>1 DEF Enrolled
<1>4. PlacementTypeOK'
  BY <1>1, <1>2 DEF CurriculumInv, PlacementTypeOK
<1>5. RequestsSound'
  BY <1>1, <1>3 DEF CurriculumInv, RequestsSound
<1>6. KeysHold'
  BY <1>1, <1>2, <1>3, NewListKeeps, KeysGrow DEF CurriculumInv, Owners
<1> QED
  BY <1>4, <1>5, <1>6 DEF CurriculumInv

LEMMA StudentCreatedKeeps ==
  ASSUME CurriculumInv, NEW s \in Students, NEW c \in Classes, StudentCreated(s, c)
  PROVE  CurriculumInv'
<1>1. PlacementKept
  BY EnrolmentKeeps DEF StudentCreated
<1>2. RequestsSound'
  BY <1>1, MovesAreSound DEF PlacementKept, CurriculumInv
<1>3. KeysHold'
  BY <1>1, NewListKeeps, KeysGrow DEF StudentCreated, PlacementKept, CurriculumInv, Owners
<1> QED
  BY <1>1, <1>2, <1>3 DEF PlacementKept, CurriculumInv

\* The cascade takes the registrations of the student along.
LEMMA StudentRemovedKeeps ==
  ASSUME CurriculumInv, NEW s \in Students, StudentRemoved(s)
  PROVE  CurriculumInv'
<1>1. /\ seat' = [seat EXCEPT ![s] = NoStudent] /\ registered' = {p \in registered : p[1] # s}
      /\ UNCHANGED <<capacity, req, served, subjects, offer, teaches, staff, lists>>
  BY DEF StudentRemoved, RemoveStudent
<1>2. \A t \in Students : seat'[t] = IF t = s THEN NoStudent ELSE seat[t]
  BY <1>1 DEF CurriculumInv, PlacementTypeOK
<1>3. Open' = Open /\ Offered' = Offered
  BY <1>1 DEF Open, Offered
<1>4. Enrolled' = Enrolled \ {s}
  BY <1>2 DEF Enrolled
<1>5. PlacementTypeOK'
  <2>1. seat' \in [Students -> Classes \cup {NoClass, NoStudent}]
    BY <1>1 DEF CurriculumInv, PlacementTypeOK
  <2>2. \A t \in Students : seat'[t] \in Classes => seat'[t] \in Open'
    BY <1>2, <1>3, PlacementAssumption DEF CurriculumInv, PlacementTypeOK
  <2> QED
    BY <1>1, <2>1, <2>2 DEF CurriculumInv, PlacementTypeOK
<1>6. RequestsSound'
  BY <1>1 DEF CurriculumInv, RequestsSound
<1>7. registered' \subseteq Enrolled' \X Offered' \X terms'
  <2>1. \A p \in registered' :
          p[1] \in Enrolled' /\ p[2] \in Offered' /\ p[3] \in terms' /\ p = <<p[1], p[2], p[3]>>
    BY <1>1, <1>3, <1>4 DEF CurriculumInv, KeysHold
  <2> QED
    BY <2>1
<1>8. KeysHold'
  BY <1>1, <1>3, <1>7 DEF CurriculumInv, KeysHold
<1> QED
  BY <1>5, <1>6, <1>8 DEF CurriculumInv

LEMMA TeacherCreatedKeeps ==
  ASSUME CurriculumInv, NEW t \in Teachers, NEW list \in SUBSET Subjects, TeacherCreated(t, list)
  PROVE  CurriculumInv'
<1>1. /\ NewList(t, list) /\ hired' = hired \cup {t}
      /\ UNCHANGED <<capacity, seat, req, served, subjects, offer, teaches, terms, registered>>
  BY DEF TeacherCreated
<1>2. Open' = Open /\ Offered' = Offered /\ Enrolled' = Enrolled
  BY <1>1 DEF Open, Offered, Enrolled
<1>3. KeysHold'
  BY <1>1, <1>2, NewListKeeps DEF CurriculumInv, KeysHold, Owners
<1> QED
  BY <1>1, <1>2, <1>3 DEF CurriculumInv, PlacementTypeOK, RequestsSound

\* Teachers and terms that come, and teachers that go, change no other row.
LEMMA StaffKeeps ==
  ASSUME CurriculumInv, hired' \subseteq Teachers, terms' \subseteq Terms, terms \subseteq terms',
         UNCHANGED <<capacity, seat, req, served, subjects, offer, teaches, registered, lists>>
  PROVE  CurriculumInv'
<1>1. Open' = Open /\ Offered' = Offered /\ Enrolled' = Enrolled
  BY DEF Open, Offered, Enrolled
<1>2. KeysHold'
  BY <1>1 DEF CurriculumInv, KeysHold
<1> QED
  BY <1>1, <1>2 DEF CurriculumInv, PlacementTypeOK, RequestsSound

LEMMA TermRemovedKeeps ==
  ASSUME CurriculumInv, NEW t \in Terms, TermRemoved(t)
  PROVE  CurriculumInv'
<1> DEFINE owners == {p[1] : p \in {q \in registered : q[3] = t}}
<1>1. /\ terms' = terms \ {t} /\ registered' = {p \in registered : p[3] # t}
      /\ stray' = stray \cup {s \in owners : copied[s] = t}
      /\ req' = [g \in Handlers |-> Touched(req[g], owners, {})]
      /\ UNCHANGED <<capacity, seat, served, subjects, offer, teaches, hired, ids, copied>>
  BY DEF TermRemoved
<1>2. owners \subseteq Owners
  BY DEF CurriculumInv, KeysHold, Enrolled, Owners
<1> HIDE DEF owners
<1>3. Open' = Open /\ Offered' = Offered /\ Enrolled' = Enrolled
  BY <1>1 DEF Open, Offered, Enrolled
<1>4. RequestsSound'
  <2>1. \A g \in Handlers : req'[g] = Touched(req[g], owners, {})
    BY <1>1
  <2>2. req' = [g \in Handlers |-> req'[g]]
    BY <1>1
  <2> QED
    BY <2>1, <2>2, TouchedAges, AllAgedAreSound DEF CurriculumInv
<1>5. registered' \subseteq Enrolled' \X Offered' \X terms'
  <2>1. \A p \in registered' :
          p[1] \in Enrolled' /\ p[2] \in Offered' /\ p[3] \in terms' /\ p = <<p[1], p[2], p[3]>>
    BY <1>1, <1>3 DEF CurriculumInv, KeysHold
  <2> QED
    BY <2>1
<1>6. KeysHold'
  BY <1>1, <1>2, <1>3, <1>5 DEF CurriculumInv, KeysHold
<1> QED
  BY <1>1, <1>3, <1>4, <1>6 DEF CurriculumInv, PlacementTypeOK

LEMMA CreateSubjectKeeps ==
  ASSUME CurriculumInv, NEW m \in Subjects, CreateSubject(m)
  PROVE  CurriculumInv'
<1>1. KeysHold'
  BY DEF CreateSubject, CurriculumInv, KeysHold, Offered, Open, Enrolled
<1>2. RequestsSound'
  BY DEF CreateSubject, CurriculumInv, RequestsSound, Enrolled
<1>3. PlacementTypeOK'
  BY DEF CreateSubject, CurriculumInv, PlacementTypeOK, Open
<1> QED
  BY <1>1, <1>2, <1>3 DEF CurriculumInv

\* The foreign keys of profiles and offers, when a class goes.
LEMMA ClassRemovedKeeps ==
  ASSUME CurriculumInv, NEW h \in Handlers, ClassRemoved(h)
  PROVE  CurriculumInv'
<1> DEFINE c == req[h].class
           gone == OffersOf(c)
           ts == UNION {TeachersOf(o) : o \in gone}
<1>1. req[h] \in DeletingClass /\ c \in Classes
  BY Shapes DEF ClassRemoved, CurriculumInv, RequestsSound, DeletingClass
<1>2. CASE \E o \in gone : IsRegistered(o)
  BY <1>2, RefusalKeeps DEF ClassRemoved, Die, curriculum
<1>3. CASE \A o \in gone : ~IsRegistered(o)
  <2>1. /\ capacity' = [capacity EXCEPT ![c] = NoClass]
        /\ seat' = [s \in Students |-> IF seat[s] = c THEN NoClass ELSE seat[s]]
        /\ offer' = [o \in Offers |-> IF o \in gone THEN NoOffer ELSE offer[o]]
        /\ teaches' = {p \in teaches : p[1] \notin gone}
        /\ stray' = stray \cup ts
        /\ Touch(h, Free, ts, {})
        /\ UNCHANGED <<served, subjects, staff, registered, ids, copied>>
    BY <1>3 DEF ClassRemoved
  <2>2. Open' = Open \ {c}
    BY <1>1, <2>1, PlacementAssumption DEF Open, CurriculumInv, PlacementTypeOK
  <2>3. Enrolled' = Enrolled
    BY <1>1, <2>1, PlacementAssumption DEF Enrolled, CurriculumInv, PlacementTypeOK
  <2>4. PlacementTypeOK'
    <3>1. \A s \in Students : seat'[s] \in Classes => seat'[s] \in Open'
      BY <1>1, <2>1, <2>2, PlacementAssumption DEF CurriculumInv, PlacementTypeOK
    <3>2. capacity' \in [Classes -> Capacities \cup {NoClass}]
      BY <2>1 DEF CurriculumInv, PlacementTypeOK
    <3>3. seat' \in [Students -> Classes \cup {NoClass, NoStudent}]
      BY <2>1 DEF CurriculumInv, PlacementTypeOK
    <3> QED
      BY <2>1, <3>1, <3>2, <3>3 DEF CurriculumInv, PlacementTypeOK
  <2>5. stray' \subseteq Owners
    BY <2>1 DEF CurriculumInv, KeysHold, TeachersOf, Owners
  <2>6. gone \in SUBSET Offered /\ \A o \in Offered \ gone : offer[o].class # c
    BY DEF OffersOf
  <2>7. \A o \in Offered \ gone : offer[o].class \in Open' /\ offer[o].subject \in subjects'
    BY <2>1, <2>2, <2>6 DEF CurriculumInv, KeysHold
  <2>8. KeysHold'
    <3> HIDE DEF gone, ts
    <3> QED
      BY <1>3, <2>1, <2>3, <2>5, <2>6, <2>7, LossKeeps DEF CurriculumInv
  <2>9. Advance(req, req', h, Free)
    BY <2>1, TouchAdvances
  <2>10. RequestsSound'
    BY <2>3, <2>9, PlacementIsSound, AdvanceIsSound DEF CurriculumInv
  <2> QED
    BY <2>4, <2>8, <2>10 DEF CurriculumInv
<1> QED
  BY <1>2, <1>3

LEMMA AbortKeeps ==
  ASSUME CurriculumInv, NEW h \in Handlers, Abort(h)
  PROVE  CurriculumInv'
<1>1. req[h] \in Request
  BY DEF CurriculumInv, RequestsSound
<1>2. Due(req[h]) \subseteq Owners
  BY <1>1, Shapes DEF Due, SyncingLists, Offering, Owners
<1>3. KeysHold'
  BY <1>2, ListsChange DEF Abort, Die, CurriculumInv, KeysHold
<1> QED
  BY <1>3, PlacementIsSound, StepKeeps DEF Abort, Die

\* What a handler does, one action after the other.
LEMMA CurriculumStepKeeps ==
  ASSUME CurriculumInv, NEW h \in Handlers, CurriculumStep(h)
  PROVE  CurriculumInv'
<1>1. ASSUME NEW o \in Offers, NEW c \in Classes, NEW m \in Subjects, NEW kind \in Kinds,
             AssignSubjectToClass(h, o, c, m, kind)
      PROVE  CurriculumInv'
  BY <1>1, AssignSubjectKeeps
<1>2. ASSUME NEW c \in Classes, NEW items \in SUBSET (Subjects \X Kinds),
             BulkAssignSubjectsToClass(h, c, items)
      PROVE  CurriculumInv'
  BY <1>2, BulkAssignSubjectsKeeps
<1>3. ASSUME NEW o \in Offers, NEW item \in Subjects \X Kinds, OfferSubject(h, o, item)
      PROVE  CurriculumInv'
  BY <1>3, OfferSubjectKeeps
<1>4. ASSUME NEW o \in Offers, RemoveSubjectFromClass(h, o)
      PROVE  CurriculumInv'
  BY <1>4, LookUpKeeps
<1>5. ASSUME NEW o \in Offers, NEW t \in Teachers,
             AssignTeacherToClassSubject(h, o, t) \/ RemoveTeacherFromClassSubject(h, o, t)
      PROVE  CurriculumInv'
  BY <1>5, TeacherKeeps
<1>6. ASSUME NEW o \in Offers, NEW ts \in SUBSET Teachers, BulkAssignTeachersToClassSubjects(h, o, ts)
      PROVE  CurriculumInv'
  BY <1>6, BulkAppointKeeps
<1>7. ASSUME NEW m \in Subjects, DeleteSubject(h, m)
      PROVE  CurriculumInv'
  BY <1>7, DeleteSubjectKeeps
<1>8. ASSUME NEW t \in Teachers, AppointTeacher(h, t)
      PROVE  CurriculumInv'
  BY <1>8, AppointKeeps
<1>9. ASSUME NEW s \in Students, NEW t \in Terms,
             \/ RegisterSubjectsForStudent(h, s, t)
             \/ \E chosen \in SUBSET Offers : UpdateSubjectRegistration(h, s, t, chosen)
      PROVE  CurriculumInv'
  BY <1>9, ChoiceKeeps
<1>10. ASSUME NEW x \in Owners, SyncRead(h, x)
       PROVE  CurriculumInv'
  BY <1>10, SyncReadKeeps
<1>11. ASSUME \/ SubjectRemoved(h) \/ SubjectDeleted(h) \/ Register(h) \/ SyncWrite(h)
              \/ ClassRemoved(h) \/ Abort(h)
       PROVE  CurriculumInv'
  BY <1>11, SubjectRemovedKeeps, SubjectDeletedKeeps, RegisterKeeps, SyncWriteKeeps,
     ClassRemovedKeeps, AbortKeeps
<1> QED
  BY <1>1, <1>2, <1>3, <1>4, <1>5, <1>6, <1>7, <1>8, <1>9, <1>10, <1>11, Zenon DEF CurriculumStep

LEMMA RosterStepKeeps ==
  ASSUME CurriculumInv, RosterStep
  PROVE  CurriculumInv'
<1>1. ASSUME NEW t \in Teachers, TeacherRemoved(t)
      PROVE  CurriculumInv'
  BY <1>1, StaffKeeps DEF TeacherRemoved, CurriculumInv, KeysHold
<1>2. ASSUME NEW t \in Terms, TermCreated(t)
      PROVE  CurriculumInv'
  BY <1>2, StaffKeeps DEF TermCreated, CurriculumInv, KeysHold
<1> QED
  BY <1>1, <1>2, ClassCreatedKeeps, StudentCreatedKeeps, StudentRemovedKeeps, TeacherCreatedKeeps,
     TermRemovedKeeps, CreateSubjectKeeps, Zenon DEF RosterStep

LEMMA NextKeeps ==
  ASSUME CurriculumInv, [CurriculumNext]_vars
  PROVE  CurriculumInv'
<1>1. CASE PlacementStep
  <2>1. PlacementKept
    BY <1>1, PlacementStepKeeps
  <2>2. RequestsSound'
    BY <2>1, MovesAreSound DEF PlacementKept, CurriculumInv
  <2>3. UNCHANGED curriculum
    BY <1>1 DEF PlacementStep
  <2>4. KeysHold'
    BY <2>1, <2>3, KeysGrow DEF PlacementKept, CurriculumInv, curriculum, KeysHold
  <2> QED
    BY <2>1, <2>2, <2>4 DEF PlacementKept, CurriculumInv
<1>2. CASE UNCHANGED vars
  BY <1>2 DEF vars, CurriculumInv, PlacementTypeOK, RequestsSound, KeysHold, Open, Enrolled, Offered
<1> QED
  BY <1>1, <1>2, RosterStepKeeps, CurriculumStepKeeps DEF CurriculumNext

LEMMA CurriculumInvariant == CurriculumSpec => []CurriculumInv
<1> QED
  BY InitHolds, NextKeeps, PTL DEF CurriculumSpec

\* The type invariant: a student sits in a class that is in the table, an offer
\* names a class and a subject that are, and no class offers a subject twice,
\* whatever is deleted while others write (the foreign keys and the unique key
\* of class_subjects).
THEOREM CurriculumTypeCorrect == CurriculumSpec => []CurriculumTypeOK
<1>1. CurriculumInv => CurriculumTypeOK
  BY DEF CurriculumInv, RequestsSound, KeysHold, Request, CurriculumTypeOK
<1> QED
  BY <1>1, CurriculumInvariant, PTL

--------------------------------------------------------------------------------
(***************************************************************************)
(* Registrations.                                                          *)
(***************************************************************************)

\* What registration p goes with.
GoesRightly(p) ==
  \/ offer[p[2]].kind = "ELECTIVE" /\ ChoosesAgain(p)
  \/ p[1] \in Enrolled \ Enrolled'
  \/ p[3] \in terms \ terms'

LEMMA RosterDrops ==
  ASSUME CurriculumInv, RosterStep, NEW p \in registered \ registered'
  PROVE  GoesRightly(p)
<1>1. p[1] \in Enrolled /\ p[1] \in Students /\ p[3] \in terms /\ registered' # registered
  BY DEF CurriculumInv, KeysHold, Enrolled
<1>2. ASSUME NEW s \in Students, StudentRemoved(s)
      PROVE  GoesRightly(p)
  <2>1. p[1] = s /\ seat' = [seat EXCEPT ![s] = NoStudent]
    BY <1>2 DEF StudentRemoved, RemoveStudent
  <2>2. seat'[s] = NoStudent
    BY <1>2, <2>1 DEF CurriculumInv, PlacementTypeOK
  <2> QED
    BY <1>1, <2>1, <2>2 DEF GoesRightly, Enrolled
<1>3. ASSUME NEW t \in Terms, TermRemoved(t)
      PROVE  GoesRightly(p)
  BY <1>1, <1>3 DEF TermRemoved, GoesRightly
<1>4. /\ \A c \in Classes, n \in Capacities : ~ClassCreated(c, n)
      /\ \A s \in Students, c \in Classes : ~StudentCreated(s, c)
      /\ \A t \in Teachers, list \in SUBSET Subjects : ~TeacherCreated(t, list)
      /\ \A t \in Teachers : ~TeacherRemoved(t)
      /\ \A t \in Terms : ~TermCreated(t)
      /\ \A m \in Subjects : ~CreateSubject(m)
  BY <1>1 DEF ClassCreated, StudentCreated, TeacherCreated, TeacherRemoved, TermCreated, CreateSubject
<1> QED
  BY <1>2, <1>3, <1>4, Zenon DEF RosterStep

\* A request does away with the electives of the student who chooses again.
LEMMA RegistrationsGoRightly ==
  ASSUME CurriculumInv, [CurriculumNext]_vars, NEW p \in registered \ registered'
  PROVE  GoesRightly(p)
<1>1. registered' # registered
  OBVIOUS
<1>2. ~PlacementStep /\ ~UNCHANGED vars
  BY <1>1 DEF PlacementStep, curriculum, vars
<1>3. ASSUME NEW h \in Handlers, CurriculumStep(h)
      PROVE  GoesRightly(p)
  <2>1. Register(h)
    BY <1>1, <1>3 DEF CurriculumStep, AssignSubjectToClass, BulkAssignSubjectsToClass, OfferSubject,
       RemoveSubjectFromClass, AssignTeacherToClassSubject, RemoveTeacherFromClassSubject,
       BulkAssignTeachersToClassSubjects, SubjectRemoved, SubjectDeleted, DeleteSubject,
       AppointTeacher, RegisterSubjectsForStudent, UpdateSubjectRegistration, SyncRead, SyncWrite,
       ClassRemoved, Abort, curriculum
  <2>2. p \in Dropped(h)
    BY <1>1, <2>1 DEF Register, Enter
  <2> QED
    BY <2>1, <2>2 DEF Dropped, Register, ChoosesAgain, GoesRightly
<1> QED
  BY <1>2, <1>3, RosterDrops DEF CurriculumNext

\* "Compulsory subjects cannot be deregistered": whoever deletes or chooses what,
\* and in whatever order, a registration goes only when its student chooses
\* again, and then only if it is an elective, or with its student or its term.
THEOREM RegistrationsStayHolds == CurriculumSpec => RegistrationsStay
<1>1. CurriculumInv /\ [CurriculumNext]_vars =>
        [\A p \in registered \ registered' :
           \/ offer[p[2]].kind = "ELECTIVE" /\ ChoosesAgain(p)
           \/ p[1] \in Enrolled \ Enrolled'
           \/ p[3] \in terms \ terms']_vars
  BY RegistrationsGoRightly DEF GoesRightly
<1> QED
  BY <1>1, CurriculumInvariant, PTL DEF CurriculumSpec, RegistrationsStay

--------------------------------------------------------------------------------
(***************************************************************************)
(* Seats.                                                                  *)
(***************************************************************************)

\* The students of class c in profiles.
SeatedBy(profiles, c) == {s \in Students : profiles[s] = c}

\* What a request that counted a class relies on while nothing makes it stale:
\* with everybody it still brings, the students fit into the capacity it read,
\* which is that of the class as long as there is one; a class to be deleted is
\* empty.
Relies(v, capacities, profiles) ==
  /\ v.pc = "placing" /\ ~v.stale =>
       /\ capacities[v.class] \in {v.capacity, NoClass}
       /\ Cardinality(SeatedBy(profiles, v.class) \cup v.left) <= v.capacity
  /\ v.pc = "deletingClass" /\ ~v.stale => SeatedBy(profiles, v.class) = {}

\* The inductive invariant.
SeatsInv == CurriculumInv /\ \A h \in Handlers : Relies(req[h], capacity, seat)

LEMMA CountIsMonotone ==
  ASSUME NEW S \in SUBSET Students, NEW T \in SUBSET S
  PROVE  /\ Cardinality(S) \in Nat /\ Cardinality(T) \in Nat /\ Cardinality(T) <= Cardinality(S)
<1>1. IsFiniteSet(S)
  BY PlacementAssumption, FS_Subset
<1> QED
  BY <1>1, FS_Subset, FS_CardinalityType

\* A request keeps what it relies on if it is made stale, or if nobody new is
\* seated in its class and the capacity stays.
LEMMA ReliesKept ==
  ASSUME NEW v \in Request, NEW w \in Request, NEW cap, NEW cap2, NEW profiles, NEW profiles2,
         Relies(v, cap, profiles), w.pc = v.pc,
         v.pc \in {"placing", "deletingClass"} =>
           \/ w.stale
           \/ /\ w = v
              /\ cap2[v.class] \in {cap[v.class], NoClass}
              /\ SeatedBy(profiles2, v.class) \subseteq SeatedBy(profiles, v.class)
  PROVE  Relies(w, cap2, profiles2)
<1>1. CASE w = v /\ v.pc = "placing" /\ ~v.stale
  <2>1. v \in Seating
    BY <1>1, Shapes
  <2>2. v.left \in SUBSET Students /\ v.capacity \in Nat
    BY <2>1, PlacementAssumption DEF Seating
  <2>3. /\ SeatedBy(profiles, v.class) \cup v.left \in SUBSET Students
        /\ SeatedBy(profiles2, v.class) \cup v.left
             \in SUBSET (SeatedBy(profiles, v.class) \cup v.left)
    BY <1>1, <2>2 DEF SeatedBy
  <2>4. /\ Cardinality(SeatedBy(profiles, v.class) \cup v.left) \in Nat
        /\ Cardinality(SeatedBy(profiles2, v.class) \cup v.left) \in Nat
        /\ Cardinality(SeatedBy(profiles2, v.class) \cup v.left)
             <= Cardinality(SeatedBy(profiles, v.class) \cup v.left)
    BY <2>3, CountIsMonotone
  <2> QED
    BY <1>1, <2>2, <2>4 DEF Relies
<1>2. CASE w = v /\ v.pc = "deletingClass" /\ ~v.stale
  BY <1>2 DEF Relies
<1>3. CASE v.pc \notin {"placing", "deletingClass"}
  BY <1>3 DEF Relies
<1>4. CASE w.stale
  BY <1>4 DEF Relies
<1> QED
  BY <1>1, <1>2, <1>3, <1>4

\* Steps that neither count a class nor seat anybody nor change a capacity.
LEMMA ReliesUntouched ==
  ASSUME SeatsInv, CurriculumInv', UNCHANGED <<capacity, seat>>,
         \A h \in Handlers :
           req'[h] = req[h] \/ req'[h].pc \notin {"placing", "deletingClass"}
  PROVE  SeatsInv'
BY DEF SeatsInv, Relies

LEMMA SeatChangeRelies ==
  ASSUME SeatsInv, CurriculumInv', NEW c \in Classes, NEW s \in Students,
         seat' = [seat EXCEPT ![s] = c], capacity' = capacity,
         NEW H \in SUBSET Handlers, \A g \in H : req'[g] = Outdated(req[g], c)
  PROVE  \A g \in H : Relies(req'[g], capacity', seat')
<1> SUFFICES ASSUME NEW g \in H
             PROVE  Relies(req'[g], capacity', seat')
  OBVIOUS
<1>1. req[g] \in Request /\ req'[g] \in Request /\ Relies(req[g], capacity, seat)
  BY DEF SeatsInv, CurriculumInv, RequestsSound
<1>2. req'[g].pc = req[g].pc
  BY <1>1, OutdatedAges, AgedIsRequest
<1>3. \A d : d # c => SeatedBy(seat', d) \subseteq SeatedBy(seat, d)
  BY DEF SeatedBy, SeatsInv, CurriculumInv, PlacementTypeOK
<1>4. req[g].pc \in {"placing", "deletingClass"} => req'[g].stale \/ (req'[g] = req[g] /\ req[g].class # c)
  BY <1>1, Shapes DEF Outdated, Seating, DeletingClass
<1>5. req[g].pc \in {"placing", "deletingClass"} =>
        \/ req'[g].stale
        \/ /\ req'[g] = req[g]
           /\ capacity'[req[g].class] \in {capacity[req[g].class], NoClass}
           /\ SeatedBy(seat', req[g].class) \subseteq SeatedBy(seat, req[g].class)
  BY <1>3, <1>4
<1> HIDE DEF SeatedBy
<1> QED
  BY <1>1, <1>2, <1>5, ReliesKept

LEMMA UpdateClassRelies ==
  ASSUME SeatsInv, CurriculumInv', NEW c \in Classes, NEW n \in Capacities, UpdateClass(c, n)
  PROVE  SeatsInv'
<1>1. /\ capacity' = [capacity EXCEPT ![c] = n] /\ seat' = seat
      /\ req' = [g \in Handlers |-> Outdated(req[g], c)]
  BY DEF UpdateClass, OutdateAll
<1>2. ASSUME NEW g \in Handlers
      PROVE  Relies(req'[g], capacity', seat')
  <2>1. req[g] \in Request /\ req'[g] \in Request /\ Relies(req[g], capacity, seat)
    BY DEF SeatsInv, CurriculumInv, RequestsSound
  <2>2. req'[g] = Outdated(req[g], c)
    BY <1>1
  <2>3. req'[g].pc = req[g].pc
    BY <2>1, <2>2, OutdatedAges, AgedIsRequest
  <2>4. req[g].pc \in {"placing", "deletingClass"} =>
          req'[g].stale \/ (req'[g] = req[g] /\ req[g].class # c)
    BY <2>1, <2>2, Shapes DEF Outdated, Seating, DeletingClass
  <2>5. req[g].pc \in {"placing", "deletingClass"} => req[g].class \in Classes
    BY <2>1, Shapes DEF Seating, DeletingClass
  <2>6. \A d \in Classes \ {c} : capacity'[d] = capacity[d]
    BY <1>1 DEF SeatsInv, CurriculumInv, PlacementTypeOK
  <2>7. req[g].pc \in {"placing", "deletingClass"} =>
          \/ req'[g].stale
          \/ /\ req'[g] = req[g]
             /\ capacity'[req[g].class] \in {capacity[req[g].class], NoClass}
             /\ SeatedBy(seat', req[g].class) \subseteq SeatedBy(seat, req[g].class)
    BY <1>1, <2>4, <2>5, <2>6
  <2> QED
    BY <2>1, <2>3, <2>7, ReliesKept
<1> QED
  BY <1>2 DEF SeatsInv

LEMMA EnrolmentRelies ==
  ASSUME SeatsInv, CurriculumInv', NEW s \in Students, NEW c \in Classes,
         CreateStudent(s, c) \/ UpdateStudent(s, c)
  PROVE  SeatsInv'
<1>1. /\ seat' = [seat EXCEPT ![s] = c] /\ capacity' = capacity
      /\ \A g \in Handlers : req'[g] = Outdated(req[g], c)
  BY DEF CreateStudent, UpdateStudent, OutdateAll
<1>2. \A g \in Handlers : Relies(req'[g], capacity', seat')
  BY <1>1, SeatChangeRelies
<1> QED
  BY <1>2 DEF SeatsInv

\* Nobody is seated and no capacity changes.
LEMMA UnseatedRelies ==
  ASSUME SeatsInv, CurriculumInv', \A c \in Classes : SeatedBy(seat', c) \subseteq SeatedBy(seat, c),
         \A g \in Handlers :
           \/ req'[g] = req[g] /\ (req[g].pc \in {"placing", "deletingClass"} =>
                                     capacity'[req[g].class] \in {capacity[req[g].class], NoClass})
           \/ req'[g].pc \notin {"placing", "deletingClass"}
  PROVE  SeatsInv'
<1>1. ASSUME NEW g \in Handlers
      PROVE  Relies(req'[g], capacity', seat')
  <2>1. req[g] \in Request /\ Relies(req[g], capacity, seat)
    BY DEF SeatsInv, CurriculumInv, RequestsSound
  <2>2. CASE req'[g] = req[g] /\ (req[g].pc \in {"placing", "deletingClass"} =>
                                     capacity'[req[g].class] \in {capacity[req[g].class], NoClass})
    <3>1. req[g].pc \in {"placing", "deletingClass"} => req[g].class \in Classes
      BY <2>1, Shapes DEF Seating, DeletingClass
    <3> QED
      BY <2>1, <2>2, <3>1, ReliesKept
  <2>3. CASE req'[g].pc \notin {"placing", "deletingClass"}
    BY <2>3 DEF Relies
  <2> QED
    BY <2>2, <2>3
<1> QED
  BY <1>1 DEF SeatsInv

LEMMA RemovalRelies ==
  ASSUME SeatsInv, CurriculumInv', NEW s \in Students, RemoveStudentFromClass(s)
  PROVE  SeatsInv'
<1>1. \A c \in Classes : SeatedBy(seat', c) \subseteq SeatedBy(seat, c)
  BY PlacementAssumption DEF RemoveStudentFromClass, SeatedBy, SeatsInv, CurriculumInv, PlacementTypeOK
<1> QED
  BY <1>1, UnseatedRelies DEF RemoveStudentFromClass

LEMMA ClassCreatedRelies ==
  ASSUME SeatsInv, CurriculumInv', NEW c \in Classes, NEW n \in Capacities, ClassCreated(c, n)
  PROVE  SeatsInv'
<1>1. /\ capacity' = [capacity EXCEPT ![c] = n] /\ seat' = seat /\ req' = req
      /\ \A g \in Handlers : ~Knows(req[g], c)
  BY DEF ClassCreated, CreateClass
<1>2. \A g \in Handlers : req[g].pc \in {"placing", "deletingClass"} =>
        req[g].class # c /\ req[g].class \in Classes
  BY <1>1, Shapes DEF Knows, SeatsInv, CurriculumInv, RequestsSound, Seating, DeletingClass
<1>3. \A d \in Classes \ {c} : capacity'[d] = capacity[d]
  BY <1>1 DEF SeatsInv, CurriculumInv, PlacementTypeOK
<1> QED
  BY <1>1, <1>2, <1>3, UnseatedRelies

LEMMA ClassRemovedRelies ==
  ASSUME SeatsInv, CurriculumInv', NEW h \in Handlers, ClassRemoved(h)
  PROVE  SeatsInv'
<1> DEFINE c == req[h].class
<1>1. req[h] \in DeletingClass /\ c \in Classes
  BY Shapes DEF ClassRemoved, SeatsInv, CurriculumInv, RequestsSound, DeletingClass
<1>2. CASE \E o \in OffersOf(c) : IsRegistered(o)
  <2>1. UNCHANGED <<capacity, seat>> /\ req' = [req EXCEPT ![h] = Free]
    BY <1>2 DEF ClassRemoved, Die
  <2>2. \A g \in Handlers : req'[g] = req[g] \/ req'[g].pc \notin {"placing", "deletingClass"}
    BY <2>1 DEF Free, SeatsInv, CurriculumInv, RequestsSound
  <2> QED
    BY <2>1, <2>2, ReliesUntouched
<1>3. CASE \A o \in OffersOf(c) : ~IsRegistered(o)
  <2>1. PICK ts : /\ capacity' = [capacity EXCEPT ![c] = NoClass]
                  /\ seat' = [s \in Students |-> IF seat[s] = c THEN NoClass ELSE seat[s]]
                  /\ Touch(h, Free, ts, {})
    BY <1>3 DEF ClassRemoved
  <2>2. \A d \in Classes : SeatedBy(seat', d) \subseteq SeatedBy(seat, d)
    BY <2>1, PlacementAssumption DEF SeatedBy, SeatsInv, CurriculumInv, PlacementTypeOK
  <2>3. req' = [g \in Handlers |-> IF g = h THEN Free ELSE Touched(req[g], ts, {})]
    BY <2>1 DEF Touch
  <2>4. \A g \in Handlers : req'[g] = req[g] \/ req'[g].pc \notin {"placing", "deletingClass"}
    <3> SUFFICES ASSUME NEW g \in Handlers
                 PROVE  req'[g] = req[g] \/ req'[g].pc \notin {"placing", "deletingClass"}
      OBVIOUS
    <3>1. CASE g = h
      BY <2>3, <3>1 DEF Free
    <3>2. CASE g # h
      <4>1. req'[g] = Touched(req[g], ts, {}) /\ req[g] \in Request
        BY <2>3, <3>2 DEF SeatsInv, CurriculumInv, RequestsSound
      <4>2. req'[g].pc = req[g].pc
        BY <4>1, TouchedAges, AgedIsRequest
      <4> QED
        BY <4>1, <4>2 DEF Touched
    <3> QED
      BY <3>1, <3>2
  <2>5. \A g \in Handlers : req[g].pc \in {"placing", "deletingClass"} =>
          capacity'[req[g].class] \in {capacity[req[g].class], NoClass}
    <3>1. \A g \in Handlers : req[g].pc \in {"placing", "deletingClass"} => req[g].class \in Classes
      BY Shapes DEF SeatsInv, CurriculumInv, RequestsSound, Seating, DeletingClass
    <3> QED
      BY <2>1, <3>1 DEF SeatsInv, CurriculumInv, PlacementTypeOK
  <2> QED
    BY <2>2, <2>4, <2>5, UnseatedRelies
<1> QED
  BY <1>2, <1>3

LEMMA BeginRelies ==
  ASSUME SeatsInv, CurriculumInv', NEW h \in Handlers, NEW next, Begin(h, next),
         UNCHANGED <<capacity, seat>>, Relies(next, capacity, seat)
  PROVE  SeatsInv'
BY DEF SeatsInv, CurriculumInv, RequestsSound, Begin

LEMMA PlacingRelies ==
  ASSUME SeatsInv, CurriculumInv', NEW h \in Handlers, NEW c \in Classes, NEW ss, Placing(h, c, ss)
  PROVE  SeatsInv'
<1> DEFINE next == [pc |-> "counting", class |-> c, capacity |-> capacity[c],
                    left |-> ss, stale |-> FALSE]
<1>1. Begin(h, next) /\ UNCHANGED <<capacity, seat>>
  BY DEF Placing
<1>2. Relies(next, capacity, seat)
  BY DEF Relies
<1> HIDE DEF next
<1> QED
  BY <1>1, <1>2, BeginRelies

LEMMA DeleteClassRelies ==
  ASSUME SeatsInv, CurriculumInv', NEW h \in Handlers, NEW c \in Classes, DeleteClass(h, c)
  PROVE  SeatsInv'
<1> DEFINE next == [pc |-> "deletingClass", class |-> c, stale |-> FALSE]
<1>1. Begin(h, next) /\ UNCHANGED <<capacity, seat>>
  BY DEF DeleteClass
<1>2. Relies(next, capacity, seat)
  BY DEF Relies, DeleteClass, Seated, SeatedBy
<1> HIDE DEF next
<1> QED
  BY <1>1, <1>2, BeginRelies

\* The count.
LEMMA CountSeatsRelies ==
  ASSUME SeatsInv, CurriculumInv', NEW h \in Handlers, CountSeats(h)
  PROVE  SeatsInv'
<1> DEFINE v == req[h]
           seated == SeatedBy(seat, v.class)
           w == [v EXCEPT !.pc = "placing", !.stale = capacity[v.class] # v.capacity]
<1>1. v \in Seating
  BY Shapes DEF CountSeats, SeatsInv, CurriculumInv, RequestsSound
<1>2. v.left \in SUBSET Students /\ v.capacity \in Nat /\ seated \in SUBSET Students
  BY <1>1, PlacementAssumption DEF Seating, SeatedBy
<1>3. IsFiniteSet(seated) /\ IsFiniteSet(v.left)
  BY <1>2, PlacementAssumption, FS_Subset
<1>4. /\ Cardinality(seated) \in Nat /\ Cardinality(v.left) \in Nat
      /\ Cardinality(seated \cap v.left) \in Nat
      /\ Cardinality(seated \cup v.left)
           = Cardinality(seated) + Cardinality(v.left) - Cardinality(seated \cap v.left)
  BY <1>3, FS_Union, FS_Intersection, FS_CardinalityType
<1>5. /\ w.pc = "placing" /\ w.class = v.class /\ w.capacity = v.capacity /\ w.left = v.left
      /\ w.stale = (capacity[v.class] # v.capacity)
  BY <1>1 DEF Seating
<1>6. CASE Cardinality(seated) + Cardinality(v.left) > v.capacity
  <2>1. req' = [req EXCEPT ![h] = Free] /\ UNCHANGED <<capacity, seat>>
    BY <1>6 DEF CountSeats, Seated, SeatedBy
  <2> QED
    BY <2>1, ReliesUntouched DEF Free, SeatsInv, CurriculumInv, RequestsSound
<1>7. CASE ~(Cardinality(seated) + Cardinality(v.left) > v.capacity)
  <2>1. req' = [req EXCEPT ![h] = w] /\ UNCHANGED <<capacity, seat>>
    BY <1>7 DEF CountSeats, Seated, SeatedBy
  <2>2. Cardinality(seated \cup v.left) <= v.capacity
    BY <1>2, <1>4, <1>7
  <2> HIDE DEF w, seated
  <2>3. ~w.stale => capacity[w.class] = w.capacity
    BY <1>5
  <2>4. Cardinality(SeatedBy(seat, w.class) \cup w.left) <= w.capacity
    BY <1>5, <2>2 DEF seated
  <2>5. Relies(w, capacity, seat)
    BY <1>5, <2>3, <2>4 DEF Relies
  <2> QED
    BY <2>1, <2>5 DEF SeatsInv, CurriculumInv, RequestsSound
<1> QED
  BY <1>6, <1>7

\* One more student takes the seat that was counted for him.
LEMMA PlaceRelies ==
  ASSUME SeatsInv, CurriculumInv', NEW h \in Handlers, NEW s \in Students, Place(h, s)
  PROVE  SeatsInv'
<1> DEFINE v == req[h]
           c == v.class
           left == v.left \ {s}
           w == [v EXCEPT !.left = left]
           next == IF left = {} THEN Free ELSE w
<1>1. v \in Seating /\ v.pc = "placing" /\ s \in v.left /\ Relies(v, capacity, seat)
  BY Shapes DEF Place, SeatsInv, CurriculumInv, RequestsSound
<1>2. c \in Classes /\ v.left \in SUBSET Students /\ v.capacity \in Nat
  BY <1>1, PlacementAssumption DEF Seating
<1>3. /\ w.pc = "placing" /\ w.class = c /\ w.capacity = v.capacity /\ w.left = left
      /\ w.stale = v.stale
  BY <1>1 DEF Seating
<1>4. PICK moves \in BOOLEAN :
        /\ seat' = IF moves THEN [seat EXCEPT ![s] = c] ELSE seat
        /\ capacity' = capacity
        /\ req' = [g \in Handlers |-> IF g = h THEN next
                                      ELSE IF moves THEN Outdated(req[g], c) ELSE req[g]]
  BY DEF Place
<1>5. SeatedBy(seat', c) \cup left \subseteq SeatedBy(seat, c) \cup v.left
  BY <1>1, <1>4 DEF SeatedBy, SeatsInv, CurriculumInv, PlacementTypeOK
<1>6. Relies(w, capacity', seat')
  <2>1. CASE v.stale
    BY <1>3, <2>1 DEF Relies
  <2>2. CASE ~v.stale
    <3> DEFINE S == SeatedBy(seat, c) \cup v.left
               T == SeatedBy(seat', c) \cup left
    <3>1. S \in SUBSET Students /\ T \in SUBSET S
      BY <1>2, <1>5 DEF SeatedBy
    <3>2. capacity[c] \in {v.capacity, NoClass} /\ Cardinality(S) <= v.capacity
      BY <1>1, <2>2 DEF Relies
    <3> HIDE DEF S, T
    <3>3. Cardinality(T) <= v.capacity
      BY <1>2, <3>1, <3>2, CountIsMonotone
    <3>4. Cardinality(SeatedBy(seat', w.class) \cup w.left) <= w.capacity
      BY <1>3, <3>3 DEF T
    <3> HIDE DEF w
    <3> QED
      BY <1>3, <1>4, <3>2, <3>4 DEF Relies
  <2> QED
    BY <2>1, <2>2
<1> HIDE DEF w
<1>7. Relies(next, capacity', seat')
  BY <1>6 DEF Relies, Free
<1> HIDE DEF next
<1>8. req'[h] = next /\ \A g \in Handlers \ {h} : req'[g] = IF moves THEN Outdated(req[g], c) ELSE req[g]
  BY <1>4
<1>9. CASE moves
  <2>1. \A g \in Handlers \ {h} : req'[g] = Outdated(req[g], c)
    BY <1>8, <1>9
  <2>2. \A g \in Handlers \ {h} : Relies(req'[g], capacity', seat')
    BY <1>2, <1>4, <1>9, <2>1, SeatChangeRelies
  <2> QED
    BY <1>7, <1>8, <2>2 DEF SeatsInv
<1>10. CASE ~moves
  BY <1>4, <1>7, <1>8, <1>10 DEF SeatsInv
<1> QED
  BY <1>9, <1>10

LEMMA PlacementStepRelies ==
  ASSUME SeatsInv, CurriculumInv', PlacementStep
  PROVE  SeatsInv'
<1>1. ASSUME NEW c \in Classes, NEW n \in Capacities, UpdateClass(c, n)
      PROVE  SeatsInv'
  BY <1>1, UpdateClassRelies
<1>2. ASSUME NEW s \in Students, NEW c \in Classes, UpdateStudent(s, c)
      PROVE  SeatsInv'
  BY <1>2, EnrolmentRelies
<1>3. ASSUME NEW s \in Students, RemoveStudentFromClass(s)
      PROVE  SeatsInv'
  BY <1>3, RemovalRelies
<1>4. ASSUME NEW h \in Handlers, NEW c \in Classes, NEW s \in Students,
             AssignStudentToClass(h, c, s) \/ TransferStudentToClass(h, c, s)
      PROVE  SeatsInv'
  BY <1>4, PlacingRelies DEF AssignStudentToClass, TransferStudentToClass
<1>5. ASSUME NEW h \in Handlers, NEW c \in Classes, NEW ss \in SUBSET Students,
             BulkAssignStudentsToClass(h, c, ss)
      PROVE  SeatsInv'
  BY <1>5, PlacingRelies DEF BulkAssignStudentsToClass
<1>6. ASSUME NEW h \in Handlers, NEW c \in Classes, DeleteClass(h, c)
      PROVE  SeatsInv'
  BY <1>6, DeleteClassRelies
<1>7. ASSUME NEW h \in Handlers, CountSeats(h)
      PROVE  SeatsInv'
  BY <1>7, CountSeatsRelies
<1>8. ASSUME NEW h \in Handlers, NEW s \in Students, Place(h, s)
      PROVE  SeatsInv'
  BY <1>8, PlaceRelies
<1> QED
  BY <1>1, <1>2, <1>3, <1>4, <1>5, <1>6, <1>7, <1>8, Zenon DEF PlacementStep

\* Who and what comes and goes seats nobody but a new student.
LEMMA RosterRelies ==
  ASSUME SeatsInv, CurriculumInv', RosterStep
  PROVE  SeatsInv'
<1>1. ASSUME NEW s \in Students, NEW c \in Classes, StudentCreated(s, c)
      PROVE  SeatsInv'
  BY <1>1, EnrolmentRelies DEF StudentCreated
<1>2. ASSUME NEW s \in Students, StudentRemoved(s)
      PROVE  SeatsInv'
  <2>1. seat' = [seat EXCEPT ![s] = NoStudent] /\ UNCHANGED <<capacity, req>>
    BY <1>2 DEF StudentRemoved, RemoveStudent
  <2>2. \A c \in Classes : SeatedBy(seat', c) \subseteq SeatedBy(seat, c)
    BY <2>1, PlacementAssumption DEF SeatedBy, SeatsInv, CurriculumInv, PlacementTypeOK
  <2> QED
    BY <2>1, <2>2, UnseatedRelies
<1>3. ASSUME NEW t \in Terms, TermRemoved(t)
      PROVE  SeatsInv'
  <2>1. PICK owners : /\ req' = [g \in Handlers |-> Touched(req[g], owners, {})]
                      /\ UNCHANGED <<capacity, seat>>
    BY <1>3 DEF TermRemoved
  <2>2. ASSUME NEW g \in Handlers
        PROVE  req'[g] = req[g] \/ req'[g].pc \notin {"placing", "deletingClass"}
    <3>1. req'[g] = Touched(req[g], owners, {}) /\ req[g] \in Request
      BY <2>1 DEF SeatsInv, CurriculumInv, RequestsSound
    <3>2. req'[g].pc = req[g].pc
      BY <3>1, TouchedAges, AgedIsRequest
    <3> QED
      BY <3>1, <3>2 DEF Touched
  <2> QED
    BY <2>1, <2>2, ReliesUntouched
<1>4. ASSUME UNCHANGED <<capacity, seat, req>>
      PROVE  SeatsInv'
  BY <1>4 DEF SeatsInv
<1>5. ASSUME \/ \E t \in Teachers, list \in SUBSET Subjects : TeacherCreated(t, list)
             \/ \E t \in Teachers : TeacherRemoved(t)
             \/ \E t \in Terms : TermCreated(t)
             \/ \E m \in Subjects : CreateSubject(m)
      PROVE  SeatsInv'
  BY <1>4, <1>5 DEF TeacherCreated, TeacherRemoved, TermCreated, CreateSubject
<1> QED
  BY <1>1, <1>2, <1>3, <1>5, ClassCreatedRelies, Zenon DEF RosterStep

\* Handler h goes to another stage of the curriculum.
Elsewhere(h) ==
  \E next : /\ next.pc \notin {"placing", "deletingClass"}
            /\ req' = [req EXCEPT ![h] = next] \/ \E xs, ms : Touch(h, next, xs, ms)

LEMMA SyncIsElsewhere ==
  ASSUME NEW todo, NEW t, NEW o, NEW left
  PROVE  Sync(todo).pc = "syncing" /\ Syncing(todo, t, o, left).pc = "syncing" /\ Free.pc = "free"
BY DEF Sync, Syncing, Free

LEMMA NextSyncIsElsewhere ==
  ASSUME NEW v \in SyncingLists
  PROVE  NextSync(v).pc \in {"syncing", "appointing", "free"}
<1>1. [v EXCEPT !.at = Nobody, !.seen = {}, !.stale = FALSE].pc = "syncing"
  BY DEF SyncingLists
<1> QED
  BY <1>1 DEF NextSync, Free

LEMMA WithdrawGoesElsewhere ==
  ASSUME NEW h \in Handlers, NEW gone, Withdraw(h, gone)
  PROVE  Elsewhere(h)
<1>1. CASE \E o \in gone : IsRegistered(o)
  BY <1>1, SyncIsElsewhere DEF Withdraw, Elsewhere
<1>2. CASE ~\E o \in gone : IsRegistered(o)
  <2> DEFINE next == IF req[h].todo = {} THEN Free ELSE Sync(req[h].todo)
  <2>1. \E xs, ms : Touch(h, next, xs, ms)
    BY <1>2 DEF Withdraw
  <2>2. next.pc \notin {"placing", "deletingClass"}
    BY SyncIsElsewhere
  <2> HIDE DEF next
  <2> QED
    BY <2>1, <2>2 DEF Elsewhere
<1> QED
  BY <1>1, <1>2

\* No step of the curriculum but a deletion of a class meets the seats.
LEMMA StepGoesElsewhere ==
  ASSUME CurriculumInv, NEW h \in Handlers, CurriculumStep(h), ~ClassRemoved(h)
  PROVE  Elsewhere(h)
<1> USE SyncIsElsewhere DEF Elsewhere
<1>1. ASSUME NEW o \in Offers, NEW c \in Classes, NEW m \in Subjects, NEW kind \in Kinds,
             AssignSubjectToClass(h, o, c, m, kind)
      PROVE  Elsewhere(h)
  BY <1>1 DEF AssignSubjectToClass, BeginTouching
<1>2. ASSUME NEW c \in Classes, NEW items, BulkAssignSubjectsToClass(h, c, items)
      PROVE  Elsewhere(h)
  <2>1. [pc |-> "offering", class |-> c, left |-> items].pc = "offering"
    OBVIOUS
  <2> QED
    BY <1>2, <2>1 DEF BulkAssignSubjectsToClass, Begin
<1>3. ASSUME NEW o \in Offers, NEW item, OfferSubject(h, o, item)
      PROVE  Elsewhere(h)
  <2> DEFINE w == [req[h] EXCEPT !.left = req[h].left \ {item}]
  <2>1. req[h] \in Offering
    BY <1>3, Shapes DEF OfferSubject, CurriculumInv, RequestsSound
  <2>2. w.pc = "offering"
    BY <2>1 DEF Offering
  <2> QED
    BY <1>3, <2>2 DEF OfferSubject
<1>4. ASSUME NEW o \in Offers, RemoveSubjectFromClass(h, o)
      PROVE  Elsewhere(h)
  <2>1. PICK todo : Begin(h, [pc |-> "withdrawing", offer |-> o, stale |-> FALSE, todo |-> todo])
    BY <1>4 DEF RemoveSubjectFromClass
  <2>2. [pc |-> "withdrawing", offer |-> o, stale |-> FALSE, todo |-> todo].pc = "withdrawing"
    OBVIOUS
  <2> QED
    BY <2>1, <2>2 DEF Begin
<1>5. ASSUME NEW o \in Offers, NEW t \in Teachers,
             AssignTeacherToClassSubject(h, o, t) \/ RemoveTeacherFromClassSubject(h, o, t)
      PROVE  Elsewhere(h)
  BY <1>5 DEF AssignTeacherToClassSubject, RemoveTeacherFromClassSubject, BeginTouching
<1>6. ASSUME NEW o \in Offers, NEW ts, BulkAssignTeachersToClassSubjects(h, o, ts)
      PROVE  Elsewhere(h)
  <2>1. [pc |-> "appointing", offer |-> o, left |-> ts].pc = "appointing"
    OBVIOUS
  <2> QED
    BY <1>6, <2>1 DEF BulkAssignTeachersToClassSubjects, Begin
<1>7. ASSUME NEW m \in Subjects, DeleteSubject(h, m)
      PROVE  Elsewhere(h)
  <2>1. PICK todo : Begin(h, [pc |-> "deletingSubject", subject |-> m, stale |-> FALSE, todo |-> todo])
    BY <1>7 DEF DeleteSubject
  <2>2. [pc |-> "deletingSubject", subject |-> m, stale |-> FALSE, todo |-> todo].pc = "deletingSubject"
    OBVIOUS
  <2> QED
    BY <2>1, <2>2 DEF Begin
<1>8. ASSUME NEW t \in Teachers, AppointTeacher(h, t)
      PROVE  Elsewhere(h)
  <2> DEFINE left == req[h].left \ {t}
             w == [req[h] EXCEPT !.left = left]
  <2>1. req[h] \in Appointing
    BY <1>8, Shapes DEF AppointTeacher, CurriculumInv, RequestsSound
  <2>2. w.pc = "appointing"
    BY <2>1 DEF Appointing
  <2>3. \/ req' = [req EXCEPT ![h] = IF left = {} THEN Free ELSE w]
        \/ \E xs, ms : Touch(h, Syncing({t}, NoTerm, req[h].offer, left), xs, ms)
    BY <1>8, <2>1 DEF AppointTeacher, CurriculumInv, RequestsSound
  <2> QED
    BY <2>2, <2>3
<1>9. ASSUME NEW s \in Students, NEW t \in Terms,
             \/ RegisterSubjectsForStudent(h, s, t)
             \/ \E chosen \in SUBSET Offers : UpdateSubjectRegistration(h, s, t, chosen)
      PROVE  Elsewhere(h)
  <2>1. PICK again, chosen :
          Begin(h, [pc |-> "registering", student |-> s, term |-> t, again |-> again,
                    offers |-> chosen])
    BY <1>9 DEF RegisterSubjectsForStudent, UpdateSubjectRegistration
  <2>2. [pc |-> "registering", student |-> s, term |-> t, again |-> again,
         offers |-> chosen].pc = "registering"
    OBVIOUS
  <2> QED
    BY <2>1, <2>2 DEF Begin
<1>10. ASSUME NEW x \in Owners, SyncRead(h, x)
       PROVE  Elsewhere(h)
  <2> DEFINE rest == [req[h] EXCEPT !.todo = @ \ {x}]
             read == [rest EXCEPT !.at = x, !.seen = Source(x, rest.term), !.stale = FALSE]
  <2>1. req[h] \in SyncingLists
    BY <1>10, Shapes DEF SyncRead, CurriculumInv, RequestsSound
  <2>2. rest \in SyncingLists /\ read.pc = "syncing"
    BY <2>1 DEF SyncingLists
  <2>3. req' = [req EXCEPT ![h] = NextSync(rest)] \/ req' = [req EXCEPT ![h] = read]
    BY <1>10, <2>1 DEF SyncRead, CurriculumInv, RequestsSound
  <2> HIDE DEF rest, read
  <2>4. NextSync(rest).pc \notin {"placing", "deletingClass"}
    BY <2>2, NextSyncIsElsewhere
  <2> QED
    BY <2>2, <2>3, <2>4
<1>11. ASSUME SyncWrite(h)
       PROVE  Elsewhere(h)
  <2> DEFINE failed == [req[h] EXCEPT !.todo = {}]
  <2>1. req[h] \in SyncingLists
    BY <1>11, Shapes DEF SyncWrite, CurriculumInv, RequestsSound
  <2>2. failed \in SyncingLists
    BY <2>1 DEF SyncingLists
  <2>3. req' = [req EXCEPT ![h] = NextSync(failed)] \/ req' = [req EXCEPT ![h] = NextSync(req[h])]
    BY <1>11, <2>1 DEF SyncWrite, CurriculumInv, RequestsSound
  <2> HIDE DEF failed
  <2>4. /\ NextSync(req[h]).pc \notin {"placing", "deletingClass"}
        /\ NextSync(failed).pc \notin {"placing", "deletingClass"}
    BY <2>1, <2>2, NextSyncIsElsewhere
  <2> QED
    BY <2>3, <2>4
<1>12. ASSUME Register(h) \/ Abort(h)
       PROVE  Elsewhere(h)
  BY <1>12 DEF Register, Enter, Abort, Die
<1>13. ASSUME SubjectRemoved(h) \/ SubjectDeleted(h)
       PROVE  Elsewhere(h)
  BY <1>13, WithdrawGoesElsewhere DEF SubjectRemoved, SubjectDeleted
<1> HIDE DEF Elsewhere
<1> QED
  BY <1>1, <1>2, <1>3, <1>4, <1>5, <1>6, <1>7, <1>8, <1>9, <1>10, <1>11, <1>12, <1>13, Zenon
     DEF CurriculumStep

LEMMA CurriculumStepMoves ==
  ASSUME CurriculumInv, NEW h \in Handlers, CurriculumStep(h), ~ClassRemoved(h)
  PROVE  /\ UNCHANGED <<capacity, seat>>
         /\ \A g \in Handlers : req'[g] = req[g] \/ req'[g].pc \notin {"placing", "deletingClass"}
<1>1. UNCHANGED <<capacity, seat>>
  BY DEF CurriculumStep, AssignSubjectToClass, BulkAssignSubjectsToClass, OfferSubject,
     RemoveSubjectFromClass, AssignTeacherToClassSubject, RemoveTeacherFromClassSubject,
     BulkAssignTeachersToClassSubjects, SubjectRemoved, SubjectDeleted, DeleteSubject,
     AppointTeacher, RegisterSubjectsForStudent, UpdateSubjectRegistration, Register, SyncRead,
     SyncWrite, Abort, Die
<1>2. PICK next : /\ next.pc \notin {"placing", "deletingClass"}
                  /\ req' = [req EXCEPT ![h] = next] \/ \E xs, ms : Touch(h, next, xs, ms)
  BY StepGoesElsewhere, Zenon DEF Elsewhere
<1>3. CASE req' = [req EXCEPT ![h] = next]
  BY <1>1, <1>2, <1>3 DEF CurriculumInv, RequestsSound
<1>4. ASSUME NEW xs, NEW ms, Touch(h, next, xs, ms), NEW g \in Handlers
      PROVE  req'[g] = req[g] \/ req'[g].pc \notin {"placing", "deletingClass"}
  <2>1. req'[g] = (IF g = h THEN next ELSE Touched(req[g], xs, ms)) /\ req[g] \in Request
    BY <1>4 DEF Touch, CurriculumInv, RequestsSound
  <2>2. Touched(req[g], xs, ms).pc = req[g].pc
    BY <2>1, TouchedAges, AgedIsRequest
  <2> QED
    BY <1>2, <2>1, <2>2 DEF Touched
<1> QED
  BY <1>1, <1>2, <1>3, <1>4

LEMMA SeatsNext ==
  ASSUME SeatsInv, [CurriculumNext]_vars
  PROVE  SeatsInv'
<1>1. CurriculumInv'
  BY NextKeeps DEF SeatsInv
<1>2. CASE UNCHANGED vars
  BY <1>1, <1>2 DEF SeatsInv, vars
<1>3. ASSUME NEW h \in Handlers, CurriculumStep(h)
      PROVE  SeatsInv'
  BY <1>1, <1>3, ClassRemovedRelies, CurriculumStepMoves, ReliesUntouched DEF SeatsInv
<1> QED
  BY <1>1, <1>2, <1>3, PlacementStepRelies, RosterRelies DEF CurriculumNext

LEMMA SeatsInvariant == CurriculumSpec => []SeatsInv
<1>1. CurriculumInit => SeatsInv
  BY InitHolds DEF CurriculumInit, PlacementInit, SeatsInv, Relies, Free
<1> QED
  BY <1>1, SeatsNext, PTL DEF CurriculumSpec

\* A step that seats a student of the list of h is the update of his profile.
LEMMA OnlyPlaceSeats ==
  ASSUME SeatsInv, CurriculumNext, NEW h \in Handlers, NEW c \in Classes, Seats(h, c)
  PROVE  \E s \in Students : Place(h, s)
<1>1. /\ req[h].pc = "placing" /\ req[h].class = c /\ seat' # seat /\ req[h] \in Request
      /\ req'[h].pc = "free" \/ (req'[h].pc = "placing" /\ req'[h].left # req[h].left)
  BY DEF Seats, SeatsInv, CurriculumInv, RequestsSound
<1>2. ~Aged(req[h], req'[h])
  BY <1>1, AgedIsRequest
<1>3. ~RosterStep
  <2>1. ASSUME NEW s \in Students, NEW d \in Classes, StudentCreated(s, d)
        PROVE  FALSE
    <3>1. req'[h] = Outdated(req[h], d)
      BY <2>1 DEF StudentCreated, CreateStudent, OutdateAll
    <3> QED
      BY <1>2, <3>1, OutdatedAges
  <2>2. ASSUME \/ \E s \in Students : StudentRemoved(s)
               \/ \E t \in Terms : TermRemoved(t)
        PROVE  FALSE
    BY <1>1, <1>2, <2>2 DEF StudentRemoved, RemoveStudent, TermRemoved, Aged
  <2>3. /\ \A d \in Classes, n \in Capacities : ~ClassCreated(d, n)
        /\ \A t \in Teachers, list \in SUBSET Subjects : ~TeacherCreated(t, list)
        /\ \A t \in Teachers : ~TeacherRemoved(t)
        /\ \A t \in Terms : ~TermCreated(t)
        /\ \A m \in Subjects : ~CreateSubject(m)
    BY <1>1 DEF ClassCreated, CreateClass, TeacherCreated, TeacherRemoved, TermCreated, CreateSubject
  <2> QED
    BY <2>1, <2>2, <2>3, Zenon DEF RosterStep
<1>4. \A g \in Handlers : ~CurriculumStep(g)
  <2> SUFFICES ASSUME NEW g \in Handlers, CurriculumStep(g)
               PROVE  FALSE
    OBVIOUS
  <2>1. ClassRemoved(g)
    BY <1>1, CurriculumStepMoves DEF SeatsInv
  <2>2. g # h
    BY <1>1, <2>1 DEF ClassRemoved
  <2>3. \/ req' = [req EXCEPT ![g] = Free]
        \/ \E xs, ms : Touch(g, Free, xs, ms)
    BY <2>1 DEF ClassRemoved, Die
  <2>4. Advance(req, req', g, Free)
    BY <2>3, ExceptAdvances, TouchAdvances DEF SeatsInv, CurriculumInv, RequestsSound
  <2> QED
    BY <1>2, <2>2, <2>4 DEF Advance
<1>5. PlacementStep
  BY <1>3, <1>4 DEF CurriculumNext
<1>6. \A s \in Students, d \in Classes : ~UpdateStudent(s, d)
  <2> SUFFICES ASSUME NEW s \in Students, NEW d \in Classes, UpdateStudent(s, d)
               PROVE  FALSE
    OBVIOUS
  <2>1. req'[h] = Outdated(req[h], d)
    BY DEF UpdateStudent, OutdateAll
  <2> QED
    BY <1>2, <2>1, OutdatedAges
<1>7. \A s \in Students : ~RemoveStudentFromClass(s)
  BY <1>2 DEF RemoveStudentFromClass, Aged
<1>8. \A g \in Handlers, d \in Classes :
        /\ \A s \in Students : ~AssignStudentToClass(g, d, s) /\ ~TransferStudentToClass(g, d, s)
        /\ \A ss \in SUBSET Students : ~BulkAssignStudentsToClass(g, d, ss)
        /\ ~DeleteClass(g, d) /\ ~CountSeats(g)
  BY <1>1 DEF AssignStudentToClass, TransferStudentToClass, BulkAssignStudentsToClass, Placing,
     DeleteClass, CountSeats
<1>9. PICK g \in Handlers, s \in Students : Place(g, s)
  <2>1. \A d \in Classes, n \in Capacities : ~UpdateClass(d, n)
    BY <1>1 DEF UpdateClass
  <2> QED
    BY <1>5, <1>6, <1>7, <1>8, <2>1 DEF PlacementStep
<1>10. g = h
  <2> SUFFICES ASSUME g # h
               PROVE  FALSE
    OBVIOUS
  <2>1. req'[h] = Outdated(req[h], req[g].class) \/ req'[h] = req[h]
    BY <1>9 DEF Place
  <2> QED
    BY <1>2, <2>1, OutdatedAges DEF Aged
<1> QED
  BY <1>9, <1>10

LEMMA FillsNext ==
  ASSUME SeatsInv, [CurriculumNext]_vars
  PROVE  FillsWithinCapacity
<1> SUFFICES ASSUME NEW h \in Handlers, NEW c \in Classes, Seats(h, c), ~req[h].stale
             PROVE  Cardinality(SeatedBy(seat', c)) <= capacity[c]
  BY DEF FillsWithinCapacity, Seated, SeatedBy
<1>1. CurriculumNext /\ req[h].class = c /\ seat' # seat
  BY DEF Seats, vars
<1>2. PICK s \in Students : Place(h, s)
  BY <1>1, OnlyPlaceSeats
<1>3. /\ req[h].pc = "placing" /\ s \in req[h].left /\ c \in Open
      /\ seat' = [seat EXCEPT ![s] = c]
  BY <1>1, <1>2 DEF Place
<1>4. req[h] \in Seating /\ Relies(req[h], capacity, seat)
  BY <1>3, Shapes DEF SeatsInv, CurriculumInv, RequestsSound
<1> DEFINE S == SeatedBy(seat, c) \cup req[h].left
           T == SeatedBy(seat', c)
<1>5. capacity[c] = req[h].capacity /\ Cardinality(S) <= req[h].capacity /\ req[h].capacity \in Nat
  BY <1>1, <1>3, <1>4, PlacementAssumption DEF Relies, Open, Seating
<1>6. S \in SUBSET Students /\ T \in SUBSET S
  BY <1>3, <1>4 DEF SeatedBy, Seating, SeatsInv, CurriculumInv, PlacementTypeOK
<1> HIDE DEF S, T
<1>7. Cardinality(T) <= capacity[c]
  BY <1>5, <1>6, CountIsMonotone
<1> QED
  BY <1>7 DEF T

LEMMA UnseatsNext ==
  ASSUME SeatsInv, [CurriculumNext]_vars
  PROVE  UnseatsNobody
<1> SUFFICES ASSUME NEW s \in Students, seat[s] \in Open \ Open'
             PROVE  \E h \in Handlers :
                      req[h].pc = "deletingClass" /\ req[h].class = seat[s] /\ req[h].stale
  BY DEF UnseatsNobody
<1>1. capacity' # capacity
  BY DEF Open
<1>2. ~PlacementStep
  BY PlacementStepKeeps DEF SeatsInv, PlacementKept
<1>3. \A c \in Classes, n \in Capacities : ~ClassCreated(c, n)
  <2> SUFFICES ASSUME NEW c \in Classes, NEW n \in Capacities, ClassCreated(c, n)
               PROVE  FALSE
    OBVIOUS
  <2>1. capacity' = [capacity EXCEPT ![c] = n]
    BY DEF ClassCreated, CreateClass
  <2> QED
    BY <2>1, PlacementAssumption DEF Open, SeatsInv, CurriculumInv, PlacementTypeOK
<1>4. PICK h \in Handlers : CurriculumStep(h)
  <2>1. ~RosterStep
    BY <1>1, <1>3 DEF RosterStep, StudentCreated, CreateStudent, StudentRemoved, RemoveStudent,
       TeacherCreated, TeacherRemoved, TermCreated, TermRemoved, CreateSubject
  <2> QED
    BY <1>1, <1>2, <2>1 DEF CurriculumNext, vars
<1>5. ClassRemoved(h)
  BY <1>1, <1>4, CurriculumStepMoves DEF SeatsInv
<1>6. req[h].pc = "deletingClass" /\ req[h] \in DeletingClass /\ Relies(req[h], capacity, seat)
  BY <1>5, Shapes DEF ClassRemoved, SeatsInv, CurriculumInv, RequestsSound
<1>7. capacity' = [capacity EXCEPT ![req[h].class] = NoClass]
  BY <1>1, <1>5 DEF ClassRemoved, Die
<1>8. req[h].class = seat[s]
  BY <1>6, <1>7 DEF Open, SeatsInv, CurriculumInv, PlacementTypeOK
<1>9. s \in SeatedBy(seat, req[h].class)
  BY <1>8 DEF SeatedBy
<1>10. req[h].stale
  BY <1>6, <1>9 DEF Relies, DeletingClass
<1> QED
  BY <1>6, <1>8, <1>10

\* "Class is at full capacity", "Cannot delete class, it has students": unless
\* another request seated somebody or changed the capacity since the class was
\* counted, a placement fills it within its capacity and a deletion finds it
\* empty.
THEOREM SeatsHoldAlways == CurriculumSpec => SeatsHold
<1>1. SeatsInv /\ [CurriculumNext]_vars => [FillsWithinCapacity /\ UnseatsNobody]_vars
  BY FillsNext, UnseatsNext
<1> QED
  BY <1>1, SeatsInvariant, PTL DEF CurriculumSpec, SeatsHold

--------------------------------------------------------------------------------
(***************************************************************************)
(* Copied lists.                                                           *)
(***************************************************************************)

\* Owners that are not in the table, and owners whose rows stay.
Absent == {x \in Owners : Gone(x)}
SameSource(x) == \A t : Source(x, t)' = Source(x, t)

\* A list that was read and is about to be written is that of the rows, unless
\* the request is stale or the owner is gone.
Reads(h) ==
  req[h].pc = "syncing" /\ req[h].at # Nobody /\ ~req[h].stale =>
    req[h].at \in Absent \/ req[h].seen = Source(req[h].at, req[h].term)

\* A request that is about to delete offers knows all the lists they are copied
\* to, unless it is stale.
Knowing(h) ==
  /\ req[h].pc = "withdrawing" /\ ~req[h].stale /\ req[h].offer \in Offered =>
       OwnersOf({req[h].offer}) \subseteq req[h].todo
  /\ req[h].pc = "deletingSubject" /\ ~req[h].stale =>
       OwnersOf({o \in Offered : offer[o].subject = req[h].subject}) \subseteq req[h].todo

\* The inductive invariant.
ListsInv == CurriculumInv /\ ListsAgree /\ \A h \in Handlers : Reads(h) /\ Knowing(h)

\* A request that is at no list and has looked nothing up.
Idle(v) ==
  /\ v.pc # "syncing" \/ v.at = Nobody
  /\ v.pc \notin {"withdrawing", "deletingSubject"}

LEMMA IdleRequests ==
  ASSUME NEW todo, NEW t, NEW o, NEW left
  PROVE  /\ Idle(Free) /\ Due(Free) = {}
         /\ Idle(Sync(todo)) /\ Due(Sync(todo)) = todo
         /\ Idle(Syncing(todo, t, o, left)) /\ Due(Syncing(todo, t, o, left)) = todo
<1>1. Idle(Free) /\ Due(Free) = {}
  BY DEF Idle, Due, Free
<1>2. /\ Syncing(todo, t, o, left).pc = "syncing" /\ Syncing(todo, t, o, left).at = Nobody
      /\ Syncing(todo, t, o, left).todo = todo
      /\ Sync(todo).pc = "syncing" /\ Sync(todo).at = Nobody /\ Sync(todo).todo = todo
  BY DEF Sync, Syncing
<1> QED
  BY <1>1, <1>2 DEF Idle, Due

LEMMA IdleIsRight ==
  ASSUME NEW h \in Handlers, Idle(req[h])'
  PROVE  Reads(h)' /\ Knowing(h)'
BY DEF Idle, Reads, Knowing

\* ListsAgree, owner by owner.
LEMMA AgreeWhere ==
  ASSUME \A x \in Owners :
           \/ x \in Absent' \/ x \in stray'
           \/ (\E g \in Handlers : x \in Due(req'[g])) \/ ids'[x] = Source(x, copied[x])'
  PROVE  ListsAgree'
BY DEF ListsAgree, Absent, Due

\* Withdrawals and lost teachers leave a request knowing.
LEMMA KnowingShrinks ==
  ASSUME CurriculumInv, NEW g \in Handlers, Knowing(g), Aged(req[g], req'[g]),
         Offered' \subseteq Offered, \A o \in Offered' : offer'[o] = offer[o],
         teaches' \subseteq teaches
  PROVE  Knowing(g)'
<1>1. req[g] \in Request
  BY DEF CurriculumInv, RequestsSound
<1>2. CASE req'[g] = req[g]
  <2>1. \A o \in Offered' : TeachersOf(o)' \subseteq TeachersOf(o)
    BY DEF TeachersOf
  <2>2. \A o \in Offered' : OwnersOf({o})' \subseteq OwnersOf({o})
    BY <2>1 DEF OwnersOf
  <2>3. ASSUME NEW m
        PROVE  OwnersOf({o \in Offered : offer[o].subject = m})'
                 \subseteq OwnersOf({o \in Offered : offer[o].subject = m})
    BY <2>1 DEF OwnersOf
  <2>4. PICK m : m = req[g].subject
    OBVIOUS
  <2>5. PICK o : o = req[g].offer
    OBVIOUS
  <2>6. req'[g].pc = "withdrawing" /\ ~req'[g].stale /\ o \in Offered' =>
          OwnersOf({o})' \subseteq req'[g].todo
    BY <1>2, <2>2, <2>5 DEF Knowing
  <2>7. req'[g].pc = "deletingSubject" /\ ~req'[g].stale =>
          OwnersOf({p \in Offered : offer[p].subject = m})' \subseteq req'[g].todo
    BY <1>2, <2>3, <2>4 DEF Knowing
  <2>8. req'[g].subject = m /\ req'[g].offer = o
    BY <1>2, <2>4, <2>5
  <2> QED
    BY <2>6, <2>7, <2>8 DEF Knowing
<1>3. CASE req'[g] # req[g]
  <2>1. req'[g] = [req[g] EXCEPT !.stale = TRUE]
    BY <1>3 DEF Aged
  <2>2. req[g].pc = "withdrawing" => req'[g].stale
    BY <1>1, <2>1, Shapes DEF Withdrawing
  <2>3. req[g].pc = "deletingSubject" => req'[g].stale
    BY <1>1, <2>1, Shapes DEF DeletingSubject
  <2>4. req'[g].pc = req[g].pc
    BY <1>1, AgedIsRequest
  <2> QED
    BY <2>2, <2>3, <2>4 DEF Knowing
<1> QED
  BY <1>2, <1>3

\* The step of handler h that changes the rows of the lists in xs.
LEMMA ListsAdvance ==
  ASSUME ListsInv, CurriculumInv', NEW h \in Handlers, NEW next, Advance(req, req', h, next),
         NEW xs \in SUBSET Owners, \A x \in Owners \ xs : SameSource(x) \/ x \in Absent',
         ids' = ids, copied' = copied, stray \subseteq stray', Absent \subseteq Absent',
         Due(req[h]) \subseteq Due(next) \cup stray' \cup Absent',
         xs \subseteq Due(next) \cup stray',
         \A g \in Handlers \ {h} : req[g].pc = "syncing" /\ req[g].at \in xs => req'[g].stale,
         Reads(h)', \A g \in Handlers : Knowing(g)'
  PROVE  ListsInv'
<1>1. req'[h] = next /\ \A g \in Handlers \ {h} : Aged(req[g], req'[g]) /\ req[g] \in Request
  BY DEF Advance, ListsInv, CurriculumInv, RequestsSound
<1>2. \A g \in Handlers \ {h} : Due(req'[g]) = Due(req[g])
  BY <1>1, AgedIsRequest
<1>3. ASSUME NEW x \in Owners
      PROVE  \/ x \in Absent' \/ x \in stray'
             \/ (\E g \in Handlers : x \in Due(req'[g])) \/ ids'[x] = Source(x, copied[x])'
  <2> SUFFICES ASSUME x \notin Absent', x \notin stray', \A g \in Handlers : x \notin Due(req'[g])
               PROVE  ids'[x] = Source(x, copied[x])'
    OBVIOUS
  <2>1. x \notin Absent /\ x \notin stray /\ x \notin xs
    BY <1>1
  <2>2. \A g \in Handlers : x \notin Due(req[g])
    BY <1>1, <1>2
  <2>3. PICK t : t = copied[x]
    OBVIOUS
  <2>4. ids[x] = Source(x, t)
    BY <2>1, <2>2, <2>3 DEF ListsInv, ListsAgree, Absent
  <2>5. Source(x, t)' = Source(x, t)
    BY <2>1 DEF SameSource
  <2> QED
    BY <2>3, <2>4, <2>5
<1>4. ListsAgree'
  BY <1>3, AgreeWhere
<1>5. ASSUME NEW g \in Handlers \ {h}
      PROVE  Reads(g)'
  <2> SUFFICES ASSUME req'[g].pc = "syncing", req'[g].at # Nobody, ~req'[g].stale
               PROVE  req'[g].at \in Absent' \/ req'[g].seen = Source(req[g].at, req[g].term)'
    BY DEF Reads
  <2>1. req'[g] = req[g]
    <3>1. req[g].pc = "syncing" /\ req[g] \in SyncingLists
      BY <1>1, AgedIsRequest, Shapes
    <3> QED
      BY <1>1, <3>1 DEF Aged, SyncingLists
  <2>2. req[g].at \in Owners \ xs
    BY <1>1, <2>1, Shapes DEF SyncingLists
  <2>3. PICK x, t : x = req[g].at /\ t = req[g].term
    OBVIOUS
  <2>4. x \in Absent \/ req[g].seen = Source(x, t)
    BY <2>1, <2>3 DEF ListsInv, Reads
  <2>5. x \in Absent' \/ Source(x, t)' = Source(x, t)
    BY <2>2, <2>3 DEF SameSource
  <2>6. x \in Absent' \/ req'[g].seen = Source(x, t)'
    BY <2>1, <2>4, <2>5
  <2> QED
    BY <2>1, <2>3, <2>6
<1> QED
  BY <1>4, <1>5 DEF ListsInv

LEMMA SourcesStay ==
  ASSUME UNCHANGED <<offer, teaches, registered>>, NEW x
  PROVE  SameSource(x)
BY DEF SameSource, Source, Rows, Offered

\* A handler that changes no rows.
LEMMA RowsStayAdvance ==
  ASSUME ListsInv, CurriculumInv', NEW h \in Handlers, NEW next, Advance(req, req', h, next),
         UNCHANGED <<capacity, seat, hired, offer, teaches, registered, ids, copied>>,
         stray \subseteq stray', Due(req[h]) \subseteq Due(next) \cup stray' \cup Absent,
         Reads(h)', Knowing(h)'
  PROVE  ListsInv'
<1>1. Absent' = Absent /\ Offered' = Offered
  BY DEF Absent, Gone, Open, Enrolled, Offered
<1>2. \A g \in Handlers \ {h} : Knowing(g)'
  <2> SUFFICES ASSUME NEW g \in Handlers \ {h}
               PROVE  Knowing(g)'
    OBVIOUS
  <2>1. Aged(req[g], req'[g]) /\ CurriculumInv /\ Knowing(g)
    BY DEF Advance, ListsInv
  <2> QED
    BY <1>1, <2>1, KnowingShrinks
<1>3. \A g \in Handlers : Knowing(g)'
  BY <1>2
<1> DEFINE none == {}
<1>4. \A x \in Owners \ none : SameSource(x) \/ x \in Absent'
  BY SourcesStay
<1>5. /\ none \in SUBSET Owners /\ none \subseteq Due(next) \cup stray'
      /\ \A g \in Handlers \ {h} : req[g].pc = "syncing" /\ req[g].at \in none => req'[g].stale
  OBVIOUS
<1> HIDE DEF none
<1>6. /\ Due(req[h]) \subseteq Due(next) \cup stray' \cup Absent' /\ Absent \subseteq Absent'
      /\ ids' = ids /\ copied' = copied
  BY <1>1
<1> QED
  BY <1>3, <1>4, <1>5, <1>6, ListsAdvance

LEMMA BeginLists ==
  ASSUME ListsInv, CurriculumInv', NEW h \in Handlers, NEW next, Begin(h, next), Idle(next),
         UNCHANGED <<capacity, seat, curriculum>>
  PROVE  ListsInv'
<1>1. Advance(req, req', h, next) /\ req[h] = Free
  BY ExceptAdvances DEF Begin, ListsInv, CurriculumInv, RequestsSound
<1>2. Due(req[h]) = {}
  BY <1>1 DEF Due, Free
<1>3. Reads(h)' /\ Knowing(h)'
  BY <1>1, IdleIsRight DEF Advance
<1> QED
  BY <1>1, <1>2, <1>3, RowsStayAdvance DEF curriculum

\* A request gives up without a list to write.
LEMMA RefusalLists ==
  ASSUME ListsInv, CurriculumInv', NEW h \in Handlers, req' = [req EXCEPT ![h] = Free],
         Due(req[h]) \subseteq stray', stray \subseteq stray',
         UNCHANGED <<capacity, seat, hired, offer, teaches, registered, ids, copied>>
  PROVE  ListsInv'
<1>1. Advance(req, req', h, Free)
  BY ExceptAdvances DEF ListsInv, CurriculumInv, RequestsSound
<1>2. Idle(Free) /\ req'[h] = Free
  BY <1>1, IdleRequests DEF Advance
<1>3. Reads(h)' /\ Knowing(h)'
  BY <1>2, IdleIsRight
<1> QED
  BY <1>1, <1>3, RowsStayAdvance

\* The rows of the lists in xs have changed, and the readers of these know.
LEMMA TouchMarks ==
  ASSUME CurriculumInv, NEW h \in Handlers, NEW next, NEW xs, NEW ms, Touch(h, next, xs, ms)
  PROVE  \A g \in Handlers \ {h} :
           /\ req[g].pc = "syncing" /\ req[g].at \in xs => req'[g].stale
           /\ req[g].pc = "deletingSubject" /\ req[g].subject \in ms => req'[g].stale
           /\ req[g].pc = "withdrawing" /\ req[g].offer \in Offered
                /\ offer[req[g].offer].subject \in ms => req'[g].stale
<1> SUFFICES ASSUME NEW g \in Handlers \ {h}
             PROVE  /\ req[g].pc = "syncing" /\ req[g].at \in xs => req'[g].stale
                    /\ req[g].pc = "deletingSubject" /\ req[g].subject \in ms => req'[g].stale
                    /\ req[g].pc = "withdrawing" /\ req[g].offer \in Offered
                         /\ offer[req[g].offer].subject \in ms => req'[g].stale
  OBVIOUS
<1>1. req'[g] = Touched(req[g], xs, ms) /\ req[g] \in Request
  BY DEF Touch, CurriculumInv, RequestsSound
<1>2. req[g].pc = "syncing" => req[g] \in SyncingLists
  BY <1>1, Shapes
<1>3. req[g].pc = "deletingSubject" => req[g] \in DeletingSubject
  BY <1>1, Shapes
<1>4. req[g].pc = "withdrawing" => req[g] \in Withdrawing
  BY <1>1, Shapes
<1>5. req[g].pc \in {"syncing", "deletingSubject", "withdrawing"} => [req[g] EXCEPT !.stale = TRUE].stale
  BY <1>2, <1>3, <1>4 DEF SyncingLists, DeletingSubject, Withdrawing
<1> QED
  BY <1>1, <1>5 DEF Touched

LEMMA SourcesAfterOffer ==
  ASSUME CurriculumInv, NEW o, NEW c, o \notin Offered,
         Offered' = Offered \cup {o}, \A p \in Offered : offer'[p] = offer[p],
         offer'[o].class = c, UNCHANGED <<teaches, registered>>, NEW x \in Owners \ {c}
  PROVE  SameSource(x)
<1> SUFFICES ASSUME NEW t
             PROVE  Source(x, t)' = Source(x, t)
  BY DEF SameSource
<1>1. <<o, x>> \notin teaches /\ <<x, o, t>> \notin registered
  BY DEF CurriculumInv, KeysHold
<1>2. Rows(x, t)' = Rows(x, t)
  BY <1>1 DEF Rows
<1>3. \A p \in Rows(x, t) : offer'[p] = offer[p]
  BY DEF Rows
<1> QED
  BY <1>2, <1>3 DEF Source

LEMMA SourcesAfterLoss ==
  ASSUME CurriculumInv, NEW gone \in SUBSET Offered, \A o \in gone : ~IsRegistered(o),
         teaches' = {p \in teaches : p[1] \notin gone}, UNCHANGED registered,
         Offered' = Offered \ gone, \A o \in Offered \ gone : offer'[o] = offer[o],
         NEW x \in Owners \ OwnersOf(gone)
  PROVE  SameSource(x)
<1> SUFFICES ASSUME NEW t
             PROVE  Source(x, t)' = Source(x, t)
  BY DEF SameSource
<1>1. \A o \in gone : offer[o].class # x /\ <<o, x>> \notin teaches
  BY DEF OwnersOf, TeachersOf, CurriculumInv, KeysHold
<1>2. \A o \in gone : <<x, o, t>> \notin registered
  BY DEF IsRegistered, CurriculumInv, KeysHold, Enrolled
<1>3. Rows(x, t)' = Rows(x, t)
  <2>1. \A o \in Offered' : (<<o, x>> \in teaches' <=> <<o, x>> \in teaches)
    OBVIOUS
  <2> QED
    BY <1>1, <1>2, <2>1 DEF Rows
<1>4. \A p \in Rows(x, t) : offer'[p] = offer[p]
  BY <1>1, <1>2 DEF Rows
<1> QED
  BY <1>3, <1>4 DEF Source

LEMMA SourcesAfterTeacher ==
  ASSUME NEW o, NEW t, teaches' = teaches \cup {<<o, t>>} \/ teaches' = teaches \ {<<o, t>>},
         UNCHANGED <<offer, registered>>, NEW x, x # t
  PROVE  SameSource(x)
<1>1. \A p : <<p, x>> \in teaches' <=> <<p, x>> \in teaches
  OBVIOUS
<1> QED
  BY <1>1 DEF SameSource, Source, Rows, Offered

LEMMA OfferingRows ==
  ASSUME ListsInv, CurriculumInv', NEW h \in Handlers, NEW o \in Offers, NEW c \in Classes,
         NEW m \in Subjects, NEW kind \in Kinds, NEW next,
         Offerable(c, m), NewOffer(o, c, m, kind), Touch(h, next, {c}, {m}),
         Due(req[h]) \subseteq {c}, c \in Due(next), Idle(next),
         UNCHANGED <<capacity, seat, subjects, teaches, staff, registered, lists>>
  PROVE  ListsInv'
<1>1. CurriculumInv /\ Advance(req, req', h, next)
  BY TouchAdvances DEF ListsInv
<1>2. o \notin Offered /\ \A g \in Handlers : req[g].pc = "withdrawing" => req[g].offer # o
  BY DEF NewOffer, Fresh
<1>3. Offered' = Offered \cup {o} /\ \A p \in Offered : offer'[p] = offer[p]
  BY <1>1, NewOfferKeeps DEF CurriculumInv
<1>4. offer'[o].class = c /\ offer'[o].subject = m
  BY <1>1 DEF NewOffer, CurriculumInv, KeysHold
<1>5. \A x \in Owners \ {c} : SameSource(x)
  BY <1>1, <1>2, <1>3, <1>4, SourcesAfterOffer
<1>6. Absent' = Absent
  BY DEF Absent, Gone, Open, Enrolled
<1>7. \A g \in Handlers \ {h} :
        /\ Aged(req[g], req'[g]) /\ req[g] \in Request
        /\ req[g].pc = "syncing" /\ req[g].at \in {c} => req'[g].stale
        /\ req[g].pc = "deletingSubject" /\ req[g].subject = m => req'[g].stale
  <2>1. \A g \in Handlers \ {h} :
          /\ req[g].pc = "syncing" /\ req[g].at \in {c} => req'[g].stale
          /\ req[g].pc = "deletingSubject" /\ req[g].subject = m => req'[g].stale
    BY <1>1, TouchMarks
  <2> QED
    BY <1>1, <2>1 DEF Advance, CurriculumInv, RequestsSound
<1>8. ASSUME NEW g \in Handlers \ {h}
      PROVE  Knowing(g)'
  <2>1. CASE req'[g] = req[g] /\ req[g].pc = "withdrawing"
    <3>1. PICK p : p = req[g].offer
      OBVIOUS
    <3>2. p \in Offered' => p \in Offered /\ OwnersOf({p})' = OwnersOf({p})
      BY <1>2, <1>3, <2>1, <3>1 DEF OwnersOf, TeachersOf
    <3>3. ~req'[g].stale /\ p \in Offered' => OwnersOf({p})' \subseteq req'[g].todo
      BY <2>1, <3>1, <3>2 DEF ListsInv, Knowing
    <3> QED
      BY <2>1, <3>1, <3>3 DEF Knowing
  <2>2. CASE req'[g] = req[g] /\ req[g].pc = "deletingSubject" /\ req[g].subject # m
    <3>1. PICK n : n = req[g].subject
      OBVIOUS
    <3>2. OwnersOf({p \in Offered : offer[p].subject = n})' = OwnersOf({p \in Offered : offer[p].subject = n})
      <4>1. {p \in Offered' : offer'[p].subject = n} = {p \in Offered : offer[p].subject = n}
        BY <1>3, <1>4, <2>2, <3>1
      <4>2. ASSUME NEW G, G = {p \in Offered : offer[p].subject = n}
            PROVE  /\ {offer'[p].class : p \in G} = {offer[p].class : p \in G}
                   /\ UNION {TeachersOf(p)' : p \in G} = UNION {TeachersOf(p) : p \in G}
        <5>1. \A p \in G : offer'[p] = offer[p] /\ TeachersOf(p)' = TeachersOf(p)
          BY <1>3, <4>2 DEF TeachersOf
        <5> QED
          BY <5>1
      <4> QED
        BY <4>1, <4>2 DEF OwnersOf
    <3>3. ~req'[g].stale => OwnersOf({p \in Offered : offer[p].subject = n})' \subseteq req'[g].todo
      BY <2>2, <3>1, <3>2 DEF ListsInv, Knowing
    <3> QED
      BY <2>2, <3>1, <3>3 DEF Knowing
  <2>3. CASE req[g].pc \notin {"withdrawing", "deletingSubject"}
    <3>1. req'[g].pc = req[g].pc
      BY <1>7, AgedIsRequest
    <3> QED
      BY <2>3, <3>1 DEF Knowing
  <2>4. CASE req[g].pc \in {"withdrawing", "deletingSubject"} /\ req'[g].stale
    BY <2>4 DEF Knowing
  <2>5. req'[g] # req[g] /\ req[g].pc \in {"withdrawing", "deletingSubject"} => req'[g].stale
    BY <1>7, Shapes DEF Aged, Withdrawing, DeletingSubject
  <2> QED
    BY <1>7, <2>1, <2>2, <2>3, <2>4, <2>5
<1>9. Reads(h)' /\ Knowing(h)'
  BY <1>1, IdleIsRight DEF Advance
<1> DEFINE xs == {c}
<1>10. /\ xs \in SUBSET Owners /\ xs \subseteq Due(next) \cup stray'
       /\ \A x \in Owners \ xs : SameSource(x) \/ x \in Absent'
       /\ \A g \in Handlers \ {h} : req[g].pc = "syncing" /\ req[g].at \in xs => req'[g].stale
       /\ ids' = ids /\ copied' = copied /\ stray \subseteq stray' /\ Absent \subseteq Absent'
       /\ Due(req[h]) \subseteq Due(next) \cup stray' \cup Absent'
       /\ \A g \in Handlers : Knowing(g)'
  BY <1>5, <1>6, <1>7, <1>8, <1>9 DEF Owners
<1> HIDE DEF xs
<1> QED
  BY <1>1, <1>9, <1>10, ListsAdvance

\* A deletion of offers: the lists of their owners are due or strays.
LEMMA LossRows ==
  ASSUME ListsInv, CurriculumInv', NEW h \in Handlers, NEW next, NEW xs \in SUBSET Owners,
         NEW gone \in SUBSET Offered, \A o \in gone : ~IsRegistered(o),
         teaches' = {p \in teaches : p[1] \notin gone}, UNCHANGED <<registered, ids, copied>>,
         Offered' = Offered \ gone, \A o \in Offered \ gone : offer'[o] = offer[o],
         OwnersOf(gone) \subseteq xs \cup Absent', Absent \subseteq Absent',
         Touch(h, next, xs, {}), Idle(next),
         Due(req[h]) = {}, stray \subseteq stray', xs \subseteq Due(next) \cup stray'
  PROVE  ListsInv'
<1>1. CurriculumInv /\ Advance(req, req', h, next)
  BY TouchAdvances DEF ListsInv
<1>2. \A x \in Owners \ xs : SameSource(x) \/ x \in Absent'
  BY <1>1, SourcesAfterLoss
<1>3. \A g \in Handlers \ {h} : req[g].pc = "syncing" /\ req[g].at \in xs => req'[g].stale
  BY <1>1, TouchMarks
<1>4. Reads(h)' /\ Knowing(h)'
  BY <1>1, IdleIsRight DEF Advance
<1>5. ASSUME NEW g \in Handlers \ {h}
      PROVE  Knowing(g)'
  <2>1. Aged(req[g], req'[g]) /\ Knowing(g)
    BY <1>1 DEF Advance, ListsInv
  <2> QED
    BY <1>1, <2>1, KnowingShrinks
<1>6. \A g \in Handlers : Knowing(g)'
  BY <1>4, <1>5
<1> QED
  BY <1>1, <1>2, <1>3, <1>4, <1>6, ListsAdvance

LEMMA WithdrawLists ==
  ASSUME ListsInv, CurriculumInv', NEW h \in Handlers, NEW gone \in SUBSET Offered,
         req[h] \in Withdrawing \cup DeletingSubject, Withdraw(h, gone),
         ~req[h].stale => OwnersOf(gone) \subseteq req[h].todo,
         UNCHANGED <<capacity, seat, served, staff, registered, ids, copied>>
  PROVE  ListsInv'
<1> DEFINE next == IF req[h].todo = {} THEN Free ELSE Sync(req[h].todo)
<1>1. Due(req[h]) = {}
  BY DEF Due, Withdrawing, DeletingSubject
<1>2. CASE \E o \in gone : IsRegistered(o)
  <2>1. req' = [req EXCEPT ![h] = Free] /\ UNCHANGED <<offer, teaches, stray>>
    BY <1>2 DEF Withdraw
  <2> QED
    BY <1>1, <2>1, RefusalLists
<1>3. CASE ~\E o \in gone : IsRegistered(o)
  <2>1. /\ offer' = [o \in Offers |-> IF o \in gone THEN NoOffer ELSE offer[o]]
        /\ teaches' = {p \in teaches : p[1] \notin gone}
        /\ Touch(h, next, OwnersOf(gone), {})
        /\ stray' = IF req[h].stale THEN stray \cup (OwnersOf(gone) \ req[h].todo) ELSE stray
    BY <1>3 DEF Withdraw, OwnersOf
  <2>2. Idle(next) /\ Due(next) = req[h].todo
    BY IdleRequests
  <2> HIDE DEF next
  <2>3. OwnersOf(gone) \in SUBSET Owners
    BY OwnersOfAreOwners DEF ListsInv, CurriculumInv
  <2>4. /\ Offered' = Offered \ gone
        /\ \A o \in Offered \ gone : offer'[o] = offer[o]
    BY <2>1, CurriculumAssumption DEF Offered
  <2>5. Absent' = Absent
    BY DEF Absent, Gone, Open, Enrolled
  <2>6. stray \subseteq stray' /\ OwnersOf(gone) \subseteq Due(next) \cup stray'
    BY <2>1, <2>2 DEF Withdrawing, DeletingSubject
  <2>7. PICK xs \in SUBSET Owners : xs = OwnersOf(gone)
    BY <2>3
  <2>8. OwnersOf(gone) \subseteq xs \cup Absent' /\ Absent \subseteq Absent'
    BY <2>5, <2>7
  <2>9. Touch(h, next, xs, {}) /\ xs \subseteq Due(next) \cup stray'
    BY <2>1, <2>6, <2>7
  <2> QED
    BY <1>1, <1>3, <2>1, <2>2, <2>4, <2>6, <2>8, <2>9, LossRows
<1> QED
  BY <1>2, <1>3

LEMMA SubjectRemovedLists ==
  ASSUME ListsInv, CurriculumInv', NEW h \in Handlers, SubjectRemoved(h)
  PROVE  ListsInv'
<1>1. req[h] \in Withdrawing /\ req[h].pc = "withdrawing"
  BY Shapes DEF SubjectRemoved, ListsInv, CurriculumInv, RequestsSound
<1>2. CASE req[h].offer \in Offered
  <2>1. ~req[h].stale => OwnersOf({req[h].offer}) \subseteq req[h].todo
    BY <1>1, <1>2 DEF ListsInv, Knowing
  <2> QED
    BY <1>1, <1>2, <2>1, WithdrawLists DEF SubjectRemoved
<1>3. CASE req[h].offer \notin Offered
  <2>1. Due(req[h]) = {}
    BY <1>1 DEF Due
  <2> QED
    BY <1>3, <2>1, RefusalLists DEF SubjectRemoved
<1> QED
  BY <1>2, <1>3

LEMMA SubjectDeletedLists ==
  ASSUME ListsInv, CurriculumInv', NEW h \in Handlers, SubjectDeleted(h)
  PROVE  ListsInv'
<1>1. req[h] \in DeletingSubject /\ req[h].pc = "deletingSubject"
  BY Shapes DEF SubjectDeleted, ListsInv, CurriculumInv, RequestsSound
<1> DEFINE gone == {o \in Offered : offer[o].subject = req[h].subject}
<1>2. CASE req[h].subject \in subjects
  <2>1. ~req[h].stale => OwnersOf(gone) \subseteq req[h].todo
    BY <1>1 DEF ListsInv, Knowing
  <2>2. Withdraw(h, gone) /\ gone \in SUBSET Offered
    BY <1>2 DEF SubjectDeleted
  <2> HIDE DEF gone
  <2> QED
    BY <1>1, <2>1, <2>2, WithdrawLists DEF SubjectDeleted
<1>3. CASE req[h].subject \notin subjects
  <2>1. Due(req[h]) = {}
    BY <1>1 DEF Due
  <2> QED
    BY <1>3, <2>1, RefusalLists DEF SubjectDeleted
<1> QED
  BY <1>2, <1>3

LEMMA ClassRemovedLists ==
  ASSUME ListsInv, CurriculumInv', NEW h \in Handlers, ClassRemoved(h)
  PROVE  ListsInv'
<1> DEFINE c == req[h].class
           gone == OffersOf(c)
           ts == UNION {TeachersOf(o) : o \in gone}
<1>1. req[h] \in DeletingClass /\ c \in Classes /\ Due(req[h]) = {}
  BY Shapes DEF ClassRemoved, ListsInv, CurriculumInv, RequestsSound, DeletingClass, Due
<1>2. CASE \E o \in gone : IsRegistered(o)
  <2>1. /\ req' = [req EXCEPT ![h] = Free]
        /\ UNCHANGED <<capacity, seat, offer, teaches, staff, registered, lists>>
    BY <1>2 DEF ClassRemoved, Die, curriculum
  <2> QED
    BY <1>1, <2>1, RefusalLists
<1>3. CASE ~\E o \in gone : IsRegistered(o)
  <2>1. /\ capacity' = [capacity EXCEPT ![c] = NoClass]
        /\ offer' = [o \in Offers |-> IF o \in gone THEN NoOffer ELSE offer[o]]
        /\ teaches' = {p \in teaches : p[1] \notin gone}
        /\ stray' = stray \cup ts
        /\ Touch(h, Free, ts, {})
        /\ seat' = [s \in Students |-> IF seat[s] = c THEN NoClass ELSE seat[s]]
        /\ UNCHANGED <<staff, registered, ids, copied>>
    BY <1>3 DEF ClassRemoved
  <2>2. Open' = Open \ {c} /\ Enrolled' = Enrolled
    <3> HIDE DEF gone, ts
    <3> QED
      BY <1>1, <2>1, PlacementAssumption DEF Open, Enrolled, ListsInv, CurriculumInv, PlacementTypeOK
  <2>3. gone \in SUBSET Offered /\ ts \in SUBSET Owners
    BY DEF OffersOf, TeachersOf, Owners
  <2>4. OwnersOf(gone) \subseteq ts \cup {c}
    BY DEF OwnersOf, OffersOf
  <2>5. /\ Offered' = Offered \ gone
        /\ \A o \in Offered \ gone : offer'[o] = offer[o]
    <3> HIDE DEF gone, ts
    <3> QED
      BY <2>1, CurriculumAssumption DEF Offered
  <2>6. OwnersOf(gone) \subseteq ts \cup Absent' /\ Absent \subseteq Absent'
    <3> HIDE DEF gone, ts
    <3>1. c \in Absent' /\ Absent \subseteq Absent'
      BY <1>1, <2>1, <2>2 DEF Absent, Gone, Owners
    <3> QED
      BY <2>4, <3>1
  <2>7. Idle(Free) /\ ts \subseteq Due(Free) \cup stray' /\ stray \subseteq stray'
    BY <2>1, IdleRequests
  <2> HIDE DEF gone, ts
  <2> QED
    BY <1>1, <1>3, <2>1, <2>3, <2>5, <2>6, <2>7, LossRows
<1> QED
  BY <1>2, <1>3

\* A teacher comes or goes: his list is due.
LEMMA TeacherRows ==
  ASSUME ListsInv, CurriculumInv', NEW h \in Handlers, NEW o \in Offered, NEW t \in Teachers,
         NEW next, NEW ms,
         \/ teaches' = teaches \cup {<<o, t>>} /\ offer[o].subject \in ms
         \/ teaches' = teaches \ {<<o, t>>},
         Touch(h, next, {t}, ms), Due(req[h]) = {}, t \in Due(next), Idle(next),
         UNCHANGED <<capacity, seat, offer, staff, registered, lists>>
  PROVE  ListsInv'
<1>1. CurriculumInv /\ Advance(req, req', h, next)
  BY TouchAdvances DEF ListsInv
<1>2. \A x \in Owners \ {t} : SameSource(x)
  BY SourcesAfterTeacher
<1>3. Absent' = Absent /\ Offered' = Offered
  BY DEF Absent, Gone, Open, Enrolled, Offered
<1>4. \A g \in Handlers \ {h} :
        /\ req[g].pc = "syncing" /\ req[g].at \in {t} => req'[g].stale
        /\ req[g].pc = "deletingSubject" /\ req[g].subject \in ms => req'[g].stale
        /\ req[g].pc = "withdrawing" /\ req[g].offer \in Offered
             /\ offer[req[g].offer].subject \in ms => req'[g].stale
  BY <1>1, TouchMarks
<1>5. Reads(h)' /\ Knowing(h)'
  BY <1>1, IdleIsRight DEF Advance
<1>6. ASSUME NEW g \in Handlers \ {h}
      PROVE  Knowing(g)'
  <2>1. /\ Aged(req[g], req'[g]) /\ Knowing(g) /\ req[g] \in Request
        /\ req'[g].pc = req[g].pc
    BY <1>1, AgedIsRequest DEF Advance, ListsInv, CurriculumInv, RequestsSound
  <2>2. CASE teaches' = teaches \ {<<o, t>>}
    BY <1>1, <1>3, <2>1, <2>2, KnowingShrinks
  <2>3. CASE teaches' = teaches \cup {<<o, t>>} /\ offer[o].subject \in ms
    <3>1. \A p \in Offered \ {o} : TeachersOf(p)' = TeachersOf(p)
      BY <2>3 DEF TeachersOf
    <3>2. CASE req[g].pc = "withdrawing"
      <4>1. PICK p : p = req[g].offer
        OBVIOUS
      <4>2. CASE p = o
        BY <1>4, <2>1, <2>3, <3>2, <4>1, <4>2 DEF Knowing
      <4>3. CASE p # o /\ req'[g] = req[g]
        <5>1. p \in Offered => OwnersOf({p})' = OwnersOf({p})
          BY <3>1, <4>3 DEF OwnersOf
        <5>2. ~req'[g].stale /\ p \in Offered' => OwnersOf({p})' \subseteq req'[g].todo
          BY <1>3, <2>1, <3>2, <4>1, <4>3, <5>1 DEF Knowing
        <5> QED
          BY <3>2, <4>1, <4>3, <5>2 DEF Knowing
      <4>4. CASE req'[g] # req[g]
        <5>1. req'[g].stale
          BY <2>1, <3>2, <4>4, Shapes DEF Aged, Withdrawing
        <5> QED
          BY <2>1, <3>2, <5>1 DEF Knowing
      <4> QED
        BY <4>2, <4>3, <4>4
    <3>3. CASE req[g].pc = "deletingSubject"
      <4>1. PICK m : m = req[g].subject
        OBVIOUS
      <4>2. CASE m = offer[o].subject
        BY <1>4, <2>1, <2>3, <3>3, <4>1, <4>2 DEF Knowing
      <4>3. CASE m # offer[o].subject /\ req'[g] = req[g]
        <5>1. ASSUME NEW G, G = {p \in Offered : offer[p].subject = m}
              PROVE  UNION {TeachersOf(p)' : p \in G} = UNION {TeachersOf(p) : p \in G}
          <6>1. \A p \in G : TeachersOf(p)' = TeachersOf(p)
            BY <3>1, <4>3, <5>1
          <6> QED
            BY <6>1
        <5>2. OwnersOf({p \in Offered : offer[p].subject = m})'
                = OwnersOf({p \in Offered : offer[p].subject = m})
          BY <1>3, <5>1 DEF OwnersOf
        <5>3. ~req'[g].stale =>
                OwnersOf({p \in Offered : offer[p].subject = m})' \subseteq req'[g].todo
          BY <2>1, <3>3, <4>1, <4>3, <5>2 DEF Knowing
        <5> QED
          BY <3>3, <4>1, <4>3, <5>3 DEF Knowing
      <4>4. CASE req'[g] # req[g]
        <5>1. req'[g].stale
          BY <2>1, <3>3, <4>4, Shapes DEF Aged, DeletingSubject
        <5> QED
          BY <2>1, <3>3, <5>1 DEF Knowing
      <4> QED
        BY <4>2, <4>3, <4>4
    <3>4. CASE req[g].pc \notin {"withdrawing", "deletingSubject"}
      BY <2>1, <3>4 DEF Knowing
    <3> QED
      BY <3>2, <3>3, <3>4
  <2> QED
    BY <2>2, <2>3
<1> DEFINE xs == {t}
<1>7. /\ xs \in SUBSET Owners /\ xs \subseteq Due(next) \cup stray'
      /\ \A x \in Owners \ xs : SameSource(x) \/ x \in Absent'
      /\ \A g \in Handlers \ {h} : req[g].pc = "syncing" /\ req[g].at \in xs => req'[g].stale
      /\ ids' = ids /\ copied' = copied /\ stray \subseteq stray' /\ Absent \subseteq Absent'
      /\ Due(req[h]) \subseteq Due(next) \cup stray' \cup Absent'
      /\ \A g \in Handlers : Knowing(g)'
  BY <1>2, <1>3, <1>4, <1>5, <1>6 DEF Owners
<1> HIDE DEF xs
<1> QED
  BY <1>1, <1>5, <1>7, ListsAdvance

LEMMA AssignSubjectLists ==
  ASSUME ListsInv, CurriculumInv', NEW h \in Handlers, NEW o \in Offers, NEW c \in Classes,
         NEW m \in Subjects, NEW kind \in Kinds, AssignSubjectToClass(h, o, c, m, kind)
  PROVE  ListsInv'
<1>1. req[h] = Free /\ Touch(h, Sync({c}), {c}, {m})
  BY DEF AssignSubjectToClass, BeginTouching
<1>2. Due(req[h]) \subseteq {c} /\ c \in Due(Sync({c})) /\ Idle(Sync({c}))
  BY <1>1, IdleRequests
<1> QED
  BY <1>1, <1>2, OfferingRows DEF AssignSubjectToClass

LEMMA OfferSubjectLists ==
  ASSUME ListsInv, CurriculumInv', NEW h \in Handlers, NEW o \in Offers,
         NEW item \in Subjects \X Kinds, OfferSubject(h, o, item)
  PROVE  ListsInv'
<1> DEFINE c == req[h].class
           left == req[h].left \ {item}
           w == [req[h] EXCEPT !.left = left]
           next == IF left = {} THEN Sync({c}) ELSE w
<1>1. req[h] \in Offering /\ Due(req[h]) = {c}
  BY Shapes DEF OfferSubject, ListsInv, CurriculumInv, RequestsSound, Due, Offering
<1>2. c \in Classes /\ item[1] \in Subjects /\ item[2] \in Kinds
  BY <1>1 DEF Offering
<1>3. w.pc = "offering" /\ w.class = c
  BY <1>1 DEF Offering
<1>4. Idle(w) /\ Due(w) = {c}
  BY <1>3 DEF Idle, Due
<1> HIDE DEF w
<1>5. Idle(next) /\ Due(next) = {c}
  BY <1>4, IdleRequests
<1>6. /\ \/ Offerable(c, item[1]) /\ NewOffer(o, c, item[1], item[2]) /\ Touch(h, next, {c}, {item[1]})
         \/ offer' = offer /\ req' = [req EXCEPT ![h] = next]
      /\ UNCHANGED <<capacity, seat, served, subjects, teaches, staff, registered, lists>>
  BY DEF OfferSubject, w
<1> HIDE DEF next
<1>7. CASE Offerable(c, item[1]) /\ NewOffer(o, c, item[1], item[2]) /\ Touch(h, next, {c}, {item[1]})
  BY <1>1, <1>2, <1>5, <1>6, <1>7, OfferingRows
<1>8. CASE offer' = offer /\ req' = [req EXCEPT ![h] = next]
  <2>1. Advance(req, req', h, next)
    BY <1>8, ExceptAdvances DEF ListsInv, CurriculumInv, RequestsSound
  <2>2. Reads(h)' /\ Knowing(h)'
    BY <1>5, <2>1, IdleIsRight DEF Advance
  <2> QED
    BY <1>1, <1>5, <1>6, <1>8, <2>1, <2>2, RowsStayAdvance
<1> QED
  BY <1>6, <1>7, <1>8

\* What a deletion looks up is what it needs.
LEMMA LookUpLists ==
  ASSUME ListsInv, CurriculumInv', NEW h \in Handlers, NEW o \in Offers, RemoveSubjectFromClass(h, o)
  PROVE  ListsInv'
<1> DEFINE next == [pc |-> "withdrawing", offer |-> o, stale |-> FALSE,
                    todo |-> {offer[o].class} \cup TeachersOf(o)]
<1>1. Begin(h, next) /\ UNCHANGED <<capacity, seat>> /\ UNCHANGED curriculum
  BY DEF RemoveSubjectFromClass
<1>2. /\ next.pc = "withdrawing" /\ next.offer = o /\ OwnersOf({o}) \subseteq next.todo
  BY DEF OwnersOf
<1> HIDE DEF next
<1>3. Advance(req, req', h, next) /\ Due(req[h]) = {}
  BY <1>1, IdleRequests, ExceptAdvances DEF Begin, ListsInv, CurriculumInv, RequestsSound
<1>4. OwnersOf({o})' = OwnersOf({o})
  BY <1>1 DEF OwnersOf, TeachersOf, curriculum
<1>5. req'[h] = next
  BY <1>3 DEF Advance
<1>6. OwnersOf({o})' \subseteq req'[h].todo
  BY <1>2, <1>4, <1>5
<1>7. req'[h].pc = "withdrawing" /\ req'[h].offer = o
  BY <1>2, <1>5
<1>8. Knowing(h)'
  BY <1>6, <1>7 DEF Knowing
<1>9. Reads(h)'
  BY <1>7 DEF Reads
<1> QED
  BY <1>1, <1>3, <1>8, <1>9, RowsStayAdvance DEF curriculum

LEMMA DeleteSubjectLists ==
  ASSUME ListsInv, CurriculumInv', NEW h \in Handlers, NEW m \in Subjects, DeleteSubject(h, m)
  PROVE  ListsInv'
<1> DEFINE offers == {o \in Offered : offer[o].subject = m}
           todo == {offer[o].class : o \in offers} \cup UNION {TeachersOf(o) : o \in offers}
           next == [pc |-> "deletingSubject", subject |-> m, stale |-> FALSE, todo |-> todo]
<1>1. Begin(h, next) /\ UNCHANGED <<capacity, seat>> /\ UNCHANGED curriculum
  BY DEF DeleteSubject
<1>2. /\ next.pc = "deletingSubject" /\ next.subject = m /\ OwnersOf(offers) \subseteq next.todo
  BY DEF OwnersOf
<1> HIDE DEF next
<1>3. Advance(req, req', h, next) /\ Due(req[h]) = {}
  BY <1>1, IdleRequests, ExceptAdvances DEF Begin, ListsInv, CurriculumInv, RequestsSound
<1>4. OwnersOf({o \in Offered : offer[o].subject = m})' = OwnersOf(offers)
  BY <1>1 DEF OwnersOf, TeachersOf, curriculum, Offered
<1>5. req'[h] = next
  BY <1>3 DEF Advance
<1>6. OwnersOf({o \in Offered : offer[o].subject = m})' \subseteq req'[h].todo
  BY <1>2, <1>4, <1>5
<1>7. req'[h].pc = "deletingSubject" /\ req'[h].subject = m
  BY <1>2, <1>5
<1>8. Knowing(h)'
  BY <1>6, <1>7 DEF Knowing
<1>9. Reads(h)'
  BY <1>7 DEF Reads
<1> QED
  BY <1>1, <1>3, <1>8, <1>9, RowsStayAdvance DEF curriculum

LEMMA TeacherLists ==
  ASSUME ListsInv, CurriculumInv', NEW h \in Handlers, NEW o \in Offers, NEW t \in Teachers,
         AssignTeacherToClassSubject(h, o, t) \/ RemoveTeacherFromClassSubject(h, o, t)
  PROVE  ListsInv'
<1>1. Due(Free) = {} /\ t \in Due(Sync({t})) /\ Idle(Sync({t}))
  BY IdleRequests
<1>2. CASE AssignTeacherToClassSubject(h, o, t)
  <2>1. /\ o \in Offered /\ req[h] = Free /\ teaches' = teaches \cup {<<o, t>>}
        /\ Touch(h, Sync({t}), {t}, {offer[o].subject})
        /\ UNCHANGED <<capacity, seat, offer, staff, registered, lists>>
        /\ offer[o].subject \in {offer[o].subject}
    BY <1>2 DEF AssignTeacherToClassSubject, BeginTouching
  <2> QED
    BY <1>1, <2>1, TeacherRows
<1>3. CASE RemoveTeacherFromClassSubject(h, o, t)
  <2>1. /\ o \in Offered /\ req[h] = Free /\ teaches' = teaches \ {<<o, t>>}
        /\ Touch(h, Sync({t}), {t}, {})
        /\ UNCHANGED <<capacity, seat, offer, staff, registered, lists>>
    BY <1>3 DEF RemoveTeacherFromClassSubject, BeginTouching, ListsInv, CurriculumInv, KeysHold
  <2> QED
    BY <1>1, <2>1, TeacherRows
<1> QED
  BY <1>2, <1>3

LEMMA AppointLists ==
  ASSUME ListsInv, CurriculumInv', NEW h \in Handlers, NEW t \in Teachers, AppointTeacher(h, t)
  PROVE  ListsInv'
<1> DEFINE o == req[h].offer
           left == req[h].left \ {t}
           w == [req[h] EXCEPT !.left = left]
           next == IF left = {} THEN Free ELSE w
<1>1. req[h] \in Appointing /\ Due(req[h]) = {}
  BY Shapes DEF AppointTeacher, ListsInv, CurriculumInv, RequestsSound, Due, Appointing
<1>2. w.pc = "appointing"
  BY <1>1 DEF Appointing
<1>3. Idle(w)
  BY <1>2 DEF Idle
<1> HIDE DEF w
<1>4. Idle(next)
  BY <1>3, IdleRequests
<1>5. UNCHANGED <<capacity, seat, offer, staff, registered, lists>>
  BY DEF AppointTeacher
<1>6. CASE o \in Offered /\ <<o, t>> \notin teaches
  <2>1. /\ teaches' = teaches \cup {<<o, t>>}
        /\ Touch(h, Syncing({t}, NoTerm, o, left), {t}, {offer[o].subject})
        /\ offer[o].subject \in {offer[o].subject}
    BY <1>6 DEF AppointTeacher
  <2>2. t \in Due(Syncing({t}, NoTerm, o, left)) /\ Idle(Syncing({t}, NoTerm, o, left))
    BY IdleRequests
  <2> QED
    BY <1>1, <1>5, <1>6, <2>1, <2>2, TeacherRows
<1>7. CASE ~(o \in Offered /\ <<o, t>> \notin teaches)
  <2>1. teaches' = teaches /\ req' = [req EXCEPT ![h] = next]
    BY <1>1, <1>7 DEF AppointTeacher, w, ListsInv, CurriculumInv, RequestsSound
  <2> HIDE DEF next
  <2>2. Advance(req, req', h, next)
    BY <2>1, ExceptAdvances DEF ListsInv, CurriculumInv, RequestsSound
  <2>3. Reads(h)' /\ Knowing(h)'
    BY <1>4, <2>2, IdleIsRight DEF Advance
  <2> QED
    BY <1>1, <1>5, <2>1, <2>2, <2>3, RowsStayAdvance
<1> QED
  BY <1>6, <1>7

\* A registration changes the rows of its student alone.
LEMMA RegisterLists ==
  ASSUME ListsInv, CurriculumInv', NEW h \in Handlers, Register(h)
  PROVE  ListsInv'
<1>1. req[h] \in Registering /\ Due(req[h]) = {}
  BY Shapes DEF Register, ListsInv, CurriculumInv, RequestsSound, Due, Registering
<1>2. CASE Refused(req[h])
  BY <1>1, <1>2, RefusalLists DEF Register
<1>3. CASE ~Refused(req[h])
  <2>1. PICK s \in Students, t \in Terms : s = req[h].student /\ t = req[h].term
    BY <1>1 DEF Registering
  <2> DEFINE next == Syncing({s}, t, NoOffer, {})
             xs == {s}
  <2>2. /\ registered' = (registered \ Dropped(h)) \cup ({s} \X req[h].offers \X {t})
        /\ Touch(h, next, xs, {})
        /\ UNCHANGED <<capacity, seat, hired, offer, teaches, lists>>
    BY <1>3, <2>1 DEF Register, Enter
  <2>3. Idle(next) /\ Due(next) = xs
    BY IdleRequests
  <2>4. Advance(req, req', h, next)
    BY <2>2, TouchAdvances
  <2>5. \A x \in Owners \ xs : SameSource(x)
    <3> SUFFICES ASSUME NEW x \in Owners \ xs
                 PROVE  SameSource(x)
      OBVIOUS
    <3>1. \A o \in Offers : \A u : <<x, o, u>> \in registered' <=> <<x, o, u>> \in registered
      BY <2>1, <2>2 DEF Dropped
    <3> QED
      BY <2>2, <3>1 DEF SameSource, Source, Rows, Offered
  <2>6. Absent' = Absent /\ Offered' = Offered
    BY <2>2 DEF Absent, Gone, Open, Enrolled, Offered
  <2>7. Reads(h)' /\ Knowing(h)'
    BY <2>3, <2>4, IdleIsRight DEF Advance
  <2>8. ASSUME NEW g \in Handlers \ {h}
        PROVE  Knowing(g)'
    <3>1. CurriculumInv /\ Aged(req[g], req'[g]) /\ Knowing(g)
      BY <2>4 DEF Advance, ListsInv
    <3> QED
      BY <2>2, <2>6, <3>1, KnowingShrinks
  <2>9. \A g \in Handlers \ {h} : req[g].pc = "syncing" /\ req[g].at \in xs => req'[g].stale
    BY <2>2, TouchMarks DEF ListsInv
  <2>10. /\ xs \in SUBSET Owners
         /\ \A x \in Owners \ xs : SameSource(x) \/ x \in Absent'
         /\ xs \subseteq Due(next) \cup stray' /\ ids' = ids /\ copied' = copied
         /\ stray \subseteq stray' /\ Absent \subseteq Absent'
         /\ Due(req[h]) \subseteq Due(next) \cup stray' \cup Absent'
         /\ \A g \in Handlers : Knowing(g)'
    BY <1>1, <2>1, <2>2, <2>3, <2>5, <2>6, <2>7, <2>8 DEF Owners
  <2> HIDE DEF next, xs
  <2> QED
    BY <2>4, <2>7, <2>9, <2>10, ListsAdvance
<1> QED
  BY <1>2, <1>3

\* A request that stays as it is, and so do the rows and who is there.
LEMMA ReaderStays ==
  ASSUME NEW g \in Handlers, Reads(g), Knowing(g), req'[g] = req[g],
         UNCHANGED <<offer, teaches>>,
         req[g].pc = "syncing" /\ req[g].at # Nobody /\ ~req[g].stale =>
           /\ req[g].at \in Absent => req[g].at \in Absent'
           /\ SameSource(req[g].at) \/ req[g].at \in Absent'
  PROVE  Reads(g)' /\ Knowing(g)'
<1>1. PICK y, t : y = req[g].at /\ t = req[g].term
  OBVIOUS
<1>2. req[g].pc = "syncing" /\ y # Nobody /\ ~req[g].stale =>
        /\ y \in Absent => y \in Absent'
        /\ Source(y, t)' = Source(y, t) \/ y \in Absent'
  BY <1>1 DEF SameSource
<1>3. /\ req'[g].at = y /\ req'[g].term = t
      /\ req'[g].pc = "syncing" /\ y # Nobody /\ ~req'[g].stale =>
           y \in Absent' \/ req'[g].seen = Source(y, t)'
  BY <1>1, <1>2 DEF Reads
<1>4. Knowing(g)'
  <2>1. Knowing(g) /\ req'[g] = req[g] /\ offer' = offer /\ teaches' = teaches
    OBVIOUS
  <2> QED
    BY ONLY <2>1 DEF Knowing, OwnersOf, TeachersOf, Offered
<1>5. Reads(g)'
  <2> SUFFICES ASSUME req'[g].pc = "syncing", req'[g].at # Nobody, ~req'[g].stale
               PROVE  req'[g].at \in Absent' \/ req'[g].seen = Source(req[g].at, req[g].term)'
    BY DEF Reads
  <2> QED
    BY <1>1, <1>3
<1> QED
  BY <1>4, <1>5

LEMMA NextSyncIsIdle ==
  ASSUME NEW v \in SyncingLists
  PROVE  Idle(NextSync(v)) /\ Due(NextSync(v)) = v.todo
<1>1. CASE v.todo # {}
  <2> DEFINE w == [v EXCEPT !.at = Nobody, !.seen = {}, !.stale = FALSE]
  <2>1. w.pc = "syncing" /\ w.at = Nobody /\ w.todo = v.todo
    BY DEF SyncingLists
  <2>2. NextSync(v) = w
    BY <1>1 DEF NextSync
  <2> HIDE DEF w
  <2> QED
    BY <2>1, <2>2 DEF Idle, Due
<1>2. CASE v.todo = {} /\ v.left # {}
  <2>1. NextSync(v) = [pc |-> "appointing", offer |-> v.offer, left |-> v.left]
    BY <1>2 DEF NextSync
  <2>2. NextSync(v).pc = "appointing"
    BY <2>1
  <2> QED
    BY <1>2, <2>2 DEF Idle, Due
<1>3. CASE v.todo = {} /\ v.left = {}
  BY <1>3, IdleRequests DEF NextSync
<1> QED
  BY <1>1, <1>2, <1>3

\* The read of a list; a teacher without a profile is passed over.
LEMMA SyncReadLists ==
  ASSUME ListsInv, CurriculumInv', NEW h \in Handlers, NEW x \in Owners, SyncRead(h, x)
  PROVE  ListsInv'
<1> DEFINE rest == [req[h] EXCEPT !.todo = @ \ {x}]
           read == [rest EXCEPT !.at = x, !.seen = Source(x, rest.term), !.stale = FALSE]
<1>1. req[h] \in SyncingLists /\ req[h].at = Nobody /\ x \in req[h].todo /\ x # Nobody
  BY Shapes, CurriculumAssumption DEF SyncRead, ListsInv, CurriculumInv, RequestsSound
<1>2. /\ rest \in SyncingLists /\ rest.pc = "syncing" /\ rest.todo = req[h].todo \ {x}
      /\ rest.term = req[h].term /\ req[h].pc = "syncing"
  BY <1>1 DEF SyncingLists
<1>3. req' = [req EXCEPT ![h] = IF x \in Teachers \ hired THEN NextSync(rest) ELSE read]
  BY <1>1 DEF SyncRead, ListsInv, CurriculumInv, RequestsSound
<1>4. UNCHANGED <<capacity, seat, hired, offer, teaches, registered, lists>>
  BY DEF SyncRead, curriculum
<1>5. Due(req[h]) = req[h].todo
  BY <1>1, <1>2 DEF Due
<1>6. CASE x \in Teachers \ hired
  <2> HIDE DEF rest
  <2>1. Idle(NextSync(rest)) /\ Due(NextSync(rest)) = rest.todo
    BY <1>2, NextSyncIsIdle
  <2>2. Advance(req, req', h, NextSync(rest))
    BY <1>3, <1>6, ExceptAdvances DEF ListsInv, CurriculumInv, RequestsSound
  <2>3. Reads(h)' /\ Knowing(h)'
    BY <2>1, <2>2, IdleIsRight DEF Advance
  <2>4. x \in Absent
    BY <1>6 DEF Absent, Gone
  <2>5. Due(req[h]) \subseteq Due(NextSync(rest)) \cup stray' \cup Absent /\ stray \subseteq stray'
    BY <1>2, <1>4, <1>5, <2>1, <2>4
  <2> QED
    BY <1>4, <2>2, <2>3, <2>5, RowsStayAdvance
<1>7. CASE ~(x \in Teachers \ hired)
  <2>1. PICK t : t = req[h].term
    OBVIOUS
  <2>2. PICK seen : seen = Source(x, t)
    OBVIOUS
  <2>3. read = [rest EXCEPT !.at = x, !.seen = seen, !.stale = FALSE]
    BY <1>2, <2>1, <2>2
  <2> HIDE DEF rest
  <2>4. /\ read.pc = "syncing" /\ read.at = x /\ read.todo = req[h].todo \ {x}
        /\ read.seen = seen /\ read.term = t
    BY <1>2, <2>1, <2>3 DEF SyncingLists
  <2>5. req' = [req EXCEPT ![h] = read]
    BY <1>3, <1>7
  <2> HIDE DEF read
  <2>6. Due(req[h]) = Due(read)
    BY <1>1, <1>5, <2>4 DEF Due
  <2>7. Advance(req, req', h, read)
    BY <2>5, ExceptAdvances DEF ListsInv, CurriculumInv, RequestsSound
  <2>8. Source(x, t)' = Source(x, t)
    BY <1>4, SourcesStay DEF SameSource
  <2>9. /\ req'[h].seen = Source(x, t)' /\ req'[h].at = x /\ req'[h].term = t
        /\ req'[h].pc = "syncing"
    BY <2>2, <2>4, <2>7, <2>8 DEF Advance
  <2>10. Reads(h)' /\ Knowing(h)'
    BY <2>9 DEF Reads, Knowing
  <2>11. Due(req[h]) \subseteq Due(read) \cup stray' \cup Absent /\ stray \subseteq stray'
    BY <1>4, <2>6
  <2> QED
    BY <1>4, <2>7, <2>10, <2>11, RowsStayAdvance
<1> QED
  BY <1>6, <1>7

\* The write of a list: what was read is what the rows say, or the list strays.
LEMMA SyncWriteLists ==
  ASSUME ListsInv, CurriculumInv', NEW h \in Handlers, SyncWrite(h)
  PROVE  ListsInv'
<1> DEFINE v == req[h]
           failed == [req[h] EXCEPT !.todo = {}]
<1>1. /\ v \in SyncingLists /\ v.pc = "syncing" /\ v.at \in Owners
      /\ Due(v) = v.todo \cup {v.at} /\ Reads(h)
  BY Shapes DEF SyncWrite, ListsInv, CurriculumInv, RequestsSound, SyncingLists, Due
<1>2. PICK x \in Owners : x = v.at
  BY <1>1
<1>3. UNCHANGED <<capacity, seat, hired, offer, teaches, registered>>
  BY DEF SyncWrite
<1>4. CASE Gone(x)
  <2>1. /\ req' = [req EXCEPT ![h] = NextSync(failed)] /\ stray' = stray \cup v.todo
        /\ UNCHANGED <<ids, copied>>
    BY <1>2, <1>4 DEF SyncWrite, ListsInv, CurriculumInv, RequestsSound
  <2>2. failed \in SyncingLists
    BY <1>1 DEF SyncingLists
  <2> HIDE DEF failed
  <2>3. Idle(NextSync(failed))
    BY <2>2, NextSyncIsIdle
  <2>4. Advance(req, req', h, NextSync(failed))
    BY <2>1, ExceptAdvances DEF ListsInv, CurriculumInv, RequestsSound
  <2>5. Reads(h)' /\ Knowing(h)'
    BY <2>3, <2>4, IdleIsRight DEF Advance
  <2>6. Due(v) \subseteq Due(NextSync(failed)) \cup stray' \cup Absent /\ stray \subseteq stray'
    BY <1>1, <1>2, <1>4, <2>1 DEF Absent
  <2> QED
    BY <1>3, <2>1, <2>4, <2>5, <2>6, RowsStayAdvance
<1>5. CASE ~Gone(x)
  <2>1. /\ req' = [req EXCEPT ![h] = NextSync(v)]
        /\ stray' = IF v.stale THEN stray \cup {x} ELSE stray \ {x}
        /\ ids' = [ids EXCEPT ![x] = v.seen] /\ copied' = [copied EXCEPT ![x] = v.term]
    BY <1>2, <1>5 DEF SyncWrite, ListsInv, CurriculumInv, RequestsSound
  <2>2. Idle(NextSync(v)) /\ Due(NextSync(v)) = v.todo
    BY <1>1, NextSyncIsIdle
  <2>3. req'[h] = NextSync(v) /\ \A g \in Handlers \ {h} : req'[g] = req[g]
    BY <2>1 DEF ListsInv, CurriculumInv, RequestsSound
  <2>4. Reads(h)' /\ Knowing(h)'
    BY <2>2, <2>3, IdleIsRight
  <2>5. /\ Absent' = Absent /\ \A y : SameSource(y)
        /\ \A y, t : Source(y, t)' = Source(y, t)
    BY <1>3, SourcesStay DEF SameSource, Absent, Gone, Open, Enrolled
  <2>6. ASSUME NEW g \in Handlers \ {h}
        PROVE  Reads(g)' /\ Knowing(g)'
    BY <1>3, <2>3, <2>5, ReaderStays DEF ListsInv
  <2>7. x \in stray' \/ ids'[x] = Source(x, copied[x])'
    <3>1. PICK t : t = v.term
      OBVIOUS
    <3>2. v.seen = Source(x, t) \/ v.stale
      BY <1>1, <1>2, <1>5, <3>1 DEF Reads, Absent, SyncWrite
    <3>3. ids'[x] = v.seen /\ copied'[x] = t /\ (v.stale => x \in stray')
      BY <2>1, <3>1 DEF ListsInv, CurriculumInv, KeysHold
    <3> QED
      BY <2>5, <3>2, <3>3
  <2>8. \A y \in Owners \ {x} :
          ids'[y] = ids[y] /\ copied'[y] = copied[y] /\ (y \in stray => y \in stray')
    BY <2>1 DEF ListsInv, CurriculumInv, KeysHold
  <2>9. \A y \in Owners \ {x} : \A g \in Handlers : y \in Due(req[g]) => y \in Due(req'[g])
    BY <1>1, <1>2, <2>2, <2>3
  <2>10. ASSUME NEW y \in Owners
         PROVE  \/ y \in Absent' \/ y \in stray'
                \/ (\E g \in Handlers : y \in Due(req'[g])) \/ ids'[y] = Source(y, copied[y])'
    <3>1. CASE y = x
      BY <2>7, <3>1
    <3>2. CASE y # x
      <4>1. PICK t : t = copied[y]
        OBVIOUS
      <4>2. \/ y \in Absent \/ y \in stray
            \/ (\E g \in Handlers : y \in Due(req[g])) \/ ids[y] = Source(y, t)
        BY <4>1 DEF ListsInv, ListsAgree, Absent
      <4>3. copied'[y] = t /\ Source(y, t)' = Source(y, t)
        BY <2>5, <2>8, <3>2, <4>1
      <4> QED
        BY <2>5, <2>8, <2>9, <3>2, <4>2, <4>3
    <3> QED
      BY <3>1, <3>2
  <2>11. ListsAgree'
    BY <2>10, AgreeWhere
  <2> QED
    BY <2>4, <2>6, <2>11 DEF ListsInv
<1> QED
  BY <1>4, <1>5

LEMMA AbortLists ==
  ASSUME ListsInv, CurriculumInv', NEW h \in Handlers, Abort(h)
  PROVE  ListsInv'
BY RefusalLists DEF Abort, Die

\* Steps of requests that have no list, and of none: rows may go with their owner.
LEMMA NothingListed ==
  ASSUME ListsInv, CurriculumInv', UNCHANGED <<offer, teaches, ids, copied, stray>>,
         Absent \subseteq Absent', \A x \in Owners : SameSource(x) \/ x \in Absent',
         \A g \in Handlers :
           req'[g] = req[g] \/ (Due(req[g]) = {} /\ Due(req'[g]) = {} /\ Idle(req'[g]))
  PROVE  ListsInv'
<1>1. ASSUME NEW g \in Handlers
      PROVE  Reads(g)' /\ Knowing(g)'
  <2>1. CASE req'[g] = req[g]
    <3>1. Reads(g) /\ Knowing(g)
      BY DEF ListsInv
    <3>2. req[g].pc = "syncing" /\ req[g].at # Nobody => req[g].at \in Owners
      BY Shapes DEF ListsInv, CurriculumInv, RequestsSound, SyncingLists
    <3> QED
      BY <2>1, <3>1, <3>2, ReaderStays
  <2>2. CASE Idle(req'[g])
    BY <2>2, IdleIsRight
  <2> QED
    BY <2>1, <2>2
<1>2. ASSUME NEW y \in Owners
      PROVE  \/ y \in Absent' \/ y \in stray'
             \/ (\E g \in Handlers : y \in Due(req'[g])) \/ ids'[y] = Source(y, copied[y])'
  <2>1. PICK t : t = copied[y]
    OBVIOUS
  <2>2. \/ y \in Absent \/ y \in stray
        \/ (\E g \in Handlers : y \in Due(req[g])) \/ ids[y] = Source(y, t)
    BY <2>1 DEF ListsInv, ListsAgree, Absent
  <2>3. copied'[y] = t /\ (Source(y, t)' = Source(y, t) \/ y \in Absent')
    BY <2>1 DEF SameSource
  <2>4. \A g \in Handlers : y \in Due(req[g]) => y \in Due(req'[g])
    OBVIOUS
  <2> QED
    BY <2>2, <2>3, <2>4
<1> QED
  BY <1>1, <1>2, AgreeWhere DEF ListsInv

LEMMA MovesHaveNoList ==
  ASSUME PlacementMoves, NEW g \in Handlers
  PROVE  req'[g] = req[g] \/ (Due(req[g]) = {} /\ Due(req'[g]) = {} /\ Idle(req'[g]))
BY DEF PlacementMoves, Due, Idle, Free, Seating, DeletingClass

\* Nobody is enrolled and nobody leaves but by a step of the roster.
LEMMA PlacementStaysEnrolled ==
  ASSUME CurriculumInv, PlacementStep
  PROVE  Enrolled' = Enrolled
<1>1. Enrolled \subseteq Enrolled'
  BY PlacementStepKeeps DEF PlacementKept
<1>2. seat' = seat \/ \E s \in Enrolled : \E c : seat' = [seat EXCEPT ![s] = c]
  <2>1. ASSUME NEW s \in Students, RemoveStudentFromClass(s)
        PROVE  \E t \in Enrolled : \E c : seat' = [seat EXCEPT ![t] = c]
    <3>1. s \in Enrolled
      BY <2>1, PlacementAssumption DEF RemoveStudentFromClass, Enrolled
    <3> QED
      BY <2>1, <3>1 DEF RemoveStudentFromClass
  <2>2. ASSUME NEW h \in Handlers, NEW s \in Students, Place(h, s)
        PROVE  seat' = seat \/ \E t \in Enrolled : \E c : seat' = [seat EXCEPT ![t] = c]
    BY <2>2 DEF Place
  <2>3. ASSUME NEW s \in Students, NEW c \in Classes, UpdateStudent(s, c)
        PROVE  \E t \in Enrolled : \E d : seat' = [seat EXCEPT ![t] = d]
    BY <2>3 DEF UpdateStudent
  <2>4. /\ \A c \in Classes, n \in Capacities : UpdateClass(c, n) => seat' = seat
        /\ \A h \in Handlers :
             /\ \A c \in Classes :
                  /\ \A s \in Students : AssignStudentToClass(h, c, s) => seat' = seat
                  /\ \A s \in Students : TransferStudentToClass(h, c, s) => seat' = seat
                  /\ \A ss \in SUBSET Students : BulkAssignStudentsToClass(h, c, ss) => seat' = seat
                  /\ DeleteClass(h, c) => seat' = seat
             /\ CountSeats(h) => seat' = seat
    BY DEF UpdateClass, AssignStudentToClass, TransferStudentToClass, BulkAssignStudentsToClass,
       Placing, DeleteClass, CountSeats
  <2> QED
    BY <2>1, <2>2, <2>3, <2>4, Zenon DEF PlacementStep
<1>3. \A s \in Students \ Enrolled : seat'[s] = seat[s]
  BY <1>2 DEF CurriculumInv, PlacementTypeOK
<1> QED
  BY <1>1, <1>3 DEF Enrolled

LEMMA PlacementLists ==
  ASSUME ListsInv, CurriculumInv', PlacementStep
  PROVE  ListsInv'
<1>1. /\ Open' = Open /\ Enrolled' = Enrolled /\ PlacementMoves
      /\ UNCHANGED <<offer, teaches, staff, registered, lists>>
  BY PlacementStepKeeps, PlacementStaysEnrolled DEF ListsInv, PlacementKept, PlacementStep, curriculum
<1>2. Absent' = Absent /\ \A y : SameSource(y)
  BY <1>1, SourcesStay DEF Absent, Gone
<1> QED
  BY <1>1, <1>2, MovesHaveNoList, NothingListed

\* A new owner has no rows, and no request still writes its list.
LEMMA NewListLists ==
  ASSUME ListsInv, CurriculumInv', NEW x \in Owners, NEW list \in SUBSET Subjects, NewList(x, list),
         UNCHANGED <<offer, teaches, registered>>, Absent' = Absent \ {x},
         Source(x, NoTerm) = {}, PlacementMoves
  PROVE  ListsInv'
<1>1. \A g \in Handlers : x \notin Due(req[g])
  BY DEF NewList
<1>2. \A y : SameSource(y)
  BY SourcesStay
<1>3. /\ ids'[x] = list /\ copied'[x] = NoTerm /\ (list # {} => x \in stray')
      /\ \A y \in Owners \ {x} :
           ids'[y] = ids[y] /\ copied'[y] = copied[y] /\ (y \in stray => y \in stray')
  BY DEF NewList, ListsInv, CurriculumInv, KeysHold
<1>4. ASSUME NEW g \in Handlers
      PROVE  Reads(g)' /\ Knowing(g)'
  <2>1. CASE req'[g] = req[g]
    <3>1. Reads(g) /\ Knowing(g)
      BY DEF ListsInv
    <3>2. req[g].pc = "syncing" /\ req[g].at # Nobody => req[g].at # x
      BY <1>1 DEF Due
    <3> QED
      BY <1>2, <2>1, <3>1, <3>2, ReaderStays
  <2>2. CASE Idle(req'[g])
    BY <2>2, IdleIsRight
  <2> QED
    BY <2>1, <2>2, MovesHaveNoList
<1>5. ASSUME NEW y \in Owners
      PROVE  \/ y \in Absent' \/ y \in stray'
             \/ (\E g \in Handlers : y \in Due(req'[g])) \/ ids'[y] = Source(y, copied[y])'
  <2>1. CASE y = x
    <3>1. Source(x, NoTerm)' = Source(x, NoTerm)
      BY <1>2 DEF SameSource
    <3> QED
      BY <1>3, <2>1, <3>1
  <2>2. CASE y # x
    <3>1. PICK t : t = copied[y]
      OBVIOUS
    <3>2. \/ y \in Absent \/ y \in stray
          \/ (\E g \in Handlers : y \in Due(req[g])) \/ ids[y] = Source(y, t)
      BY <3>1 DEF ListsInv, ListsAgree, Absent
    <3>3. copied'[y] = t /\ Source(y, t)' = Source(y, t)
      BY <1>2, <1>3, <2>2, <3>1 DEF SameSource
    <3>4. \A g \in Handlers : y \in Due(req[g]) => y \in Due(req'[g])
      BY MovesHaveNoList
    <3> QED
      BY <1>3, <2>2, <3>2, <3>3, <3>4
  <2> QED
    BY <2>1, <2>2
<1> QED
  BY <1>4, <1>5, AgreeWhere DEF ListsInv

LEMMA ClassCreatedLists ==
  ASSUME ListsInv, CurriculumInv', NEW c \in Classes, NEW n \in Capacities, ClassCreated(c, n)
  PROVE  ListsInv'
<1>1. /\ c \notin Open /\ capacity' = [capacity EXCEPT ![c] = n] /\ NewList(c, {})
      /\ UNCHANGED <<req, seat, hired, offer, teaches, registered>>
  BY DEF ClassCreated, CreateClass
<1>2. Open' = Open \cup {c} /\ Enrolled' = Enrolled
  BY <1>1, PlacementAssumption DEF ListsInv, CurriculumInv, PlacementTypeOK, Open, Enrolled
<1>3. Absent' = Absent \ {c}
  BY <1>1, <1>2, CurriculumAssumption DEF Absent, Gone
<1>4. Source(c, NoTerm) = {}
  <2>1. \A o \in Offered : offer[o].class # c
    BY <1>1 DEF ListsInv, CurriculumInv, KeysHold
  <2>2. \A o \in Offered : <<o, c>> \notin teaches /\ <<c, o, NoTerm>> \notin registered
    BY CurriculumAssumption DEF ListsInv, CurriculumInv, KeysHold, Enrolled
  <2> QED
    BY <2>1, <2>2 DEF Source, Rows
<1>5. PlacementMoves
  BY <1>1 DEF PlacementMoves, ListsInv, CurriculumInv, RequestsSound
<1> QED
  BY <1>1, <1>3, <1>4, <1>5, NewListLists DEF Owners

LEMMA StudentCreatedLists ==
  ASSUME ListsInv, CurriculumInv', NEW s \in Students, NEW c \in Classes, StudentCreated(s, c)
  PROVE  ListsInv'
<1>1. /\ s \notin Enrolled /\ c \in Open /\ seat' = [seat EXCEPT ![s] = c] /\ NewList(s, {})
      /\ UNCHANGED <<capacity, hired, offer, teaches, registered>>
  BY DEF StudentCreated, CreateStudent
<1>2. Open' = Open /\ Enrolled' = Enrolled \cup {s}
  BY <1>1, PlacementAssumption DEF ListsInv, CurriculumInv, PlacementTypeOK, Open, Enrolled
<1>3. Absent' = Absent \ {s}
  BY <1>1, <1>2, CurriculumAssumption DEF Absent, Gone
<1>4. Source(s, NoTerm) = {}
  <2>1. \A o \in Offered : offer[o].class # s /\ <<o, s>> \notin teaches
    BY CurriculumAssumption DEF ListsInv, CurriculumInv, KeysHold, Open
  <2>2. \A o \in Offered : <<s, o, NoTerm>> \notin registered
    BY <1>1 DEF ListsInv, CurriculumInv, KeysHold
  <2> QED
    BY <2>1, <2>2 DEF Source, Rows
<1>5. PlacementMoves
  BY EnrolmentKeeps DEF StudentCreated, PlacementKept, ListsInv
<1> QED
  BY <1>1, <1>3, <1>4, <1>5, NewListLists DEF Owners

LEMMA TeacherCreatedLists ==
  ASSUME ListsInv, CurriculumInv', NEW t \in Teachers, NEW list \in SUBSET Subjects,
         TeacherCreated(t, list)
  PROVE  ListsInv'
<1>1. /\ t \notin hired /\ hired' = hired \cup {t} /\ NewList(t, list)
      /\ \A o \in Offers : <<o, t>> \notin teaches
      /\ UNCHANGED <<capacity, seat, req, offer, teaches, registered>>
  BY DEF TeacherCreated
<1>2. Open' = Open /\ Enrolled' = Enrolled
  BY <1>1 DEF Open, Enrolled
<1>3. Absent' = Absent \ {t}
  BY <1>1, <1>2, CurriculumAssumption DEF Absent, Gone
<1>4. Source(t, NoTerm) = {}
  <2>1. \A o \in Offered : offer[o].class # t /\ <<o, t>> \notin teaches
    BY <1>1, CurriculumAssumption DEF ListsInv, CurriculumInv, KeysHold, Open, Offered
  <2>2. \A o \in Offered : <<t, o, NoTerm>> \notin registered
    BY CurriculumAssumption DEF ListsInv, CurriculumInv, KeysHold, Enrolled
  <2> QED
    BY <2>1, <2>2 DEF Source, Rows
<1>5. PlacementMoves
  BY <1>1 DEF PlacementMoves, ListsInv, CurriculumInv, RequestsSound
<1> QED
  BY <1>1, <1>3, <1>4, <1>5, NewListLists DEF Owners

\* The rows of a deleted student go with their list.
LEMMA StudentRemovedLists ==
  ASSUME ListsInv, CurriculumInv', NEW s \in Students, StudentRemoved(s)
  PROVE  ListsInv'
<1>1. /\ seat' = [seat EXCEPT ![s] = NoStudent] /\ registered' = {p \in registered : p[1] # s}
      /\ UNCHANGED <<capacity, req, hired, offer, teaches, lists>>
  BY DEF StudentRemoved, RemoveStudent
<1>2. Open' = Open /\ Enrolled' = Enrolled \ {s}
  BY <1>1 DEF Open, Enrolled, ListsInv, CurriculumInv, PlacementTypeOK
<1>3. Absent \subseteq Absent' /\ s \in Absent'
  BY <1>1, <1>2 DEF Absent, Gone, Owners
<1>4. ASSUME NEW x \in Owners, x # s
      PROVE  SameSource(x)
  <2>1. \A o, t : <<x, o, t>> \in registered' <=> <<x, o, t>> \in registered
    BY <1>1, <1>4
  <2> QED
    BY <1>1, <2>1 DEF SameSource, Source, Rows, Offered
<1> QED
  BY <1>1, <1>3, <1>4, NothingListed

\* The registrations of a deleted term leave their lists behind.
LEMMA TermRemovedLists ==
  ASSUME ListsInv, CurriculumInv', NEW u \in Terms, TermRemoved(u)
  PROVE  ListsInv'
<1> DEFINE owners == {p[1] : p \in {q \in registered : q[3] = u}}
<1>1. /\ registered' = {p \in registered : p[3] # u}
      /\ stray' = stray \cup {s \in owners : copied[s] = u}
      /\ req' = [g \in Handlers |-> Touched(req[g], owners, {})]
      /\ UNCHANGED <<capacity, seat, hired, offer, teaches, ids, copied>>
  BY DEF TermRemoved
<1>2. Absent' = Absent /\ Offered' = Offered
  BY <1>1 DEF Absent, Gone, Open, Enrolled, Offered
<1>3. ASSUME NEW x, NEW t, x \notin owners \/ t # u
      PROVE  Source(x, t)' = Source(x, t)
  <2>1. \A o : <<x, o, t>> \in registered' <=> <<x, o, t>> \in registered
    BY <1>1, <1>3
  <2> QED
    BY <1>1, <2>1 DEF Source, Rows, Offered
<1> HIDE DEF owners
<1>4. \A g \in Handlers : req'[g] = Touched(req[g], owners, {}) /\ req[g] \in Request
  BY <1>1 DEF ListsInv, CurriculumInv, RequestsSound
<1>5. \A g \in Handlers : Aged(req[g], req'[g])
  BY <1>4, TouchedAges
<1>6. \A g \in Handlers : Due(req'[g]) = Due(req[g])
  BY <1>4, <1>5, AgedIsRequest
<1>7. ASSUME NEW g \in Handlers
      PROVE  Reads(g)' /\ Knowing(g)'
  <2>1. Reads(g) /\ Knowing(g) /\ CurriculumInv
    BY DEF ListsInv
  <2>2. Knowing(g)'
    BY <1>1, <1>2, <1>5, <2>1, KnowingShrinks
  <2>3. CASE req'[g] = req[g] /\ ~(req[g].pc = "syncing" /\ req[g].at \in owners)
    <3>1. req[g].pc = "syncing" => SameSource(req[g].at)
      BY <1>3, <2>3 DEF SameSource
    <3> QED
      BY <1>1, <1>2, <2>1, <2>3, <3>1, ReaderStays
  <2>4. CASE req[g].pc = "syncing" /\ req[g].at \in owners
    <3>1. req[g] \in SyncingLists
      BY <1>4, <2>4, Shapes
    <3>2. [req[g] EXCEPT !.stale = TRUE].stale
      BY <3>1 DEF SyncingLists
    <3>3. req'[g].stale
      BY <1>4, <2>4, <3>2 DEF Touched
    <3> QED
      BY <2>2, <3>3 DEF Reads
  <2>5. CASE req'[g] # req[g] /\ ~(req[g].pc = "syncing" /\ req[g].at \in owners)
    BY <1>4, <2>5 DEF Touched
  <2> QED
    BY <2>3, <2>4, <2>5
<1>8. ASSUME NEW y \in Owners
      PROVE  \/ y \in Absent' \/ y \in stray'
             \/ (\E g \in Handlers : y \in Due(req'[g])) \/ ids'[y] = Source(y, copied[y])'
  <2>1. PICK t : t = copied[y]
    OBVIOUS
  <2>2. \/ y \in Absent \/ y \in stray
        \/ (\E g \in Handlers : y \in Due(req[g])) \/ ids[y] = Source(y, t)
    BY <2>1 DEF ListsInv, ListsAgree, Absent
  <2>3. y \in stray' \/ Source(y, t)' = Source(y, t)
    BY <1>1, <1>3, <2>1
  <2> QED
    BY <1>1, <1>2, <1>6, <2>1, <2>2, <2>3
<1> QED
  BY <1>7, <1>8, AgreeWhere DEF ListsInv

LEMMA RosterLists ==
  ASSUME ListsInv, CurriculumInv', RosterStep
  PROVE  ListsInv'
<1>1. ASSUME UNCHANGED <<capacity, seat, req, offer, teaches, registered, lists>>, hired' \subseteq hired
      PROVE  ListsInv'
  <2>1. Absent \subseteq Absent' /\ \A x : SameSource(x)
    BY <1>1, SourcesStay DEF Absent, Gone, Open, Enrolled
  <2> QED
    BY <1>1, <2>1, NothingListed
<1>2. ASSUME \/ \E t \in Teachers : TeacherRemoved(t)
             \/ \E t \in Terms : TermCreated(t)
             \/ \E m \in Subjects : CreateSubject(m)
      PROVE  ListsInv'
  BY <1>1, <1>2 DEF TeacherRemoved, TermCreated, CreateSubject
<1> QED
  BY <1>2, ClassCreatedLists, StudentCreatedLists, TeacherCreatedLists, StudentRemovedLists,
     TermRemovedLists, Zenon DEF RosterStep

LEMMA CurriculumStepLists ==
  ASSUME ListsInv, CurriculumInv', NEW h \in Handlers, CurriculumStep(h)
  PROVE  ListsInv'
<1>1. ASSUME NEW o \in Offers, NEW c \in Classes, NEW m \in Subjects, NEW kind \in Kinds,
             AssignSubjectToClass(h, o, c, m, kind)
      PROVE  ListsInv'
  BY <1>1, AssignSubjectLists
<1>2. ASSUME NEW c \in Classes, NEW items, BulkAssignSubjectsToClass(h, c, items)
      PROVE  ListsInv'
  <2> DEFINE next == [pc |-> "offering", class |-> c, left |-> items]
  <2>1. Begin(h, next) /\ Idle(next) /\ UNCHANGED <<capacity, seat, curriculum>>
    BY <1>2 DEF BulkAssignSubjectsToClass, Idle
  <2> HIDE DEF next
  <2> QED
    BY <2>1, BeginLists
<1>3. ASSUME NEW o \in Offers, NEW item \in Subjects \X Kinds, OfferSubject(h, o, item)
      PROVE  ListsInv'
  BY <1>3, OfferSubjectLists
<1>4. ASSUME NEW o \in Offers, RemoveSubjectFromClass(h, o)
      PROVE  ListsInv'
  BY <1>4, LookUpLists
<1>5. ASSUME NEW o \in Offers, NEW t \in Teachers,
             AssignTeacherToClassSubject(h, o, t) \/ RemoveTeacherFromClassSubject(h, o, t)
      PROVE  ListsInv'
  BY <1>5, TeacherLists
<1>6. ASSUME NEW o \in Offers, NEW ts, BulkAssignTeachersToClassSubjects(h, o, ts)
      PROVE  ListsInv'
  <2> DEFINE next == [pc |-> "appointing", offer |-> o, left |-> ts]
  <2>1. Begin(h, next) /\ Idle(next) /\ UNCHANGED <<capacity, seat, curriculum>>
    BY <1>6 DEF BulkAssignTeachersToClassSubjects, Idle
  <2> HIDE DEF next
  <2> QED
    BY <2>1, BeginLists
<1>7. ASSUME NEW m \in Subjects, DeleteSubject(h, m)
      PROVE  ListsInv'
  BY <1>7, DeleteSubjectLists
<1>8. ASSUME NEW t \in Teachers, AppointTeacher(h, t)
      PROVE  ListsInv'
  BY <1>8, AppointLists
<1>9. ASSUME NEW s \in Students, NEW t \in Terms,
             \/ RegisterSubjectsForStudent(h, s, t)
             \/ \E chosen \in SUBSET Offers : UpdateSubjectRegistration(h, s, t, chosen)
      PROVE  ListsInv'
  <2>1. PICK again, chosen :
          /\ Begin(h, [pc |-> "registering", student |-> s, term |-> t, again |-> again,
                       offers |-> chosen])
          /\ UNCHANGED <<capacity, seat, curriculum>>
    BY <1>9 DEF RegisterSubjectsForStudent, UpdateSubjectRegistration
  <2> DEFINE next == [pc |-> "registering", student |-> s, term |-> t, again |-> again,
                      offers |-> chosen]
  <2>2. Begin(h, next) /\ Idle(next)
    BY <2>1 DEF Idle
  <2> HIDE DEF next
  <2> QED
    BY <2>1, <2>2, BeginLists
<1>10. ASSUME NEW x \in Owners, SyncRead(h, x)
       PROVE  ListsInv'
  BY <1>10, SyncReadLists
<1>11. ASSUME \/ SubjectRemoved(h) \/ SubjectDeleted(h) \/ Register(h) \/ SyncWrite(h)
              \/ ClassRemoved(h) \/ Abort(h)
       PROVE  ListsInv'
  BY <1>11, SubjectRemovedLists, SubjectDeletedLists, RegisterLists, SyncWriteLists,
     ClassRemovedLists, AbortLists
<1> QED
  BY <1>1, <1>2, <1>3, <1>4, <1>5, <1>6, <1>7, <1>8, <1>9, <1>10, <1>11, Zenon DEF CurriculumStep

LEMMA ListsNext ==
  ASSUME ListsInv, [CurriculumNext]_vars
  PROVE  ListsInv'
<1>1. CurriculumInv'
  BY NextKeeps DEF ListsInv
<1>2. CASE UNCHANGED vars
  <2>1. Absent' = Absent /\ \A x : SameSource(x)
    BY <1>2, SourcesStay DEF vars, Absent, Gone, Open, Enrolled
  <2> QED
    BY <1>1, <1>2, <2>1, NothingListed DEF vars
<1> QED
  BY <1>1, <1>2, PlacementLists, RosterLists, CurriculumStepLists DEF CurriculumNext

LEMMA ListsInit ==
  ASSUME CurriculumInit
  PROVE  ListsInv
<1> USE DEF CurriculumInit, PlacementInit
<1>1. Offered = {}
  BY DEF Offered
<1>2. \A x \in Owners : ids[x] = {} /\ \A t : Source(x, t) = {}
  BY <1>1 DEF Source, Rows
<1>3. \A h \in Handlers : Reads(h) /\ Knowing(h)
  BY DEF Reads, Knowing, Free
<1> QED
  BY <1>2, <1>3, InitHolds DEF ListsInv, ListsAgree

\* "Keep in sync with ClassSubject": the list of a class, a teacher or a student
\* is that of the rows, for a student those of the term it was written for, when
\* no request is about to write it, unless two requests overlapped on it, one
\* failed halfway, a class or a term went with its rows, or a teacher was
\* created with a list and nothing has written it since.
THEOREM ListsAgreeHolds == CurriculumSpec => []ListsAgree
<1>1. ListsInv => ListsAgree
  BY DEF ListsInv
<1> QED
  BY <1>1, ListsInit, ListsNext, PTL DEF CurriculumSpec

================================================================================
