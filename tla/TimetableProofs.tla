---------------------------- MODULE TimetableProofs ----------------------------
(***************************************************************************)
(* Proofs about Timetable, for any number of slots, teachers, classes,     *)
(* times and overlapping requests.                                         *)
(***************************************************************************)
EXTENDS Timetable, TLAPS

\* The records of requests that are on their way to a write.
Pending == [pc : {"teacher", "class", "writing"}, id : SlotIds \cup {NewSlot}, patch : Patch,
            target : Target, stale : BOOLEAN]

\* What a request on its way to a write may rely on: its times were validated
\* when it brings one, and as long as nobody wrote meanwhile its target is what
\* it will write and the checks behind it still hold.
Sound(h) ==
  work[h].pc \in {"teacher", "class", "writing"} =>
    /\ work[h].id = NewSlot => work[h].target \in Slot /\ work[h].patch = work[h].target
    /\ work[h].patch.start # Keep => work[h].target.start = work[h].patch.start
    /\ work[h].patch.end # Keep => work[h].target.end = work[h].patch.end
    /\ work[h].patch.start # Keep \/ work[h].patch.end # Keep => ValidTimes(work[h].target)
    /\ ~work[h].stale =>
         /\ work[h].id \in Booked => work[h].target = Aimed(slot[work[h].id], work[h].patch)
         /\ work[h].pc \in {"class", "writing"} /\ Checks(work[h].patch) =>
              \A i \in Rivals(work[h].id, work[h].target) :
                slot[i].teacher # work[h].target.teacher
         /\ work[h].pc = "writing" /\ Checks(work[h].patch) =>
              \A i \in Rivals(work[h].id, work[h].target) :
                slot[i].class # work[h].target.class

\* The inductive invariant.
TimetableInv ==
  /\ TimetableTypeOK
  /\ \A h \in Handlers : Sound(h)
  /\ NoDoubleBooking
  /\ WithinSchoolHours

--------------------------------------------------------------------------------
LEMMA WorkKinds ==
  /\ Free \in Work /\ Free.pc = "free"
  /\ \A i \in SlotIds : [pc |-> "deleting", id |-> i] \in Work
  /\ Pending \subseteq Work
  /\ \A w \in Work : w.pc \in {"teacher", "class", "writing"} => w \in Pending
  /\ \A w \in Work : w.pc = "deleting" => w.id \in SlotIds
<1>1. Pending \subseteq Work
  BY DEF Pending, Work
<1>2. ASSUME NEW w \in Work, w.pc \in {"teacher", "class", "writing"} PROVE w \in Pending
  BY <1>2 DEF Pending, Work, Free
<1>3. ASSUME NEW w \in Work, w.pc = "deleting" PROVE w.id \in SlotIds
  BY <1>3 DEF Work, Free
<1>4. Free \in Work /\ Free.pc = "free" /\ \A i \in SlotIds : [pc |-> "deleting", id |-> i] \in Work
  BY DEF Work, Free
<1> QED
  BY <1>1, <1>2, <1>3, <1>4

\* Changing the step of a pending request, or marking it stale.
LEMMA PendingMoves ==
  ASSUME NEW w \in Pending
  PROVE  /\ \A p \in {"class", "writing"} :
              LET v == [w EXCEPT !.pc = p]
              IN  /\ v \in Pending /\ v.pc = p /\ v.id = w.id /\ v.patch = w.patch
                  /\ v.target = w.target /\ v.stale = w.stale
         /\ LET v == [w EXCEPT !.stale = TRUE]
            IN  /\ v \in Pending /\ v.pc = w.pc /\ v.id = w.id /\ v.patch = w.patch
                /\ v.target = w.target /\ v.stale
<1>1. ASSUME NEW p \in {"class", "writing"}
      PROVE  [w EXCEPT !.pc = p] \in Pending
  BY DEF Pending
<1>2. [w EXCEPT !.stale = TRUE] \in Pending
  BY DEF Pending
<1> QED
  BY <1>1, <1>2 DEF Pending

LEMMA OutdatedMoves ==
  ASSUME TimetableTypeOK, NEW g \in Handlers
  PROVE  /\ Outdated(g) \in Work /\ Outdated(g).pc = work[g].pc
         /\ work[g].pc \in {"teacher", "class", "writing"} =>
              /\ Outdated(g).stale
              /\ Outdated(g).id = work[g].id /\ Outdated(g).patch = work[g].patch
              /\ Outdated(g).target = work[g].target
         /\ work[g].pc \notin {"teacher", "class", "writing"} => Outdated(g) = work[g]
<1>1. work[g] \in Work
  BY DEF TimetableTypeOK
<1> QED
  BY <1>1, WorkKinds, PendingMoves DEF Outdated

\* The fields of a slot, of a patch and of a target.
Fields == {"teacher", "class", "subject", "day", "start", "end", "active"}

\* A slot is a target, and no field of a slot is left out or blank.
LEMMA SlotFields ==
  ASSUME NEW row \in Slot
  PROVE  /\ row \in Target /\ row \in Patch /\ DOMAIN row = Fields
         /\ \A f \in Fields : row[f] \notin {Keep, Blank}
<1>1. row \in Target /\ row \in Patch /\ DOMAIN row = Fields
  BY DEF Slot, Target, Patch, Fields
<1>2. /\ row.teacher \in Teachers /\ row.class \in Classes /\ row.subject \in Subjects
      /\ row.day \in Days /\ row.start \in Times /\ row.end \in Times /\ row.active \in BOOLEAN
  BY DEF Slot
<1>3. \A f \in Fields : row[f] \notin {Keep, Blank}
  BY <1>2, TimetableAssumption DEF Fields
<1> QED
  BY <1>1, <1>3

\* A patched slot is a slot, with the given fields and the others as they were.
LEMMA PatchedFields ==
  ASSUME NEW row \in Slot, NEW p \in Patch
  PROVE  /\ Patched(row, p) \in Slot
         /\ \A f \in Fields : Patched(row, p)[f] = IF f \in Given(p) THEN p[f] ELSE row[f]
         /\ \A f \in Fields : f \in Given(p) <=> p[f] \notin {Keep, Blank}
         /\ p.start # Blank /\ p.end # Blank /\ p.day # Blank /\ p.active # Blank
<1>1. /\ p.teacher \in Teachers \cup {Keep, Blank} /\ p.class \in Classes \cup {Keep, Blank}
      /\ p.subject \in Subjects \cup {Keep, Blank} /\ p.day \in Days \cup {Keep}
      /\ p.start \in Times \cup {Keep} /\ p.end \in Times \cup {Keep}
      /\ p.active \in BOOLEAN \cup {Keep} /\ DOMAIN p = Fields
  BY DEF Patch, Fields
<1>2. \A f \in Fields : f \in Given(p) <=> p[f] \notin {Keep, Blank}
  BY <1>1 DEF Given
<1>3. \A f \in Fields : Patched(row, p)[f] = IF f \in Given(p) THEN p[f] ELSE row[f]
  BY SlotFields DEF Patched
<1>4. /\ row.teacher \in Teachers /\ row.class \in Classes /\ row.subject \in Subjects
      /\ row.day \in Days /\ row.start \in Times /\ row.end \in Times /\ row.active \in BOOLEAN
  BY DEF Slot
<1> DEFINE v(f) == IF f \in Given(p) THEN p[f] ELSE row[f]
<1>5. /\ v("teacher") \in Teachers /\ v("class") \in Classes /\ v("subject") \in Subjects
      /\ v("day") \in Days /\ v("start") \in Times /\ v("end") \in Times /\ v("active") \in BOOLEAN
  BY <1>1, <1>2, <1>4 DEF Fields
<1>6. Patched(row, p) = [f \in Fields |-> v(f)]
  BY SlotFields DEF Patched
<1> HIDE DEF v
<1>7. [f \in Fields |-> v(f)] \in Slot
  <2>1. [f \in Fields |-> v(f)] =
          [teacher |-> v("teacher"), class |-> v("class"), subject |-> v("subject"),
           day |-> v("day"), start |-> v("start"), end |-> v("end"), active |-> v("active")]
    BY DEF Fields
  <2> QED
    BY <1>5, <2>1 DEF Slot
<1>8. p.start # Blank /\ p.end # Blank /\ p.day # Blank /\ p.active # Blank
  BY <1>1, TimetableAssumption
<1> QED
  BY <1>2, <1>3, <1>6, <1>7, <1>8

\* What an update looks for is a target, with the fields it brings, "" among them.
LEMMA AimedFields ==
  ASSUME NEW row \in Slot, NEW p \in Patch
  PROVE  /\ Aimed(row, p) \in Target
         /\ \A f \in Fields : Aimed(row, p)[f] = Or(p[f], row[f])
<1>1. /\ p.teacher \in Teachers \cup {Keep, Blank} /\ p.class \in Classes \cup {Keep, Blank}
      /\ p.subject \in Subjects \cup {Keep, Blank} /\ p.day \in Days \cup {Keep}
      /\ p.start \in Times \cup {Keep} /\ p.end \in Times \cup {Keep}
      /\ p.active \in BOOLEAN \cup {Keep}
  BY DEF Patch
<1>2. /\ row.teacher \in Teachers /\ row.class \in Classes /\ row.subject \in Subjects
      /\ row.day \in Days /\ row.start \in Times /\ row.end \in Times /\ row.active \in BOOLEAN
  BY DEF Slot
<1> DEFINE v(f) == Or(p[f], row[f])
<1>3. /\ v("teacher") \in Teachers \cup {Blank} /\ v("class") \in Classes \cup {Blank}
      /\ v("subject") \in Subjects \cup {Blank}
      /\ v("day") \in Days /\ v("start") \in Times /\ v("end") \in Times /\ v("active") \in BOOLEAN
  BY <1>1, <1>2 DEF Or
<1>4. Aimed(row, p) = [f \in Fields |-> v(f)]
  BY SlotFields DEF Aimed
<1>5. \A f \in Fields : Aimed(row, p)[f] = Or(p[f], row[f])
  BY <1>4
<1> HIDE DEF v
<1>6. [f \in Fields |-> v(f)] \in Target
  <2>1. [f \in Fields |-> v(f)] =
          [teacher |-> v("teacher"), class |-> v("class"), subject |-> v("subject"),
           day |-> v("day"), start |-> v("start"), end |-> v("end"), active |-> v("active")]
    BY DEF Fields
  <2> QED
    BY <1>3, <2>1 DEF Target
<1> QED
  BY <1>4, <1>5, <1>6

\* What is written against what was looked for: the same but for what is "",
\* and unless something is looked for nothing moves.
LEMMA Merges ==
  ASSUME NEW row \in Slot, NEW p \in Patch
  PROVE  LET t == Aimed(row, p)
             n == Patched(row, p)
         IN  /\ t \in Target /\ n \in Slot
             /\ n.day = t.day /\ n.start = t.start /\ n.end = t.end
             /\ t.start = Or(p.start, row.start) /\ t.end = Or(p.end, row.end)
             /\ n.active = Or(p.active, row.active)
             /\ Aims(p) => n.teacher = t.teacher /\ n.class = t.class
             /\ ~Checks(p) => /\ n.teacher = row.teacher /\ n.class = row.class
                              /\ n.day = row.day /\ n.start = row.start /\ n.end = row.end
<1> DEFINE t == Aimed(row, p)
           n == Patched(row, p)
<1>1. t \in Target /\ n \in Slot
  BY PatchedFields, AimedFields
<1>2. /\ \A f \in Fields : n[f] = IF f \in Given(p) THEN p[f] ELSE row[f]
      /\ \A f \in Fields : f \in Given(p) <=> p[f] \notin {Keep, Blank}
      /\ p.start # Blank /\ p.end # Blank /\ p.day # Blank /\ p.active # Blank
  BY PatchedFields
<1>3. \A f \in Fields : t[f] = Or(p[f], row[f])
  BY AimedFields
<1> HIDE DEF t, n
<1>4. /\ n.day = t.day /\ n.start = t.start /\ n.end = t.end
      /\ t.start = Or(p.start, row.start) /\ t.end = Or(p.end, row.end)
      /\ n.active = Or(p.active, row.active)
  BY <1>2, <1>3 DEF Or, Fields
<1>5. Aims(p) => n.teacher = t.teacher /\ n.class = t.class
  BY <1>2, <1>3 DEF Or, Fields, Aims
<1>6. ~Checks(p) => /\ n.teacher = row.teacher /\ n.class = row.class
                    /\ n.day = row.day /\ n.start = row.start /\ n.end = row.end
  BY <1>2 DEF Checks, Fields
<1> QED
  BY <1>1, <1>4, <1>5, <1>6 DEF t, n

\* A whole slot is a patch that leaves nothing out, and so is checked.
LEMMA SlotPatches ==
  ASSUME NEW row \in Slot
  PROVE  /\ row \in Patch /\ row \in Target /\ row.start # Keep /\ row.end # Keep
         /\ Checks(row)
<1>1. /\ row \in Patch /\ row \in Target /\ DOMAIN row = Fields
      /\ \A f \in Fields : row[f] \notin {Keep, Blank}
  BY SlotFields
<1>2. "start" \in Given(row) \ {"active"}
  BY <1>1 DEF Given, Fields
<1> QED
  BY <1>1, <1>2 DEF Checks, Fields

--------------------------------------------------------------------------------
LEMMA InitTimetableInv == TimetableInit => TimetableInv
<1> SUFFICES ASSUME TimetableInit PROVE TimetableInv
  OBVIOUS
<1>1. Booked = {}
  BY DEF TimetableInit, Booked
<1>2. TimetableTypeOK
  BY WorkKinds DEF TimetableInit, TimetableTypeOK
<1>3. \A h \in Handlers : Sound(h)
  BY WorkKinds DEF TimetableInit, Sound
<1> QED
  BY <1>1, <1>2, <1>3 DEF TimetableInv, NoDoubleBooking, WithinSchoolHours

\* The steps before a write leave the timetable and every other request alone.
LEMMA QuietStep ==
  ASSUME TimetableInv, NEW h \in Handlers, NEW w \in Work,
         work' = [work EXCEPT ![h] = w], served' \in Nat,
         UNCHANGED <<slot, unchecked, skewed>>, Sound(h)'
  PROVE  TimetableInv'
<1>1. TimetableTypeOK'
  BY DEF TimetableInv, TimetableTypeOK
<1>2. Booked' = Booked
  BY DEF Booked
<1>3. ASSUME NEW g \in Handlers PROVE Sound(g)'
  <2>1. CASE g = h
    BY <2>1
  <2>2. CASE g # h
    <3>1. work'[g] = work[g] /\ Sound(g)
      BY <2>2 DEF TimetableInv, TimetableTypeOK
    <3> QED
      BY <3>1, <1>2 DEF Sound, Rivals
  <2> QED
    BY <2>1, <2>2
<1>4. NoDoubleBooking' /\ WithinSchoolHours'
  BY <1>2 DEF TimetableInv, NoDoubleBooking, Clash, WithinSchoolHours
<1> QED
  BY <1>1, <1>3, <1>4 DEF TimetableInv

LEMMA BeginQuiet ==
  ASSUME TimetableInv, NEW h \in Handlers, NEW w \in Work, Begin(h, w), Sound(h)'
  PROVE  TimetableInv'
<1>1. served' \in Nat
  <2>1. served \in Nat /\ served' = served + 1
    BY DEF Begin, TimetableInv, TimetableTypeOK
  <2> QED
    BY <2>1
<1> QED
  BY <1>1, QuietStep DEF Begin

LEMMA CreateKeepsInv ==
  ASSUME TimetableInv, NEW h \in Handlers, NEW row \in Slot, CreateTimetableSlot(h, row)
  PROVE  TimetableInv'
<1> DEFINE w == [pc |-> "teacher", id |-> NewSlot, patch |-> row, target |-> row, stale |-> FALSE]
<1>1. w \in Work
  BY SlotPatches, WorkKinds DEF Pending
<1>2. Begin(h, w) /\ ValidTimes(row)
  BY DEF CreateTimetableSlot
<1>3. work'[h] = w
  BY <1>2 DEF Begin, TimetableInv, TimetableTypeOK
<1>4. work'[h].pc = "teacher" /\ work'[h].id = NewSlot /\ work'[h].patch = row
      /\ work'[h].target = row
  BY <1>3
<1>5. NewSlot \notin Booked'
  BY TimetableAssumption DEF Booked
<1>6. Sound(h)'
  BY <1>2, <1>4, <1>5 DEF Sound
<1> QED
  BY <1>1, <1>2, <1>6, BeginQuiet

LEMMA UpdateKeepsInv ==
  ASSUME TimetableInv, NEW h \in Handlers, NEW id \in SlotIds, NEW p \in Patches,
         UpdateTimetableSlot(h, id, p)
  PROVE  TimetableInv'
<1> DEFINE t == Aimed(slot[id], p)
           w == [pc |-> IF Checks(p) THEN "teacher" ELSE "writing",
                 id |-> id, patch |-> p, target |-> t, stale |-> FALSE]
<1>1. p \in Patch /\ slot[id] \in Slot
  BY TimetableAssumption DEF UpdateTimetableSlot, TimetableInv, TimetableTypeOK, Booked
<1>2. t \in Target /\ t.start = Or(p.start, slot[id].start) /\ t.end = Or(p.end, slot[id].end)
  BY <1>1, Merges
<1>3. /\ Begin(h, w)
      /\ p.start # Keep \/ p.end # Keep => ValidTimes(t)
  BY DEF UpdateTimetableSlot
<1>4. id # NewSlot
  BY TimetableAssumption
<1>5. slot' = slot
  BY <1>3 DEF Begin
<1>6. t = Aimed(slot'[id], p)
  BY <1>5
<1> HIDE DEF t
<1>7. w \in Work
  BY <1>1, <1>2, WorkKinds DEF Pending
<1>8. work'[h] = w
  BY <1>3 DEF Begin, TimetableInv, TimetableTypeOK
<1>9. /\ work'[h].pc = (IF Checks(p) THEN "teacher" ELSE "writing") /\ work'[h].id = id
      /\ work'[h].patch = p /\ work'[h].target = t
  BY <1>8
<1>10. Sound(h)'
  BY <1>2, <1>3, <1>4, <1>6, <1>9 DEF Sound, Or
<1> QED
  BY <1>3, <1>7, <1>10, BeginQuiet

LEMMA CheckKeepsInv ==
  ASSUME TimetableInv, NEW h \in Handlers, CheckTeacherConflict(h) \/ CheckClassConflict(h)
  PROVE  TimetableInv'
<1>1. work[h] \in Pending /\ Sound(h)
  BY WorkKinds DEF TimetableInv, TimetableTypeOK, CheckTeacherConflict, CheckClassConflict
<1>2. served' \in Nat /\ UNCHANGED <<slot, unchecked, skewed>> /\ Booked' = Booked
  BY DEF TimetableInv, TimetableTypeOK, CheckTeacherConflict, CheckClassConflict, Booked
<1>3. CASE work' = [work EXCEPT ![h] = Free]
  <2>1. work'[h].pc = "free"
    BY <1>3, WorkKinds DEF TimetableInv, TimetableTypeOK
  <2>2. Sound(h)'
    BY <2>1 DEF Sound
  <2> QED
    BY <1>2, <1>3, <2>2, WorkKinds, QuietStep
<1>4. CASE /\ work[h].pc = "teacher"
           /\ work' = [work EXCEPT ![h] = [@ EXCEPT !.pc = "class"]]
           /\ \A i \in Rivals(work[h].id, work[h].target) :
                slot[i].teacher # work[h].target.teacher
  <2> DEFINE v == [work[h] EXCEPT !.pc = "class"]
  <2>1. /\ v \in Pending /\ v.pc = "class" /\ v.id = work[h].id /\ v.patch = work[h].patch
        /\ v.target = work[h].target /\ v.stale = work[h].stale
    BY <1>1, PendingMoves
  <2>2. work' = [work EXCEPT ![h] = v] /\ work'[h] = v
    BY <1>4 DEF TimetableInv, TimetableTypeOK
  <2> HIDE DEF v
  <2>3. Sound(h)'
    BY <1>1, <1>2, <1>4, <2>1, <2>2 DEF Sound, Rivals
  <2> QED
    BY <1>2, <2>1, <2>2, <2>3, WorkKinds, QuietStep
<1>5. CASE /\ work[h].pc = "class"
           /\ work' = [work EXCEPT ![h] = [@ EXCEPT !.pc = "writing"]]
           /\ \A i \in Rivals(work[h].id, work[h].target) :
                slot[i].class # work[h].target.class
  <2> DEFINE v == [work[h] EXCEPT !.pc = "writing"]
  <2>1. /\ v \in Pending /\ v.pc = "writing" /\ v.id = work[h].id /\ v.patch = work[h].patch
        /\ v.target = work[h].target /\ v.stale = work[h].stale
    BY <1>1, PendingMoves
  <2>2. work' = [work EXCEPT ![h] = v] /\ work'[h] = v
    BY <1>5 DEF TimetableInv, TimetableTypeOK
  <2> HIDE DEF v
  <2>3. Sound(h)'
    BY <1>1, <1>2, <1>5, <2>1, <2>2 DEF Sound, Rivals
  <2> QED
    BY <1>2, <2>1, <2>2, <2>3, WorkKinds, QuietStep
<1> QED
  BY <1>3, <1>4, <1>5 DEF CheckTeacherConflict, CheckClassConflict

\* A write of one slot makes every other request stale.
LEMMA WriteOutdates ==
  ASSUME TimetableInv, NEW h \in Handlers, NEW id \in SlotIds, NEW row \in Slot,
         slot' = [slot EXCEPT ![id] = row],
         work' = [g \in Handlers |-> IF g = h THEN Free ELSE Outdated(g)],
         unchecked' \subseteq SlotIds, skewed' \subseteq SlotIds, served' = served
  PROVE  /\ TimetableTypeOK' /\ \A g \in Handlers : Sound(g)'
         /\ slot'[id] = row /\ \A j \in SlotIds : j = id \/ slot'[j] = slot[j]
         /\ Booked' = Booked \cup {id}
<1>1. /\ slot'[id] = row /\ \A j \in SlotIds : j = id \/ slot'[j] = slot[j]
      /\ slot' \in [SlotIds -> Slot \cup {NoSlot}]
  BY DEF TimetableInv, TimetableTypeOK
<1>2. Booked' = Booked \cup {id}
  BY <1>1, TimetableAssumption DEF Booked
<1>3. work' \in [Handlers -> Work]
  BY OutdatedMoves, WorkKinds DEF TimetableInv
<1>4. ASSUME NEW g \in Handlers PROVE Sound(g)'
  <2>1. CASE g = h
    BY <2>1, WorkKinds DEF Sound
  <2>2. CASE g # h
    <3>1. work'[g] = Outdated(g) /\ Sound(g)
      BY <2>2 DEF TimetableInv
    <3>2. work'[g].pc = work[g].pc
      BY <3>1, OutdatedMoves DEF TimetableInv
    <3>3. CASE work[g].pc \in {"teacher", "class", "writing"}
      <4>1. /\ work'[g].stale /\ work'[g].id = work[g].id
            /\ work'[g].patch = work[g].patch /\ work'[g].target = work[g].target
        BY <3>1, <3>3, OutdatedMoves DEF TimetableInv
      <4> QED
        BY <3>1, <3>2, <3>3, <4>1 DEF Sound
    <3>4. CASE work[g].pc \notin {"teacher", "class", "writing"}
      BY <3>2, <3>4 DEF Sound
    <3> QED
      BY <3>3, <3>4
  <2> QED
    BY <2>1, <2>2
<1>5. TimetableTypeOK'
  BY <1>1, <1>3 DEF TimetableInv, TimetableTypeOK
<1> QED
  BY <1>1, <1>2, <1>4, <1>5

\* A row without rivals clashes with no slot but perhaps its own.
LEMMA RivalsClash ==
  ASSUME TimetableInv, NEW id \in SlotIds, NEW row \in Slot, NEW k,
         k = id \/ (k = NewSlot /\ id \notin Booked),
         slot'[id] = row, \A j \in SlotIds : j = id \/ slot'[j] = slot[j],
         NEW j \in Booked, j # id, Clash(id, j)' \/ Clash(j, id)'
  PROVE  /\ j \in Rivals(k, row)
         /\ slot[j].teacher = row.teacher \/ slot[j].class = row.class
<1>1. j \in SlotIds /\ j # k /\ slot'[j] = slot[j] /\ slot[j] \in Slot
  BY TimetableAssumption DEF Booked, TimetableInv, TimetableTypeOK
<1>2. /\ slot[j].active /\ slot[j].day = row.day
      /\ slot[j].teacher = row.teacher \/ slot[j].class = row.class
      /\ TimesOverlap(row, slot[j])
  <2>1. CASE Clash(id, j)'
    BY <1>1, <2>1 DEF Clash, TimesOverlap
  <2>2. CASE Clash(j, id)'
    <3>1. slot[j].start < row.end /\ slot[j].end > row.start
      BY <1>1, <2>2 DEF Clash, TimesOverlap
    <3>2. row.start \in Nat /\ row.end \in Nat /\ slot[j].start \in Nat /\ slot[j].end \in Nat
      BY <1>1, TimetableAssumption DEF Slot
    <3>3. row.start < slot[j].end /\ row.end > slot[j].start
      BY <3>1, <3>2
    <3> QED
      BY <1>1, <2>2, <3>3 DEF Clash, TimesOverlap
  <2> QED
    BY <2>1, <2>2
<1> QED
  BY <1>1, <1>2 DEF Rivals

LEMMA InsertKeepsInv ==
  ASSUME TimetableInv, NEW h \in Handlers, NEW id \in SlotIds, Insert(h, id)
  PROVE  TimetableInv'
<1> DEFINE row == work[h].target
<1>1. work[h] \in Pending /\ Sound(h) /\ work[h].pc = "writing" /\ work[h].id = NewSlot
  BY WorkKinds DEF TimetableInv, TimetableTypeOK, Insert
<1>2. row \in Slot /\ work[h].patch = row /\ id \notin Booked
  BY <1>1 DEF Sound, Insert, Booked
<1>3. ValidTimes(row) /\ Checks(row)
  BY <1>1, <1>2, SlotPatches DEF Sound
<1>4. ~work[h].stale => \A i \in Rivals(NewSlot, row) :
                          slot[i].teacher # row.teacher /\ slot[i].class # row.class
  BY <1>1, <1>2, <1>3 DEF Sound
<1>5. /\ slot' = [slot EXCEPT ![id] = row]
      /\ work' = [g \in Handlers |-> IF g = h THEN Free ELSE Outdated(g)]
      /\ unchecked' = IF work[h].stale THEN unchecked \cup {id} ELSE unchecked \ {id}
      /\ skewed' = skewed \ {id} /\ served' = served
  BY DEF Insert
<1> HIDE DEF row
<1>6. unchecked' \subseteq SlotIds /\ skewed' \subseteq SlotIds
  BY <1>5 DEF TimetableInv, TimetableTypeOK
<1>7. /\ TimetableTypeOK' /\ \A g \in Handlers : Sound(g)'
      /\ slot'[id] = row /\ \A j \in SlotIds : j = id \/ slot'[j] = slot[j]
      /\ Booked' = Booked \cup {id}
  BY <1>2, <1>5, <1>6, WriteOutdates
<1>8. NoDoubleBooking'
  <2>1. ASSUME NEW j \in Booked, j # id, Clash(id, j)' \/ Clash(j, id)'
        PROVE  id \in unchecked'
    BY <1>2, <1>4, <1>5, <1>7, <2>1, RivalsClash
  <2>2. ASSUME NEW i \in Booked, NEW j \in Booked, i # j, i # id, j # id, Clash(i, j)'
        PROVE  i \in unchecked' \/ j \in unchecked'
    <3>1. Clash(i, j)
      BY <1>7, <2>2 DEF Clash, Booked
    <3> QED
      BY <1>5, <2>2, <3>1 DEF TimetableInv, NoDoubleBooking
  <2> QED
    BY <1>7, <2>1, <2>2 DEF NoDoubleBooking
<1>9. WithinSchoolHours'
  BY <1>3, <1>5, <1>7 DEF TimetableInv, WithinSchoolHours, Booked
<1> QED
  BY <1>7, <1>8, <1>9 DEF TimetableInv

\* The update of a slot that is there, by a request that checked for target.
Lands(h, id, p, stale) ==
  /\ slot' = [slot EXCEPT ![id] = Patched(slot[id], p)]
  /\ work' = [g \in Handlers |-> IF g = h THEN Free ELSE Outdated(g)]
  /\ served' = served
  /\ unchecked' =
       IF Aims(p) /\ ~stale THEN unchecked \ {id}
       ELSE IF Checks(p) \/ (p.active = TRUE /\ ~slot[id].active)
            THEN unchecked \cup {id} ELSE unchecked
  /\ skewed' =
       IF p.start = Keep /\ p.end = Keep THEN skewed
       ELSE IF stale /\ Keep \in {p.start, p.end}
            THEN skewed \cup {id} ELSE skewed \ {id}

Checked(id, p, target, stale) ==
  /\ ~stale => target = Aimed(slot[id], p)
  /\ ~stale /\ Checks(p) => \A i \in Rivals(id, target) :
       slot[i].teacher # target.teacher /\ slot[i].class # target.class
  /\ p.start # Keep => target.start = p.start
  /\ p.end # Keep => target.end = p.end
  /\ p.start # Keep \/ p.end # Keep => ValidTimes(target)

LEMMA PatchKeepsInv ==
  ASSUME TimetableInv, NEW h \in Handlers, NEW id \in Booked, NEW p \in Patch,
         NEW target \in Target, NEW stale \in BOOLEAN,
         Lands(h, id, p, stale), Checked(id, p, target, stale)
  PROVE  TimetableInv'
<1> DEFINE row == Patched(slot[id], p)
<1>0. slot' = [slot EXCEPT ![id] = row]
  BY DEF Lands
<1>1. id \in SlotIds /\ slot[id] \in Slot
  BY DEF TimetableInv, TimetableTypeOK, Booked
<1>14. ~stale => target = Aimed(slot[id], p)
  BY DEF Checked
<1>2. /\ row \in Slot
      /\ row.start = Or(p.start, slot[id].start) /\ row.end = Or(p.end, slot[id].end)
      /\ row.active = Or(p.active, slot[id].active)
      /\ ~Checks(p) => /\ row.teacher = slot[id].teacher /\ row.class = slot[id].class
                       /\ row.day = slot[id].day
                       /\ row.start = slot[id].start /\ row.end = slot[id].end
  BY <1>1, Merges
<1>15. ~stale => /\ row.day = target.day /\ row.start = target.start /\ row.end = target.end
                 /\ Aims(p) => row.teacher = target.teacher /\ row.class = target.class
  BY <1>1, <1>14, Merges
<1> HIDE DEF row
<1>3. unchecked' \subseteq SlotIds /\ skewed' \subseteq SlotIds
  BY <1>1 DEF Lands, TimetableInv, TimetableTypeOK
<1>9. PICK r \in Slot : r = row
  BY <1>2
<1>10. slot' = [slot EXCEPT ![id] = r]
  BY <1>0, <1>9
<1>11. work' = [g \in Handlers |-> IF g = h THEN Free ELSE Outdated(g)] /\ served' = served
  BY DEF Lands
<1>12. /\ TimetableTypeOK' /\ \A g \in Handlers : Sound(g)'
       /\ slot'[id] = r /\ \A j \in SlotIds : j = id \/ slot'[j] = slot[j]
       /\ Booked' = Booked \cup {id}
  BY <1>1, <1>3, <1>10, <1>11, WriteOutdates
<1>13. \A j : j \in Booked' <=> j \in Booked
  BY <1>12
<1>4. /\ TimetableTypeOK' /\ \A g \in Handlers : Sound(g)'
      /\ slot'[id] = row /\ \A j \in SlotIds : j = id \/ slot'[j] = slot[j]
      /\ \A j : j \in Booked' <=> j \in Booked
  BY <1>9, <1>12, <1>13
<1>5. ASSUME NEW j \in Booked, j # id, Clash(id, j)' \/ Clash(j, id)'
      PROVE  id \in unchecked' \/ j \in unchecked'
  <2>1. CASE Aims(p) /\ ~stale
    <3>1. /\ j \in Rivals(id, row)
          /\ slot[j].teacher = row.teacher \/ slot[j].class = row.class
      BY <1>1, <1>2, <1>4, <1>5, RivalsClash
    <3>2. j \in Rivals(id, target)
      BY <1>15, <2>1, <3>1 DEF Rivals, TimesOverlap
    <3> QED
      BY <1>15, <2>1, <3>1, <3>2 DEF Checked, Aims
  <2>2. CASE Checks(p) /\ ~(Aims(p) /\ ~stale)
    BY <2>2 DEF Lands
  <2>3. CASE ~Checks(p)
    <3>1. row.active
      BY <1>4, <1>5 DEF Clash
    <3>2. CASE slot[id].active
      <4>1. slot'[j] = slot[j]
        BY <1>4, <1>5 DEF Booked
      <4>2. Clash(id, j) \/ Clash(j, id)
        BY <1>2, <1>4, <1>5, <2>3, <3>2, <4>1 DEF Clash, TimesOverlap
      <4>3. id \in unchecked \/ j \in unchecked
        BY <1>5, <4>2 DEF TimetableInv, NoDoubleBooking
      <4> QED
        BY <2>3, <4>3 DEF Lands, Aims
    <3>3. CASE ~slot[id].active
      <4>1. p.active = TRUE
        BY <1>2, <3>1, <3>3 DEF Or, Patch
      <4> QED
        BY <2>3, <3>3, <4>1 DEF Lands, Aims
    <3> QED
      BY <3>2, <3>3
  <2> QED
    BY <2>1, <2>2, <2>3
<1>6. NoDoubleBooking'
  <2>1. ASSUME NEW i \in Booked, NEW j \in Booked, i # j, i # id, j # id, Clash(i, j)'
        PROVE  i \in unchecked' \/ j \in unchecked'
    <3>1. Clash(i, j)
      BY <1>4, <2>1 DEF Clash, Booked
    <3>2. i \in unchecked \/ j \in unchecked
      BY <2>1, <3>1 DEF TimetableInv, NoDoubleBooking
    <3> QED
      BY <2>1, <3>2 DEF Lands
  <2> QED
    BY <1>4, <1>5, <2>1 DEF NoDoubleBooking
<1>7. id \in skewed' \/ ValidTimes(row)
  <2>1. CASE p.start = Keep /\ p.end = Keep
    BY <1>2, <2>1 DEF Lands, Or, TimetableInv, WithinSchoolHours, ValidTimes
  <2>2. CASE p.start # Keep /\ p.end # Keep
    BY <1>2, <2>2 DEF Checked, Or, ValidTimes
  <2>3. CASE ~stale /\ (p.start # Keep \/ p.end # Keep)
    BY <1>15, <2>3 DEF Checked, ValidTimes
  <2> QED
    BY <1>1, <2>1, <2>2, <2>3 DEF Lands
<1>8. WithinSchoolHours'
  BY <1>4, <1>7 DEF Lands, TimetableInv, WithinSchoolHours, Booked
<1> QED
  BY <1>4, <1>6, <1>8 DEF TimetableInv

LEMMA WriteKeepsInv ==
  ASSUME TimetableInv, NEW h \in Handlers, Write(h)
  PROVE  TimetableInv'
<1>1. work[h] \in Pending /\ Sound(h) /\ work[h].pc = "writing" /\ work[h].id \in SlotIds
  BY WorkKinds DEF TimetableInv, TimetableTypeOK, Write
<1>2. CASE work[h].id \notin Booked
  <2>1. work' = [work EXCEPT ![h] = Free] /\ UNCHANGED <<slot, served, unchecked, skewed>>
    BY <1>2 DEF Write
  <2>2. work'[h].pc = "free" /\ served' \in Nat
    BY <2>1, WorkKinds DEF TimetableInv, TimetableTypeOK
  <2>3. Sound(h)'
    BY <2>2 DEF Sound
  <2> QED
    BY <2>1, <2>2, <2>3, WorkKinds, QuietStep
<1>3. CASE work[h].id \in Booked
  <2>1. work[h].patch \in Patch /\ work[h].target \in Target /\ work[h].stale \in BOOLEAN
    BY <1>1 DEF Pending
  <2>2. Lands(h, work[h].id, work[h].patch, work[h].stale)
    BY <1>3 DEF Write, Lands, TimetableInv, TimetableTypeOK
  <2>3. Checked(work[h].id, work[h].patch, work[h].target, work[h].stale)
    BY <1>1, <1>3 DEF Sound, Checked
  <2> QED
    BY <1>3, <2>1, <2>2, <2>3, PatchKeepsInv
<1> QED
  BY <1>2, <1>3

LEMMA DeleteKeepsInv ==
  ASSUME TimetableInv, NEW h \in Handlers, Delete(h)
  PROVE  TimetableInv'
<1> DEFINE id == work[h].id
<1>1. id \in SlotIds
  BY WorkKinds DEF Delete, TimetableInv, TimetableTypeOK
<1>2. /\ work' = [work EXCEPT ![h] = Free] /\ slot' = [slot EXCEPT ![id] = NoSlot]
      /\ UNCHANGED <<served, unchecked, skewed>>
  BY DEF Delete
<1> HIDE DEF id
<1>3. Booked' = Booked \ {id} /\ \A j \in Booked' : slot'[j] = slot[j]
  BY <1>1, <1>2 DEF Booked, TimetableInv, TimetableTypeOK
<1>4. TimetableTypeOK'
  BY <1>2, WorkKinds DEF TimetableInv, TimetableTypeOK
<1>5. ASSUME NEW g \in Handlers PROVE Sound(g)'
  <2>1. CASE g = h
    BY <1>2, <2>1, WorkKinds DEF Sound, TimetableInv, TimetableTypeOK
  <2>2. CASE g # h
    <3>1. work'[g] = work[g] /\ Sound(g)
      BY <1>2, <2>2 DEF TimetableInv, TimetableTypeOK
    <3>2. \A i \in Rivals(work[g].id, work[g].target)' :
            i \in Rivals(work[g].id, work[g].target) /\ slot'[i] = slot[i]
      BY <1>3, <3>1 DEF Rivals
    <3> QED
      BY <1>3, <3>1, <3>2 DEF Sound
  <2> QED
    BY <2>1, <2>2
<1>6. NoDoubleBooking' /\ WithinSchoolHours'
  BY <1>2, <1>3 DEF TimetableInv, NoDoubleBooking, WithinSchoolHours, Clash
<1> QED
  BY <1>4, <1>5, <1>6 DEF TimetableInv

LEMMA TimetableInvariant == TimetableSpec => []TimetableInv
<1>1. TimetableInv /\ [TimetableNext]_vars => TimetableInv'
  <2> SUFFICES ASSUME TimetableInv, [TimetableNext]_vars PROVE TimetableInv'
    OBVIOUS
  <2>1. CASE UNCHANGED vars
    BY <2>1 DEF vars, TimetableInv, TimetableTypeOK, Sound, Rivals, Booked, NoDoubleBooking,
       Clash, WithinSchoolHours
  <2>2. ASSUME NEW h \in Handlers, NEW id \in SlotIds, DeleteSlot(h, id) PROVE TimetableInv'
    <3> DEFINE w == [pc |-> "deleting", id |-> id]
    <3>1. Begin(h, w) /\ w \in Work /\ w.pc = "deleting"
      BY <2>2, WorkKinds DEF DeleteSlot
    <3> HIDE DEF w
    <3>2. work'[h] = w
      BY <3>1 DEF Begin, TimetableInv, TimetableTypeOK
    <3>3. Sound(h)'
      BY <3>1, <3>2 DEF Sound
    <3> QED
      BY <3>1, <3>3, BeginQuiet
  <2> QED
    BY <2>1, <2>2, CreateKeepsInv, UpdateKeepsInv, CheckKeepsInv, InsertKeepsInv, WriteKeepsInv,
       DeleteKeepsInv DEF TimetableNext
<1> QED
  BY <1>1, InitTimetableInv, PTL DEF TimetableSpec

--------------------------------------------------------------------------------
\* The types of the timetable and of the requests, for any number of both.
THEOREM TimetableTypeCorrect == TimetableSpec => []TimetableTypeOK
<1>1. TimetableInv => TimetableTypeOK
  BY DEF TimetableInv
<1> QED
  BY <1>1, TimetableInvariant, PTL

\* createTimetableSlot and updateTimetableSlot: a clash needs a request that
\* overlapped another write, a slot that was switched on again, or an update
\* with "" for the teacher or the class, which is looked for and not written.
THEOREM NoDoubleBookingHolds == TimetableSpec => []NoDoubleBooking
<1>1. TimetableInv => NoDoubleBooking
  BY DEF TimetableInv
<1> QED
  BY <1>1, TimetableInvariant, PTL

\* validateTimeRange and validateSchoolHours: partial updates keep a slot within
\* school hours, unless two of them overlap.
THEOREM WithinSchoolHoursHolds == TimetableSpec => []WithinSchoolHours
<1>1. TimetableInv => WithinSchoolHours
  BY DEF TimetableInv
<1> QED
  BY <1>1, TimetableInvariant, PTL

================================================================================
