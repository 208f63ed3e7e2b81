------------------------------- MODULE Timetable -------------------------------
(***************************************************************************)
(* The timetable of one term (timetable.service.ts): slots that are        *)
(* created, updated and deleted by overlapping requests of admins.         *)
(*                                                                         *)
(* createTimetableSlot and updateTimetableSlot look for conflicts of the   *)
(* teacher, then for conflicts of the class, and write in a third          *)
(* statement.  No constraint of the schema backs them up.                  *)
(*                                                                         *)
(* Times of day are minutes ("08:30" is 510: the format is validated, so   *)
(* timeToMinutes loses nothing).  The venue of a slot plays no part.       *)
(***************************************************************************)
EXTENDS Naturals

CONSTANTS
  SlotIds,     \* uuids available to timetable_slots rows
  NoSlot,      \* "this uuid is not in the table"
  NewSlot,     \* the id of a slot that is not inserted yet
  Teachers, Classes, Subjects, Days,
  Times,       \* times of day
  Open, Close, \* SCHOOL_OPEN, SCHOOL_CLOSE
  Keep,        \* a field an update does not mention
  Blank,       \* "": the DTO of an update admits it for an id
  Patches,     \* the updates that admins send
  Handlers,    \* requests in flight at the same time
  MaxRequests  \* bound: creations, updates and deletions

VARIABLES
  slot,       \* timetable_slots, by uuid
  work,       \* the requests in flight
  served,     \* requests begun so far
  unchecked,  \* history: slots last written or switched on without a check of
              \* their teacher and class that still held when they were written
  skewed      \* history: slots one of whose times was written although
              \* another request had written meanwhile

vars == <<slot, work, served, unchecked, skewed>>

--------------------------------------------------------------------------------
Slot == [teacher : Teachers, class : Classes, subject : Subjects, day : Days,
         start : Times, end : Times, active : BOOLEAN]

\* UpdateTimetableSlotDto: an enumeration and a pattern guard the day and the
\* times, nothing guards the ids.
Patch == [teacher : Teachers \cup {Keep, Blank}, class : Classes \cup {Keep, Blank},
          subject : Subjects \cup {Keep, Blank}, day : Days \cup {Keep},
          start : Times \cup {Keep}, end : Times \cup {Keep}, active : BOOLEAN \cup {Keep}]

ASSUME TimetableAssumption ==
  /\ MaxRequests \in Nat /\ Times \subseteq Nat /\ Open \in Nat /\ Close \in Nat
  /\ Patches \subseteq Patch
  /\ Keep \notin Teachers /\ Keep \notin Classes /\ Keep \notin Subjects /\ Keep \notin Days
  /\ Keep \notin Times /\ Keep \notin BOOLEAN
  /\ Blank \notin Teachers /\ Blank \notin Classes /\ Blank \notin Subjects
  /\ Blank \notin Days /\ Blank \notin Times /\ Blank \notin BOOLEAN /\ Blank # Keep
  /\ NoSlot \notin Slot
  /\ NewSlot \notin SlotIds

Free == [pc |-> "free"]

\* What a request looks for conflicts of.
Target == [teacher : Teachers \cup {Blank}, class : Classes \cup {Blank},
           subject : Subjects \cup {Blank}, day : Days,
           start : Times, end : Times, active : BOOLEAN]

\* A request holds the fields it writes, the slot it checks for (target), and
\* whether another request wrote a slot since it began (stale).
Work ==
  {Free} \cup [pc : {"teacher", "class", "writing"}, id : SlotIds \cup {NewSlot}, patch : Patch,
               target : Target, stale : BOOLEAN]
         \cup [pc : {"deleting"}, id : SlotIds]

\* The type invariant of the component.
TimetableTypeOK ==
  /\ slot \in [SlotIds -> Slot \cup {NoSlot}]
  /\ work \in [Handlers -> Work]
  /\ served \in Nat
  /\ unchecked \subseteq SlotIds /\ skewed \subseteq SlotIds

Booked == {i \in SlotIds : slot[i] # NoSlot}

--------------------------------------------------------------------------------
\* dto.field ?? existing.field
Or(new, old) == IF new = Keep THEN old ELSE new

\* The slot an update looks for conflicts of: nobody's, where it brings "".
Aimed(row, p) == [f \in DOMAIN row |-> Or(p[f], row[f])]

\* dto.field && {field: dto.field}: the fields that an update writes.
Given(p) == {f \in DOMAIN p : p[f] \notin {Keep, Blank}}

Patched(row, p) == [f \in DOMAIN row |-> IF f \in Given(p) THEN p[f] ELSE row[f]]

TimesOverlap(a, b) == a.start < b.end /\ a.end > b.start

ValidTimes(row) == row.start < row.end /\ row.start >= Open /\ row.end <= Close

\* The active slots of the same day that the row would collide with.
Rivals(id, row) ==
  {i \in Booked \ {id} : slot[i].active /\ slot[i].day = row.day /\ TimesOverlap(row, slot[i])}

\* Whether an update looks for conflicts again: a new subject makes it do so,
\* is_active does not, and "" counts as not given.
Checks(p) == Given(p) \ {"active"} # {}

\* Whether the conflicts it looks for are those of the slot it writes.
Aims(p) == Checks(p) /\ Blank \notin {p.teacher, p.class}

--------------------------------------------------------------------------------
TimetableInit ==
  /\ slot = [i \in SlotIds |-> NoSlot]
  /\ work = [h \in Handlers |-> Free]
  /\ served = 0
  /\ unchecked = {} /\ skewed = {}

Begin(h, next) ==
  /\ work[h] = Free
  /\ served < MaxRequests
  /\ served' = served + 1
  /\ work' = [work EXCEPT ![h] = next]
  /\ UNCHANGED <<slot, unchecked, skewed>>

\* createTimetableSlot validates the times first.
CreateTimetableSlot(h, row) ==
  /\ row.active
  /\ ValidTimes(row)
  /\ Begin(h, [pc |-> "teacher", id |-> NewSlot, patch |-> row, target |-> row, stale |-> FALSE])

\* Slip: times are validated when both are given, as for academic sessions.
UpdateUnvalidated(h, id, p) ==
  /\ id \in Booked
  /\ LET target == Aimed(slot[id], p)
     IN  /\ p.start # Keep /\ p.end # Keep => ValidTimes(target)
         /\ Begin(h, [pc |-> IF Checks(p) THEN "teacher" ELSE "writing",
                      id |-> id, patch |-> p, target |-> target, stale |-> FALSE])

\* updateTimetableSlot reads the slot, validates the times if one is given,
\* and looks for conflicts if anything is given that could cause one.
UpdateTimetableSlot(h, id, p) ==
  /\ id \in Booked
  /\ LET target == Aimed(slot[id], p)
     IN  /\ p.start # Keep \/ p.end # Keep => ValidTimes(target)
         /\ Begin(h, [pc |-> IF Checks(p) THEN "teacher" ELSE "writing",
                      id |-> id, patch |-> p, target |-> target, stale |-> FALSE])

\* checkTeacherConflict and checkClassConflict; a conflict ends the request.
CheckTeacherConflict(h) ==
  /\ work[h].pc = "teacher"
  /\ work' = [work EXCEPT ![h] =
       IF \E i \in Rivals(@.id, @.target) : slot[i].teacher = @.target.teacher
       THEN Free ELSE [@ EXCEPT !.pc = "class"]]
  /\ UNCHANGED <<slot, served, unchecked, skewed>>

\* Slip: a slot of the same teacher is not looked at again.
CheckOtherTeachers(h) ==
  /\ work[h].pc = "class"
  /\ work' = [work EXCEPT ![h] =
       IF \E i \in Rivals(@.id, @.target) :
            slot[i].class = @.target.class /\ slot[i].teacher = @.target.teacher
       THEN Free ELSE [@ EXCEPT !.pc = "writing"]]
  /\ UNCHANGED <<slot, served, unchecked, skewed>>

CheckClassConflict(h) ==
  /\ work[h].pc = "class"
  /\ work' = [work EXCEPT ![h] =
       IF \E i \in Rivals(@.id, @.target) : slot[i].class = @.target.class
       THEN Free ELSE [@ EXCEPT !.pc = "writing"]]
  /\ UNCHANGED <<slot, served, unchecked, skewed>>

\* What the other requests have read is old now.
Outdated(g) ==
  IF work[g].pc \in {"teacher", "class", "writing"}
  THEN [work[g] EXCEPT !.stale = TRUE] ELSE work[g]

\* The insert at the end of createTimetableSlot: a uuid that no request knows.
Insert(h, id) ==
  /\ work[h].pc = "writing" /\ work[h].id = NewSlot
  /\ slot[id] = NoSlot
  /\ \A g \in Handlers : work[g].pc # "free" => work[g].id # id
  /\ slot' = [slot EXCEPT ![id] = work[h].target]
  /\ unchecked' = IF work[h].stale THEN unchecked \cup {id} ELSE unchecked \ {id}
  /\ skewed' = skewed \ {id}
  /\ work' = [g \in Handlers |-> IF g = h THEN Free ELSE Outdated(g)]
  /\ UNCHANGED served

\* The update at the end of updateTimetableSlot writes the given fields only,
\* and not "", whether or not it is what the checks looked for;
\* P2025 if the slot is gone.
Write(h) ==
  /\ work[h].pc = "writing" /\ work[h].id \in SlotIds
  /\ LET id == work[h].id
         p  == work[h].patch
     IN  IF id \in Booked
         THEN /\ slot' = [slot EXCEPT ![id] = Patched(@, p)]
              /\ unchecked' =
                   IF Aims(p) /\ ~work[h].stale THEN unchecked \ {id}
                   ELSE IF Checks(p) \/ (p.active = TRUE /\ ~slot[id].active)
                        THEN unchecked \cup {id} ELSE unchecked
              /\ skewed' =
                   IF p.start = Keep /\ p.end = Keep THEN skewed
                   ELSE IF work[h].stale /\ Keep \in {p.start, p.end}
                        THEN skewed \cup {id} ELSE skewed \ {id}
              /\ work' = [g \in Handlers |-> IF g = h THEN Free ELSE Outdated(g)]
         ELSE /\ work' = [work EXCEPT ![h] = Free]
              /\ UNCHANGED <<slot, unchecked, skewed>>
  /\ UNCHANGED served

\* deleteSlot: validateSlotExists, then the delete.
DeleteSlot(h, id) ==
  /\ id \in Booked
  /\ Begin(h, [pc |-> "deleting", id |-> id])

Delete(h) ==
  /\ work[h].pc = "deleting"
  /\ slot' = [slot EXCEPT ![work[h].id] = NoSlot]
  /\ work' = [work EXCEPT ![h] = Free]
  /\ UNCHANGED <<served, unchecked, skewed>>

TimetableNext ==
  \E h \in Handlers :
    \/ \E row \in Slot : CreateTimetableSlot(h, row)
    \/ \E id \in SlotIds :
         \/ \E p \in Patches : UpdateTimetableSlot(h, id, p)
         \/ Insert(h, id)
         \/ DeleteSlot(h, id)
    \/ CheckTeacherConflict(h) \/ CheckClassConflict(h)
    \/ Write(h) \/ Delete(h)

TimetableSpec == TimetableInit /\ [][TimetableNext]_vars

--------------------------------------------------------------------------------
(***************************************************************************)
(* Properties                                                              *)
(***************************************************************************)

Clash(i, j) ==
  /\ slot[i].active /\ slot[j].active
  /\ slot[i].day = slot[j].day
  /\ TimesOverlap(slot[i], slot[j])
  /\ slot[i].teacher = slot[j].teacher \/ slot[i].class = slot[j].class

\* "Recheck for conflicts": neither a teacher nor a class is in two places at
\* once, through any sequence of creations and partial updates, unless one of
\* the two slots was written by a request that overlapped another write, was
\* switched on again, which is done without a check, or was moved by an update
\* that brought "" for its teacher or its class: the conflicts of nobody are
\* looked for then, and the slot keeps the teacher or class it has.
NoDoubleBooking ==
  \A i, j \in Booked : i # j /\ Clash(i, j) => i \in unchecked \/ j \in unchecked

\* A slot lies within school hours and ends after it starts, although an
\* update may bring one of its times only and checks it against the other as
\* it was read: only two overlapping updates can break it.
WithinSchoolHours ==
  \A i \in Booked \ skewed : ValidTimes(slot[i])

================================================================================
