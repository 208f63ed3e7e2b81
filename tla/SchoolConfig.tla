------------------------------ MODULE SchoolConfig ------------------------------
(***************************************************************************)
(* The configuration of a school (school-config.service.ts), the cache in  *)
(* front of it, and the grades that are given by it.                       *)
(*                                                                         *)
(* getConfig reads the cache, then the row, and stores what it read;       *)
(* updateConfig writes the row and then deletes the entry.  The cache      *)
(* lives in the one process of the API.  A configuration is what grading   *)
(* and the creation of exams read of it.  The table is the one of the      *)
(* migrations and of the generated client, without the two operating hours *)
(* that schema.prisma adds.                                                *)
(***************************************************************************)
EXTENDS Integers, FiniteSets

CONSTANTS
  NoRow,       \* "no row in school_configs"
  Miss,        \* "no entry in the cache"
  Null,        \* "no grade yet"
  Keep,        \* a field an update does not mention
  Patches,     \* the updates that owners and principals send
  Totals,      \* total_marks of the assessments that are graded
  Handlers,    \* requests in flight at the same time
  MaxRequests  \* bound: requests

VARIABLES
  config,   \* school_configs
  cache,    \* the entry "school-config:<tenant>"
  req,      \* the requests in flight
  served,   \* requests begun so far
  result,   \* the grade given last
  crossed   \* history: the entry was read before the row was last written

vars == <<config, cache, req, served, result, crossed>>

--------------------------------------------------------------------------------
\* DEFAULT_GRADING_SCALE; the order of the bands does not count.
DefaultScale ==
  {[grade |-> "A", min |-> 70, max |-> 100], [grade |-> "B", min |-> 60, max |-> 69],
   [grade |-> "C", min |-> 50, max |-> 59], [grade |-> "D", min |-> 45, max |-> 49],
   [grade |-> "E", min |-> 40, max |-> 44], [grade |-> "F", min |-> 0, max |-> 39]}
Default == [ca |-> 40, exam |-> 60, pass |-> 40, scale |-> DefaultScale]

Band == [grade : STRING, min : 0..100, max : 0..100]

Highest(bands) == CHOOSE b \in bands : \A c \in bands : c.min <= b.min
Lowest(bands) == CHOOSE b \in bands : \A c \in bands : b.min <= c.min

ASSUME ConfigAssumption ==
  /\ MaxRequests \in Nat /\ Totals \subseteq Nat \ {0}
  /\ \A p \in Patches : p.scale # Keep => p.scale \subseteq Band /\ p.scale # {} /\ IsFiniteSet(p.scale)

\* What a request wants the configuration for: to show it, or to grade an
\* attempt with score marks out of total.
View == [score |-> 0, total |-> 0]
Uses == {View} \cup {u \in [score : 0..100, total : Totals] : u.score <= u.total}

Free == [pc |-> "free"]

\* getConfig: what a reader gets of a row.
Effective(row) == IF row = NoRow THEN Default ELSE row

ConfigInit ==
  /\ config = NoRow
  /\ cache = Miss
  /\ req = [h \in Handlers |-> Free]
  /\ served = 0
  /\ result = Null
  /\ crossed = FALSE

--------------------------------------------------------------------------------
Begin(h, next) ==
  /\ req[h] = Free
  /\ served < MaxRequests
  /\ served' = served + 1
  /\ req' = [req EXCEPT ![h] = next]

Answered(use, c) == IF use = View THEN Free ELSE [pc |-> "grading", use |-> use, by |-> c]

\* getConfig looks in the cache ...
GetConfig(h, use) ==
  /\ Begin(h, IF cache = Miss THEN [pc |-> "missed", use |-> use] ELSE Answered(use, cache))
  /\ UNCHANGED <<config, cache, result, crossed>>

\* ... reads the row ...
ReadRow(h) ==
  /\ req[h].pc = "missed"
  /\ req' = [req EXCEPT ![h] = [pc |-> "storing", use |-> req[h].use, by |-> Effective(config),
                               stale |-> FALSE]]
  /\ UNCHANGED <<config, cache, served, result, crossed>>

\* ... and stores it for CONFIG_CACHE_TTL.
StoreEntry(h) ==
  /\ req[h].pc = "storing"
  /\ cache' = req[h].by
  /\ crossed' = req[h].stale
  /\ req' = [req EXCEPT ![h] = Answered(req[h].use, req[h].by)]
  /\ UNCHANGED <<config, served, result>>

\* validateGradeScale: from 0 to 100, and, because its loop starts by looking at
\* the band before the first, with nothing in between.
ValidScale(scale) ==
  /\ Lowest(scale).min = 0 /\ Highest(scale).max = 100
  /\ Cardinality(scale) = 1

ValidPatch(p) ==
  /\ (p.ca # Keep /\ p.exam # Keep) => p.ca + p.exam = 100
  /\ p.scale # Keep => ValidScale(p.scale)

Or(new, old) == IF new = Keep THEN old ELSE new
Patched(c, p) == [c EXCEPT !.ca = Or(p.ca, @), !.exam = Or(p.exam, @), !.scale = Or(p.scale, @)]

Overtaken(v) == IF v.pc = "storing" THEN [v EXCEPT !.stale = TRUE] ELSE v

\* Slip: the entry stays.
UpdateConfigOnly(h, p) ==
  /\ ValidPatch(p)
  /\ req[h] = Free /\ served < MaxRequests
  /\ config' = Patched(Effective(config), p)
  /\ served' = served + 1
  /\ req' = [g \in Handlers |-> Overtaken(req[g])]
  /\ UNCHANGED <<cache, result, crossed>>

\* updateConfig writes the row ...
UpdateConfig(h, p) ==
  /\ ValidPatch(p)
  /\ req[h] = Free /\ served < MaxRequests
  /\ config' = Patched(Effective(config), p)
  /\ served' = served + 1
  /\ req' = [g \in Handlers |-> IF g = h THEN [pc |-> "clearing"] ELSE Overtaken(req[g])]
  /\ UNCHANGED <<cache, result, crossed>>

\* ... and deletes the entry.
ClearEntry(h) ==
  /\ req[h].pc = "clearing"
  /\ cache' = Miss
  /\ crossed' = FALSE
  /\ req' = [req EXCEPT ![h] = Free]
  /\ UNCHANGED <<config, served, result>>

\* Slip: entries are stored for good.
Stay == FALSE /\ UNCHANGED vars

\* CONFIG_CACHE_TTL is over.
Expire ==
  /\ cache # Miss
  /\ cache' = Miss
  /\ crossed' = FALSE
  /\ UNCHANGED <<config, req, served, result>>

\* finalizeSubmission: the percentage of an attempt is not rounded before it is
\* looked up, and a percentage in no band counts as the lowest.
InBand(use, b) == b.min * use.total <= 100 * use.score /\ 100 * use.score <= b.max * use.total
ApplyGradeScale(use, scale) ==
  LET fitting == {b \in scale : InBand(use, b)}
  IN  IF fitting = {} THEN Lowest(scale).grade ELSE Highest(fitting).grade

GradeAttempt(h) ==
  /\ req[h].pc = "grading"
  /\ LET use == req[h].use
         c == req[h].by
     IN  result' = [use |-> use, by |-> c, grade |-> ApplyGradeScale(use, c.scale),
                    passed |-> 100 * use.score >= c.pass * use.total]
  /\ req' = [req EXCEPT ![h] = Free]
  /\ UNCHANGED <<config, cache, served, crossed>>

\* A statement of the request fails.  The cache is in memory and does not.
Fail(h) ==
  /\ req[h].pc \in {"missed", "grading"}
  /\ req' = [req EXCEPT ![h] = Free]
  /\ UNCHANGED <<config, cache, served, result, crossed>>

\* The process goes, and the cache with it.
Crash ==
  /\ cache # Miss \/ \E h \in Handlers : req[h] # Free
  /\ cache' = Miss
  /\ crossed' = FALSE
  /\ req' = [h \in Handlers |-> Free]
  /\ UNCHANGED <<config, served, result>>

Finish(h) == ReadRow(h) \/ StoreEntry(h) \/ ClearEntry(h) \/ GradeAttempt(h)

ConfigNext ==
  \/ \E h \in Handlers :
       \/ \E use \in Uses : GetConfig(h, use)
       \/ \E p \in Patches : UpdateConfig(h, p)
       \/ Finish(h) \/ Fail(h)
  \/ Expire \/ Crash

ConfigSpec == ConfigInit /\ [][ConfigNext]_vars

\* Requests run on, and the time to live of an entry passes.
FairConfigSpec == ConfigSpec /\ WF_vars(Expire) /\ \A h \in Handlers : WF_vars(Finish(h))

--------------------------------------------------------------------------------
(***************************************************************************)
(* Properties                                                              *)
(***************************************************************************)

Fresh == cache \in {Miss, Effective(config)}

\* An entry that differs from the row is about to be deleted, or was read
\* before the row was last written: an update that has answered, and no read
\* crossed, is seen by every later request.
CacheFresh == Fresh \/ crossed \/ \E h \in Handlers : req[h].pc = "clearing"

\* A crossing entry is not refreshed by the readers it misleads: once updates
\* stop, the cache agrees with the row for good.
EventuallyFresh == <>[]Fresh

\* "Find the highest band the score qualifies for", of a scale that was checked
\* for "full coverage from 0 to 100": the grade of an attempt is that of the
\* highest band whose minimum it reaches.
HighestBandReached ==
  result # Null =>
    LET reached == {b \in result.by.scale : b.min * result.use.total <= 100 * result.use.score}
    IN  result.grade = Highest(reached).grade

\* applyGradeScale: the grade is another one only in a gap of the scale, for a
\* percentage that lies in no band.
OnlyGapsMisgraded ==
  (result # Null /\ \E b \in result.by.scale : InBand(result.use, b)) => HighestBandReached
================================================================================
