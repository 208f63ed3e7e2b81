--------------------------- MODULE SchoolConfigProofs ---------------------------
(***************************************************************************)
(* Proofs about SchoolConfig: what the cache may hold, and how wrong a     *)
(* grade may be.                                                           *)
(***************************************************************************)
EXTENDS SchoolConfig, FiniteSetTheorems, TLAPS

\* A request about to store an entry holds what the row says, or knows, as
\* history, that the row has been written since.
StoreFresh(h) ==
  req[h].pc = "storing" =>
    /\ req[h] = [pc |-> "storing", use |-> req[h].use, by |-> req[h].by, stale |-> req[h].stale]
    /\ req[h].stale \in BOOLEAN
    /\ req[h].stale \/ req[h].by = Effective(config)

StoresFresh == \A h \in Handlers : StoreFresh(h)

Shape == crossed \in BOOLEAN /\ req = [h \in Handlers |-> req[h]]

CacheInv == Shape /\ StoresFresh /\ CacheFresh

--------------------------------------------------------------------------------
\* At the start nothing is cached and nobody reads.
LEMMA CacheInvInit == ConfigInit => CacheInv
<1> SUFFICES ASSUME ConfigInit
             PROVE CacheInv
  OBVIOUS
<1>1. Shape /\ CacheFresh
  BY DEF ConfigInit, Shape, CacheFresh, Fresh
<1>2. \A h \in Handlers : req[h].pc # "storing"
  BY DEF ConfigInit, Free
<1> QED
  BY <1>1, <1>2 DEF CacheInv, StoresFresh, StoreFresh

\* An answered request neither stores nor clears.
LEMMA AnsweredIsDone ==
  ASSUME NEW use, NEW c
  PROVE Answered(use, c).pc \in {"free", "grading"}
  BY DEF Answered, Free

\* What is true of a request stays true while it and the row stay.
LEMMA OtherStores ==
  ASSUME NEW g \in Handlers, StoreFresh(g), req'[g] = req[g], config' = config
  PROVE StoreFresh(g)'
  BY DEF StoreFresh, Effective

\* A request that goes on, with row and entry as they were: it was not to clear
\* the entry, and does not become one that stores something else.
LEMMA OneMoves ==
  ASSUME CacheInv, NEW h \in Handlers, NEW v,
         req' = [req EXCEPT ![h] = v], UNCHANGED <<config, cache, crossed>>,
         req[h].pc # "clearing", v.pc # "storing"
  PROVE CacheInv'
<1>1. \A g \in Handlers : g # h => req'[g] = req[g]
  BY DEF CacheInv, Shape
<1>2. req'[h] = v
  BY DEF CacheInv, Shape
<1>3. Shape'
  BY DEF CacheInv, Shape
<1>4. StoresFresh'
  <2>1. StoreFresh(h)'
    BY <1>2 DEF StoreFresh
  <2>2. \A g \in Handlers : g # h => StoreFresh(g)'
    BY <1>1, OtherStores DEF CacheInv, StoresFresh
  <2> QED
    BY <2>1, <2>2 DEF StoresFresh
<1>5. CacheFresh'
  BY <1>1 DEF CacheInv, CacheFresh, Fresh, Effective
<1> QED
  BY <1>3, <1>4, <1>5 DEF CacheInv

\* Every step keeps the invariant.
LEMMA CacheInvStep == CacheInv /\ [ConfigNext]_vars => CacheInv'
<1> SUFFICES ASSUME CacheInv, [ConfigNext]_vars
             PROVE CacheInv'
  OBVIOUS
<1>1. ASSUME NEW h \in Handlers, NEW use \in Uses, GetConfig(h, use)
      PROVE CacheInv'
  <2> DEFINE v == IF cache = Miss THEN [pc |-> "missed", use |-> use] ELSE Answered(use, cache)
  <2>1. v.pc # "storing"
    BY AnsweredIsDone
  <2>2. req[h].pc # "clearing" /\ req' = [req EXCEPT ![h] = v] /\ UNCHANGED <<config, cache, crossed>>
    BY <1>1 DEF GetConfig, Begin, Free
  <2> HIDE DEF v
  <2> QED
    BY <2>1, <2>2, OneMoves
<1>2. ASSUME NEW h \in Handlers, ReadRow(h)
      PROVE CacheInv'
  <2>1. /\ req'[h] = [pc |-> "storing", use |-> req[h].use, by |-> Effective(config), stale |-> FALSE]
        /\ \A g \in Handlers : g # h => req'[g] = req[g]
        /\ Shape'
    BY <1>2 DEF ReadRow, CacheInv, Shape
  <2>2. UNCHANGED <<config, cache, crossed>> /\ req[h].pc # "clearing"
    BY <1>2 DEF ReadRow
  <2>3. StoresFresh'
    <3>1. StoreFresh(h)'
      BY <2>1, <2>2 DEF StoreFresh, Effective
    <3>2. \A g \in Handlers : g # h => StoreFresh(g)'
      BY <2>1, <2>2, OtherStores DEF CacheInv, StoresFresh
    <3> QED
      BY <3>1, <3>2 DEF StoresFresh
  <2>4. CacheFresh'
    BY <2>1, <2>2 DEF CacheInv, CacheFresh, Fresh, Effective
  <2> QED
    BY <2>1, <2>3, <2>4 DEF CacheInv
<1>3. ASSUME NEW h \in Handlers, StoreEntry(h)
      PROVE CacheInv'
  <2>1. /\ req'[h] = Answered(req[h].use, req[h].by)
        /\ \A g \in Handlers : g # h => req'[g] = req[g]
        /\ req' = [g \in Handlers |-> req'[g]]
    BY <1>3 DEF StoreEntry, CacheInv, Shape
  <2>2. req'[h].pc # "storing"
    BY <2>1, AnsweredIsDone
  <2>3. /\ config' = config /\ cache' = req[h].by /\ crossed' = req[h].stale
        /\ req[h].stale \in BOOLEAN /\ (req[h].stale \/ req[h].by = Effective(config))
    BY <1>3 DEF StoreEntry, CacheInv, StoresFresh, StoreFresh
  <2>4. StoresFresh'
    <3>1. StoreFresh(h)'
      BY <2>2 DEF StoreFresh
    <3>2. \A g \in Handlers : g # h => StoreFresh(g)'
      BY <2>1, <2>3, OtherStores DEF CacheInv, StoresFresh
    <3> QED
      BY <3>1, <3>2 DEF StoresFresh
  <2>5. CacheFresh'
    BY <2>3 DEF CacheFresh, Fresh, Effective
  <2> QED
    BY <2>1, <2>3, <2>4, <2>5 DEF CacheInv, Shape
<1>4. ASSUME NEW h \in Handlers, NEW p \in Patches, UpdateConfig(h, p)
      PROVE CacheInv'
  <2>1. /\ req' = [g \in Handlers |-> IF g = h THEN [pc |-> "clearing"] ELSE Overtaken(req[g])]
        /\ crossed' = crossed
    BY <1>4 DEF UpdateConfig
  <2>2. \A g \in Handlers : req'[g].pc = "storing" =>
          req'[g] = [pc |-> "storing", use |-> req'[g].use, by |-> req'[g].by, stale |-> TRUE]
    <3> SUFFICES ASSUME NEW g \in Handlers, req'[g].pc = "storing"
                 PROVE req'[g] = [pc |-> "storing", use |-> req'[g].use, by |-> req'[g].by, stale |-> TRUE]
      OBVIOUS
    <3>1. g # h /\ req'[g] = Overtaken(req[g])
      BY <2>1
    <3>2. req[g].pc = "storing"
      BY <3>1 DEF Overtaken
    <3>3. req[g] = [pc |-> "storing", use |-> req[g].use, by |-> req[g].by, stale |-> req[g].stale]
      BY <3>2 DEF CacheInv, StoresFresh, StoreFresh
    <3>4. req'[g] = [req[g] EXCEPT !.stale = TRUE]
      BY <3>1, <3>2 DEF Overtaken
    <3> QED
      BY <3>3, <3>4
  <2>3. StoresFresh'
    <3> SUFFICES ASSUME NEW g \in Handlers
                 PROVE StoreFresh(g)'
      BY DEF StoresFresh
    <3>1. CASE req'[g].pc = "storing"
      <4>1. req'[g] = [pc |-> "storing", use |-> req'[g].use, by |-> req'[g].by, stale |-> TRUE]
        BY <2>2, <3>1
      <4>2. req'[g].stale = TRUE
        BY <4>1
      <4> QED
        BY <4>1, <4>2 DEF StoreFresh
    <3>2. CASE req'[g].pc # "storing"
      BY <3>2 DEF StoreFresh
    <3> QED
      BY <3>1, <3>2
  <2>4. CacheFresh'
    BY <2>1 DEF CacheFresh
  <2> QED
    BY <2>1, <2>3, <2>4 DEF CacheInv, Shape
<1>5. ASSUME NEW h \in Handlers, ClearEntry(h)
      PROVE CacheInv'
  <2>1. /\ req'[h] = Free
        /\ \A g \in Handlers : g # h => req'[g] = req[g]
        /\ req' = [g \in Handlers |-> req'[g]]
    BY <1>5 DEF ClearEntry, CacheInv, Shape
  <2>2. config' = config /\ cache' = Miss /\ crossed' = FALSE
    BY <1>5 DEF ClearEntry
  <2>3. StoresFresh'
    <3>1. StoreFresh(h)'
      BY <2>1 DEF StoreFresh, Free
    <3>2. \A g \in Handlers : g # h => StoreFresh(g)'
      BY <2>1, <2>2, OtherStores DEF CacheInv, StoresFresh
    <3> QED
      BY <3>1, <3>2 DEF StoresFresh
  <2> QED
    BY <2>1, <2>2, <2>3 DEF CacheInv, Shape, CacheFresh, Fresh
<1>6. ASSUME NEW h \in Handlers, GradeAttempt(h) \/ Fail(h)
      PROVE CacheInv'
  BY <1>6, OneMoves DEF GradeAttempt, Fail, Free
<1>7. CASE Expire
  BY <1>7 DEF Expire, CacheInv, Shape, StoresFresh, StoreFresh, CacheFresh, Fresh, Effective
<1>8. CASE Crash
  BY <1>8 DEF Crash, CacheInv, Shape, StoresFresh, StoreFresh, CacheFresh, Fresh, Free
<1>9. CASE UNCHANGED vars
  BY <1>9 DEF vars, CacheInv, Shape, StoresFresh, StoreFresh, CacheFresh, Fresh, Effective
<1> QED
  BY <1>1, <1>2, <1>3, <1>4, <1>5, <1>6, <1>7, <1>8, <1>9 DEF ConfigNext, Finish

\* Whatever requests overlap, an entry that differs from the row is about to be
\* deleted or was read before the row was last written.
THEOREM CacheFreshHolds == ConfigSpec => []CacheFresh
<1>1. CacheInv => CacheFresh
  BY DEF CacheInv
<1> QED
  BY <1>1, CacheInvInit, CacheInvStep, PTL DEF ConfigSpec

--------------------------------------------------------------------------------
(***************************************************************************)
(* Grades.                                                                 *)
(***************************************************************************)

\* The scales there can be: validateGradeScale lets no other one pass.
SoundScale(scale) ==
  scale = DefaultScale \/ \E b \in Band : scale = {b} /\ b.min = 0 /\ b.max = 100

Sound(c) ==
  /\ c = [ca |-> c.ca, exam |-> c.exam, pass |-> c.pass, scale |-> c.scale]
  /\ SoundScale(c.scale)

SoundRequest(v) ==
  /\ v.pc \in {"missed", "storing"} => v.use \in Uses
  /\ v.pc = "grading" => v.use \in Uses \ {View} /\ Sound(v.by)
  /\ v.pc = "storing" => Sound(v.by)

\* The inductive invariant: whatever is in circulation was validated.
GradesInv ==
  /\ req = [h \in Handlers |-> req[h]]
  /\ config = NoRow \/ Sound(config)
  /\ cache = Miss \/ Sound(cache)
  /\ \A h \in Handlers : SoundRequest(req[h])
  /\ OnlyGapsMisgraded

LEMMA BandFields ==
  ASSUME NEW scale, SoundScale(scale), NEW b \in scale
  PROVE  /\ b.min \in 0..100 /\ b.max \in 0..100
         /\ b.min \in Int /\ b.max \in Int
<1>1. b.min \in 0..100 /\ b.max \in 0..100
  BY DEF SoundScale, DefaultScale, Band
<1>2. \A n \in 0..100 : n \in Int
  OBVIOUS
<1> QED
  BY <1>1, <1>2, Zenon

LEMMA Between ==
  ASSUME NEW u \in Int, NEW v \in Int, NEW w \in Int, u <= v, w > v
  PROVE  u < w
OBVIOUS

\* The band with the most is the highest.
LEMMA HighestIs ==
  ASSUME NEW bands, NEW b \in bands, b.min \in Int,
         \A c \in bands : c.min \in Int /\ (c # b => c.min < b.min)
  PROVE  Highest(bands) = b
<1>1. \A c \in bands : c.min <= b.min
  OBVIOUS
<1>2. /\ Highest(bands) \in bands
      /\ \A c \in bands : c.min <= Highest(bands).min
  BY <1>1, Zenon DEF Highest
<1>3. b.min <= Highest(bands).min
  BY <1>2
<1> QED
  BY <1>2, <1>3

\* Bands do not overlap: what lies in a band reaches no higher one.
LEMMA BandsApart ==
  ASSUME NEW scale, SoundScale(scale), NEW b \in scale, NEW c \in scale, b # c
  PROVE  b.min > c.max \/ c.min > b.max
BY DEF SoundScale, DefaultScale

LEMMA BandsOrdered ==
  ASSUME NEW scale, SoundScale(scale), NEW b \in scale
  PROVE  b.min <= b.max
BY DEF SoundScale, DefaultScale

LEMMA GradeInBand ==
  ASSUME NEW scale, SoundScale(scale), NEW use \in Uses \ {View}, NEW b \in scale, InBand(use, b)
  PROVE  /\ ApplyGradeScale(use, scale) = b.grade
         /\ Highest({c \in scale : c.min * use.total <= 100 * use.score}) = b
<1> DEFINE fitting == {c \in scale : InBand(use, c)}
           reached == {c \in scale : c.min * use.total <= 100 * use.score}
<1>1. use.score \in Nat /\ use.total \in Nat /\ use.total > 0
  <2>1. use \in [score : 0..100, total : Totals]
    BY DEF Uses
  <2>2. use.score \in 0..100 /\ use.total \in Totals
    BY <2>1
  <2>3. use.total \in Nat \ {0}
    BY <2>2, ConfigAssumption
  <2> QED
    BY <2>2, <2>3
<1>2. PICK n \in Nat, t \in Nat : n = 100 * use.score /\ t = use.total /\ t > 0
  BY <1>1
<1>3. \A c \in scale : c.min \in 0..100 /\ c.max \in 0..100 /\ c.min <= c.max
  BY BandFields, BandsOrdered
<1>4. \A x, y \in 0..100 : x < y => x * t < y * t
  BY <1>2
<1>5. ASSUME NEW c \in scale, c # b, c.min * t <= n
      PROVE  c.min < b.min
  <2>1. CASE c.min > b.max
    <3>1. b.max * t < c.min * t
      BY <1>3, <1>4, <2>1
    <3>2. n <= b.max * t
      BY <1>2 DEF InBand
    <3>3. b.max * t \in Int /\ c.min * t \in Int
      BY <1>2, <1>3
    <3> QED
      BY <1>2, <1>5, <3>1, <3>2, <3>3
  <2>2. CASE b.min > c.max
    <3>1. c.min \in Int /\ c.max \in Int /\ b.min \in Int
      BY BandFields
    <3>2. c.min <= c.max
      BY BandsOrdered
    <3> QED
      BY <2>2, <3>1, <3>2, Between
  <2> QED
    BY <1>5, <2>1, <2>2, BandsApart
<1>6. b \in reached /\ b \in fitting
  BY DEF InBand
<1>7. \A c \in reached : c.min \in Int /\ (c # b => c.min < b.min)
  BY <1>2, <1>3, <1>5
<1>8. \A c \in fitting : c.min \in Int /\ (c # b => c.min < b.min)
  BY <1>2, <1>3, <1>5 DEF InBand
<1>9. Highest(reached) = b
  <2> HIDE DEF reached
  <2> QED
    BY <1>3, <1>6, <1>7, HighestIs
<1>10. Highest(fitting) = b /\ fitting # {}
  <2> HIDE DEF fitting
  <2> QED
    BY <1>3, <1>6, <1>8, HighestIs
<1> QED
  BY <1>9, <1>10 DEF ApplyGradeScale

LEMMA DefaultIsSound == Sound(Default)
BY DEF Sound, SoundScale, Default

\* What updateConfig writes.
LEMMA PatchedIsSound ==
  ASSUME NEW c, Sound(c), NEW p \in Patches, ValidPatch(p)
  PROVE  Sound(Patched(c, p))
<1>1. SoundScale(Or(p.scale, c.scale))
  <2>1. CASE p.scale = Keep
    BY <2>1 DEF Or, Sound
  <2>2. CASE p.scale # Keep
    <3>1. /\ p.scale \subseteq Band /\ IsFiniteSet(p.scale) /\ Cardinality(p.scale) = 1
          /\ Lowest(p.scale).min = 0 /\ Highest(p.scale).max = 100
      BY <2>2, ConfigAssumption DEF ValidPatch, ValidScale
    <3>2. PICK b : p.scale = {b}
      <4>1. PICK scale : scale = p.scale
        OBVIOUS
      <4>2. IsFiniteSet(scale) /\ Cardinality(scale) = 1
        BY <3>1, <4>1, Zenon
      <4>3. \E b : scale = {b}
        BY <4>2, FS_Singleton, Zenon
      <4> QED
        BY <4>1, <4>3, Zenon
    <3>3. b \in Band /\ b.min <= b.min
      BY <3>1, <3>2 DEF Band
    <3>4. Lowest(p.scale) = b /\ Highest(p.scale) = b
      BY <3>2, <3>3, Zenon DEF Lowest, Highest
    <3> QED
      BY <2>2, <3>1, <3>2, <3>3, <3>4 DEF Or, SoundScale
  <2> QED
    BY <2>1, <2>2
<1>2. Patched(c, p) = [ca |-> Or(p.ca, c.ca), exam |-> Or(p.exam, c.exam), pass |-> c.pass,
                       scale |-> Or(p.scale, c.scale)]
  <2>1. PICK a, e, q, s : c = [ca |-> a, exam |-> e, pass |-> q, scale |-> s]
    BY DEF Sound
  <2>2. c.ca = a /\ c.exam = e /\ c.pass = q /\ c.scale = s
    BY <2>1
  <2>3. PICK c1 : c1 = [c EXCEPT !.ca = Or(p.ca, c.ca)]
    OBVIOUS
  <2>4. c1 = [ca |-> Or(p.ca, a), exam |-> e, pass |-> q, scale |-> s]
    BY <2>1, <2>3
  <2>5. PICK c2 : c2 = [c1 EXCEPT !.exam = Or(p.exam, c.exam)]
    OBVIOUS
  <2>6. c2 = [ca |-> Or(p.ca, a), exam |-> Or(p.exam, e), pass |-> q, scale |-> s]
    BY <2>2, <2>4, <2>5
  <2>7. [c2 EXCEPT !.scale = Or(p.scale, c.scale)]
          = [ca |-> Or(p.ca, a), exam |-> Or(p.exam, e), pass |-> q, scale |-> Or(p.scale, s)]
    BY <2>2, <2>6
  <2> QED
    BY <2>2, <2>3, <2>5, <2>7 DEF Patched
<1> QED
  BY <1>1, <1>2 DEF Sound

LEMMA AnsweredIsSound ==
  ASSUME NEW use \in Uses, NEW c, Sound(c)
  PROVE  SoundRequest(Answered(use, c))
<1>1. CASE use = View
  BY <1>1 DEF Answered, SoundRequest, Free
<1>2. CASE use # View
  <2> DEFINE v == [pc |-> "grading", use |-> use, by |-> c]
  <2>1. v.pc = "grading" /\ v.use = use /\ v.by = c
    OBVIOUS
  <2>2. Answered(use, c) = v
    BY <1>2 DEF Answered
  <2> HIDE DEF v
  <2> QED
    BY <1>2, <2>1, <2>2 DEF SoundRequest
<1> QED
  BY <1>1, <1>2

\* One request goes on.
LEMMA OneSound ==
  ASSUME GradesInv, NEW h \in Handlers, NEW v, SoundRequest(v), req' = [req EXCEPT ![h] = v]
  PROVE  req' = [g \in Handlers |-> req'[g]] /\ \A g \in Handlers : SoundRequest(req'[g])
BY DEF GradesInv

LEMMA FreeIsSound == SoundRequest(Free)
BY DEF SoundRequest, Free

LEMMA GradesStep ==
  ASSUME GradesInv, [ConfigNext]_vars
  PROVE  GradesInv'
<1>0. result' = result => OnlyGapsMisgraded'
  BY DEF GradesInv, OnlyGapsMisgraded, HighestBandReached, InBand
<1>1. ASSUME NEW h \in Handlers, NEW use \in Uses, GetConfig(h, use)
      PROVE  GradesInv'
  <2> DEFINE missed == [pc |-> "missed", use |-> use]
             next == IF cache = Miss THEN missed ELSE Answered(use, cache)
  <2>1. SoundRequest(missed)
    BY DEF SoundRequest
  <2>2. SoundRequest(next)
    BY <2>1, AnsweredIsSound DEF GradesInv
  <2>3. req' = [req EXCEPT ![h] = next] /\ UNCHANGED <<config, cache, result>>
    BY <1>1 DEF GetConfig, Begin
  <2> HIDE DEF next
  <2>4. req' = [g \in Handlers |-> req'[g]] /\ \A g \in Handlers : SoundRequest(req'[g])
    BY <2>2, <2>3, OneSound
  <2> QED
    BY <1>0, <2>3, <2>4 DEF GradesInv
<1>2. ASSUME NEW h \in Handlers, NEW p \in Patches, UpdateConfig(h, p)
      PROVE  GradesInv'
  <2>1. /\ config' = Patched(Effective(config), p) /\ ValidPatch(p)
        /\ req' = [g \in Handlers |-> IF g = h THEN [pc |-> "clearing"] ELSE Overtaken(req[g])]
        /\ UNCHANGED <<cache, result>>
    BY <1>2 DEF UpdateConfig
  <2>2. Sound(config')
    BY <2>1, PatchedIsSound, DefaultIsSound DEF Effective, GradesInv
  <2>3. ASSUME NEW g \in Handlers
        PROVE  SoundRequest(req'[g])
    <3>1. CASE g = h
      BY <2>1, <3>1 DEF SoundRequest
    <3>2. CASE g # h /\ req[g].pc # "storing"
      BY <2>1, <3>2 DEF GradesInv, Overtaken
    <3>3. CASE g # h /\ req[g].pc = "storing"
      <4>1. req'[g] = [req[g] EXCEPT !.stale = TRUE] /\ SoundRequest(req[g])
        BY <2>1, <3>3 DEF GradesInv, Overtaken
      <4>2. req'[g].pc = req[g].pc /\ req'[g].use = req[g].use /\ req'[g].by = req[g].by
        BY <4>1
      <4> QED
        BY <4>1, <4>2 DEF SoundRequest
    <3> QED
      BY <3>1, <3>2, <3>3
  <2> QED
    BY <1>0, <2>1, <2>2, <2>3 DEF GradesInv
<1>3. ASSUME NEW h \in Handlers, ReadRow(h)
      PROVE  GradesInv'
  <2> DEFINE next == [pc |-> "storing", use |-> req[h].use, by |-> Effective(config), stale |-> FALSE]
  <2>1. Sound(Effective(config)) /\ req[h].use \in Uses
    BY <1>3, DefaultIsSound DEF Effective, GradesInv, ReadRow, SoundRequest
  <2>2. SoundRequest(next)
    BY <2>1 DEF SoundRequest
  <2>3. req' = [req EXCEPT ![h] = next] /\ UNCHANGED <<config, cache, result>>
    BY <1>3 DEF ReadRow
  <2> HIDE DEF next
  <2>4. req' = [g \in Handlers |-> req'[g]] /\ \A g \in Handlers : SoundRequest(req'[g])
    BY <2>2, <2>3, OneSound
  <2> QED
    BY <1>0, <2>3, <2>4 DEF GradesInv
<1>4. ASSUME NEW h \in Handlers, StoreEntry(h)
      PROVE  GradesInv'
  <2>1. Sound(req[h].by) /\ req[h].use \in Uses
    BY <1>4 DEF GradesInv, StoreEntry, SoundRequest
  <2>2. /\ req' = [req EXCEPT ![h] = Answered(req[h].use, req[h].by)]
        /\ cache' = req[h].by /\ UNCHANGED <<config, result>>
    BY <1>4 DEF StoreEntry
  <2>3. req' = [g \in Handlers |-> req'[g]] /\ \A g \in Handlers : SoundRequest(req'[g])
    BY <2>1, <2>2, AnsweredIsSound, OneSound
  <2> QED
    BY <1>0, <2>1, <2>2, <2>3 DEF GradesInv
<1>5. ASSUME NEW h \in Handlers, ClearEntry(h) \/ Fail(h)
      PROVE  GradesInv'
  <2>1. req' = [req EXCEPT ![h] = Free] /\ cache' \in {Miss, cache} /\ UNCHANGED <<config, result>>
    BY <1>5 DEF ClearEntry, Fail
  <2>2. req' = [g \in Handlers |-> req'[g]] /\ \A g \in Handlers : SoundRequest(req'[g])
    BY <2>1, FreeIsSound, OneSound
  <2> QED
    BY <1>0, <2>1, <2>2 DEF GradesInv
<1>6. ASSUME NEW h \in Handlers, GradeAttempt(h)
      PROVE  GradesInv'
  <2> DEFINE use == req[h].use
             c == req[h].by
             given == [use |-> use, by |-> c, grade |-> ApplyGradeScale(use, c.scale),
                       passed |-> 100 * use.score >= c.pass * use.total]
  <2>1. result' = given /\ req' = [req EXCEPT ![h] = Free] /\ UNCHANGED <<config, cache>>
    BY <1>6 DEF GradeAttempt
  <2>2. use \in Uses \ {View} /\ SoundScale(c.scale)
    BY <1>6 DEF GradeAttempt, GradesInv, SoundRequest, Sound
  <2>3. req' = [g \in Handlers |-> req'[g]] /\ \A g \in Handlers : SoundRequest(req'[g])
    BY <2>1, FreeIsSound, OneSound
  <2>4. given.use = use /\ given.by = c /\ given.grade = ApplyGradeScale(use, c.scale)
    OBVIOUS
  <2> HIDE DEF given
  <2>5. ASSUME NEW b \in c.scale, InBand(use, b)
        PROVE  given.grade = Highest({d \in c.scale : d.min * use.total <= 100 * use.score}).grade
    BY <2>2, <2>4, <2>5, GradeInBand
  <2>6. OnlyGapsMisgraded'
    BY <2>1, <2>4, <2>5 DEF OnlyGapsMisgraded, HighestBandReached, InBand
  <2> QED
    BY <2>1, <2>3, <2>6 DEF GradesInv
<1>7. CASE Expire
  BY <1>0, <1>7 DEF Expire, GradesInv
<1>8. CASE Crash
  BY <1>0, <1>8, FreeIsSound DEF Crash, GradesInv
<1>9. CASE UNCHANGED vars
  BY <1>0, <1>9 DEF vars, GradesInv
<1> QED
  BY <1>1, <1>2, <1>3, <1>4, <1>5, <1>6, <1>7, <1>8, <1>9 DEF ConfigNext, Finish

\* applyGradeScale: for any updates, totals and overlaps, a grade other than
\* that of the highest band reached is one of a percentage that lies in no band.
THEOREM OnlyGapsMisgradedHolds == ConfigSpec => []OnlyGapsMisgraded
<1>1. ConfigInit => GradesInv
  BY FreeIsSound DEF ConfigInit, GradesInv, OnlyGapsMisgraded
<1>2. GradesInv => OnlyGapsMisgraded
  BY DEF GradesInv
<1> QED
  BY <1>1, <1>2, GradesStep, PTL DEF ConfigSpec
================================================================================
