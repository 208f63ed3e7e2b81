--------------------------- MODULE AssessmentProofs ---------------------------
(***************************************************************************)
(* Proofs about Submissions, Grading, Approval and ExamAccess, for any     *)
(* number of students, requests, attempts, questions, worker slots,        *)
(* teachers and staff, any number of errors and stalls, any length of the  *)
(* approval log, and marks of any size.                                    *)
(***************************************************************************)
EXTENDS Grading, ExamAccess, FiniteSetTheorems, SequenceTheorems, WellFoundedInduction, TLAPS

--------------------------------------------------------------------------------
(***************************************************************************)
(* Submissions: type correctness.                                          *)
(***************************************************************************)

\* What the local state of a request looks like at each of its steps.
LEMMA RequestShape ==
  ASSUME NEW r \in Request
  PROVE  /\ r.pc \in {"idle", "counting", "creating", "saving", "checking",
                      "committing", "enqueueing"}
         /\ r.pc = "counting" => r.student \in Students
         /\ r.pc = "creating" => r.student \in Students /\ r.count \in Nat
         /\ r.pc \in {"saving", "checking", "committing"}
              => r.id \in SubmissionIds /\ r.given \in Sheet
         /\ r.pc = "enqueueing" => r.id \in SubmissionIds
  BY DEF Request, Idle

\* The upserts of one transaction leave a well-formed sheet.
LEMMA MergeType ==
  ASSUME NEW old \in Sheet, NEW given \in Sheet
  PROVE  Merge(old, given) \in Sheet
  BY DEF Merge, Sheet

\* The attempts of a student form a finite set, so counting them makes sense.
LEMMA AttemptsFinite ==
  ASSUME NEW s
  PROVE  /\ IsFiniteSet(AttemptsOf(s))
         /\ Cardinality(AttemptsOf(s)) \in Nat
  <1>1. AttemptsOf(s) \subseteq SubmissionIds
    BY DEF AttemptsOf, Live
  <1>2. IsFiniteSet(AttemptsOf(s))
    BY <1>1, FS_Subset, SubmissionsAssumption
  <1> QED BY <1>2, FS_CardinalityType

\* A request that is about to write an attempt holds the uuid of a row that
\* exists: getActiveSubmission found it, and rows are never deleted.
HeldExist ==
  \A h \in Handlers :
    req[h].pc \in {"saving", "checking", "committing"} => req[h].id \in Live

LEMMA InitType == SubInit => TypeOK /\ HeldExist
  <1> SUFFICES ASSUME SubInit PROVE TypeOK /\ HeldExist
    OBVIOUS
  <1>1. EmptySheet \in Sheet
    BY DEF EmptySheet, Sheet
  <1>2. Idle \in Request
    BY DEF Request
  <1>3. TypeOK
    BY <1>1, <1>2 DEF SubInit, TypeOK, JobState
  <1>4. HeldExist
    BY DEF SubInit, HeldExist, Idle
  <1> QED BY <1>3, <1>4

LEMMA StepType == TypeOK /\ HeldExist /\ [SubNext]_subVars => TypeOK'
  <1> SUFFICES ASSUME TypeOK, HeldExist, [SubNext]_subVars PROVE TypeOK'
    OBVIOUS
  <1> USE DEF TypeOK
  <1>0. Idle \in Request
    BY DEF Request
  <1>1. CASE Tick
    BY <1>1 DEF Tick
  <1>2. ASSUME NEW h \in Handlers, NEW s \in Students, StartSubmission(h, s)
        PROVE  TypeOK'
    <2>1. [pc |-> "counting", student |-> s] \in Request
      BY DEF Request
    <2> QED BY <1>2, <2>1 DEF StartSubmission
  <1>3. ASSUME NEW h \in Handlers, NEW id \in SubmissionIds, NEW given \in Sheet,
               AutoSave(h, id, given) \/ SubmitAnswers(h, id, given)
        PROVE  TypeOK'
    <2>1. /\ [pc |-> "saving", id |-> id, given |-> given] \in Request
          /\ [pc |-> "checking", id |-> id, given |-> given] \in Request
      BY DEF Request
    <2> QED BY <1>3, <2>1 DEF AutoSave, SubmitAnswers, GetActiveSubmission
  <1>4. ASSUME NEW h \in Handlers, CountAttempts(h)
        PROVE  TypeOK'
    <2>1. req[h].student \in Students
      BY <1>4, RequestShape DEF CountAttempts
    <2>2. Cardinality(AttemptsOf(req[h].student)) \in Nat
      BY AttemptsFinite
    <2>3. [pc |-> "creating", student |-> req[h].student,
           count |-> Cardinality(AttemptsOf(req[h].student))] \in Request
      BY <2>1, <2>2 DEF Request
    <2> QED BY <1>4, <1>0, <2>3 DEF CountAttempts
  <1>5. ASSUME NEW h \in Handlers, CreateAttempt(h)
        PROVE  TypeOK'
    <2>1. req[h].student \in Students /\ req[h].count \in Nat
      BY <1>5, RequestShape DEF CreateAttempt
    <2>2. [student |-> req[h].student, attempt |-> req[h].count + 1,
           submitted |-> FALSE] \in Row
      BY <2>1 DEF Row
    <2>3. row' \in [SubmissionIds -> Row \cup {NoRow}]
      BY <1>5, <2>2 DEF CreateAttempt
    <2> QED BY <1>5, <1>0, <2>3 DEF CreateAttempt
  <1>6. ASSUME NEW h \in Handlers, SaveProgress(h)
        PROVE  TypeOK'
    <2>1. req[h].id \in SubmissionIds /\ req[h].given \in Sheet
      BY <1>6, RequestShape DEF SaveProgress
    <2>2. Merge(answers[req[h].id], req[h].given) \in Sheet
      BY <2>1, MergeType
    <2> QED BY <1>6, <1>0, <2>1, <2>2 DEF SaveProgress, WriteAnswers
  <1>7. ASSUME NEW h \in Handlers, CheckDeadline(h)
        PROVE  TypeOK'
    <2>1. [req[h] EXCEPT !.pc = "committing"] \in Request
      BY <1>7 DEF CheckDeadline, Request, Idle
    <2> QED BY <1>7, <1>0, <2>1 DEF CheckDeadline
  <1>8. ASSUME NEW h \in Handlers, CommitSubmission(h)
        PROVE  TypeOK'
    <2> DEFINE id == req[h].id
    <2>1. id \in SubmissionIds /\ req[h].given \in Sheet
      BY <1>8, RequestShape DEF CommitSubmission
    <2>2. Merge(answers[id], req[h].given) \in Sheet
      BY <2>1, MergeType
    <2>3. [pc |-> "enqueueing", id |-> id] \in Request
      BY <2>1 DEF Request
    <2>4. row[id] \in Row
      BY <1>8, <2>1 DEF CommitSubmission, HeldExist, Live
    <2>5. row' \in [SubmissionIds -> Row \cup {NoRow}]
      BY <1>8, <2>1, <2>4 DEF CommitSubmission, Row
    <2> QED BY <1>8, <2>1, <2>2, <2>3, <2>5 DEF CommitSubmission, WriteAnswers
  <1>9. ASSUME NEW h \in Handlers, QueueAutoGrading(h)
        PROVE  TypeOK'
    BY <1>9, <1>0 DEF QueueAutoGrading, JobState
  <1>10. ASSUME NEW h \in Handlers, Abort(h)
         PROVE  TypeOK'
    BY <1>10, <1>0 DEF Abort
  <1>11. CASE UNCHANGED subVars
    BY <1>11 DEF subVars
  <1> QED BY <1>1, <1>2, <1>3, <1>4, <1>5, <1>6, <1>7, <1>8, <1>9, <1>10, <1>11
          DEF SubNext, Proceed

\* Rows are created by CreateAttempt and changed by CommitSubmission, and
\* nothing else touches the table.
LEMMA RowStep ==
  ASSUME TypeOK, HeldExist, [SubNext]_subVars
  PROVE  \/ row' = row
         \/ \E h \in Handlers, id \in SubmissionIds \ Live :
              /\ req[h].pc = "creating"
              /\ ~\E i \in AttemptsOf(req[h].student) :
                    row[i].attempt = req[h].count + 1
              /\ row' = [row EXCEPT ![id] = [student |-> req[h].student,
                                             attempt |-> req[h].count + 1,
                                             submitted |-> FALSE]]
         \/ \E id \in Live : row' = [row EXCEPT ![id].submitted = TRUE]
  <1>1. CASE \E h \in Handlers : CreateAttempt(h)
    BY <1>1 DEF CreateAttempt
  <1>2. CASE \E h \in Handlers : CommitSubmission(h)
    BY <1>2 DEF CommitSubmission, HeldExist
  <1>3. CASE UNCHANGED row
    BY <1>3
  <1> QED BY <1>1, <1>2, <1>3
          DEF SubNext, Proceed, subVars, Tick, StartSubmission, CountAttempts,
              AutoSave, SubmitAnswers, GetActiveSubmission, SaveProgress,
              CheckDeadline, QueueAutoGrading, Abort

\* A row, once there, keeps its student and its number, and once submitted
\* stays submitted.
LEMMA RowsPersist ==
  ASSUME TypeOK, HeldExist, [SubNext]_subVars, NEW id \in Live
  PROVE  /\ id \in Live'
         /\ row'[id].student = row[id].student
         /\ row'[id].attempt = row[id].attempt
         /\ row[id].submitted => row'[id].submitted
  <1>0. id \in SubmissionIds /\ row[id] \in Row
    BY DEF TypeOK, Live
  <1>1. CASE row' = row
    BY <1>1 DEF Live
  <1>2. ASSUME NEW h \in Handlers, NEW i \in SubmissionIds \ Live,
               row' = [row EXCEPT ![i] = [student |-> req[h].student,
                                          attempt |-> req[h].count + 1,
                                          submitted |-> FALSE]]
        PROVE  row'[id] = row[id]
    BY <1>0, <1>2 DEF TypeOK
  <1>3. ASSUME NEW i \in Live, row' = [row EXCEPT ![i].submitted = TRUE]
        PROVE  /\ row'[id] \in Row
               /\ row'[id].student = row[id].student
               /\ row'[id].attempt = row[id].attempt
               /\ row[id].submitted => row'[id].submitted
    BY <1>0, <1>3 DEF TypeOK, Row
  <1>4. NoRow \notin Row
    BY SubmissionsAssumption DEF Row
  <1> QED BY <1>0, <1>1, <1>2, <1>3, <1>4, RowStep DEF Live

LEMMA StepHeld == TypeOK /\ HeldExist /\ [SubNext]_subVars => HeldExist'
  <1> SUFFICES ASSUME TypeOK, HeldExist, [SubNext]_subVars,
                      NEW h \in Handlers,
                      req'[h].pc \in {"saving", "checking", "committing"}
               PROVE  req'[h].id \in Live'
    BY DEF HeldExist
  <1>1. req'[h].id \in Live
    <2>1. CASE req'[h] = req[h]
      BY <2>1 DEF HeldExist
    <2>2. ASSUME NEW id \in SubmissionIds, NEW given \in Sheet,
                 AutoSave(h, id, given) \/ SubmitAnswers(h, id, given)
          PROVE  req'[h].id \in Live
      BY <2>2 DEF AutoSave, SubmitAnswers, GetActiveSubmission, TypeOK
    <2>3. CASE CheckDeadline(h)
      BY <2>3 DEF CheckDeadline, TypeOK, HeldExist, Idle
    <2>4. ASSUME \/ \E s \in Students : StartSubmission(h, s)
                 \/ CountAttempts(h) \/ CreateAttempt(h) \/ SaveProgress(h)
                 \/ CommitSubmission(h) \/ QueueAutoGrading(h) \/ Abort(h)
          PROVE  FALSE
      BY <2>4 DEF StartSubmission, CountAttempts, CreateAttempt, SaveProgress,
                  CommitSubmission, QueueAutoGrading, Abort, TypeOK, Idle
    <2>5. ASSUME NEW g \in Handlers, g # h,
                 \/ \E s \in Students : StartSubmission(g, s)
                 \/ \E id \in SubmissionIds, given \in Sheet :
                      AutoSave(g, id, given) \/ SubmitAnswers(g, id, given)
                 \/ Proceed(g) \/ Abort(g)
          PROVE  req'[h] = req[h]
      BY <2>5 DEF StartSubmission, AutoSave, SubmitAnswers, GetActiveSubmission,
                  Proceed, CountAttempts, CreateAttempt, SaveProgress, CheckDeadline,
                  CommitSubmission, QueueAutoGrading, Abort, TypeOK
    <2>6. CASE Tick \/ UNCHANGED subVars
      BY <2>1, <2>6 DEF Tick, subVars
    <2> QED BY <2>1, <2>2, <2>3, <2>4, <2>5, <2>6 DEF SubNext, Proceed
  <1> QED BY <1>1, RowsPersist

\* Every table, queue entry and request keeps its shape.
THEOREM SubmissionsTypeCorrect == SubSpec => [](TypeOK /\ HeldExist)
  BY InitType, StepType, StepHeld, PTL DEF SubSpec

--------------------------------------------------------------------------------
(***************************************************************************)
(* The attempt limit.  The count a start acted on may be stale, but it is  *)
(* never ahead of the table (CountsBehind); with the numbers of a student  *)
(* being exactly 1..n, a stale count + 1 is a taken number, which the      *)
(* unique index refuses, so only a start with a current count succeeds.    *)
(***************************************************************************)
CountsBehind ==
  \A h \in Handlers, s \in Students :
    req[h].pc = "creating" /\ req[h].student = s =>
      /\ req[h].count < MaxAttempts
      /\ req[h].count <= Cardinality(AttemptsOf(s))

\* No two attempts of a student carry the same number.
AttemptsDistinct ==
  \A s \in Students : \A i, j \in AttemptsOf(s) :
    row[i].attempt = row[j].attempt => i = j

AttemptsInv ==
  /\ TypeOK
  /\ HeldExist
  /\ AttemptsNumbered
  /\ AttemptsDistinct
  /\ AttemptLimit
  /\ CountsBehind

\* What one step does to the attempts of one student: nothing that shows in
\* their number and numbering, or the next number is added.
LEMMA AttemptsStep ==
  ASSUME AttemptsInv, [SubNext]_subVars, NEW s \in Students
  PROVE  \/ /\ AttemptsOf(s)' = AttemptsOf(s)
            /\ \A id \in AttemptsOf(s) : row'[id].attempt = row[id].attempt
         \/ /\ Cardinality(AttemptsOf(s)') = Cardinality(AttemptsOf(s)) + 1
            /\ {row'[id].attempt : id \in AttemptsOf(s)'}
                 = 1..(Cardinality(AttemptsOf(s)) + 1)
            /\ \A i, j \in AttemptsOf(s)' :
                 row'[i].attempt = row'[j].attempt => i = j
            /\ Cardinality(AttemptsOf(s)) < MaxAttempts
  <1> DEFINE A == AttemptsOf(s)
             n == Cardinality(A)
  <1>0. /\ A \subseteq SubmissionIds /\ A \subseteq Live
        /\ IsFiniteSet(A) /\ n \in Nat
        /\ TypeOK /\ HeldExist
    BY AttemptsFinite DEF AttemptsInv, AttemptsOf, Live
  <1>1. \A id \in A : /\ id \in Live'
                      /\ row'[id].student = s
                      /\ row'[id].attempt = row[id].attempt
    BY <1>0, RowsPersist DEF AttemptsOf
  <1>2. A \subseteq AttemptsOf(s)'
    BY <1>1 DEF AttemptsOf
  <1>3. ASSUME NEW h \in Handlers, NEW u \in SubmissionIds \ Live,
               req[h].pc = "creating",
               ~\E i \in AttemptsOf(req[h].student) :
                   row[i].attempt = req[h].count + 1,
               row' = [row EXCEPT ![u] = [student |-> req[h].student,
                                          attempt |-> req[h].count + 1,
                                          submitted |-> FALSE]],
               req[h].student = s
        PROVE  /\ Cardinality(AttemptsOf(s)') = n + 1
               /\ {row'[id].attempt : id \in AttemptsOf(s)'} = 1..(n + 1)
               /\ \A i, j \in AttemptsOf(s)' :
                    row'[i].attempt = row'[j].attempt => i = j
               /\ n < MaxAttempts
    <2> DEFINE k == req[h].count
    <2>1. k \in Nat /\ k < MaxAttempts /\ k <= n
      BY <1>3, RequestShape DEF AttemptsInv, TypeOK, CountsBehind
    <2>2. {row[id].attempt : id \in A} = 1..n
      BY DEF AttemptsInv, AttemptsNumbered
    <2>3. k + 1 \notin 1..n
      BY <1>3, <2>2
    <2>4. k = n
      BY <1>0, <2>1, <2>3
    <2>5. [student |-> s, attempt |-> k + 1, submitted |-> FALSE] # NoRow
      <3>1. [student |-> s, attempt |-> k + 1, submitted |-> FALSE] \in Row
        BY <2>1 DEF Row
      <3>2. NoRow \notin Row
        BY SubmissionsAssumption DEF Row
      <3> QED BY <3>1, <3>2
    <2>6. /\ row'[u] = [student |-> s, attempt |-> k + 1, submitted |-> FALSE]
          /\ \A id \in SubmissionIds \ {u} : row'[id] = row[id]
      BY <1>0, <1>3 DEF TypeOK
    <2>7. AttemptsOf(s)' = A \cup {u}
      <3>1. u \in AttemptsOf(s)'
        BY <2>5, <2>6 DEF AttemptsOf, Live
      <3>2. \A id \in AttemptsOf(s)' : id = u \/ id \in A
        BY <2>6 DEF AttemptsOf, Live
      <3> QED BY <1>2, <3>1, <3>2
    <2>8. u \notin A
      BY <1>0, <1>3
    <2>9. Cardinality(A \cup {u}) = n + 1
      BY <1>0, <2>8, FS_AddElement
    <2>10. {row'[id].attempt : id \in A \cup {u}} = 1..n \cup {n + 1}
      <3>1. row'[u].attempt = n + 1
        BY <2>4, <2>6
      <3>2. {row'[id].attempt : id \in A} = {row[id].attempt : id \in A}
        BY <1>1
      <3> QED BY <2>2, <3>1, <3>2
    <2>11. 1..n \cup {n + 1} = 1..(n + 1)
      BY <1>0
    <2>12. \A i, j \in A \cup {u} : row'[i].attempt = row'[j].attempt => i = j
      <3>1. row'[u].attempt = k + 1
        BY <2>6
      <3>2. \A i \in A : row'[i].attempt = row[i].attempt /\ row[i].attempt # k + 1
        BY <1>1, <1>3
      <3>3. \A i, j \in A : row[i].attempt = row[j].attempt => i = j
        BY DEF AttemptsInv, AttemptsDistinct
      <3> QED BY <3>1, <3>2, <3>3
    <2> QED BY <2>1, <2>4, <2>7, <2>9, <2>10, <2>11, <2>12
  <1>4. ASSUME NEW h \in Handlers, NEW u \in SubmissionIds \ Live,
               row' = [row EXCEPT ![u] = [student |-> req[h].student,
                                          attempt |-> req[h].count + 1,
                                          submitted |-> FALSE]],
               req[h].student # s
        PROVE  AttemptsOf(s)' = A
    <2>1. row'[u].student # s
      BY <1>0, <1>4 DEF TypeOK
    <2>2. \A id \in SubmissionIds \ {u} : row'[id] = row[id]
      BY <1>0, <1>4 DEF TypeOK
    <2>3. \A id \in AttemptsOf(s)' : id \in A
      BY <2>1, <2>2 DEF AttemptsOf, Live
    <2> QED BY <1>2, <2>3
  <1>5. ASSUME NEW u \in Live, row' = [row EXCEPT ![u].submitted = TRUE]
        PROVE  AttemptsOf(s)' = A
    <2>1. row[u] \in Row
      BY <1>0, <1>5 DEF TypeOK, Live
    <2>2. \A id \in SubmissionIds \ {u} : row'[id] = row[id]
      BY <1>0, <1>5 DEF TypeOK
    <2>3. row'[u].student = row[u].student
      BY <1>0, <1>5, <2>1 DEF TypeOK, Row, Live
    <2>4. \A id \in AttemptsOf(s)' : id \in A
      BY <1>5, <2>2, <2>3 DEF AttemptsOf, Live
    <2> QED BY <1>2, <2>4
  <1>6. CASE row' = row
    BY <1>6 DEF AttemptsOf, Live
  <1> QED BY <1>0, <1>1, <1>3, <1>4, <1>5, <1>6, RowStep

\* A step never makes a student's attempts fewer.
LEMMA AttemptsGrow ==
  ASSUME AttemptsInv, [SubNext]_subVars, NEW s \in Students
  PROVE  /\ Cardinality(AttemptsOf(s)) \in Nat
         /\ Cardinality(AttemptsOf(s)') \in Nat
         /\ Cardinality(AttemptsOf(s)) <= Cardinality(AttemptsOf(s)')
  BY AttemptsStep, AttemptsFinite

LEMMA InitAttempts == SubInit => AttemptsInv
  <1> SUFFICES ASSUME SubInit PROVE AttemptsInv
    OBVIOUS
  <1>1. TypeOK /\ HeldExist
    BY InitType
  <1>2. \A s \in Students : AttemptsOf(s) = {}
    BY DEF SubInit, AttemptsOf, Live
  <1>3. Cardinality({}) = 0
    BY FS_EmptySet
  <1>4. AttemptsNumbered
    BY <1>2, <1>3 DEF AttemptsNumbered
  <1>5. AttemptLimit
    BY <1>2, <1>3, SubmissionsAssumption DEF AttemptLimit
  <1>6. CountsBehind
    BY DEF SubInit, CountsBehind, Idle
  <1>7. AttemptsDistinct
    BY <1>2 DEF AttemptsDistinct
  <1> QED BY <1>1, <1>4, <1>5, <1>6, <1>7 DEF AttemptsInv

LEMMA StepCounts == AttemptsInv /\ [SubNext]_subVars => CountsBehind'
  <1> SUFFICES ASSUME AttemptsInv, [SubNext]_subVars,
                      NEW h \in Handlers, NEW s \in Students,
                      req'[h].pc = "creating", req'[h].student = s
               PROVE  /\ req'[h].count < MaxAttempts
                      /\ req'[h].count <= Cardinality(AttemptsOf(s)')
    BY DEF CountsBehind
  <1>0. TypeOK /\ HeldExist
    BY DEF AttemptsInv
  <1>1. /\ req'[h].count \in Nat
        /\ req'[h].count < MaxAttempts
        /\ req'[h].count <= Cardinality(AttemptsOf(s))
    <2>0. TypeOK'
      BY <1>0, StepType
    <2>1. req'[h].count \in Nat
      BY <2>0, RequestShape DEF TypeOK
    <2>2. CASE req'[h] = req[h]
      BY <2>1, <2>2 DEF AttemptsInv, CountsBehind
    <2>3. CASE CountAttempts(h)
      BY <1>0, <2>1, <2>3, AttemptsFinite DEF CountAttempts, TypeOK, Idle
    <2>4. ASSUME \/ \E t \in Students : StartSubmission(h, t)
                 \/ \E id \in SubmissionIds, given \in Sheet :
                      AutoSave(h, id, given) \/ SubmitAnswers(h, id, given)
                 \/ CreateAttempt(h) \/ SaveProgress(h)
                 \/ CommitSubmission(h) \/ QueueAutoGrading(h) \/ Abort(h)
          PROVE  FALSE
      BY <1>0, <2>4
         DEF StartSubmission, AutoSave, SubmitAnswers, GetActiveSubmission,
             CreateAttempt, SaveProgress, CommitSubmission,
             QueueAutoGrading, Abort, TypeOK, Idle
    <2>5. ASSUME CheckDeadline(h)
          PROVE  FALSE
      <3>1. req[h] \in Request /\ req'[h] = IF now > EndTime THEN Idle
                                  ELSE [req[h] EXCEPT !.pc = "committing"]
        BY <1>0, <2>5 DEF CheckDeadline, TypeOK
      <3>2. [req[h] EXCEPT !.pc = "committing"].pc = "committing"
        BY <2>5, <3>1 DEF CheckDeadline, Request, Idle
      <3> QED BY <3>1, <3>2 DEF Idle
    <2>6. ASSUME NEW g \in Handlers, g # h,
                 \/ \E t \in Students : StartSubmission(g, t)
                 \/ \E id \in SubmissionIds, given \in Sheet :
                      AutoSave(g, id, given) \/ SubmitAnswers(g, id, given)
                 \/ Proceed(g) \/ Abort(g)
          PROVE  req'[h] = req[h]
      BY <1>0, <2>6
         DEF StartSubmission, AutoSave, SubmitAnswers, GetActiveSubmission,
             Proceed, CountAttempts, CreateAttempt, SaveProgress, CheckDeadline,
             CommitSubmission, QueueAutoGrading, Abort, TypeOK
    <2>7. CASE Tick \/ UNCHANGED subVars
      BY <2>2, <2>7 DEF Tick, subVars
    <2> QED BY <2>2, <2>3, <2>4, <2>5, <2>6, <2>7 DEF SubNext, Proceed
  <1> QED BY <1>1, AttemptsGrow

LEMMA StepAttempts == AttemptsInv /\ [SubNext]_subVars => AttemptsInv'
  <1> SUFFICES ASSUME AttemptsInv, [SubNext]_subVars PROVE AttemptsInv'
    OBVIOUS
  <1>1. TypeOK' /\ HeldExist'
    BY StepType, StepHeld DEF AttemptsInv
  <1>2. AttemptsNumbered'
    <2> SUFFICES ASSUME NEW s \in Students
                 PROVE  {row'[id].attempt : id \in AttemptsOf(s)'}
                          = 1..Cardinality(AttemptsOf(s)')
      BY DEF AttemptsNumbered
    <2>1. {row[id].attempt : id \in AttemptsOf(s)} = 1..Cardinality(AttemptsOf(s))
      BY DEF AttemptsInv, AttemptsNumbered
    <2> QED BY <2>1, AttemptsStep
  <1>3. AttemptLimit'
    <2> SUFFICES ASSUME NEW s \in Students
                 PROVE  Cardinality(AttemptsOf(s)') <= MaxAttempts
      BY DEF AttemptLimit
    <2>1. Cardinality(AttemptsOf(s)) <= MaxAttempts
      BY DEF AttemptsInv, AttemptLimit
    <2>2. Cardinality(AttemptsOf(s)) \in Nat /\ MaxAttempts \in Nat
      BY AttemptsFinite, SubmissionsAssumption
    <2> QED BY <2>1, <2>2, AttemptsStep
  <1>4. CountsBehind'
    BY StepCounts
  <1>5. AttemptsDistinct'
    <2> SUFFICES ASSUME NEW s \in Students,
                        NEW i \in AttemptsOf(s)', NEW j \in AttemptsOf(s)',
                        row'[i].attempt = row'[j].attempt
                 PROVE  i = j
      BY DEF AttemptsDistinct
    <2>1. \A x, y \in AttemptsOf(s) : row[x].attempt = row[y].attempt => x = y
      BY DEF AttemptsInv, AttemptsDistinct
    <2> QED BY <2>1, AttemptsStep
  <1> QED BY <1>1, <1>2, <1>3, <1>4, <1>5 DEF AttemptsInv

\* No student gets more than max_attempts attempts, however many
\* startSubmission requests race between the count and the create.
THEOREM AttemptLimitHolds == SubSpec => []AttemptLimit
  <1>1. AttemptsInv => AttemptLimit
    BY DEF AttemptsInv
  <1> QED BY <1>1, InitAttempts, StepAttempts, PTL DEF SubSpec

\* The attempts of a student are numbered 1..n, each number once.
THEOREM AttemptsNumberedHolds == SubSpec => []AttemptsNumbered
  <1>1. AttemptsInv => AttemptsNumbered
    BY DEF AttemptsInv
  <1> QED BY <1>1, InitAttempts, StepAttempts, PTL DEF SubSpec

--------------------------------------------------------------------------------
(***************************************************************************)
(* Hand-in and grading queue.                                              *)
(***************************************************************************)

\* A request that is about to add the job of an attempt has committed it.
EnqueuersCommitted ==
  \A h \in Handlers : req[h].pc = "enqueueing" => Submitted(req[h].id)

QueueInv == TypeOK /\ HeldExist /\ EnqueuersCommitted /\ QueuedOnlySubmitted

\* A submitted attempt stays submitted.
LEMMA SubmittedStays ==
  ASSUME TypeOK, HeldExist, [SubNext]_subVars, NEW id, Submitted(id)
  PROVE  Submitted(id)'
  BY RowsPersist DEF Submitted

LEMMA StepQueue == QueueInv /\ [SubNext]_subVars => QueueInv'
  <1> SUFFICES ASSUME QueueInv, [SubNext]_subVars PROVE QueueInv'
    OBVIOUS
  <1>0. TypeOK /\ HeldExist
    BY DEF QueueInv
  <1>1. TypeOK' /\ HeldExist'
    BY <1>0, StepType, StepHeld
  <1>2. EnqueuersCommitted'
    <2> SUFFICES ASSUME NEW h \in Handlers, req'[h].pc = "enqueueing",
                        NEW id, id = req'[h].id
                 PROVE  Submitted(id)'
      BY DEF EnqueuersCommitted, Submitted, Live
    <2>1. CASE req'[h] = req[h]
      BY <1>0, <2>1, SubmittedStays DEF QueueInv, EnqueuersCommitted
    <2>2. CASE CommitSubmission(h)
      <3>1. id = req[h].id /\ id \in Live
        BY <1>0, <2>2 DEF CommitSubmission, HeldExist, TypeOK
      <3>2. row[id] \in Row /\ id \in SubmissionIds
        BY <1>0, <3>1 DEF TypeOK, Live
      <3>3. row'[id].submitted
        BY <1>0, <2>2, <3>1, <3>2 DEF CommitSubmission, TypeOK, Row
      <3> QED BY <1>0, <3>1, <3>3, RowsPersist DEF Submitted
    <2>3. ASSUME \/ \E s \in Students : StartSubmission(h, s)
                 \/ \E i \in SubmissionIds, given \in Sheet :
                      AutoSave(h, i, given) \/ SubmitAnswers(h, i, given)
                 \/ CountAttempts(h) \/ CreateAttempt(h) \/ SaveProgress(h)
                 \/ QueueAutoGrading(h) \/ Abort(h)
          PROVE  FALSE
      BY <1>0, <2>3
         DEF StartSubmission, AutoSave, SubmitAnswers, GetActiveSubmission,
             CountAttempts, CreateAttempt, SaveProgress, QueueAutoGrading, Abort,
             TypeOK, Idle
    <2>4. ASSUME CheckDeadline(h)
          PROVE  FALSE
      <3>1. req[h] \in Request /\ req'[h] = IF now > EndTime THEN Idle
                                  ELSE [req[h] EXCEPT !.pc = "committing"]
        BY <1>0, <2>4 DEF CheckDeadline, TypeOK
      <3>2. [req[h] EXCEPT !.pc = "committing"].pc = "committing"
        BY <2>4, <3>1 DEF CheckDeadline, Request, Idle
      <3> QED BY <3>1, <3>2 DEF Idle
    <2>5. ASSUME NEW g \in Handlers, g # h,
                 \/ \E t \in Students : StartSubmission(g, t)
                 \/ \E i \in SubmissionIds, given \in Sheet :
                      AutoSave(g, i, given) \/ SubmitAnswers(g, i, given)
                 \/ Proceed(g) \/ Abort(g)
          PROVE  req'[h] = req[h]
      BY <1>0, <2>5
         DEF StartSubmission, AutoSave, SubmitAnswers, GetActiveSubmission,
             Proceed, CountAttempts, CreateAttempt, SaveProgress, CheckDeadline,
             CommitSubmission, QueueAutoGrading, Abort, TypeOK
    <2>6. CASE Tick \/ UNCHANGED subVars
      BY <2>1, <2>6 DEF Tick, subVars
    <2> QED BY <2>1, <2>2, <2>3, <2>4, <2>5, <2>6 DEF SubNext, Proceed
  <1>3. QueuedOnlySubmitted'
    <2> SUFFICES ASSUME NEW id \in SubmissionIds, queue'[id] # "none"
                 PROVE  Submitted(id)'
      BY DEF QueuedOnlySubmitted, Submitted, Live
    <2>1. CASE queue'[id] = queue[id]
      BY <1>0, <2>1, SubmittedStays DEF QueueInv, QueuedOnlySubmitted
    <2>2. ASSUME NEW h \in Handlers, QueueAutoGrading(h), queue'[id] # queue[id]
          PROVE  Submitted(id)'
      <3>1. req[h].id = id
        BY <1>0, <2>2 DEF QueueAutoGrading, TypeOK
      <3> QED BY <1>0, <2>2, <3>1, SubmittedStays
              DEF QueueAutoGrading, QueueInv, EnqueuersCommitted
    <2>3. CASE UNCHANGED queue
      BY <2>1, <2>3
    <2> QED BY <2>1, <2>2, <2>3
            DEF SubNext, Proceed, subVars, Tick, StartSubmission, CountAttempts,
                AutoSave, SubmitAnswers, GetActiveSubmission, CreateAttempt,
                SaveProgress, CheckDeadline, CommitSubmission, Abort
  <1> QED BY <1>1, <1>2, <1>3 DEF QueueInv

\* A grading job exists only for an attempt that was handed in.
THEOREM QueuedOnlySubmittedHolds == SubSpec => []QueuedOnlySubmitted
  <1>1. SubInit => QueueInv
    BY InitType DEF SubInit, QueueInv, EnqueuersCommitted, QueuedOnlySubmitted, Idle
  <1>2. QueueInv => QueuedOnlySubmitted
    BY DEF QueueInv
  <1> QED BY <1>1, <1>2, StepQueue, PTL DEF SubSpec

\* An attempt nobody holds any more is frozen by its submission: no request in
\* flight can write it, and none can get hold of it.
LEMMA FrozenStep ==
  ASSUME TypeOK, HeldExist, [SubNext]_subVars, NEW id \in SubmissionIds,
         Submitted(id), ~\E h \in Handlers : Holds(h, id)
  PROVE  /\ answers'[id] = answers[id]
         /\ Submitted(id)'
         /\ ~\E h \in Handlers : Holds(h, id)'
  <1>1. Submitted(id)'
    BY SubmittedStays
  <1>2. answers'[id] = answers[id]
    <2>1. ASSUME NEW h \in Handlers, NEW i, i = req[h].id,
                 req[h].pc \in {"saving", "committing"},
                 WriteAnswers(i, req[h].given)
          PROVE  answers'[id] = answers[id]
      BY <2>1 DEF Holds, WriteAnswers, TypeOK
    <2> QED BY <2>1
            DEF SubNext, Proceed, subVars, Tick, StartSubmission, CountAttempts,
                AutoSave, SubmitAnswers, GetActiveSubmission, CreateAttempt,
                SaveProgress, CheckDeadline, CommitSubmission, QueueAutoGrading, Abort
  <1>3. ASSUME NEW h \in Handlers, Holds(h, id)'
        PROVE  FALSE
    <2>0. ~Holds(h, id)
      OBVIOUS
    <2>1. CASE req'[h] = req[h]
      BY <1>3, <2>0, <2>1 DEF Holds
    <2>2. ASSUME NEW i \in SubmissionIds, NEW given \in Sheet,
                 AutoSave(h, i, given) \/ SubmitAnswers(h, i, given)
          PROVE  FALSE
      BY <1>3, <2>2 DEF AutoSave, SubmitAnswers, GetActiveSubmission, TypeOK,
                        Holds, Submitted
    <2>3. CASE CheckDeadline(h)
      <3>1. req[h] \in Request /\ req'[h] = IF now > EndTime THEN Idle
                                  ELSE [req[h] EXCEPT !.pc = "committing"]
        BY <2>3 DEF CheckDeadline, TypeOK
      <3>2. req'[h].id = req[h].id
        BY <1>3, <2>3, <3>1 DEF CheckDeadline, Holds, Idle, Request
      <3> QED BY <1>3, <2>0, <2>3, <3>2 DEF CheckDeadline, Holds
    <2>4. ASSUME \/ \E s \in Students : StartSubmission(h, s)
                 \/ CountAttempts(h) \/ CreateAttempt(h) \/ SaveProgress(h)
                 \/ CommitSubmission(h) \/ QueueAutoGrading(h) \/ Abort(h)
          PROVE  FALSE
      BY <1>3, <2>4 DEF StartSubmission, CountAttempts, CreateAttempt, SaveProgress,
                        CommitSubmission, QueueAutoGrading, Abort, TypeOK, Idle, Holds
    <2>5. ASSUME NEW g \in Handlers, g # h,
                 \/ \E t \in Students : StartSubmission(g, t)
                 \/ \E i \in SubmissionIds, given \in Sheet :
                      AutoSave(g, i, given) \/ SubmitAnswers(g, i, given)
                 \/ Proceed(g) \/ Abort(g)
          PROVE  req'[h] = req[h]
      BY <2>5
         DEF StartSubmission, AutoSave, SubmitAnswers, GetActiveSubmission,
             Proceed, CountAttempts, CreateAttempt, SaveProgress, CheckDeadline,
             CommitSubmission, QueueAutoGrading, Abort, TypeOK
    <2>6. CASE Tick \/ UNCHANGED subVars
      BY <2>1, <2>6 DEF Tick, subVars
    <2> QED BY <2>1, <2>2, <2>3, <2>4, <2>5, <2>6 DEF SubNext, Proceed
  <1> QED BY <1>1, <1>2, <1>3

\* Once handed in and drained, an attempt never changes: the exposure of a
\* final submission is limited to the requests that overlap the hand-in.
THEOREM FrozenOnceDrainedHolds == SubSpec => FrozenOnceDrained
  <1>1. TypeOK /\ HeldExist /\ [SubNext]_subVars
          => [\A id \in SubmissionIds :
                (Submitted(id) /\ ~\E h \in Handlers : Holds(h, id))
                  => /\ answers'[id] = answers[id]
                     /\ Submitted(id)'
                     /\ ~\E h \in Handlers : Holds(h, id)']_subVars
    BY FrozenStep
  <1> QED BY <1>1, SubmissionsTypeCorrect, PTL DEF SubSpec, FrozenOnceDrained

--------------------------------------------------------------------------------
(***************************************************************************)
(* Submissions implements AttemptLedger.                                   *)
(***************************************************************************)

\* A created row is the ledger's Take: one more attempt, none closed.
LEMMA CreateIsTake ==
  ASSUME AttemptsInv, [SubNext]_subVars,
         NEW t \in Students, NEW k \in Nat, NEW u \in SubmissionIds \ Live,
         row' = [row EXCEPT ![u] = [student |-> t, attempt |-> k + 1,
                                    submitted |-> FALSE]]
  PROVE  Ledger!Take(t)
  <1>0. TypeOK /\ HeldExist
    BY DEF AttemptsInv
  <1>1. [student |-> t, attempt |-> k + 1, submitted |-> FALSE] # NoRow
    <2>1. [student |-> t, attempt |-> k + 1, submitted |-> FALSE] \in Row
      BY <1>0 DEF Row
    <2> QED BY <2>1, SubmissionsAssumption DEF Row
  <1>2. /\ row'[u] = [student |-> t, attempt |-> k + 1, submitted |-> FALSE]
        /\ \A id \in SubmissionIds \ {u} : row'[id] = row[id]
    BY <1>0 DEF TypeOK
  <1>3. u \notin Live
    OBVIOUS
  <1>4. AttemptsOf(t)' = AttemptsOf(t) \cup {u}
    BY <1>1, <1>2, <1>3 DEF AttemptsOf, Live
  <1>5. \A s \in Students \ {t} : AttemptsOf(s)' = AttemptsOf(s)
    BY <1>1, <1>2, <1>3 DEF AttemptsOf, Live
  <1>6. u \notin AttemptsOf(t)
    BY <1>3 DEF AttemptsOf
  <1>7. Cardinality(AttemptsOf(t)') = Cardinality(AttemptsOf(t)) + 1
    BY <1>4, <1>6, AttemptsFinite, FS_AddElement
  <1>8. Cardinality(AttemptsOf(t)) < MaxAttempts
    <2>1. Cardinality(AttemptsOf(t)') \in Nat /\ Cardinality(AttemptsOf(t)) \in Nat
      BY <1>7, AttemptsFinite
    <2>2. AttemptsInv'
      BY StepAttempts
    <2>3. Cardinality(AttemptsOf(t)') <= MaxAttempts
      BY <1>0, <2>2 DEF AttemptsInv, AttemptLimit
    <2> QED BY <1>7, <2>1, <2>3, SubmissionsAssumption
  <1>9. Taken' = [Taken EXCEPT ![t] = @ + 1]
    BY <1>0, <1>5, <1>7 DEF Taken
  <1>10. \A s \in Students : {i \in AttemptsOf(s)' : row'[i].submitted}
                               = {i \in AttemptsOf(s) : row[i].submitted}
    <2> SUFFICES ASSUME NEW s \in Students
                 PROVE  {i \in AttemptsOf(s)' : row'[i].submitted}
                               = {i \in AttemptsOf(s) : row[i].submitted}
      OBVIOUS
    <2>1. AttemptsOf(s) \subseteq SubmissionIds \ {u}
      BY <1>3 DEF AttemptsOf, Live
    <2>2. AttemptsOf(s)' \subseteq AttemptsOf(s) \cup {u}
          /\ AttemptsOf(s) \subseteq AttemptsOf(s)'
      BY <1>4, <1>5
    <2>3. ~row'[u].submitted
      BY <1>2
    <2> QED BY <1>2, <2>1, <2>2, <2>3
  <1>11. \A s \in Students : \A i \in AttemptsOf(s) : row'[i] = row[i]
    BY <1>2, <1>3 DEF AttemptsOf, Live
  <1>12. Closed' = Closed
    BY <1>10, <1>11 DEF Closed
  <1>13. Taken[t] = Cardinality(AttemptsOf(t))
    BY <1>0 DEF Taken
  <1> QED BY <1>8, <1>9, <1>12, <1>13 DEF Ledger!Take

\* A committed hand-in is the ledger's Close, or invisible when the attempt was
\* already closed by a racing request.
LEMMA CommitIsClose ==
  ASSUME AttemptsInv, [SubNext]_subVars,
         NEW u \in Live, row' = [row EXCEPT ![u].submitted = TRUE],
         NEW t, t = row[u].student, NEW k, k = row[u].attempt
  PROVE  \/ Ledger!Close(t, k) /\ t \in Students /\ k \in 1..MaxAttempts
         \/ UNCHANGED <<Taken, Closed>>
  <1>0. /\ TypeOK /\ HeldExist
        /\ u \in SubmissionIds /\ row[u] \in Row
        /\ t \in Students /\ u \in AttemptsOf(t)
    BY DEF AttemptsInv, TypeOK, Live, Row, AttemptsOf
  <1>1. /\ row'[u] = [row[u] EXCEPT !.submitted = TRUE]
        /\ row'[u] \in Row
        /\ row'[u].student = t /\ row'[u].attempt = k /\ row'[u].submitted
        /\ \A id \in SubmissionIds \ {u} : row'[id] = row[id]
    BY <1>0 DEF TypeOK, Row
  <1>2. NoRow \notin Row
    BY SubmissionsAssumption DEF Row
  <1>3. \A s \in Students : AttemptsOf(s)' = AttemptsOf(s)
    <2>1. Live' = Live
      BY <1>0, <1>1, <1>2 DEF Live
    <2>2. \A id \in Live : row'[id].student = row[id].student
      BY <1>0, RowsPersist
    <2> QED BY <2>1, <2>2 DEF AttemptsOf
  <1>4. Taken' = Taken
    BY <1>3 DEF Taken
  <1>5. CASE row[u].submitted
    <2>1. row'[u] = row[u]
      BY <1>0, <1>1, <1>5 DEF Row
    <2>2. row' = row
      BY <1>0, <1>1, <2>1 DEF TypeOK
    <2>3. Closed' = Closed
      BY <1>3, <2>2 DEF Closed
    <2> QED BY <1>4, <2>3
  <1>6. CASE ~row[u].submitted
    <2> DEFINE S(s) == {i \in AttemptsOf(s) : row[i].submitted}
    <2>1. \A s \in Students : \A i \in AttemptsOf(s) : i # u => row'[i] = row[i]
      BY <1>1 DEF AttemptsOf, Live
    <2>2. \A s \in Students : \A i \in AttemptsOf(s) : row'[i].attempt = row[i].attempt
      BY <1>1, <2>1
    <2>3. {i \in AttemptsOf(t)' : row'[i].submitted} = S(t) \cup {u}
      BY <1>0, <1>1, <1>3, <2>1
    <2>4. \A s \in Students \ {t} : {i \in AttemptsOf(s)' : row'[i].submitted} = S(s)
      <3> SUFFICES ASSUME NEW s \in Students \ {t}
                   PROVE  {i \in AttemptsOf(s)' : row'[i].submitted} = S(s)
        OBVIOUS
      <3>1. u \notin AttemptsOf(s)
        BY DEF AttemptsOf
      <3> QED BY <1>3, <2>1, <3>1
    <2>5. Closed'[t] = Closed[t] \cup {k}
      <3>1. Closed'[t] = {row'[i].attempt : i \in S(t) \cup {u}}
        BY <1>0, <2>3 DEF Closed
      <3>2. {row'[i].attempt : i \in S(t) \cup {u}}
              = {row[i].attempt : i \in S(t)} \cup {k}
        BY <1>0, <2>2
      <3> QED BY <1>0, <3>1, <3>2 DEF Closed
    <2>6. \A s \in Students \ {t} : Closed'[s] = Closed[s]
      <3> SUFFICES ASSUME NEW s \in Students \ {t}
                   PROVE  {row'[i].attempt : i \in S(s)} = {row[i].attempt : i \in S(s)}
        BY <2>4 DEF Closed
      <3> QED BY <2>2
    <2>7. Closed' = [Closed EXCEPT ![t] = @ \cup {k}]
      BY <1>0, <2>5, <2>6 DEF Closed
    <2>8. k \notin Closed[t]
      <3>1. \A i \in S(t) : row[i].attempt # k
        BY <1>0, <1>6 DEF AttemptsInv, AttemptsDistinct
      <3> QED BY <1>0, <3>1 DEF Closed
    <2>9. k \in 1..Taken[t] /\ k \in 1..MaxAttempts
      <3>1. k \in 1..Cardinality(AttemptsOf(t))
        BY <1>0 DEF AttemptsInv, AttemptsNumbered
      <3>2. Cardinality(AttemptsOf(t)) <= MaxAttempts
        BY <1>0 DEF AttemptsInv, AttemptLimit
      <3>3. Cardinality(AttemptsOf(t)) \in Nat /\ MaxAttempts \in Nat
        BY AttemptsFinite, SubmissionsAssumption
      <3> QED BY <1>0, <3>1, <3>2, <3>3 DEF Taken
    <2> QED BY <1>0, <1>4, <2>7, <2>8, <2>9 DEF Ledger!Close
  <1> QED BY <1>5, <1>6

LEMMA LedgerStep ==
  ASSUME AttemptsInv, [SubNext]_subVars
  PROVE  [Ledger!Next]_<<Taken, Closed>>
  <1>0. TypeOK /\ HeldExist
    BY DEF AttemptsInv
  <1>1. CASE row' = row
    BY <1>1 DEF Taken, Closed, AttemptsOf, Live
  <1>2. ASSUME NEW h \in Handlers, NEW id \in SubmissionIds \ Live,
               req[h].pc = "creating",
               ~\E i \in AttemptsOf(req[h].student) :
                   row[i].attempt = req[h].count + 1,
               row' = [row EXCEPT ![id] = [student |-> req[h].student,
                                           attempt |-> req[h].count + 1,
                                           submitted |-> FALSE]]
        PROVE  Ledger!Next
    <2>1. req[h].student \in Students /\ req[h].count \in Nat
      BY <1>0, <1>2, RequestShape DEF TypeOK
    <2>2. PICK t \in Students, k \in Nat : t = req[h].student /\ k = req[h].count
      BY <2>1
    <2>3. Ledger!Take(t)
      BY <1>2, <2>2, CreateIsTake
    <2> QED BY <2>3 DEF Ledger!Next
  <1>3. ASSUME NEW id \in Live, row' = [row EXCEPT ![id].submitted = TRUE]
        PROVE  [Ledger!Next]_<<Taken, Closed>>
    <2>1. PICK t, k : t = row[id].student /\ k = row[id].attempt
      OBVIOUS
    <2>2. \/ Ledger!Close(t, k) /\ t \in Students /\ k \in 1..MaxAttempts
          \/ UNCHANGED <<Taken, Closed>>
      BY <1>3, <2>1, CommitIsClose
    <2> QED BY <2>2 DEF Ledger!Next
  <1> QED BY <1>0, <1>1, <1>2, <1>3, RowStep

\* The table refines the ledger: attempts are taken one by one up to the
\* limit and closed for good, whatever requests race.
THEOREM SubmissionsImplementLedger == SubSpec => ImplementsLedger
  <1>1. SubInit => Ledger!Init
    <2> SUFFICES ASSUME SubInit PROVE Ledger!Init
      OBVIOUS
    <2>1. \A s : AttemptsOf(s) = {}
      BY DEF SubInit, AttemptsOf, Live
    <2>2. Taken = [s \in Students |-> 0]
      BY <2>1, FS_EmptySet DEF Taken
    <2>3. Closed = [s \in Students |-> {}]
      BY <2>1 DEF Closed
    <2> QED BY <2>2, <2>3 DEF Ledger!Init
  <1>2. AttemptsInv /\ [SubNext]_subVars => [Ledger!Next]_<<Taken, Closed>>
    BY LedgerStep
  <1> QED BY <1>1, <1>2, InitAttempts, StepAttempts, PTL
          DEF SubSpec, ImplementsLedger, Ledger!Spec

--------------------------------------------------------------------------------
(***************************************************************************)
(* Grading.                                                                *)
(*                                                                         *)
(* Most of the arguments treat AutoScore and ManualScore as names: what is *)
(* proved is that the stored numbers are these functions of the stored     *)
(* answers.  That they are naturals comes at the end.                      *)
(***************************************************************************)

\* The shapes the steps rely on.
Shapes ==
  /\ QueueInv
  /\ marks \in [SubmissionIds -> MarkSheet]
  /\ gradedBy \in [SubmissionIds -> SUBSET Questions]
  /\ run \in [Workers -> Run]
  /\ score = [id \in SubmissionIds |->
                [auto |-> score[id].auto, manual |-> score[id].manual,
                 total |-> score[id].total]]
  /\ call = [t \in Teachers |-> call[t]]
  /\ \A t \in Teachers : call[t] # Off =>
       /\ call[t] = [pc |-> call[t].pc, id |-> call[t].id,
                     auto |-> call[t].auto, grades |-> call[t].grades]
       /\ call[t].pc \in {"marking", "finalising"}
       /\ call[t].id \in SubmissionIds
       /\ call[t].grades \in Grades /\ Graded(call[t].grades) # {}

\* A running job is one of an attempt that was handed in, and what it read is
\* what is stored, late writes apart.
RunsSeeAnswers ==
  \A w \in Workers : run[w] # Vacant =>
    /\ Submitted(run[w].id)
    /\ run[w].id \notin lateWrites => run[w].seen = answers[run[w].id]

\* An auto score, stored or carried by a teacher's request, is the one of the
\* stored answers.
AutoScoreRight ==
  \A id \in SubmissionIds \ (early \cup lateWrites) :
    score[id].auto # Null \/ score[id].total # Null =>
      Submitted(id) /\ score[id].auto = AutoScore(answers[id])
CallsRight ==
  \A t \in Teachers :
    /\ call[t] # Off /\ call[t].auto # Null /\ call[t].id \notin early \cup lateWrites
    => Submitted(call[t].id) /\ call[t].auto = AutoScore(answers[call[t].id])

\* The attempts CompletedScoreIsRight is about.
Untouched(id) ==
  id \notin lateWrites /\ gradedBy[id] = {} /\ ~HasManual(answers[id])

\* A teacher's request that is about to finalise has graded something.
FinalisersGraded ==
  \A t \in Teachers : call[t].pc = "finalising" => gradedBy[call[t].id] # {}

\* A run has written what it no longer has to write.
RunsRight ==
  \A w \in Workers : run[w] # Vacant /\ Untouched(run[w].id) =>
    LET id == run[w].id
    IN  /\ \A q \in Answered(answers[id]) \ run[w].left :
             marks[id][q] = AutoMark(answers[id], q)
        /\ run[w].pc = "finishing" =>
             run[w].left = {} /\ score[id] = Finalised(AutoScore(answers[id]), Null)

\* The inductive invariant.
GradingInv ==
  /\ Shapes
  /\ RunsSeeAnswers
  /\ MarksWithinQuestion
  /\ AutoScoreRight /\ CallsRight /\ TotalIsSum
  /\ FinalisersGraded /\ RunsRight /\ CompletedScoreIsRight

--------------------------------------------------------------------------------
\* A running job is a record of known shape.
LEMMA RunShape ==
  ASSUME run \in [Workers -> Run], NEW w \in Workers, run[w] # Vacant
  PROVE  /\ run[w].pc \in {"marking", "finishing"}
         /\ run[w].id \in SubmissionIds
         /\ run[w].seen \in Sheet
         /\ run[w].left \subseteq Questions
         /\ run[w] = [pc |-> run[w].pc, id |-> run[w].id, seen |-> run[w].seen,
                      left |-> run[w].left]
  BY DEF Run

\* A step of the student side leaves the sheet of an attempt that was handed in
\* alone, unless it counts as a late write, and completes no job.
LEMMA StudentStep ==
  ASSUME QueueInv, SubNext, NEW id \in SubmissionIds
  PROVE  /\ Submitted(id) => Submitted(id)'
         /\ Submitted(id) /\ id \notin lateWrites' => answers'[id] = answers[id]
         /\ id \notin lateWrites' => id \notin lateWrites
         /\ queue'[id] = "completed" => queue[id] = "completed"
<1>1. Submitted(id) => Submitted(id)'
  BY SubmittedStays DEF QueueInv
<1>2. /\ Submitted(id) /\ id \notin lateWrites' => answers'[id] = answers[id]
      /\ id \notin lateWrites' => id \notin lateWrites
  <2>1. CASE UNCHANGED <<answers, lateWrites>>
    BY <2>1
  <2>2. ASSUME NEW h \in Handlers, SaveProgress(h) \/ CommitSubmission(h)
        PROVE  /\ Submitted(id) /\ id \notin lateWrites' => answers'[id] = answers[id]
               /\ id \notin lateWrites' => id \notin lateWrites
    BY <2>2 DEF SaveProgress, CommitSubmission, WriteAnswers, QueueInv, TypeOK
  <2> QED
    BY <2>1, <2>2 DEF SubNext, Proceed, Tick, StartSubmission, CountAttempts,
         CreateAttempt, AutoSave, SubmitAnswers, GetActiveSubmission,
         CheckDeadline, QueueAutoGrading, Abort
<1>3. queue'[id] = "completed" => queue[id] = "completed"
  BY DEF SubNext, Proceed, Tick, StartSubmission, CountAttempts, CreateAttempt,
       AutoSave, SubmitAnswers, GetActiveSubmission, CheckDeadline, SaveProgress,
       CommitSubmission, QueueAutoGrading, Abort, QueueInv, TypeOK, JobState
<1> QED
  BY <1>1, <1>2, <1>3

LEMMA StudentKeeps ==
  ASSUME GradingInv, SubNext, UNCHANGED gradeVars
  PROVE  GradingInv'
<1> USE DEF GradingInv
<1>1. Shapes'
  <2>1. QueueInv'
    BY StepQueue DEF Shapes
  <2> QED
    BY <2>1 DEF Shapes, gradeVars
<1>2. \A id \in SubmissionIds :
        /\ Submitted(id) => Submitted(id)'
        /\ Submitted(id) /\ id \notin lateWrites' => answers'[id] = answers[id]
        /\ id \notin lateWrites' => id \notin lateWrites
        /\ queue'[id] = "completed" => queue[id] = "completed"
  BY StudentStep DEF Shapes
<1>3. \A w \in Workers : run[w] # Vacant => run[w].id \in SubmissionIds
  BY RunShape DEF Shapes
<1>4. \A t \in Teachers : call[t] # Off => call[t].id \in SubmissionIds
  BY DEF Shapes
<1>5. RunsSeeAnswers'
  BY <1>2, <1>3 DEF RunsSeeAnswers, gradeVars
<1>6. MarksWithinQuestion'
  BY DEF MarksWithinQuestion, gradeVars
<1>7. AutoScoreRight' /\ CallsRight' /\ TotalIsSum'
  BY <1>2, <1>4 DEF AutoScoreRight, CallsRight, TotalIsSum, gradeVars
<1>8. FinalisersGraded'
  BY DEF FinalisersGraded, gradeVars
<1>9. RunsRight'
  BY <1>2, <1>3 DEF RunsRight, RunsSeeAnswers, Untouched, gradeVars
<1>10. CompletedScoreIsRight'
  <2>1. \A id \in SubmissionIds : queue[id] = "completed" => Submitted(id)
    BY DEF Shapes, QueueInv, QueuedOnlySubmitted
  <2> QED
    BY <1>2, <2>1 DEF CompletedScoreIsRight, gradeVars
<1> QED
  BY <1>1, <1>5, <1>6, <1>7, <1>8, <1>9, <1>10

\* A step of the grading side leaves everything of the student side alone but
\* the queue and the count of dead requests.
LEMMA QueueStep ==
  ASSUME QueueInv, UNCHANGED studentVars, aborts' \in Nat,
         queue' \in [SubmissionIds -> JobState],
         \A id \in SubmissionIds : queue'[id] # "none" => Submitted(id)
  PROVE  QueueInv'
  BY DEF QueueInv, studentVars, TypeOK, HeldExist, EnqueuersCommitted,
         QueuedOnlySubmitted, Submitted, Live

\* Steps that only move jobs and runs, and complete no job that was not right.
LEMMA RunStep ==
  ASSUME GradingInv, UNCHANGED <<studentVars, marks, gradedBy, score, call, early>>,
         aborts' \in Nat, run' \in [Workers -> Run],
         queue' \in [SubmissionIds -> JobState],
         \A id \in SubmissionIds : queue'[id] # "none" => Submitted(id),
         \A id \in SubmissionIds : queue'[id] = "completed" =>
            \/ queue[id] = "completed"
            \/ \E w \in Workers : run[w] # Vacant /\ run[w].pc = "finishing" /\ run[w].id = id,
         \A w \in Workers :
            \/ run'[w] = run[w] \/ run'[w] = Vacant
            \/ /\ Submitted(run'[w].id) /\ run'[w].pc = "marking"
               /\ run'[w].seen = answers[run'[w].id]
               /\ run'[w].left = Answered(answers[run'[w].id]) \cap AutoQuestions
  PROVE  GradingInv'
<1> USE DEF GradingInv
<1>1. Shapes'
  BY QueueStep DEF Shapes, studentVars
<1>2. RunsSeeAnswers'
  BY DEF RunsSeeAnswers, studentVars, Submitted, Live
<1>3. MarksWithinQuestion' /\ AutoScoreRight' /\ CallsRight' /\ TotalIsSum' /\ FinalisersGraded'
  BY DEF MarksWithinQuestion, AutoScoreRight, CallsRight, TotalIsSum, FinalisersGraded,
       studentVars, Submitted, Live
<1>4. RunsRight'
  BY DEF RunsRight, Untouched, HasManual, studentVars
<1>5. CompletedScoreIsRight'
  <2> SUFFICES ASSUME NEW id \in SubmissionIds, queue'[id] = "completed", Untouched(id)
               PROVE  /\ score[id] = Finalised(AutoScore(answers[id]), Null)
                      /\ \A q \in Answered(answers[id]) : marks[id][q] = AutoMark(answers[id], q)
    BY DEF CompletedScoreIsRight, Untouched, studentVars
  <2>1. CASE queue[id] = "completed"
    BY <2>1 DEF CompletedScoreIsRight, Untouched
  <2>2. CASE \E w \in Workers : run[w] # Vacant /\ run[w].pc = "finishing" /\ run[w].id = id
    <3>1. PICK w \in Workers : run[w] # Vacant /\ run[w].pc = "finishing" /\ run[w].id = id
      BY <2>2
    <3>2. run[w].left = {} /\ score[id] = Finalised(AutoScore(answers[id]), Null)
      BY <3>1 DEF RunsRight
    <3>3. \A q \in Answered(answers[id]) \ run[w].left : marks[id][q] = AutoMark(answers[id], q)
      BY <3>1 DEF RunsRight
    <3> QED
      BY <3>2, <3>3
  <2> QED
    BY <2>1, <2>2
<1> QED
  BY <1>1, <1>2, <1>3, <1>4, <1>5

LEMMA JobKeeps ==
  ASSUME GradingInv, NEW w \in Workers,
         \/ \E id \in SubmissionIds : TakeJob(w, id)
         \/ CompleteJob(w) \/ FailJob(w) \/ LoseLock(w)
  PROVE  GradingInv'
<1> USE DEF GradingInv
<1>1. queue \in [SubmissionIds -> JobState] /\ aborts \in Nat /\ run \in [Workers -> Run]
  BY DEF Shapes, QueueInv, TypeOK
<1>2. \A id \in SubmissionIds : queue[id] # "none" => Submitted(id)
  BY DEF Shapes, QueueInv, QueuedOnlySubmitted
<1>3. Vacant \in Run
  BY DEF Run
<1>4. {"none", "waiting", "active", "completed", "failed"} = JobState
  BY DEF JobState
<1>5. ASSUME NEW id \in SubmissionIds, TakeJob(w, id) PROVE GradingInv'
  <2> DEFINE new == [pc |-> "marking", id |-> id, seen |-> answers[id],
                     left |-> Answered(answers[id]) \cap AutoQuestions]
  <2>1. new \in Run
    <3>1. answers[id] \in Sheet
      BY DEF Shapes, QueueInv, TypeOK
    <3>2. Answered(answers[id]) \cap AutoQuestions \subseteq Questions
      BY DEF Answered
    <3> QED
      BY <3>1, <3>2 DEF Run
  <2>2. run' = [run EXCEPT ![w] = new]
    BY <1>5 DEF TakeJob
  <2>3. run' \in [Workers -> Run]
    BY <1>1, <2>1, <2>2
  <2>4. Submitted(id)
    BY <1>2, <1>5 DEF TakeJob
  <2>5. \A v \in Workers :
          \/ run'[v] = run[v]
          \/ /\ run'[v].id = id /\ run'[v].pc = "marking"
             /\ run'[v].seen = answers[id]
             /\ run'[v].left = Answered(answers[id]) \cap AutoQuestions
    BY <1>1, <2>2
  <2>6. queue' = [queue EXCEPT ![id] = "active"]
    BY <1>5 DEF TakeJob
  <2>7. queue' \in [SubmissionIds -> JobState]
    BY <1>1, <1>4, <2>6
  <2>8. \A i \in SubmissionIds : queue'[i] # "none" => Submitted(i)
    BY <1>1, <1>2, <2>4, <2>6
  <2>9. \A i \in SubmissionIds : queue'[i] = "completed" => queue[i] = "completed"
    BY <1>1, <2>6
  <2>10. aborts' \in Nat /\ UNCHANGED <<studentVars, marks, gradedBy, score, call, early>>
    BY <1>1, <1>5 DEF TakeJob
  <2> QED
    BY <2>3, <2>4, <2>5, <2>7, <2>8, <2>9, <2>10, RunStep
<1>6. ASSUME CompleteJob(w) \/ FailJob(w) \/ LoseLock(w) PROVE GradingInv'
  <2>0. run[w] # Vacant
    BY <1>6 DEF CompleteJob, FailJob, LoseLock, Vacant
  <2>1. run' \in [Workers -> Run] /\ \A v \in Workers : run'[v] = run[v] \/ run'[v] = Vacant
    BY <1>1, <1>3, <1>6 DEF CompleteJob, FailJob, LoseLock
  <2> DEFINE id == run[w].id
  <2>2. id \in SubmissionIds /\ Submitted(id)
    BY <1>1, <2>0, RunShape DEF RunsSeeAnswers
  <2>3. \/ queue' = queue
        \/ \E s \in {"waiting", "failed"} : queue' = [queue EXCEPT ![id] = s]
        \/ run[w].pc = "finishing" /\ queue' = [queue EXCEPT ![id] = "completed"]
    BY <1>6 DEF CompleteJob, FailJob, LoseLock
  <2> HIDE DEF id
  <2>4. queue' \in [SubmissionIds -> JobState]
    BY <1>1, <1>4, <2>3
  <2>5. \A i \in SubmissionIds : queue'[i] # "none" => Submitted(i)
    BY <1>1, <1>2, <2>2, <2>3
  <2>6. \A i \in SubmissionIds : queue'[i] = "completed" =>
          queue[i] = "completed" \/ (run[w].pc = "finishing" /\ i = id)
    BY <1>1, <2>3
  <2>7. aborts' \in Nat /\ UNCHANGED <<studentVars, marks, gradedBy, score, call, early>>
    BY <1>1, <1>6 DEF CompleteJob, FailJob, LoseLock
  <2>8. \A i \in SubmissionIds : queue'[i] = "completed" =>
          \/ queue[i] = "completed"
          \/ \E v \in Workers : run[v] # Vacant /\ run[v].pc = "finishing" /\ run[v].id = i
    BY <2>0, <2>6 DEF id
  <2> QED
    BY <2>1, <2>4, <2>5, <2>7, <2>8, RunStep
<1> QED
  BY <1>5, <1>6

LEMMA EvictKeeps ==
  ASSUME GradingInv, NEW id \in SubmissionIds, EvictJob(id)
  PROVE  GradingInv'
<1> USE DEF GradingInv
<1>1. queue \in [SubmissionIds -> JobState] /\ aborts \in Nat /\ run \in [Workers -> Run]
  BY DEF Shapes, QueueInv, TypeOK
<1>2. queue' = [queue EXCEPT ![id] = "none"]
  BY DEF EvictJob
<1>3. queue' \in [SubmissionIds -> JobState]
  BY <1>1, <1>2 DEF JobState
<1>4. \A i \in SubmissionIds : queue'[i] # "none" => Submitted(i)
  BY <1>1, <1>2 DEF Shapes, QueueInv, QueuedOnlySubmitted
<1>5. \A i \in SubmissionIds : queue'[i] = "completed" => queue[i] = "completed"
  BY <1>1, <1>2
<1>6. UNCHANGED <<studentVars, aborts, run, marks, gradedBy, score, call, early>>
  BY DEF EvictJob
<1> QED
  BY <1>1, <1>3, <1>4, <1>5, <1>6, RunStep

--------------------------------------------------------------------------------
LEMMA AwardKeeps ==
  ASSUME GradingInv, NEW w \in Workers, NEW q \in Questions, AwardMark(w, q)
  PROVE  GradingInv'
<1> USE DEF GradingInv
<1> DEFINE id == run[w].id
<1>0. run[w] # Vacant
  BY DEF AwardMark, Vacant
<1>1. /\ id \in SubmissionIds /\ run[w].seen \in Sheet /\ run[w].left \subseteq Questions
      /\ run[w] = [pc |-> "marking", id |-> id, seen |-> run[w].seen, left |-> run[w].left]
  BY <1>0, RunShape DEF AwardMark, Shapes
<1>2. /\ marks' = [marks EXCEPT ![id][q] = AutoMark(run[w].seen, q)]
      /\ run' = [run EXCEPT ![w] = [pc |-> "marking", id |-> id, seen |-> run[w].seen,
                                    left |-> run[w].left \ {q}]]
      /\ UNCHANGED <<subVars, gradedBy, score, call, early>>
  <2>1. ASSUME NEW r, NEW p, NEW i, NEW s, NEW l, NEW m,
               r = [pc |-> p, id |-> i, seen |-> s, left |-> l]
        PROVE  [r EXCEPT !.left = m] = [pc |-> p, id |-> i, seen |-> s, left |-> m]
    BY <2>1
  <2>2. [run[w] EXCEPT !.left = run[w].left \ {q}]
          = [pc |-> "marking", id |-> id, seen |-> run[w].seen, left |-> run[w].left \ {q}]
    BY <1>1, <2>1
  <2>3. run' = [run EXCEPT ![w] = [run[w] EXCEPT !.left = run[w].left \ {q}]]
    BY DEF AwardMark
  <2> QED
    BY <2>2, <2>3 DEF AwardMark
<1>3. AutoMark(run[w].seen, q) \in Nat /\ AutoMark(run[w].seen, q) <= Marks[q]
  BY GradingAssumption DEF AutoMark
<1>4. marks' \in [SubmissionIds -> MarkSheet]
  BY <1>1, <1>2, <1>3 DEF Shapes, MarkSheet
<1>5. \A i \in SubmissionIds, p \in Questions :
        marks'[i][p] = IF i = id /\ p = q THEN AutoMark(run[w].seen, q) ELSE marks[i][p]
  BY <1>1, <1>2 DEF Shapes, MarkSheet
<1>6. \A v \in Workers :
        /\ run'[v].id = run[v].id \/ run[v] = Vacant
        /\ run'[v] = Vacant <=> run[v] = Vacant
        /\ run[v] # Vacant => /\ run'[v].pc = run[v].pc
                              /\ run'[v].seen = run[v].seen
                              /\ v # w => run'[v].left = run[v].left
        /\ v = w => run'[v].left = run[v].left \ {q}
  BY <1>0, <1>1, <1>2 DEF Shapes, Vacant
<1> HIDE DEF id
<1>7. Shapes'
  <2>1. QueueInv'
    BY <1>2 DEF Shapes, QueueInv, subVars, TypeOK, HeldExist, EnqueuersCommitted,
         QueuedOnlySubmitted, Submitted, Live
  <2>2. run' \in [Workers -> Run]
    BY <1>1, <1>2 DEF Shapes, Run
  <2> QED
    BY <1>2, <1>4, <2>1, <2>2 DEF Shapes
<1>8. RunsSeeAnswers'
  BY <1>2, <1>6 DEF RunsSeeAnswers, subVars, Submitted, Live
<1>9. MarksWithinQuestion'
  BY <1>3, <1>5 DEF MarksWithinQuestion
<1>10. AutoScoreRight' /\ CallsRight' /\ TotalIsSum' /\ FinalisersGraded'
  BY <1>2 DEF AutoScoreRight, CallsRight, TotalIsSum, FinalisersGraded, subVars, Submitted, Live
<1>11. Untouched(id) => AutoMark(run[w].seen, q) = AutoMark(answers[id], q)
  BY <1>0 DEF id, RunsSeeAnswers, Untouched
<1>13. RunsRight'
  <2> SUFFICES ASSUME NEW v \in Workers, run'[v] # Vacant, Untouched(run'[v].id)
               PROVE  LET i == run'[v].id
                      IN  /\ \A p \in Answered(answers[i]) \ run'[v].left :
                               marks'[i][p] = AutoMark(answers[i], p)
                          /\ run'[v].pc = "finishing" =>
                               /\ run'[v].left = {}
                               /\ score[i] = Finalised(AutoScore(answers[i]), Null)
    BY <1>2 DEF RunsRight, Untouched, HasManual, subVars
  <2> DEFINE i == run[v].id
  <2>1. run[v] # Vacant /\ run'[v].id = i /\ run'[v].pc = run[v].pc
    BY <1>6
  <2>2. i \in SubmissionIds
    BY <2>1, RunShape DEF Shapes
  <2>3. Untouched(i)
    BY <2>1
  <2>4. /\ \A p \in Answered(answers[i]) \ run[v].left : marks[i][p] = AutoMark(answers[i], p)
        /\ run[v].pc = "finishing" =>
             run[v].left = {} /\ score[i] = Finalised(AutoScore(answers[i]), Null)
    BY <2>1, <2>3 DEF RunsRight
  <2>5. v = w => i = id /\ run[v].pc = "marking"
    BY <1>1 DEF id
  <2>6. Answered(answers[i]) \subseteq Questions
    BY DEF Answered
  <2>7. run'[v].left = run[v].left \/ (v = w /\ run'[v].left = run[v].left \ {q})
    BY <1>6, <2>1
  <2> HIDE DEF i
  <2>8. \A p \in Answered(answers[i]) \ run'[v].left : marks'[i][p] = AutoMark(answers[i], p)
    BY <1>5, <1>11, <2>2, <2>3, <2>4, <2>5, <2>6, <2>7
  <2> QED
    BY <2>1, <2>4, <2>5, <2>7, <2>8
<1>14. CompletedScoreIsRight'
  <2>1. \A i \in SubmissionIds : Answered(answers[i]) \subseteq Questions
    BY DEF Answered
  <2> QED
    BY <1>2, <1>5, <1>11, <2>1 DEF CompletedScoreIsRight, Untouched, subVars
<1> QED
  BY <1>7, <1>8, <1>9, <1>10, <1>13, <1>14

\* The stored score is a record of known shape, and an update of one attempt is
\* an update of that attempt only.
LEMMA ScoreUpdate ==
  ASSUME Shapes, NEW id \in SubmissionIds, NEW a, NEW m, NEW t,
         score' = [score EXCEPT ![id] = [auto |-> a, manual |-> m, total |-> t]]
  PROVE  /\ score' = [i \in SubmissionIds |->
                       [auto |-> score'[i].auto, manual |-> score'[i].manual,
                        total |-> score'[i].total]]
         /\ \A i \in SubmissionIds :
              score'[i] = IF i = id THEN [auto |-> a, manual |-> m, total |-> t] ELSE score[i]
<1>1. DOMAIN score = SubmissionIds
  BY DEF Shapes
<1>2. \A i \in SubmissionIds :
        score[i] = [auto |-> score[i].auto, manual |-> score[i].manual, total |-> score[i].total]
  BY DEF Shapes
<1>3. score = [i \in SubmissionIds |-> score[i]]
  BY DEF Shapes
<1>4. score' = [i \in SubmissionIds |->
                  IF i = id THEN [auto |-> a, manual |-> m, total |-> t] ELSE score[i]]
  BY <1>1, <1>3
<1>5. \A i \in SubmissionIds :
        score'[i] = IF i = id THEN [auto |-> a, manual |-> m, total |-> t] ELSE score[i]
  BY <1>4
<1>6. \A i \in SubmissionIds :
        score'[i] = [auto |-> score'[i].auto, manual |-> score'[i].manual,
                     total |-> score'[i].total]
  BY <1>2, <1>5
<1>7. score' = [i \in SubmissionIds |-> score'[i]]
  BY <1>4
<1> QED
  BY <1>5, <1>6, <1>7

\* A step of the grading side that leaves the queue alone keeps the student
\* side's invariant.
LEMMA QueueUnchanged ==
  ASSUME QueueInv, UNCHANGED subVars
  PROVE  QueueInv'
  BY DEF QueueInv, subVars, TypeOK, HeldExist, EnqueuersCommitted, QueuedOnlySubmitted,
         Submitted, Live

LEMMA StoreKeeps ==
  ASSUME GradingInv, NEW w \in Workers, StoreScore(w)
  PROVE  GradingInv'
<1> USE DEF GradingInv
<1> DEFINE id == run[w].id
           auto == AutoScore(run[w].seen)
<1>0. run[w] # Vacant /\ run[w].pc = "marking" /\ run[w].left = {}
  BY DEF StoreScore, Vacant
<1>1. /\ id \in SubmissionIds /\ run[w].seen \in Sheet
      /\ run[w] = [pc |-> "marking", id |-> id, seen |-> run[w].seen, left |-> {}]
  BY <1>0, RunShape DEF Shapes
<1>2. /\ Submitted(id)
      /\ id \notin lateWrites => run[w].seen = answers[id]
  BY <1>0 DEF RunsSeeAnswers
<1>3. run' = [run EXCEPT ![w] = [pc |-> "finishing", id |-> id, seen |-> run[w].seen, left |-> {}]]
  <2>1. ASSUME NEW r, NEW i, NEW s,
               r = [pc |-> "marking", id |-> i, seen |-> s, left |-> {}]
        PROVE  [r EXCEPT !.pc = "finishing"]
                 = [pc |-> "finishing", id |-> i, seen |-> s, left |-> {}]
    BY <2>1
  <2>2. [run[w] EXCEPT !.pc = "finishing"]
          = [pc |-> "finishing", id |-> id, seen |-> run[w].seen, left |-> {}]
    BY <1>1, <2>1
  <2> QED
    BY <2>2 DEF StoreScore
<1>4. UNCHANGED <<subVars, marks, gradedBy, call, early>>
  BY DEF StoreScore
<1>5. /\ score' = [i \in SubmissionIds |->
                    [auto |-> score'[i].auto, manual |-> score'[i].manual,
                     total |-> score'[i].total]]
      /\ \A i \in SubmissionIds : i # id => score'[i] = score[i]
      /\ score'[id] = IF HasManual(run[w].seen)
                      THEN [auto |-> auto, manual |-> score[id].manual, total |-> score[id].total]
                      ELSE Finalised(auto, Null)
  <2>1. CASE HasManual(run[w].seen)
    <3>1. ASSUME NEW r, NEW a, r = [auto |-> r.auto, manual |-> r.manual, total |-> r.total]
          PROVE  [r EXCEPT !.auto = a] = [auto |-> a, manual |-> r.manual, total |-> r.total]
      BY <3>1
    <3>2. score[id] = [auto |-> score[id].auto, manual |-> score[id].manual,
                       total |-> score[id].total]
      BY <1>1 DEF Shapes
    <3>3. [score[id] EXCEPT !.auto = auto]
            = [auto |-> auto, manual |-> score[id].manual, total |-> score[id].total]
      BY <3>1, <3>2
    <3>4. score' = [score EXCEPT ![id] =
                      [auto |-> auto, manual |-> score[id].manual, total |-> score[id].total]]
      BY <2>1, <3>3 DEF StoreScore
    <3> QED
      BY <1>1, <2>1, <3>4, ScoreUpdate
  <2>2. CASE ~HasManual(run[w].seen)
    <3>1. score' = [score EXCEPT ![id] =
                      [auto |-> auto, manual |-> Null, total |-> auto + OrZero(Null)]]
      BY <2>2 DEF StoreScore, Finalised
    <3> QED
      BY <1>1, <2>2, <3>1, ScoreUpdate DEF Finalised
  <2> QED
    BY <2>1, <2>2
<1>6. \A v \in Workers : v # w => run'[v] = run[v]
  BY <1>3 DEF Shapes
<1>7. run'[w] = [pc |-> "finishing", id |-> id, seen |-> run[w].seen, left |-> {}]
  BY <1>3 DEF Shapes
<1>8. Shapes'
  <2>1. QueueInv'
    BY <1>4, QueueUnchanged DEF Shapes
  <2>2. run' \in [Workers -> Run]
    BY <1>1, <1>3 DEF Shapes, Run
  <2> QED
    BY <1>4, <1>5, <2>1, <2>2 DEF Shapes
<1>9. RunsSeeAnswers'
  BY <1>0, <1>4, <1>6, <1>7 DEF RunsSeeAnswers, subVars, Submitted, Live
<1>10. MarksWithinQuestion' /\ CallsRight' /\ FinalisersGraded'
  BY <1>4 DEF MarksWithinQuestion, CallsRight, FinalisersGraded, subVars, Submitted, Live
<1>11. AutoScoreRight'
  <2> SUFFICES ASSUME NEW i \in SubmissionIds, i \notin early, i \notin lateWrites,
                      score'[i].auto # Null \/ score'[i].total # Null
               PROVE  Submitted(i) /\ score'[i].auto = AutoScore(answers[i])
    BY <1>4 DEF AutoScoreRight, subVars, Submitted, Live
  <2>1. CASE i # id
    BY <1>5, <2>1 DEF AutoScoreRight
  <2>2. CASE i = id
    <3>1. score'[id].auto = auto
      BY <1>5 DEF Finalised
    <3> QED
      BY <1>2, <2>2, <3>1
  <2> QED
    BY <2>1, <2>2
<1>12. TotalIsSum'
  <2> SUFFICES ASSUME NEW i \in SubmissionIds, i \notin early, i \notin lateWrites,
                      score'[i].total # Null
               PROVE  score'[i].total = score'[i].auto + OrZero(score'[i].manual)
    BY <1>4 DEF TotalIsSum, subVars
  <2>1. CASE i # id
    BY <1>5, <2>1 DEF TotalIsSum
  <2>2. CASE i = id /\ HasManual(run[w].seen)
    <3>1. /\ score'[id].total = score[id].total
          /\ score'[id].manual = score[id].manual
          /\ score'[id].auto = auto
      BY <1>5, <2>2
    <3>2. score[id].auto = auto
      BY <1>2, <2>2, <3>1 DEF AutoScoreRight
    <3>3. score[id].total = score[id].auto + OrZero(score[id].manual)
      BY <2>2, <3>1 DEF TotalIsSum
    <3> QED
      BY <2>2, <3>1, <3>2, <3>3
  <2>3. CASE i = id /\ ~HasManual(run[w].seen)
    BY <1>5, <2>3 DEF Finalised
  <2> QED
    BY <2>1, <2>2, <2>3
\* An untouched attempt gets the right score, the same whoever stores it.
<1>13. Untouched(id) => score'[id] = Finalised(AutoScore(answers[id]), Null)
  BY <1>2, <1>5 DEF Untouched
<1> HIDE DEF id, auto
<1>14. \A i \in SubmissionIds :
         /\ Untouched(i)
         /\ score[i] = Finalised(AutoScore(answers[i]), Null)
         => score'[i] = Finalised(AutoScore(answers[i]), Null)
  BY <1>5, <1>13
<1>15. RunsRight'
  <2> SUFFICES ASSUME NEW v \in Workers, run'[v] # Vacant, Untouched(run'[v].id)
               PROVE  LET i == run'[v].id
                      IN  /\ \A p \in Answered(answers[i]) \ run'[v].left :
                               marks[i][p] = AutoMark(answers[i], p)
                          /\ run'[v].pc = "finishing" =>
                               /\ run'[v].left = {}
                               /\ score'[i] = Finalised(AutoScore(answers[i]), Null)
    BY <1>4 DEF RunsRight, Untouched, HasManual, subVars
  <2>1. CASE v = w
    BY <1>0, <1>7, <1>13, <2>1 DEF RunsRight, id
  <2>2. CASE v # w
    <3>1. run[v].id \in SubmissionIds
      BY <1>6, <2>2, RunShape DEF Shapes
    <3> QED
      BY <1>6, <1>14, <2>2, <3>1 DEF RunsRight
  <2> QED
    BY <2>1, <2>2
<1>16. CompletedScoreIsRight'
  BY <1>4, <1>14 DEF CompletedScoreIsRight, Untouched, subVars
<1> QED
  BY <1>8, <1>9, <1>10, <1>11, <1>12, <1>15, <1>16

--------------------------------------------------------------------------------
\* What a step of one teacher's request does to the requests.
LEMMA CallUpdate ==
  ASSUME Shapes, NEW t \in Teachers, NEW c, call' = [call EXCEPT ![t] = c]
  PROVE  /\ call' = [u \in Teachers |-> call'[u]]
         /\ call'[t] = c
         /\ \A u \in Teachers : u # t => call'[u] = call[u]
<1>1. call = [u \in Teachers |-> call[u]]
  BY DEF Shapes
<1>2. call' = [u \in Teachers |-> IF u = t THEN c ELSE call[u]]
  BY <1>1
<1> QED
  BY <1>2

\* A call that is none, or a record of known shape.
Shaped(c) ==
  c # Off => /\ c = [pc |-> c.pc, id |-> c.id, auto |-> c.auto, grades |-> c.grades]
             /\ c.pc \in {"marking", "finalising"}
             /\ c.id \in SubmissionIds
             /\ c.grades \in Grades /\ Graded(c.grades) # {}

LEMMA CallShapes ==
  ASSUME Shapes, NEW t \in Teachers, Shaped(call'[t]),
         \A u \in Teachers : u # t => call'[u] = call[u]
  PROVE  \A u \in Teachers : Shaped(call'[u])
<1> SUFFICES ASSUME NEW u \in Teachers PROVE Shaped(call'[u])
  OBVIOUS
<1>1. Shaped(call[u])
  BY DEF Shapes, Shaped
<1>2. CASE u = t
  BY <1>2
<1>3. CASE u # t
  <2>1. call'[u] = call[u]
    BY <1>3
  <2> QED
    BY <1>1, <2>1
<1> QED
  BY <1>2, <1>3

\* A request that ends, or moves on without writing anything.
LEMMA TeacherQuiet ==
  ASSUME GradingInv, NEW t \in Teachers, NEW c, call' = [call EXCEPT ![t] = c],
         UNCHANGED <<studentVars, queue, marks, gradedBy, score, run, early>>,
         aborts' \in Nat,
         \/ c = Off
         \/ /\ \E id \in SubmissionIds, grades \in Grades :
                 /\ c = [pc |-> "marking", id |-> id, auto |-> score[id].auto, grades |-> grades]
                 /\ Graded(grades) # {}
  PROVE  GradingInv'
<1> USE DEF GradingInv
<1>1. /\ call' = [u \in Teachers |-> call'[u]]
      /\ call'[t] = c
      /\ \A u \in Teachers : u # t => call'[u] = call[u]
  BY CallUpdate
<1>2. QueueInv'
  <2>1. queue' \in [SubmissionIds -> JobState] /\
        \A id \in SubmissionIds : queue'[id] # "none" => Submitted(id)
    BY DEF Shapes, QueueInv, TypeOK, QueuedOnlySubmitted
  <2> QED
    BY <2>1, QueueStep DEF Shapes
<1>3. c # Off => /\ c = [pc |-> "marking", id |-> c.id, auto |-> score[c.id].auto, grades |-> c.grades]
                 /\ c.id \in SubmissionIds /\ c.grades \in Grades /\ Graded(c.grades) # {}
  OBVIOUS
<1>4. Shapes'
  <2>1. Shaped(c)
    BY <1>3 DEF Shaped
  <2>2. \A u \in Teachers : Shaped(call'[u])
    <3>1. Shaped(call'[t])
      BY <1>1, <2>1
    <3> QED
      BY <1>1, <3>1, CallShapes
  <2> QED
    BY <1>1, <1>2, <2>2 DEF Shapes, Shaped
<1>5. CallsRight'
  BY <1>1, <1>3 DEF CallsRight, AutoScoreRight, studentVars, Submitted, Live
<1>6. FinalisersGraded'
  BY <1>1, <1>3 DEF FinalisersGraded, Off
<1>7. RunsSeeAnswers' /\ MarksWithinQuestion' /\ AutoScoreRight' /\ TotalIsSum'
      /\ RunsRight' /\ CompletedScoreIsRight'
  BY DEF RunsSeeAnswers, MarksWithinQuestion, AutoScoreRight, TotalIsSum, RunsRight,
       CompletedScoreIsRight, Untouched, HasManual, studentVars, Submitted, Live
<1> QED
  BY <1>4, <1>5, <1>6, <1>7

LEMMA MarkKeeps ==
  ASSUME GradingInv, NEW t \in Teachers, MarkAnswers(t)
  PROVE  GradingInv'
<1> USE DEF GradingInv
<1> DEFINE id == call[t].id
           grades == call[t].grades
           given == Graded(grades)
<1>0. aborts \in Nat
  BY DEF Shapes, QueueInv, TypeOK
<1>1. CASE \E q \in given : grades[q] > Marks[q]
  BY <1>0, <1>1, TeacherQuiet DEF MarkAnswers, subVars, studentVars
<1>2. CASE ~\E q \in given : grades[q] > Marks[q]
  <2>0. call[t] # Off
    BY DEF MarkAnswers, Off
  <2>1. /\ id \in SubmissionIds /\ grades \in Grades /\ given # {} /\ given \subseteq Questions
        /\ call[t] = [pc |-> "marking", id |-> id, auto |-> call[t].auto, grades |-> grades]
    BY <2>0 DEF Shapes, MarkAnswers, Graded
  <2>2. /\ marks' = [marks EXCEPT ![id] =
                       [q \in Questions |-> IF q \in given THEN grades[q] ELSE marks[id][q]]]
        /\ gradedBy' = [gradedBy EXCEPT ![id] = @ \cup given]
        /\ call' = [call EXCEPT ![t].pc = "finalising"]
        /\ UNCHANGED <<subVars, score, run, early>>
    BY <1>2 DEF MarkAnswers
  <2>3. call' = [call EXCEPT ![t] =
                   [pc |-> "finalising", id |-> id, auto |-> call[t].auto, grades |-> grades]]
    <3>1. ASSUME NEW r, NEW i, NEW a, NEW g,
                 r = [pc |-> "marking", id |-> i, auto |-> a, grades |-> g]
          PROVE  [r EXCEPT !.pc = "finalising"]
                   = [pc |-> "finalising", id |-> i, auto |-> a, grades |-> g]
      BY <3>1
    <3>2. [call[t] EXCEPT !.pc = "finalising"]
            = [pc |-> "finalising", id |-> id, auto |-> call[t].auto, grades |-> grades]
      BY <2>1, <3>1
    <3> QED
      BY <2>2, <3>2
  <2>4. /\ call' = [u \in Teachers |-> call'[u]]
        /\ call'[t] = [pc |-> "finalising", id |-> id, auto |-> call[t].auto, grades |-> grades]
        /\ \A u \in Teachers : u # t => call'[u] = call[u]
    BY <2>3, CallUpdate
  <2>5. \A q \in given : grades[q] \in Nat /\ grades[q] <= Marks[q]
    <3> SUFFICES ASSUME NEW q \in given PROVE grades[q] \in Nat /\ grades[q] <= Marks[q]
      OBVIOUS
    <3>1. q \in Questions /\ grades[q] # Null
      BY DEF Graded
    <3>2. grades[q] \in Nat /\ Marks[q] \in Nat
      BY <2>1, <3>1, GradingAssumption DEF Grades
    <3> QED
      BY <1>2, <3>2
  <2> HIDE DEF id, grades, given
  <2>6. /\ marks' \in [SubmissionIds -> MarkSheet]
        /\ \A i \in SubmissionIds : i # id => marks'[i] = marks[i]
        /\ \A q \in Questions :
             marks'[id][q] = IF q \in given THEN grades[q] ELSE marks[id][q]
    BY <2>1, <2>2, <2>5 DEF Shapes, MarkSheet
  <2>7. /\ gradedBy' \in [SubmissionIds -> SUBSET Questions]
        /\ gradedBy'[id] # {}
        /\ \A i \in SubmissionIds : i # id => gradedBy'[i] = gradedBy[i]
    BY <2>1, <2>2 DEF Shapes
  <2>8. Shapes'
    <3>1. QueueInv'
      BY <2>2, QueueUnchanged DEF Shapes
    <3>2. \A u \in Teachers : Shaped(call'[u])
      <4> HIDE DEF GradingInv
      <4>1. Shaped(call'[t])
        BY <2>1, <2>4 DEF Shaped, given
      <4>2. Shapes
        BY DEF GradingInv
      <4> QED
        BY <2>4, <4>1, <4>2, CallShapes
    <3> QED
      <4>1. score' = score /\ run' = run
        BY <2>2
      <4> QED
        BY <2>4, <2>6, <2>7, <3>1, <3>2, <4>1 DEF Shapes, Shaped
  <2>9. RunsSeeAnswers' /\ AutoScoreRight' /\ TotalIsSum'
    BY <2>2 DEF RunsSeeAnswers, AutoScoreRight, TotalIsSum, subVars, Submitted, Live
  <2>10. CallsRight'
    <3>1. call[t] # Off /\ call'[t].id = call[t].id /\ call'[t].auto = call[t].auto
      BY <2>0, <2>4 DEF id
    <3> QED
      BY <2>2, <2>4, <3>1 DEF CallsRight, subVars, Submitted, Live
  <2>11. MarksWithinQuestion'
    BY <2>1, <2>5, <2>6 DEF MarksWithinQuestion
  <2>12. FinalisersGraded'
    <3> SUFFICES ASSUME NEW u \in Teachers, call'[u].pc = "finalising"
                 PROVE  gradedBy'[call'[u].id] # {}
      BY DEF FinalisersGraded
    <3>1. CASE u = t
      BY <2>4, <2>7, <3>1
    <3>2. CASE u # t
      <4>1. call[u].pc = "finalising" /\ call'[u] = call[u] /\ call[u].id \in SubmissionIds
        BY <2>4, <3>2 DEF Shapes, Off
      <4> QED
        BY <2>7, <4>1 DEF FinalisersGraded
    <3> QED
      BY <3>1, <3>2
  <2>13. RunsRight'
    <3> SUFFICES ASSUME NEW w \in Workers, run[w] # Vacant,
                        run[w].id \notin lateWrites, gradedBy'[run[w].id] = {},
                        ~HasManual(answers[run[w].id])
                 PROVE  LET i == run[w].id
                        IN  /\ \A p \in Answered(answers[i]) \ run[w].left :
                                 marks'[i][p] = AutoMark(answers[i], p)
                            /\ run[w].pc = "finishing" =>
                                 /\ run[w].left = {}
                                 /\ score[i] = Finalised(AutoScore(answers[i]), Null)
      BY <2>2 DEF RunsRight, Untouched, HasManual, subVars
    <3>1. run[w].id \in SubmissionIds /\ run[w].id # id
      BY <2>7, RunShape DEF Shapes
    <3>2. Untouched(run[w].id) /\ marks'[run[w].id] = marks[run[w].id]
      BY <2>6, <2>7, <3>1 DEF Untouched
    <3> QED
      BY <3>2 DEF RunsRight
  <2>14. CompletedScoreIsRight'
    BY <2>2, <2>6, <2>7 DEF CompletedScoreIsRight, HasManual, subVars
  <2> QED
    BY <2>8, <2>9, <2>10, <2>11, <2>12, <2>13, <2>14
<1> QED
  BY <1>1, <1>2

LEMMA FinaliseKeeps ==
  ASSUME GradingInv, NEW t \in Teachers, FinaliseManual(t)
  PROVE  GradingInv'
<1> USE DEF GradingInv
<1> DEFINE id == call[t].id
           auto == OrZero(call[t].auto)
           manual == ManualScore(call[t].grades)
<1>0. call[t] # Off /\ id \in SubmissionIds /\ gradedBy[id] # {}
  BY DEF FinaliseManual, Off, Shapes, FinalisersGraded
<1>1. /\ score' = [score EXCEPT ![id] =
                     [auto |-> auto, manual |-> manual, total |-> auto + OrZero(manual)]]
      /\ early' = IF call[t].auto = Null THEN early \cup {id} ELSE early
      /\ call' = [call EXCEPT ![t] = Off]
      /\ UNCHANGED <<subVars, marks, gradedBy, run>>
  BY DEF FinaliseManual, Finalised
<1>2. \/ id \in early'
      \/ /\ call[t].auto # Null /\ auto = call[t].auto /\ early' = early
         /\ id \notin early \cup lateWrites => Submitted(id) /\ auto = AutoScore(answers[id])
  BY <1>0, <1>1 DEF OrZero, CallsRight
<1>3. /\ score' = [i \in SubmissionIds |->
                    [auto |-> score'[i].auto, manual |-> score'[i].manual,
                     total |-> score'[i].total]]
      /\ \A i \in SubmissionIds :
           score'[i] = IF i = id
                       THEN [auto |-> auto, manual |-> manual, total |-> auto + OrZero(manual)]
                       ELSE score[i]
  BY <1>0, <1>1, ScoreUpdate
<1>4. /\ call' = [u \in Teachers |-> call'[u]]
      /\ \A u \in Teachers : call'[u] = call[u] \/ call'[u] = Off
  <2>1. /\ call' = [u \in Teachers |-> call'[u]]
        /\ call'[t] = Off
        /\ \A u \in Teachers : u # t => call'[u] = call[u]
    BY <1>1, CallUpdate
  <2> QED
    BY <2>1
<1>5. early \subseteq early' /\ lateWrites' = lateWrites
  BY <1>1 DEF subVars
<1> HIDE DEF id, auto, manual
<1>6. Shapes'
  <2>1. QueueInv'
    BY <1>1, QueueUnchanged DEF Shapes
  <2> QED
    BY <1>1, <1>3, <1>4, <2>1 DEF Shapes
<1>7. RunsSeeAnswers' /\ MarksWithinQuestion'
  BY <1>1 DEF RunsSeeAnswers, MarksWithinQuestion, subVars, Submitted, Live
<1>8. CallsRight'
  BY <1>1, <1>4, <1>5 DEF CallsRight, subVars, Submitted, Live
<1>9. FinalisersGraded'
  BY <1>1, <1>4 DEF FinalisersGraded, Off
<1>10. AutoScoreRight'
  BY <1>0, <1>1, <1>2, <1>3, <1>5 DEF AutoScoreRight, subVars, Submitted, Live
<1>11. TotalIsSum'
  <2> SUFFICES ASSUME NEW i \in SubmissionIds, i \notin early, i \notin lateWrites,
                      score'[i].total # Null
               PROVE  score'[i].total = score'[i].auto + OrZero(score'[i].manual)
    BY <1>5 DEF TotalIsSum
  <2>1. CASE i = id
    BY <1>3, <2>1
  <2>2. CASE i # id
    BY <1>3, <2>2 DEF TotalIsSum
  <2> QED
    BY <2>1, <2>2
<1>12. \A i \in SubmissionIds : gradedBy[i] = {} => score'[i] = score[i]
  BY <1>0, <1>3
<1>13. RunsRight'
  <2>1. \A w \in Workers : run[w] # Vacant => run[w].id \in SubmissionIds
    BY RunShape DEF Shapes
  <2> QED
    BY <1>1, <1>12, <2>1 DEF RunsRight, Untouched, HasManual, subVars
<1>14. CompletedScoreIsRight'
  BY <1>1, <1>12 DEF CompletedScoreIsRight, HasManual, subVars
<1> QED
  BY <1>6, <1>7, <1>8, <1>9, <1>10, <1>11, <1>13, <1>14

LEMMA TeacherKeeps ==
  ASSUME GradingInv, NEW t \in Teachers,
         \/ \E id \in SubmissionIds, grades \in Grades : GradeManualAnswers(t, id, grades)
         \/ MarkAnswers(t) \/ FinaliseManual(t) \/ AbortCall(t)
  PROVE  GradingInv'
<1>0. aborts \in Nat
  BY DEF GradingInv, Shapes, QueueInv, TypeOK
<1>1. ASSUME NEW id \in SubmissionIds, NEW grades \in Grades, GradeManualAnswers(t, id, grades)
      PROVE  GradingInv'
  <2> DEFINE c == [pc |-> "marking", id |-> id, auto |-> score[id].auto, grades |-> grades]
  <2>1. /\ call' = [call EXCEPT ![t] = c] /\ Graded(grades) # {}
        /\ UNCHANGED <<studentVars, queue, aborts, marks, gradedBy, score, run, early>>
    BY <1>1 DEF GradeManualAnswers, subVars, studentVars
  <2> QED
    BY <1>0, <2>1, TeacherQuiet
<1>2. CASE AbortCall(t)
  <2>1. aborts' = aborts + 1
    BY <1>2 DEF AbortCall
  <2>2. aborts' \in Nat
    BY <1>0, <2>1
  <2>3. /\ call' = [call EXCEPT ![t] = Off]
        /\ UNCHANGED <<studentVars, queue, marks, gradedBy, score, run, early>>
    BY <1>2 DEF AbortCall
  <2> QED
    BY <2>2, <2>3, TeacherQuiet
<1> QED
  BY <1>1, <1>2, MarkKeeps, FinaliseKeeps

--------------------------------------------------------------------------------
LEMMA InitGradingInv == GradingInit => GradingInv
<1> SUFFICES ASSUME GradingInit PROVE GradingInv
  OBVIOUS
<1>1. QueueInv
  BY InitType DEF GradingInit, SubInit, QueueInv, EnqueuersCommitted, QueuedOnlySubmitted, Idle
<1>2. Shapes
  BY <1>1 DEF GradingInit, Shapes, MarkSheet, Run
<1> QED
  BY <1>2, GradingAssumption
     DEF GradingInit, SubInit, GradingInv, RunsSeeAnswers, MarksWithinQuestion, AutoScoreRight,
         CallsRight, TotalIsSum, FinalisersGraded, RunsRight, CompletedScoreIsRight, Off

LEMMA NextGradingInv == GradingInv /\ [GradingNext]_vars => GradingInv'
<1> SUFFICES ASSUME GradingInv, [GradingNext]_vars PROVE GradingInv'
  OBVIOUS
<1>1. CASE UNCHANGED vars
  <2>1. aborts' \in Nat /\ run' \in [Workers -> Run] /\ queue' \in [SubmissionIds -> JobState]
    BY <1>1 DEF vars, subVars, gradeVars, GradingInv, Shapes, QueueInv, TypeOK
  <2>2. \A id \in SubmissionIds : queue'[id] # "none" => Submitted(id)
    BY <1>1 DEF vars, subVars, GradingInv, Shapes, QueueInv, QueuedOnlySubmitted
  <2> QED
    BY <1>1, <2>1, <2>2, RunStep DEF vars, subVars, gradeVars, studentVars
<1>2. CASE SubNext /\ UNCHANGED gradeVars
  BY <1>2, StudentKeeps
<1>3. ASSUME NEW w \in Workers,
             \/ \E id \in SubmissionIds : TakeJob(w, id)
             \/ ProcessJob(w) \/ FailJob(w) \/ LoseLock(w)
      PROVE  GradingInv'
  BY <1>3, JobKeeps, AwardKeeps, StoreKeeps DEF ProcessJob
<1> QED
  BY <1>1, <1>2, <1>3, EvictKeeps, TeacherKeeps DEF GradingNext

LEMMA GradingInvariant == GradingSpec => []GradingInv
<1> QED
  BY InitGradingInv, NextGradingInv, PTL DEF GradingSpec

\* No mark ever exceeds that of its question, by whichever way it is written.
THEOREM MarksWithinQuestionHolds == GradingSpec => []MarksWithinQuestion
<1>1. GradingInv => MarksWithinQuestion
  BY DEF GradingInv
<1> QED
  BY <1>1, GradingInvariant, PTL

\* Auto-grading is idempotent under any number of failures, stalls, evictions
\* and overlapping deliveries of a job.
THEOREM CompletedScoreIsRightHolds == GradingSpec => []CompletedScoreIsRight
<1>1. GradingInv => CompletedScoreIsRight
  BY DEF GradingInv
<1> QED
  BY <1>1, GradingInvariant, PTL

\* The total stays the sum of its parts, whatever job and teacher overlap.
THEOREM TotalIsSumHolds == GradingSpec => []TotalIsSum
<1>1. GradingInv => TotalIsSum
  BY DEF GradingInv
<1> QED
  BY <1>1, GradingInvariant, PTL

--------------------------------------------------------------------------------
(***************************************************************************)
(* The sums of Grading are naturals.  The induction is over the cardinality *)
(* of a set, in the form of a least counterexample.                        *)
(***************************************************************************)

\* A set of naturals that is not empty has a least member.
LEMMA LeastNatural ==
  ASSUME NEW T \in SUBSET Nat, T # {}
  PROVE  \E n \in T : \A m \in T : n <= m
<1>1. \E n \in T : \A m \in T : ~(<<m, n>> \in OpToRel(<, Nat))
  BY NatLessThanWellFounded, WFMin
<1>2. PICK n \in T : \A m \in T : ~(<<m, n>> \in OpToRel(<, Nat))
  BY <1>1
<1>3. ASSUME NEW m \in T
      PROVE  n <= m
  <2>1. <<m, n>> \in Nat \X Nat /\ ~(<<m, n>> \in OpToRel(<, Nat))
    BY <1>2
  <2>2. ~(m < n)
    BY <2>1 DEF OpToRel
  <2> QED
    BY <2>2
<1> QED
  BY <1>3

\* MapThenSumSet takes any member of the set, and adds its number to the sum of
\* the others; iter holds the sums of all parts of S.
AnyOf(s) == CHOOSE x \in s : TRUE
SumsUp(g, S, iter) ==
  iter = [s \in SUBSET S |-> IF s = {} THEN 0 ELSE g[AnyOf(s)] + iter[s \ {AnyOf(s)}]]

\* What is left is smaller, which is what the next two lemmas descend along.
LEMMA Smaller ==
  ASSUME NEW S, IsFiniteSet(S), NEW s \in SUBSET S, s # {}
  PROVE  /\ AnyOf(s) \in s /\ s \ {AnyOf(s)} \in SUBSET S
         /\ Cardinality(s) \in Nat /\ Cardinality(s \ {AnyOf(s)}) \in Nat
         /\ Cardinality(s \ {AnyOf(s)}) < Cardinality(s)
<1>1. AnyOf(s) \in s
  BY DEF AnyOf
<1>2. IsFiniteSet(s)
  BY FS_Subset
<1>3. Cardinality(s) \in Nat /\ IsFiniteSet(s \ {AnyOf(s)}) /\ Cardinality(s \ {AnyOf(s)}) = Cardinality(s) - 1
  BY <1>1, <1>2, FS_CardinalityType, FS_RemoveElement
<1>4. Cardinality(s \ {AnyOf(s)}) \in Nat
  BY <1>3, FS_CardinalityType
<1> QED
  BY <1>1, <1>3, <1>4

\* Of the sets whose sum were no natural take one of the least cardinality: the
\* sum of what is left of it would be one already.
LEMMA SumsNatural ==
  ASSUME NEW S, IsFiniteSet(S), NEW g \in [S -> Nat], NEW iter, SumsUp(g, S, iter)
  PROVE  \A s \in SUBSET S : iter[s] \in Nat
<1> DEFINE Bad == {n \in Nat : \E s \in SUBSET S : Cardinality(s) = n /\ iter[s] \notin Nat}
<1>1. CASE Bad = {}
  BY <1>1, FS_Subset, FS_CardinalityType
<1>2. CASE Bad # {}
  <2>1. PICK n \in Bad : \A m \in Bad : n <= m
    BY <1>2, LeastNatural
  <2>2. PICK s \in SUBSET S : Cardinality(s) = n /\ iter[s] \notin Nat
    BY <2>1
  <2>3. s # {}
    BY <2>2 DEF SumsUp
  <2>4. iter[s] = g[AnyOf(s)] + iter[s \ {AnyOf(s)}]
    BY <2>3 DEF SumsUp
  <2>5. iter[s \ {AnyOf(s)}] \in Nat
    BY <2>1, <2>2, <2>3, Smaller
  <2>6. g[AnyOf(s)] \in Nat
    BY <2>3, Smaller
  <2> QED
    BY <2>2, <2>4, <2>5, <2>6
<1> QED
  BY <1>1, <1>2

\* The recursion has a solution: sums that are right for the sets of at most n
\* members give, by one unfolding, sums that are right for n + 1.
LEMMA SumsExist ==
  ASSUME NEW S, IsFiniteSet(S), NEW g \in [S -> Nat]
  PROVE  \E iter : SumsUp(g, S, iter)
<1> DEFINE UpTo(F, n) == \A s \in SUBSET S : Cardinality(s) <= n =>
             F[s] = IF s = {} THEN 0 ELSE g[AnyOf(s)] + F[s \ {AnyOf(s)}]
           Bad == {n \in Nat : \A F \in [SUBSET S -> Nat] : ~UpTo(F, n)}
<1>1. ASSUME Bad # {}
      PROVE  FALSE
  <2>1. PICK n \in Bad : \A m \in Bad : n <= m
    BY <1>1, LeastNatural
  <2>2. CASE n = 0
    <3> DEFINE F == [s \in SUBSET S |-> 0]
    <3>1. \A s \in SUBSET S : Cardinality(s) <= 0 => s = {}
      BY FS_Subset, FS_CardinalityType, FS_EmptySet
    <3>2. UpTo(F, n)
      BY <2>2, <3>1
    <3>3. F \in [SUBSET S -> Nat]
      OBVIOUS
    <3> QED
      BY <2>1, <3>2, <3>3
  <2>3. CASE n # 0
    <3>0. n \in Nat
      OBVIOUS
    <3>1. n - 1 \in Nat /\ n - 1 \notin Bad
      <4> HIDE DEF Bad
      <4> QED
        BY <2>1, <2>3, <3>0
    <3>2. PICK F \in [SUBSET S -> Nat] : UpTo(F, n - 1)
      BY <3>1
    <3> DEFINE G == [s \in SUBSET S |-> IF s = {} THEN 0 ELSE g[AnyOf(s)] + F[s \ {AnyOf(s)}]]
    <3>3. G \in [SUBSET S -> Nat]
      <4> SUFFICES ASSUME NEW s \in SUBSET S, s # {}
                   PROVE  g[AnyOf(s)] + F[s \ {AnyOf(s)}] \in Nat
        OBVIOUS
      <4>1. AnyOf(s) \in S /\ s \ {AnyOf(s)} \in SUBSET S
        BY Smaller
      <4>2. g[AnyOf(s)] \in Nat /\ F[s \ {AnyOf(s)}] \in Nat
        BY <4>1
      <4> QED
        BY <4>2
    <3>4. \A s \in SUBSET S : Cardinality(s) <= n - 1 => G[s] = F[s]
      BY <3>2
    <3>5. UpTo(G, n)
      <4> SUFFICES ASSUME NEW s \in SUBSET S, Cardinality(s) <= n, s # {}
                   PROVE  F[s \ {AnyOf(s)}] = G[s \ {AnyOf(s)}]
        OBVIOUS
      <4> QED
        <5>1. s \ {AnyOf(s)} \in SUBSET S /\ Cardinality(s \ {AnyOf(s)}) <= n - 1
          BY <3>0, Smaller
        <5> QED
          BY <3>4, <5>1
    <3> QED
      BY <2>1, <3>3, <3>5
  <2> QED
    BY <2>2, <2>3
<1>2. Cardinality(S) \in Nat
  BY FS_CardinalityType
<1>3. PICK F \in [SUBSET S -> Nat] : UpTo(F, Cardinality(S))
  BY <1>1, <1>2
<1>4. \A s \in SUBSET S : Cardinality(s) <= Cardinality(S)
  BY FS_Subset
<1>5. \A s \in SUBSET S : F[s] = IF s = {} THEN 0 ELSE g[AnyOf(s)] + F[s \ {AnyOf(s)}]
  BY <1>3, <1>4
<1>6. SumsUp(g, S, F)
  BY <1>5 DEF SumsUp
<1> QED
  BY <1>6


\* An auto score is a natural.
LEMMA AutoScoreNatural ==
  ASSUME NEW sheet
  PROVE  AutoScore(sheet) \in Nat
<1> DEFINE S == Answered(sheet) \cap AutoQuestions
           g == [q \in S |-> AutoMark(sheet, q)]
<1>1. S \subseteq Questions
  BY DEF Answered
<1>2. IsFiniteSet(S)
  BY <1>1, FS_Subset, GradingAssumption
<1>3. \A q \in S : AutoMark(sheet, q) \in Nat
  BY <1>1, GradingAssumption DEF AutoMark
<1>4. g \in [S -> Nat]
  BY <1>3
<1>5. PICK iter : SumsUp(g, S, iter)
  BY <1>2, <1>4, SumsExist
<1>6. \A s \in SUBSET S : s # {} => g[AnyOf(s)] = AutoMark(sheet, AnyOf(s))
  BY DEF AnyOf
<1> HIDE DEF g, S
<1> DEFINE the == CHOOSE f : f = [s \in SUBSET S |->
             IF s = {} THEN 0
             ELSE AutoMark(sheet, CHOOSE x \in s : TRUE) + f[s \ {CHOOSE x \in s : TRUE}]]
<1>7. iter = [s \in SUBSET S |->
                IF s = {} THEN 0
                ELSE AutoMark(sheet, CHOOSE x \in s : TRUE) + iter[s \ {CHOOSE x \in s : TRUE}]]
  BY <1>5, <1>6 DEF SumsUp, AnyOf
<1>8. the = [s \in SUBSET S |->
               IF s = {} THEN 0
               ELSE AutoMark(sheet, CHOOSE x \in s : TRUE) + the[s \ {CHOOSE x \in s : TRUE}]]
  BY <1>7
<1>9. the[S] \in Nat
  <2> HIDE DEF the
  <2>1. SumsUp(g, S, the)
    BY <1>6, <1>8 DEF SumsUp, AnyOf
  <2> QED
    BY <1>2, <1>4, <2>1, SumsNatural
<1>10. AutoScore(sheet) = the[S]
  BY Zenon DEF AutoScore, MapThenSumSet, MapThenFoldSet, S
<1> QED
  BY <1>9, <1>10

\* So is the score of a teacher's grades.
LEMMA ManualScoreNatural ==
  ASSUME NEW grades \in Grades
  PROVE  ManualScore(grades) \in Nat
<1> DEFINE S == Graded(grades)
           g == [q \in S |-> grades[q]]
<1>1. S \subseteq Questions
  BY DEF Graded
<1>2. IsFiniteSet(S)
  BY <1>1, FS_Subset, GradingAssumption
<1>3. \A q \in S : grades[q] \in Nat
  BY GradingAssumption DEF Graded, Grades
<1>4. g \in [S -> Nat]
  BY <1>3
<1>5. PICK iter : SumsUp(g, S, iter)
  BY <1>2, <1>4, SumsExist
<1>6. \A s \in SUBSET S : s # {} => g[AnyOf(s)] = grades[AnyOf(s)]
  BY DEF AnyOf
<1> HIDE DEF g, S
<1> DEFINE the == CHOOSE f : f = [s \in SUBSET S |->
             IF s = {} THEN 0
             ELSE grades[CHOOSE x \in s : TRUE] + f[s \ {CHOOSE x \in s : TRUE}]]
<1>7. iter = [s \in SUBSET S |->
                IF s = {} THEN 0
                ELSE grades[CHOOSE x \in s : TRUE] + iter[s \ {CHOOSE x \in s : TRUE}]]
  BY <1>5, <1>6 DEF SumsUp, AnyOf
<1>8. the = [s \in SUBSET S |->
               IF s = {} THEN 0
               ELSE grades[CHOOSE x \in s : TRUE] + the[s \ {CHOOSE x \in s : TRUE}]]
  BY <1>7
<1>9. the[S] \in Nat
  <2> HIDE DEF the
  <2>1. SumsUp(g, S, the)
    BY <1>6, <1>8 DEF SumsUp, AnyOf
  <2> QED
    BY <1>2, <1>4, <2>1, SumsNatural
<1>10. ManualScore(grades) = the[S]
  BY Zenon DEF ManualScore, MapThenSumSet, MapThenFoldSet, S
<1> QED
  BY <1>9, <1>10

--------------------------------------------------------------------------------
\* A step of the grading side writes scores that are numbers.
LEMMA StoreTypes ==
  ASSUME GradingInv, GradingTypeOK, NEW w \in Workers, StoreScore(w)
  PROVE  score' \in [SubmissionIds -> Score]
<1>1. PICK id \in SubmissionIds : id = run[w].id
  <2>1. run[w] # Vacant
    BY DEF StoreScore, Vacant
  <2> QED
    BY <2>1, RunShape DEF GradingTypeOK
<1>2. PICK auto \in Nat : auto = AutoScore(run[w].seen)
  BY AutoScoreNatural
<1>3. score[id] \in Score
  BY DEF GradingTypeOK
<1>4. [score[id] EXCEPT !.auto = auto] \in Score
  BY <1>3 DEF Score
<1>5. Finalised(auto, Null) \in Score
  BY DEF Score, Finalised, OrZero
<1>6. score' \in {[score EXCEPT ![id] = [score[id] EXCEPT !.auto = auto]],
                  [score EXCEPT ![id] = Finalised(auto, Null)]}
  BY <1>1, <1>2 DEF StoreScore
<1> QED
  BY <1>4, <1>5, <1>6 DEF GradingTypeOK

LEMMA FinaliseTypes ==
  ASSUME GradingInv, GradingTypeOK, NEW t \in Teachers, FinaliseManual(t)
  PROVE  /\ score' \in [SubmissionIds -> Score]
         /\ early' \subseteq SubmissionIds
         /\ \A id \in SubmissionIds : score'[id] = score[id] \/ score'[id].manual # Null
<1>1. call[t] # Off
  BY DEF FinaliseManual, Off
<1>2. call[t].id \in SubmissionIds /\ call[t].grades \in Grades /\ call[t].auto \in Nat \cup {Null}
  BY <1>1 DEF GradingTypeOK, Call
<1>3. PICK auto \in Nat : auto = OrZero(call[t].auto)
  BY <1>2 DEF OrZero
<1>4. PICK manual \in Nat : manual = ManualScore(call[t].grades)
  BY <1>2, ManualScoreNatural
<1>5. manual # Null
  BY GradingAssumption
<1>6. Finalised(auto, manual) \in Score /\ Finalised(auto, manual).manual = manual
  BY <1>5 DEF Score, Finalised, OrZero
<1>7. score' = [score EXCEPT ![call[t].id] = Finalised(auto, manual)]
  BY <1>3, <1>4 DEF FinaliseManual
<1>8. early' \subseteq SubmissionIds
  BY <1>2 DEF FinaliseManual, GradingTypeOK
<1> QED
  BY <1>2, <1>5, <1>6, <1>7, <1>8 DEF GradingTypeOK

\* What a run does to the job table.
LEMMA JobTypes ==
  ASSUME GradingTypeOK, NEW w \in Workers,
         \/ \E id \in SubmissionIds : TakeJob(w, id)
         \/ CompleteJob(w) \/ FailJob(w) \/ LoseLock(w)
  PROVE  /\ holder' \in [SubmissionIds -> Workers \cup {Null}]
         /\ tries' \in [SubmissionIds -> Nat] /\ stalls' \in [SubmissionIds -> Nat]
         /\ UNCHANGED <<score, call, early>>
<1>1. CASE \E id \in SubmissionIds : TakeJob(w, id)
  BY <1>1 DEF TakeJob, GradingTypeOK
<1>2. CASE CompleteJob(w)
  BY <1>2 DEF CompleteJob, GradingTypeOK
<1>3. CASE FailJob(w)
  <2>1. tries' \in [SubmissionIds -> Nat]
    BY <1>3 DEF FailJob, GradingTypeOK
  <2> QED
    BY <1>3, <2>1 DEF FailJob, GradingTypeOK
<1>4. CASE LoseLock(w)
  <2>0. stalls' = [stalls EXCEPT ![run[w].id] = stalls[run[w].id] + 1]
    BY <1>4 DEF LoseLock
  <2>1. stalls' \in [SubmissionIds -> Nat]
    <3>1. run[w].id \in SubmissionIds
      BY <1>4, RunShape DEF LoseLock, GradingTypeOK
    <3>2. stalls \in [SubmissionIds -> Nat] /\ stalls[run[w].id] + 1 \in Nat
      BY <3>1 DEF GradingTypeOK
    <3> QED
      BY <2>0, <3>1, <3>2
  <2>2. holder' = [holder EXCEPT ![run[w].id] = Null] /\ UNCHANGED <<tries, score, call, early>>
    BY <1>4 DEF LoseLock
  <2>3. holder' \in [SubmissionIds -> Workers \cup {Null}]
    BY <2>2 DEF GradingTypeOK
  <2> QED
    BY <2>1, <2>2, <2>3 DEF GradingTypeOK
<1> QED
  BY <1>1, <1>2, <1>3, <1>4

\* A teacher's request keeps its shape.
LEMMA CallTypes ==
  ASSUME GradingTypeOK, NEW t \in Teachers,
         \/ \E id \in SubmissionIds, grades \in Grades : GradeManualAnswers(t, id, grades)
         \/ MarkAnswers(t) \/ FinaliseManual(t) \/ AbortCall(t)
  PROVE  call' \in [Teachers -> Call]
<1>0. Off \in Call
  BY DEF Call
<1>1. ASSUME NEW id \in SubmissionIds, NEW grades \in Grades, GradeManualAnswers(t, id, grades)
      PROVE  call' \in [Teachers -> Call]
  <2>1. score[id].auto \in Nat \cup {Null}
    BY DEF GradingTypeOK, Score
  <2>2. [pc |-> "marking", id |-> id, auto |-> score[id].auto, grades |-> grades] \in Call
    BY <2>1 DEF Call
  <2> QED
    BY <1>1, <2>2 DEF GradeManualAnswers, GradingTypeOK
<1>2. CASE MarkAnswers(t)
  <2>1. call[t] \in [pc : {"marking", "finalising"}, id : SubmissionIds, auto : Nat \cup {Null}, grades : Grades]
    BY <1>2 DEF MarkAnswers, GradingTypeOK, Call, Off
  <2>2. [call[t] EXCEPT !.pc = "finalising"] \in Call
    BY <2>1 DEF Call
  <2> QED
    BY <1>0, <1>2, <2>2 DEF MarkAnswers, GradingTypeOK
<1>3. CASE FinaliseManual(t) \/ AbortCall(t)
  BY <1>0, <1>3 DEF FinaliseManual, AbortCall, GradingTypeOK
<1> QED
  BY <1>1, <1>2, <1>3

LEMMA StepGradingType == GradingInv /\ GradingTypeOK /\ [GradingNext]_vars => GradingTypeOK'
<1> SUFFICES ASSUME GradingInv, GradingTypeOK, [GradingNext]_vars
             PROVE  GradingTypeOK'
  OBVIOUS
<1>1. GradingInv'
  BY NextGradingInv
<1>2. /\ TypeOK' /\ marks' \in [SubmissionIds -> MarkSheet]
      /\ gradedBy' \in [SubmissionIds -> SUBSET Questions] /\ run' \in [Workers -> Run]
  BY <1>1 DEF GradingInv, Shapes, QueueInv
<1>3. ASSUME UNCHANGED gradeVars
      PROVE  GradingTypeOK'
  BY <1>2, <1>3 DEF GradingTypeOK, gradeVars
<1>4. ASSUME NEW w \in Workers,
             \/ \E id \in SubmissionIds : TakeJob(w, id)
             \/ CompleteJob(w) \/ FailJob(w) \/ LoseLock(w)
      PROVE  GradingTypeOK'
  BY <1>2, <1>4, JobTypes DEF GradingTypeOK
<1>5. ASSUME NEW w \in Workers, NEW q \in Questions, AwardMark(w, q)
      PROVE  GradingTypeOK'
  BY <1>2, <1>5 DEF GradingTypeOK, AwardMark
<1>6. ASSUME NEW w \in Workers, StoreScore(w)
      PROVE  GradingTypeOK'
  <2>1. score' \in [SubmissionIds -> Score]
    BY <1>6, StoreTypes
  <2> QED
    BY <1>2, <1>6, <2>1 DEF GradingTypeOK, StoreScore
<1>7. ASSUME NEW id \in SubmissionIds, EvictJob(id)
      PROVE  GradingTypeOK'
  BY <1>2, <1>7 DEF GradingTypeOK, EvictJob
<1>8. ASSUME NEW t \in Teachers,
             \/ \E id \in SubmissionIds, grades \in Grades : GradeManualAnswers(t, id, grades)
             \/ MarkAnswers(t) \/ FinaliseManual(t) \/ AbortCall(t)
      PROVE  GradingTypeOK'
  <2>1. call' \in [Teachers -> Call]
    BY <1>8, CallTypes
  <2>2. UNCHANGED <<holder, tries, stalls>>
    BY <1>8 DEF GradeManualAnswers, MarkAnswers, FinaliseManual, AbortCall
  <2>3. score' \in [SubmissionIds -> Score] /\ early' \subseteq SubmissionIds
    <3>1. CASE FinaliseManual(t)
      BY <3>1, FinaliseTypes
    <3>2. CASE UNCHANGED <<score, early>>
      BY <3>2 DEF GradingTypeOK
    <3> QED
      BY <1>8, <3>1, <3>2 DEF GradeManualAnswers, MarkAnswers, AbortCall
  <2> QED
    BY <1>2, <2>1, <2>2, <2>3 DEF GradingTypeOK
<1>9. ASSUME NEW w \in Workers,
             \/ \E id \in SubmissionIds : TakeJob(w, id)
             \/ ProcessJob(w) \/ FailJob(w) \/ LoseLock(w)
      PROVE  GradingTypeOK'
  BY <1>4, <1>5, <1>6, <1>9 DEF ProcessJob
<1>10. CASE GradingNext
  BY <1>3, <1>7, <1>8, <1>9, <1>10 DEF GradingNext
<1>11. CASE UNCHANGED vars
  BY <1>3, <1>11 DEF vars, gradeVars
<1> QED
  BY <1>10, <1>11

\* The types of the grading side, sums included: a score is a natural or NULL,
\* for questions of any number and any marks.
THEOREM GradingTypeCorrect == GradingSpec => []GradingTypeOK
<1>1. GradingInit => GradingTypeOK
  <2> SUFFICES ASSUME GradingInit
               PROVE  GradingTypeOK
    OBVIOUS
  <2>1. TypeOK
    BY InitType DEF GradingInit
  <2> QED
    BY <2>1 DEF GradingInit, GradingTypeOK, MarkSheet, Score, Run, Call
<1> QED
  BY <1>1, StepGradingType, GradingInvariant, PTL DEF GradingSpec

\* A run that writes a score read the answers that are
\* stored, sees that some are the teacher's, and leaves his score alone; another
\* request of a teacher replaces it by a number.
THEOREM ManualScoreSurvivesHolds == GradingSpec => ManualScoreSurvives
<1> DEFINE Kept == \A id \in SubmissionIds :
             (score[id].manual # Null /\ HasManual(answers[id]) /\ id \notin lateWrites)
               => score'[id].manual # Null
<1>1. GradingInv /\ GradingTypeOK /\ [GradingNext]_vars => [Kept]_vars
  <2> SUFFICES ASSUME GradingInv, GradingTypeOK, GradingNext, NEW id \in SubmissionIds,
                      score[id].manual # Null, HasManual(answers[id]), id \notin lateWrites
               PROVE  score'[id].manual # Null
    BY DEF Kept
  <2>1. CASE score' = score
    BY <2>1
  <2>2. ASSUME NEW w \in Workers, StoreScore(w)
        PROVE  score'[id].manual # Null
    <3>1. run[w] # Vacant
      BY <2>2 DEF StoreScore, Vacant
    <3>2. CASE run[w].id = id
      <4>1. run[w].seen = answers[id]
        BY <3>1, <3>2 DEF GradingInv, RunsSeeAnswers
      <4>2. score' = [score EXCEPT ![id] = [score[id] EXCEPT !.auto = AutoScore(run[w].seen)]]
        BY <2>2, <3>2, <4>1 DEF StoreScore
      <4>3. score[id] \in Score
        BY DEF GradingTypeOK
      <4> QED
        BY <4>2, <4>3 DEF GradingTypeOK, Score
    <3>3. CASE run[w].id # id
      BY <2>2, <3>3 DEF StoreScore, GradingTypeOK
    <3> QED
      BY <3>2, <3>3
  <2>3. ASSUME NEW t \in Teachers, FinaliseManual(t)
        PROVE  score'[id].manual # Null
    BY <2>3, FinaliseTypes
  <2> QED
    BY <2>1, <2>2, <2>3 DEF GradingNext, ProcessJob, gradeVars, TakeJob, AwardMark, CompleteJob,
       FailJob, LoseLock, EvictJob, GradeManualAnswers, MarkAnswers, AbortCall
<1>2. GradingSpec => []GradingTypeOK
  BY GradingTypeCorrect
<1> QED
  BY <1>1, <1>2, GradingInvariant, PTL DEF GradingSpec, ManualScoreSurvives

--------------------------------------------------------------------------------
(***************************************************************************)
(* Approval.                                                               *)
(***************************************************************************)

\* What the requests in flight may rely on: one that is about to open the
\* assessment directly found that no approval is needed, and one that is about
\* to release it found it approved, which leaves an entry in the log.
Entitled ==
  \A h \in Staff :
    /\ work[h].pc = "opening" => ~(exam /\ required)
    /\ work[h].pc = "releasing" => Logged("APPROVED")

\* The inductive invariant.
ApprovalInv ==
  /\ ApprovalTypeOK
  /\ Entitled
  /\ LogShowsStatus
  /\ TrailKeepsAssessment
  /\ NeverPublishedUnapproved

\* An appended action is the last one, and nothing logged before is lost.
LEMMA AppendLogs ==
  ASSUME NEW l \in Seq(ApprovalAction), NEW action \in ApprovalAction
  PROVE  /\ Append(l, action) \in Seq(ApprovalAction)
         /\ Append(l, action) # <<>>
         /\ Len(Append(l, action)) = Len(l) + 1
         /\ Append(l, action)[Len(Append(l, action))] = action
         /\ \A i \in DOMAIN l : i \in DOMAIN Append(l, action) /\ Append(l, action)[i] = l[i]
         /\ Len(l) + 1 \in DOMAIN Append(l, action)
OBVIOUS

\* Every piece of work is done in a record with a pc.
LEMMA WorkSteps ==
  /\ Free \in Work
  /\ \A p \in {"adding", "publishing", "opening", "editing", "removing", "releasing"} :
       [pc |-> p] \in Work
  /\ \A p \in {"deciding", "notifying"}, action \in ApprovalAction :
       [pc |-> p, action |-> action] \in Work
BY DEF Work, Free

LEMMA InitApprovalInv == ApprovalInit => ApprovalInv
<1> SUFFICES ASSUME ApprovalInit PROVE ApprovalInv
  OBVIOUS
<1>1. ApprovalTypeOK
  <2>1. log \in Seq(ApprovalAction)
    BY DEF ApprovalInit
  <2>2. {notices, unheard} \subseteq [ApprovalAction -> Nat] /\ work \in [Staff -> Work]
    BY WorkSteps DEF ApprovalInit
  <2> QED
    BY <2>1, <2>2 DEF ApprovalInit, ApprovalTypeOK
<1>2. Entitled
  BY DEF ApprovalInit, Entitled, Free
<1>3. LogShowsStatus /\ TrailKeepsAssessment /\ NeverPublishedUnapproved
  BY DEF ApprovalInit, LogShowsStatus, TrailKeepsAssessment, NeverPublishedUnapproved
<1> QED
  BY <1>1, <1>2, <1>3 DEF ApprovalInv

\* Steps that leave the log alone, and the status or move it where the
\* invariant allows, need only their effect on the requests checked.
LEMMA QuietStep ==
  ASSUME ApprovalInv, ApprovalTypeOK', Entitled',
         UNCHANGED <<exam, required, log>>,
         \/ status' = status
         \/ log = <<>> /\ status' \in {"ABSENT", "DRAFT", "DELETED"}
         \/ status' = "PUBLISHED" /\ Exists /\ (exam /\ required => Logged("APPROVED"))
  PROVE  ApprovalInv'
<1>1. LogShowsStatus'
  BY DEF ApprovalInv, LogShowsStatus, StatusAfter
<1>2. TrailKeepsAssessment'
  BY DEF ApprovalInv, TrailKeepsAssessment, Exists, Status
<1>3. NeverPublishedUnapproved'
  BY DEF ApprovalInv, NeverPublishedUnapproved, Logged
<1> QED
  BY <1>1, <1>2, <1>3 DEF ApprovalInv

LEMMA NextApprovalInv == ApprovalInv /\ [ApprovalNext]_approvalVars => ApprovalInv'
<1> SUFFICES ASSUME ApprovalInv, [ApprovalNext]_approvalVars PROVE ApprovalInv'
  OBVIOUS
<1> USE DEF ApprovalInv
<1>1. CASE UNCHANGED approvalVars
  <2>1. ApprovalTypeOK' /\ Entitled'
    BY <1>1 DEF approvalVars, sent, settings, ApprovalTypeOK, Entitled, Logged
  <2> QED
    BY <1>1, <2>1, QuietStep DEF approvalVars, sent, settings
<1>2. ASSUME NEW h \in Staff, Teach(h) \/ Delete(h) \/ Review(h) \/ Die(h)
      PROVE  ApprovalInv'
  <2> USE DEF settings, sent
  <2>1. CASE CreateAssessment(h)
    <3>1. log = <<>>
      BY <2>1 DEF CreateAssessment, TrailKeepsAssessment, Exists, Status
    <3>2. ApprovalTypeOK'
      BY <2>1, WorkSteps DEF CreateAssessment, ApprovalTypeOK, Status
    <3>3. Entitled'
      BY <2>1 DEF CreateAssessment, ApprovalTypeOK, Entitled, Logged
    <3> QED
      BY <2>1, <3>1, <3>2, <3>3, QuietStep DEF CreateAssessment
  <2>2. CASE AddQuestions(h)
    <3>1. ApprovalTypeOK'
      BY <2>2, WorkSteps DEF AddQuestions, Finish, ApprovalTypeOK, Exists
    <3>2. Entitled'
      BY <2>2 DEF AddQuestions, Finish, Free, ApprovalTypeOK, Entitled, Logged
    <3> QED
      BY <2>2, <3>1, <3>2, QuietStep DEF AddQuestions
  <2>3. CASE AssertQuestionsExist(h)
    <3>1. ApprovalTypeOK'
      BY <2>3, WorkSteps DEF AssertQuestionsExist, ApprovalTypeOK, ApprovalAction
    <3>2. Entitled'
      BY <2>3 DEF AssertQuestionsExist, Free, ApprovalTypeOK, Entitled, Logged
    <3> QED
      BY <2>3, <3>1, <3>2, QuietStep DEF AssertQuestionsExist
  <2>4. CASE OpenToStudents(h)
    <3>1. ApprovalTypeOK'
      BY <2>4, WorkSteps DEF OpenToStudents, Finish, ApprovalTypeOK, Status
    <3>2. Entitled'
      BY <2>4 DEF OpenToStudents, Finish, Free, ApprovalTypeOK, Entitled, Logged
    <3>3. ~(exam /\ required)
      BY <2>4 DEF OpenToStudents, Entitled
    <3> QED
      BY <2>4, <3>1, <3>2, <3>3, QuietStep DEF OpenToStudents
  <2>5. CASE Release(h)
    <3>1. ApprovalTypeOK'
      BY <2>5, WorkSteps DEF Release, Finish, ApprovalTypeOK, Status
    <3>2. Entitled'
      BY <2>5 DEF Release, Finish, Free, ApprovalTypeOK, Entitled, Logged
    <3>3. Logged("APPROVED")
      BY <2>5 DEF Release, Entitled
    <3> QED
      BY <2>5, <3>1, <3>2, <3>3, QuietStep DEF Release
  <2>6. CASE Edit(h) \/ Notify(h) \/ Die(h)
    <3>1. ApprovalTypeOK'
      <4>1. CASE Edit(h)
        BY <4>1, WorkSteps DEF Edit, Finish, ApprovalTypeOK
      <4>2. CASE Notify(h)
        <5>1. work[h] \in Work /\ work[h].pc = "notifying"
          BY <4>2 DEF Notify, ApprovalTypeOK
        <5>2. work[h].action \in ApprovalAction
          BY <5>1 DEF Work, Free
        <5>3. /\ notices' \in [ApprovalAction -> Nat]
              /\ unheard' \in [ApprovalAction -> Nat]
          <6>1. notices \in [ApprovalAction -> Nat] /\ unheard \in [ApprovalAction -> Nat]
            BY DEF ApprovalTypeOK
          <6>2. CASE notices' = [notices EXCEPT ![work[h].action] = @ + 1] /\ unheard' = unheard
            BY <5>2, <6>1, <6>2
          <6>3. CASE unheard' = [unheard EXCEPT ![work[h].action] = @ + 1] /\ notices' = notices
            BY <5>2, <6>1, <6>3
          <6> QED
            BY <4>2, <6>2, <6>3 DEF Notify
        <5>4. work' = [work EXCEPT ![h] = Free] /\ UNCHANGED <<settings, status, questions, revision, log, deaths>>
          BY <4>2 DEF Notify, Finish
        <5> QED
          BY <5>3, <5>4, WorkSteps DEF ApprovalTypeOK
      <4>3. CASE Die(h)
        BY <4>3, WorkSteps DEF Die, Finish, ApprovalTypeOK
      <4> QED
        BY <2>6, <4>1, <4>2, <4>3
    <3>2. Entitled'
      <4>1. work' = [work EXCEPT ![h] = Free] /\ UNCHANGED <<exam, required, log>>
        BY <2>6 DEF Edit, Notify, Die, Finish
      <4> QED
        BY <4>1 DEF Free, ApprovalTypeOK, Entitled, Logged
    <3> QED
      BY <2>6, <3>1, <3>2, QuietStep DEF Edit, Notify, Die
  <2>7. CASE Delete(h)
    <3>1. ApprovalTypeOK'
      BY <2>7, WorkSteps DEF Delete, Finish, ApprovalTypeOK
    <3>2. Entitled'
      BY <2>7 DEF Delete, Finish, Free, ApprovalTypeOK, Entitled, Logged
    <3>3. status' = status \/ (log = <<>> /\ status' = "DELETED")
      BY <2>7 DEF Delete
    <3> QED
      BY <2>7, <3>1, <3>2, <3>3, QuietStep DEF Delete
  <2>8. CASE Publish(h) \/ PublishApproved(h) \/ Update(h) \/ Remove(h) \/ Approve(h) \/ Reject(h)
    <3>1. PICK next \in Work :
            /\ Accept(h, next)
            /\ next.pc # "opening"
            /\ next.pc = "releasing" => status = "APPROVED"
      <4>1. ASSUME NEW p \in {"publishing", "editing", "removing", "releasing"}
            PROVE  [pc |-> p] \in Work /\ [pc |-> p].pc = p
        BY WorkSteps
      <4>2. ASSUME NEW action \in ApprovalAction
            PROVE  LET next == [pc |-> "deciding", action |-> action]
                   IN  next \in Work /\ next.pc = "deciding"
        BY WorkSteps
      <4> QED
        BY <2>8, <4>1, <4>2 DEF Publish, PublishApproved, Update, Remove, Approve, Reject, ApprovalAction
    <3>2. status = "APPROVED" => Logged("APPROVED")
      BY DEF LogShowsStatus, StatusAfter, Logged, ApprovalTypeOK, ApprovalAction
    <3>3. ApprovalTypeOK'
      BY <3>1 DEF Accept, ApprovalTypeOK
    <3>4. Entitled'
      BY <3>1, <3>2 DEF Accept, ApprovalTypeOK, Entitled, Logged
    <3> QED
      BY <3>1, <3>3, <3>4, QuietStep DEF Accept
  <2>9. CASE Decide(h)
    <3>1. work[h].action \in ApprovalAction /\ work[h] = [pc |-> "deciding", action |-> work[h].action]
      <4>1. work[h] \in Work /\ work[h].pc = "deciding"
        BY <2>9 DEF Decide, ApprovalTypeOK
      <4> QED
        BY <4>1 DEF Work, Free
    <3>2. CASE Exists
      <4> DEFINE action == work[h].action
      <4>1. /\ status' = StatusAfter(action)
            /\ log' = Append(log, action)
            /\ work' = [work EXCEPT ![h] = [pc |-> "notifying", action |-> action]]
            /\ UNCHANGED <<exam, required, questions, revision, sent, deaths>>
        BY <2>9, <3>1, <3>2 DEF Decide
      <4> HIDE DEF action
      <4>2. action \in ApprovalAction
        BY <3>1 DEF action
      <4>3. /\ log' \in Seq(ApprovalAction) /\ log' # <<>>
            /\ log'[Len(log')] = action
            /\ \A i \in DOMAIN log : i \in DOMAIN log' /\ log'[i] = log[i]
        BY <4>1, <4>2, AppendLogs DEF ApprovalTypeOK
      <4>4. StatusAfter(action) \in {"PENDING_APPROVAL", "APPROVED", "REJECTED"}
        BY <4>2 DEF StatusAfter, ApprovalAction
      <4>5. ApprovalTypeOK'
        BY <4>1, <4>2, <4>3, <4>4, WorkSteps DEF ApprovalTypeOK, Status
      <4>6. \A a \in ApprovalAction : Logged(a) => Logged(a)'
        BY <4>3 DEF Logged
      <4>7. Entitled'
        BY <4>1, <4>6 DEF Entitled, ApprovalTypeOK, ApprovalAction
      <4>8. LogShowsStatus'
        BY <4>1, <4>3 DEF LogShowsStatus
      <4>9. TrailKeepsAssessment' /\ NeverPublishedUnapproved'
        BY <4>1, <4>4 DEF TrailKeepsAssessment, NeverPublishedUnapproved, Exists, Status
      <4> QED
        BY <4>5, <4>7, <4>8, <4>9
    <3>3. CASE ~Exists
      <4>1. ApprovalTypeOK'
        BY <2>9, <3>3, WorkSteps DEF Decide, Finish, ApprovalTypeOK
      <4>2. Entitled'
        BY <2>9, <3>3 DEF Decide, Finish, Free, ApprovalTypeOK, Entitled, Logged
      <4> QED
        BY <2>9, <3>3, <4>1, <4>2, QuietStep DEF Decide
    <3> QED
      BY <3>2, <3>3
  <2> QED
    BY <1>2, <2>1, <2>2, <2>3, <2>4, <2>5, <2>6, <2>7, <2>8, <2>9 DEF Teach, Review
<1> QED
  BY <1>1, <1>2 DEF ApprovalNext

LEMMA ApprovalInvariant == ApprovalSpec => []ApprovalInv
<1> QED
  BY InitApprovalInv, NextApprovalInv, PTL DEF ApprovalSpec

\* Type correctness of the staff side.
THEOREM ApprovalTypeCorrect == ApprovalSpec => []ApprovalTypeOK
<1>1. ApprovalInv => ApprovalTypeOK
  BY DEF ApprovalInv
<1> QED
  BY <1>1, ApprovalInvariant, PTL

\* "exams go to approval queue": no overlap of requests publishes an exam that
\* was never approved.
THEOREM NeverPublishedUnapprovedHolds == ApprovalSpec => []NeverPublishedUnapproved
<1>1. ApprovalInv => NeverPublishedUnapproved
  BY DEF ApprovalInv
<1> QED
  BY <1>1, ApprovalInvariant, PTL

\* The approval log and the status agree at all times.
THEOREM LogShowsStatusHolds == ApprovalSpec => []LogShowsStatus
<1>1. ApprovalInv => LogShowsStatus
  BY DEF ApprovalInv
<1> QED
  BY <1>1, ApprovalInvariant, PTL

\* An assessment with an approval log is never deleted.
THEOREM TrailKeepsAssessmentHolds == ApprovalSpec => []TrailKeepsAssessment
<1>1. ApprovalInv => TrailKeepsAssessment
  BY DEF ApprovalInv
<1> QED
  BY <1>1, ApprovalInvariant, PTL

--------------------------------------------------------------------------------
(***************************************************************************)
(* Questions and edits.                                                    *)
(***************************************************************************)

\* A step moves one request.
LEMMA OneMoves ==
  ASSUME ApprovalTypeOK, NEW h \in Staff, Teach(h) \/ Delete(h) \/ Review(h) \/ Die(h)
  PROVE  \A g \in Staff : g # h => work'[g] = work[g]
BY DEF Teach, Review, CreateAssessment, AddQuestions, Publish, AssertQuestionsExist, OpenToStudents,
       PublishApproved, Release, Update, Edit, Remove, Delete, Approve, Reject, Decide, Notify, Die, Accept, Finish,
       ApprovalTypeOK

\* Who is about to open the assessment saw its questions, and nobody is before
\* it exists.
QuestionsSeen ==
  \A h \in Staff :
    /\ work[h].pc \in {"publishing", "opening"} => status # "ABSENT"
    /\ work[h].pc = "opening" /\ Exists => questions

QuestionsInv == ApprovalTypeOK /\ QuestionsSeen /\ UnreviewedHasQuestions

LEMMA NextQuestions ==
  ASSUME ApprovalInv, QuestionsInv, NEW h \in Staff, Teach(h) \/ Delete(h) \/ Review(h) \/ Die(h)
  PROVE  QuestionsSeen' /\ UnreviewedHasQuestions'
<1> USE DEF QuestionsInv, Exists, Status
<1>1. /\ work \in [Staff -> Work] /\ status \in Status \cup {"ABSENT", "DELETED"}
      /\ \A g \in Staff : g # h => work'[g] = work[g]
  BY OneMoves DEF ApprovalTypeOK
<1>2. CASE CreateAssessment(h)
  <2>1. \A g \in Staff : work'[g].pc \notin {"publishing", "opening"}
    BY <1>1, <1>2 DEF CreateAssessment, QuestionsSeen
  <2> QED
    BY <1>2, <2>1 DEF CreateAssessment, QuestionsSeen, UnreviewedHasQuestions
<1>3. CASE AddQuestions(h)
  <2>1. work'[h] = Free /\ status' = status /\ log' = log /\ questions' = Exists
    BY <1>1, <1>3 DEF AddQuestions, Finish
  <2>2. Exists' => questions'
    BY <2>1, Zenon
  <2>3. /\ work'[h].pc = "free" /\ status' = status
        /\ \A g \in Staff : g # h => work'[g] = work[g]
    BY <1>1, <2>1 DEF Free
  <2> QED
    BY <2>2, <2>3 DEF QuestionsSeen, UnreviewedHasQuestions
<1>4. CASE AssertQuestionsExist(h)
  <2>1. /\ UNCHANGED <<status, questions, log>> /\ work[h].pc = "publishing"
        /\ work'[h].pc = "opening" => questions
    BY <1>1, <1>4 DEF AssertQuestionsExist, Free
  <2> QED
    BY <1>1, <2>1 DEF QuestionsSeen, UnreviewedHasQuestions, Logged
<1>5. CASE OpenToStudents(h)
  <2>1. /\ UNCHANGED <<questions, log>> /\ work[h].pc = "opening" /\ work'[h].pc = "free"
        /\ status' = IF Exists THEN "PUBLISHED" ELSE status
    BY <1>1, <1>5 DEF OpenToStudents, Finish, Free
  <2>2. Exists => questions
    BY <2>1 DEF QuestionsSeen
  <2> QED
    BY <1>1, <2>1, <2>2 DEF QuestionsSeen, UnreviewedHasQuestions, Logged
<1>6. CASE Release(h)
  <2>1. /\ UNCHANGED <<questions, log>> /\ work[h].pc = "releasing" /\ work'[h].pc = "free"
        /\ status' = IF Exists THEN "PUBLISHED" ELSE status
    BY <1>1, <1>6 DEF Release, Finish, Free
  <2>2. Logged("APPROVED")
    BY <2>1 DEF ApprovalInv, Entitled
  <2> QED
    BY <1>1, <2>1, <2>2 DEF QuestionsSeen, UnreviewedHasQuestions, Logged
<1>7. CASE Delete(h)
  <2>1. /\ work'[h].pc = "free" /\ log' = log
        /\ UNCHANGED <<status, questions>> \/ status' = "DELETED"
    BY <1>1, <1>7 DEF Delete, Finish, Free
  <2> QED
    BY <1>1, <2>1 DEF QuestionsSeen, UnreviewedHasQuestions, Logged
<1>8. CASE Decide(h)
  <2>1. /\ work[h].action \in ApprovalAction /\ work[h] = [pc |-> "deciding", action |-> work[h].action]
    BY <1>1, <1>8 DEF Decide, Work, Free
  <2>2. work'[h].pc \in {"free", "notifying"} /\ questions' = questions
    BY <1>1, <1>8, <2>1 DEF Decide, Finish, Free
  <2>3. \/ UNCHANGED <<status, log>>
        \/ Exists /\ status' \in {"PENDING_APPROVAL", "APPROVED", "REJECTED"}
    BY <1>8, <2>1 DEF Decide, StatusAfter, ApprovalAction
  <2> QED
    BY <1>1, <2>2, <2>3 DEF QuestionsSeen, UnreviewedHasQuestions, Logged
<1>9. CASE \/ Edit(h) \/ Notify(h) \/ Die(h)
  <2>1. work'[h] = Free /\ UNCHANGED <<status, questions, log>>
    BY <1>1, <1>9 DEF Edit, Notify, Die, Finish
  <2> QED
    BY <1>1, <2>1 DEF QuestionsSeen, UnreviewedHasQuestions, Logged, Free
<1>10. CASE Publish(h) \/ PublishApproved(h) \/ Update(h) \/ Remove(h) \/ Approve(h) \/ Reject(h)
  <2>1. /\ UNCHANGED <<status, questions, log>> /\ work'[h].pc # "opening"
        /\ work'[h].pc = "publishing" => status = "DRAFT"
    BY <1>1, <1>10 DEF Publish, PublishApproved, Update, Remove, Approve, Reject, Accept
  <2> QED
    BY <1>1, <2>1 DEF QuestionsSeen, UnreviewedHasQuestions, Logged
<1> QED
  BY <1>2, <1>3, <1>4, <1>5, <1>6, <1>7, <1>8, <1>9, <1>10 DEF Teach, Review

\* "Assessment must have at least one question.": publish asserts it in one step
\* and opens the assessment in another, and nothing takes the questions away in
\* between; only what a reviewer approved may be without them.
THEOREM UnreviewedHasQuestionsHolds == ApprovalSpec => []UnreviewedHasQuestions
<1>1. ApprovalInit => QuestionsInv
  BY InitApprovalInv DEF ApprovalInv, QuestionsInv, ApprovalInit, QuestionsSeen, UnreviewedHasQuestions, Free
<1>2. ASSUME ApprovalInv, ApprovalInv', QuestionsInv, [ApprovalNext]_approvalVars
      PROVE  QuestionsInv'
  <2>1. CASE UNCHANGED approvalVars
    BY <1>2, <2>1 DEF approvalVars, sent, settings, ApprovalInv, QuestionsInv, QuestionsSeen, UnreviewedHasQuestions,
       Exists, Logged
  <2>2. CASE ApprovalNext
    BY <1>2, <2>2, NextQuestions DEF ApprovalNext, QuestionsInv, ApprovalInv
  <2> QED
    BY <1>2, <2>1, <2>2
<1>3. QuestionsInv => UnreviewedHasQuestions
  BY DEF QuestionsInv
<1> QED
  BY <1>1, <1>2, <1>3, ApprovalInvariant, PTL DEF ApprovalSpec

\* "Update an assessment - draft only": update reads the status in one step and
\* writes in another; once no such request is left of the time of the draft,
\* none comes back, whatever the others do.
THEOREM EditsDrainHolds == ApprovalSpec => EditsDrain
<1>1. ASSUME ApprovalTypeOK, NEW h \in Staff, Teach(h) \/ Delete(h) \/ Review(h) \/ Die(h),
             status # "DRAFT", \A g \in Staff : work[g].pc # "editing"
      PROVE  revision' = revision /\ \A g \in Staff : work'[g].pc # "editing"
  <2>1. work \in [Staff -> Work] /\ \A g \in Staff : g # h => work'[g] = work[g]
    BY <1>1, OneMoves DEF ApprovalTypeOK
  <2>2. CASE Decide(h)
    <3>1. work[h].action \in ApprovalAction /\ work[h] = [pc |-> "deciding", action |-> work[h].action]
      BY <2>1, <2>2 DEF Decide, Work, Free
    <3>2. work'[h].pc \in {"free", "notifying"} /\ revision' = revision
      BY <2>1, <2>2, <3>1 DEF Decide, Finish, Free
    <3> QED
      BY <1>1, <2>1, <3>2
  <2>3. CASE ~Decide(h)
    <3>1. work'[h].pc # "editing" /\ revision' = revision
      BY <1>1, <2>1, <2>3 DEF Teach, Review, CreateAssessment, AddQuestions, Publish, AssertQuestionsExist,
         OpenToStudents, PublishApproved, Release, Update, Edit, Remove, Delete, Approve, Reject, Notify, Die,
         Accept, Finish, Free
    <3> QED
      BY <1>1, <2>1, <3>1
  <2> QED
    BY <2>2, <2>3
<1>2. ASSUME ApprovalInv, [ApprovalNext]_approvalVars
      PROVE  [status # "DRAFT" /\ ~(\E h \in Staff : work[h].pc = "editing")
               => revision' = revision /\ ~(\E h \in Staff : work'[h].pc = "editing")]_approvalVars
  BY <1>1, <1>2 DEF ApprovalInv, ApprovalNext
<1> QED
  BY <1>2, ApprovalInvariant, PTL DEF ApprovalSpec, EditsDrain

--------------------------------------------------------------------------------
(***************************************************************************)
(* Notifications.                                                          *)
(***************************************************************************)

\* How often b is in l.
Occurrences(l, b) == Cardinality({i \in DOMAIN l : l[i] = b})

LEMMA CountGrows ==
  ASSUME NEW l \in Seq(ApprovalAction), NEW a \in ApprovalAction, NEW b \in ApprovalAction
  PROVE  Occurrences(Append(l, a), b) = Occurrences(l, b) + (IF a = b THEN 1 ELSE 0)
<1> DEFINE m == Append(l, a)
           before == {i \in DOMAIN l : l[i] = b}
           after == {i \in DOMAIN m : m[i] = b}
<1>1. /\ Len(l) \in Nat /\ DOMAIN l = 1..Len(l) /\ DOMAIN m = 1..Len(l) + 1
      /\ m[Len(l) + 1] = a /\ \A i \in 1..Len(l) : m[i] = l[i]
  OBVIOUS
<1>2. IsFiniteSet(1..Len(l))
  BY <1>1, FS_Interval
<1>3. IsFiniteSet(before)
  BY <1>1, <1>2, FS_Subset
<1>4. Len(l) + 1 \notin before
  BY <1>1
<1>5. after = IF a = b THEN before \cup {Len(l) + 1} ELSE before
  BY <1>1
<1> HIDE DEF before, after
<1>6. Cardinality(before) \in Nat /\ Cardinality(before \cup {Len(l) + 1}) = Cardinality(before) + 1
  BY <1>3, <1>4, FS_AddElement, FS_CardinalityType
<1>7. Cardinality(after) = Cardinality(before) + (IF a = b THEN 1 ELSE 0)
  BY <1>5, <1>6
<1> QED
  BY <1>7 DEF before, after, Occurrences

LEMMA CountIsNat ==
  ASSUME ApprovalTypeOK
  PROVE  \A action \in ApprovalAction : Count(action) \in Nat
<1>1. Len(log) \in Nat /\ DOMAIN log = 1..Len(log)
  BY DEF ApprovalTypeOK
<1>2. IsFiniteSet(DOMAIN log)
  BY <1>1, FS_Interval
<1>3. \A action \in ApprovalAction : IsFiniteSet({i \in DOMAIN log : log[i] = action})
  BY <1>2, FS_Subset
<1> QED
  BY <1>3, FS_CardinalityType DEF Count

\* The inductive invariant: only finitely many requests are about to notify, and
\* the counts agree.
NoticesInv ==
  /\ \A action \in ApprovalAction : IsFiniteSet(Notifying(action))
  /\ NoticesMatchLog

\* A step of one request that is about to notify neither before nor after it.
LEMMA QuietNotices ==
  ASSUME ApprovalTypeOK, NoticesInv, NEW h \in Staff, \A g \in Staff : g # h => work'[g] = work[g],
         work[h].pc # "notifying", work'[h].pc # "notifying",
         UNCHANGED <<log, sent>>, deaths' \in {deaths, deaths + 1}
  PROVE  NoticesInv'
<1>1. \A action \in ApprovalAction : Notifying(action)' = {g \in Staff : work'[g] = [pc |-> "notifying", action |-> action]}
  BY DEF Notifying
<1>2. \A action \in ApprovalAction : Notifying(action)' = Notifying(action)
  BY <1>1 DEF Notifying
<1>3. \A action \in ApprovalAction : Count(action)' = Count(action)
  BY DEF Count
<1>4. \A action \in ApprovalAction : Cardinality(Notifying(action)) \in Nat /\ Settled(action) \in Nat
  BY FS_CardinalityType DEF NoticesInv, ApprovalTypeOK, Settled
<1>5. \A action \in ApprovalAction : Count(action) \in Nat
  BY CountIsNat
<1>6. \A action \in ApprovalAction : Settled(action)' = Settled(action)
  BY DEF Settled, sent
<1>7. NoticesMatchLog'
  BY <1>2, <1>3, <1>4, <1>5, <1>6 DEF NoticesInv, NoticesMatchLog, ApprovalTypeOK
<1> QED
  BY <1>2, <1>7 DEF NoticesInv

\* A request leaves those that are about to notify.
LEMMA OneNotifies ==
  ASSUME ApprovalTypeOK, NoticesInv, NEW h \in Staff, \A g \in Staff : g # h => work'[g] = work[g],
         NEW a \in ApprovalAction, work[h] = [pc |-> "notifying", action |-> a], work'[h] = Free,
         log' = log,
         \/ notices' = [notices EXCEPT ![a] = @ + 1] /\ unheard' = unheard /\ deaths' = deaths
         \/ notices' = notices /\ unheard' = [unheard EXCEPT ![a] = @ + 1] /\ deaths' = deaths
         \/ sent' = sent /\ deaths' = deaths + 1
  PROVE  NoticesInv'
<1>1. \A b \in ApprovalAction : Notifying(b)' = {g \in Staff : work'[g] = [pc |-> "notifying", action |-> b]}
  BY DEF Notifying
<1>2. \A b \in ApprovalAction : Notifying(b)' = IF b = a THEN Notifying(a) \ {h} ELSE Notifying(b)
  BY <1>1 DEF Notifying, Free
<1>3. h \in Notifying(a)
  BY DEF Notifying
<1>4. \A b \in ApprovalAction : Count(b)' = Count(b)
  BY DEF Count
<1>5. \A b \in ApprovalAction : Cardinality(Notifying(b)) \in Nat /\ Settled(b) \in Nat /\ IsFiniteSet(Notifying(b))
  BY FS_CardinalityType DEF NoticesInv, ApprovalTypeOK, Settled
<1>6. IsFiniteSet(Notifying(a) \ {h}) /\ Cardinality(Notifying(a) \ {h}) = Cardinality(Notifying(a)) - 1
  BY <1>3, <1>5, FS_RemoveElement
<1>7. ASSUME NEW b \in ApprovalAction
      PROVE  /\ Settled(b)' + Cardinality(Notifying(b)') <= Count(b)'
             /\ Count(b)' <= Settled(b)' + Cardinality(Notifying(b)') + deaths'
  <2>1. /\ Settled(b) + Cardinality(Notifying(b)) <= Count(b)
        /\ Count(b) <= Settled(b) + Cardinality(Notifying(b)) + deaths
    BY DEF NoticesInv, NoticesMatchLog
  <2>2. Count(b) \in Nat /\ deaths \in Nat
    BY CountIsNat DEF ApprovalTypeOK
  <2>3. CASE b = a
    <3>1. Cardinality(Notifying(b)') = Cardinality(Notifying(b)) - 1
      BY <1>2, <1>6, <2>3
    <3>2. \/ Settled(b)' = Settled(b) + 1 /\ deaths' = deaths
          \/ Settled(b)' = Settled(b) /\ deaths' = deaths + 1
      BY <2>3 DEF ApprovalTypeOK, Settled, sent
    <3> QED
      BY <1>4, <1>5, <2>1, <2>2, <3>1, <3>2
  <2>4. CASE b # a
    <3>1. Cardinality(Notifying(b)') = Cardinality(Notifying(b))
      BY <1>2, <2>4
    <3>2. Settled(b)' = Settled(b) /\ deaths' \in {deaths, deaths + 1}
      BY <2>4 DEF ApprovalTypeOK, Settled, sent
    <3> QED
      BY <1>4, <1>5, <2>1, <2>2, <3>1, <3>2
  <2> QED
    BY <2>3, <2>4
<1>8. \A b \in ApprovalAction : IsFiniteSet(Notifying(b)')
  BY <1>2, <1>5, <1>6
<1> QED
  BY <1>7, <1>8 DEF NoticesInv, NoticesMatchLog

\* What is logged is about to be notified.
LEMMA OneIsLogged ==
  ASSUME ApprovalTypeOK, NoticesInv, NEW h \in Staff, \A g \in Staff : g # h => work'[g] = work[g],
         NEW a \in ApprovalAction, work[h].pc = "deciding", work'[h] = [pc |-> "notifying", action |-> a],
         log' = Append(log, a), UNCHANGED <<sent, deaths>>
  PROVE  NoticesInv'
<1>1. \A b \in ApprovalAction : Notifying(b)' = {g \in Staff : work'[g] = [pc |-> "notifying", action |-> b]}
  BY DEF Notifying
<1>2. \A b \in ApprovalAction : Notifying(b)' = IF b = a THEN Notifying(a) \cup {h} ELSE Notifying(b)
  BY <1>1 DEF Notifying
<1>3. h \notin Notifying(a)
  BY DEF Notifying
<1>4. ASSUME NEW b \in ApprovalAction
      PROVE  Count(b)' = Count(b) + (IF a = b THEN 1 ELSE 0)
  <2>1. PICK l \in Seq(ApprovalAction) : l = log
    BY DEF ApprovalTypeOK
  <2>2. Occurrences(Append(l, a), b) = Occurrences(l, b) + (IF a = b THEN 1 ELSE 0)
    BY CountGrows
  <2>3. Count(b) = Occurrences(l, b) /\ Count(b)' = Occurrences(Append(l, a), b)
    BY <2>1 DEF Count, Occurrences
  <2> QED
    BY <2>2, <2>3
<1>5. \A b \in ApprovalAction : Cardinality(Notifying(b)) \in Nat /\ Settled(b) \in Nat /\ IsFiniteSet(Notifying(b))
  BY FS_CardinalityType DEF NoticesInv, ApprovalTypeOK, Settled
<1>6. IsFiniteSet(Notifying(a) \cup {h}) /\ Cardinality(Notifying(a) \cup {h}) = Cardinality(Notifying(a)) + 1
  BY <1>3, <1>5, FS_AddElement
<1>7. ASSUME NEW b \in ApprovalAction
      PROVE  /\ Settled(b)' + Cardinality(Notifying(b)') <= Count(b)'
             /\ Count(b)' <= Settled(b)' + Cardinality(Notifying(b)') + deaths'
  <2>0. Settled(b)' = Settled(b) /\ deaths' = deaths
    BY DEF Settled, sent
  <2>1. /\ Settled(b) + Cardinality(Notifying(b)) <= Count(b)
        /\ Count(b) <= Settled(b) + Cardinality(Notifying(b)) + deaths
    BY DEF NoticesInv, NoticesMatchLog
  <2>2. Count(b) \in Nat /\ deaths \in Nat
    BY CountIsNat DEF ApprovalTypeOK
  <2>3. Cardinality(Notifying(b)') = Cardinality(Notifying(b)) + (IF a = b THEN 1 ELSE 0)
    <3>1. CASE a = b
      BY <1>2, <1>6, <3>1
    <3>2. CASE a # b
      <4>1. Notifying(b)' = Notifying(b)
        BY <1>2, <3>2
      <4> QED
        BY <1>5, <3>2, <4>1
    <3> QED
      BY <3>1, <3>2
  <2> QED
    BY <1>4, <1>5, <2>0, <2>1, <2>2, <2>3
<1>8. \A b \in ApprovalAction : IsFiniteSet(Notifying(b)')
  BY <1>2, <1>5, <1>6
<1> QED
  BY <1>7, <1>8 DEF NoticesInv, NoticesMatchLog

LEMMA NextNotices ==
  ASSUME ApprovalTypeOK, NoticesInv, NEW h \in Staff, Teach(h) \/ Delete(h) \/ Review(h) \/ Die(h)
  PROVE  NoticesInv'
<1>1. work \in [Staff -> Work] /\ \A g \in Staff : g # h => work'[g] = work[g]
  BY OneMoves DEF ApprovalTypeOK
<1>2. ASSUME work[h].pc = "notifying"
      PROVE  \E a \in ApprovalAction : work[h] = [pc |-> "notifying", action |-> a]
  BY <1>1, <1>2 DEF Work, Free
<1>3. CASE Decide(h)
  <2>1. PICK a \in ApprovalAction : work[h] = [pc |-> "deciding", action |-> a]
    BY <1>1, <1>3 DEF Decide, Work, Free
  <2>2. CASE Exists
    <3>1. /\ work'[h] = [pc |-> "notifying", action |-> a] /\ log' = Append(log, a)
          /\ UNCHANGED <<sent, deaths>>
      BY <1>1, <1>3, <2>1, <2>2 DEF Decide
    <3> QED
      BY <1>1, <2>1, <3>1, OneIsLogged
  <2>3. CASE ~Exists
    <3>1. work'[h].pc = "free" /\ work[h].pc = "deciding" /\ UNCHANGED <<log, sent, deaths>>
      BY <1>1, <1>3, <2>3 DEF Decide, Finish, Free
    <3> QED
      BY <1>1, <3>1, QuietNotices
  <2> QED
    BY <2>2, <2>3
<1>4. CASE Notify(h)
  <2>1. PICK a \in ApprovalAction : work[h] = [pc |-> "notifying", action |-> a]
    BY <1>2, <1>4 DEF Notify
  <2>2. /\ work'[h] = Free /\ log' = log /\ deaths' = deaths
        /\ \/ notices' = [notices EXCEPT ![a] = @ + 1] /\ unheard' = unheard
           \/ notices' = notices /\ unheard' = [unheard EXCEPT ![a] = @ + 1]
    BY <1>1, <1>4, <2>1 DEF Notify, Finish
  <2> QED
    BY <1>1, <2>1, <2>2, OneNotifies
<1>5. CASE Die(h)
  <2>1. work'[h] = Free /\ log' = log /\ deaths' = deaths + 1 /\ sent' = sent
    BY <1>1, <1>5 DEF Die, Finish
  <2>2. CASE work[h].pc = "notifying"
    BY <1>1, <1>2, <2>1, <2>2, OneNotifies
  <2>3. CASE work[h].pc # "notifying"
    BY <1>1, <2>1, <2>3, QuietNotices DEF Free
  <2> QED
    BY <2>2, <2>3
<1>6. CASE ~(Decide(h) \/ Notify(h) \/ Die(h))
  <2>1. work[h].pc # "notifying" /\ work'[h].pc # "notifying" /\ UNCHANGED <<log, sent, deaths>>
    BY <1>1, <1>6 DEF Teach, Review, CreateAssessment, AddQuestions, Publish, AssertQuestionsExist,
       OpenToStudents, PublishApproved, Release, Update, Edit, Remove, Delete, Approve, Reject, Accept, Finish, Free
  <2> QED
    BY <1>1, <2>1, QuietNotices
<1> QED
  BY <1>3, <1>4, <1>5, <1>6

\* The notification follows the transaction: no action is notified that was not
\* logged, none twice, and none is forgotten but by a request that died or found
\* nobody to notify.
THEOREM NoticesMatchLogHolds == ApprovalSpec => []NoticesMatchLog
<1>1. ApprovalInit => NoticesInv
  <2> SUFFICES ASSUME ApprovalInit PROVE NoticesInv
    OBVIOUS
  <2>1. \A a \in ApprovalAction : Notifying(a) = {} /\ {i \in DOMAIN log : log[i] = a} = {} /\ Settled(a) = 0
    BY DEF ApprovalInit, Notifying, Free, Settled
  <2>2. \A a \in ApprovalAction : Cardinality(Notifying(a)) = 0 /\ Count(a) = 0 /\ IsFiniteSet(Notifying(a))
    BY <2>1, FS_EmptySet DEF Count
  <2> QED
    BY <2>1, <2>2 DEF ApprovalInit, NoticesInv, NoticesMatchLog
<1>2. ASSUME ApprovalInv, NoticesInv, [ApprovalNext]_approvalVars
      PROVE  NoticesInv'
  <2>1. CASE UNCHANGED approvalVars
    BY <1>2, <2>1 DEF approvalVars, NoticesInv, NoticesMatchLog, Notifying, Count, Settled, sent
  <2>2. CASE ApprovalNext
    BY <1>2, <2>2, NextNotices DEF ApprovalNext, ApprovalInv
  <2> QED
    BY <1>2, <2>1, <2>2
<1>3. NoticesInv => NoticesMatchLog
  BY DEF NoticesInv
<1> QED
  BY <1>1, <1>2, <1>3, ApprovalInvariant, PTL DEF ApprovalSpec

--------------------------------------------------------------------------------
(***************************************************************************)
(* ExamAccess: the student and the staff side of an assessment together.   *)
(***************************************************************************)

\* The inductive invariant: the student side is well typed, the requests of the
\* staff know what they do, and an attempt has its assessment.
AccessInv ==
  /\ TypeOK /\ HeldExist
  /\ work \in [Staff -> Work]
  /\ AttemptsKeepAssessment

LEMMA StaffWork ==
  ASSUME NEW h \in Staff, work \in [Staff -> Work],
         Teach(h) \/ Review(h) \/ Die(h)
  PROVE  /\ work' \in [Staff -> Work]
         /\ Exists => Exists'
<1>1. /\ Free \in Work
      /\ \A p \in {"adding", "publishing", "opening", "editing", "removing", "releasing"} :
           [pc |-> p] \in Work
      /\ \A p \in {"deciding", "notifying"}, action \in ApprovalAction :
           [pc |-> p, action |-> action] \in Work
  BY DEF Work, Free
<1>2. CASE Decide(h)
  <2>1. /\ work[h].action \in ApprovalAction
        /\ work[h] = [pc |-> "deciding", action |-> work[h].action]
    BY <1>2 DEF Decide, Work, Free
  <2>2. work' \in [Staff -> Work]
    BY <1>1, <1>2, <2>1 DEF Decide, Finish
  <2>3. StatusAfter(work[h].action) \in Status
    BY <2>1 DEF StatusAfter, ApprovalAction, Status
  <2> QED
    BY <1>2, <2>2, <2>3 DEF Decide, Exists
<1>3. CASE Publish(h) \/ PublishApproved(h) \/ Update(h) \/ Remove(h)
             \/ Approve(h) \/ Reject(h)
  BY <1>1, <1>3 DEF Publish, PublishApproved, Update, Remove,
       Approve, Reject, Accept, ApprovalAction, Exists
<1>4. CASE CreateAssessment(h) \/ AddQuestions(h) \/ AssertQuestionsExist(h)
  BY <1>1, <1>4 DEF CreateAssessment, AddQuestions, AssertQuestionsExist,
       Finish, ApprovalAction, Exists, Status
<1>5. CASE OpenToStudents(h) \/ Release(h) \/ Edit(h) \/ Notify(h)
             \/ Die(h)
  BY <1>1, <1>5 DEF OpenToStudents, Release, Edit, Notify, Die,
       Finish, Exists, Status
<1> QED
  BY <1>2, <1>3, <1>4, <1>5 DEF Teach, Review

LEMMA StudentSide ==
  ASSUME AccessInv,
         \/ Tick
         \/ \E h \in Handlers : Create(h) \/ Answer(h) \/ \E s \in Students : Start(h, s)
  PROVE  TypeOK' /\ HeldExist' /\ (Live' = Live \/ Exists)
<1> USE DEF AccessInv
<1>1. ASSUME NEW h \in Handlers, CreateAttempt(h), Exists
      PROVE  TypeOK' /\ HeldExist'
  <2>1. SubNext
    BY <1>1 DEF SubNext, Proceed
  <2> QED
    BY <2>1, StepType, StepHeld
<1>2. ASSUME NEW h \in Handlers, req' = [req EXCEPT ![h] = Idle],
             UNCHANGED <<now, row, answers, queue, aborts, lateWrites>>
      PROVE  TypeOK' /\ HeldExist' /\ Live' = Live
  <2>1. Idle \in Request
    BY DEF Request
  <2> QED
    BY <1>2, <2>1 DEF TypeOK, HeldExist, Live, Idle
<1>3. ASSUME \/ Tick
             \/ \E h \in Handlers : Answer(h) \/ \E s \in Students : Start(h, s)
      PROVE  TypeOK' /\ HeldExist' /\ Live' = Live
  <2>1. SubNext
    BY <1>3 DEF SubNext, Proceed, Answer, Start
  <2>2. TypeOK' /\ HeldExist'
    BY <2>1, StepType, StepHeld
  <2>3. row' = row \/ \E h \in Handlers : CommitSubmission(h)
    BY <1>3 DEF Answer, Start, Tick, StartSubmission, CountAttempts, AutoSave,
         SubmitAnswers, GetActiveSubmission, SaveProgress, CheckDeadline,
         QueueAutoGrading, Abort
  <2>4. ASSUME NEW h \in Handlers, CommitSubmission(h)
        PROVE  Live' = Live
    <3>1. PICK id \in Live : row' = [row EXCEPT ![id].submitted = TRUE]
      BY <2>4 DEF CommitSubmission, HeldExist
    <3>2. row[id] \in Row
      BY <3>1 DEF Live, TypeOK
    <3>3. row'[id] \in Row
      BY <3>1, <3>2 DEF Row, TypeOK, Live
    <3>4. NoRow \notin Row
      BY SubmissionsAssumption DEF Row
    <3> QED
      BY <3>1, <3>3, <3>4 DEF Live, TypeOK
  <2> QED
    BY <2>2, <2>3, <2>4 DEF Live
<1> QED
  BY <1>1, <1>2, <1>3 DEF Create

LEMMA InitAccessInv == AccessInit => AccessInv
<1> SUFFICES ASSUME AccessInit PROVE AccessInv
  OBVIOUS
<1>1. TypeOK /\ HeldExist
  BY InitType DEF AccessInit
<1>2. work \in [Staff -> Work]
  BY DEF AccessInit, ApprovalInit, Work
<1>3. Live = {}
  BY DEF AccessInit, SubInit, Live
<1> QED
  BY <1>1, <1>2, <1>3 DEF AccessInv, AttemptsKeepAssessment

LEMMA NextAccessInv == AccessInv /\ [AccessNext]_accessVars => AccessInv'
<1> SUFFICES ASSUME AccessInv, [AccessNext]_accessVars PROVE AccessInv'
  OBVIOUS
<1> USE DEF AccessInv
<1>1. CASE UNCHANGED accessVars
  BY <1>1 DEF accessVars, approvalVars, sent, settings, subVars, TypeOK, HeldExist, AttemptsKeepAssessment, Live,
       Exists
<1>2. ASSUME \/ Tick
             \/ \E h \in Handlers : Create(h) \/ Answer(h) \/ \E s \in Students : Start(h, s),
             UNCHANGED approvalVars
      PROVE  AccessInv'
  <2>1. TypeOK' /\ HeldExist' /\ (Live' = Live \/ Exists)
    BY <1>2, StudentSide
  <2> QED
    BY <1>2, <2>1 DEF approvalVars, sent, settings, AttemptsKeepAssessment, Exists
<1>3. ASSUME NEW h \in Staff,
             RemoveUnlessTaken(h) \/ Teach(h) \/ Review(h) \/ Die(h),
             UNCHANGED subVars
      PROVE  AccessInv'
  <2>1. TypeOK' /\ HeldExist' /\ Live' = Live
    BY <1>3 DEF subVars, TypeOK, HeldExist, Live
  <2>2. CASE RemoveUnlessTaken(h)
    <3>1. Finish(h) /\ (Live = {} \/ status' = status)
      BY <2>2 DEF RemoveUnlessTaken, Delete
    <3>2. work' \in [Staff -> Work]
      BY <3>1 DEF Finish, Work
    <3> QED
      BY <2>1, <3>1, <3>2 DEF AttemptsKeepAssessment, Exists
  <2>3. CASE Teach(h) \/ Review(h) \/ Die(h)
    BY <2>1, <2>3, StaffWork DEF AttemptsKeepAssessment
  <2> QED
    BY <1>3, <2>2, <2>3
<1> QED
  BY <1>1, <1>2, <1>3 DEF AccessNext

\* However starts, removes, approvals and deaths of requests overlap, no attempt
\* is left without its assessment.
THEOREM AttemptsKeepAssessmentHolds == AccessSpec => []AttemptsKeepAssessment
<1>1. AccessInv => AttemptsKeepAssessment
  BY DEF AccessInv
<1> QED
  BY <1>1, InitAccessInv, NextAccessInv, PTL DEF AccessSpec
================================================================================
