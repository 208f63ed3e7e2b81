-------------------------------- MODULE Grading --------------------------------
(***************************************************************************)
(* Grading of the attempts of Submissions (grading.service.ts and          *)
(* workers/grading.worker.ts), composed with the student side.             *)
(*                                                                         *)
(* A job grade-<id> is executed by a worker slot w, whose run run[w] reads *)
(* the attempt once and then writes marks, score and job state in separate *)
(* statements.  BullMQ delivers at least once: a run that throws is tried  *)
(* again, and a run whose lock expires (the process died, or its event     *)
(* loop stalled and it goes on) is handed to another slot.  Teachers grade *)
(* by hand at the same time, with no look at the job or at is_submitted.   *)
(*                                                                         *)
(* updateSubjectScore is left out: it returns at once because no code of   *)
(* the repository creates the subject_registrations row it looks up.  The  *)
(* percentage, grade and pass flag are functions of the total.             *)
(***************************************************************************)
EXTENDS Submissions, FiniteSetsExt

CONSTANTS
  AutoQuestions,  \* questions with is_auto_gradable
  Marks,          \* question.marks
  MarkChoices,    \* marks a teacher may send (@Min(0), no upper bound)
  Right,          \* the content of a correct answer
  Null,           \* SQL NULL
  Workers,        \* slots of the grading worker (concurrency)
  Teachers,       \* manual grading requests in flight at the same time
  MaxTries,       \* attempts: 3 of the grading queue
  StallLimit,     \* BullMQ maxStalledCount
  MaxErrors,      \* bound: runs of one job that throw
  MaxStalls       \* bound: lock expirations of one job

ASSUME GradingAssumption ==
  /\ IsFiniteSet(Questions)
  /\ AutoQuestions \subseteq Questions
  /\ Marks \in [Questions -> Nat]
  /\ MarkChoices \subseteq Nat
  /\ Right \in Contents
  /\ Null \notin Nat
  /\ {MaxTries, StallLimit, MaxErrors, MaxStalls} \subseteq Nat

VARIABLES
  marks,     \* submission_answers.marks_awarded
  gradedBy,  \* gradedBy[id]: the answers whose graded_by is a teacher
  score,     \* auto_scores, manual_scores, total_scores of the attempt
  run,       \* what each worker slot is doing
  holder,    \* the slot that holds the lock of a job
  tries,     \* attemptsMade of a job
  stalls,    \* stalled counter of a job
  call,      \* the manual grading requests in flight
  early      \* history: attempts a teacher finalised without an auto score

gradeVars == <<marks, gradedBy, score, run, holder, tries, stalls, call, early>>
vars == <<subVars, gradeVars>>
studentVars == <<now, row, answers, req, lateWrites>>

--------------------------------------------------------------------------------
Vacant == [pc |-> "free"]
Off == [pc |-> "off"]
MarkSheet == [Questions -> Nat \cup {Null}]
Score == [auto : Nat \cup {Null}, manual : Nat \cup {Null}, total : Nat \cup {Null}]

\* The grades of one request: Null for an answer it does not list.
Grades == [Questions -> MarkChoices \cup {Null}]

Run == {Vacant} \cup [pc : {"marking", "finishing"}, id : SubmissionIds,
                    seen : Sheet, left : SUBSET Questions]
Call == {Off} \cup [pc : {"marking", "finalising"}, id : SubmissionIds,
                    auto : Nat \cup {Null}, grades : Grades]

\* The type invariant of the component.
GradingTypeOK ==
  /\ TypeOK
  /\ marks \in [SubmissionIds -> MarkSheet]
  /\ gradedBy \in [SubmissionIds -> SUBSET Questions]
  /\ score \in [SubmissionIds -> Score]
  /\ run \in [Workers -> Run]
  /\ holder \in [SubmissionIds -> Workers \cup {Null}]
  /\ tries \in [SubmissionIds -> Nat]
  /\ stalls \in [SubmissionIds -> Nat]
  /\ call \in [Teachers -> Call]
  /\ early \subseteq SubmissionIds

Answered(sheet) == {q \in Questions : sheet[q] # NoAnswer}
HasManual(sheet) == ~(Answered(sheet) \subseteq AutoQuestions)
AutoMark(sheet, q) == IF sheet[q] = Right THEN Marks[q] ELSE 0
AutoScore(sheet) ==
  MapThenSumSet(LAMBDA q : AutoMark(sheet, q), Answered(sheet) \cap AutoQuestions)
Graded(grades) == {q \in Questions : grades[q] # Null}
ManualScore(grades) == MapThenSumSet(LAMBDA q : grades[q], Graded(grades))

OrZero(n) == IF n = Null THEN 0 ELSE n

\* Slip: the manual score is stored but left out of the total.
FinalisedAutoOnly(auto, manual) == [auto |-> auto, manual |-> manual, total |-> auto]

\* The row finaliseSubmissionScore writes.
Finalised(auto, manual) ==
  [auto |-> auto, manual |-> manual, total |-> auto + OrZero(manual)]

--------------------------------------------------------------------------------
GradingInit ==
  /\ SubInit
  /\ marks = [id \in SubmissionIds |-> [q \in Questions |-> Null]]
  /\ gradedBy = [id \in SubmissionIds |-> {}]
  /\ score = [id \in SubmissionIds |->
                [auto |-> Null, manual |-> Null, total |-> Null]]
  /\ run = [w \in Workers |-> Vacant]
  /\ holder = [id \in SubmissionIds |-> Null]
  /\ tries = [id \in SubmissionIds |-> 0]
  /\ stalls = [id \in SubmissionIds |-> 0]
  /\ call = [t \in Teachers |-> Off]
  /\ early = {}

\* A slot takes a waiting job; autoGradeSubmission reads the attempt with its
\* answers, and everything it writes later comes from that read.
TakeJob(w, id) ==
  /\ run[w] = Vacant
  /\ queue[id] = "waiting"
  /\ queue' = [queue EXCEPT ![id] = "active"]
  /\ holder' = [holder EXCEPT ![id] = w]
  /\ run' = [run EXCEPT ![w] =
               [pc |-> "marking", id |-> id, seen |-> answers[id],
                left |-> Answered(answers[id]) \cap AutoQuestions]]
  /\ UNCHANGED <<studentVars, aborts, marks, gradedBy, score, tries, stalls, call, early>>

\* One of the updates that Promise.all runs side by side.
AwardMark(w, q) ==
  /\ run[w].pc = "marking"
  /\ q \in run[w].left
  /\ marks' = [marks EXCEPT ![run[w].id][q] = AutoMark(run[w].seen, q)]
  /\ run' = [run EXCEPT ![w].left = @ \ {q}]
  /\ UNCHANGED <<subVars, gradedBy, score, holder, tries, stalls, call, early>>

\* Slip: the score is added to what an earlier delivery stored.
StoreAddedScore(w) ==
  /\ run[w].pc = "marking"
  /\ run[w].left = {}
  /\ LET id == run[w].id
         auto == OrZero(score[id].auto) + AutoScore(run[w].seen)
     IN  score' = [score EXCEPT ![id] =
                     IF HasManual(run[w].seen)
                     THEN [@ EXCEPT !.auto = auto]
                     ELSE Finalised(auto, Null)]
  /\ run' = [run EXCEPT ![w].pc = "finishing"]
  /\ UNCHANGED <<subVars, marks, gradedBy, holder, tries, stalls, call, early>>

\* Slip: every attempt is finalised, hasManualQuestions or not.
StoreFinalScore(w) ==
  /\ run[w].pc = "marking"
  /\ run[w].left = {}
  /\ score' = [score EXCEPT ![run[w].id] = Finalised(AutoScore(run[w].seen), Null)]
  /\ run' = [run EXCEPT ![w].pc = "finishing"]
  /\ UNCHANGED <<subVars, marks, gradedBy, holder, tries, stalls, call, early>>

\* After Promise.all: with answers left for the teacher only auto_scores is
\* stored; otherwise finaliseSubmissionScore(id, autoScore, null).
StoreScore(w) ==
  /\ run[w].pc = "marking"
  /\ run[w].left = {}
  /\ LET auto == AutoScore(run[w].seen)
     IN  score' = [score EXCEPT ![run[w].id] =
                     IF HasManual(run[w].seen)
                     THEN [@ EXCEPT !.auto = auto]
                     ELSE Finalised(auto, Null)]
  /\ run' = [run EXCEPT ![w].pc = "finishing"]
  /\ UNCHANGED <<subVars, marks, gradedBy, holder, tries, stalls, call, early>>

\* The processor returns; the job is completed if this run still has the lock.
CompleteJob(w) ==
  /\ run[w].pc = "finishing"
  /\ LET id == run[w].id
     IN  IF holder[id] = w
         THEN /\ queue' = [queue EXCEPT ![id] = "completed"]
              /\ holder' = [holder EXCEPT ![id] = Null]
         ELSE UNCHANGED <<queue, holder>>
  /\ run' = [run EXCEPT ![w] = Vacant]
  /\ UNCHANGED <<studentVars, aborts, marks, gradedBy, score, tries, stalls, call, early>>

\* Slip: a failed job is set aside in a state no worker takes it from.
FailForGood(w) ==
  /\ run[w] # Vacant
  /\ holder[run[w].id] = w
  /\ queue' = [queue EXCEPT ![run[w].id] = "delayed"]
  /\ holder' = [holder EXCEPT ![run[w].id] = Null]
  /\ run' = [run EXCEPT ![w] = Vacant]
  /\ UNCHANGED <<studentVars, aborts, marks, gradedBy, score, tries, stalls, call, early>>

\* Slip: the try that is counted already is counted once more.
FailOneEarly(w) ==
  /\ run[w] # Vacant
  /\ LET id == run[w].id
     IN  IF holder[id] = w
         THEN /\ tries[id] < MaxErrors
              /\ tries' = [tries EXCEPT ![id] = @ + 1]
              /\ queue' = [queue EXCEPT ![id] =
                             IF tries'[id] + 1 < MaxTries THEN "waiting" ELSE "failed"]
              /\ holder' = [holder EXCEPT ![id] = Null]
         ELSE UNCHANGED <<queue, holder, tries>>
  /\ run' = [run EXCEPT ![w] = Vacant]
  /\ UNCHANGED <<studentVars, aborts, marks, gradedBy, score, stalls, call, early>>

\* A statement of the run throws: the job is tried again, up to attempts: 3.
FailJob(w) ==
  /\ run[w] # Vacant
  /\ LET id == run[w].id
     IN  IF holder[id] = w
         THEN /\ tries[id] < MaxErrors
              /\ tries' = [tries EXCEPT ![id] = @ + 1]
              /\ queue' = [queue EXCEPT ![id] =
                             IF tries'[id] < MaxTries THEN "waiting" ELSE "failed"]
              /\ holder' = [holder EXCEPT ![id] = Null]
         ELSE UNCHANGED <<queue, holder, tries>>
  /\ run' = [run EXCEPT ![w] = Vacant]
  /\ UNCHANGED <<studentVars, aborts, marks, gradedBy, score, stalls, call, early>>

\* The lock of a job expires: its process died, or is stalled and goes on.
LoseLock(w) ==
  /\ run[w] # Vacant
  /\ LET id == run[w].id
     IN  /\ holder[id] = w
         /\ stalls[id] < MaxStalls
         /\ stalls' = [stalls EXCEPT ![id] = @ + 1]
         /\ queue' = [queue EXCEPT ![id] =
                        IF stalls[id] < StallLimit THEN "waiting" ELSE "failed"]
         /\ holder' = [holder EXCEPT ![id] = Null]
  /\ run' \in {run, [run EXCEPT ![w] = Vacant]}
  /\ UNCHANGED <<studentVars, aborts, marks, gradedBy, score, tries, call, early>>

\* removeOnComplete / removeOnFail: enough later jobs push a finished one out,
\* and its jobId is free again.
EvictJob(id) ==
  /\ queue[id] \in {"completed", "failed"}
  /\ queue' = [queue EXCEPT ![id] = "none"]
  /\ tries' = [tries EXCEPT ![id] = 0]
  /\ stalls' = [stalls EXCEPT ![id] = 0]
  /\ UNCHANGED <<studentVars, aborts, marks, gradedBy, score, run, holder, call, early>>

\* gradeManualAnswers reads the attempt: from it, only auto_scores is used.
GradeManualAnswers(t, id, grades) ==
  /\ call[t] = Off
  /\ id \in Live
  /\ Graded(grades) # {} /\ Graded(grades) \subseteq Answered(answers[id])
  /\ call' = [call EXCEPT ![t] = [pc |-> "marking", id |-> id,
                                  auto |-> score[id].auto, grades |-> grades]]
  /\ UNCHANGED <<subVars, marks, gradedBy, score, run, holder, tries, stalls, early>>

\* Slip: the bound on marks_awarded is not checked.
MarkUnbounded(t) ==
  /\ call[t].pc = "marking"
  /\ LET id == call[t].id
         given == Graded(call[t].grades)
     IN  /\ marks' = [marks EXCEPT ![id] =
              [q \in Questions |-> IF q \in given THEN call[t].grades[q] ELSE @[q]]]
         /\ gradedBy' = [gradedBy EXCEPT ![id] = @ \cup given]
  /\ call' = [call EXCEPT ![t].pc = "finalising"]
  /\ UNCHANGED <<subVars, score, run, holder, tries, stalls, early>>

\* The transaction over all grades; one grade above its question's marks rolls
\* all of them back.
MarkAnswers(t) ==
  /\ call[t].pc = "marking"
  /\ LET id == call[t].id
         given == Graded(call[t].grades)
     IN  IF \E q \in given : call[t].grades[q] > Marks[q]
         THEN /\ call' = [call EXCEPT ![t] = Off]
              /\ UNCHANGED <<marks, gradedBy>>
         ELSE /\ call' = [call EXCEPT ![t].pc = "finalising"]
              /\ marks' = [marks EXCEPT ![id] =
                   [q \in Questions |-> IF q \in given THEN call[t].grades[q] ELSE @[q]]]
              /\ gradedBy' = [gradedBy EXCEPT ![id] = @ \cup given]
  /\ UNCHANGED <<subVars, score, run, holder, tries, stalls, early>>

\* finaliseSubmissionScore(id, submission?.auto_scores ?? 0, manualScore).
FinaliseManual(t) ==
  /\ call[t].pc = "finalising"
  /\ LET id == call[t].id
     IN  /\ score' = [score EXCEPT ![id] =
                        Finalised(OrZero(call[t].auto), ManualScore(call[t].grades))]
         /\ early' = IF call[t].auto = Null THEN early \cup {id} ELSE early
  /\ call' = [call EXCEPT ![t] = Off]
  /\ UNCHANGED <<subVars, marks, gradedBy, run, holder, tries, stalls>>

\* The request dies between its transaction and the final update.
AbortCall(t) ==
  /\ call[t] # Off
  /\ aborts < MaxAborts
  /\ aborts' = aborts + 1
  /\ call' = [call EXCEPT ![t] = Off]
  /\ UNCHANGED <<studentVars, queue, marks, gradedBy, score, run, holder, tries, stalls, early>>

\* The steps a running job takes by itself.
ProcessJob(w) ==
  \/ \E q \in Questions : AwardMark(w, q)
  \/ StoreScore(w)
  \/ CompleteJob(w)

GradingNext ==
  \/ SubNext /\ UNCHANGED gradeVars
  \/ \E w \in Workers :
       \/ \E id \in SubmissionIds : TakeJob(w, id)
       \/ ProcessJob(w)
       \/ FailJob(w)
       \/ LoseLock(w)
  \/ \E id \in SubmissionIds : EvictJob(id)
  \/ \E t \in Teachers :
       \/ \E id \in SubmissionIds, grades \in Grades : GradeManualAnswers(t, id, grades)
       \/ MarkAnswers(t)
       \/ FinaliseManual(t)
       \/ AbortCall(t)

GradingSpec == GradingInit /\ [][GradingNext]_vars

\* The server keeps serving requests and the worker keeps taking and running
\* jobs: both are event loops.  Students, teachers, errors, lock expirations
\* and evictions are owed nothing.
FairGradingSpec ==
  /\ GradingSpec
  /\ \A h \in Handlers : WF_vars(Proceed(h) /\ UNCHANGED gradeVars)
  /\ \A w \in Workers : WF_vars(ProcessJob(w))
  /\ \A id \in SubmissionIds : WF_vars(\E w \in Workers : TakeJob(w, id))

--------------------------------------------------------------------------------
(***************************************************************************)
(* Properties                                                              *)
(***************************************************************************)

\* "Marks awarded cannot be greater than the question marks": true of every
\* stored mark, whoever wrote it and whatever part of a grading was retried.
MarksWithinQuestion ==
  \A id \in SubmissionIds, q \in Questions :
    marks[id][q] # Null => marks[id][q] <= Marks[q]

\* At-least-once grading is idempotent.  When the job of an attempt is done,
\* all of whose answers are auto-gradable, which no teacher touched and no late
\* request rewrote, then the stored marks and score are those of the stored
\* answers, however often the job threw half way, was delivered twice or ran
\* in two slots at once.
CompletedScoreIsRight ==
  \A id \in SubmissionIds :
    /\ queue[id] = "completed"
    /\ id \notin lateWrites /\ gradedBy[id] = {}
    /\ ~HasManual(answers[id])
    => /\ score[id] = Finalised(AutoScore(answers[id]), Null)
       /\ \A q \in Answered(answers[id]) : marks[id][q] = AutoMark(answers[id], q)

\* The total is the sum of its parts, unless a teacher finalised the attempt
\* before its auto score was there (early), or its answers were rewritten
\* after hand-in: a redelivered job does not push the parts apart.
TotalIsSum ==
  \A id \in SubmissionIds \ (early \cup lateWrites) :
    score[id].total # Null => score[id].total = score[id].auto + OrZero(score[id].manual)

\* A job that runs (again) after the teacher graded an attempt with manual
\* answers never wipes the teacher's score.
ManualScoreSurvives ==
  [][\A id \in SubmissionIds :
       (score[id].manual # Null /\ HasManual(answers[id]) /\ id \notin lateWrites)
         => score'[id].manual # Null]_vars

\* The worker's result is there: a mark for every answer it can mark, and the
\* auto score of the stored answers.
AutoGraded(id) ==
  /\ score[id].auto = AutoScore(answers[id])
  /\ \A q \in Answered(answers[id]) \cap AutoQuestions : marks[id][q] # Null

\* BullMQ gave the job up: all its tries threw, or it stalled too often.
GivenUp(id) == queue[id] = "failed" /\ (tries[id] = MaxTries \/ stalls[id] > StallLimit)

\* There is no job, nor a request about to add one, because a request died.
NeverQueued(id) ==
  /\ aborts > 0
  /\ queue[id] = "none"
  /\ \A h \in Handlers : ~(req[h].pc = "enqueueing" /\ req[h].id = id)

\* An attempt that was handed in gets the auto score of its answers, although
\* jobs throw, locks expire and teachers finalise on the way; but for the jobs
\* that were given up and the hand-ins that died before they queued theirs, and
\* for answers that a late request rewrote.
HandedInIsGraded ==
  \A id \in SubmissionIds :
    <>Submitted(id) => <>(AutoGraded(id) \/ GivenUp(id) \/ NeverQueued(id) \/ id \in lateWrites)

================================================================================
