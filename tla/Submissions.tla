------------------------------ MODULE Submissions ------------------------------
(***************************************************************************)
(* The student side of one assessment (assessment.service.ts): starting an *)
(* attempt, auto-saving it, handing it in, and putting the attempt on the  *)
(* grading queue.                                                          *)
(*                                                                         *)
(* Every HTTP request is a handler h with a local state req[h]; each await *)
(* on PostgreSQL or Redis ends a step, so the requests of a student with   *)
(* two tabs, a double click or a slow auto-save interleave between any two *)
(* of them.  A prisma.$transaction is one step: both transactions here     *)
(* upsert answers of one attempt, and the row locks serialise them.        *)
(*                                                                         *)
(* The assessment itself (window, max_attempts, questions) is constant:    *)
(* UpdateAssessmentDto carries neither max_attempts nor questions, and the *)
(* window moves only while the assessment is a draft.                      *)
(***************************************************************************)
EXTENDS Naturals, FiniteSets

CONSTANTS
  Students,       \* the students of the class
  Questions,      \* the questions of the assessment
  Contents,       \* what an answer can say
  NoAnswer,       \* "no submission_answers row for this question"
  SubmissionIds,  \* uuids available to assessment_submissions rows
  NoRow,          \* "this uuid is not in the table"
  Handlers,       \* requests that can be in flight at the same time
  MaxAttempts,    \* assessment.max_attempts ?? 1
  StartTime, EndTime,  \* the assessment's window
  Horizon,        \* bound: the clock stops here
  MaxAborts       \* bound: requests that die half way

ASSUME SubmissionsAssumption ==
  /\ MaxAttempts \in Nat \ {0}
  /\ StartTime \in Nat /\ EndTime \in Nat /\ Horizon \in Nat /\ MaxAborts \in Nat
  /\ NoAnswer \notin Contents
  /\ IsFiniteSet(SubmissionIds)
  /\ NoRow \notin [student : Students, attempt : Nat, submitted : BOOLEAN]

VARIABLES
  now,        \* the server's clock
  row,        \* assessment_submissions, by uuid
  answers,    \* submission_answers: answers[id][q]
  queue,      \* BullMQ queue "grading": the state of job grade-<id>
  req,        \* the requests in flight
  aborts,     \* requests that died half way
  lateWrites  \* history: attempts whose answers were written after hand-in

subVars == <<now, row, answers, queue, req, aborts, lateWrites>>

--------------------------------------------------------------------------------
Row == [student : Students, attempt : Nat, submitted : BOOLEAN]

\* The answers of an attempt, and also the array a request carries: a question
\* it does not mention is mapped to NoAnswer.
Sheet == [Questions -> Contents \cup {NoAnswer}]
EmptySheet == [q \in Questions |-> NoAnswer]

JobState == {"none", "waiting", "active", "completed", "failed"}

Idle == [pc |-> "idle"]

Request ==
  {Idle} \cup [pc : {"counting"}, student : Students]
         \cup [pc : {"creating"}, student : Students, count : Nat]
         \cup [pc : {"saving", "checking", "committing"},
               id : SubmissionIds, given : Sheet]
         \cup [pc : {"enqueueing"}, id : SubmissionIds]

\* The type invariant of the component.
TypeOK ==
  /\ now \in Nat
  /\ row \in [SubmissionIds -> Row \cup {NoRow}]
  /\ answers \in [SubmissionIds -> Sheet]
  /\ queue \in [SubmissionIds -> JobState]
  /\ req \in [Handlers -> Request]
  /\ aborts \in Nat
  /\ lateWrites \subseteq SubmissionIds

Live == {id \in SubmissionIds : row[id] # NoRow}
AttemptsOf(s) == {id \in Live : row[id].student = s}
Submitted(id) == id \in Live /\ row[id].submitted

\* The upserts of one transaction: later content replaces earlier content,
\* unmentioned questions keep theirs.
Merge(old, given) ==
  [q \in Questions |-> IF given[q] = NoAnswer THEN old[q] ELSE given[q]]

Holds(h, id) ==
  /\ req[h].pc \in {"saving", "checking", "committing"}
  /\ req[h].id = id

--------------------------------------------------------------------------------
SubInit ==
  /\ now = 0
  /\ row = [id \in SubmissionIds |-> NoRow]
  /\ answers = [id \in SubmissionIds |-> EmptySheet]
  /\ queue = [id \in SubmissionIds |-> "none"]
  /\ req = [h \in Handlers |-> Idle]
  /\ aborts = 0
  /\ lateWrites = {}

Tick ==
  /\ now < Horizon
  /\ now' = now + 1
  /\ UNCHANGED <<row, answers, queue, req, aborts, lateWrites>>

\* validateTimeWindow.
WithinTimeWindow == StartTime <= now /\ now <= EndTime

\* startSubmission up to validateTimeWindow.  The status of the assessment is
\* not read.
StartSubmission(h, s) ==
  /\ req[h] = Idle
  /\ WithinTimeWindow
  /\ req' = [req EXCEPT ![h] = [pc |-> "counting", student |-> s]]
  /\ UNCHANGED <<now, row, answers, queue, aborts, lateWrites>>

\* assessmentSubmission.count, and the limit check on what it returned.
CountAttempts(h) ==
  /\ req[h].pc = "counting"
  /\ LET s == req[h].student
         n == Cardinality(AttemptsOf(s))
     IN  req' = [req EXCEPT ![h] =
                   IF n < MaxAttempts
                   THEN [pc |-> "creating", student |-> s, count |-> n]
                   ELSE Idle]
  /\ UNCHANGED <<now, row, answers, queue, aborts, lateWrites>>

\* Slip: the unique index is missing.
CreateUnindexed(h) ==
  /\ req[h].pc = "creating"
  /\ \E id \in SubmissionIds \ Live :
       row' = [row EXCEPT ![id] = [student |-> req[h].student,
                                   attempt |-> req[h].count + 1,
                                   submitted |-> FALSE]]
  /\ req' = [req EXCEPT ![h] = Idle]
  /\ UNCHANGED <<now, answers, queue, aborts, lateWrites>>

\* assessmentSubmission.create.  The unique index on (assessment_id,
\* student_id, attempt_number) refuses a number that is taken.
CreateAttempt(h) ==
  /\ req[h].pc = "creating"
  /\ LET s == req[h].student
         k == req[h].count + 1
     IN  IF \E id \in AttemptsOf(s) : row[id].attempt = k
         THEN UNCHANGED row
         ELSE \E id \in SubmissionIds \ Live :
                row' = [row EXCEPT ![id] =
                          [student |-> s, attempt |-> k, submitted |-> FALSE]]
  /\ req' = [req EXCEPT ![h] = Idle]
  /\ UNCHANGED <<now, answers, queue, aborts, lateWrites>>

\* Slip: the where clause forgets is_submitted: false.
GetAnySubmission(h, id, given, next) ==
  /\ req[h] = Idle
  /\ id \in Live
  /\ req' = [req EXCEPT ![h] = [pc |-> next, id |-> id, given |-> given]]
  /\ UNCHANGED <<now, row, answers, queue, aborts, lateWrites>>

\* getActiveSubmission, the first read of autoSave and of submitAnswers.  The
\* owner asks; anybody else gets a 404.
GetActiveSubmission(h, id, given, next) ==
  /\ req[h] = Idle
  /\ id \in Live /\ ~row[id].submitted
  /\ req' = [req EXCEPT ![h] = [pc |-> next, id |-> id, given |-> given]]
  /\ UNCHANGED <<now, row, answers, queue, aborts, lateWrites>>

AutoSave(h, id, given) == GetActiveSubmission(h, id, given, "saving")

\* SubmitAnswersDto is @ArrayNotEmpty.
SubmitAnswers(h, id, given) ==
  /\ given # EmptySheet
  /\ GetActiveSubmission(h, id, given, "checking")

\* What both transactions do to submission_answers.
WriteAnswers(id, given) ==
  /\ answers' = [answers EXCEPT ![id] = Merge(@, given)]
  /\ lateWrites' = IF Submitted(id) THEN lateWrites \cup {id} ELSE lateWrites

\* Slip: autoSave also writes the attempt it read, is_submitted included.
SaveReopening(h) ==
  /\ req[h].pc = "saving"
  /\ WriteAnswers(req[h].id, req[h].given)
  /\ row' = [row EXCEPT ![req[h].id].submitted = FALSE]
  /\ req' = [req EXCEPT ![h] = Idle]
  /\ UNCHANGED <<now, queue, aborts>>

\* The transaction of autoSave: is_submitted is not looked at again.
SaveProgress(h) ==
  /\ req[h].pc = "saving"
  /\ WriteAnswers(req[h].id, req[h].given)
  /\ req' = [req EXCEPT ![h] = Idle]
  /\ UNCHANGED <<now, row, queue, aborts>>

\* Slip: the job is added before the transaction instead of after it.
QueueThenCommit(h) ==
  /\ req[h].pc = "checking"
  /\ req' = [req EXCEPT ![h] =
               IF now > EndTime THEN Idle ELSE [@ EXCEPT !.pc = "committing"]]
  /\ queue' = IF now > EndTime THEN queue
              ELSE [queue EXCEPT ![req[h].id] = "waiting"]
  /\ UNCHANGED <<now, row, answers, aborts, lateWrites>>

\* isLate in submitAnswers: after the deadline the request throws.
CheckDeadline(h) ==
  /\ req[h].pc = "checking"
  /\ req' = [req EXCEPT ![h] =
               IF now > EndTime THEN Idle ELSE [@ EXCEPT !.pc = "committing"]]
  /\ UNCHANGED <<now, row, answers, queue, aborts, lateWrites>>

\* The transaction of submitAnswers: the answers and is_submitted together.
CommitSubmission(h) ==
  /\ req[h].pc = "committing"
  /\ LET id == req[h].id
     IN  /\ WriteAnswers(id, req[h].given)
         /\ row' = [row EXCEPT ![id].submitted = TRUE]
         /\ req' = [req EXCEPT ![h] = [pc |-> "enqueueing", id |-> id]]
  /\ UNCHANGED <<now, queue, aborts>>

\* queueAutoGrading, after the commit.  BullMQ ignores an add whose jobId is
\* already in the queue, in whatever state.
QueueAutoGrading(h) ==
  /\ req[h].pc = "enqueueing"
  /\ queue' = [queue EXCEPT ![req[h].id] = IF @ = "none" THEN "waiting" ELSE @]
  /\ req' = [req EXCEPT ![h] = Idle]
  /\ UNCHANGED <<now, row, answers, aborts, lateWrites>>

\* A request dies at an await: the process restarts, or PostgreSQL or Redis
\* returns an error.  Nothing is undone and nothing is resumed.
Abort(h) ==
  /\ req[h] # Idle
  /\ aborts < MaxAborts
  /\ aborts' = aborts + 1
  /\ req' = [req EXCEPT ![h] = Idle]
  /\ UNCHANGED <<now, row, answers, queue, lateWrites>>

\* The steps a request that is in flight takes by itself.
Proceed(h) ==
  \/ CountAttempts(h)
  \/ CreateAttempt(h)
  \/ SaveProgress(h)
  \/ CheckDeadline(h)
  \/ CommitSubmission(h)
  \/ QueueAutoGrading(h)

SubNext ==
  \/ Tick
  \/ \E h \in Handlers :
       \/ \E s \in Students : StartSubmission(h, s)
       \/ \E id \in SubmissionIds, given \in Sheet :
            AutoSave(h, id, given) \/ SubmitAnswers(h, id, given)
       \/ Proceed(h)
       \/ Abort(h)

SubSpec == SubInit /\ [][SubNext]_subVars

--------------------------------------------------------------------------------
(***************************************************************************)
(* Safety                                                                  *)
(***************************************************************************)

\* No student ever has more than max_attempts attempts, although the limit is
\* checked on a count that may be stale when the row is created: two racing
\* startSubmission calls both see the same count.
AttemptLimit ==
  \A s \in Students : Cardinality(AttemptsOf(s)) <= MaxAttempts

\* The attempts of a student are numbered 1, 2, ..., n, each once: no racing
\* pair of starts leaves a gap or a duplicate for the next count to trip over.
AttemptsNumbered ==
  \A s \in Students :
    {row[id].attempt : id \in AttemptsOf(s)} = 1..Cardinality(AttemptsOf(s))

\* A grading job exists only for an attempt that was handed in: the job is
\* added after the commit, so a worker never grades a half-written attempt.
QueuedOnlySubmitted ==
  \A id \in SubmissionIds : queue[id] # "none" => Submitted(id)

\* Once an attempt is handed in and the requests that had read it as active
\* have drained, its answers never change again, and no request gets hold of
\* it any more: the exposure is limited to requests that overlap the hand-in.
FrozenOnceDrained ==
  [][\A id \in SubmissionIds :
       (Submitted(id) /\ ~\E h \in Handlers : Holds(h, id))
         => /\ answers'[id] = answers[id]
            /\ Submitted(id)'
            /\ ~\E h \in Handlers : Holds(h, id)']_subVars

--------------------------------------------------------------------------------
(***************************************************************************)
(* What the component promises: AttemptLedger, read off the table.         *)
(***************************************************************************)
Taken == [s \in Students |-> Cardinality(AttemptsOf(s))]
Closed == [s \in Students |->
             {row[id].attempt : id \in {i \in AttemptsOf(s) : row[i].submitted}}]

Ledger == INSTANCE AttemptLedger WITH taken <- Taken, closed <- Closed

\* startSubmission hands out the attempts of a student one by one up to the
\* limit, and submitAnswers closes each of them for good: a lost race, a
\* repeated submit or a request that dies is invisible at that level.
ImplementsLedger == Ledger!Spec

================================================================================
