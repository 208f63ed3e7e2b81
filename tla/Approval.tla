-------------------------------- MODULE Approval --------------------------------
(***************************************************************************)
(* The staff side of one assessment: creating, editing, publishing and     *)
(* removing it (assessment.service.ts), and the approval workflow for      *)
(* exams (approval-workflow.service.ts).                                   *)
(*                                                                         *)
(* A request reads the row, checks what it read, and writes in a later     *)
(* statement that looks at nothing but the id: work[h] is what request h   *)
(* still has to do on the strength of what it read.  The status and its    *)
(* approval_logs entry are written in one transaction, the notification    *)
(* after it.                                                               *)
(***************************************************************************)
EXTENDS Naturals, Sequences, FiniteSets

CONSTANTS
  Staff,      \* requests of teachers and admins in flight at the same time
  MaxLog,     \* bound: no publish, approve or reject is accepted beyond it
  MaxEdits,   \* bound: no update is accepted beyond it
  MaxDeaths   \* bound: requests that die half way

ASSUME ApprovalAssumption == {MaxLog, MaxEdits, MaxDeaths} \subseteq Nat

VARIABLES
  exam,       \* assessment.type = EXAM
  required,   \* schoolConfig.require_exam_approval
  status,     \* assessment.status, or that the row does not exist (any more)
  questions,  \* whether the assessment has questions
  revision,   \* how often the assessment was edited
  log,        \* approval_logs.action of the assessment, in commit order
  notices,    \* how many notifications of each kind were sent
  unheard,    \* history: how many of each kind found nobody to be sent to
  work,       \* the requests in flight
  deaths      \* requests that died half way

settings == <<exam, required>>
sent == <<notices, unheard>>
approvalVars == <<settings, status, questions, revision, log, sent, work, deaths>>

--------------------------------------------------------------------------------
Status == {"DRAFT", "PENDING_APPROVAL", "APPROVED", "REJECTED", "PUBLISHED"}
ApprovalAction == {"SUBMITTED_FOR_REVIEW", "APPROVED", "REJECTED"}

\* The status a logged action leaves behind.
StatusAfter(action) ==
  IF action = "SUBMITTED_FOR_REVIEW" THEN "PENDING_APPROVAL" ELSE action

Free == [pc |-> "free"]
Work ==
  {Free} \cup [pc : {"adding", "publishing", "opening", "editing", "removing", "releasing"}]
         \cup [pc : {"deciding", "notifying"}, action : ApprovalAction]

\* The type invariant of the component.
ApprovalTypeOK ==
  /\ exam \in BOOLEAN /\ required \in BOOLEAN
  /\ status \in Status \cup {"ABSENT", "DELETED"}
  /\ questions \in BOOLEAN
  /\ revision \in Nat
  /\ log \in Seq(ApprovalAction)
  /\ notices \in [ApprovalAction -> Nat]
  /\ unheard \in [ApprovalAction -> Nat]
  /\ work \in [Staff -> Work]
  /\ deaths \in Nat

Exists == status \in Status
Logged(action) == \E i \in DOMAIN log : log[i] = action
Count(action) == Cardinality({i \in DOMAIN log : log[i] = action})
Notifying(action) == {h \in Staff : work[h] = [pc |-> "notifying", action |-> action]}

--------------------------------------------------------------------------------
ApprovalInit ==
  /\ exam \in BOOLEAN /\ required \in BOOLEAN
  /\ status = "ABSENT"
  /\ questions = FALSE
  /\ revision = 0
  /\ log = <<>>
  /\ notices = [action \in ApprovalAction |-> 0]
  /\ unheard = [action \in ApprovalAction |-> 0]
  /\ work = [h \in Staff |-> Free]
  /\ deaths = 0

\* A request has read the row and goes on to a later step.
Accept(h, next) ==
  /\ work[h] = Free
  /\ work' = [work EXCEPT ![h] = next]
  /\ UNCHANGED <<settings, status, questions, revision, log, sent, deaths>>

\* The last statement of a request; P2025 if the row is gone.
Finish(h) == work' = [work EXCEPT ![h] = Free]

\* createAssessment inserts the DRAFT row, and the questions in a second
\* statement of no common transaction (CreateAssessmentDto: at least one).
CreateAssessment(h) ==
  /\ work[h] = Free
  /\ status = "ABSENT"
  /\ status' = "DRAFT"
  /\ work' = [work EXCEPT ![h] = [pc |-> "adding"]]
  /\ UNCHANGED <<settings, questions, revision, log, sent, deaths>>

AddQuestions(h) ==
  /\ work[h].pc = "adding"
  /\ questions' = Exists
  /\ Finish(h)
  /\ UNCHANGED <<settings, status, revision, log, sent, deaths>>

\* publish: findOne and assertDraftStatus ...
Publish(h) ==
  /\ status = "DRAFT"
  /\ Len(log) < MaxLog
  /\ Accept(h, [pc |-> "publishing"])

\* Slip: questions are only asserted on the way to the approval queue.
AssertQuestionsOfExams(h) ==
  /\ work[h].pc = "publishing"
  /\ work' = [work EXCEPT ![h] =
       IF ~(exam /\ required) THEN [pc |-> "opening"]
       ELSE IF questions THEN [pc |-> "deciding", action |-> "SUBMITTED_FOR_REVIEW"]
       ELSE Free]
  /\ UNCHANGED <<settings, status, questions, revision, log, sent, deaths>>

\* ... then assertQuestionsExist, then the choice between the queue of exams
\* to approve and PUBLISHED.
AssertQuestionsExist(h) ==
  /\ work[h].pc = "publishing"
  /\ work' = [work EXCEPT ![h] =
       IF ~questions THEN Free
       ELSE IF exam /\ required
            THEN [pc |-> "deciding", action |-> "SUBMITTED_FOR_REVIEW"]
            ELSE [pc |-> "opening"]]
  /\ UNCHANGED <<settings, status, questions, revision, log, sent, deaths>>

\* The update at the end of publish.
OpenToStudents(h) ==
  /\ work[h].pc = "opening"
  /\ status' = IF Exists THEN "PUBLISHED" ELSE status
  /\ Finish(h)
  /\ UNCHANGED <<settings, questions, revision, log, sent, deaths>>

\* approve and reject: the approver's role is checked, the status is not.
Approve(h) ==
  /\ Exists
  /\ Len(log) < MaxLog
  /\ Accept(h, [pc |-> "deciding", action |-> "APPROVED"])

Reject(h) ==
  /\ Exists
  /\ Len(log) < MaxLog
  /\ Accept(h, [pc |-> "deciding", action |-> "REJECTED"])

\* Slip: the status changes without its log entry.
DecideSilently(h) ==
  /\ work[h].pc = "deciding"
  /\ status' = IF Exists THEN StatusAfter(work[h].action) ELSE status
  /\ Finish(h)
  /\ UNCHANGED <<settings, questions, revision, log, sent, deaths>>

\* Slip: the notification goes out inside the transaction, before it fails.
NotifyFirst(h) ==
  /\ work[h].pc = "deciding"
  /\ notices' = [notices EXCEPT ![work[h].action] = @ + 1]
  /\ IF Exists
     THEN /\ status' = StatusAfter(work[h].action)
          /\ log' = Append(log, work[h].action)
     ELSE UNCHANGED <<status, log>>
  /\ Finish(h)
  /\ UNCHANGED <<settings, questions, revision, unheard, deaths>>

\* The transaction of submitForApproval, approve and reject.
Decide(h) ==
  /\ work[h].pc = "deciding"
  /\ IF Exists
     THEN /\ status' = StatusAfter(work[h].action)
          /\ log' = Append(log, work[h].action)
          /\ work' = [work EXCEPT ![h].pc = "notifying"]
     ELSE /\ Finish(h)
          /\ UNCHANGED <<status, log>>
  /\ UNCHANGED <<settings, questions, revision, sent, deaths>>

\* notifyApproversOfPendingItem, notifyExamApproved and notifyExamRejected look
\* for the recipients, and return without a word when no approver is active or
\* the teacher has no account (any more): either may be the case at any time.
Notify(h) ==
  /\ work[h].pc = "notifying"
  /\ \/ notices' = [notices EXCEPT ![work[h].action] = @ + 1] /\ UNCHANGED unheard
     \/ unheard' = [unheard EXCEPT ![work[h].action] = @ + 1] /\ UNCHANGED notices
  /\ Finish(h)
  /\ UNCHANGED <<settings, status, questions, revision, log, deaths>>

\* Slip: the status is compared with the one it must not have.
PublishNotRejected(h) ==
  /\ status \in Status \ {"REJECTED"}
  /\ Accept(h, [pc |-> "releasing"])

\* publishApproved reads APPROVED ...
PublishApproved(h) ==
  /\ status = "APPROVED"
  /\ Accept(h, [pc |-> "releasing"])

\* ... and writes PUBLISHED.
Release(h) ==
  /\ work[h].pc = "releasing"
  /\ status' = IF Exists THEN "PUBLISHED" ELSE status
  /\ Finish(h)
  /\ UNCHANGED <<settings, questions, revision, log, sent, deaths>>

\* Slip: update accepts whatever is not published yet.
UpdateUnpublished(h) ==
  /\ status \in {"DRAFT", "PENDING_APPROVAL"}
  /\ revision < MaxEdits
  /\ Accept(h, [pc |-> "editing"])

\* update reads a draft; its write comes in a later statement.
Update(h) ==
  /\ status = "DRAFT"
  /\ revision < MaxEdits
  /\ Accept(h, [pc |-> "editing"])

Edit(h) ==
  /\ work[h].pc = "editing"
  /\ revision' = IF Exists THEN revision + 1 ELSE revision
  /\ Finish(h)
  /\ UNCHANGED <<settings, status, questions, log, sent, deaths>>

Remove(h) ==
  /\ status = "DRAFT"
  /\ Accept(h, [pc |-> "removing"])

\* Slip: approval_logs cascades instead of restricting.
DeleteCascading(h) ==
  /\ work[h].pc = "removing"
  /\ status' = "DELETED"
  /\ questions' = FALSE
  /\ Finish(h)
  /\ UNCHANGED <<settings, revision, log, sent, deaths>>

\* The questions go with the row; a logged action forbids it (ON DELETE
\* RESTRICT of approval_logs).
Delete(h) ==
  /\ work[h].pc = "removing"
  /\ IF Exists /\ log = <<>>
     THEN status' = "DELETED" /\ questions' = FALSE
     ELSE UNCHANGED <<status, questions>>
  /\ Finish(h)
  /\ UNCHANGED <<settings, revision, log, sent, deaths>>

\* A request dies at an await.
Die(h) ==
  /\ work[h] # Free
  /\ deaths < MaxDeaths
  /\ deaths' = deaths + 1
  /\ Finish(h)
  /\ UNCHANGED <<settings, status, questions, revision, log, sent>>

\* The steps of teachers, and those of admins.
Teach(h) ==
  \/ CreateAssessment(h) \/ AddQuestions(h)
  \/ Publish(h) \/ AssertQuestionsExist(h) \/ OpenToStudents(h)
  \/ PublishApproved(h) \/ Release(h)
  \/ Update(h) \/ Edit(h)
  \/ Remove(h)
Review(h) == Approve(h) \/ Reject(h) \/ Decide(h) \/ Notify(h)

ApprovalNext == \E h \in Staff : Teach(h) \/ Delete(h) \/ Review(h) \/ Die(h)

ApprovalSpec == ApprovalInit /\ [][ApprovalNext]_approvalVars

--------------------------------------------------------------------------------
(***************************************************************************)
(* Properties                                                              *)
(***************************************************************************)

\* "exams go to approval queue, others publish immediately": however the
\* requests of teachers and admins overlap, an exam of a school that requires
\* approval is never visible to students without an approval on record.
NeverPublishedUnapproved ==
  exam /\ required /\ status = "PUBLISHED" => Logged("APPROVED")

\* The audit trail agrees with the assessment: a status of the workflow is the
\* one the last logged action leaves.
LogShowsStatus ==
  status \in {"PENDING_APPROVAL", "APPROVED", "REJECTED"} =>
    log # <<>> /\ status = StatusAfter(log[Len(log)])

\* An assessment whose approval left a trail is never deleted, even by a
\* remove that read it as a draft before the trail began.
TrailKeepsAssessment == log # <<>> => Exists

\* What became of a notification: it was sent, or there was nobody to send it to.
Settled(action) == notices[action] + unheard[action]

\* Each logged action is notified once, is about to be, found neither approver
\* nor teacher when it was to be notified, or its request died.
NoticesMatchLog ==
  \A action \in ApprovalAction :
    LET told == Settled(action) + Cardinality(Notifying(action))
    IN  told <= Count(action) /\ Count(action) <= told + deaths

\* "Update an assessment - draft only": an edit that lands after the exam went
\* to approval overlapped that step.  Once the edits that read a draft have
\* drained, what the approver or the student sees is never edited again.
EditsDrain ==
  [][(status # "DRAFT" /\ ~\E h \in Staff : work[h].pc = "editing")
       => revision' = revision /\ ~\E h \in Staff : work'[h].pc = "editing"]_approvalVars

\* "Assessment must have at least one question.": the questions come in a
\* statement after the row and may never come, yet what was published without
\* going through a review has them.
UnreviewedHasQuestions ==
  status = "PUBLISHED" /\ ~Logged("APPROVED") => questions

================================================================================
