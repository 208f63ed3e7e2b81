------------------------------- MODULE ExamAccess -------------------------------
(***************************************************************************)
(* One assessment seen from both sides: the staff that writes, approves    *)
(* and removes it (Approval) and the students that take it (Submissions).  *)
(* The sides share the assessments row: startSubmission needs it to exist, *)
(* and an attempt refers to it by a foreign key that restricts deletion.   *)
(***************************************************************************)
EXTENDS Submissions, Approval

accessVars == <<subVars, approvalVars>>

--------------------------------------------------------------------------------
AccessInit == SubInit /\ ApprovalInit

\* findOne in startSubmission: 404 unless the row exists, in whatever status.
Start(h, s) == Exists /\ StartSubmission(h, s)

\* The insert of an attempt of an assessment that is gone fails.
Create(h) ==
  IF Exists
  THEN CreateAttempt(h)
  ELSE /\ req[h].pc = "creating"
       /\ req' = [req EXCEPT ![h] = Idle]
       /\ UNCHANGED <<now, row, answers, queue, aborts, lateWrites>>

\* Slip: deleting the assessment looks at its approval log only.
RemoveAnyway(h) == Delete(h)

\* assessment.delete: refused while an attempt refers to the row.
RemoveUnlessTaken(h) ==
  IF Live = {}
  THEN Delete(h)
  ELSE /\ work[h].pc = "removing"
       /\ Finish(h)
       /\ UNCHANGED <<settings, status, questions, revision, log, sent, deaths>>

\* A student's request, once its attempt is found.
Answer(h) ==
  \/ \E id \in SubmissionIds, given \in Sheet : AutoSave(h, id, given) \/ SubmitAnswers(h, id, given)
  \/ CountAttempts(h) \/ SaveProgress(h) \/ CheckDeadline(h)
  \/ CommitSubmission(h) \/ QueueAutoGrading(h) \/ Abort(h)

AccessNext ==
  \/ /\ \/ Tick
        \/ \E h \in Handlers : Create(h) \/ Answer(h) \/ \E s \in Students : Start(h, s)
     /\ UNCHANGED approvalVars
  \/ /\ \E h \in Staff : RemoveUnlessTaken(h) \/ Teach(h) \/ Review(h) \/ Die(h)
     /\ UNCHANGED subVars

AccessSpec == AccessInit /\ [][AccessNext]_accessVars

--------------------------------------------------------------------------------
\* No attempt outlives its assessment: a start that found the draft and a
\* remove that found it without attempts may overlap in any order.
AttemptsKeepAssessment == Live # {} => Exists

================================================================================
