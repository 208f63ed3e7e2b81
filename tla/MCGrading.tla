------------------------------- MODULE MCGrading -------------------------------
(***************************************************************************)
(* Small instances of Grading for TLC: one auto-gradable and one manual    *)
(* question.                                                               *)
(***************************************************************************)
EXTENDS Grading, TLC

CONSTANTS qa, qm, right, wrong

MCMarks == (qa :> 1) @@ (qm :> 2)

================================================================================
