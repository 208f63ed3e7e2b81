------------------------------ MODULE MCExamAccess ------------------------------
(***************************************************************************)
(* Small instances of ExamAccess for TLC.                                  *)
(***************************************************************************)
EXTENDS ExamAccess, TLC

Sym == Permutations(Staff) \cup Permutations(Handlers)

================================================================================
