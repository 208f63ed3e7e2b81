----------------------------- MODULE MCSubmissions -----------------------------
(***************************************************************************)
(* Small instances of Submissions for TLC.                                 *)
(***************************************************************************)
EXTENDS Submissions, TLC

CONSTANTS a, b   \* two things an answer can say

Sym == Permutations(SubmissionIds) \cup Permutations(Handlers)
         \cup Permutations(Students)

================================================================================
