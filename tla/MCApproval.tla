------------------------------- MODULE MCApproval -------------------------------
(***************************************************************************)
(* Small instances of Approval for TLC.                                    *)
(***************************************************************************)
EXTENDS Approval, TLC

Sym == Permutations(Staff)

================================================================================
