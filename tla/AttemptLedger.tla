----------------------------- MODULE AttemptLedger -----------------------------
(***************************************************************************)
(* What a student and a teacher may rely on about the attempts at one      *)
(* assessment, whatever requests race: attempts are handed out one by one, *)
(* at most MaxAttempts of them, and an attempt that was closed stays so.   *)
(***************************************************************************)
EXTENDS Naturals

CONSTANTS Students, MaxAttempts

VARIABLES
  taken,   \* taken[s]: how many attempts s has started
  closed   \* closed[s]: the numbers of the attempts s has handed in

Init ==
  /\ taken = [s \in Students |-> 0]
  /\ closed = [s \in Students |-> {}]

Take(s) ==
  /\ taken[s] < MaxAttempts
  /\ taken' = [taken EXCEPT ![s] = @ + 1]
  /\ UNCHANGED closed

Close(s, k) ==
  /\ k \in 1..taken[s]
  /\ k \notin closed[s]
  /\ closed' = [closed EXCEPT ![s] = @ \cup {k}]
  /\ UNCHANGED taken

Next == \E s \in Students : Take(s) \/ \E k \in 1..MaxAttempts : Close(s, k)

Spec == Init /\ [][Next]_<<taken, closed>>

================================================================================
