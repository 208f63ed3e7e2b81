------------------------------- MODULE MCCalendar -------------------------------
(***************************************************************************)
(* Small instances of Calendar for TLC.                                    *)
(***************************************************************************)
EXTENDS Calendar, TLC

Sym == Permutations(Sessions) \cup Permutations(Terms)
         \cup Permutations(Names) \cup Permutations(Handlers)

================================================================================
