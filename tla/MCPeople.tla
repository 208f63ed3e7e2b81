-------------------------------- MODULE MCPeople --------------------------------
(***************************************************************************)
(* Small instances of People for TLC.                                      *)
(***************************************************************************)
EXTENDS People, TLC

\* Two binary digits: "01" is at 4, "10" at 8, "100" at 9 and "11" at 12.  "0NaN"
\* comes after all that begin with 0; admins choose "11", "1b" and a word.
MCGarbled == [place |-> 5, read |-> 0]
MCCustoms == {Padded(3), [place |-> 14, read |-> 1], [place |-> 20, read |-> NaN]}

Sym == Permutations(DeptIds) \cup Permutations(Teachers) \cup Permutations(Students)
         \cup Permutations(Guardians) \cup Permutations(Handlers)
================================================================================
