------------------------------- MODULE MCTimetable -------------------------------
(***************************************************************************)
(* Small instances of Timetable for TLC.                                   *)
(***************************************************************************)
EXTENDS Timetable, TLC

CONSTANTS mon, maths

Untouched == [f \in {"teacher", "class", "subject", "day", "start", "end", "active"} |-> Keep]

\* Updates of one field, and those that bring an empty id beside a new start.
MCPatches ==
  {p \in Patch : \E f \in DOMAIN Untouched, g \in {"teacher", "class"} :
     /\ p[f] \notin {Keep, Blank}
     /\ \/ p = [Untouched EXCEPT ![f] = p[f]]
        \/ f = "start" /\ p = [Untouched EXCEPT ![f] = p[f], ![g] = Blank]}

Sym == Permutations(SlotIds) \cup Permutations(Handlers)
         \cup Permutations(Teachers) \cup Permutations(Classes)

================================================================================
