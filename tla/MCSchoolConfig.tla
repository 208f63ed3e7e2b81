----------------------------- MODULE MCSchoolConfig -----------------------------
(***************************************************************************)
(* Small instances of SchoolConfig for TLC: both weights, one weight, a    *)
(* scale of one band, and two scales that are refused.                     *)
(***************************************************************************)
EXTENDS SchoolConfig, TLC

Plain == [ca |-> Keep, exam |-> Keep, scale |-> Keep]
MCPatches ==
  {[Plain EXCEPT !.ca = 30, !.exam = 70], [Plain EXCEPT !.ca = 50], [Plain EXCEPT !.exam = 70],
   [Plain EXCEPT !.ca = 50, !.exam = 60],
   [Plain EXCEPT !.scale = {[grade |-> "P", min |-> 0, max |-> 100]}],
   [Plain EXCEPT !.scale = DefaultScale]}
Sym == Permutations(Handlers)
================================================================================
