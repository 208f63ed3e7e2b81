------------------------------ MODULE MCRepository ------------------------------
(***************************************************************************)
(* Small instances of Repository for TLC.                                  *)
(***************************************************************************)
EXTENDS Repository, TLC

Sym == Permutations(FolderIds) \cup Permutations(Names) \cup Permutations(Files) \cup Permutations(Versions)
         \cup Permutations(Keys) \cup Permutations(Links) \cup Permutations(Handlers)

================================================================================
