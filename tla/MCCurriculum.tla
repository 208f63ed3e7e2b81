------------------------------- MODULE MCCurriculum -------------------------------
(***************************************************************************)
(* Small instances of Curriculum for TLC.                                  *)
(***************************************************************************)
EXTENDS Curriculum, TLC

CONSTANT MaxRows  \* bound: classes, students, class_subjects and subject_teachers

\* The lists of students have nothing to do with those of teachers or with each
\* other, nor the seats of a class with what it is taught; and while there is
\* somebody to teach or to register, subjects are offered one by one.
SmallSchool ==
  /\ Cardinality(Open) + Cardinality(Enrolled) + Cardinality(Offered) + Cardinality(teaches) <= MaxRows
  /\ hired = {} \/ Enrolled \cup terms = {}
  /\ \/ subjects \cup hired \cup terms = {}
     \/ /\ Cardinality(Enrolled) <= 1 /\ \A c \in Open : capacity[c] = 0
        /\ \A h \in Handlers : req[h].pc \notin {"counting", "placing"}
  /\ \A h \in Handlers : req[h].pc = "offering" => subjects # {} /\ hired \cup terms = {}

Sym == Permutations(Classes) \cup Permutations(Students) \cup Permutations(Subjects)
         \cup Permutations(Offers) \cup Permutations(Teachers) \cup Permutations(Terms) \cup Permutations(Handlers)

================================================================================
