--------------------------- MODULE MCTaskCreation ---------------------------
(* Instances of TaskCreation for TLC.                                      *)
EXTENDS TaskCreation, TLC

\* Calls that differ in no constant are interchangeable.
AnyCall == Permutations(Calls \ (Amended \cup Reliable))
=============================================================================
