------------------------ MODULE MCDatabaseJobQueue ------------------------
(***************************************************************************)
(* Instances of DatabaseJobQueue for TLC.  Job objects are interchangeable *)
(* (the symmetry is used for safety only).                                 *)
(***************************************************************************)
EXTENDS DatabaseJobQueue, TLC

JobSymmetry == Permutations(Jobs)

\* Every handle has a connection of its own; or all of them share one.
Unshared == [c \in Conns |-> c]
Shared == [c \in Conns |-> CHOOSE d \in Conns : TRUE]
=============================================================================
