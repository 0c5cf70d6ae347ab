---------------------------- MODULE MCTransport ----------------------------
(* Instances of Transport for TLC.  Tasks are interchangeable. *)
EXTENDS Transport, TLC

TaskSymmetry == Permutations(Tasks)

=============================================================================
