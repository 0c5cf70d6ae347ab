---------------------------- MODULE MCRevisions ----------------------------
(* Instances of Revisions for TLC.  Calls are interchangeable. *)
EXTENDS Revisions, TLC

CallSymmetry == Permutations(Calls)

=============================================================================
