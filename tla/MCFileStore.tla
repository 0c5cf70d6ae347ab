---------------------------- MODULE MCFileStore ----------------------------
EXTENDS FileStore, TLC

(* Processes are interchangeable. *)
ProcessSymmetry == Permutations(Processes)

=============================================================================
