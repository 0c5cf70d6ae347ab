------------------------------- MODULE MCTeam -------------------------------
(* Instances of Team for TLC. *)
EXTENDS Team, TLC

(* Clients differ in nothing before they are built. *)
ClientSymmetry == Permutations(Clients)

=============================================================================
