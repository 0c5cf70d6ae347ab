----------------------------- MODULE MCRotation -----------------------------
(* Instances of Rotation for TLC. *)
EXTENDS Rotation, TLC

(* No device is named but by the keys that it has drawn. *)
DeviceSymmetry == Permutations(Devices)

=============================================================================
