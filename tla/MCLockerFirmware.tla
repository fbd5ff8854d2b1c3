-------------------------- MODULE MCLockerFirmware --------------------------
(* Values for TLC. *)
EXTENDS LockerFirmware, TLC

Symmetry == Permutations(Pins) \cup Permutations(Codes)
=============================================================================
