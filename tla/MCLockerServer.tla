--------------------------- MODULE MCLockerServer ---------------------------
(* Values for TLC: the workloads of the runs and their symmetries. *)
EXTENDS LockerServer, TLC

\* Everything, with pickups made while the station was offline.
AllKinds == Kinds

\* The station never loses its WiFi, so it reports no offline pickups.
OnlineKinds == Kinds \ {"sync"}

Symmetry ==
    UNION {Permutations(S) : S \in {Users, Cabinets, Orders, OTPs, Requests}}
=============================================================================
