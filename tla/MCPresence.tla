----------------------------- MODULE MCPresence -----------------------------
(* Values for TLC. *)
EXTENDS Presence, TLC

CONSTANTS m1, m2, t1, t2, u1

\* Two tabs of one user.
MCAccount == (t1 :> u1) @@ (t2 :> u1)
=============================================================================
