---------------------------- MODULE MCWebClient -----------------------------
(* A tab, the accounts of two users, and the account one of them gets after a *)
(* restart of the server.                                                     *)
EXTENDS WebClient, TLC

CONSTANTS u1, u2, u3

Symmetry == Permutations(FetchSlots)

=============================================================================
