--------------------------- MODULE MCLockerSystem ---------------------------
(* Values for TLC. *)
EXTENDS LockerSystem, TLC

\* Orders are created on the web; everything else happens at the keypad.
KeypadKinds == {"create", "deliver", "pickup_otp"}

\* With pickups made while the station was offline.
OfflineKinds == KeypadKinds \cup {"sync"}

\* Everything but those.
OnlineKinds == KeypadKinds \cup {"pickup_web", "cancel"}

\* With pickups on the web.
WebKinds == {"create", "deliver", "pickup_web"}

Symmetry == UNION {Permutations(S) : S \in {Cabinets, Orders, OTPs}}
=============================================================================
