----------------------------- MODULE MCPresence -----------------------------
(***************************************************************************)
(* Module Presence for TLC: a telnet session and two event streams, one of *)
(* which has the telnet user's name.                                       *)
(***************************************************************************)
EXTENDS Presence, TLC

CONSTANTS t1, s1, s2, ann, bob

SharedName == t1 :> ann @@ s1 :> ann @@ s2 :> bob
=============================================================================
