------------------------------ MODULE MCServer ------------------------------
(***************************************************************************)
(* Instances of Server: two clients, of one protocol or of both, so that   *)
(* they compete for slots and run and end side by side.                    *)
(***************************************************************************)
EXTENDS Server, TLC

CONSTANTS c1, c2

MixProtoOf == (c1 :> "telnet") @@ (c2 :> "http")
TelnetProtoOf == [c \in Conn |-> "telnet"]
=============================================================================
