----------------------------- MODULE MCChatBus -----------------------------
(* Instances of ChatBus for TLC. *)
EXTENDS BusFeed, TLC

CONSTANTS t1, t2, u1, u2

\* Two threads, each with its own user: one is a visitor, one a web client.
PairUserOf == t1 :> u1 @@ t2 :> u2
PairServes == t1 :> {"telnet", "sse"} @@ t2 :> {"sse", "rest"}

\* A telnet user and somebody who posts.
ViewServes == t1 :> {"telnet"} @@ t2 :> {"rest", "telnet"}

\* A stream and somebody who posts.
StreamServes == t1 :> {"sse"} @@ t2 :> {"rest"}

=============================================================================
