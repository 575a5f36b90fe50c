---------------------------- MODULE MCBusVisits -----------------------------
(* Instances of BusVisits for TLC. *)
EXTENDS MCChatBus, BusVisits

\* Both threads serve the same user, who has two windows open.
SameUserOf == t1 :> u1 @@ t2 :> u1

\* Rooms and descriptors are interchangeable.
Alike == Permutations(Room) \union Permutations(Fd)
=============================================================================
