------------------------------ MODULE BusFeed ------------------------------
(***************************************************************************)
(* The chat bus implements RoomFeed: seen from outside, a session that     *)
(* runs handle_sse is a reader tuned in to its room from the moment it     *)
(* reads the room's newest id (SseTail) until its loop ends, and a frame   *)
(* sent is a frame.  Pipes, locks, subscriptions, wake-ups, batches and    *)
(* the cursor are hidden.                                                  *)
(***************************************************************************)
EXTENDS ChatBus

OnStream(t) == kind[t] = "sse" /\ pc[t] \in OnAir

FeedTuned == [t \in Thread |-> IF OnStream(t) THEN room[t] ELSE None]
FeedStart == [t \in Thread |-> IF OnStream(t) THEN first[t] ELSE 0]
FeedGot   == [t \in Thread |-> IF OnStream(t) THEN sent[t] ELSE <<>>]

Feed == INSTANCE RoomFeed
            WITH Reader <- Thread,
                 tuned <- FeedTuned, start <- FeedStart, got <- FeedGot

(***************************************************************************)
(* Every step of the bus is a step of the abstract feed or invisible in    *)
(* it: whatever posts, wake-ups, failed sends and hang-ups interleave,     *)
(* handle_sse sends the messages stored after it started one by one, in    *)
(* order, without a gap or a repetition.                                   *)
(***************************************************************************)
ImplementsFeed == Feed!FeedSpec
=============================================================================
