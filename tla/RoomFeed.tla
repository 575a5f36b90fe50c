------------------------------ MODULE RoomFeed ------------------------------
(***************************************************************************)
(* What the event stream of a chat room promises its reader, without       *)
(* pipes, locks, cursors and batches: a reader tunes in to a room at some  *)
(* moment and is then sent, one at a time and in id order, the messages    *)
(* stored in that room after that moment, none skipped and none repeated,  *)
(* until the stream ends.                                                  *)
(*                                                                         *)
(* ChatBus implements it (handle_sse over room.c and chat_db.c);           *)
(* WebClient is built on it.                                               *)
(***************************************************************************)
EXTENDS ChatStore

CONSTANTS
    Reader,     \* connections that may carry a stream
    Room,
    None        \* no room

VARIABLES
    log,        \* the messages table (ChatStore)
    tuned,      \* per reader: the room it is tuned in to, or None
    start,      \* per reader: the newest id of the room at that moment
    got         \* per reader: the ids sent to it, in order

feedVars == <<log, tuned, start, got>>

FeedInit ==
    /\ log = <<>>
    /\ tuned = [t \in Reader |-> None]
    /\ start = [t \in Reader |-> 0]
    /\ got = [t \in Reader |-> <<>>]

\* chat_room_post: somebody stores a message.
Post(r) ==
    /\ log' = InsertMessage(log, r)
    /\ UNCHANGED <<tuned, start, got>>

\* handle_sse up to its wait loop.
TuneIn(t, r) ==
    /\ tuned[t] = None
    /\ tuned' = [tuned EXCEPT ![t] = r]
    /\ start' = [start EXCEPT ![t] = MaxMessageId(log, r)]
    /\ UNCHANGED <<log, got>>

\* The id of the last frame, or where the stream started.
Position(t) == IF got[t] = <<>> THEN start[t] ELSE got[t][Len(got[t])]

\* The messages of its room that a reader has not been sent.
Waiting(t) == {i \in IdsOf(log, tuned[t]) : i > Position(t)}

\* Mutant: the newest message first.
FrameNewest(t) ==
    /\ tuned[t] # None
    /\ Waiting(t) # {}
    /\ got' = [got EXCEPT ![t] = Append(@, Max(Waiting(t)))]
    /\ UNCHANGED <<log, tuned, start>>

\* One frame: the oldest message that is waiting.
Frame(t) ==
    /\ tuned[t] # None
    /\ Waiting(t) # {}
    /\ got' = [got EXCEPT ![t] = Append(@, Min(Waiting(t)))]
    /\ UNCHANGED <<log, tuned, start>>

\* The stream ends: the reader has gone, a send failed, the server stops.
TuneOut(t) ==
    /\ tuned[t] # None
    /\ tuned' = [tuned EXCEPT ![t] = None]
    /\ start' = [start EXCEPT ![t] = 0]
    /\ got' = [got EXCEPT ![t] = <<>>]
    /\ UNCHANGED log

FeedNext ==
    \/ \E r \in Room : Post(r)
    \/ \E t \in Reader : \/ \E r \in Room : TuneIn(t, r)
                         \/ Frame(t)
                         \/ TuneOut(t)

FeedSpec == FeedInit /\ [][FeedNext]_feedVars
=============================================================================
