------------------------------ MODULE ChatBus ------------------------------
(***************************************************************************)
(* The in-process publish/subscribe bus of the chat service (room.c) and   *)
(* the three kinds of session that use it:                                 *)
(*   "telnet"  the room screen of features/chat/chat.c,                    *)
(*   "sse"     the event stream handle_sse of features/chat/http_chat.c,   *)
(*   "rest"    POST /api/rooms/{id}/messages of the same file.             *)
(*                                                                         *)
(* Each session runs on a thread of its own, so every action is one access *)
(* to shared state: one chat_db call, one critical section of a room's     *)
(* lock, or one read or write of a pipe.  chat_room_post holds the lock    *)
(* over several writes and is therefore several actions.                   *)
(*                                                                         *)
(* A thread slot serves one session after another.  A session owns a       *)
(* self-pipe; `fd' is the descriptor of its write end, which the kernel    *)
(* hands out again once it is closed.  When a session stops (the client    *)
(* leaves, a timeout, a failed send, server shutdown) is left open here:   *)
(* Hangup may happen at every wait.                                        *)
(***************************************************************************)
EXTENDS ChatStore

CONSTANTS
    Thread,     \* thread slots, each running one session at a time
    Room,       \* the room registry, fixed after chat_service_init
    Fd,         \* descriptors the kernel hands out for pipe write ends
    NoFd,       \* the -1 a session stores when pipe2() failed
    None,       \* no thread, no room
    User,       \* user names that survive sanitize_user
    UserOf,     \* the name of the user on each thread
    Serves,     \* bound of the model: kinds of session a thread slot serves
    MaxSubs,    \* CHAT_MAX_SUBSCRIBERS
    SseBatch,   \* rows one wake-up of handle_sse fetches (64)
    Lines,      \* message rows of a telnet screen (`want' of render_room)
    PipeCap,    \* bytes a pipe holds before a write fails
    MaxPosts    \* bound of the model: messages ever stored

ASSUME BusAssumption ==
    /\ NoFd \notin Fd
    /\ None \notin Thread /\ None \notin Room
    /\ UserOf \in [Thread -> User \cup {None}]
    /\ Serves \in [Thread -> SUBSET {"telnet", "sse", "rest"}]
    /\ MaxSubs \in Nat \ {0} /\ SseBatch \in Nat \ {0} /\ Lines \in Nat \ {0}
    /\ PipeCap \in Nat \ {0} /\ MaxPosts \in Nat

VARIABLES
    log,        \* the messages table (ChatStore)
    presence,   \* the presence table, without its timestamps
    sub_fds,    \* per room: the registered write ends
    lock,       \* per room: the thread inside a post's critical section
    owner,      \* per descriptor: the thread whose pipe it writes to
    pipe,       \* per descriptor: bytes not yet drained
    kind,       \* per thread: kind of session it runs
    pc,         \* per thread: the next shared access
    wfd,        \* per thread: notify_wfd of its session
    room,       \* per thread: c->room (telnet) or the room of the request
    quit,       \* per thread: the visit ends because the session does
    composing,  \* telnet: st = CHAT_ST_COMPOSE
    at_live,    \* telnet: following the newest page
    oldest,     \* telnet: oldest_shown
    screen,     \* telnet: ids of the messages on the screen
    idx,        \* loop index of chat_room_post
    first,      \* sse: the cursor the stream started from
    cursor,     \* sse: cursor of handle_sse
    batch,      \* sse: rows fetched and not yet sent
    sent        \* sse: ids of the frames sent, in order

shared == <<log, presence, sub_fds, lock, owner, pipe>>
screenVars == <<composing, at_live, oldest, screen>>
streamVars == <<first, cursor, batch, sent>>
vars == <<shared, kind, pc, wfd, room, quit, screenVars, idx, streamVars>>

Kinds == {"none", "telnet", "sse", "rest"}

PCs == {"idle", "lobby", "subscribe", "render", "poll", "insert", "lock",
        "write", "refresh", "tail", "join", "fetch", "send", "unsubscribe",
        "clear", "close"}

SharedType ==
    /\ log \in Seq(Room)
    /\ presence \in SUBSET (Room \X User)
    /\ sub_fds \in [Room -> Seq(Fd \cup {NoFd})]
    /\ lock \in [Room -> Thread \cup {None}]
    /\ owner \in [Fd -> Thread \cup {None}]
    /\ pipe \in [Fd -> 0..PipeCap]
SessionType ==
    /\ kind \in [Thread -> Kinds]
    /\ pc \in [Thread -> PCs]
    /\ wfd \in [Thread -> Fd \cup {NoFd}]
    /\ room \in [Thread -> Room \cup {None}]
    /\ quit \in [Thread -> BOOLEAN]
    /\ idx \in [Thread -> Nat]
ScreenType ==
    /\ composing \in [Thread -> BOOLEAN]
    /\ at_live \in [Thread -> BOOLEAN]
    /\ oldest \in [Thread -> Nat]
    /\ screen \in [Thread -> SUBSET Nat]
StreamType ==
    /\ first \in [Thread -> Nat]
    /\ cursor \in [Thread -> Nat]
    /\ batch \in [Thread -> SUBSET Nat]
    /\ sent \in [Thread -> Seq(Nat)]

SubsFit == \A r \in Room : Len(sub_fds[r]) <= MaxSubs

(* Type invariant; in particular a room's n_subs stays within its sub_fds  *)
(* array, whatever joins and leaves happen.                                *)
TypeOK == SharedType /\ SessionType /\ ScreenType /\ StreamType /\ SubsFit

Init ==
    /\ log = <<>>
    /\ presence = {}
    /\ sub_fds = [r \in Room |-> <<>>]
    /\ lock = [r \in Room |-> None]
    /\ owner = [f \in Fd |-> None]
    /\ pipe = [f \in Fd |-> 0]
    /\ kind = [t \in Thread |-> "none"]
    /\ pc = [t \in Thread |-> "idle"]
    /\ wfd = [t \in Thread |-> NoFd]
    /\ room = [t \in Thread |-> None]
    /\ quit = [t \in Thread |-> FALSE]
    /\ composing = [t \in Thread |-> FALSE]
    /\ at_live = [t \in Thread |-> FALSE]
    /\ oldest = [t \in Thread |-> 0]
    /\ screen = [t \in Thread |-> {}]
    /\ idx = [t \in Thread |-> 0]
    /\ first = [t \in Thread |-> 0]
    /\ cursor = [t \in Thread |-> 0]
    /\ batch = [t \in Thread |-> {}]
    /\ sent = [t \in Thread |-> <<>>]

-----------------------------------------------------------------------------
(* Helpers *)

Goto(t, l) == pc' = [pc EXCEPT ![t] = l]
At(t, l) == pc[t] = l

\* chat_room_presence_set / _clear: no name, no row.
MarkPresent(t) ==
    presence' = IF UserOf[t] = None THEN presence
                ELSE PresenceSet(presence, room'[t], UserOf[t])
MarkAbsent(t) ==
    presence' = IF UserOf[t] = None THEN presence
                ELSE PresenceClear(presence, room[t], UserOf[t])

\* Mutant: the bound is off by one.
WithFdPastEnd(s, f) == IF Len(s) <= MaxSubs THEN Append(s, f) ELSE s

\* Mutant: the last place is never used.
WithFdBeforeEnd(s, f) == IF Len(s) + 1 < MaxSubs THEN Append(s, f) ELSE s

\* chat_room_subscribe: a full list drops the subscriber silently.
WithFd(s, f) == IF Len(s) < MaxSubs THEN Append(s, f) ELSE s

\* chat_room_unsubscribe: the last entry takes the place of the first match.
FirstAt(s, f) ==
    CHOOSE i \in DOMAIN s : s[i] = f /\ \A j \in DOMAIN s : s[j] = f => i <= j
\* Mutant: n_subs becomes the index of the match.
WithoutFdTruncates(s, f) ==
    IF \E i \in DOMAIN s : s[i] = f THEN SubSeq(s, 1, FirstAt(s, f) - 1) ELSE s
WithoutFd(s, f) ==
    IF \E i \in DOMAIN s : s[i] = f
    THEN SubSeq([s EXCEPT ![FirstAt(s, f)] = s[Len(s)]], 1, Len(s) - 1)
    ELSE s

\* pipe2() at session start, which may fail.
OpenPipe(t) ==
    \/ /\ wfd' = [wfd EXCEPT ![t] = NoFd]
       /\ UNCHANGED <<owner, pipe>>
    \/ \E f \in Fd :
        /\ owner[f] = None
        /\ wfd' = [wfd EXCEPT ![t] = f]
        /\ owner' = [owner EXCEPT ![f] = t]
        /\ pipe' = [pipe EXCEPT ![f] = 0]

\* The drain loop: read() until the pipe is empty.
DrainPipe(t) ==
    /\ wfd[t] # NoFd
    /\ pipe[wfd[t]] > 0
    /\ pipe' = [pipe EXCEPT ![wfd[t]] = 0]

-----------------------------------------------------------------------------
(* Session start and end *)

OpenTelnet(t) ==
    /\ At(t, "idle")
    /\ "telnet" \in Serves[t] /\ UserOf[t] # None
    /\ OpenPipe(t)
    /\ kind' = [kind EXCEPT ![t] = "telnet"]
    /\ Goto(t, "lobby")
    /\ UNCHANGED <<log, presence, sub_fds, lock, room, quit, screenVars, idx,
                   streamVars>>

OpenHttp(t, k, r) ==
    /\ At(t, "idle")
    /\ OpenPipe(t)
    /\ kind' = [kind EXCEPT ![t] = k]
    /\ room' = [room EXCEPT ![t] = r]
    /\ Goto(t, IF k = "sse" THEN "tail" ELSE "insert")
    /\ UNCHANGED <<log, presence, sub_fds, lock, quit, screenVars, idx,
                   streamVars>>

\* Mutant: the row is deleted without unsubscribing.
HangupStaysListed(t) ==
    /\ pc[t] \in {"lobby", "poll"}
    /\ quit' = [quit EXCEPT ![t] = TRUE]
    /\ Goto(t, IF pc[t] = "poll" THEN "clear" ELSE "close")
    /\ UNCHANGED <<shared, kind, wfd, room, screenVars, idx, streamVars>>

\* The session's loop ends: disconnect, timeout, poll error or shutdown.
Hangup(t) ==
    /\ pc[t] \in {"lobby", "poll"}
    /\ quit' = [quit EXCEPT ![t] = TRUE]
    /\ Goto(t, IF pc[t] = "poll" THEN "unsubscribe" ELSE "close")
    /\ UNCHANGED <<shared, kind, wfd, room, screenVars, idx, streamVars>>

\* The tail of *_run_session: close the pipe, free the session.
Close(t) ==
    /\ At(t, "close")
    /\ owner' = [f \in Fd |-> IF f = wfd[t] THEN None ELSE owner[f]]
    /\ pipe' = [f \in Fd |-> IF f = wfd[t] THEN 0 ELSE pipe[f]]
    /\ wfd' = [wfd EXCEPT ![t] = NoFd]
    /\ kind' = [kind EXCEPT ![t] = "none"]
    /\ room' = [room EXCEPT ![t] = None]
    /\ quit' = [quit EXCEPT ![t] = FALSE]
    /\ first' = [first EXCEPT ![t] = 0]
    /\ cursor' = [cursor EXCEPT ![t] = 0]
    /\ batch' = [batch EXCEPT ![t] = {}]
    /\ sent' = [sent EXCEPT ![t] = <<>>]
    /\ Goto(t, "idle")
    /\ UNCHANGED <<log, presence, sub_fds, lock, screenVars, idx>>

-----------------------------------------------------------------------------
(* Subscription: one critical section of the room's lock each *)

Subscribe(t) ==
    /\ At(t, "subscribe")
    /\ lock[room[t]] = None
    /\ sub_fds' = [sub_fds EXCEPT ![room[t]] = WithFd(@, wfd[t])]
    /\ Goto(t, IF kind[t] = "sse" THEN "join" ELSE "render")
    /\ UNCHANGED <<log, presence, lock, owner, pipe, kind, wfd, room, quit,
                   screenVars, idx, streamVars>>

Unsubscribe(t) ==
    /\ At(t, "unsubscribe")
    /\ lock[room[t]] = None
    /\ sub_fds' = [sub_fds EXCEPT ![room[t]] = WithoutFd(@, wfd[t])]
    /\ Goto(t, "clear")
    /\ UNCHANGED <<log, presence, lock, owner, pipe, kind, wfd, room, quit,
                   screenVars, idx, streamVars>>

\* Mutant: leave_room without presence_clear.
ClearKeepsRow(t) ==
    /\ At(t, "clear")
    /\ room' = [room EXCEPT ![t] = None]
    /\ composing' = [composing EXCEPT ![t] = FALSE]
    /\ at_live' = [at_live EXCEPT ![t] = FALSE]
    /\ oldest' = [oldest EXCEPT ![t] = 0]
    /\ screen' = [screen EXCEPT ![t] = {}]
    /\ Goto(t, IF quit[t] THEN "close" ELSE "lobby")
    /\ UNCHANGED <<log, presence, sub_fds, lock, owner, pipe, kind, wfd, quit,
                   idx, streamVars>>

\* presence_clear; the visit is over, and with `quit' the session too.
Clear(t) ==
    /\ At(t, "clear")
    /\ MarkAbsent(t)
    /\ room' = [room EXCEPT ![t] = None]
    /\ composing' = [composing EXCEPT ![t] = FALSE]
    /\ at_live' = [at_live EXCEPT ![t] = FALSE]
    /\ oldest' = [oldest EXCEPT ![t] = 0]
    /\ screen' = [screen EXCEPT ![t] = {}]
    /\ Goto(t, IF quit[t] THEN "close" ELSE "lobby")
    /\ UNCHANGED <<log, sub_fds, lock, owner, pipe, kind, wfd, quit, idx,
                   streamVars>>

-----------------------------------------------------------------------------
(* chat_room_post, from a telnet compose line or a REST request *)

AfterPost(t) == IF kind[t] = "telnet" THEN "refresh" ELSE "close"

\* Mutant: the message is stored and nobody is told.
PostInsertSilent(t) ==
    /\ At(t, "insert")
    /\ Len(log) < MaxPosts
    /\ log' = InsertMessage(log, room[t])
    /\ Goto(t, AfterPost(t))
    /\ UNCHANGED <<presence, sub_fds, lock, owner, pipe, kind, wfd, room,
                   quit, screenVars, idx, streamVars>>

\* Persist the message; a rejected or failed insert wakes nobody.
PostInsert(t) ==
    /\ At(t, "insert")
    /\ \/ /\ Len(log) < MaxPosts
          /\ log' = InsertMessage(log, room[t])
          /\ Goto(t, "lock")
       \/ /\ Goto(t, AfterPost(t))
          /\ UNCHANGED log
    /\ UNCHANGED <<presence, sub_fds, lock, owner, pipe, kind, wfd, room,
                   quit, screenVars, idx, streamVars>>

PostLock(t) ==
    /\ At(t, "lock")
    /\ lock[room[t]] = None
    /\ lock' = [lock EXCEPT ![room[t]] = t]
    /\ idx' = [idx EXCEPT ![t] = 1]
    /\ Goto(t, "write")
    /\ UNCHANGED <<log, presence, sub_fds, owner, pipe, kind, wfd, room, quit,
                   screenVars, streamVars>>

\* One byte to one subscriber.  A full pipe loses it, as does write(-1).
PostWrite(t) ==
    /\ At(t, "write")
    /\ idx[t] <= Len(sub_fds[room[t]])
    /\ LET f == sub_fds[room[t]][idx[t]] IN
         pipe' = IF f # NoFd /\ pipe[f] < PipeCap
                 THEN [pipe EXCEPT ![f] = @ + 1] ELSE pipe
    /\ idx' = [idx EXCEPT ![t] = @ + 1]
    /\ UNCHANGED <<log, presence, sub_fds, lock, owner, kind, pc, wfd, room,
                   quit, screenVars, streamVars>>

PostUnlock(t) ==
    /\ At(t, "write")
    /\ idx[t] > Len(sub_fds[room[t]])
    /\ lock' = [lock EXCEPT ![room[t]] = None]
    /\ idx' = [idx EXCEPT ![t] = 0]
    /\ Goto(t, AfterPost(t))
    /\ UNCHANGED <<log, presence, sub_fds, owner, pipe, kind, wfd, room, quit,
                   screenVars, streamVars>>

-----------------------------------------------------------------------------
(* The telnet room screen *)

\* enter_room up to the subscription.
EnterRoom(t, r) ==
    /\ At(t, "lobby")
    /\ room' = [room EXCEPT ![t] = r]
    /\ oldest' = [oldest EXCEPT ![t] = 0]
    /\ at_live' = [at_live EXCEPT ![t] = TRUE]
    /\ MarkPresent(t)
    /\ Goto(t, IF wfd[t] = NoFd THEN "render" ELSE "subscribe")
    /\ UNCHANGED <<log, sub_fds, lock, owner, pipe, kind, wfd, quit,
                   composing, screen, idx, streamVars>>

\* render_room: the newest page, or the page below the one last drawn.
Page(t) == MessagesBefore(log, room[t], IF at_live[t] THEN 0 ELSE oldest[t], Lines)

Render(t) ==
    /\ At(t, "render")
    /\ screen' = [screen EXCEPT ![t] = Page(t)]
    /\ oldest' = [oldest EXCEPT ![t] = IF Page(t) = {} THEN @ ELSE Min(Page(t))]
    /\ Goto(t, "poll")
    /\ UNCHANGED <<shared, kind, wfd, room, quit, composing, at_live, idx,
                   streamVars>>

\* Mutant: no redraw while a line is being typed.
TelnetWakeNotTyping(t) ==
    /\ kind[t] = "telnet"
    /\ pc[t] \in {"lobby", "poll"}
    /\ DrainPipe(t)
    /\ Goto(t, IF pc[t] = "poll" /\ at_live[t] /\ ~composing[t]
               THEN "render" ELSE pc[t])
    /\ UNCHANGED <<log, presence, sub_fds, lock, owner, kind, wfd, room, quit,
                   screenVars, idx, streamVars>>

\* The session loop drains the pipe, then calls on_notify (unset in the lobby).
TelnetWake(t) ==
    /\ kind[t] = "telnet"
    /\ pc[t] \in {"lobby", "poll"}
    /\ DrainPipe(t)
    /\ Goto(t, IF pc[t] = "poll" /\ at_live[t] THEN "render" ELSE pc[t])
    /\ UNCHANGED <<log, presence, sub_fds, lock, owner, kind, wfd, room, quit,
                   screenVars, idx, streamVars>>

InRoomKey(t)  == kind[t] = "telnet" /\ At(t, "poll") /\ ~composing[t]
ComposeKey(t) == kind[t] = "telnet" /\ At(t, "poll") /\ composing[t]

\* Enter or `i': open the compose line.
KeyCompose(t) ==
    /\ InRoomKey(t)
    /\ composing' = [composing EXCEPT ![t] = TRUE]
    /\ UNCHANGED <<shared, kind, pc, wfd, room, quit, at_live, oldest, screen,
                   idx, streamVars>>

\* `p': page older, if there is anything older.
KeyOlder(t) ==
    /\ InRoomKey(t)
    /\ MessagesBefore(log, room[t], oldest[t], Lines) # {}
    /\ at_live' = [at_live EXCEPT ![t] = FALSE]
    /\ Goto(t, "render")
    /\ UNCHANGED <<shared, kind, wfd, room, quit, composing, oldest, screen,
                   idx, streamVars>>

\* `n': back to the newest page.
KeyNewest(t) ==
    /\ InRoomKey(t)
    /\ at_live' = [at_live EXCEPT ![t] = TRUE]
    /\ Goto(t, "render")
    /\ UNCHANGED <<shared, kind, wfd, room, quit, composing, oldest, screen,
                   idx, streamVars>>

\* `q' and `Q': leave_room.
KeyLeave(t) ==
    /\ InRoomKey(t)
    /\ Goto(t, "unsubscribe")
    /\ UNCHANGED <<shared, kind, wfd, room, quit, screenVars, idx, streamVars>>

\* Esc or Ctrl-C in the compose line.
KeyCancel(t) ==
    /\ ComposeKey(t)
    /\ composing' = [composing EXCEPT ![t] = FALSE]
    /\ Goto(t, "render")
    /\ UNCHANGED <<shared, kind, wfd, room, quit, at_live, oldest, screen, idx,
                   streamVars>>

\* Enter in the compose line: post what was typed, or nothing.
KeySend(t) ==
    /\ ComposeKey(t)
    /\ Goto(t, "insert")
    /\ UNCHANGED <<shared, kind, wfd, room, quit, screenVars, idx, streamVars>>

KeySendEmpty(t) ==
    /\ ComposeKey(t)
    /\ composing' = [composing EXCEPT ![t] = FALSE]
    /\ at_live' = [at_live EXCEPT ![t] = TRUE]
    /\ Goto(t, "render")
    /\ UNCHANGED <<shared, kind, wfd, room, quit, oldest, screen, idx,
                   streamVars>>

\* After the post: presence_set, back to the live page.
Refresh(t) ==
    /\ At(t, "refresh")
    /\ UNCHANGED room
    /\ MarkPresent(t)
    /\ composing' = [composing EXCEPT ![t] = FALSE]
    /\ at_live' = [at_live EXCEPT ![t] = TRUE]
    /\ Goto(t, "render")
    /\ UNCHANGED <<log, sub_fds, lock, owner, pipe, kind, wfd, quit, oldest,
                   screen, idx, streamVars>>

-----------------------------------------------------------------------------
(* The event stream: handle_sse *)

\* Mutant: the stream starts with the whole history.
SseTailFromStart(t) ==
    /\ At(t, "tail")
    /\ first' = [first EXCEPT ![t] = 0]
    /\ cursor' = [cursor EXCEPT ![t] = 0]
    /\ Goto(t, "subscribe")
    /\ UNCHANGED <<shared, kind, wfd, room, quit, screenVars, idx, batch, sent>>

\* The cursor is read before the subscription is made.
SseTail(t) ==
    /\ At(t, "tail")
    /\ first' = [first EXCEPT ![t] = MaxMessageId(log, room[t])]
    /\ cursor' = [cursor EXCEPT ![t] = MaxMessageId(log, room[t])]
    /\ Goto(t, "subscribe")
    /\ UNCHANGED <<shared, kind, wfd, room, quit, screenVars, idx, batch, sent>>

SseJoin(t) ==
    /\ At(t, "join")
    /\ UNCHANGED room
    /\ MarkPresent(t)
    /\ Goto(t, "poll")
    /\ UNCHANGED <<log, sub_fds, lock, owner, pipe, kind, wfd, quit,
                   screenVars, idx, streamVars>>

\* HTTP_WAIT_TIMEOUT: refresh presence, send a comment; a failed send ends it.
SseKeepalive(t) ==
    /\ kind[t] = "sse" /\ At(t, "poll")
    /\ UNCHANGED room
    /\ MarkPresent(t)
    /\ \/ UNCHANGED <<pc, quit>>
       \/ Goto(t, "unsubscribe") /\ quit' = [quit EXCEPT ![t] = TRUE]
    /\ UNCHANGED <<log, sub_fds, lock, owner, pipe, kind, wfd, screenVars, idx,
                   streamVars>>

\* HTTP_WAIT_NOTIFY: the pipe is drained, then one batch is fetched.
SseWake(t) ==
    /\ kind[t] = "sse" /\ At(t, "poll")
    /\ DrainPipe(t)
    /\ Goto(t, "fetch")
    /\ UNCHANGED <<log, presence, sub_fds, lock, owner, kind, wfd, room, quit,
                   screenVars, idx, streamVars>>

SseFetch(t) ==
    /\ At(t, "fetch")
    /\ batch' = [batch EXCEPT ![t] =
                   MessagesSince(log, room[t], cursor[t], SseBatch)]
    /\ Goto(t, "send")
    /\ UNCHANGED <<shared, kind, wfd, room, quit, screenVars, idx, first,
                   cursor, sent>>

\* One frame, in id order.  The cursor moves before the send, which may fail.
SseSend(t) ==
    /\ At(t, "send")
    /\ batch[t] # {}
    /\ LET m == Min(batch[t]) IN
         /\ cursor' = [cursor EXCEPT ![t] = m]
         /\ \/ /\ sent' = [sent EXCEPT ![t] = Append(@, m)]
               /\ batch' = [batch EXCEPT ![t] = @ \ {m}]
               /\ UNCHANGED <<pc, quit>>
            \/ /\ batch' = [batch EXCEPT ![t] = {}]
               /\ quit' = [quit EXCEPT ![t] = TRUE]
               /\ Goto(t, "unsubscribe")
               /\ UNCHANGED sent
    /\ UNCHANGED <<shared, kind, wfd, room, screenVars, idx, first>>

SseSent(t) ==
    /\ At(t, "send")
    /\ batch[t] = {}
    /\ Goto(t, "poll")
    /\ UNCHANGED <<shared, kind, wfd, room, quit, screenVars, idx, streamVars>>

-----------------------------------------------------------------------------
\* What a user or client decides.
UserStep(t) ==
    \/ OpenTelnet(t)
    \/ \E k \in Serves[t] \ {"telnet"}, r \in Room : OpenHttp(t, k, r)
    \/ \E r \in Room : EnterRoom(t, r)
    \/ KeyCompose(t) \/ KeyOlder(t) \/ KeyNewest(t) \/ KeyLeave(t)
    \/ KeyCancel(t) \/ KeySend(t) \/ KeySendEmpty(t)
    \/ Hangup(t) \/ SseKeepalive(t)

\* What the session's thread goes on to do by itself.
ThreadStep(t) ==
    \/ Subscribe(t) \/ Unsubscribe(t) \/ Clear(t) \/ Close(t)
    \/ PostInsert(t) \/ PostLock(t) \/ PostWrite(t) \/ PostUnlock(t)
    \/ Render(t) \/ TelnetWake(t) \/ Refresh(t)
    \/ SseTail(t) \/ SseJoin(t) \/ SseWake(t) \/ SseFetch(t) \/ SseSend(t)
    \/ SseSent(t)

Next == \E t \in Thread : UserStep(t) \/ ThreadStep(t)

Spec == Init /\ [][Next]_vars

\* Threads are scheduled; users owe us nothing.
FairSpec == Spec /\ \A t \in Thread : WF_vars(ThreadStep(t))

-----------------------------------------------------------------------------
(* Properties *)

\* From the subscription to the unsubscription of a visit.
Subscribed(t) ==
    pc[t] \in {"render", "poll", "insert", "lock", "write", "refresh", "join",
               "fetch", "send", "unsubscribe"} /\ kind[t] \in {"telnet", "sse"}

\* From presence_set to presence_clear of a visit.
HasRow(t) ==
    \/ kind[t] = "telnet" /\ pc[t] \notin {"lobby", "close"}
    \/ kind[t] = "sse" /\ pc[t] \in {"poll", "fetch", "send", "unsubscribe", "clear"}

(***************************************************************************)
(* Every descriptor in a room's list is the open write end of a session    *)
(* that is visiting that room right now, and is listed once: whatever the  *)
(* interleaving, chat_room_post never writes to a closed descriptor or to  *)
(* one the kernel gave to somebody else, although posts run concurrently   *)
(* with sessions that end and with new ones that reuse their descriptors.  *)
(***************************************************************************)
SubscribersLive ==
    \A r \in Room : \A i \in DOMAIN sub_fds[r] :
        LET f == sub_fds[r][i] IN
        f # NoFd =>
            /\ owner[f] # None
            /\ wfd[owner[f]] = f
            /\ room[owner[f]] = r
            /\ Subscribed(owner[f])
            /\ \A j \in DOMAIN sub_fds[r] : sub_fds[r][j] = f => j = i

Listed(t) == \E i \in DOMAIN sub_fds[room[t]] : sub_fds[room[t]][i] = wfd[t]

\* The screen shows what a redraw would show.
ScreenFresh(t) == screen[t] = Page(t)

\* A post into t's room has been stored and has not yet come to t's pipe.
WakeupComing(t) ==
    \E p \in Thread :
        /\ room[p] = room[t]
        /\ \/ pc[p] = "lock"
           \/ pc[p] = "write" /\ \E i \in DOMAIN sub_fds[room[t]] :
                                    i >= idx[p] /\ sub_fds[room[t]][i] = wfd[t]

\* Following the live page, listed, and nothing in the pipe to wake it.
Asleep(t) ==
    /\ kind[t] = "telnet" /\ pc[t] = "poll" /\ at_live[t]
    /\ wfd[t] # NoFd /\ Listed(t) /\ pipe[wfd[t]] = 0

(***************************************************************************)
(* No lost wake-up: a listed telnet session that sleeps in poll() with an  *)
(* empty pipe while following the live page either shows the newest        *)
(* message, or a poster is still on its way to its pipe.  This is what the *)
(* order insert, then notify (chat_room_post), the order subscribe, then   *)
(* render (enter_room), and the order drain, then redraw (session loop)    *)
(* are for; a full pipe loses bytes and never a wake-up.                   *)
(***************************************************************************)
NoLostWakeup ==
    \A t \in Thread : Asleep(t) => ScreenFresh(t) \/ WakeupComing(t)

(***************************************************************************)
(* A stream's frames are exactly the room's messages above the id it       *)
(* started from up to its cursor, each once and in id order: wake-ups that *)
(* are merged, repeated or spurious neither skip nor repeat a frame.       *)
(***************************************************************************)
StreamExact ==
    \A t \in Thread :
        kind[t] = "sse" /\ pc[t] \in {"poll", "fetch", "send"} =>
            /\ {sent[t][i] : i \in DOMAIN sent[t]} =
                   {i \in IdsOf(log, room[t]) : first[t] < i /\ i <= cursor[t]}
            /\ \A i, j \in DOMAIN sent[t] : i < j => sent[t][i] < sent[t][j]

(***************************************************************************)
(* Every message reaches a live telnet screen: once stored, it is on the   *)
(* screen of each listed session that follows the live page, or has been   *)
(* pushed off it by newer ones, unless the user leaves that view first.    *)
(***************************************************************************)
Watching(t) ==
    kind[t] = "telnet" /\ pc[t] \in {"render", "poll"} /\ at_live[t] /\ wfd[t] # NoFd
LiveViewFollows ==
    \A t \in Thread, m \in 1..MaxPosts :
        (Watching(t) /\ Listed(t) /\ m \in IdsOf(log, room[t]))
            ~> (~Watching(t) \/ \E j \in screen[t] : m <= j)

-----------------------------------------------------------------------------
(* The inductive invariant behind SubscribersLive, NoLostWakeup, StreamExact *)

TelnetPCs == {"lobby", "subscribe", "render", "poll", "insert", "lock",
              "write", "refresh", "unsubscribe", "clear", "close"}
SsePCs    == {"tail", "subscribe", "join", "poll", "fetch", "send",
              "unsubscribe", "clear", "close"}
RestPCs   == {"insert", "lock", "write", "close"}

\* Each kind of session stays in its own steps, in a room where it needs one.
ControlOK ==
    \A t \in Thread :
        /\ kind[t] = "none" => pc[t] = "idle"
        /\ kind[t] = "telnet" => pc[t] \in TelnetPCs
        /\ kind[t] = "sse" => pc[t] \in SsePCs
        /\ kind[t] = "rest" => pc[t] \in RestPCs
        /\ pc[t] \notin {"idle", "lobby", "close"} => room[t] \in Room
        /\ kind[t] = "sse" /\ pc[t] \in {"unsubscribe", "clear"} => quit[t]

\* A descriptor and its session know each other.
OwnerOK ==
    /\ \A t \in Thread : wfd[t] # NoFd => owner[wfd[t]] = t
    /\ \A f \in Fd : owner[f] # None => wfd[owner[f]] = f
    /\ \A t \in Thread : pc[t] = "idle" => wfd[t] = NoFd

\* Who writes to the pipes of a room holds its lock.
LockOK ==
    \A t \in Thread : pc[t] = "write" => lock[room[t]] = t /\ idx[t] >= 1

\* A stream stands between its start and the end of the table, and the rows it
\* holds are the next ones after its cursor.
OnAir == {"subscribe", "join", "poll", "fetch", "send"}
NewIds(t) == {i \in IdsOf(log, room[t]) : i > cursor[t]}
StreamOK ==
    \A t \in Thread :
        /\ kind[t] # "sse" \/ pc[t] = "tail" => sent[t] = <<>>
        /\ kind[t] = "sse" /\ pc[t] \in OnAir =>
            /\ first[t] <= cursor[t] /\ cursor[t] <= Len(log)
            /\ {sent[t][i] : i \in DOMAIN sent[t]} =
                   {i \in IdsOf(log, room[t]) : first[t] < i /\ i <= cursor[t]}
            /\ \A i, j \in DOMAIN sent[t] : i < j => sent[t][i] < sent[t][j]
        /\ kind[t] = "sse" /\ pc[t] = "send" =>
            /\ batch[t] \subseteq NewIds(t)
            /\ \A k \in batch[t] : \A i \in NewIds(t) : i <= k => i \in batch[t]

BusInv ==
    /\ TypeOK /\ ControlOK /\ OwnerOK /\ LockOK
    /\ SubscribersLive /\ NoLostWakeup /\ StreamOK

-----------------------------------------------------------------------------
(* What the documentation says and the code does not do *)

(***************************************************************************)
(* http_chat.c, handle_sse: "emitting one frame per new message until the  *)
(* client or the server closes it".  A message stored between the read of  *)
(* the cursor and the subscription wakes nobody and waits for another one. *)
(***************************************************************************)
Streaming(t) ==
    kind[t] = "sse" /\ wfd[t] # NoFd /\ pc[t] \in OnAir
StreamDelivers ==
    \A t \in Thread, m \in 1..MaxPosts :
        (Streaming(t) /\ m \in IdsOf(log, room[t]) /\ m > first[t])
            ~> (~Streaming(t) \/ m <= cursor[t])
=============================================================================
