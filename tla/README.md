# A TLA+ model of the network server

The repository is a small BBS in C: one process, a telnet listener and an HTTP
listener, one thread per connection, and a chat service on SQLite that both
protocols share. This directory models the parts of it that are concurrent or
keep state across events, checks them with TLC, and proves every
safety property of the passing runs with TLAPS, for instances of every size.
Paths below are relative to the repository's `src/` unless they start with
another directory.

## 1. The system and its parts

| Part | Source | State | Operations | Module |
|---|---|---|---|---|
| Accept loop, signals | `main.c`, `core/server.c` | listeners, `s_shutdown`, `s_reload`, `active_connections` | start, select, accept, reload, destroy | `Server` |
| Connector | `core/connector.c` | semaphore `slots`, `active` | spawn, thread entry and exit, destroy | `Server` |
| Connection | `core/connection.c` | ownership of the socket | create, run | `Server` |
| Protocol vtable | `protocol/protocol.h` | none | create, run, shutdown_all | `Server` |
| FSM engine | `core/fsm.c` | current state | dispatch | `TelnetSession` |
| Telnet session | `protocol/telnet/telnet_session.c` | registry, self-pipe, FSM, deferred flags, active game | event loop, callbacks, actions | `TelnetSession`, `Server`, `Presence` |
| IAC parser | `protocol/telnet/telnet_proto.c` | parser state | feed | `IacParser`, `IacGrammar` |
| HTTP session | `protocol/http/http_session.c` | registry, self-pipe, request buffer | read, respond, wait, close | `HttpSession`, `Server` |
| HTTP parser | `protocol/http/http_proto.c` | none | parse | `HttpSession` |
| Chat service | `features/chat/room.c` | per room a lock and `sub_fds[]` | subscribe, unsubscribe, post, presence | `ChatBus`, `BusVisits`, `Presence` |
| Chat storage | `features/chat/chat_db.c` | messages, presence | insert, since, before, max, set, clear | `ChatStore`, `Presence` |
| Chat screen | `features/chat/chat.c` | room, page, compose line | keys, wake-ups | `ChatBus`, `TelnetSession` |
| Chat API | `features/chat/http_chat.c` | the stream's cursor | route, post, event stream, history | `ChatBus`, `HttpSession` |
| Games, placeholders | `games/`, `features/stubs.c` | none | one screen, one key | `TelnetSession` |
| Web client | `web/app.js` | room, cursor, event source | select room, receive, reconnect | `WebClient` |
| UI, arguments, privileges, logging | `ui/`, `core/args.c`, `core/priv.c`, `core/*.h` | none | | not modelled |

How they interact. The main thread accepts connections, takes a slot of the
connector's semaphore for each and hands it to a detached thread. The thread
runs the protocol's session, which registers itself in the protocol's registry
and owns a self-pipe. While a session is in a chat room the write end of its
pipe is also in the room's list; `chat_room_post` stores a message and then
writes one byte to each descriptor in the list. The woken session drains its
pipe and reads the database. At shutdown the main thread flags every registered
session, writes to its pipe, and waits until all slots are back.

What is hard about it: descriptors that are closed and handed out again while a
post walks a list of them; wake-ups merged or dropped in a pipe; read, subscribe
and drain steps in an order that leaves a gap; sessions that begin or end while
the registry is walked; error paths between accept and the running thread; two
timeouts that share one `poll`; events raised inside FSM actions and dispatched
later; bytes cut into reads anywhere; answers that reach a page in another order
than it asked; presence rows that outlive the session or the process that wrote
them. `PROJECT.json` lists these hazards line by line with the properties that
cover them.

## 2. Modules

### ChatStore: the storage layer

One SQLite connection behind one mutex, so each call is one atomic step, and the
module is a set of operators that the actions of `ChatBus` apply. Messages are
never deleted and ids are `AUTOINCREMENT`, so the table is a sequence of rooms
and an id is a position in it. A result set is a set of ids: both queries return
their rows in ascending order.

### ChatBus: publish/subscribe and its three users

`log`, `presence`, `sub_fds`, `lock` are the shared state; `owner` and `pipe` are
the kernel's side of the pipes (who has a descriptor, how many bytes are in it);
the rest is per thread: the program counter `pc`, and the fields of
`chat_state_t` or the local variables of `handle_sse`.

* Every action is one access to shared state. `chat_room_post` is `PostInsert`,
  `PostLock`, `PostWrite` (once per subscriber) and `PostUnlock`; `handle_sse` is
  `SseTail`, `Subscribe`, `SseJoin`, then `SseWake`, `SseFetch`, `SseSend`,
  `SseSent` in turn; `enter_room` is `EnterRoom`, `Subscribe`, `Render`;
  `leave_room` and `chat_destroy` are `Unsubscribe` and `Clear`.
* A thread slot runs one session after another, and `Close` returns the
  descriptor, so numbers are reused.
* `pipe2` may fail, an insert may fail, a full pipe loses the byte, a send to a
  stream may fail in the middle of a batch, a session may end at any wait.
* Names are given as they come out of `sanitize_user`; message bodies and the
  clock are left out (`Presence` has the clock). The `SELECT`s are taken to
  succeed.

### BusVisits: what a visitor may count on

`ChatBus` with two history variables, which follow its steps and restrict none.
`crowded` holds the visitors that found as many others in the room as the list
has places; `chat_room_subscribe` drops the subscription of such a one. `robbed`
holds the visitors whose presence row another session of the same name has
deleted when it left, until somebody writes the row again. `VisitorListed` and
`PresenceExact` say that these are the only ways to lose out.

### RoomFeed and BusFeed: what a stream promises

`RoomFeed` is the abstract specification of a room's event stream: somebody
posts; a reader tunes in at the room's newest id; it is sent the oldest message
it has not seen; it tunes out. `BusFeed` maps `ChatBus` to it: a session is tuned
in while it is between `SseTail` and the end of its loop, `start` is the id it
read there, `got` is what it has sent. Pipes, locks, lists, wake-ups, batches and
cursors disappear. `ImplementsFeed` is `RoomFeed`'s specification under that
mapping. `WebClient` is built on `RoomFeed` and so rests on what `ChatBus` was
shown to implement. The feed promises no liveness; `BusStreamStart` shows why.

### Server: the life of the process

The main thread (`main`), the semaphore (`slots`; `waited` and `taken` are what
`connector_destroy` counted and what it got), the registries (`reg`), and per
connection a thread (`th`), its socket, its pipe and its input.

* `Start` .. `Create` are `main`, `server_run` and `connector_spawn`; `ShutLock`
  .. `ShutUnlock` is one protocol's `shutdown_all`, which holds the registry lock
  over a flag and a write per session; `WaitSlot`, `Destroy`, `Exit` are the end.
* `Enter` .. `Post` are a connection's thread: `thread_entry` (`Enter`, `Return`, `Post`:
  the two updates of `active`, the slot), `connection_run` (`Run`, `Leave`: the two
  updates of `active_connections`, the session's creation), then the telnet
  loop (`Check`, `PollWake`, `Drain`, `Recheck`, `Redraw`, `Recv`, `Reply`, `Bye`)
  or `read_request` and, for an event stream, `http_conn_wait`, whose steps are
  those of the telnet loop; then unregister, close the pipe, close the socket.
* A signal (`Deliver`) interrupts `select` or `sem_wait`, or neither, if it comes
  when the main thread is not blocked.
* With `MayFail`, `malloc`, `pipe2`, `accept`, `select`, `pthread_create` and
  `create_session` may fail. Clients in `Stalled` do not read, so that sending to
  them blocks until they are gone.
* The increment of `online_count` is one step with the registration it precedes,
  and its decrement with the closing of the socket it precedes.

### TelnetSession: one session's state machine

The session record `s` holds the fields of `telnet_session_t` and `chat_state_t`
that control depends on. The operators `on_data`, `fsm_dispatch`,
`telnet_fsm_table`, `act_*`, `handle_*` follow the functions of the same names;
they return the set of possible outcomes because `chat_create` may fail. The
event loop is `Top`, `Timeout`, `Wake`, `Recv`, `FeedNext`, `FeedDone`, `RecvEof`,
`PollFails`, `Cleanup`. The input is what the IAC parser reports: keys, option
replies, window sizes. Keys that act alike are one key: `c` stands for all
placeholder features, `^C` also for Esc, `cr` for Enter and `i`. Which of its two
timeouts `poll` was given is left open here: what `Timeout` does depends on
`nego_pending` alone. How long the polls last is in `Presence`. Paging keys change
nothing here and are in `ChatBus`.

### IacParser, IacCuts and IacGrammar: the telnet byte stream

`IacParser` has the fields of `iac_parser_t` and one action per byte (`Feed`) and
one for the end of a read (`ReadEnds`). Data bytes are collected in `slice` and
reported when a command or the end of the read flushes them; `out` is what the
callbacks were told. A byte is one of the parser's special bytes or one of
`Others`. `IacCuts` runs two parsers on the same bytes whose reads end at
different places. `IacGrammar` says what a whole stream means, unit by unit and
without parser states or reads (`Decode`), after RFC 854 and 855, which
`telnet_proto.h` names: a byte 255 is doubled in data and in a subnegotiation, and
stands for one. `DecodesStream` compares the two. `MCIacParser` has the bytes of the
run.

The parser does not keep the doubled 255 of a subnegotiation (`telnet_proto.c:99`).
So `DecodesStream` asks for the same callbacks, one for one and in order, and for
equal ones except where the grammar's block holds a data byte 255.

### HttpSession: one HTTP connection

From the first byte to `close`. The client's bytes are tokens (a text with a
blank, `Content-Length: 1`, CR, LF) that arrive one at a time while the thread
runs, so a read ends anywhere. `http_parse_request` and `get_line` are operators
that follow the functions; `Receive`, `Quiet`, `PeerLeft` are `read_request`;
`Dispatch` and `DispatchStream` are the router with the statuses each handler can
give; `Fallback` is the 404 of `http_run_session` for a handler that has not set
`responded`; `Unregister`, `Drain`, `Close` are the end with `close_graceful`. The
kernel resets a connection that is closed with unread bytes or written to after its
close, and a reset takes an unread response with it.

`send_all` has no timeout. A response with a body, or a frame of a stream, may be
larger than the socket's buffer; the thread then stays in `send` (`pc` = "send" or
"frame") until the client reads (`ReadReply`) or is gone, and then goes on
(`SendRest`, `FrameRest`).

### WebClient: the page

`web/app.js`. Calls of `selectRoom` are numbered; each stops at its `await` and
goes on when its history comes (`Resume`), when others may have been made. The
globals `current`, `cursor`, `events` and the view are shared by all of them.
An `EventSource` whose connection is lost is opened again by the browser, and the
server starts a new stream for it. History requests, user lists and connections
may fail, as often as `MaxFaults` says.

### Presence: who is in the room

The presence table with its time stamps, over crashes and restarts. A row is an
age, and an age past the window is not told from a greater one, so time is not
bounded. Each session is in a `poll` (`waited`); whatever wakes it starts a new
one, and only a keepalive timeout of a stream, or a user's own post over telnet,
renews a row. A telnet session may enter a room while it still waits for replies to
its negotiation (`nego`): its poll then has the rest of the deadline or, past it,
the idle timeout (`PollTimeout`), and the timeout ends the negotiation and not the
session (`NegoTimeout`, `telnet_session.c:513`). A session whose send blocks (`held`)
renews nothing. `away` and `excuse` are history variables that the properties speak
of.

### Which module has what in common

`ChatBus` leaves open when a session ends; `Server` says when it does. `Server`
leaves open when a post wakes a session (`Notify`); `ChatBus` says when.
`TelnetSession` leaves both open and has the keys; its input is what `IacParser`
reports. `Server` has an HTTP session's registry and shutdown, `HttpSession` its
bytes and responses, `ChatBus` its stream. `chat.c` is in two of them: its rooms,
pages and posts in `ChatBus`, its states in `TelnetSession`. `PresenceExact` of
`BusVisits` ignores time; `Presence` has time, and the bus's steps as single ones.

## 3. What the runs check

`pass` runs: TLC explores the whole instance and finds no error. The
`violation` runs each check one sentence of the documentation that the code does
not keep; their counterexamples are the `findings` of `PROJECT.json`. State
counts are approximate.

| Run | Instance | Checks |
|---|---|---|
| `BusPair` | two threads of one user, one serving any kind of session, one web clients; two rooms, two descriptors, a list of one, two posts (0.25 M states) | `TypeOK`; `StreamExact`: the frames of a stream are the room's messages from its start to its cursor, once each and in order; `ImplementsFeed`: the bus implements `RoomFeed`; `SubscribersLive`: each listed descriptor belongs to a session in that room now; `VisitorListed`: a visitor is listed unless the room was full when it came; `PresenceExact`: a visitor has a row unless a namesake left since it was written, and a row has a visitor; `NoLostWakeup`: a listed screen that sleeps is up to date or about to be woken |
| `BusLive` | two telnet users, one of whom may post from the web, one room, a list of two (0.14 M states) | `VisitorListed`, with entries that are swapped; `LiveViewFollows`: a stored message comes onto each screen that follows the room |
| `ServerFull` | one slot, two clients, all failures, two signals (1.2 M states) | `TypeOK`; `SlotAccount`: free slots, threads, main's reservation and what the drain took add up to `max_conn`; `SocketOwned`: a socket is open exactly while somebody owns it; `DrainComplete`: at most one thread outlives the drain per interrupted `sem_wait`; `CountersExact`: `active`, `active_connections` and `online_count` count what is between their updates |
| `ServerPrompt` | two slots, a client of each protocol, the telnet one may stop reading, no failures (0.41 M states) | `RegistryLive`: what `shutdown_all` visits has its pipe open; `ShutdownHeard`: afterwards every registered session is flagged and will notice; `ShutdownUnlessHeld`: after a SIGTERM the process ends without any timeout, unless a thread stays in `read_request` or in a blocking send |
| `TelnetKeys` | up to eight reads of up to two tokens (0.24 M states) | `TypeOK` with the bounds of the edit buffers; `GameOwned`, `NotifyTarget`: state, active game and hook agree; `NothingDeferred`; `NeverStuck`: every state a session waits in has a way out by timeout; `SilenceEnds`: the session of a silent client that takes what it is sent ends unless it sits in a room |
| `IacStream` | all streams of up to seven bytes, cut in two ways at once, an accumulator of two (1.8 M states) | `TypeOK` with the bounds of the accumulator; `CutIndependent`: the callbacks are the same wherever reads end; `DecodesStream`: they are those of the grammar of RFC 854 and 855, but for the contents of blocks with a data byte 255 |
| `HttpRequests` | all streams of up to seven tokens, a buffer of six, a drain of one turn; the client may leave its answer unread (0.75 M states) | `TypeOK`; `VerdictExact`: the request read, or its 400 or 413, is the one the stream begins with, and a 408 means none had arrived; `OneReply`; `ReplyKept`: the response survives the close if what was unread fits the drain; `HandlerEnds`: the thread gets to its end unless the client holds a stream open or, again and again or for ever, a send waits for it |
| `WebView` | two selections, two rooms, three messages, two faults, a history of one row (0.23 M states) | `TypeOK`; `ShownOnce`: ids in the view ascend, whichever calls wrote it; `ViewExact`: a view no other call disturbed shows its history and its stream, and what it lacks below its cursor is older than the stream; `ConnectionSettles`: one connection remains, to the room selected last unless that call failed or an older one came after it; `WhoSettles`: the user list becomes that of the selected room |
| `PresenceWindow` | a telnet session and two streams, two of them with one name; a window and an idle timeout of four, a keepalive of two, a negotiation of one; two posts, keys or sends that block (0.16 M states) | `TypeOK`: no poll outlasts its timeout; `DropsOff`: nobody is listed who has not been there within the window, after a crash either; `ListedUnlessDisturbed`: a visitor who is not listed was woken, held in a send or timed out for the negotiation since the last renewal, or a namesake left; `StreamHeals`: when the room is quiet a stream whose client reads gets its row back |

| Run | What the documentation says | What happens |
|---|---|---|
| `BusStreamStart` | "one frame per new message" | a message between `chat_room_tail` and `chat_room_subscribe` waits for the next one |
| `ServerInterrupted` | "Blocks until every spawned thread has returned its slot" | an interrupted `sem_wait` counts as a slot |
| `WebHistory` | "history first, then live stream from the newest id we have" | the stream starts at the newest id the server has; messages between the history's last row and that id are not shown |

Further disagreements that the models show and for which no run is kept:

* a session that found `sub_fds[]` full follows nothing (`Subscribe`, `room.c:170`;
  README: "appears live on a telnet screen"); these are the `crowded` of
  `VisitorListed`;
* a wake-up of a stream flushes one batch of 64 only (`SseFetch`,
  `http_chat.c:244-246`: "flush everything newer than our cursor");
* two sessions of one name share a presence row, and the first to leave deletes it
  (`Clear`, `chat_db.c:278`); these are the `robbed` of `PresenceExact`;
* a client that stops reading blocks `send`, and with it the session and the
  shutdown (`HeldUp` of `Server`, `Held` of `HttpSession`; `telnet_session.c:94`,
  `http_session.c:96`);
* a session whose `pipe2` failed is not woken by the shutdown and sits out its
  timeout (`ShutWrite`); this is why `ServerPrompt` has no failures;
* a SIGHUP outside `select` is noticed only with the next signal (`Deliver`,
  `server.c:144`; `server.h:64`: "SIGHUP triggers server_reload()");
* a read at the negotiation's deadline turns the wait for replies into the idle
  timeout (`Top`, `telnet_session.c:501`);
* posts of others restart the idle timeout of a silent client in a room (`Wake`;
  hence the exception in `SilenceEnds`);
* Enter sent as CR LF opens the compose line and closes it (`chat_handle_key`,
  `chat.c:341` and `376`; `chat.c:334`: "Enter/i compose");
* cancelling a line over a history page turns to the page before it (`chat.c:373`;
  `chat.c:12`: "'p' walks older pages");
* an HTTP client that has sent no request holds the shutdown up until its read
  timeout, since `read_request` does not poll the notify pipe
  (`http_session.c:276`; `docs/ARCHITECTURE.md:51`: "a SIGTERM completes in
  milliseconds"); this is the exception in `ShutdownUnlessHeld`;
* after an unfinished negotiation the first idle timeout is spent on `NEGO_DONE`
  and a second one is waited for (`telnet_session.c:513`; `telnet_session.h:35`:
  "Seconds of silence before disconnect");
* `since=0` returns the oldest messages (`HistoryRows`, `http_chat.c:151`;
  `README.md:124`: "newest `limit` if `since=0`");
* an event of the old room's stream that arrives while the new room's history is
  awaited is shown in the new view, and its id suppresses older rows of that
  history (`Receive`, `Render`); a late history of an older selection takes the
  stream over (`Resume`); a failed history request leaves the old stream under
  the new title (`HistoryFails`). `ViewExact` is about views where none of this
  happened;
* a data byte 255 of a subnegotiation, which RFC 855 has sent doubled, is dropped,
  and the bytes after it move up, in a window size for instance (`InSbIac`,
  `telnet_proto.c:99`; `telnet_proto.h:6`: "option negotiation (RFC 854/855)",
  `README.md:18`: "full IAC/NAWS negotiation"); this is the exception in
  `DecodesStream`;
* a subnegotiation without an option byte reports that of an earlier one
  (`telnet_proto.c:94`), which `Reported` hides;
* a visitor of a busy room is not listed any more, because each post starts the
  keepalive's wait again (`RestPost`, `http_chat.c:239`; `http_chat.c:30`:
  "Heartbeat / presence-refresh interval."); a namesake who leaves deletes the
  shared row, which a stream restores at its next keepalive and a telnet session
  only with its next post.

### Bounds, and why they are enough

The theorems of section 4 have no bounds; what follows matters for the
properties that are only model-checked.

* Bus: with limits of one (batch, screen lines, pipe capacity, list length) two
  posts already overflow every one of them; two descriptors for two or three
  threads make descriptors move between sessions, rooms and kinds of session.
* Server: two clients are enough for a competition for the last slot, for a
  session that ends while another is walked over, and for one that registers
  after the walk. One slot gives rejections, two give concurrency. Two signals
  are a SIGTERM or SIGHUP and one that comes later.
* Telnet: a name, a room and a line need five reads of one key each; eight reads
  of two tokens reach each FSM state and each chat state, leave them in each way
  and come back. Buffers of one character are full at once.
* Parser: seven bytes hold a subnegotiation that overflows the accumulator of two
  and its end, or two commands with data between them.
* HTTP: seven tokens hold a request with a header and a body, and one token more
  than the buffer; a drain of one turn is exceeded by two unread tokens.
* Page: two calls are enough for every order of answers, three messages for a row
  of history, one between it and the stream, and one on the stream.
* Presence: two posts or keys, each just before the keepalive is due, keep a stream
  from renewing its row for longer than the window, and one does so for a telnet
  session; crashes, restarts, arrivals, departures and time have no bound.

Deadlock is checked for the bus, where sessions can always begin again (a
post, a subscription and a leave cannot block each other for ever), for the
parser and for presence. In `Server`, `TelnetSession` and `HttpSession` the
process or the session may end, and in `WebClient` the page may come to rest, so
those configurations turn the check off. `BusPair` uses the symmetry of rooms and of
descriptors, which no definition tells apart; it checks safety only. Threads and
clients differ in what they serve or in their protocol.

### Fairness

* `ChatBus!FairSpec`, `BusVisits!VisitFairSpec`: each thread goes on (weak fairness of its own steps);
  users, clients and keepalive timers may do nothing for ever. A thread waiting
  for a room's lock is served in the end in these instances because the critical
  sections are finite and posts are bounded.
* `Server!FairSpec`: the main thread and the sessions' threads are scheduled;
  the one-second timeout of `select` is part of the main thread's steps. Timeouts
  of sessions (`PollTimeout`, `ReadTimeout`) are *not* fair: this is what makes
  "without waiting out timeouts" a statement.
* `TelnetSession!FairSpec`: the loop runs and a `poll` that nothing interrupts
  times out. Input is never owed. A step of the loop includes what it sends, so
  this assumes a client that takes it; one that does not is in `Server`.
* `HttpSession!FairSpec`: the thread runs; its polls have timeouts, so they return.
  The client owes nothing, not even reading: a send that waits for it need not end,
  which `HandlerEnds` allows for. The server's shutdown and the arrival of messages
  are not assumed.
* `WebClient!FairSpec`: requests that do not fail are answered, calls go on after
  their answer, connections are made, a server notices a closed one, and the
  page's 15 s timer fires. Failures are bounded, so an `EventSource` that retries
  gets through. Messages and frames are not owed.
* `Presence!FairSpec`: time passes, and a `poll` that is due returns.

## 4. What is proved

TLAPS checks the following for every value of the constants. The assumptions are
`BusAssumption`, `ServerAssumption`, `TelnetAssumption`, `IacAssumption`,
`HttpAssumption`, `WebAssumption` and `PresenceAssumption`. They say that the constants
have their types, that limits are positive, that the connections of a server and
the selections of a page are finitely many, that special bytes differ, that a
command is not named like another event, and, for
presence, that neither timeout is longer than the window (25 s and 300 s against
300 s in the code) and that the negotiation's is no longer than the idle one. The runs evaluate them for their instances. The bounds of the
runs (posts, faults, reads, tokens) are constants too, so the theorems hold for
each of their values.

| Module | Theorem | Property |
|---|---|---|
| `ChatBusSteps` | `TailIsNewest`, `SinceHasNoGaps` | what the two queries of the storage layer return |
| `ChatBusProofs` | `TypeCorrect`, `NoStaleSubscriber`, `WakeupNotLost`, `StreamIsExact` | `TypeOK`, `SubscribersLive`, `NoLostWakeup`, `StreamExact` |
| | `VisitorsAreListed`, `PresenceIsExact` | `VisitorListed` (finitely many threads), `PresenceExact` |
| | `BusImplementsFeed` | `ImplementsFeed` |
| `ServerProofs` | `ServerTypes`, `SlotsAccounted`, `SocketsOwned`, `CountersRight`, `RegistryIsLive`, `ShutdownIsHeard`, `DrainIsComplete` | `TypeOK`, `SlotAccount`, `SocketOwned`, `CountersExact`, `RegistryLive`, `ShutdownHeard`, `DrainComplete` |
| `TelnetProofs` | `TelnetTypes`, `GameIsOwned`, `NotifyHasTarget`, `FlagsAreConsumed`, `SessionsAreNeverStuck` | `TypeOK`, `GameOwned`, `NotifyTarget`, `NothingDeferred`, `NeverStuck` |
| `IacParserProofs` | `AccumulatorBounded`, `CutsDoNotMatter`, `StreamIsDecoded` | `TypeOK`, `CutIndependent`, `DecodesStream` |
| `HttpProofs` | `ParseExact` | `http_parse_request` against a reference, for any buffer |
| | `HttpTypes`, `ReadRequestExact`, `EveryRequestOneReply`, `DrainKeepsReply` | `TypeOK`, `VerdictExact`, `OneReply`, `ReplyKept` |
| `WebProofs` | `WebTypes`, `ViewInOrder`, `UndisturbedViewExact` | `TypeOK`, `ShownOnce`, `ViewExact` |
| `PresenceProofs` | `PresenceTypes`, `DisconnectedDropOff`, `VisitorsListed` | `TypeOK`, `DropsOff`, `ListedUnlessDisturbed` |

Each module but `ChatBusSteps` also has the theorem that its inductive invariant
holds, or proves that on the way.

### The chat bus

`TailIsNewest` (the maximum id of a room bounds its ids) and `SinceHasNoGaps` (what
lies between a cursor and a fetched row is fetched with it, for any `LIMIT`) rest
on `NatMin`, the least element of a set of naturals, from the well-foundedness of
`<`.

`BusInvariant` is `Spec => []BusInv`. `BusInv` is inductive and has, besides the type
invariant and the results:

* `ControlOK`: a session is only at the steps of its kind, and in a room where
  it needs one. Without it a "rest" thread could be in the middle of a stream.
* `OwnerOK`: descriptor and session point at each other. This makes two sessions'
  descriptors different, so that draining or closing one leaves the others alone.
* `LockOK`: who is writing holds the room's lock, so the list does not move under
  its index. `NoLostWakeup` needs it: the poster's remaining range of the list is
  where the sleeper's entry is, and an unsubscribing session swaps entries.
* `StreamOK`: what a stream has sent are the messages up to its cursor, and the
  batch it holds continues from there without a gap (`SinceHasNoGaps`).

`ChatBusSteps` has the proof conjunct by conjunct: the streams, then types, control,
owners and locks action by action, then the lists (lemmas on what `WithFd` and
`WithoutFd` do to a list without repetitions). `ChatBusProofs` has `NoLostWakeup` and
the theorems. Steps that do not touch what a conjunct reads are dealt with by a
frame lemma each.

The two theorems on visits are about `BusVisits`; `VisitsAreRuns` carries `BusInv` over
to it.

* `VisitorsAreListed` holds for any finite number of threads and any size of list. A
  visitor that found fewer others than places must have got one: `Matched` gives
  each entry of a list a visitor of its own, so a full list has as many visitors as
  places. Its induction follows the entries through the swap of
  `chat_room_unsubscribe` (`Origin`).
* `PresenceIsExact` holds for any names, shared ones included. Its invariant `RowsOK`
  follows each row from `presence_set` to `presence_clear`, which are not the moments
  of joining and leaving the list; a thread that deletes the row of a namesake is
  what puts that one into `robbed`.

`BusImplementsFeed` (`Spec => ImplementsFeed`) uses `BusInv`: `StreamOK` gives that the
next message of a batch is the oldest one the reader has not been sent, and a step
of another thread, or of this one between two frames, leaves the mapped state
alone.

### The server

`ServerInvariant` is `Spec => []ServerInv`, for any number of clients and slots, with
every failure and any bound on signals. Besides the results, `ServerInv` has:

* `MainHolds`: what main has in its hands at each of its steps, a connection
  between accept and spawn, a slot between `sem_trywait` and the thread.
* `NotYet`: a connection that was not accepted has no thread.
* `RegistryExact`: a registry holds the sessions between their registration and
  its end, and a closed pipe means the session is past it. `RegistryLive` follows.
* `Passed`: `ShutdownHeard` for the sessions a walk of `shutdown_all` has already
  passed; without the walk's position it is not inductive.

The proof has two halves: `StateStep` (what each step does to states, sockets
and registries) and `CountStep` (slots and counters, which are cardinalities of
sets of threads; each step adds or takes away one element of them, or none).
`SessionMove` handles all the steps by which a thread goes from one place inside
its session to another.

### The telnet session

A step of the loop is a whole call of `on_data` with the dispatches it makes, so
the invariant has to hold at three depths. `Sound` is a session between two
keys: the chat's state, its room, its name, its hook and the active game agree
(`Hooks`), the FSM is in a game only with one active, and no flag is raised.
`Core` is what remains of it inside a key, when `Flags` says which flag the
action just taken has left for `on_data`. `Ended` is a session after the end of
the event loop (`Cleanup`). There is one lemma per handler and action (from
`Core` to `Core` with these flags), one per dispatch, and one for `on_data`,
which puts them together in the order of the code; then one per step of the
loop.

### The telnet parser

`AccumulatorBounded` is the type invariant, that is no write past the accumulator,
for one of any size; `CutsDoNotMatter` is `CutIndependent` for streams of any length.
The inductive invariant is `SameParser` of `IacCuts`: the two parsers are in the same
state, have reported the same up to what is held back, and hold back data only in
`IAC_DATA`, so that no command overtakes it.

`StreamIsDecoded` is `DecodesStream`: for streams of any length the callbacks are
those the grammar asks for, with its exception. It is not inductive by itself, since
it does not say what the parser knows of a unit that is not complete. `Follows` does:
the parser stands at the unit the grammar finds incomplete, in a command it has the
verb, and in a payload it knows whether the next byte is the second of a pair and
holds as much as there is room for of what it keeps of the payload (`Kept`: no byte of
a pair, where the grammar's `Body` has one of a doubled 255). The proof goes over the grammar
first:

* the recursive functions of `Picked`, of which `Body` and `Kept` are instances, and of
  `Units` exist. A function that solves the
  equation from some place on is continued to the place before, by `Induct` and
  `InductDown`, which are least counterexamples in a set of naturals (`NatMin`) and
  so take no operator as a parameter. From then on the equation is used;
* a byte more changes no complete unit, no pair and no end of a payload
  (`UnitSame`, `EscapedSame`, `EndsSame`), so it adds at most the unit it completes
  (`StreamGrows`, `PayloadGrows`);
* as long as no doubled 255 has come, `Kept` and `Body` are the same, and once one has,
  `Body` holds a 255 (`KeptShares`), so that the block reported is the grammar's or one
  of the exception (`BlockAgrees`);
* one lemma per parser state says that `Feed` does the same.

`StreamIsDecodedWithCuts` restates it for the specification with two parsers, which
is the one the run checks.

### The HTTP session

`Answered` says at each step of the thread what has been answered and with which
verdict, in particular that a handler that has returned has set `responded`, so that
`Fallback` adds no second response. `Budget` is the argument for the drain: while `close_graceful` runs and the
client sends nothing new, what is left to receive is what there was at its start
less a full read per turn taken, so a drain that runs out of turns had more than
`DrainMax * Chunk` to begin with. These two do not depend on what
`http_parse_request` returns.

`ParseExact` is about that: for a buffer of any length the loop over the lines
returns what `VerdictExact` measures it by, the first empty line after the request
line and the length the headers before it claim. The loop is a recursive function
of the position; it exists by the same argument as those of the telnet grammar, and
what it returns follows from the last line backwards. `ExactInv` adds to the type
invariant that the verdict is that of the stream; the step that matters is that
more bytes do not change the verdict on a request that was complete, or malformed,
without them.

### The page

The invariant is built up from the server's side to the view:

* `Streams`: a connection has brought, in order and without gaps, what was posted in
  its room since its start. This is `RoomFeed`'s promise, seen by a reader.
* `Calls`: how a call, its `EventSource`, its connection and its room belong together.
* `Histories`: an answer is an initial part of the room's messages (`since=0`).
* `View`: what is shown was rendered by a call that came to its end, from its room.
* `Faithful`: while nothing disturbs the newest call, its history and all it has
  received are shown, and nothing beyond its connection's start that did not come
  over it. The last part is what makes `ViewExact` inductive: a message filtered out
  as old (`id <= cursor`) must already be in the view.

`RenderStep` is the lemma on `render`: appending the new rows in order keeps the ids
ascending and loses none of them. That the rows are rendered in ascending order uses
`Ranked`, the k-th element of a finite set. The lemmas on the queries are stated
again here for the page's table.

### Presence

`RowAge` (a row is no younger than its name's absence), `InsideNow` (the name of a
session in the room is not absent) and `Kept`: the row of a session that nothing
disturbed was renewed when its present poll began, or later. With the type
invariant, by which no poll outlasts the window whatever the negotiation
(`TimeoutWithin`), `Kept` gives `ListedUnlessDisturbed`. `HeldExcused` is there because
the wait of a session that is in a send stands still while its row grows old.

### Only model-checked

The liveness properties (`LiveViewFollows`, `ShutdownUnlessHeld`, `SilenceEnds`,
`HandlerEnds`, `ConnectionSettles`, `WhoSettles`, `StreamHeals`): liveness under
fairness and `ENABLED` are outside the prover's reach.

## 5. Not modelled

* The layout of screens, JSON, the contents of static files, URL decoding and
  query strings, addresses, logging, command line, privileges: sequential, no
  state that survives a call.
* The telnet send buffer (`session_append`, `session_flush`): each use of it
  is followed by a flush, so that it holds bytes only after a failed `send`, whose
  result is not looked at; the next `recv` ends such a session. That a `send` may block
  is in `Server`, `HttpSession` and `Presence`, and not in `TelnetSession`.
* `Content-Length` values that are not a number, and texts that span the end of a
  line for `strtol`.
* In `Presence`: full subscriber lists, streams without a user, the limit of 64
  listed names, time that goes on while a `poll` is due.
* `refreshRooms` of the page: its counts are drawn once and nothing depends on
  them.
* Failing `SELECT`s. A database that does not open leaves the process without
  rooms, which `Presence` has (`ServiceInit`).
* `request_shutdown`, `protocols[]` and `chat_db_close`, which nothing calls.
* A composition of `Server`'s shutdown with `ChatBus`'s sessions. Each of them
  leaves open what the other decides, so each result holds for what the other
  does; that every session has left its room when the process ends is not stated.
