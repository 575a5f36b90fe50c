--------------------------- MODULE TelnetSession ---------------------------
(***************************************************************************)
(* One telnet session from CONNECTED to its end: the event loop of         *)
(* telnet_run_session, the FSM engine (core/fsm.c) with the transition     *)
(* table and actions of telnet_session.c, and the four states of the chat  *)
(* feature (chat.c) as far as keys move between them.  What the rooms do   *)
(* is module ChatBus, the threads around the session module Server, and    *)
(* screens are left out.                                                   *)
(*                                                                         *)
(* The session's fields are one record s.  An action of the FSM may have   *)
(* several outcomes (a game that cannot be created), so the operators that *)
(* follow the code map a record to the set of records it may become.       *)
(***************************************************************************)
EXTENDS Integers, Sequences

CONSTANTS
    NameMax,    \* bound: username_len (20 in the code)
    LineMax,    \* bound: compose_len (511 in the code)
    ChunkMax,   \* bound: bytes per recv
    MaxChunks   \* bound: recvs per session

ASSUME TelnetAssumption ==
    /\ NameMax \in Nat \ {0} /\ LineMax \in Nat \ {0}
    /\ ChunkMax \in Nat \ {0} /\ MaxChunks \in Nat

(***************************************************************************)
(* What iac_parser_feed makes of the input: key bytes, option replies and  *)
(* window sizes.  "g" is the chat's menu key, "c" stands for the other     *)
(* games', "x" for a letter no menu has, "1" for a room's digit, "^C" for  *)
(* Ctrl-C.                                                                 *)
(***************************************************************************)
Letters == {"g", "c", "q", "Q", "1", "x"}
Keys == Letters \cup {"cr", "lf", "bs", "^C"}
Tokens == Keys \cup {"option", "naws"}
Chunks == UNION {[1..n -> Tokens] : n \in 1..ChunkMax}

FsmStates == {"INIT", "NEGOTIATING", "MAIN_MENU", "IN_GAME", "CLOSING", "CLOSED"}

VARIABLES
    s,                  \* telnet_session_t and chat_state_t
    loop,               \* control state of telnet_run_session
    buf, pos,           \* what the last recv returned, and the next of it
    chunks,             \* recvs so far
    shutdown_requested

vars == <<s, loop, buf, pos, chunks, shutdown_requested>>

Session ==
    [state: FsmStates,
     nego_pending: 0..3,
     active_game: {"none", "stub", "chat"},     \* with its game_state
     chat: {"none", "username", "lobby", "room", "compose"},
     in_room: BOOLEAN,                          \* chat_state_t.room is set
     username: BOOLEAN,                         \* the session has a name
     username_len: 0..NameMax,
     compose_len: 0..LineMax,
     on_notify: BOOLEAN,
     pending_selection: {"none", "stub", "chat"},
     game_over_pending: BOOLEAN,
     quit_pending: BOOLEAN]

(* Type invariant; lengths stay within their buffers. *)
TypeOK ==
    /\ s \in Session
    /\ loop \in {"top", "poll", "recv", "feed", "cleanup", "ended"}
    /\ buf \in Seq(Tokens) /\ pos \in 1..(Len(buf) + 1)
    /\ chunks \in 0..MaxChunks
    /\ shutdown_requested \in BOOLEAN

-----------------------------------------------------------------------------
(* The chat feature: a key, and whether the feature keeps running *)

Running(t) == [s |-> t, running |-> TRUE]
Stopped(t) == [s |-> t, running |-> FALSE]

\* Mutant: on_notify stays hooked.
leave_room_hooked(t) == [t EXCEPT !.in_room = FALSE, !.chat = "lobby"]

leave_room(t) ==
    [t EXCEPT !.in_room = FALSE, !.on_notify = FALSE, !.chat = "lobby"]

\* Mutant: no bound on the name.
handle_username_unbounded(t, key) ==
    IF key \in {"cr", "lf"}
    THEN IF t.username_len = 0 THEN t
         ELSE [t EXCEPT !.username = TRUE, !.chat = "lobby"]
    ELSE IF key = "bs" /\ t.username_len > 0
    THEN [t EXCEPT !.username_len = @ - 1]
    ELSE IF key \in Letters THEN [t EXCEPT !.username_len = @ + 1] ELSE t

handle_username(t, key) ==
    IF key \in {"cr", "lf"}
    THEN IF t.username_len = 0 THEN t
         ELSE [t EXCEPT !.username = TRUE, !.chat = "lobby"]
    ELSE IF key = "bs" /\ t.username_len > 0
    THEN [t EXCEPT !.username_len = @ - 1]
    ELSE IF key \in Letters /\ t.username_len < NameMax
    THEN [t EXCEPT !.username_len = @ + 1]
    ELSE t

enter_room(t) ==
    [t EXCEPT !.in_room = TRUE, !.on_notify = TRUE, !.chat = "room"]

handle_compose(t, key) ==
    IF key = "^C"
    THEN [t EXCEPT !.chat = "room"]
    ELSE IF key \in {"cr", "lf"}
    THEN [t EXCEPT !.chat = "room", !.compose_len = 0]
    ELSE IF key = "bs" /\ t.compose_len > 0
    THEN [t EXCEPT !.compose_len = @ - 1]
    ELSE IF key \in Letters /\ t.compose_len < LineMax
    THEN [t EXCEPT !.compose_len = @ + 1]
    ELSE t

chat_handle_key(t, key) ==
    CASE t.chat = "username" -> Running(handle_username(t, key))
      [] t.chat = "lobby" ->
            IF key \in {"q", "Q"} THEN Stopped(t)
            ELSE Running(IF key = "1" THEN enter_room(t) ELSE t)
      [] t.chat = "room" ->
            IF key = "Q" THEN Stopped(leave_room(t))
            ELSE Running(IF key = "q" THEN leave_room(t)
                         ELSE IF key = "cr"
                         THEN [t EXCEPT !.chat = "compose", !.compose_len = 0]
                         ELSE t)
      [] t.chat = "compose" -> Running(handle_compose(t, key))

\* The destroy of the active game; that of the chat drops the room's hold.
destroy_game(t) ==
    [t EXCEPT !.active_game = "none", !.chat = "none", !.in_room = FALSE,
              !.username_len = 0, !.compose_len = 0,
              !.on_notify = IF t.active_game = "chat" THEN FALSE ELSE @]

-----------------------------------------------------------------------------
(* The FSM's actions: the outcomes, each with its result *)

Ok(t) == {[s |-> t, ok |-> TRUE]}
Error(t) == {[s |-> t, ok |-> FALSE]}

\* Mutant: the replies are not counted.
act_send_negotiations_uncounted(t) == Ok(t)

act_send_negotiations(t) == Ok([t EXCEPT !.nego_pending = 3])

act_show_main_menu(t) ==
    Ok([t EXCEPT !.pending_selection = "none", !.game_over_pending = FALSE])

act_handle_menu_key(t, key) ==
    Ok(IF key \in {"q", "Q", "^C"} THEN [t EXCEPT !.quit_pending = TRUE]
       ELSE IF key = "g" THEN [t EXCEPT !.pending_selection = "chat"]
       ELSE IF key = "c" THEN [t EXCEPT !.pending_selection = "stub"]
       ELSE t)

\* chat_create may run out of memory; the others allocate nothing.
act_start_game(t, sel) ==
    IF sel = "stub" THEN Ok([t EXCEPT !.active_game = "stub"])
    ELSE Ok([t EXCEPT !.active_game = "chat",
                      !.chat = IF t.username THEN "lobby" ELSE "username"])
         \cup Error(t)

\* Mutant: the end of the game is not reported.
act_game_key_silent(t, key) ==
    IF t.active_game = "none"
    THEN Ok([t EXCEPT !.game_over_pending = TRUE])
    ELSE LET r == IF t.active_game = "chat" THEN chat_handle_key(t, key)
                  ELSE Stopped(t) IN
         Ok(IF r.running THEN r.s ELSE destroy_game(r.s))

\* Any key ends a stub.
act_game_key(t, key) ==
    IF t.active_game = "none"
    THEN Ok([t EXCEPT !.game_over_pending = TRUE])
    ELSE LET r == IF t.active_game = "chat" THEN chat_handle_key(t, key)
                  ELSE Stopped(t) IN
         Ok(IF r.running THEN r.s
            ELSE [destroy_game(r.s) EXCEPT !.game_over_pending = TRUE])

Row(state, event, action, next, error) ==
    [state |-> state, event |-> event, action |-> action,
     next |-> next, error |-> error]

telnet_fsm_table ==
    {Row("INIT", "CONNECTED", "send_negotiations", "NEGOTIATING", "CLOSING"),
     Row("NEGOTIATING", "NEGO_DONE", "show_main_menu", "MAIN_MENU", "CLOSING"),
     Row("NEGOTIATING", "KEY_INPUT", "show_main_menu", "MAIN_MENU", "CLOSING"),
     Row("MAIN_MENU", "KEY_INPUT", "handle_menu_key", "MAIN_MENU", "CLOSING"),
     Row("MAIN_MENU", "MENU_SELECT", "start_game", "IN_GAME", "MAIN_MENU"),
     Row("IN_GAME", "KEY_INPUT", "game_key", "IN_GAME", "CLOSING"),
     Row("IN_GAME", "GAME_OVER", "show_main_menu", "MAIN_MENU", "CLOSING")}
    \cup {Row(x, "DISCONNECT", "close", "CLOSED", "CLOSED") :
             x \in FsmStates \ {"CLOSED"}}
    \cup {Row(x, "TIMEOUT", "close", "CLOSED", "CLOSED") :
             x \in {"MAIN_MENU", "IN_GAME"}}

\* act_close says goodbye and shuts the socket down.
Act(action, t, data) ==
    CASE action = "send_negotiations" -> act_send_negotiations(t)
      [] action = "show_main_menu"    -> act_show_main_menu(t)
      [] action = "handle_menu_key"   -> act_handle_menu_key(t, data)
      [] action = "start_game"        -> act_start_game(t, data)
      [] action = "game_key"          -> act_game_key(t, data)
      [] action = "close"             -> Ok(t)

\* The row for the present state and the event, if there is one, runs its action;
\* the state is written after the action has returned.
fsm_dispatch(t, event, data) ==
    LET rows == {r \in telnet_fsm_table : r.state = t.state /\ r.event = event} IN
    IF rows = {} THEN {t}
    ELSE LET r == CHOOSE r \in rows : TRUE IN
         {[o.s EXCEPT !.state = IF o.ok THEN r.next ELSE r.error] :
             o \in Act(r.action, t, data)}

-----------------------------------------------------------------------------
(* What the IAC parser calls *)

Terminal(t) == t.state = "CLOSED"

\* on_data: the key, then whatever its action left to be dispatched.
GameOver(t) ==
    IF t.game_over_pending /\ ~Terminal(t)
    THEN fsm_dispatch([t EXCEPT !.game_over_pending = FALSE], "GAME_OVER", "")
    ELSE {t}
Quit(t) ==
    IF t.quit_pending /\ ~Terminal(t)
    THEN fsm_dispatch([t EXCEPT !.quit_pending = FALSE], "DISCONNECT", "")
    ELSE {t}
\* Mutant: the selection is not consumed.
MenuSelectKept(t) ==
    IF t.pending_selection # "none" /\ ~Terminal(t)
    THEN fsm_dispatch(t, "MENU_SELECT", t.pending_selection)
    ELSE {t}

MenuSelect(t) ==
    IF t.pending_selection # "none" /\ ~Terminal(t)
    THEN fsm_dispatch([t EXCEPT !.pending_selection = "none"], "MENU_SELECT",
                      t.pending_selection)
    ELSE {t}
on_data(t, key) ==
    IF Terminal(t) THEN {t}
    ELSE UNION {UNION {UNION {MenuSelect(c) : c \in Quit(b)} : b \in GameOver(a)} :
                   a \in fsm_dispatch(t, "KEY_INPUT", key)}

\* on_option: any reply counts, and the last one ends the negotiation.
on_option(t) ==
    IF t.nego_pending = 0 THEN {t}
    ELSE LET u == [t EXCEPT !.nego_pending = @ - 1] IN
         IF u.nego_pending = 0 /\ ~Terminal(u)
         THEN fsm_dispatch(u, "NEGO_DONE", "") ELSE {u}

Feed(t, token) ==
    IF token = "option" THEN on_option(t)
    ELSE IF token = "naws" THEN fsm_dispatch(t, "NAWS", "")
    ELSE on_data(t, token)

-----------------------------------------------------------------------------
(* The event loop *)

\* telnet_create_session, and the CONNECTED event of telnet_run_session.
Fresh ==
    [state |-> "INIT", nego_pending |-> 0,
     active_game |-> "none", chat |-> "none", in_room |-> FALSE,
     username |-> FALSE, username_len |-> 0, compose_len |-> 0,
     on_notify |-> FALSE, pending_selection |-> "none",
     game_over_pending |-> FALSE, quit_pending |-> FALSE]

Init ==
    /\ s \in fsm_dispatch(Fresh, "CONNECTED", "")
    /\ loop = "top"
    /\ buf = <<>> /\ pos = 1 /\ chunks = 0
    /\ shutdown_requested = FALSE

\* The loop's condition.  (How long poll waits is in module Presence.)
Top ==
    /\ loop = "top"
    /\ loop' = IF Terminal(s) \/ shutdown_requested THEN "cleanup" ELSE "poll"
    /\ UNCHANGED <<s, buf, pos, chunks, shutdown_requested>>

\* Mutant: the negotiation is never given up.
TimeoutStillPending ==
    /\ loop = "poll"
    /\ s' \in IF s.nego_pending > 0 THEN fsm_dispatch(s, "NEGO_DONE", "")
              ELSE fsm_dispatch(s, "TIMEOUT", "")
    /\ loop' = "top"
    /\ UNCHANGED <<buf, pos, chunks, shutdown_requested>>

\* poll returns 0: the timeout it was given has passed.
Timeout ==
    /\ loop = "poll"
    /\ s' \in IF s.nego_pending > 0
              THEN fsm_dispatch([s EXCEPT !.nego_pending = 0], "NEGO_DONE", "")
              ELSE fsm_dispatch(s, "TIMEOUT", "")
    /\ loop' = "top"
    /\ UNCHANGED <<buf, pos, chunks, shutdown_requested>>

\* poll fails with something other than EINTR.
PollFails ==
    /\ loop = "poll"
    /\ loop' = "cleanup"
    /\ UNCHANGED <<s, buf, pos, chunks, shutdown_requested>>

\* A wake-up through the pipe: drained, and handed to on_notify, which redraws.
\* (Bytes left from a room that has been left are drained to no effect.)  The
\* socket is read in the same round if poll had found it readable too.
Wake ==
    /\ loop = "poll"
    /\ s.on_notify \/ shutdown_requested
    /\ loop' \in IF shutdown_requested THEN {"cleanup"} ELSE {"top", "recv"}
    /\ UNCHANGED <<s, buf, pos, chunks, shutdown_requested>>

Recv ==
    /\ loop \in {"poll", "recv"} /\ chunks < MaxChunks
    /\ buf' \in Chunks
    /\ pos' = 1
    /\ chunks' = chunks + 1
    /\ loop' = "feed"
    /\ UNCHANGED <<s, shutdown_requested>>

FeedNext ==
    /\ loop = "feed" /\ pos <= Len(buf)
    /\ s' \in Feed(s, buf[pos])
    /\ pos' = pos + 1
    /\ UNCHANGED <<loop, buf, chunks, shutdown_requested>>

FeedDone ==
    /\ loop = "feed" /\ pos > Len(buf)
    /\ buf' = <<>> /\ pos' = 1
    /\ loop' = "top"
    /\ UNCHANGED <<s, chunks, shutdown_requested>>

\* recv returns nothing: the peer is gone.
RecvEof ==
    /\ loop \in {"poll", "recv"}
    /\ s' \in fsm_dispatch(s, "DISCONNECT", "")
    /\ loop' = "cleanup"
    /\ UNCHANGED <<buf, pos, chunks, shutdown_requested>>

Cleanup ==
    /\ loop = "cleanup"
    /\ s' = IF s.active_game # "none" THEN destroy_game(s) ELSE s
    /\ loop' = "ended"
    /\ UNCHANGED <<buf, pos, chunks, shutdown_requested>>

\* shutdown_all flags the session.
ShutdownAll ==
    /\ loop # "ended" /\ ~shutdown_requested
    /\ shutdown_requested' = TRUE
    /\ UNCHANGED <<s, loop, buf, pos, chunks>>

LoopStep ==
    \/ Top \/ FeedNext \/ FeedDone \/ Cleanup
    \/ loop = "recv" /\ (Recv \/ RecvEof)

Next ==
    \/ LoopStep \/ Timeout \/ PollFails \/ Wake \/ Recv \/ RecvEof
    \/ ShutdownAll

Spec == Init /\ [][Next]_vars

\* The thread runs and a poll that nothing interrupts times out.  A step of the
\* loop may end in a send, which returns while the client reads; one that does
\* not read can hold the thread up (module Server, HeldUp).
FairSpec == Spec /\ WF_vars(LoopStep) /\ WF_vars(Timeout)

-----------------------------------------------------------------------------
(* Properties *)

(***************************************************************************)
(* Between two keys, a game is active exactly in the state IN_GAME, until  *)
(* the session closes; when it has ended no game is left behind.  The      *)
(* guard of act_game_key for "an inconsistent state" is never needed.      *)
(***************************************************************************)
GameOwned ==
    /\ s.state = "IN_GAME" /\ loop # "ended" => s.active_game # "none"
    /\ s.active_game # "none" => s.state \in {"IN_GAME", "CLOSED"} \/ loop = "cleanup"
    /\ loop = "ended" => s.active_game = "none" /\ ~s.in_room

(***************************************************************************)
(* chat_on_notify takes game_state for a chat_state_t: while it is hooked, *)
(* the chat is the active game and is in a room, whatever way the room,    *)
(* the chat or the session was left before; and only under a name.         *)
(***************************************************************************)
NotifyTarget ==
    /\ s.on_notify => s.active_game = "chat" /\ s.in_room
    /\ s.in_room => s.chat \in {"room", "compose"} /\ s.username

(***************************************************************************)
(* A deferred flag is consumed by the key that raised it, so no event is   *)
(* dispatched for a state that has been left since.                        *)
(***************************************************************************)
NothingDeferred ==
    s.state # "CLOSED" =>
        ~s.quit_pending /\ ~s.game_over_pending /\ s.pending_selection = "none"

(***************************************************************************)
(* No session sits in a state that a timeout does not leave: once no reply *)
(* is awaited, the table has a TIMEOUT row for where the session is, so    *)
(* NEGOTIATING is over and CLOSING is never reached.                       *)
(***************************************************************************)
NeverStuck ==
    loop = "poll" /\ s.nego_pending = 0 =>
        \E r \in telnet_fsm_table : r.state = s.state /\ r.event = "TIMEOUT"

(***************************************************************************)
(* A client that has gone silent (all its input is read) but takes what it *)
(* is sent loses its session in the end, unless it keeps sitting in a chat *)
(* room.                                                                   *)
(***************************************************************************)
SilenceEnds == []<>s.in_room \/ <>(loop = "ended")

=============================================================================
