---------------------------- MODULE TelnetProofs ----------------------------
(***************************************************************************)
(* The safety properties of TelnetSession, for names, lines, chunks and    *)
(* sessions of every length.                                               *)
(***************************************************************************)
EXTENDS TelnetSession, TLAPS

\* The chat's fields agree with one another and with the active game.
Hooks(t) ==
    /\ t.chat = "none" <=> t.active_game # "chat"
    /\ t.in_room <=> t.chat \in {"room", "compose"}
    /\ t.in_room \/ t.chat = "lobby" => t.username
    /\ t.on_notify => t.in_room

\* The flags that an action leaves for on_data to dispatch.
Flags(t, over, quit, selection) ==
    /\ t.game_over_pending = over
    /\ t.quit_pending = quit
    /\ t.pending_selection = selection

\* What holds of a session also between the dispatches of one key.
Core(t) ==
    /\ t \in Session /\ Hooks(t)
    /\ t.state \in {"NEGOTIATING", "MAIN_MENU", "IN_GAME", "CLOSED"}
    /\ t.state = "NEGOTIATING" => t.nego_pending # 0
    /\ t.active_game # "none" => t.state \in {"IN_GAME", "CLOSED"}

\* A session between two keys.
Sound(t) ==
    /\ Core(t)
    /\ t.state = "IN_GAME" => t.active_game # "none"
    /\ t.state # "CLOSED" => Flags(t, FALSE, FALSE, "none")

\* A session that has been cleaned up.
Ended(t) ==
    /\ t \in Session /\ Hooks(t)
    /\ t.active_game = "none"
    /\ t.state # "CLOSED" => Flags(t, FALSE, FALSE, "none")

Inv ==
    /\ TypeOK
    /\ IF loop = "ended" THEN Ended(s) ELSE Sound(s)
    /\ loop = "poll" => s.state # "CLOSED"

-----------------------------------------------------------------------------
(* The chat feature *)

\* The fields that a key in the chat does not touch.
SameOutside(t, u) ==
    /\ u.state = t.state /\ u.nego_pending = t.nego_pending
    /\ u.active_game = t.active_game
    /\ Flags(u, t.game_over_pending, t.quit_pending, t.pending_selection)

ChatStep(t, u) == u \in Session /\ Hooks(u) /\ SameOutside(t, u)

(* A key in the screen for the name. *)
LEMMA UsernameKey ==
    ASSUME NEW t \in Session, Hooks(t), t.chat = "username", NEW key \in Keys
    PROVE  ChatStep(t, handle_username(t, key))
<1>1. ChatStep(t, t)
  BY Zenon DEF ChatStep, SameOutside, Flags
<1>2. ChatStep(t, [t EXCEPT !.username = TRUE, !.chat = "lobby"])
  <2> DEFINE u == [t EXCEPT !.username = TRUE, !.chat = "lobby"]
  <2>1. u \in Session
    BY Zenon DEF Session
  <2>2. Hooks(u)
    BY Zenon DEF Session, Hooks
  <2>3. SameOutside(t, u)
    BY Zenon DEF Session, SameOutside, Flags
  <2> QED  BY <2>1, <2>2, <2>3, Zenon DEF ChatStep
<1>3. ASSUME NEW n \in 0 .. NameMax
      PROVE  ChatStep(t, [t EXCEPT !.username_len = n])
  <2> DEFINE u == [t EXCEPT !.username_len = n]
  <2>1. u \in Session
    BY Zenon DEF Session
  <2>2. Hooks(u)
    BY Zenon DEF Session, Hooks
  <2>3. SameOutside(t, u)
    BY Zenon DEF Session, SameOutside, Flags
  <2> QED  BY <2>1, <2>2, <2>3, Zenon DEF ChatStep
<1>4. t.username_len \in 0 .. NameMax
  BY Zenon DEF Session
<1>5. /\ t.username_len > 0 => t.username_len - 1 \in 0 .. NameMax
      /\ t.username_len < NameMax => t.username_len + 1 \in 0 .. NameMax
  BY <1>4, TelnetAssumption
<1> QED  BY <1>1, <1>2, <1>3, <1>5, Zenon DEF handle_username

(* A key in the line that is being composed. *)
LEMMA ComposeKey ==
    ASSUME NEW t \in Session, Hooks(t), t.chat = "compose", NEW key \in Keys
    PROVE  ChatStep(t, handle_compose(t, key))
<1>1. ChatStep(t, t)
  BY Zenon DEF ChatStep, SameOutside, Flags
<1>2. t.compose_len \in 0 .. LineMax
  BY Zenon DEF Session
<1>3. ASSUME NEW n \in 0 .. LineMax
      PROVE  ChatStep(t, [t EXCEPT !.chat = "room", !.compose_len = n])
  <2> DEFINE u == [t EXCEPT !.chat = "room", !.compose_len = n]
  <2>1. u \in Session
    BY Zenon DEF Session
  <2>2. Hooks(u)
    BY Zenon DEF Session, Hooks
  <2>3. SameOutside(t, u)
    BY Zenon DEF Session, SameOutside, Flags
  <2> QED  BY <2>1, <2>2, <2>3, Zenon DEF ChatStep
<1>4. ASSUME NEW n \in 0 .. LineMax
      PROVE  ChatStep(t, [t EXCEPT !.compose_len = n])
  <2> DEFINE u == [t EXCEPT !.compose_len = n]
  <2>1. u \in Session
    BY Zenon DEF Session
  <2>2. Hooks(u)
    BY Zenon DEF Session, Hooks
  <2>3. SameOutside(t, u)
    BY Zenon DEF Session, SameOutside, Flags
  <2> QED  BY <2>1, <2>2, <2>3, Zenon DEF ChatStep
<1>5. ChatStep(t, [t EXCEPT !.chat = "room"])
  <2> DEFINE u == [t EXCEPT !.chat = "room"]
  <2>1. u \in Session
    BY Zenon DEF Session
  <2>2. Hooks(u)
    BY Zenon DEF Session, Hooks
  <2>3. SameOutside(t, u)
    BY Zenon DEF Session, SameOutside, Flags
  <2> QED  BY <2>1, <2>2, <2>3, Zenon DEF ChatStep
<1>6. /\ 0 \in 0 .. LineMax
      /\ t.compose_len > 0 => t.compose_len - 1 \in 0 .. LineMax
      /\ t.compose_len < LineMax => t.compose_len + 1 \in 0 .. LineMax
  BY <1>2, TelnetAssumption
<1> QED  BY <1>1, <1>3, <1>4, <1>5, <1>6, Zenon DEF handle_compose

(* The room is entered under a name. *)
LEMMA EnterRoom ==
    ASSUME NEW t \in Session, Hooks(t), t.chat = "lobby"
    PROVE  ChatStep(t, enter_room(t))
<1>1. enter_room(t) \in Session /\ Hooks(enter_room(t))
  BY Zenon DEF enter_room, Session, Hooks
<1>2. SameOutside(t, enter_room(t))
  BY Zenon DEF enter_room, Session, SameOutside, Flags
<1> QED  BY <1>1, <1>2, Zenon DEF ChatStep

(* The room is left, and the hook is taken off. *)
LEMMA LeaveRoom ==
    ASSUME NEW t \in Session, Hooks(t), t.chat = "room"
    PROVE  ChatStep(t, leave_room(t))
<1>1. leave_room(t) \in Session /\ Hooks(leave_room(t))
  BY Zenon DEF leave_room, Session, Hooks
<1>2. SameOutside(t, leave_room(t))
  BY Zenon DEF leave_room, Session, SameOutside, Flags
<1> QED  BY <1>1, <1>2, Zenon DEF ChatStep

(* Return in the room opens a line. *)
LEMMA ComposeStarts ==
    ASSUME NEW t \in Session, Hooks(t), t.chat = "room"
    PROVE  ChatStep(t, [t EXCEPT !.chat = "compose", !.compose_len = 0])
<1> DEFINE u == [t EXCEPT !.chat = "compose", !.compose_len = 0]
<1>1. 0 \in 0 .. LineMax
  BY TelnetAssumption
<1>2. u \in Session
  BY <1>1, Zenon DEF Session
<1>3. Hooks(u)
  BY Zenon DEF Session, Hooks
<1>4. SameOutside(t, u)
  BY Zenon DEF Session, SameOutside, Flags
<1> QED  BY <1>2, <1>3, <1>4, Zenon DEF ChatStep

(* Whatever key comes, the chat's fields stay in agreement, whether or not *)
(* the chat goes on.                                                       *)
LEMMA ChatKey ==
    ASSUME NEW t \in Session, Hooks(t), t.active_game = "chat", NEW key \in Keys
    PROVE  \E u \in Session :
               /\ chat_handle_key(t, key) = Running(u) \/ chat_handle_key(t, key) = Stopped(u)
               /\ ChatStep(t, u)
<1>1. t.chat \in {"username", "lobby", "room", "compose"}
  BY Zenon DEF Session, Hooks
<1>2. ChatStep(t, t) /\ \A u : ChatStep(t, u) => u \in Session
  BY Zenon DEF ChatStep, SameOutside, Flags
<1>3. CASE t.chat = "username"
  <2>1. chat_handle_key(t, key) = Running(handle_username(t, key))
    BY <1>3 DEF chat_handle_key
  <2> QED  BY <1>2, <1>3, <2>1, UsernameKey, Zenon
<1>4. CASE t.chat = "lobby"
  <2>1. chat_handle_key(t, key) \in {Stopped(t), Running(enter_room(t)), Running(t)}
    BY <1>4 DEF chat_handle_key
  <2> QED  BY <1>2, <1>4, <2>1, EnterRoom, Zenon
<1>5. CASE t.chat = "room"
  <2> DEFINE c == [t EXCEPT !.chat = "compose", !.compose_len = 0]
  <2>1. chat_handle_key(t, key) \in
            {Stopped(leave_room(t)), Running(leave_room(t)), Running(t), Running(c)}
    BY <1>5 DEF chat_handle_key
  <2>2. ChatStep(t, c) /\ ChatStep(t, leave_room(t))
    BY <1>5, LeaveRoom, ComposeStarts, Zenon
  <2> HIDE DEF c
  <2> QED  BY <1>2, <2>1, <2>2, Zenon
<1>6. CASE t.chat = "compose"
  <2>1. chat_handle_key(t, key) = Running(handle_compose(t, key))
    BY <1>6 DEF chat_handle_key
  <2> QED  BY <1>2, <1>6, <2>1, ComposeKey, Zenon
<1> QED  BY <1>1, <1>3, <1>4, <1>5, <1>6, Zenon

(* The destroy of a game leaves no chat, no room and no hook. *)
LEMMA DestroyGame ==
    ASSUME NEW t \in Session, Hooks(t)
    PROVE  LET u == destroy_game(t) IN
           /\ u \in Session /\ Hooks(u)
           /\ u.active_game = "none"
           /\ u.state = t.state /\ u.nego_pending = t.nego_pending
           /\ Flags(u, t.game_over_pending, t.quit_pending, t.pending_selection)
<1>1. 0 \in 0 .. NameMax /\ 0 \in 0 .. LineMax
  BY TelnetAssumption
<1>2. destroy_game(t) \in Session
  <2> DEFINE hook == IF t.active_game = "chat" THEN FALSE ELSE t.on_notify
  <2>1. hook \in BOOLEAN
    BY Zenon DEF Session
  <2>2. destroy_game(t) = [t EXCEPT !.active_game = "none", !.chat = "none", !.in_room = FALSE,
                                    !.username_len = 0, !.compose_len = 0, !.on_notify = hook]
    BY Zenon DEF destroy_game
  <2> HIDE DEF hook
  <2> QED  BY <1>1, <2>1, <2>2, ZenonT(30) DEF Session
<1>3. /\ destroy_game(t).chat = "none" /\ destroy_game(t).in_room = FALSE
      /\ destroy_game(t).active_game = "none"
  BY Zenon DEF destroy_game, Session
<1>4. ~destroy_game(t).on_notify
  <2>1. t.active_game # "chat" => ~t.on_notify
    BY Zenon DEF Hooks
  <2>2. destroy_game(t).on_notify = IF t.active_game = "chat" THEN FALSE ELSE t.on_notify
    BY Zenon DEF destroy_game, Session
  <2> QED  BY <2>1, <2>2, Zenon
<1>5. Hooks(destroy_game(t))
  BY <1>3, <1>4 DEF Hooks
<1>6. /\ destroy_game(t).state = t.state
      /\ destroy_game(t).nego_pending = t.nego_pending
  BY Zenon DEF destroy_game, Session
<1>7. Flags(destroy_game(t), t.game_over_pending, t.quit_pending, t.pending_selection)
  BY Zenon DEF destroy_game, Session, Flags
<1> QED  BY <1>2, <1>3, <1>5, <1>6, <1>7, Zenon

-----------------------------------------------------------------------------
(* The FSM *)

\* The rows that fsm_dispatch finds.
RowsFor(state, event) == {r \in telnet_fsm_table : r.state = state /\ r.event = event}

(* The table has at most one row for a state and an event: these. *)
LEMMA KeyRows ==
    /\ RowsFor("NEGOTIATING", "KEY_INPUT") =
         {Row("NEGOTIATING", "KEY_INPUT", "show_main_menu", "MAIN_MENU", "CLOSING")}
    /\ RowsFor("MAIN_MENU", "KEY_INPUT") =
         {Row("MAIN_MENU", "KEY_INPUT", "handle_menu_key", "MAIN_MENU", "CLOSING")}
    /\ RowsFor("IN_GAME", "KEY_INPUT") =
         {Row("IN_GAME", "KEY_INPUT", "game_key", "IN_GAME", "CLOSING")}
<1>1. RowsFor("NEGOTIATING", "KEY_INPUT") =
         {Row("NEGOTIATING", "KEY_INPUT", "show_main_menu", "MAIN_MENU", "CLOSING")}
  BY DEF RowsFor, telnet_fsm_table, Row, FsmStates
<1>2. RowsFor("MAIN_MENU", "KEY_INPUT") =
         {Row("MAIN_MENU", "KEY_INPUT", "handle_menu_key", "MAIN_MENU", "CLOSING")}
  BY DEF RowsFor, telnet_fsm_table, Row, FsmStates
<1>3. RowsFor("IN_GAME", "KEY_INPUT") =
         {Row("IN_GAME", "KEY_INPUT", "game_key", "IN_GAME", "CLOSING")}
  BY DEF RowsFor, telnet_fsm_table, Row, FsmStates
<1> QED  BY <1>1, <1>2, <1>3, Zenon

(* The rows of the events that follow a key. *)
LEMMA DeferredRows ==
    /\ RowsFor("IN_GAME", "GAME_OVER") =
         {Row("IN_GAME", "GAME_OVER", "show_main_menu", "MAIN_MENU", "CLOSING")}
    /\ RowsFor("MAIN_MENU", "MENU_SELECT") =
         {Row("MAIN_MENU", "MENU_SELECT", "start_game", "IN_GAME", "MAIN_MENU")}
<1>1. RowsFor("IN_GAME", "GAME_OVER") =
         {Row("IN_GAME", "GAME_OVER", "show_main_menu", "MAIN_MENU", "CLOSING")}
  BY DEF RowsFor, telnet_fsm_table, Row, FsmStates
<1>2. RowsFor("MAIN_MENU", "MENU_SELECT") =
         {Row("MAIN_MENU", "MENU_SELECT", "start_game", "IN_GAME", "MAIN_MENU")}
  BY DEF RowsFor, telnet_fsm_table, Row, FsmStates
<1> QED  BY <1>1, <1>2, Zenon

(* The rows of the negotiation. *)
LEMMA NegotiationRows ==
    /\ RowsFor("INIT", "CONNECTED") =
         {Row("INIT", "CONNECTED", "send_negotiations", "NEGOTIATING", "CLOSING")}
    /\ RowsFor("NEGOTIATING", "NEGO_DONE") =
         {Row("NEGOTIATING", "NEGO_DONE", "show_main_menu", "MAIN_MENU", "CLOSING")}
    /\ \A x \in FsmStates \ {"NEGOTIATING"} : RowsFor(x, "NEGO_DONE") = {}
    /\ \A x \in FsmStates : RowsFor(x, "NAWS") = {}
<1>1. RowsFor("INIT", "CONNECTED") =
         {Row("INIT", "CONNECTED", "send_negotiations", "NEGOTIATING", "CLOSING")}
  BY DEF RowsFor, telnet_fsm_table, Row, FsmStates
<1>2. RowsFor("NEGOTIATING", "NEGO_DONE") =
         {Row("NEGOTIATING", "NEGO_DONE", "show_main_menu", "MAIN_MENU", "CLOSING")}
  BY DEF RowsFor, telnet_fsm_table, Row, FsmStates
<1>3. \A x \in FsmStates \ {"NEGOTIATING"} : RowsFor(x, "NEGO_DONE") = {}
  BY DEF RowsFor, telnet_fsm_table, Row
<1>4. \A x \in FsmStates : RowsFor(x, "NAWS") = {}
  BY DEF RowsFor, telnet_fsm_table, Row
<1> QED  BY <1>1, <1>2, <1>3, <1>4, Zenon

(* The rows that close the session. *)
LEMMA ClosingRows ==
    /\ \A x \in FsmStates \ {"CLOSED"} :
         RowsFor(x, "DISCONNECT") = {Row(x, "DISCONNECT", "close", "CLOSED", "CLOSED")}
    /\ RowsFor("CLOSED", "DISCONNECT") = {}
    /\ \A x \in {"MAIN_MENU", "IN_GAME"} :
         RowsFor(x, "TIMEOUT") = {Row(x, "TIMEOUT", "close", "CLOSED", "CLOSED")}
<1>1. \A x \in FsmStates \ {"CLOSED"} :
         RowsFor(x, "DISCONNECT") = {Row(x, "DISCONNECT", "close", "CLOSED", "CLOSED")}
  BY DEF RowsFor, telnet_fsm_table, Row
<1>2. RowsFor("CLOSED", "DISCONNECT") = {}
  BY DEF RowsFor, telnet_fsm_table, Row
<1>3. \A x \in {"MAIN_MENU", "IN_GAME"} :
         RowsFor(x, "TIMEOUT") = {Row(x, "TIMEOUT", "close", "CLOSED", "CLOSED")}
  BY DEF RowsFor, telnet_fsm_table, Row
<1> QED  BY <1>1, <1>2, <1>3, Zenon

(* fsm_dispatch with no row drops the event. *)
LEMMA NoDispatch ==
    ASSUME NEW t, NEW event, NEW data, RowsFor(t.state, event) = {}
    PROVE  fsm_dispatch(t, event, data) = {t}
BY Zenon DEF fsm_dispatch, RowsFor

\* The one row for the session's state and the event.
Finds(t, event, action, next, error) ==
    RowsFor(t.state, event) = {Row(t.state, event, action, next, error)}

\* The action has one outcome, and that a good one.
Yields(action, t, data, u) == Act(action, t, data) = {[s |-> u, ok |-> TRUE]}

\* The outcomes of an action, each with the state that it moves to.
Outcomes(action, t, data, next, error) ==
    {[o.s EXCEPT !.state = IF o.ok THEN next ELSE error] : o \in Act(action, t, data)}

(* fsm_dispatch with one row runs its action and then moves. *)
LEMMA OneDispatch ==
    ASSUME NEW t, NEW event, NEW data, NEW action, NEW next, NEW error,
           Finds(t, event, action, next, error)
    PROVE  fsm_dispatch(t, event, data) = Outcomes(action, t, data, next, error)
<1> DEFINE r == Row(t.state, event, action, next, error)
<1>1. (CHOOSE x \in {r} : TRUE) = r
  BY Zenon
<1>2. r.action = action /\ r.next = next /\ r.error = error
  BY Zenon DEF Row
<1>3. {x \in telnet_fsm_table : x.state = t.state /\ x.event = event} = {r}
  BY Zenon DEF RowsFor, Finds
<1>4. {r} # {}
  BY Zenon
<1> HIDE DEF r
<1>5. fsm_dispatch(t, event, data) = Outcomes(r.action, t, data, r.next, r.error)
  BY <1>1, <1>3, <1>4, Zenon DEF fsm_dispatch, Outcomes
<1> QED  BY <1>2, <1>5, Zenon

(* A good outcome is a move to the next state. *)
LEMMA OkDispatch ==
    ASSUME NEW t, NEW event, NEW data, NEW action, NEW next, NEW error, NEW u,
           Finds(t, event, action, next, error), Yields(action, t, data, u)
    PROVE  fsm_dispatch(t, event, data) = {[u EXCEPT !.state = next]}
<1> DEFINE o == [s |-> u, ok |-> TRUE]
<1>1. o.s = u /\ o.ok = TRUE
  BY Zenon
<1>2. Act(action, t, data) = {o}
  BY Zenon DEF Yields
<1> HIDE DEF o
<1>3. [o.s EXCEPT !.state = IF o.ok THEN next ELSE error] = [u EXCEPT !.state = next]
  BY <1>1, Zenon
<1>4. Outcomes(action, t, data, next, error) =
          {[o.s EXCEPT !.state = IF o.ok THEN next ELSE error]}
  BY <1>2, Zenon DEF Outcomes
<1>5. fsm_dispatch(t, event, data) = Outcomes(action, t, data, next, error)
  BY OneDispatch, SMT
<1> QED  BY <1>3, <1>4, <1>5, Zenon

-----------------------------------------------------------------------------
(* A key *)

\* What the action of a key leaves behind: nothing to dispatch; the end of the
\* game; the end of the session; or a selection.
Pending(t) ==
    /\ Core(t) /\ t.state # "CLOSED"
    /\ \/ Sound(t)
       \/ t.state = "IN_GAME" /\ t.active_game = "none" /\ Flags(t, TRUE, FALSE, "none")
       \/ t.state = "MAIN_MENU" /\ Flags(t, FALSE, TRUE, "none")
       \/ /\ t.state = "MAIN_MENU"
          /\ t.pending_selection \in {"stub", "chat"}
          /\ Flags(t, FALSE, FALSE, t.pending_selection)

(* The state is written and nothing else. *)
LEMMA StateWritten ==
    ASSUME NEW t \in Session, NEW x \in FsmStates
    PROVE  LET u == [t EXCEPT !.state = x] IN
           /\ u \in Session /\ u.state = x
           /\ Hooks(t) => Hooks(u)
           /\ u.active_game = t.active_game /\ u.nego_pending = t.nego_pending
           /\ Flags(u, t.game_over_pending, t.quit_pending, t.pending_selection)
<1> DEFINE u == [t EXCEPT !.state = x]
<1>1. u \in Session /\ u.state = x
  BY Zenon DEF Session
<1>2. Hooks(t) => Hooks(u)
  BY Zenon DEF Session, Hooks
<1>3. u.active_game = t.active_game /\ u.nego_pending = t.nego_pending
  BY Zenon DEF Session
<1>4. Flags(u, t.game_over_pending, t.quit_pending, t.pending_selection)
  BY Zenon DEF Session, Flags
<1> QED  BY <1>1, <1>2, <1>3, <1>4, Zenon

(* The menu is shown by whichever row has the action, and the flags of the *)
(* keys before are dropped.                                                *)
LEMMA MenuShown ==
    ASSUME NEW t \in Session, Hooks(t), t.active_game = "none", ~t.quit_pending,
           NEW event, NEW data,
           Finds(t, event, "show_main_menu", "MAIN_MENU", "CLOSING")
    PROVE  \A u \in fsm_dispatch(t, event, data) : Sound(u) /\ u.state = "MAIN_MENU"
<1> DEFINE m == [t EXCEPT !.pending_selection = "none", !.game_over_pending = FALSE]
           u == [m EXCEPT !.state = "MAIN_MENU"]
<1>1. fsm_dispatch(t, event, data) = {u}
  <2>1. Yields("show_main_menu", t, data, m)
    BY DEF Act, act_show_main_menu, Yields, Ok
  <2> HIDE DEF m
  <2> QED  BY <2>1, OkDispatch, SMT
<1>2. m \in Session /\ m.active_game = "none" /\ Flags(m, FALSE, FALSE, "none")
  BY Zenon DEF Session, Flags
<1>3. Hooks(m)
  BY Zenon DEF Session, Hooks
<1>4. /\ u \in Session /\ u.state = "MAIN_MENU" /\ Hooks(u)
      /\ u.active_game = "none" /\ Flags(u, FALSE, FALSE, "none")
  <2>1. "MAIN_MENU" \in FsmStates
    BY Zenon DEF FsmStates
  <2> HIDE DEF m
  <2> QED  BY <1>2, <1>3, <2>1, StateWritten, Zenon DEF Flags
<1> HIDE DEF u
<1>5. Core(u)
  BY <1>4, Zenon DEF Core
<1> QED  BY <1>1, <1>4, <1>5, Zenon DEF Sound

(* A key while the negotiation lasts shows the menu. *)
LEMMA NegotiationKey ==
    ASSUME NEW t, Sound(t), t.state = "NEGOTIATING", NEW key \in Keys
    PROVE  \A u \in fsm_dispatch(t, "KEY_INPUT", key) : Pending(u)
<1>1. t \in Session /\ Hooks(t) /\ t.active_game = "none" /\ ~t.quit_pending
  BY Zenon DEF Sound, Core, Flags
<1>2. Finds(t, "KEY_INPUT", "show_main_menu", "MAIN_MENU", "CLOSING")
  BY KeyRows, Zenon DEF Finds
<1>3. \A u \in fsm_dispatch(t, "KEY_INPUT", key) : Sound(u) /\ u.state = "MAIN_MENU"
  BY <1>1, <1>2, MenuShown, Zenon
<1>4. \A u : Sound(u) /\ u.state = "MAIN_MENU" => Pending(u)
  BY Zenon DEF Sound, Pending
<1> QED  BY <1>3, <1>4, Zenon

(* A key in the menu asks for a game or for the end, or for nothing. *)
LEMMA MenuKey ==
    ASSUME NEW t, Sound(t), t.state = "MAIN_MENU", NEW key \in Keys
    PROVE  \A u \in fsm_dispatch(t, "KEY_INPUT", key) : Pending(u)
<1>1. /\ t \in Session /\ Hooks(t) /\ t.active_game = "none"
      /\ Flags(t, FALSE, FALSE, "none")
  BY Zenon DEF Sound, Core
<1>2. "MAIN_MENU" \in FsmStates
  BY Zenon DEF FsmStates
<1>3. Finds(t, "KEY_INPUT", "handle_menu_key", "MAIN_MENU", "CLOSING")
  BY KeyRows, Zenon DEF Finds
<1>4. ASSUME NEW m \in Session, Hooks(m), m.active_game = "none",
             NEW quit, NEW selection,
             Flags(m, FALSE, quit, selection),
             \/ ~quit /\ selection \in {"none", "stub", "chat"}
             \/ quit = TRUE /\ selection = "none",
             quit \in BOOLEAN,
             Yields("handle_menu_key", t, key, m)
      PROVE  \A u \in fsm_dispatch(t, "KEY_INPUT", key) : Pending(u)
  <2> DEFINE u == [m EXCEPT !.state = "MAIN_MENU"]
  <2>1. fsm_dispatch(t, "KEY_INPUT", key) = {u}
    BY <1>3, <1>4, OkDispatch, SMT
  <2>2. /\ u \in Session /\ u.state = "MAIN_MENU" /\ Hooks(u)
        /\ u.active_game = "none" /\ Flags(u, FALSE, quit, selection)
    BY <1>2, <1>4, StateWritten, Zenon DEF Flags
  <2> HIDE DEF u
  <2>3. Core(u)
    BY <2>2, Zenon DEF Core
  <2>4. Pending(u)
    BY <1>4, <2>2, <2>3, Zenon DEF Pending, Sound, Flags
  <2> QED  BY <2>1, <2>4, Zenon
<1>5. CASE key \in {"q", "Q", "^C"}
  <2> DEFINE m == [t EXCEPT !.quit_pending = TRUE]
  <2>1. Yields("handle_menu_key", t, key, m)
    BY <1>5 DEF Act, act_handle_menu_key, Yields, Ok
  <2>2. m \in Session /\ m.active_game = "none" /\ Flags(m, FALSE, TRUE, "none")
    BY <1>1, Zenon DEF Session, Flags
  <2>3. Hooks(m)
    BY <1>1, Zenon DEF Session, Hooks
  <2> HIDE DEF m
  <2> QED  BY <2>1, <2>2, <2>3, <1>4, Zenon
<1>6. ASSUME NEW sel \in {"stub", "chat"},
             Yields("handle_menu_key", t, key, [t EXCEPT !.pending_selection = sel])
      PROVE  \A u \in fsm_dispatch(t, "KEY_INPUT", key) : Pending(u)
  <2> DEFINE m == [t EXCEPT !.pending_selection = sel]
  <2>2. m \in Session /\ m.active_game = "none" /\ Flags(m, FALSE, FALSE, sel)
    BY <1>1, Zenon DEF Session, Flags
  <2>3. Hooks(m)
    BY <1>1, Zenon DEF Session, Hooks
  <2> HIDE DEF m
  <2> QED  BY <1>6, <2>2, <2>3, <1>4, Zenon DEF m
<1>7. CASE key \notin {"q", "Q", "^C"}
  <2>1. CASE key = "g"
    <3>1. Yields("handle_menu_key", t, key, [t EXCEPT !.pending_selection = "chat"])
      BY <1>7, <2>1 DEF Act, act_handle_menu_key, Yields, Ok
    <3> QED  BY <3>1, <1>6, Zenon
  <2>2. CASE key = "c"
    <3>1. Yields("handle_menu_key", t, key, [t EXCEPT !.pending_selection = "stub"])
      BY <1>7, <2>2 DEF Act, act_handle_menu_key, Yields, Ok
    <3> QED  BY <3>1, <1>6, Zenon
  <2>3. CASE key \notin {"g", "c"}
    <3>1. Yields("handle_menu_key", t, key, t)
      BY <1>7, <2>3 DEF Act, act_handle_menu_key, Yields, Ok
    <3> QED  BY <3>1, <1>1, <1>4, Zenon
  <2> QED  BY <2>1, <2>2, <2>3, Zenon
<1> QED  BY <1>5, <1>7, Zenon

(* A key in a game reaches the game; one that ends it destroys it and      *)
(* reports the end.                                                        *)
LEMMA GameKey ==
    ASSUME NEW t, Sound(t), t.state = "IN_GAME", NEW key \in Keys
    PROVE  \A u \in fsm_dispatch(t, "KEY_INPUT", key) : Pending(u)
<1>1. /\ t \in Session /\ Hooks(t) /\ t.active_game \in {"stub", "chat"}
      /\ Flags(t, FALSE, FALSE, "none")
  BY Zenon DEF Sound, Core, Session
<1>2. "IN_GAME" \in FsmStates
  BY Zenon DEF FsmStates
<1>3. Finds(t, "KEY_INPUT", "game_key", "IN_GAME", "CLOSING")
  BY KeyRows, Zenon DEF Finds
<1>4. ASSUME NEW m \in Session, Hooks(m),
             \/ m.active_game # "none" /\ Flags(m, FALSE, FALSE, "none")
             \/ m.active_game = "none" /\ Flags(m, TRUE, FALSE, "none"),
             Yields("game_key", t, key, m)
      PROVE  \A u \in fsm_dispatch(t, "KEY_INPUT", key) : Pending(u)
  <2> DEFINE u == [m EXCEPT !.state = "IN_GAME"]
  <2>1. fsm_dispatch(t, "KEY_INPUT", key) = {u}
    BY <1>3, <1>4, OkDispatch, SMT
  <2>2. /\ u \in Session /\ u.state = "IN_GAME" /\ Hooks(u)
        /\ u.active_game = m.active_game
        /\ Flags(u, m.game_over_pending, m.quit_pending, m.pending_selection)
    BY <1>2, <1>4, StateWritten, Zenon
  <2> HIDE DEF u
  <2>3. Core(u)
    BY <2>2, Zenon DEF Core
  <2>4. Pending(u)
    BY <1>4, <2>2, <2>3, Zenon DEF Pending, Sound, Flags
  <2> QED  BY <2>1, <2>4, Zenon
<1>5. ASSUME NEW w \in Session, Hooks(w), SameOutside(t, w),
             Yields("game_key", t, key, [destroy_game(w) EXCEPT !.game_over_pending = TRUE])
      PROVE  \A u \in fsm_dispatch(t, "KEY_INPUT", key) : Pending(u)
  <2> DEFINE d == destroy_game(w)
             m == [d EXCEPT !.game_over_pending = TRUE]
  <2>1. /\ d \in Session /\ Hooks(d) /\ d.active_game = "none"
        /\ Flags(d, FALSE, FALSE, "none")
    BY <1>1, <1>5, DestroyGame, Zenon DEF SameOutside, Flags
  <2> HIDE DEF d
  <2>2. m \in Session /\ m.active_game = "none" /\ Flags(m, TRUE, FALSE, "none")
    BY <2>1, Zenon DEF Session, Flags
  <2>3. Hooks(m)
    BY <2>1, Zenon DEF Session, Hooks
  <2>4. Yields("game_key", t, key, m)
    BY <1>5, Zenon DEF d
  <2> HIDE DEF m
  <2> QED  BY <1>4, <2>2, <2>3, <2>4, Zenon
<1>6. Act("game_key", t, key) = act_game_key(t, key)
  BY DEF Act
<1>7. CASE t.active_game = "stub"
  <2>1. Yields("game_key", t, key, [destroy_game(t) EXCEPT !.game_over_pending = TRUE])
    BY <1>6, <1>7 DEF act_game_key, Stopped, Yields, Ok
  <2>2. SameOutside(t, t)
    BY Zenon DEF SameOutside, Flags
  <2> QED  BY <1>1, <1>5, <2>1, <2>2, Zenon
<1>8. CASE t.active_game = "chat"
  <2>1. PICK w \in Session :
            /\ chat_handle_key(t, key) = Running(w) \/ chat_handle_key(t, key) = Stopped(w)
            /\ ChatStep(t, w)
    BY <1>1, <1>8, ChatKey, Zenon
  <2>2. Hooks(w) /\ SameOutside(t, w)
    BY <2>1, Zenon DEF ChatStep
  <2>3. CASE chat_handle_key(t, key) = Running(w)
    <3>1. Running(w).running = TRUE /\ Running(w).s = w
      BY Zenon DEF Running
    <3>2. Yields("game_key", t, key, w)
      BY <1>6, <1>8, <2>3, <3>1 DEF act_game_key, Yields, Ok
    <3>3. w.active_game # "none" /\ Flags(w, FALSE, FALSE, "none")
      BY <1>1, <1>8, <2>2 DEF SameOutside, Flags
    <3> QED  BY <1>4, <2>2, <3>2, <3>3, Zenon
  <2>4. CASE chat_handle_key(t, key) = Stopped(w)
    <3>1. Stopped(w).running = FALSE /\ Stopped(w).s = w
      BY Zenon DEF Stopped
    <3>2. Yields("game_key", t, key, [destroy_game(w) EXCEPT !.game_over_pending = TRUE])
      BY <1>6, <1>8, <2>4, <3>1 DEF act_game_key, Yields, Ok
    <3> QED  BY <1>5, <2>2, <3>2, Zenon
  <2> QED  BY <2>1, <2>3, <2>4, Zenon
<1> QED  BY <1>1, <1>7, <1>8, Zenon

-----------------------------------------------------------------------------
(* The events that follow a key *)

(* A session closes from any state; its game, if any, is left to cleanup. *)
LEMMA Closes ==
    ASSUME NEW t, Core(t), NEW event, NEW data,
           Finds(t, event, "close", "CLOSED", "CLOSED")
    PROVE  \A u \in fsm_dispatch(t, event, data) : Sound(u) /\ u.state = "CLOSED"
<1> DEFINE u == [t EXCEPT !.state = "CLOSED"]
<1>1. fsm_dispatch(t, event, data) = {u}
  <2>1. Yields("close", t, data, t)
    BY DEF Act, Yields, Ok
  <2> QED  BY <2>1, OkDispatch, SMT
<1>2. u \in Session /\ u.state = "CLOSED" /\ Hooks(u)
  <2>1. "CLOSED" \in FsmStates /\ t \in Session /\ Hooks(t)
    BY Zenon DEF FsmStates, Core
  <2> QED  BY <2>1, StateWritten, Zenon
<1> HIDE DEF u
<1>3. Sound(u)
  BY <1>2, Zenon DEF Sound, Core
<1> QED  BY <1>1, <1>2, <1>3, Zenon

(* The end of a game shows the menu. *)
LEMMA GameOverStep ==
    ASSUME NEW t, Pending(t)
    PROVE  \A u \in GameOver(t) : Pending(u) /\ ~u.game_over_pending
<1>1. CASE ~t.game_over_pending
  BY <1>1, Zenon DEF GameOver
<1>2. CASE t.game_over_pending
  <2> DEFINE m == [t EXCEPT !.game_over_pending = FALSE]
  <2>1. t \in Session /\ Hooks(t) /\ t.state = "IN_GAME" /\ t.active_game = "none" /\ ~t.quit_pending
    BY <1>2, Zenon DEF Pending, Core, Sound, Flags
  <2>2. m \in Session /\ m.state = "IN_GAME" /\ m.active_game = "none" /\ ~m.quit_pending
    BY <2>1, Zenon DEF Session
  <2>3. Hooks(m)
    BY <2>1, Zenon DEF Session, Hooks
  <2>4. GameOver(t) = fsm_dispatch(m, "GAME_OVER", "")
    BY <1>2, <2>1 DEF GameOver, Terminal
  <2> HIDE DEF m
  <2>5. Finds(m, "GAME_OVER", "show_main_menu", "MAIN_MENU", "CLOSING")
    BY <2>2, DeferredRows, Zenon DEF Finds
  <2>6. \A u \in fsm_dispatch(m, "GAME_OVER", "") : Sound(u) /\ u.state = "MAIN_MENU"
    BY <2>2, <2>3, <2>5, MenuShown, Zenon
  <2>7. \A u : Sound(u) /\ u.state = "MAIN_MENU" => Pending(u) /\ ~u.game_over_pending
    BY Zenon DEF Sound, Pending, Flags
  <2> QED  BY <2>4, <2>6, <2>7, Zenon
<1> QED  BY <1>1, <1>2, Zenon

(* The key that quits closes the session. *)
LEMMA QuitStep ==
    ASSUME NEW t, Pending(t), ~t.game_over_pending
    PROVE  \A u \in Quit(t) :
               \/ Sound(u) /\ u.state = "CLOSED"
               \/ Pending(u) /\ ~u.game_over_pending /\ ~u.quit_pending
<1>1. CASE ~t.quit_pending
  BY <1>1, Zenon DEF Quit
<1>2. CASE t.quit_pending
  <2> DEFINE m == [t EXCEPT !.quit_pending = FALSE]
  <2>1. t \in Session /\ Hooks(t) /\ t.state = "MAIN_MENU" /\ t.active_game = "none"
    BY <1>2, Zenon DEF Pending, Core, Sound, Flags
  <2>2. m \in Session /\ m.state = "MAIN_MENU" /\ m.active_game = "none"
    BY <2>1, Zenon DEF Session
  <2>3. Hooks(m)
    BY <2>1, Zenon DEF Session, Hooks
  <2>4. Quit(t) = fsm_dispatch(m, "DISCONNECT", "")
    BY <1>2, <2>1 DEF Quit, Terminal
  <2> HIDE DEF m
  <2>5. Core(m)
    BY <2>2, <2>3, Zenon DEF Core
  <2>6. Finds(m, "DISCONNECT", "close", "CLOSED", "CLOSED")
    BY <2>2, ClosingRows, Zenon DEF Finds, FsmStates
  <2>7. \A u \in fsm_dispatch(m, "DISCONNECT", "") : Sound(u) /\ u.state = "CLOSED"
    BY <2>5, <2>6, Closes, Zenon
  <2> QED  BY <2>4, <2>7, Zenon
<1> QED  BY <1>1, <1>2, Zenon

(* A selection starts the game, or leaves the session in the menu when the *)
(* game cannot be created.                                                 *)
LEMMA SelectStep ==
    ASSUME NEW t, Pending(t), ~t.game_over_pending, ~t.quit_pending
    PROVE  \A u \in MenuSelect(t) : Sound(u)
<1>1. CASE t.pending_selection = "none"
  <2>1. Sound(t)
    BY <1>1, Zenon DEF Pending, Flags
  <2> QED  BY <1>1, <2>1, Zenon DEF MenuSelect
<1>2. CASE t.pending_selection # "none"
  <2> DEFINE m == [t EXCEPT !.pending_selection = "none"]
             sel == t.pending_selection
  <2>1. /\ t \in Session /\ Hooks(t) /\ t.state = "MAIN_MENU" /\ t.active_game = "none"
        /\ sel \in {"stub", "chat"} /\ Flags(t, FALSE, FALSE, sel)
    BY <1>2, Zenon DEF Pending, Core, Sound, Flags
  <2>2. /\ m \in Session /\ m.state = "MAIN_MENU" /\ m.active_game = "none"
        /\ Flags(m, FALSE, FALSE, "none")
    BY <2>1, Zenon DEF Session, Flags
  <2>3. Hooks(m)
    BY <2>1, Zenon DEF Session, Hooks
  <2>4. MenuSelect(t) = fsm_dispatch(m, "MENU_SELECT", sel)
    BY <1>2, <2>1 DEF MenuSelect, Terminal
  <2> HIDE DEF m, sel
  <2>5. Finds(m, "MENU_SELECT", "start_game", "IN_GAME", "MAIN_MENU")
    BY <2>2, DeferredRows, Zenon DEF Finds
  <2>6. fsm_dispatch(m, "MENU_SELECT", sel) = Outcomes("start_game", m, sel, "IN_GAME", "MAIN_MENU")
    BY <2>5, OneDispatch, SMT
  <2>7. Act("start_game", m, sel) = act_start_game(m, sel)
    BY DEF Act
  <2>8. ASSUME NEW g \in Session, Hooks(g), g.active_game # "none",
               Flags(g, FALSE, FALSE, "none")
        PROVE  Sound([g EXCEPT !.state = "IN_GAME"])
    <3> DEFINE u == [g EXCEPT !.state = "IN_GAME"]
    <3>1. "IN_GAME" \in FsmStates
      BY Zenon DEF FsmStates
    <3>2. /\ u \in Session /\ u.state = "IN_GAME" /\ Hooks(u)
          /\ u.active_game # "none" /\ Flags(u, FALSE, FALSE, "none")
      BY <2>8, <3>1, StateWritten, Zenon DEF Flags
    <3> HIDE DEF u
    <3>3. Sound(u)
      BY <3>2, Zenon DEF Sound, Core
    <3> QED  BY <3>3, Zenon DEF u
  <2>9. ASSUME NEW o \in act_start_game(m, sel)
        PROVE  \/ o.ok = FALSE /\ o.s = m
               \/ /\ o.ok = TRUE /\ o.s \in Session /\ Hooks(o.s)
                  /\ o.s.active_game # "none" /\ Flags(o.s, FALSE, FALSE, "none")
    <3> DEFINE g == [m EXCEPT !.active_game = "stub"]
               room == IF m.username THEN "lobby" ELSE "username"
               c == [m EXCEPT !.active_game = "chat", !.chat = room]
    <3>1. \/ sel = "stub" /\ o = [s |-> g, ok |-> TRUE]
          \/ sel = "chat" /\ o \in {[s |-> c, ok |-> TRUE], [s |-> m, ok |-> FALSE]}
      BY <2>1 DEF act_start_game, Ok, Error
    <3>2. g \in Session /\ g.active_game # "none" /\ Flags(g, FALSE, FALSE, "none")
      BY <2>2, Zenon DEF Session, Flags
    <3>3. Hooks(g)
      BY <2>2, <2>3, Zenon DEF Session, Hooks
    <3>4. room \in {"lobby", "username"} /\ (room = "lobby" => m.username)
      BY Zenon
    <3>5. m.in_room = FALSE /\ m.on_notify = FALSE
      BY <2>2, <2>3 DEF Session, Hooks
    <3> HIDE DEF g, room
    <3>6. c \in Session /\ c.active_game # "none" /\ Flags(c, FALSE, FALSE, "none")
      BY <2>2, <3>4, Zenon DEF Session, Flags
    <3>7. /\ c.chat = room /\ c.in_room = FALSE /\ c.on_notify = FALSE
          /\ c.active_game = "chat" /\ c.username = m.username
      BY <2>2, <3>5, Zenon DEF Session
    <3> HIDE DEF c
    <3>8. Hooks(c)
      BY <3>4, <3>7 DEF Hooks
    <3>9. \/ o.ok = TRUE /\ (o.s = g \/ o.s = c)
          \/ o.ok = FALSE /\ o.s = m
      BY <3>1, SMT
    <3> QED  BY <3>2, <3>3, <3>6, <3>8, <3>9, Zenon
  <2>10. Sound([m EXCEPT !.state = "MAIN_MENU"])
    <3> DEFINE u == [m EXCEPT !.state = "MAIN_MENU"]
    <3>1. "MAIN_MENU" \in FsmStates
      BY Zenon DEF FsmStates
    <3>2. /\ u \in Session /\ u.state = "MAIN_MENU" /\ Hooks(u)
          /\ u.active_game = "none" /\ Flags(u, FALSE, FALSE, "none")
      BY <2>2, <2>3, <3>1, StateWritten, Zenon DEF Flags
    <3> HIDE DEF u
    <3>3. Sound(u)
      BY <3>2, Zenon DEF Sound, Core
    <3> QED  BY <3>3, Zenon DEF u
  <2>11. \A u \in Outcomes("start_game", m, sel, "IN_GAME", "MAIN_MENU") : Sound(u)
    <3>1. ASSUME NEW o \in act_start_game(m, sel)
          PROVE  Sound([o.s EXCEPT !.state = IF o.ok THEN "IN_GAME" ELSE "MAIN_MENU"])
      <4>1. CASE o.ok = FALSE /\ o.s = m
        BY <4>1, <2>10, Zenon
      <4>2. CASE /\ o.ok = TRUE /\ o.s \in Session /\ Hooks(o.s)
                 /\ o.s.active_game # "none" /\ Flags(o.s, FALSE, FALSE, "none")
        <5>1. Sound([o.s EXCEPT !.state = "IN_GAME"])
          BY <4>2, <2>8, Zenon
        <5> QED  BY <4>2, <5>1, Zenon
      <4> QED  BY <2>9, <4>1, <4>2, Zenon
    <3> QED  BY <2>7, <3>1, Zenon DEF Outcomes
  <2> QED  BY <2>4, <2>6, <2>11, Zenon
<1> QED  BY <1>1, <1>2, Zenon

(* All of on_data: after the key and what it deferred, the session is in   *)
(* order again.                                                            *)
LEMMA DataStep ==
    ASSUME NEW t, Sound(t), NEW key \in Keys
    PROVE  \A u \in on_data(t, key) : Sound(u)
<1>1. CASE t.state = "CLOSED"
  BY <1>1, Zenon DEF on_data, Terminal
<1>2. CASE t.state # "CLOSED"
  <2>1. t.state \in {"NEGOTIATING", "MAIN_MENU", "IN_GAME"}
    BY <1>2, Zenon DEF Sound, Core
  <2>2. \A a \in fsm_dispatch(t, "KEY_INPUT", key) : Pending(a)
    BY <2>1, NegotiationKey, MenuKey, GameKey, Zenon
  <2>3. ASSUME NEW c, \/ Sound(c) /\ c.state = "CLOSED"
                      \/ Pending(c) /\ ~c.game_over_pending /\ ~c.quit_pending
        PROVE  \A u \in MenuSelect(c) : Sound(u)
    <3>1. CASE c.state = "CLOSED"
      BY <2>3, <3>1, Zenon DEF MenuSelect, Terminal, Pending
    <3> QED  BY <2>3, <3>1, SelectStep, Zenon
  <2>4. ASSUME NEW u \in on_data(t, key)
        PROVE  \E a \in fsm_dispatch(t, "KEY_INPUT", key) :
                   \E b \in GameOver(a) : \E c \in Quit(b) : u \in MenuSelect(c)
    <3> DEFINE C(b) == UNION {MenuSelect(c) : c \in Quit(b)}
               B(a) == UNION {C(b) : b \in GameOver(a)}
    <3>1. on_data(t, key) = UNION {B(a) : a \in fsm_dispatch(t, "KEY_INPUT", key)}
      BY <1>2 DEF on_data, Terminal
    <3>2. PICK a \in fsm_dispatch(t, "KEY_INPUT", key) : u \in B(a)
      <4> HIDE DEF B
      <4> QED  BY <3>1, Zenon
    <3>3. PICK b \in GameOver(a) : u \in C(b)
      <4> HIDE DEF C
      <4> QED  BY <3>2, Zenon
    <3>4. \E c \in Quit(b) : u \in MenuSelect(c)
      BY <3>3, Zenon
    <3> QED  BY <3>4, Zenon
  <2> QED  BY <2>2, <2>3, <2>4, GameOverStep, QuitStep, Zenon
<1> QED  BY <1>1, <1>2, Zenon

-----------------------------------------------------------------------------
(* Options *)

(* With fewer replies to wait for, a session that still waits for one, or  *)
(* has left the negotiation, is in order; NEGO_DONE leaves NEGOTIATING for *)
(* the menu, and means nothing elsewhere.                                  *)
LEMMA NegoDone ==
    ASSUME NEW t, Sound(t), NEW n \in 0 .. 3
    PROVE  LET m == [t EXCEPT !.nego_pending = n] IN
           /\ n # 0 => Sound(m) /\ m.state = t.state
           /\ t.state = "CLOSED" => Sound(m)
           /\ \A u \in fsm_dispatch(m, "NEGO_DONE", "") : Sound(u)
<1> DEFINE m == [t EXCEPT !.nego_pending = n]
<1>1. t \in Session
  BY Zenon DEF Sound, Core
<1>2. /\ m \in Session /\ m.state = t.state /\ m.nego_pending = n
      /\ m.active_game = t.active_game
  BY <1>1, Zenon DEF Session
<1>3. Hooks(m)
  <2>1. Hooks(t)
    BY Zenon DEF Sound, Core
  <2> QED  BY <1>1, <2>1, Zenon DEF Session, Hooks
<1>4. Flags(m, t.game_over_pending, t.quit_pending, t.pending_selection)
  BY <1>1, Zenon DEF Session, Flags
<1> HIDE DEF m
<1>5. t.state # "NEGOTIATING" \/ n # 0 => Sound(m)
  BY <1>2, <1>3, <1>4, Zenon DEF Sound, Core, Flags
<1>6. CASE t.state # "NEGOTIATING"
  <2>1. m.state \in FsmStates \ {"NEGOTIATING"}
    BY <1>2, <1>6, Zenon DEF Session
  <2>2. fsm_dispatch(m, "NEGO_DONE", "") = {m}
    BY <2>1, NegotiationRows, NoDispatch, Zenon
  <2>3. \A u \in fsm_dispatch(m, "NEGO_DONE", "") : Sound(u)
    BY <1>5, <1>6, <2>2, Zenon
  <2> QED  BY <1>2, <1>5, <1>6, <2>3, Zenon DEF m
<1>7. CASE t.state = "NEGOTIATING"
  <2>1. Finds(m, "NEGO_DONE", "show_main_menu", "MAIN_MENU", "CLOSING")
    BY <1>2, <1>7, NegotiationRows, Zenon DEF Finds
  <2>2. m.active_game = "none" /\ ~m.quit_pending
    BY <1>2, <1>4, <1>7, Zenon DEF Sound, Core, Flags
  <2>3. \A u \in fsm_dispatch(m, "NEGO_DONE", "") : Sound(u)
    BY <1>2, <1>3, <2>1, <2>2, MenuShown, Zenon
  <2>4. t.state # "CLOSED"
    BY <1>7
  <2> QED  BY <1>2, <1>5, <2>3, <2>4, Zenon DEF m
<1> QED  BY <1>6, <1>7, Zenon

(* A reply to an option. *)
LEMMA OptionStep ==
    ASSUME NEW t, Sound(t)
    PROVE  \A u \in on_option(t) : Sound(u)
<1>1. CASE t.nego_pending = 0
  BY <1>1, Zenon DEF on_option
<1>2. CASE t.nego_pending # 0
  <2> DEFINE n == t.nego_pending - 1
             m == [t EXCEPT !.nego_pending = n]
  <2>1. t \in Session /\ t.nego_pending \in 0 .. 3
    BY Zenon DEF Sound, Core, Session
  <2>2. n \in 0 .. 3
    BY <1>2, <2>1
  <2>3. m.nego_pending = n
    BY <2>1, Zenon DEF Session
  <2>4. on_option(t) = IF m.nego_pending = 0 /\ ~Terminal(m)
                       THEN fsm_dispatch(m, "NEGO_DONE", "") ELSE {m}
    BY <1>2, Zenon DEF on_option
  <2>5. m.state = t.state
    BY <2>1, Zenon DEF Session
  <2>6. /\ n # 0 => Sound(m)
        /\ t.state = "CLOSED" => Sound(m)
        /\ \A u \in fsm_dispatch(m, "NEGO_DONE", "") : Sound(u)
    <3> HIDE DEF n
    <3> QED  BY <2>2, NegoDone, Zenon
  <2> HIDE DEF m, n
  <2> QED  BY <2>3, <2>4, <2>5, <2>6, Zenon DEF Terminal
<1> QED  BY <1>1, <1>2, Zenon

(* Anything that iac_parser_feed reports keeps the session in order. *)
LEMMA FeedStep ==
    ASSUME NEW t, Sound(t), NEW token \in Tokens
    PROVE  \A u \in Feed(t, token) : Sound(u)
<1>1. CASE token = "option"
  BY <1>1, OptionStep, Zenon DEF Feed
<1>2. CASE token = "naws"
  <2>1. t.state \in FsmStates
    BY Zenon DEF Sound, Core, Session
  <2>2. fsm_dispatch(t, "NAWS", "") = {t}
    BY <2>1, NegotiationRows, NoDispatch, Zenon
  <2>3. Feed(t, token) = fsm_dispatch(t, "NAWS", "")
    BY <1>2 DEF Feed
  <2> QED  BY <2>2, <2>3, Zenon
<1>3. CASE token \notin {"option", "naws"}
  <2>1. token \in Keys /\ Feed(t, token) = on_data(t, token)
    BY <1>3, Zenon DEF Tokens, Feed
  <2> QED  BY <2>1, DataStep, Zenon
<1> QED  BY <1>1, <1>2, <1>3, Zenon

-----------------------------------------------------------------------------
(* The event loop *)

(* A session that begins has asked its three questions. *)
LEMMA InitInv ==
    ASSUME Init
    PROVE  Inv
<1> DEFINE m == [Fresh EXCEPT !.nego_pending = 3]
           u == [m EXCEPT !.state = "NEGOTIATING"]
<1>1. s = u
  <2> DEFINE data == ""
  <2> HIDE DEF data
  <2>1. Yields("send_negotiations", Fresh, data, m)
    BY DEF Act, act_send_negotiations, Yields, Ok
  <2>2. Finds(Fresh, "CONNECTED", "send_negotiations", "NEGOTIATING", "CLOSING")
    BY NegotiationRows, Zenon DEF Finds, Fresh
  <2> HIDE DEF m
  <2>3. fsm_dispatch(Fresh, "CONNECTED", data) = {[m EXCEPT !.state = "NEGOTIATING"]}
    <3> HIDE DEF Init
    <3> QED  BY <2>1, <2>2, OkDispatch, SMT
  <2> QED  BY <2>3, Zenon DEF Init, data
<1>2. 3 \in 0 .. 3 /\ 0 \in 0 .. 3 /\ 0 \in 0 .. NameMax /\ 0 \in 0 .. LineMax /\ 3 # 0
  BY TelnetAssumption
<1>3. Fresh \in Session
  BY <1>2, Zenon DEF Fresh, Session, FsmStates
<1>4. /\ m \in Session /\ m.nego_pending = 3 /\ m.active_game = "none"
      /\ m.chat = "none" /\ m.in_room = FALSE /\ m.on_notify = FALSE
  BY <1>2, <1>3, Zenon DEF Session, Fresh
<1>5. Flags(m, FALSE, FALSE, "none")
  BY Zenon DEF Flags, Fresh
<1> HIDE DEF m
<1>6. Hooks(m)
  BY <1>4 DEF Hooks
<1>7. /\ u \in Session /\ u.state = "NEGOTIATING" /\ Hooks(u)
      /\ u.nego_pending = 3 /\ u.active_game = "none"
      /\ Flags(u, FALSE, FALSE, "none")
  <2>1. "NEGOTIATING" \in FsmStates
    BY Zenon DEF FsmStates
  <2> QED  BY <1>4, <1>5, <1>6, <2>1, StateWritten, Zenon DEF Flags
<1> HIDE DEF u
<1>8. Sound(u)
  BY <1>2, <1>7, Zenon DEF Sound, Core
<1>9. buf \in Seq(Tokens) /\ pos \in 1 .. (Len(buf) + 1) /\ chunks \in 0 .. MaxChunks
  <2>1. buf = <<>> /\ pos = 1 /\ chunks = 0
    BY Zenon DEF Init
  <2> QED  BY <2>1, TelnetAssumption
<1> QED  BY <1>1, <1>7, <1>8, <1>9, Zenon DEF Init, Inv, TypeOK

(* A step of the loop that leaves the session in order. *)
LEMMA SoundStep ==
    ASSUME TypeOK, Sound(s'), UNCHANGED <<buf, pos, chunks, shutdown_requested>>,
           loop' \in {"top", "recv", "feed", "cleanup"}
    PROVE  Inv'
<1>1. s' \in Session
  BY Zenon DEF Sound, Core
<1>2. TypeOK'
  BY <1>1, Zenon DEF TypeOK
<1> QED  BY <1>2, Zenon DEF Inv

(* Steps that leave the session's record alone. *)
LEMMA QuietStep ==
    ASSUME Inv, \/ Top \/ PollFails \/ Wake \/ Recv \/ FeedDone \/ ShutdownAll
    PROVE  Inv'
<1>1. CASE Top
  <2>1. loop' \in {"poll", "cleanup"}
    BY <1>1, Zenon DEF Top
  <2>2. TypeOK'
    BY <1>1, <2>1, Zenon DEF Inv, TypeOK, Top
  <2>3. Sound(s') /\ loop' # "ended"
    BY <1>1, <2>1 DEF Inv, Top
  <2>4. loop' = "poll" => s'.state # "CLOSED"
    BY <1>1 DEF Top, Terminal
  <2> QED  BY <2>2, <2>3, <2>4, Zenon DEF Inv
<1>2. CASE PollFails
  BY <1>2, SoundStep, Zenon DEF Inv, PollFails
<1>3. CASE Wake
  <2>1. loop' \in {"top", "recv", "cleanup"}
    BY <1>3, Zenon DEF Wake
  <2> QED  BY <1>3, <2>1, SoundStep, Zenon DEF Inv, Wake
<1>4. CASE Recv
  <2>1. PICK n \in 1 .. ChunkMax : buf' \in [1 .. n -> Tokens]
    BY <1>4, Zenon DEF Recv, Chunks
  <2>2. n \in Nat
    BY <2>1, TelnetAssumption
  <2>3. buf' \in Seq(Tokens)
    BY <2>1, <2>2, SMT
  <2>4. pos' \in 1 .. (Len(buf') + 1) /\ chunks' \in 0 .. MaxChunks
    BY <1>4, <2>3, TelnetAssumption DEF Inv, TypeOK, Recv
  <2>5. TypeOK'
    BY <1>4, <2>3, <2>4, Zenon DEF Inv, TypeOK, Recv
  <2> QED  BY <1>4, <2>5, Zenon DEF Inv, Recv
<1>5. CASE FeedDone
  <2>1. buf' \in Seq(Tokens) /\ pos' \in 1 .. (Len(buf') + 1)
    BY <1>5 DEF FeedDone
  <2>2. TypeOK'
    BY <1>5, <2>1, Zenon DEF Inv, TypeOK, FeedDone
  <2> QED  BY <1>5, <2>2, Zenon DEF Inv, FeedDone
<1>6. CASE ShutdownAll
  BY <1>6, Zenon DEF Inv, TypeOK, ShutdownAll
<1> QED  BY <1>1, <1>2, <1>3, <1>4, <1>5, <1>6, Zenon

(* FeedNext hands the next token to the parser's callbacks. *)
LEMMA FeedNextInv ==
    ASSUME Inv, FeedNext
    PROVE  Inv'
<1>1. buf[pos] \in Tokens /\ pos' \in 1 .. (Len(buf) + 1)
  BY DEF Inv, TypeOK, FeedNext
<1>2. Sound(s')
  BY <1>1, FeedStep, Zenon DEF Inv, FeedNext
<1>3. s' \in Session
  BY <1>2, Zenon DEF Sound, Core
<1>4. TypeOK'
  BY <1>1, <1>3, Zenon DEF Inv, TypeOK, FeedNext
<1> QED  BY <1>2, <1>4, Zenon DEF Inv, FeedNext

(* The timeouts: the negotiation is given up, or the idle session closed. *)
LEMMA TimeoutInv ==
    ASSUME Inv, Timeout
    PROVE  Inv'
<1>1. Sound(s) /\ s.state # "CLOSED" /\ s.nego_pending \in 0 .. 3
  BY Zenon DEF Inv, Timeout, Sound, Core, Session
<1>2. s' \in IF s.nego_pending > 0
             THEN fsm_dispatch([s EXCEPT !.nego_pending = 0], "NEGO_DONE", "")
             ELSE fsm_dispatch(s, "TIMEOUT", "")
  BY Zenon DEF Timeout
<1>3. CASE s.nego_pending > 0
  <2>1. 0 \in 0 .. 3
    OBVIOUS
  <2>2. \A u \in fsm_dispatch([s EXCEPT !.nego_pending = 0], "NEGO_DONE", "") : Sound(u)
    BY <1>1, <2>1, NegoDone, Zenon
  <2>3. Sound(s')
    BY <1>2, <1>3, <2>2, Zenon
  <2> QED  BY <2>3, SoundStep, Zenon DEF Inv, Timeout
<1>4. CASE ~(s.nego_pending > 0)
  <2>1. s.nego_pending = 0
    BY <1>1, <1>4
  <2>2. s.state \in {"MAIN_MENU", "IN_GAME"}
    BY <1>1, <2>1, Zenon DEF Sound, Core
  <2>3. Finds(s, "TIMEOUT", "close", "CLOSED", "CLOSED")
    BY <2>2, ClosingRows, Zenon DEF Finds
  <2>4. \A u \in fsm_dispatch(s, "TIMEOUT", "") : Sound(u)
    BY <1>1, <2>3, Closes, Zenon DEF Sound
  <2>5. Sound(s')
    BY <1>2, <1>4, <2>4, Zenon
  <2> QED  BY <2>5, SoundStep, Zenon DEF Inv, Timeout
<1> QED  BY <1>3, <1>4, Zenon

(* The end of the input and the cleanup. *)
LEMMA EndInv ==
    ASSUME Inv, RecvEof \/ Cleanup
    PROVE  Inv'
<1>1. CASE RecvEof
  <2>1. Sound(s) /\ Core(s) /\ s.state \in FsmStates
    BY <1>1, Zenon DEF Inv, RecvEof, Sound, Core, Session
  <2>2. CASE s.state = "CLOSED"
    <3>1. fsm_dispatch(s, "DISCONNECT", "") = {s}
      <4>1. RowsFor(s.state, "DISCONNECT") = {}
        BY <2>2, ClosingRows, Zenon
      <4> QED  BY <4>1, NoDispatch, Zenon
    <3> QED  BY <1>1, <2>1, <3>1, SoundStep, Zenon DEF Inv, RecvEof
  <2>3. CASE s.state # "CLOSED"
    <3>1. Finds(s, "DISCONNECT", "close", "CLOSED", "CLOSED")
      BY <2>1, <2>3, ClosingRows, Zenon DEF Finds
    <3>2. Sound(s')
      BY <1>1, <2>1, <3>1, Closes, Zenon DEF RecvEof
    <3> QED  BY <1>1, <3>2, SoundStep, Zenon DEF Inv, RecvEof
  <2> QED  BY <2>2, <2>3, Zenon
<1>2. CASE Cleanup
  <2>1. Sound(s) /\ s \in Session /\ Hooks(s)
    BY <1>2, Zenon DEF Inv, Cleanup, Sound, Core
  <2>2. s' = s \/ s' = destroy_game(s)
    BY <1>2, Zenon DEF Cleanup
  <2>3. /\ s' \in Session /\ Hooks(s') /\ s'.active_game = "none" /\ s'.state = s.state
        /\ Flags(s', s.game_over_pending, s.quit_pending, s.pending_selection)
    <3>1. CASE s.active_game = "none"
      <4>1. s' = s
        BY <1>2, <3>1, Zenon DEF Cleanup
      <4> QED  BY <2>1, <3>1, <4>1, Zenon DEF Flags
    <3>2. CASE s.active_game # "none"
      <4>1. s' = destroy_game(s)
        BY <1>2, <3>2, Zenon DEF Cleanup
      <4> QED  BY <2>1, <4>1, DestroyGame, Zenon
    <3> QED  BY <3>1, <3>2, Zenon
  <2>4. Ended(s')
    BY <2>1, <2>3, Zenon DEF Ended, Sound, Flags
  <2>5. TypeOK'
    BY <1>2, <2>3, Zenon DEF Inv, TypeOK, Cleanup
  <2> QED  BY <1>2, <2>4, <2>5, Zenon DEF Inv, Cleanup
<1> QED  BY <1>1, <1>2, Zenon

(* Every step keeps the invariant. *)
LEMMA NextInv ==
    ASSUME Inv, [Next]_vars
    PROVE  Inv'
<1>1. CASE UNCHANGED vars
  BY <1>1, Zenon DEF Inv, TypeOK, vars
<1> QED
  BY <1>1, QuietStep, FeedNextInv, TimeoutInv, EndInv, Zenon DEF Next, LoopStep

(* The invariant holds in every run. *)
THEOREM TelnetInvariant == Spec => []Inv
BY InitInv, NextInv, PTL DEF Spec

(* The fields keep their types: the name, the line and the count of        *)
(* awaited replies stay within their bounds whatever is typed.             *)
THEOREM TelnetTypes == Spec => []TypeOK
BY TelnetInvariant, PTL DEF Inv

(* on_data and destroy_game keep the active game and the state IN_GAME     *)
(* together, and nothing of a game outlives the session.                   *)
THEOREM GameIsOwned == Spec => []GameOwned
<1>1. ASSUME Inv
      PROVE  GameOwned
  BY <1>1, Zenon DEF Inv, Ended, Sound, Core, Hooks, GameOwned
<1> QED  BY <1>1, TelnetInvariant, PTL

(* chat_on_notify is called only while the chat is the active game and in  *)
(* a room, for every sequence of keys, timeouts and disconnections.        *)
THEOREM NotifyHasTarget == Spec => []NotifyTarget
<1>1. ASSUME Inv
      PROVE  NotifyTarget
  <2>1. s \in Session /\ Hooks(s)
    BY <1>1, Zenon DEF Inv, Ended, Sound, Core
  <2>2. s.on_notify => s.in_room
    BY <2>1, Zenon DEF Hooks
  <2>3. s.in_room => s.chat \in {"room", "compose"} /\ s.username
    BY <2>1, Zenon DEF Hooks
  <2>4. s.in_room => s.active_game = "chat"
    BY <2>1, <2>3 DEF Hooks
  <2> QED  BY <2>2, <2>3, <2>4, Zenon DEF NotifyTarget
<1> QED  BY <1>1, TelnetInvariant, PTL

(* on_data consumes every flag that the key's action raised. *)
THEOREM FlagsAreConsumed == Spec => []NothingDeferred
<1>1. ASSUME Inv
      PROVE  NothingDeferred
  BY <1>1, Zenon DEF Inv, Ended, Sound, Flags, NothingDeferred
<1> QED  BY <1>1, TelnetInvariant, PTL

(* Whenever poll is entered with no reply awaited, the idle timeout has a  *)
(* row: no session can hold its thread in NEGOTIATING or CLOSING.          *)
THEOREM SessionsAreNeverStuck == Spec => []NeverStuck
<1>1. ASSUME Inv
      PROVE  NeverStuck
  <2>1. ASSUME loop = "poll", s.nego_pending = 0
        PROVE  s.state \in {"MAIN_MENU", "IN_GAME"}
    BY <1>1, <2>1 DEF Inv, Sound, Core
  <2>2. ASSUME s.state \in {"MAIN_MENU", "IN_GAME"}
        PROVE  \E r \in telnet_fsm_table : r.state = s.state /\ r.event = "TIMEOUT"
    <3>1. RowsFor(s.state, "TIMEOUT") # {}
      BY <2>2, ClosingRows, Zenon
    <3> QED  BY <3>1, Zenon DEF RowsFor
  <2> QED  BY <2>1, <2>2, Zenon DEF NeverStuck
<1> QED  BY <1>1, TelnetInvariant, PTL
=============================================================================
