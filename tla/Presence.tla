------------------------------ MODULE Presence ------------------------------
(***************************************************************************)
(* Who is listed as being in a room: the presence table of chat_db.c with  *)
(* its time stamps, the window of CHAT_PRESENCE_TTL, the sessions that     *)
(* write the rows and the polls that wake those sessions, over crashes and *)
(* restarts of the process.                                                *)
(*                                                                         *)
(* There is one room: no two rooms share a row.  Time passes in ticks.  A  *)
(* row is kept as its age, and an age that is past the window is not told  *)
(* from a greater one, so that time needs no bound.  A poll that is due    *)
(* returns before time goes on.  A session whose send to a client that     *)
(* does not read blocks is held until the client reads or is gone.         *)
(***************************************************************************)
EXTENDS Integers, FiniteSetsExt

CONSTANTS
    Telnet, Stream,     \* the telnet sessions and the event streams
    User,               \* names, as sanitize_user leaves them
    UserOf,             \* the name each session gives
    Ttl,                \* CHAT_PRESENCE_TTL
    Keepalive,          \* SSE_KEEPALIVE_MS
    Idle,               \* TELNET_IDLE_TIMEOUT
    Nego,               \* TELNET_NEGO_TIMEOUT
    MaxNoise            \* bound: posts, keys and sends that block

Session == Telnet \union Stream

ASSUME PresenceAssumption ==
    /\ Telnet \intersect Stream = {} /\ UserOf \in [Session -> User]
    /\ Ttl \in Nat /\ Keepalive \in 1 .. Ttl /\ Idle \in 1 .. Ttl
    /\ Nego \in 1 .. Idle /\ MaxNoise \in Nat

NoRow == -1

Over == -1

Old == Ttl + 1

VARIABLES
    service,    \* "down", "fresh" (chat_service_init not yet called), "ready", "failed"
    age,        \* of each name's row
    inside,     \* the sessions that are in the room
    held,       \* those whose thread is in a send that blocks
    nego,       \* Over, or the ticks until nego_deadline while nego_pending > 0
    timeout,    \* what each session's poll was given
    waited,     \* how long each session's poll has lasted
    away,       \* history: how long no session of a name has been inside
    excuse,     \* history: what kept a session's row from being renewed
    noise

vars == <<service, age, inside, held, nego, timeout, waited, away, excuse, noise>>

\* A mutant: the rest of the deadline is added to the idle timeout.
PollTimeoutTooLong(t, n) == IF t \in Stream THEN Keepalive ELSE IF n > 0 THEN n + Idle ELSE Idle

\* What the next poll of a session is given, n ticks before its deadline.
PollTimeout(t, n) == IF t \in Stream THEN Keepalive ELSE IF n > 0 THEN n ELSE Idle

Twins(t) == {x \in inside : UserOf[x] = UserOf[t]}

Awake(t) == t \in inside \ held

\* The type invariant.  No poll outlasts its timeout.
TypeOK ==
    /\ service \in {"down", "fresh", "ready", "failed"}
    /\ age \in [User -> NoRow .. Old]
    /\ inside \subseteq Session
    /\ held \subseteq inside
    /\ nego \in [Session -> Over .. Nego]
    /\ timeout \in [Session -> 1 .. Ttl] /\ waited \in [Session -> 0 .. Ttl]
    /\ \A t \in Session : waited[t] <= timeout[t]
    /\ away \in [User -> 0 .. Old]
    /\ excuse \in [Session -> SUBSET {"woken", "twin", "nego", "held"}]
    /\ noise \in 0 .. MaxNoise

Init ==
    /\ service = "fresh"
    /\ age = [u \in User |-> NoRow]
    /\ inside = {} /\ held = {}
    /\ nego = [t \in Session |-> Over]
    /\ timeout = [t \in Session |-> PollTimeout(t, Over)]
    /\ waited = [t \in Session |-> 0]
    /\ away = [u \in User |-> Old]
    /\ excuse = [t \in Session |-> {}]
    /\ noise = 0

-----------------------------------------------------------------------------
(* The table *)

\* chat_db_presence_set: insert the row, or renew its time stamp.
presence_set(u) == age' = [age EXCEPT ![u] = 0]

presence_clear(u) == age' = [age EXCEPT ![u] = NoRow]

\* A mutant: chat_db_active_users looks at all rows of the room.
ListedEver(u) == age[u] # NoRow

\* chat_db_active_users
Listed(u) == age[u] # NoRow /\ age[u] <= Ttl

-----------------------------------------------------------------------------
(* The process *)

\* service_init_once, at the first use: what it finds stays so for the life
\* of the process.  The rows of the process before are left in the table.
ServiceInit(found) ==
    /\ service = "fresh" /\ found \in {"ready", "failed"}
    /\ service' = found
    /\ UNCHANGED <<age, inside, held, nego, timeout, waited, away, excuse, noise>>

\* The process dies; nobody clears a row.
Crash ==
    /\ service # "down"
    /\ service' = "down"
    /\ inside' = {} /\ held' = {}
    /\ nego' = [t \in Session |-> Over]
    /\ waited' = [t \in Session |-> 0]
    /\ excuse' = [t \in Session |-> {}]
    /\ UNCHANGED <<age, timeout, away, noise>>

Restart ==
    /\ service = "down"
    /\ service' = "fresh"
    /\ UNCHANGED <<age, inside, held, nego, timeout, waited, away, excuse, noise>>

-----------------------------------------------------------------------------
(* The sessions *)

\* A poll starts, n ticks before the deadline of the negotiation.
Poll(t, n) ==
    /\ waited' = [waited EXCEPT ![t] = 0]
    /\ nego' = [nego EXCEPT ![t] = n]
    /\ timeout' = [timeout EXCEPT ![t] = PollTimeout(t, n)]

\* A row is renewed: no session of the name needs an excuse any longer.
Excused(t) == [x \in Session |-> IF x = t \/ x \in Twins(t) \ held THEN {} ELSE excuse[x]]

\* enter_room, and the start of handle_sse; without a registry there is no
\* room to enter.  A key opens the lobby before the negotiation is over, so
\* a telnet session may bring it along.
Enter(t, n) ==
    /\ service = "ready" /\ t \notin inside
    /\ t \in Stream => n = Over
    /\ presence_set(UserOf[t])
    /\ inside' = inside \union {t}
    /\ Poll(t, n)
    /\ excuse' = Excused(t)
    /\ away' = [away EXCEPT ![UserOf[t]] = 0]
    /\ UNCHANGED <<service, held, noise>>

\* The room is left, or the session ends in it: leave_room, chat_destroy,
\* the end of handle_sse.
Gone(t) ==
    /\ presence_clear(UserOf[t])
    /\ inside' = inside \ {t}
    /\ Poll(t, Over)
    /\ excuse' = [x \in Session |->
                    IF x = t THEN {} ELSE IF x \in Twins(t) THEN excuse[x] \union {"twin"} ELSE excuse[x]]
    /\ UNCHANGED <<service, held, away, noise>>

\* The user leaves, or the connection breaks.
Leave(t) == Awake(t) /\ Gone(t)

Noise == noise < MaxNoise /\ noise' = noise + 1

\* Sessions are woken by something that is no reason to renew their rows.
Woken(woken) ==
    /\ waited' = [t \in Session |-> IF t \in woken THEN 0 ELSE waited[t]]
    /\ timeout' = [t \in Session |-> IF t \in woken THEN PollTimeout(t, nego[t]) ELSE timeout[t]]
    /\ Noise

\* A key that posts nothing, or a reply to the negotiation: the last one ends it.
Key(t, last) ==
    /\ Awake(t) /\ t \in Telnet
    /\ last => nego[t] # Over
    /\ Poll(t, IF last THEN Over ELSE nego[t])
    /\ excuse' = [excuse EXCEPT ![t] = @ \union {"woken"}]
    /\ Noise
    /\ UNCHANGED <<service, age, inside, held, away>>

\* A telnet user's post wakes all subscribers and renews the user's row.
Post(t) ==
    /\ Awake(t) /\ t \in Telnet
    /\ presence_set(UserOf[t])
    /\ Woken(inside \ held)
    /\ excuse' = [x \in Session |->
                    IF x \in Twins(t) \ held THEN {}
                    ELSE IF x \in inside THEN excuse[x] \union {"woken"} ELSE excuse[x]]
    /\ UNCHANGED <<service, inside, held, nego, away>>

\* A post through the web wakes all subscribers, and renews no row.
RestPost ==
    /\ service = "ready"
    /\ Woken(inside \ held)
    /\ excuse' = [x \in Session |-> IF x \in inside THEN excuse[x] \union {"woken"} ELSE excuse[x]]
    /\ UNCHANGED <<service, age, inside, held, nego, away>>

\* send_all and telnet_flush have no timeout: a redraw, a frame or a
\* keepalive waits until the client reads it, and the row is not renewed.
Block(t) ==
    /\ Awake(t)
    /\ held' = held \union {t}
    /\ excuse' = [excuse EXCEPT ![t] = @ \union {"held"}]
    /\ Noise
    /\ UNCHANGED <<service, age, inside, nego, timeout, waited, away>>

\* The client reads, or is gone: the session polls again.
Release(t) ==
    /\ t \in held
    /\ held' = held \ {t}
    /\ Poll(t, nego[t])
    /\ UNCHANGED <<service, age, inside, away, excuse, noise>>

Renew(t) ==
    /\ Poll(t, nego[t])
    /\ excuse' = Excused(t)
    /\ UNCHANGED <<service, inside, held, away, noise>>

\* A mutant: the keepalive is sent and the row left as it is.
KeepaliveOnly(t) == UNCHANGED age /\ Renew(t)

\* A mutant: the keepalive updates a row that is there and inserts none.
KeepaliveUpdates(t) ==
    \/ age[UserOf[t]] # NoRow /\ presence_set(UserOf[t]) /\ Renew(t)
    \/ /\ age[UserOf[t]] = NoRow
       /\ Poll(t, nego[t])
       /\ UNCHANGED <<service, age, inside, held, away, excuse, noise>>

\* handle_sse, HTTP_WAIT_TIMEOUT: renew the row.
KeepaliveDue(t) == presence_set(UserOf[t]) /\ Renew(t)

\* The poll of a stream returns with its timeout, or with bytes that a
\* client should not send, which http_conn_wait takes for one.
Tock(t) == Awake(t) /\ t \in Stream /\ KeepaliveDue(t)

Timeout(t) == waited[t] = timeout[t] /\ Tock(t)

Stray(t) == waited[t] < timeout[t] /\ Tock(t)

\* The timeout of a telnet session that still awaits replies, be it the rest
\* of the deadline or the whole idle timeout, gives up the negotiation; the
\* session stays where it is and its row as it was.
NegoTimeout(t) ==
    /\ Awake(t) /\ t \in Telnet /\ waited[t] = timeout[t] /\ nego[t] # Over
    /\ Poll(t, Over)
    /\ excuse' = [excuse EXCEPT ![t] = @ \union {"nego"}]
    /\ UNCHANGED <<service, age, inside, held, away, noise>>

\* The idle timeout of any other telnet session ends it.
IdleTimeout(t) ==
    /\ Awake(t) /\ t \in Telnet /\ waited[t] = timeout[t] /\ nego[t] = Over
    /\ Gone(t)

Tick ==
    /\ \A t \in inside \ held : waited[t] < timeout[t]
    /\ waited' = [t \in Session |-> IF Awake(t) THEN waited[t] + 1 ELSE waited[t]]
    /\ nego' = [t \in Session |-> IF nego[t] > 0 THEN nego[t] - 1 ELSE nego[t]]
    /\ age' = [u \in User |-> IF age[u] = NoRow THEN NoRow ELSE Min({age[u] + 1, Old})]
    /\ away' = [u \in User |->
                  IF \E t \in inside : UserOf[t] = u THEN 0 ELSE Min({away[u] + 1, Old})]
    /\ UNCHANGED <<service, inside, held, timeout, excuse, noise>>

-----------------------------------------------------------------------------
Due(t) == Timeout(t) \/ NegoTimeout(t) \/ IdleTimeout(t)

Next ==
    \/ \E found \in {"ready", "failed"} : ServiceInit(found)
    \/ Crash \/ Restart \/ RestPost \/ Tick
    \/ \E t \in Session :
         \/ \E n \in Over .. Nego : Enter(t, n)
         \/ \E last \in BOOLEAN : Key(t, last)
         \/ Leave(t) \/ Post(t) \/ Block(t) \/ Release(t) \/ Stray(t) \/ Due(t)

Spec == Init /\ [][Next]_vars

\* Time passes, and a poll that is due returns.
FairSpec == Spec /\ WF_vars(Tick) /\ \A t \in Session : WF_vars(Due(t))

-----------------------------------------------------------------------------
(* What is checked *)

\* room.c:20: "disconnected users drop off naturally".  Nobody is listed
\* whose name has not been in the room within the window, whether they left,
\* lost their connection or were in it when the process died.
DropsOff == \A u \in User : Listed(u) => away[u] <= Ttl

\* http_chat.c:30: a visitor is listed, unless since their row was renewed
\* their poll has been cut short (a woken session starts a new poll and
\* renews nothing), their timeout went to the negotiation, their send has
\* blocked, or another session of the same name has left.
ListedUnlessDisturbed ==
    \A t \in inside : ~Listed(UserOf[t]) => excuse[t] # {}

\* Once the room is quiet, a stream that stays and whose client reads gets
\* its row back, even one that another session of the same name has deleted
\* or that has run out.
StreamHeals ==
    \A t \in Stream : []<>(Awake(t) => Listed(UserOf[t]))
=============================================================================
