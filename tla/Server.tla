------------------------------- MODULE Server -------------------------------
(***************************************************************************)
(* The life of the process: main's accept loop and its signals             *)
(* (core/server.c), the slots that bound the connection threads            *)
(* (core/connector.c), the body of a connection thread (core/connection.c) *)
(* and, of each protocol's session, what starting, waking and stopping it  *)
(* takes: the registry, the self-pipe, the poll loop, the order in which   *)
(* things are closed.  What a session says is left out.                    *)
(*                                                                         *)
(* A connection is named by its client.  A thread's control state th[c]    *)
(* names the next system call or critical section of that connection's     *)
(* thread.  Registry critical sections of sessions are single steps; the   *)
(* walk of shutdown_all holds the registry lock over several steps.        *)
(***************************************************************************)
EXTENDS Integers, FiniteSets

CONSTANTS
    Conn,       \* client connections, each made at most once
    ProtoOf,    \* the port each one connects to
    None,
    MaxConn,    \* --max-conn, the number of slots
    BufSz,      \* bound: HTTP_RECV_MAX in units of one recv
    MaxSignals, \* bound: signals sent to the process
    Stalled,    \* clients that stop reading: a send to them blocks
    MayFail     \* whether malloc, pipe2, accept, select, ... may fail

Protos == {"telnet", "http"}

ASSUME ServerAssumption ==
    /\ IsFiniteSet(Conn)
    /\ ProtoOf \in [Conn -> Protos]
    /\ None \notin Conn \cup Protos
    /\ MaxConn \in Nat \ {0}
    /\ BufSz \in Nat \ {0}
    /\ MaxSignals \in Nat
    /\ Stalled \subseteq Conn
    /\ MayFail \in BOOLEAN

VARIABLES
    main,               \* control state of the main thread
    listeners,          \* the protocols of srv->listeners
    todo,               \* listeners main has yet to visit in its present loop
    cur,                \* the accepted connection main is holding
    s_shutdown, s_reload, signals,
    slots,              \* the semaphore
    waited,             \* connector_destroy's loop counter
    taken,              \* slots connector_destroy got
    active, active_connections, online_count,
    reg,                \* session registry of each protocol
    s_shutting_down,
    lock,               \* the protocol whose registry shutdown_all has locked
    walk,               \* sessions it has yet to visit
    visit,              \* the one it has flagged and not yet woken
    th, sock, pipe,
    bytes,              \* whether a session's pipe has something to read
    shutdown_requested,
    input,              \* what a session's socket has to read
    have                \* how much of a request has been read

signalVars == <<s_shutdown, s_reload, signals>>
counts == <<active, active_connections, online_count>>
semaphore == <<slots, waited, taken>>
shutdown_all == <<s_shutting_down, lock, walk, visit>>
mainVars == <<main, listeners, todo, cur, waited, taken, shutdown_all>>
sessionVars == <<pipe, bytes, shutdown_requested, input, have>>
vars == <<main, listeners, todo, cur, signalVars, semaphore, counts,
          reg, shutdown_all, th, sock, sessionVars>>

MainPCs == {"start", "check", "select", "serve", "spawn", "create", "shut",
            "flag", "write", "drain", "destroyed", "exited"}
\* Threads that have entered and not yet left connection_run with a session.
InSession == {"register", "check", "poll", "drain", "recheck", "redraw", "recv",
              "reply", "bye", "read", "respond", "leave", "closepipe", "closesock"}
ThreadPCs == InSession \cup {"none", "entry", "run", "exit", "return", "post", "done"}

(* Type invariant. *)
TypeOK ==
    /\ main \in MainPCs
    /\ listeners \subseteq Protos /\ todo \subseteq Protos
    /\ cur \in Conn \cup {None}
    /\ s_shutdown \in BOOLEAN /\ s_reload \in BOOLEAN /\ signals \in Nat
    /\ slots \in Nat /\ waited \in 0..MaxConn /\ taken \in Nat
    /\ active \in Int /\ active_connections \in Int /\ online_count \in Int
    /\ reg \in [Protos -> SUBSET Conn]
    /\ s_shutting_down \in [Protos -> BOOLEAN]
    /\ lock \in Protos \cup {None} /\ walk \subseteq Conn /\ visit \in Conn \cup {None}
    /\ th \in [Conn -> ThreadPCs]
    /\ sock \in [Conn -> {"none", "queued", "open", "closed"}]
    /\ pipe \in [Conn -> {"none", "open", "closed"}]
    /\ bytes \in [Conn -> BOOLEAN]
    /\ shutdown_requested \in [Conn -> BOOLEAN]
    /\ input \in [Conn -> {"none", "data", "eof"}]
    /\ have \in [Conn -> 0..BufSz]

Init ==
    /\ main = "start"
    /\ listeners = {} /\ todo = {} /\ cur = None
    /\ s_shutdown = FALSE /\ s_reload = FALSE /\ signals = 0
    /\ slots = MaxConn /\ waited = 0 /\ taken = 0
    /\ active = 0 /\ active_connections = 0 /\ online_count = 0
    /\ reg = [p \in Protos |-> {}]
    /\ s_shutting_down = [p \in Protos |-> FALSE]
    /\ lock = None /\ walk = {} /\ visit = None
    /\ th = [c \in Conn |-> "none"]
    /\ sock = [c \in Conn |-> "none"]
    /\ pipe = [c \in Conn |-> "none"]
    /\ bytes = [c \in Conn |-> FALSE]
    /\ shutdown_requested = [c \in Conn |-> FALSE]
    /\ input = [c \in Conn |-> "none"]
    /\ have = [c \in Conn |-> 0]

-----------------------------------------------------------------------------
(* Clients and signals *)

Connect(c) ==
    /\ main # "exited" /\ sock[c] = "none" /\ ProtoOf[c] \in listeners
    /\ sock' = [sock EXCEPT ![c] = "queued"]
    /\ UNCHANGED <<mainVars, signalVars, slots, counts, reg, th, sessionVars>>

ClientSend(c) ==
    /\ main # "exited" /\ sock[c] \in {"queued", "open"} /\ input[c] = "none"
    /\ input' = [input EXCEPT ![c] = "data"]
    /\ UNCHANGED <<mainVars, signalVars, slots, counts, reg, th, sock,
                   pipe, bytes, shutdown_requested, have>>

ClientLeave(c) ==
    /\ main # "exited" /\ sock[c] \in {"queued", "open"} /\ input[c] # "eof"
    /\ input' = [input EXCEPT ![c] = "eof"]
    /\ UNCHANGED <<mainVars, signalVars, slots, counts, reg, th, sock,
                   pipe, bytes, shutdown_requested, have>>

\* A post in the room the session is in (module ChatBus).
Notify(c) ==
    /\ main # "exited" /\ pipe[c] = "open" /\ ~bytes[c]
    /\ th[c] \in {"check", "poll", "drain", "recheck", "redraw", "recv", "reply"}
    /\ bytes' = [bytes EXCEPT ![c] = TRUE]
    /\ UNCHANGED <<mainVars, signalVars, slots, counts, reg, th, sock,
                   pipe, shutdown_requested, input, have>>

\* The handler has run and left s_reload = r.  Blocked in select, main goes round
\* the loop, reloading if asked to; blocked in sem_wait, it returns from it and
\* does not look at the result; between system calls it notices nothing.
Deliver(r) ==
    /\ main # "exited" /\ signals < MaxSignals
    /\ signals' = signals + 1
    /\ \/ /\ main = "select"
          /\ main' = "check" /\ s_reload' = FALSE /\ waited' = waited
       \/ /\ main = "drain" /\ waited < MaxConn
          /\ waited' = waited + 1 /\ s_reload' = r /\ main' = main
       \/ s_reload' = r /\ UNCHANGED <<main, waited>>
    /\ UNCHANGED <<listeners, todo, cur, slots, taken, counts, reg,
                   shutdown_all, th, sock, sessionVars>>

SigTerm == s_shutdown' = TRUE /\ Deliver(s_reload)

SigHup == s_shutdown' = s_shutdown /\ Deliver(TRUE)

-----------------------------------------------------------------------------
(* main *)

MainOnly == UNCHANGED <<signalVars, slots, counts, reg, th, sock,
                        sessionVars>>

\* main: server_init, server_add_listener for telnet and, unless http_port is 0,
\* for HTTP.  A failure aborts the program.
Start ==
    /\ main = "start"
    /\ \/ \E l \in {{"telnet"}, Protos} : main' = "check" /\ listeners' = l
       \/ MayFail /\ main' = "exited" /\ listeners' = listeners
    /\ UNCHANGED <<todo, cur, waited, taken, shutdown_all>>
    /\ MainOnly

CheckShutdown ==
    /\ main = "check"
    /\ main' = IF s_shutdown THEN "shut" ELSE "select"
    /\ todo' = IF s_shutdown THEN listeners ELSE {}
    /\ UNCHANGED <<listeners, cur, waited, taken, shutdown_all>>
    /\ MainOnly

\* The listeners that have somebody waiting in the kernel's backlog.
Readable == {ProtoOf[c] : c \in {d \in Conn : sock[d] = "queued"}}

\* select returns them, or nothing after a second; an error other than EINTR
\* ends the loop.
Select ==
    /\ main = "select"
    /\ \/ Readable # {} /\ main' = "serve" /\ todo' = Readable
       \/ Readable = {} /\ main' = "check" /\ todo' = todo
       \/ MayFail /\ main' = "shut" /\ todo' = listeners
    /\ UNCHANGED <<listeners, cur, waited, taken, shutdown_all>>
    /\ MainOnly

Accept ==
    /\ main = "serve"
    /\ \E c \in Conn :
         /\ sock[c] = "queued" /\ ProtoOf[c] \in todo
         /\ cur' = c
         /\ sock' = [sock EXCEPT ![c] = "open"]
         /\ todo' = todo \ {ProtoOf[c]}
    /\ main' = "spawn"
    /\ UNCHANGED <<listeners, waited, taken, shutdown_all, signalVars,
                   slots, counts, reg, th, sessionVars>>

AcceptFails ==
    /\ main = "serve" /\ MayFail
    /\ \E p \in todo : todo' = todo \ {p}
    /\ UNCHANGED <<main, listeners, cur, waited, taken, shutdown_all>>
    /\ MainOnly

AllServed ==
    /\ main = "serve" /\ todo = {}
    /\ main' = "check"
    /\ UNCHANGED <<listeners, todo, cur, waited, taken, shutdown_all>>
    /\ MainOnly

\* The connection main holds is given up: closed and freed.
Drop ==
    /\ sock' = [sock EXCEPT ![cur] = "closed"]
    /\ cur' = None
    /\ main' = "serve"
    /\ UNCHANGED <<listeners, todo, waited, taken, shutdown_all, signalVars, counts, reg, th, sessionVars>>

\* Mutant: a rejected connection is freed and its socket forgotten.
RejectLeaks ==
    /\ main = "spawn"
    /\ slots = 0 \/ MayFail
    /\ cur' = None
    /\ main' = "serve"
    /\ UNCHANGED <<listeners, todo, waited, taken, shutdown_all, signalVars, slots, counts, reg, th, sock, sessionVars>>

\* connection_create fails, or sem_trywait finds no slot.
Reject ==
    /\ main = "spawn"
    /\ slots = 0 \/ MayFail
    /\ slots' = slots
    /\ Drop

\* connector_spawn: sem_trywait.
Reserve ==
    /\ main = "spawn" /\ slots > 0
    /\ slots' = slots - 1
    /\ main' = "create"
    /\ UNCHANGED <<listeners, todo, cur, waited, taken,
                   shutdown_all, signalVars, counts, reg, th, sock,
                   sessionVars>>

\* Mutant: the slot is not given back.
CreateFailsKeepsSlot ==
    /\ main = "create" /\ MayFail
    /\ slots' = slots
    /\ Drop

\* connector_spawn: malloc or pthread_create fails.
CreateFails ==
    /\ main = "create" /\ MayFail
    /\ slots' = slots + 1
    /\ Drop

\* connector_spawn: the detached thread exists.
Create ==
    /\ main = "create"
    /\ th' = [th EXCEPT ![cur] = "entry"]
    /\ cur' = None
    /\ main' = "serve"
    /\ UNCHANGED <<listeners, todo, waited, taken, shutdown_all, signalVars, slots, counts, reg, sock, sessionVars>>

\* server_destroy: the shutdown_all of each listener's protocol.  It takes the
\* registry lock, ...
ShutLock ==
    /\ main = "shut"
    /\ \E p \in todo :
         /\ lock' = p
         /\ todo' = todo \ {p}
         /\ s_shutting_down' = [s_shutting_down EXCEPT ![p] = TRUE]
         /\ walk' = reg[p]
    /\ main' = "flag"
    /\ UNCHANGED <<listeners, cur, waited, taken, visit>>
    /\ MainOnly

\* ... flags each session, ...
ShutFlag ==
    /\ main = "flag"
    /\ \E c \in walk :
         /\ visit' = c
         /\ shutdown_requested' = [shutdown_requested EXCEPT ![c] = TRUE]
    /\ main' = "write"
    /\ UNCHANGED <<listeners, todo, cur, waited, taken, s_shutting_down, lock,
                   walk, signalVars, slots, counts, reg, th, sock, pipe, bytes,
                   input, have>>

\* ... writes to its pipe, if it has one, ...
ShutWrite ==
    /\ main = "write"
    /\ bytes' = [bytes EXCEPT ![visit] = @ \/ pipe[visit] # "none"]
    /\ walk' = walk \ {visit}
    /\ visit' = None
    /\ main' = "flag"
    /\ UNCHANGED <<listeners, todo, cur, waited, taken, s_shutting_down, lock,
                   signalVars, slots, counts, reg, th, sock,
                   pipe, shutdown_requested, input, have>>

\* ... and releases the lock.
ShutUnlock ==
    /\ main = "flag" /\ walk = {}
    /\ lock' = None
    /\ main' = "shut"
    /\ UNCHANGED <<listeners, todo, cur, waited, taken, s_shutting_down, walk, visit>>
    /\ MainOnly

ShutDone ==
    /\ main = "shut" /\ todo = {}
    /\ main' = "drain"
    /\ UNCHANGED <<listeners, todo, cur, waited, taken, shutdown_all>>
    /\ MainOnly

\* connector_destroy: sem_wait for every slot, then sem_destroy.
WaitSlot ==
    /\ main = "drain" /\ waited < MaxConn /\ slots > 0
    /\ slots' = slots - 1
    /\ taken' = taken + 1
    /\ waited' = waited + 1
    /\ UNCHANGED <<main, listeners, todo, cur, shutdown_all,
                   signalVars, counts, reg, th, sock, sessionVars>>

\* Mutant: connector_destroy waits for the active threads only.
DestroyIdle ==
    /\ main = "drain" /\ active = 0
    /\ main' = "destroyed"
    /\ UNCHANGED <<listeners, todo, cur, waited, taken, shutdown_all>>
    /\ MainOnly

Destroy ==
    /\ main = "drain" /\ waited = MaxConn
    /\ main' = "destroyed"
    /\ UNCHANGED <<listeners, todo, cur, waited, taken, shutdown_all>>
    /\ MainOnly

\* The listeners are closed and main returns: the process is gone.
Exit ==
    /\ main = "destroyed"
    /\ main' = "exited"
    /\ listeners' = {}
    /\ UNCHANGED <<todo, cur, waited, taken, shutdown_all>>
    /\ MainOnly

-----------------------------------------------------------------------------
(* Connection threads *)

At(c, l) == main # "exited" /\ th[c] = l
Goto(c, l) == th' = [th EXCEPT ![c] = l]
Telnet(c) == ProtoOf[c] = "telnet"

\* A step that changes the thread's control state and nothing others see.
Quiet == UNCHANGED <<mainVars, signalVars, slots, counts, reg, sock,
                     sessionVars>>

\* A blocking send returns: the client reads, or is gone.
CanSend(c) == c \notin Stalled \/ input[c] = "eof"

\* thread_entry, up to its call of connection_run.
Enter(c) ==
    /\ At(c, "entry")
    /\ active' = active + 1
    /\ Goto(c, "run")
    /\ UNCHANGED <<mainVars, signalVars, slots, active_connections, online_count,
                   reg, sock, sessionVars>>

\* Mutant: connections are counted once they have a session.
RunCountsLate(c) ==
    /\ At(c, "run")
    /\ \/ /\ pipe' = [pipe EXCEPT ![c] = "open"]
          /\ active_connections' = active_connections + 1
          /\ sock' = sock
          /\ Goto(c, "register")
       \/ /\ MayFail
          /\ sock' = [sock EXCEPT ![c] = "closed"]
          /\ UNCHANGED <<pipe, active_connections>>
          /\ Goto(c, "exit")
    /\ UNCHANGED <<mainVars, signalVars, slots, active, online_count, reg,
                   bytes, shutdown_requested, input, have>>

\* connection_run up to create_session, which may fail; so may its pipe2, and
\* then the session does without.
Run(c) ==
    /\ At(c, "run")
    /\ active_connections' = active_connections + 1
    /\ \/ /\ pipe' = [pipe EXCEPT ![c] = "open"]
          /\ sock' = sock
          /\ Goto(c, "register")
       \/ /\ MayFail
          /\ UNCHANGED <<pipe, sock>>
          /\ Goto(c, "register")
       \/ /\ MayFail
          /\ sock' = [sock EXCEPT ![c] = "closed"]
          /\ pipe' = pipe
          /\ Goto(c, "exit")
    /\ UNCHANGED <<mainVars, signalVars, slots, active, online_count, reg,
                   bytes, shutdown_requested, input, have>>

\* Mutant: a late session is not told of the shutdown.
RegisterUntold(c) ==
    /\ At(c, "register") /\ lock # ProtoOf[c]
    /\ online_count' = IF Telnet(c) THEN online_count + 1 ELSE online_count
    /\ reg' = [reg EXCEPT ![ProtoOf[c]] = @ \cup {c}]
    /\ Goto(c, IF Telnet(c) THEN "check" ELSE "read")
    /\ UNCHANGED <<mainVars, signalVars, slots, active,
                   active_connections, sock, sessionVars>>

Register(c) ==
    /\ At(c, "register") /\ lock # ProtoOf[c]
    /\ online_count' = IF Telnet(c) THEN online_count + 1 ELSE online_count
    /\ reg' = [reg EXCEPT ![ProtoOf[c]] = @ \cup {c}]
    /\ shutdown_requested' =
          [shutdown_requested EXCEPT ![c] = @ \/ s_shutting_down[ProtoOf[c]]]
    /\ Goto(c, IF Telnet(c) THEN "check" ELSE "read")
    /\ UNCHANGED <<mainVars, signalVars, slots, active,
                   active_connections, sock, pipe, bytes, input, have>>

\* The top of the telnet loop, and of http_conn_wait.
Check(c) ==
    /\ At(c, "check")
    /\ Goto(c, IF shutdown_requested[c] THEN "leave" ELSE "poll")
    /\ Quiet

\* poll times out with nothing to read: the end of the negotiation or of the
\* session (telnet), a keepalive (SSE).
PollTimeout(c) ==
    /\ At(c, "poll") /\ ~bytes[c] /\ input[c] = "none"
    /\ Goto(c, "reply") \/ (Telnet(c) /\ Goto(c, "bye"))
    /\ Quiet

\* poll finds the pipe readable, or only the socket.
PollWake(c) ==
    /\ At(c, "poll")
    /\ \/ bytes[c] /\ Goto(c, "drain")
       \/ ~bytes[c] /\ input[c] # "none" /\ Goto(c, "recv")
    /\ Quiet

Drain(c) ==
    /\ At(c, "drain")
    /\ bytes' = [bytes EXCEPT ![c] = FALSE]
    /\ Goto(c, "recheck")
    /\ UNCHANGED <<mainVars, signalVars, slots, counts, reg, sock,
                   pipe, shutdown_requested, input, have>>

Recheck(c) ==
    /\ At(c, "recheck")
    /\ Goto(c, IF shutdown_requested[c] THEN "leave" ELSE "redraw")
    /\ Quiet

\* on_notify redraws a telnet screen; the socket is read next if poll had found
\* it readable too.  An SSE stream gets the new messages, or turns out broken.
Redraw(c) ==
    /\ At(c, "redraw") /\ CanSend(c)
    /\ \/ Goto(c, "check")
       \/ Telnet(c) /\ input[c] # "none" /\ Goto(c, "recv")
       \/ ~Telnet(c) /\ input[c] = "eof" /\ Goto(c, "leave")
    /\ Quiet

\* Keys, which may end the session; stray bytes on a stream; a closed socket.
Recv(c) ==
    /\ At(c, "recv")
    /\ \/ /\ input[c] = "data"
          /\ input' = [input EXCEPT ![c] = "none"]
          /\ Goto(c, "reply") \/ (Telnet(c) /\ Goto(c, "bye"))
       \/ /\ input[c] = "eof"
          /\ input' = input
          /\ Goto(c, "leave")
    /\ UNCHANGED <<mainVars, signalVars, slots, counts, reg, sock,
                   pipe, bytes, shutdown_requested, have>>

Reply(c) ==
    /\ At(c, "reply") /\ CanSend(c)
    /\ \/ Goto(c, "check")
       \/ ~Telnet(c) /\ input[c] = "eof" /\ Goto(c, "leave")
    /\ Quiet

\* act_close says goodbye.
Bye(c) ==
    /\ At(c, "bye") /\ CanSend(c)
    /\ Goto(c, "leave")
    /\ Quiet

\* Mutant: no 413.
ReadRequestForever(c) ==
    /\ At(c, "read")
    /\ \/ /\ input[c] = "data"
          /\ input' = [input EXCEPT ![c] = "none"]
          /\ have' = [have EXCEPT ![c] = @ + 1]
          /\ \E l \in {"respond", "reply", "read"} : Goto(c, l)
       \/ /\ input[c] = "eof"
          /\ UNCHANGED <<input, have>>
          /\ Goto(c, "leave")
    /\ UNCHANGED <<mainVars, signalVars, slots, counts, reg, sock,
                   pipe, bytes, shutdown_requested>>

\* read_request: more bytes make the request complete (dispatched, perhaps to a
\* stream), malformed (400), too long (413), or leave it unfinished.
ReadRequest(c) ==
    /\ At(c, "read")
    /\ \/ /\ input[c] = "data"
          /\ input' = [input EXCEPT ![c] = "none"]
          /\ have' = [have EXCEPT ![c] = @ + 1]
          /\ \E l \in {"respond", "reply"} \cup
                      (IF have[c] + 1 < BufSz THEN {"read"} ELSE {}) : Goto(c, l)
       \/ /\ input[c] = "eof"
          /\ UNCHANGED <<input, have>>
          /\ Goto(c, "leave")
    /\ UNCHANGED <<mainVars, signalVars, slots, counts, reg, sock,
                   pipe, bytes, shutdown_requested>>

\* read_request waits HTTP_READ_TIMEOUT for the client: 408.
ReadTimeout(c) ==
    /\ At(c, "read") /\ input[c] = "none"
    /\ Goto(c, "respond")
    /\ Quiet

Respond(c) ==
    /\ At(c, "respond") /\ CanSend(c)
    /\ Goto(c, "leave")
    /\ Quiet

\* Mutant: the registry lock is not taken.
UnregisterUnlocked(c) ==
    /\ At(c, "leave")
    /\ reg' = [reg EXCEPT ![ProtoOf[c]] = @ \ {c}]
    /\ Goto(c, "closepipe")
    /\ UNCHANGED <<mainVars, signalVars, slots, counts, sock,
                   sessionVars>>

Unregister(c) ==
    /\ At(c, "leave") /\ lock # ProtoOf[c]
    /\ reg' = [reg EXCEPT ![ProtoOf[c]] = @ \ {c}]
    /\ Goto(c, "closepipe")
    /\ UNCHANGED <<mainVars, signalVars, slots, counts, sock,
                   sessionVars>>

ClosePipe(c) ==
    /\ At(c, "closepipe")
    /\ pipe' = [pipe EXCEPT ![c] = IF @ = "open" THEN "closed" ELSE @]
    /\ Goto(c, "closesock")
    /\ UNCHANGED <<mainVars, signalVars, slots, counts, reg, sock,
                   bytes, shutdown_requested, input, have>>

\* close, or close_graceful, whose wait is bounded.
CloseSock(c) ==
    /\ At(c, "closesock")
    /\ online_count' = IF Telnet(c) THEN online_count - 1 ELSE online_count
    /\ sock' = [sock EXCEPT ![c] = "closed"]
    /\ Goto(c, "exit")
    /\ UNCHANGED <<mainVars, signalVars, slots, active,
                   active_connections, reg, sessionVars>>

\* The end of connection_run.
Leave(c) ==
    /\ At(c, "exit")
    /\ active_connections' = active_connections - 1
    /\ Goto(c, "return")
    /\ UNCHANGED <<mainVars, signalVars, slots, active, online_count, reg, sock,
                   sessionVars>>

\* thread_entry, after fn(arg).
Return(c) ==
    /\ At(c, "return")
    /\ active' = active - 1
    /\ Goto(c, "post")
    /\ UNCHANGED <<mainVars, signalVars, slots, active_connections, online_count,
                   reg, sock, sessionVars>>

\* Mutant: the thread ends without sem_post.
PostNothing(c) ==
    /\ At(c, "post")
    /\ Goto(c, "done")
    /\ Quiet

\* thread_entry: sem_post.
Post(c) ==
    /\ At(c, "post")
    /\ slots' = slots + 1
    /\ Goto(c, "done")
    /\ UNCHANGED <<mainVars, signalVars, counts, reg, sock,
                   sessionVars>>

-----------------------------------------------------------------------------
Environment ==
    \/ SigTerm \/ SigHup
    \/ \E c \in Conn : Connect(c) \/ ClientSend(c) \/ ClientLeave(c) \/ Notify(c)

MainStep ==
    \/ Start \/ CheckShutdown \/ Select \/ Accept \/ AcceptFails \/ AllServed
    \/ Reject \/ Reserve \/ CreateFails \/ Create
    \/ ShutLock \/ ShutFlag \/ ShutWrite \/ ShutUnlock \/ ShutDone
    \/ WaitSlot \/ Destroy \/ Exit

\* What a thread does without waiting for the clock.
Prompt(c) ==
    \/ Enter(c) \/ Run(c) \/ Register(c) \/ Check(c) \/ PollWake(c) \/ Drain(c)
    \/ Recheck(c) \/ Redraw(c) \/ Recv(c) \/ Reply(c) \/ Bye(c)
    \/ ReadRequest(c) \/ Respond(c)
    \/ Unregister(c) \/ ClosePipe(c) \/ CloseSock(c)
    \/ Leave(c) \/ Return(c) \/ Post(c)

Timeout(c) == PollTimeout(c) \/ ReadTimeout(c)

Next ==
    \/ Environment \/ MainStep
    \/ \E c \in Conn : Prompt(c) \/ Timeout(c)

Spec == Init /\ [][Next]_vars

\* Threads run; clients, signals and the sessions' timeouts may never come.
FairSpec == Spec /\ WF_vars(MainStep) /\ \A c \in Conn : WF_vars(Prompt(c))

-----------------------------------------------------------------------------
(* Properties *)

\* Threads between pthread_create and sem_post, and what main has out in addition.
Holders == {c \in Conn : th[c] \in InSession \cup {"entry", "run", "exit", "return", "post"}}
Reserved == IF main = "create" THEN 1 ELSE 0

\* Threads inside fn, inside connection_run, and those that serve a telnet session.
Active == {c \in Conn : th[c] \in InSession \cup {"run", "exit", "return"}}
Inside == {c \in Conn : th[c] \in InSession \cup {"exit"}}
Online == {c \in Conn : Telnet(c) /\ th[c] \in InSession \ {"register"}}

(***************************************************************************)
(* Every slot is free, held by one thread, held by main for a thread it is *)
(* about to create, or was taken back by connector_destroy: none is lost   *)
(* on an error path of connector_spawn or returned twice, so there are     *)
(* never more than max_connections threads and the drain can complete.     *)
(***************************************************************************)
SlotAccount == slots + Cardinality(Holders) + Reserved + taken = MaxConn

(***************************************************************************)
(* The statistics are right whatever threads come and go: active counts    *)
(* the threads between thread_entry's two updates, active_connections those *)
(* between connection_run's, online_count the telnet sessions.  So none of *)
(* the unsigned counters wraps below zero, and active_connections, which   *)
(* the log reports, is never more than active.                             *)
(***************************************************************************)
CountersExact ==
    /\ active = Cardinality(Active)
    /\ active_connections = Cardinality(Inside)
    /\ online_count = Cardinality(Online)

(***************************************************************************)
(* An accepted socket is open exactly as long as somebody owns it, main or *)
(* the connection's thread, never both: no error path between accept and   *)
(* the session leaks it or closes it under the other.                      *)
(***************************************************************************)
SocketOwned ==
    \A c \in Conn :
        /\ sock[c] = "open" <=> (cur = c \/ th[c] \in InSession \cup {"entry", "run"})
        /\ cur = c => th[c] = "none"

\* A session between session_register and session_unregister, its pipe not closed.
Registered == InSession \ {"register", "closepipe", "closesock"}
Wakeable(c) == th[c] \in Registered /\ pipe[c] # "closed"

(***************************************************************************)
(* "Sessions register at loop start and unregister before closing their    *)
(* notify pipe, so shutdown_all never writes to a closed fd": whatever     *)
(* shutdown_all still has to visit is a live session with its pipe open,   *)
(* although sessions end on their own all the while.                       *)
(***************************************************************************)
RegistryLive ==
    /\ \A p \in Protos : \A c \in reg[p] : ProtoOf[c] = p /\ Wakeable(c)
    /\ main = "write" => visit \in Conn /\ Wakeable(visit)

(***************************************************************************)
(* Shutdown misses nobody: once shutdown_all of a protocol is through,     *)
(* every session in its registry is flagged, those that registered later   *)
(* included, and one that sleeps in poll on its pipe has a byte there to   *)
(* wake it, although wake-ups of chat posts are drained from the same pipe. *)
(***************************************************************************)
ShutdownHeard ==
    \A p \in Protos : s_shutting_down[p] /\ lock # p =>
        \A c \in reg[p] :
            /\ shutdown_requested[c]
            /\ th[c] = "poll" /\ pipe[c] = "open" => bytes[c]

(***************************************************************************)
(* connector.h: connector_destroy "Blocks until every spawned thread has   *)
(* returned its slot": no thread runs once the semaphore is destroyed ...  *)
(***************************************************************************)
DestroyWaits == main \in {"destroyed", "exited"} => Holders = {}

(***************************************************************************)
(* ... which holds provided that no signal interrupts one of its sem_waits *)
(* (waited counts the calls, taken those that got a slot); of the calls    *)
(* that fail, each lets at most one thread slip through.                   *)
(***************************************************************************)
DrainComplete ==
    main \in {"destroyed", "exited"} => Cardinality(Holders) <= waited - taken

\* Waiting for a request (the pipe is not polled there), or in a blocking send.
HeldUp(c) ==
    \/ th[c] = "read" /\ input[c] = "none"
    \/ th[c] \in {"redraw", "reply", "bye", "respond"} /\ ~CanSend(c)

(***************************************************************************)
(* What the code achieves of ARCHITECTURE.md, 2 ("a SIGTERM completes in    *)
(* milliseconds instead of waiting out idle timeouts"): after a SIGTERM    *)
(* the process ends, no timeout of a session having to expire, unless some *)
(* thread is held up for good in read_request or in a send.  In particular *)
(* no session sleeps through its wake-up and connector_destroy gets every  *)
(* slot back.                                                              *)
(***************************************************************************)
ShutdownUnlessHeld ==
    <>s_shutdown => <>(main = "exited") \/ <>[](\E c \in Conn : HeldUp(c))

-----------------------------------------------------------------------------
(* The inductive invariant behind the safety properties *)

\* What main holds, and which part of shutdown_all it is in.
MainHolds ==
    /\ main \in {"spawn", "create"} <=> cur # None
    /\ main \in {"flag", "write"} <=> lock # None
    /\ main = "write" <=> visit # None
    /\ main = "start" => listeners = {} /\ \A c \in Conn : sock[c] = "none"
    /\ visit # None => visit \in walk /\ shutdown_requested[visit]
    /\ \A c \in walk : lock # None /\ c \in reg[lock]
    /\ taken <= waited
    /\ main \in {"destroyed", "exited"} =>
         waited = MaxConn \/ \A c \in Conn : th[c] \in {"none", "done"}

\* A connection that main has not accepted has no thread; a thread that still
\* reads a request has room for more of it.
NotYet ==
    \A c \in Conn :
        /\ sock[c] \in {"none", "queued"} => th[c] = "none" /\ cur # c
        /\ th[c] \in {"none", "entry", "run", "register", "read"} => have[c] < BufSz

\* The registry holds exactly the sessions between registration and its end.
RegistryExact ==
    /\ \A p \in Protos, c \in Conn :
         c \in reg[p] <=> ProtoOf[c] = p /\ th[c] \in Registered
    /\ \A c \in Conn : pipe[c] = "closed" => th[c] \in {"closesock", "exit", "return", "post", "done"}

\* ShutdownHeard, from the moment the walk of shutdown_all has passed a session.
Passed ==
    \A p \in Protos : \A c \in reg[p] :
        s_shutting_down[p] /\ (lock # p \/ c \notin walk) =>
            /\ shutdown_requested[c]
            /\ th[c] = "poll" /\ pipe[c] = "open" => bytes[c]

StateInv == TypeOK /\ MainHolds /\ NotYet /\ SocketOwned /\ RegistryExact /\ Passed

CountInv == SlotAccount /\ CountersExact

ServerInv == StateInv /\ CountInv
=============================================================================
