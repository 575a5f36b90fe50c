---------------------------- MODULE ServerProofs ----------------------------
(***************************************************************************)
(* The safety properties of Server, for any number of connections and      *)
(* slots, any choice of stalled clients and with every failure.            *)
(***************************************************************************)
EXTENDS Server, FiniteSetTheorems, TLAPS

\* Where a thread is, in terms of the sets of labels.
LEMMA Labels ==
    /\ Registered \subseteq InSession /\ InSession \subseteq ThreadPCs
    /\ {"none", "entry", "run", "exit", "return", "post", "done"} \subseteq ThreadPCs \ InSession
    /\ {"check", "read", "leave"} \subseteq Registered
    /\ {"register", "closepipe", "closesock"} \subseteq InSession \ Registered
    /\ {"none", "entry", "run", "exit", "return", "post", "done", "poll"}
          \cap {"register", "closepipe", "closesock", "read", "check", "leave"} = {}
  BY Zenon DEF Registered, InSession, ThreadPCs

\* A session in its loop goes on to l; it does not go to sleep with
\* shutdown_requested set, nor on to read with its buffer full.
Moves(c, l) ==
    /\ th[c] \in Registered /\ th' = [th EXCEPT ![c] = l]
    /\ l = "poll" => ~shutdown_requested[c]
    /\ l = "read" => have'[c] < BufSz
    /\ UNCHANGED <<mainVars, signalVars, slots, counts, reg, sock, pipe, shutdown_requested>>
    /\ bytes' \in [Conn -> BOOLEAN] /\ \A d \in Conn : d # c => bytes'[d] = bytes[d]
    /\ input' \in [Conn -> {"none", "data", "eof"}]
    /\ have' \in [Conn -> 0..BufSz] /\ \A d \in Conn : d # c => have'[d] = have[d]

\* Such a move keeps all that the others rely on.
LEMMA SessionMove ==
    ASSUME StateInv, NEW c \in Conn, NEW l \in Registered, Moves(c, l)
    PROVE  StateInv'
<1> USE ServerAssumption DEF Moves, StateInv, Registered, InSession, mainVars, shutdown_all, signalVars, counts
<1>0. th \in [Conn -> ThreadPCs] /\ l \in ThreadPCs
  BY Zenon DEF TypeOK, ThreadPCs
<1>1. TypeOK'
  BY <1>0, Zenon DEF TypeOK
<1>2. MainHolds'
  BY <1>0, Zenon DEF MainHolds, TypeOK
<1>3. NotYet'
  BY <1>0, Zenon DEF NotYet
<1>4. SocketOwned'
  BY <1>0 DEF SocketOwned
<1>5. RegistryExact'
  BY <1>0 DEF RegistryExact
<1>6. Passed'
  <2> SUFFICES ASSUME NEW p \in Protos, NEW d \in reg[p], s_shutting_down[p], lock # p \/ d \notin walk
               PROVE  shutdown_requested[d] /\ (th'[d] = "poll" /\ pipe[d] = "open" => bytes'[d])
    BY DEF Passed
  <2>1. d \in Conn
    BY Zenon DEF TypeOK
  <2>2. shutdown_requested[d] /\ (th[d] = "poll" /\ pipe[d] = "open" => bytes[d])
    BY Zenon DEF Passed
  <2> QED
    BY <1>0, <2>1, <2>2, Zenon
<1> QED
  BY <1>1, <1>2, <1>3, <1>4, <1>5, <1>6, Zenon

\* Every step of the loops of both protocols is such a move.
LEMMA SessionMoves ==
    ASSUME StateInv, NEW c \in Conn,
           \/ Check(c) \/ PollWake(c) \/ Drain(c) \/ Recheck(c) \/ Redraw(c) \/ Recv(c)
           \/ Reply(c) \/ Bye(c) \/ ReadRequest(c) \/ Respond(c) \/ PollTimeout(c) \/ ReadTimeout(c)
    PROVE  \E l \in Registered : Moves(c, l)
<1>0. /\ th \in [Conn -> ThreadPCs] /\ bytes \in [Conn -> BOOLEAN]
      /\ input \in [Conn -> {"none", "data", "eof"}] /\ have \in [Conn -> 0..BufSz]
      /\ th[c] = "read" => have[c] < BufSz
  BY Zenon DEF StateInv, TypeOK, NotYet
<1>s. {"check", "poll", "drain", "recheck", "redraw", "recv", "reply", "bye", "read", "respond", "leave"}
         \subseteq Registered
  BY Zenon DEF Registered, InSession
<1> USE <1>0, <1>s, ServerAssumption DEF At, Goto, Quiet, sessionVars
<1>1. CASE Check(c)
  <2>1. Moves(c, "leave") \/ Moves(c, "poll")
    BY <1>1, Zenon DEF Check, Moves
  <2> QED
    BY <2>1, Zenon
<1>2. CASE PollWake(c)
  <2>1. Moves(c, "drain") \/ Moves(c, "recv")
    BY <1>2, Zenon DEF PollWake, Moves
  <2> QED
    BY <2>1, Zenon
<1>3. CASE Drain(c)
  <2>1. Moves(c, "recheck")
    BY <1>3, Zenon DEF Drain, Moves
  <2> QED
    BY <2>1, Zenon
<1>4. CASE Recheck(c)
  <2>1. Moves(c, "leave") \/ Moves(c, "redraw")
    BY <1>4, Zenon DEF Recheck, Moves
  <2> QED
    BY <2>1, Zenon
<1>5. CASE Redraw(c)
  <2>1. Moves(c, "check") \/ Moves(c, "recv") \/ Moves(c, "leave")
    BY <1>5, Zenon DEF Redraw, Moves
  <2> QED
    BY <2>1, Zenon
<1>6. CASE Recv(c)
  <2>1. Moves(c, "reply") \/ Moves(c, "bye") \/ Moves(c, "leave")
    BY <1>6, Zenon DEF Recv, Moves
  <2> QED
    BY <2>1, Zenon
<1>7. CASE Reply(c)
  <2>1. Moves(c, "check") \/ Moves(c, "leave")
    BY <1>7, Zenon DEF Reply, Moves
  <2> QED
    BY <2>1, Zenon
<1>8. CASE Bye(c)
  <2>1. Moves(c, "leave")
    BY <1>8, Zenon DEF Bye, Moves
  <2> QED
    BY <2>1, Zenon
<1>9. CASE ReadRequest(c)
  <2>1. \E l \in {"respond", "reply", "read", "leave"} : Moves(c, l)
    BY <1>9 DEF ReadRequest, Moves
  <2> QED
    BY <2>1, Zenon
<1>10. CASE Respond(c)
  <2>1. Moves(c, "leave")
    BY <1>10, Zenon DEF Respond, Moves
  <2> QED
    BY <2>1, Zenon
<1>11. CASE PollTimeout(c)
  <2>1. Moves(c, "reply") \/ Moves(c, "bye")
    BY <1>11, Zenon DEF PollTimeout, Moves
  <2> QED
    BY <2>1, Zenon
<1>12. CASE ReadTimeout(c)
  <2>1. Moves(c, "respond")
    BY <1>12, Zenon DEF ReadTimeout, Moves
  <2> QED
    BY <2>1, Zenon
<1> QED
  BY <1>1, <1>2, <1>3, <1>4, <1>5, <1>6, <1>7, <1>8, <1>9, <1>10, <1>11, <1>12, Zenon

\* A thread outside the registry goes on to l; the socket is closed when l is
\* "exit", and its session is not begun again.
Passes(c, l) ==
    /\ <<th[c], l>> \in {<<"entry", "run">>, <<"run", "register">>, <<"run", "exit">>,
                         <<"closepipe", "closesock">>, <<"closesock", "exit">>,
                         <<"exit", "return">>, <<"return", "post">>, <<"post", "done">>}
    /\ th' = [th EXCEPT ![c] = l]
    /\ sock' = IF l = "exit" THEN [sock EXCEPT ![c] = "closed"] ELSE sock
    /\ pipe' \in [Conn -> {"none", "open", "closed"}] /\ \A d \in Conn : d # c => pipe'[d] = pipe[d]
    /\ pipe'[c] = "closed" => pipe[c] = "closed" \/ l = "closesock"
    /\ slots' \in Nat /\ active' \in Int /\ active_connections' \in Int /\ online_count' \in Int
    /\ UNCHANGED <<mainVars, signalVars, reg, bytes, shutdown_requested, input, have>>

\* Such a move keeps all that the others rely on.
LEMMA OutsideMove ==
    ASSUME StateInv, NEW c \in Conn, NEW l, Passes(c, l)
    PROVE  StateInv'
<1>0. TypeOK /\ MainHolds /\ NotYet /\ SocketOwned /\ RegistryExact /\ Passed
  BY Zenon DEF StateInv
<1>1. /\ th[c] \in {"entry", "run", "closepipe", "closesock", "exit", "return", "post"}
      /\ l \in {"run", "register", "closesock", "exit", "return", "post", "done"}
      /\ l \in {"run", "register"} => th[c] \in {"entry", "run"}
      /\ l \in {"return", "post", "done"} <=> th[c] \in {"exit", "return", "post"}
  BY Zenon DEF Passes
<1>2. th \in [Conn -> ThreadPCs] /\ l \in ThreadPCs
  BY <1>0, <1>1, Labels, Zenon DEF TypeOK
<1>3. th' \in [Conn -> ThreadPCs] /\ th'[c] = l /\ \A d \in Conn : d # c => th'[d] = th[d]
  BY <1>2, Zenon DEF Passes
<1>4. sock \in [Conn -> {"none", "queued", "open", "closed"}]
  BY <1>0, Zenon DEF TypeOK
<1>5. /\ sock' \in [Conn -> {"none", "queued", "open", "closed"}]
      /\ \A d \in Conn : d # c => sock'[d] = sock[d]
      /\ sock'[c] = IF l = "exit" THEN "closed" ELSE sock[c]
  BY <1>4, Zenon DEF Passes
<1>6. th[c] \notin Registered /\ l \notin Registered /\ (th[c] \in InSession \cup {"entry", "run"} <=> th[c] \notin {"exit", "return", "post"})
      /\ (l \in InSession \cup {"entry", "run"} <=> l \in {"run", "register", "closesock"})
  BY <1>1, Labels, Zenon DEF Registered, InSession
<1>7. UNCHANGED <<main, listeners, todo, cur, waited, taken, s_shutting_down, lock, walk, visit,
                  s_shutdown, s_reload, signals, reg, bytes, shutdown_requested, input, have>>
  BY Zenon DEF Passes, mainVars, shutdown_all, signalVars
<1>8. \A p \in Protos : reg[p] \subseteq Conn /\ c \notin reg[p]
  BY <1>0, <1>6, Zenon DEF TypeOK, RegistryExact
<1>9. TypeOK'
  BY <1>0, <1>3, <1>5, <1>7, Zenon DEF TypeOK, Passes
<1>10. MainHolds'
  <2>1. sock[c] # "none" /\ th[c] \notin {"none", "done"}
    BY <1>0, <1>1, Zenon DEF NotYet
  <2> QED
    BY <1>0, <1>7, <2>1, Zenon DEF MainHolds
<1>11. NotYet'
  BY <1>0, <1>1, <1>3, <1>5, <1>7, Zenon DEF NotYet
<1>12. SocketOwned'
  BY <1>0, <1>1, <1>3, <1>5, <1>6, <1>7, SMTT(30) DEF SocketOwned
<1>13. RegistryExact'
  <2>1. pipe[c] = "closed" => th[c] \in {"closesock", "exit", "return", "post", "done"}
    BY <1>0, Zenon DEF RegistryExact
  <2>2. pipe'[c] = "closed" => l \in {"closesock", "exit", "return", "post", "done"}
    BY <1>1, <2>1, Zenon DEF Passes
  <2>3. \A d \in Conn : d # c => pipe'[d] = pipe[d]
    BY Zenon DEF Passes
  <2> QED
    BY <1>0, <1>3, <1>6, <1>7, <2>2, <2>3, SMTT(30) DEF RegistryExact
<1>14. Passed'
  <2>1. \A d \in Conn : d # c => pipe'[d] = pipe[d]
    BY Zenon DEF Passes
  <2> QED
    BY <1>0, <1>3, <1>7, <1>8, <2>1 DEF Passed
<1> QED
  BY <1>9, <1>10, <1>11, <1>12, <1>13, <1>14, Zenon DEF StateInv

\* A step of main that leaves the connections and the registries alone.
LEMMA ConnectionsKept ==
    ASSUME StateInv, UNCHANGED <<cur, reg, shutdown_all, th, sock, sessionVars>>
    PROVE  NotYet' /\ SocketOwned' /\ RegistryExact' /\ Passed'
<1> USE DEF StateInv, shutdown_all, sessionVars
<1>1. NotYet' /\ SocketOwned'
  BY Zenon DEF NotYet, SocketOwned
<1>2. RegistryExact' /\ Passed'
  BY DEF RegistryExact, Passed
<1> QED
  BY <1>1, <1>2, Zenon

\* Every kind of step preserves StateInv: signals, ...
LEMMA SignalKeeps ==
    ASSUME StateInv, SigTerm \/ SigHup
    PROVE  StateInv'
<1> USE ServerAssumption DEF StateInv, mainVars, shutdown_all, signalVars, counts, sessionVars
<1>1. CASE SigTerm
  <2>1. UNCHANGED <<listeners, todo, cur, slots, taken, counts, reg, shutdown_all, th, sock, sessionVars>>
    BY <1>1, Zenon DEF SigTerm, Deliver
  <2>2. main' = main \/ (main = "select" /\ main' = "check")
    BY <1>1, Zenon DEF SigTerm, Deliver
  <2>3. waited' \in {waited, waited + 1} /\ waited' \in 0..MaxConn /\ signals' \in Nat
    BY <1>1 DEF SigTerm, Deliver, TypeOK
  <2>4. waited' # waited => main = "drain"
    BY <1>1, Zenon DEF SigTerm, Deliver
  <2>5. s_shutdown' \in BOOLEAN /\ s_reload' \in BOOLEAN
    BY <1>1, Zenon DEF SigTerm, Deliver, TypeOK
  <2>6. TypeOK'
    BY <2>1, <2>2, <2>3, <2>4, <2>5 DEF TypeOK, MainPCs, Protos
  <2>7. MainHolds'
    BY <2>1, <2>2, <2>3, <2>4, <2>5 DEF MainHolds, TypeOK
  <2>8. NotYet' /\ SocketOwned' /\ RegistryExact' /\ Passed'
    BY <2>1, <2>2, <2>3, <2>4, <2>5, ConnectionsKept, Zenon
  <2> QED
    BY <2>6, <2>7, <2>8, Zenon
<1>2. CASE SigHup
  <2>1. UNCHANGED <<listeners, todo, cur, slots, taken, counts, reg, shutdown_all, th, sock, sessionVars>>
    BY <1>2, Zenon DEF SigHup, Deliver
  <2>2. main' = main \/ (main = "select" /\ main' = "check")
    BY <1>2, Zenon DEF SigHup, Deliver
  <2>3. waited' \in {waited, waited + 1} /\ waited' \in 0..MaxConn /\ signals' \in Nat
    BY <1>2 DEF SigHup, Deliver, TypeOK
  <2>4. waited' # waited => main = "drain"
    BY <1>2, Zenon DEF SigHup, Deliver
  <2>5. s_shutdown' \in BOOLEAN /\ s_reload' \in BOOLEAN
    BY <1>2, Zenon DEF SigHup, Deliver, TypeOK
  <2>6. TypeOK'
    BY <2>1, <2>2, <2>3, <2>4, <2>5, Zenon DEF TypeOK, MainPCs, Protos
  <2>7. MainHolds'
    BY <2>1, <2>2, <2>3, <2>4, <2>5 DEF MainHolds, TypeOK
  <2>8. NotYet' /\ SocketOwned' /\ RegistryExact' /\ Passed'
    BY <2>1, <2>2, <2>3, <2>4, <2>5, ConnectionsKept, Zenon
  <2> QED
    BY <2>6, <2>7, <2>8, Zenon
<1> QED
  BY <1>1, <1>2, Zenon

\* ... main up to select, ...
LEMMA LoopKeeps ==
    ASSUME StateInv, Start \/ CheckShutdown \/ Select
    PROVE  StateInv'
<1> USE ServerAssumption DEF StateInv, mainVars, shutdown_all, signalVars, counts, sessionVars
<1>1. CASE Start
  <2>1. TypeOK'
    <3>0. main' \in {"check", "exited"} /\ listeners' \in {{"telnet"}, Protos, listeners}
      BY <1>1, Zenon DEF Start
    <3>1. main' \in MainPCs /\ listeners' \subseteq Protos
      BY <3>0, Zenon DEF MainPCs, Protos, TypeOK
    <3> QED
      BY <1>1, <3>1, Zenon DEF Start, MainOnly, TypeOK
  <2>2. MainHolds'
    BY <1>1, Zenon DEF Start, MainOnly, MainHolds, TypeOK, NotYet, Protos
  <2>3. NotYet' /\ SocketOwned' /\ RegistryExact' /\ Passed'
    BY <1>1, ConnectionsKept, Zenon DEF Start, MainOnly
  <2> QED
    BY <2>1, <2>2, <2>3, Zenon
<1>2. CASE CheckShutdown
  <2>1. TypeOK'
    BY <1>2, Zenon DEF CheckShutdown, MainOnly, TypeOK, MainPCs, Protos
  <2>2. MainHolds'
    BY <1>2, Zenon DEF CheckShutdown, MainOnly, MainHolds, TypeOK
  <2>3. NotYet' /\ SocketOwned' /\ RegistryExact' /\ Passed'
    BY <1>2, ConnectionsKept, Zenon DEF CheckShutdown, MainOnly
  <2> QED
    BY <2>1, <2>2, <2>3, Zenon
<1>3. CASE Select
  <2>1. TypeOK'
    <3>1. main' \in MainPCs /\ todo' \subseteq Protos
      BY <1>3 DEF Select, Readable, MainPCs, TypeOK
    <3> QED
      BY <1>3, <3>1, Zenon DEF Select, MainOnly, TypeOK
  <2>2. MainHolds'
    BY <1>3, Zenon DEF Select, MainOnly, MainHolds, TypeOK
  <2>3. NotYet' /\ SocketOwned' /\ RegistryExact' /\ Passed'
    BY <1>3, ConnectionsKept, Zenon DEF Select, MainOnly
  <2> QED
    BY <2>1, <2>2, <2>3, Zenon
<1> QED
  BY <1>1, <1>2, <1>3, Zenon

\* ... the accept loop, ...
LEMMA AcceptKeeps ==
    ASSUME StateInv, Accept \/ AcceptFails \/ AllServed
    PROVE  StateInv'
<1> USE ServerAssumption DEF StateInv, mainVars, shutdown_all, signalVars, counts, sessionVars
<1>1. CASE Accept
  <2> PICK c \in Conn :
         /\ sock[c] = "queued" /\ ProtoOf[c] \in todo
         /\ cur' = c
         /\ sock' = [sock EXCEPT ![c] = "open"]
         /\ todo' = todo \ {ProtoOf[c]}
    BY <1>1, Zenon DEF Accept
  <2>1. main = "serve" /\ main' = "spawn"
    BY <1>1, Zenon DEF Accept
  <2>2. UNCHANGED <<listeners, waited, taken, shutdown_all, signalVars, slots, counts, reg, th, sessionVars>>
    BY <1>1, Zenon DEF Accept
  <2>3. TypeOK'
    BY <2>1, <2>2, Zenon DEF TypeOK, MainPCs, Protos, MainHolds
  <2>4. MainHolds'
    BY <2>1, <2>2, Zenon DEF MainHolds, TypeOK
  <2>5. NotYet'
    BY <2>1, <2>2, SMTT(30) DEF NotYet, TypeOK, MainHolds, SocketOwned
  <2>6. SocketOwned'
    BY <2>1, <2>2 DEF SocketOwned, TypeOK, MainHolds, NotYet, InSession
  <2>7. RegistryExact'
    BY <2>1, <2>2, Zenon DEF RegistryExact, TypeOK, Registered, InSession, SocketOwned, MainHolds
  <2>8. Passed'
    BY <2>1, <2>2 DEF Passed, TypeOK, RegistryExact, SocketOwned, MainHolds, Registered, InSession
  <2> QED
    BY <2>3, <2>4, <2>5, <2>6, <2>7, <2>8, Zenon
<1>2. CASE AcceptFails
  <2>1. TypeOK'
    BY <1>2, Zenon DEF AcceptFails, MainOnly, TypeOK, MainPCs, Protos
  <2>2. MainHolds'
    BY <1>2, Zenon DEF AcceptFails, MainOnly, MainHolds, TypeOK
  <2>3. NotYet' /\ SocketOwned' /\ RegistryExact' /\ Passed'
    BY <1>2, ConnectionsKept, Zenon DEF AcceptFails, MainOnly
  <2> QED
    BY <2>1, <2>2, <2>3, Zenon
<1>3. CASE AllServed
  <2>1. TypeOK'
    BY <1>3, Zenon DEF AllServed, MainOnly, TypeOK, MainPCs, Protos
  <2>2. MainHolds'
    BY <1>3, Zenon DEF AllServed, MainOnly, MainHolds, TypeOK
  <2>3. NotYet' /\ SocketOwned' /\ RegistryExact' /\ Passed'
    BY <1>3, ConnectionsKept, Zenon DEF AllServed, MainOnly
  <2> QED
    BY <2>1, <2>2, <2>3, Zenon
<1> QED
  BY <1>1, <1>2, <1>3, Zenon

\* ... connector_spawn, ...
LEMMA SpawnKeeps ==
    ASSUME StateInv, Reject \/ Reserve \/ CreateFails \/ Create
    PROVE  StateInv'
<1> USE ServerAssumption DEF StateInv, mainVars, shutdown_all, signalVars, counts, sessionVars
<1>1. CASE Reject
  <2>1. TypeOK'
    BY <1>1, Zenon DEF Reject, Drop, TypeOK, MainPCs, Protos, MainHolds
  <2>2. MainHolds'
    BY <1>1, Zenon DEF Reject, Drop, MainHolds, TypeOK
  <2>3. NotYet'
    BY <1>1 DEF Reject, Drop, NotYet, TypeOK, MainHolds, SocketOwned
  <2>4. SocketOwned'
    BY <1>1 DEF Reject, Drop, SocketOwned, TypeOK, MainHolds, NotYet, InSession
  <2>5. RegistryExact'
    BY <1>1, Zenon DEF Reject, Drop, RegistryExact, TypeOK, Registered, InSession, SocketOwned, MainHolds
  <2>6. Passed'
    BY <1>1 DEF Reject, Drop, Passed, TypeOK, RegistryExact, SocketOwned, MainHolds, Registered, InSession
  <2> QED
    BY <2>1, <2>2, <2>3, <2>4, <2>5, <2>6, Zenon
<1>2. CASE Reserve
  <2>1. TypeOK'
    BY <1>2 DEF Reserve, TypeOK, MainPCs, Protos, MainHolds
  <2>2. MainHolds'
    BY <1>2, Zenon DEF Reserve, MainHolds, TypeOK
  <2>3. NotYet' /\ SocketOwned' /\ RegistryExact' /\ Passed'
    BY <1>2, ConnectionsKept, Zenon DEF Reserve
  <2> QED
    BY <2>1, <2>2, <2>3, Zenon
<1>3. CASE CreateFails
  <2>1. TypeOK'
    BY <1>3 DEF CreateFails, Drop, TypeOK, MainPCs, Protos, MainHolds
  <2>2. MainHolds'
    BY <1>3, Zenon DEF CreateFails, Drop, MainHolds, TypeOK
  <2>3. NotYet'
    BY <1>3, SMTT(30) DEF CreateFails, Drop, NotYet, TypeOK, MainHolds, SocketOwned
  <2>4. SocketOwned'
    BY <1>3, SMTT(30) DEF CreateFails, Drop, SocketOwned, TypeOK, MainHolds, NotYet, InSession
  <2>5. RegistryExact'
    BY <1>3, Zenon DEF CreateFails, Drop, RegistryExact, TypeOK, Registered, InSession, SocketOwned, MainHolds
  <2>6. Passed'
    BY <1>3, SMTT(30) DEF CreateFails, Drop, Passed, TypeOK, RegistryExact, SocketOwned, MainHolds, Registered, InSession
  <2> QED
    BY <2>1, <2>2, <2>3, <2>4, <2>5, <2>6, Zenon
<1>4. CASE Create
  <2>1. TypeOK'
    <3>1. cur \in Conn /\ main' \in MainPCs /\ th' \in [Conn -> ThreadPCs]
      BY <1>4, Labels, Zenon DEF Create, MainPCs, MainHolds, TypeOK
    <3> QED
      BY <1>4, <3>1, Zenon DEF Create, TypeOK
  <2>2. MainHolds'
    BY <1>4, Zenon DEF Create, MainHolds, TypeOK
  <2>3. NotYet'
    BY <1>4, SMTT(30) DEF Create, NotYet, TypeOK, MainHolds, SocketOwned
  <2>4. SocketOwned'
    BY <1>4, SMTT(30) DEF Create, SocketOwned, TypeOK, MainHolds, NotYet, InSession
  <2>5. RegistryExact'
    BY <1>4, SMTT(30) DEF Create, RegistryExact, TypeOK, Registered, InSession, SocketOwned, MainHolds
  <2>6. Passed'
    BY <1>4 DEF Create, Passed, TypeOK, RegistryExact, SocketOwned, MainHolds, Registered, InSession
  <2> QED
    BY <2>1, <2>2, <2>3, <2>4, <2>5, <2>6, Zenon
<1> QED
  BY <1>1, <1>2, <1>3, <1>4, Zenon

\* ... the start of a shutdown_all, ...
LEMMA ShutLockKeeps ==
    ASSUME StateInv, ShutLock
    PROVE  StateInv'
<1> USE ServerAssumption DEF StateInv, mainVars, shutdown_all, signalVars, counts, sessionVars
<1> PICK p \in todo :
       /\ lock' = p
       /\ todo' = todo \ {p}
       /\ s_shutting_down' = [s_shutting_down EXCEPT ![p] = TRUE]
       /\ walk' = reg[p]
  BY Zenon DEF ShutLock
<1>1. main = "shut" /\ main' = "flag"
  BY Zenon DEF ShutLock
<1>2. UNCHANGED <<listeners, cur, waited, taken, visit, signalVars, slots, counts, reg, th, sock, sessionVars>>
  BY Zenon DEF ShutLock, MainOnly
<1>3. TypeOK'
  BY <1>1, <1>2, Zenon DEF TypeOK, MainPCs, Protos, MainHolds
<1>4. MainHolds'
  BY <1>1, <1>2 DEF MainHolds, TypeOK, RegistryExact
<1>5. NotYet'
  BY <1>1, <1>2, Zenon DEF NotYet, TypeOK, MainHolds
<1>6. SocketOwned'
  BY <1>1, <1>2, Zenon DEF SocketOwned, TypeOK
<1>7. RegistryExact'
  BY <1>1, <1>2, Zenon DEF RegistryExact, TypeOK, MainHolds
<1>8. Passed'
  BY <1>1, <1>2, SMTT(30) DEF Passed, TypeOK, MainHolds, RegistryExact, Protos
<1> QED
  BY <1>3, <1>4, <1>5, <1>6, <1>7, <1>8, Zenon

\* ... its walk over the registry, ...
LEMMA WalkKeeps ==
    ASSUME StateInv, ShutFlag \/ ShutWrite \/ ShutUnlock \/ ShutDone
    PROVE  StateInv'
<1> USE ServerAssumption DEF StateInv, mainVars, shutdown_all, signalVars, counts, sessionVars
<1>1. CASE ShutFlag
  <2>1. TypeOK'
    BY <1>1, SMTT(30) DEF ShutFlag, TypeOK, MainPCs, Protos, MainHolds
  <2>2. MainHolds'
    BY <1>1, SMTT(30) DEF ShutFlag, MainHolds, TypeOK, RegistryExact
  <2>3. NotYet'
    BY <1>1, Zenon DEF ShutFlag, NotYet, TypeOK, MainHolds
  <2>4. SocketOwned'
    BY <1>1, Zenon DEF ShutFlag, SocketOwned, TypeOK
  <2>5. RegistryExact'
    BY <1>1, Zenon DEF ShutFlag, RegistryExact, TypeOK, MainHolds
  <2>6. Passed'
    BY <1>1, SMTT(30) DEF ShutFlag, Passed, TypeOK, MainHolds, RegistryExact, Protos
  <2> QED
    BY <2>1, <2>2, <2>3, <2>4, <2>5, <2>6, Zenon
<1>2. CASE ShutWrite
  <2>1. TypeOK'
    BY <1>2, Zenon DEF ShutWrite, TypeOK, MainPCs, Protos, MainHolds
  <2>2. MainHolds'
    BY <1>2, Zenon DEF ShutWrite, MainHolds, TypeOK, RegistryExact
  <2>3. NotYet'
    BY <1>2, Zenon DEF ShutWrite, NotYet, TypeOK, MainHolds
  <2>4. SocketOwned'
    BY <1>2, Zenon DEF ShutWrite, SocketOwned, TypeOK
  <2>5. RegistryExact'
    BY <1>2, Zenon DEF ShutWrite, RegistryExact, TypeOK, MainHolds
  <2>6. Passed'
    BY <1>2, SMTT(30) DEF ShutWrite, Passed, TypeOK, MainHolds, RegistryExact, Protos
  <2> QED
    BY <2>1, <2>2, <2>3, <2>4, <2>5, <2>6, Zenon
<1>3. CASE ShutUnlock
  <2>1. TypeOK'
    BY <1>3, Zenon DEF ShutUnlock, MainOnly, TypeOK, MainPCs, Protos, MainHolds
  <2>2. MainHolds'
    BY <1>3, Zenon DEF ShutUnlock, MainOnly, MainHolds, TypeOK, RegistryExact
  <2>3. NotYet'
    BY <1>3, Zenon DEF ShutUnlock, MainOnly, NotYet, TypeOK, MainHolds
  <2>4. SocketOwned'
    BY <1>3, Zenon DEF ShutUnlock, MainOnly, SocketOwned, TypeOK
  <2>5. RegistryExact'
    BY <1>3, Zenon DEF ShutUnlock, MainOnly, RegistryExact, TypeOK, MainHolds
  <2>6. Passed'
    BY <1>3 DEF ShutUnlock, MainOnly, Passed, TypeOK, MainHolds, RegistryExact, Protos
  <2> QED
    BY <2>1, <2>2, <2>3, <2>4, <2>5, <2>6, Zenon
<1>4. CASE ShutDone
  <2>1. TypeOK'
    BY <1>4, Zenon DEF ShutDone, MainOnly, TypeOK, MainPCs, Protos
  <2>2. MainHolds'
    BY <1>4, Zenon DEF ShutDone, MainOnly, MainHolds, TypeOK
  <2>3. NotYet' /\ SocketOwned' /\ RegistryExact' /\ Passed'
    BY <1>4, ConnectionsKept, Zenon DEF ShutDone, MainOnly
  <2> QED
    BY <2>1, <2>2, <2>3, Zenon
<1> QED
  BY <1>1, <1>2, <1>3, <1>4, Zenon

\* ... connector_destroy and the end of main, ...
LEMMA DrainKeeps ==
    ASSUME StateInv, WaitSlot \/ Destroy \/ Exit
    PROVE  StateInv'
<1> USE ServerAssumption DEF StateInv, mainVars, shutdown_all, signalVars, counts, sessionVars
<1>1. CASE WaitSlot
  <2>1. TypeOK'
    BY <1>1 DEF WaitSlot, TypeOK, MainPCs, Protos
  <2>2. MainHolds'
    BY <1>1 DEF WaitSlot, MainHolds, TypeOK
  <2>3. NotYet' /\ SocketOwned' /\ RegistryExact' /\ Passed'
    BY <1>1, ConnectionsKept, Zenon DEF WaitSlot
  <2> QED
    BY <2>1, <2>2, <2>3, Zenon
<1>2. CASE Destroy
  <2>1. TypeOK'
    BY <1>2, Zenon DEF Destroy, MainOnly, TypeOK, MainPCs, Protos
  <2>2. MainHolds'
    BY <1>2, Zenon DEF Destroy, MainOnly, MainHolds, TypeOK, NotYet, Protos
  <2>3. NotYet' /\ SocketOwned' /\ RegistryExact' /\ Passed'
    BY <1>2, ConnectionsKept, Zenon DEF Destroy, MainOnly
  <2> QED
    BY <2>1, <2>2, <2>3, Zenon
<1>3. CASE Exit
  <2>1. TypeOK'
    BY <1>3, Zenon DEF Exit, MainOnly, TypeOK, MainPCs, Protos
  <2>2. MainHolds'
    BY <1>3, Zenon DEF Exit, MainOnly, MainHolds, TypeOK, NotYet, Protos
  <2>3. NotYet' /\ SocketOwned' /\ RegistryExact' /\ Passed'
    BY <1>3, ConnectionsKept, Zenon DEF Exit, MainOnly
  <2> QED
    BY <2>1, <2>2, <2>3, Zenon
<1> QED
  BY <1>1, <1>2, <1>3, Zenon

\* ... clients, and posts that wake a session, ...
LEMMA ClientKeeps ==
    ASSUME StateInv, NEW c \in Conn,
           Connect(c) \/ ClientSend(c) \/ ClientLeave(c) \/ Notify(c)
    PROVE  StateInv'
<1> USE ServerAssumption DEF StateInv, mainVars, shutdown_all, signalVars, counts, sessionVars
<1>1. CASE Connect(c)
  <2>1. TypeOK'
    BY <1>1, Zenon DEF Connect, TypeOK
  <2>2. MainHolds'
    BY <1>1, Zenon DEF Connect, MainHolds, TypeOK
  <2>3. NotYet'
    BY <1>1, SMTT(30) DEF Connect, NotYet, TypeOK, SocketOwned
  <2>4. SocketOwned'
    BY <1>1 DEF Connect, SocketOwned, TypeOK, NotYet
  <2>5. RegistryExact'
    BY <1>1, Zenon DEF Connect, RegistryExact, TypeOK
  <2>6. Passed'
    BY <1>1, Zenon DEF Connect, Passed, TypeOK
  <2> QED
    BY <2>1, <2>2, <2>3, <2>4, <2>5, <2>6, Zenon
<1>2. CASE ClientSend(c)
  <2>1. TypeOK'
    BY <1>2, Zenon DEF ClientSend, TypeOK
  <2>2. MainHolds'
    BY <1>2, Zenon DEF ClientSend, MainHolds, TypeOK
  <2>3. NotYet'
    BY <1>2, Zenon DEF ClientSend, NotYet, TypeOK
  <2>4. SocketOwned'
    BY <1>2, Zenon DEF ClientSend, SocketOwned, TypeOK
  <2>5. RegistryExact'
    BY <1>2, Zenon DEF ClientSend, RegistryExact, TypeOK
  <2>6. Passed'
    BY <1>2, Zenon DEF ClientSend, Passed, TypeOK
  <2> QED
    BY <2>1, <2>2, <2>3, <2>4, <2>5, <2>6, Zenon
<1>3. CASE ClientLeave(c)
  <2>1. TypeOK'
    BY <1>3, Zenon DEF ClientLeave, TypeOK
  <2>2. MainHolds'
    BY <1>3, Zenon DEF ClientLeave, MainHolds, TypeOK
  <2>3. NotYet'
    BY <1>3, Zenon DEF ClientLeave, NotYet, TypeOK
  <2>4. SocketOwned'
    BY <1>3, Zenon DEF ClientLeave, SocketOwned, TypeOK
  <2>5. RegistryExact'
    BY <1>3, Zenon DEF ClientLeave, RegistryExact, TypeOK
  <2>6. Passed'
    BY <1>3, Zenon DEF ClientLeave, Passed, TypeOK
  <2> QED
    BY <2>1, <2>2, <2>3, <2>4, <2>5, <2>6, Zenon
<1>4. CASE Notify(c)
  <2>1. TypeOK'
    BY <1>4, Zenon DEF Notify, TypeOK
  <2>2. MainHolds'
    BY <1>4, Zenon DEF Notify, MainHolds, TypeOK
  <2>3. NotYet'
    BY <1>4, Zenon DEF Notify, NotYet, TypeOK
  <2>4. SocketOwned'
    BY <1>4, Zenon DEF Notify, SocketOwned, TypeOK
  <2>5. RegistryExact'
    BY <1>4, Zenon DEF Notify, RegistryExact, TypeOK
  <2>6. Passed'
    BY <1>4 DEF Notify, Passed, TypeOK
  <2> QED
    BY <2>1, <2>2, <2>3, <2>4, <2>5, <2>6, Zenon
<1> QED
  BY <1>1, <1>2, <1>3, <1>4, Zenon

\* ... a thread before its session is registered and after, ...
LEMMA ThreadKeeps ==
    ASSUME StateInv, NEW c \in Conn,
           Enter(c) \/ Run(c) \/ ClosePipe(c) \/ CloseSock(c) \/ Leave(c) \/ Return(c) \/ Post(c)
    PROVE  StateInv'
<1>0. TypeOK
  BY Zenon DEF StateInv
<1> USE <1>0 DEF counts, sessionVars
<1>0a. CASE Enter(c)
  <2>1. Passes(c, "run")
    BY <1>0a DEF Enter, Passes, At, Goto, TypeOK
  <2> QED
    BY <2>1, OutsideMove, Zenon
<1>1. CASE Run(c)
  <2>1. Passes(c, "register") \/ Passes(c, "exit")
    BY <1>1 DEF Run, Passes, At, Goto, TypeOK
  <2> QED
    BY <2>1, OutsideMove, Zenon
<1>2. CASE ClosePipe(c)
  <2>1. Passes(c, "closesock")
    BY <1>2, Zenon DEF ClosePipe, Passes, At, Goto, TypeOK
  <2> QED
    BY <2>1, OutsideMove, Zenon
<1>3. CASE CloseSock(c)
  <2>1. Passes(c, "exit")
    BY <1>3 DEF CloseSock, Passes, At, Goto, TypeOK, Telnet
  <2> QED
    BY <2>1, OutsideMove, Zenon
<1>4. CASE Leave(c)
  <2>1. Passes(c, "return")
    BY <1>4 DEF Leave, Passes, At, Goto, TypeOK
  <2> QED
    BY <2>1, OutsideMove, Zenon
<1>6. CASE Return(c)
  <2>1. Passes(c, "post")
    BY <1>6 DEF Return, Passes, At, Goto, TypeOK
  <2> QED
    BY <2>1, OutsideMove, Zenon
<1>5. CASE Post(c)
  <2>1. Passes(c, "done")
    BY <1>5 DEF Post, Passes, At, Goto, TypeOK
  <2> QED
    BY <2>1, OutsideMove, Zenon
<1> QED
  BY <1>0a, <1>1, <1>2, <1>3, <1>4, <1>5, <1>6, Zenon

\* ... a session's registration, ...
LEMMA RegisterKeeps ==
    ASSUME StateInv, NEW c \in Conn, Register(c)
    PROVE  StateInv'
<1>0. TypeOK /\ MainHolds /\ NotYet /\ SocketOwned /\ RegistryExact /\ Passed
  BY Zenon DEF StateInv
<1>1. PICK l \in {"check", "read"} : th' = [th EXCEPT ![c] = l]
  BY Zenon DEF Register, At, Goto
<1>2. th[c] = "register" /\ lock # ProtoOf[c]
  BY Zenon DEF Register, At
<1>3. UNCHANGED <<main, listeners, todo, cur, waited, taken, s_shutting_down, lock, walk, visit,
                  s_shutdown, s_reload, signals, slots, active, active_connections,
                  sock, pipe, bytes, input, have>>
  BY Zenon DEF Register, mainVars, shutdown_all, signalVars
<1>4. th' \in [Conn -> ThreadPCs] /\ th'[c] = l /\ \A d \in Conn : d # c => th'[d] = th[d]
  BY <1>0, <1>1, Labels DEF TypeOK
<1>5. th[c] \notin Registered /\ l \in Registered /\ th[c] \in InSession /\ l \in InSession
  BY <1>2, Labels, Zenon
<1>6. /\ reg' \in [Protos -> SUBSET Conn]
      /\ \A p \in Protos, d \in Conn : d \in reg'[p] <=> d \in reg[p] \/ (d = c /\ p = ProtoOf[c])
  BY <1>0, ServerAssumption, Zenon DEF Register, TypeOK
<1>7. /\ shutdown_requested' \in [Conn -> BOOLEAN]
      /\ \A d \in Conn : d # c => shutdown_requested'[d] = shutdown_requested[d]
      /\ shutdown_requested[c] \/ s_shutting_down[ProtoOf[c]] => shutdown_requested'[c]
  BY <1>0, Zenon DEF Register, TypeOK
<1>8. online_count' \in Int
  BY <1>0, SMTT(30) DEF Register, TypeOK
<1>9. TypeOK'
  BY <1>0, <1>3, <1>4, <1>6, <1>7, <1>8, Zenon DEF TypeOK
<1>10. MainHolds'
  <2>1. visit # None => visit \in Conn /\ shutdown_requested'[visit]
    BY <1>0, <1>7 DEF TypeOK, MainHolds
  <2>2. \A d \in walk : lock # None /\ d \in reg'[lock]
    BY <1>0, <1>6, Zenon DEF TypeOK, MainHolds
  <2>3. th[c] \notin {"none", "done"}
    BY <1>2, Zenon
  <2> QED
    BY <1>0, <1>3, <2>1, <2>2, <2>3, Zenon DEF MainHolds
<1>11. NotYet'
  BY <1>0, <1>1, <1>2, <1>3, <1>4, Zenon DEF NotYet
<1>12. SocketOwned'
  BY <1>0, <1>2, <1>3, <1>4, <1>5, Zenon DEF SocketOwned
<1>13. RegistryExact'
  BY <1>0, <1>2, <1>3, <1>4, <1>5, <1>6, SMTT(30) DEF RegistryExact
<1>14. Passed'
  <2>1. \A p \in Protos : reg[p] \subseteq Conn /\ reg'[p] \subseteq Conn
    BY <1>0, <1>6, Zenon DEF TypeOK
  <2>2. l # "poll"
    BY <1>1, Zenon
  <2> QED
    BY <1>0, <1>3, <1>4, <1>6, <1>7, <2>1, <2>2, SMTT(30) DEF Passed
<1> QED
  BY <1>9, <1>10, <1>11, <1>12, <1>13, <1>14, Zenon DEF StateInv

\* ... the loops of both protocols, ...
LEMMA SessionKeeps ==
    ASSUME StateInv, NEW c \in Conn,
           \/ Check(c) \/ PollWake(c) \/ Drain(c) \/ Recheck(c) \/ Redraw(c) \/ Recv(c)
           \/ Reply(c) \/ Bye(c) \/ ReadRequest(c) \/ Respond(c) \/ PollTimeout(c) \/ ReadTimeout(c)
    PROVE  StateInv'
  BY SessionMoves, SessionMove, Zenon

\* ... and the end of a registration.
LEMMA UnregisterKeeps ==
    ASSUME StateInv, NEW c \in Conn, Unregister(c)
    PROVE  StateInv'
<1>0. TypeOK /\ MainHolds /\ NotYet /\ SocketOwned /\ RegistryExact /\ Passed
  BY Zenon DEF StateInv
<1>1. th[c] = "leave" /\ lock # ProtoOf[c] /\ th' = [th EXCEPT ![c] = "closepipe"]
  BY Zenon DEF Unregister, At, Goto
<1>2. UNCHANGED <<main, listeners, todo, cur, waited, taken, s_shutting_down, lock, walk, visit,
                  s_shutdown, s_reload, signals, slots, active, active_connections,
                  online_count, sock, pipe, bytes, shutdown_requested, input, have>>
  BY Zenon DEF Unregister, mainVars, shutdown_all, signalVars, counts, sessionVars
<1>3. th' \in [Conn -> ThreadPCs] /\ th'[c] = "closepipe" /\ \A d \in Conn : d # c => th'[d] = th[d]
  BY <1>0, <1>1, Labels, Zenon DEF TypeOK
<1>4. th[c] \in InSession /\ "closepipe" \in InSession \ Registered
  BY <1>1, Labels, Zenon
<1>5. reg' \in [Protos -> SUBSET Conn] /\ \A p \in Protos : reg'[p] = reg[p] \ {c}
  <2>1. \A p \in Protos : p # ProtoOf[c] => c \notin reg[p]
    BY <1>0, Zenon DEF RegistryExact
  <2> QED
    BY <1>0, <2>1, ServerAssumption DEF Unregister, TypeOK
<1>6. TypeOK'
  BY <1>0, <1>2, <1>3, <1>5, Zenon DEF TypeOK
<1>7. MainHolds'
  <2>1. \A d \in walk : lock # None /\ d \in reg'[lock]
    <3>1. \A d \in walk : lock # None /\ d \in reg[lock]
      BY <1>0, Zenon DEF MainHolds
    <3>2. lock # None => c \notin reg[lock] /\ lock \in Protos
      BY <1>0, <1>1, Zenon DEF TypeOK, RegistryExact
    <3> QED
      BY <1>5, <3>1, <3>2, Zenon
  <2> QED
    BY <1>0, <1>1, <1>2, <2>1, Zenon DEF MainHolds
<1>8. NotYet'
  BY <1>0, <1>1, <1>2, <1>3, Zenon DEF NotYet
<1>9. SocketOwned'
  BY <1>0, <1>1, <1>2, <1>3, <1>4, Zenon DEF SocketOwned
<1>10. RegistryExact'
  BY <1>0, <1>1, <1>2, <1>3, <1>4, <1>5, SMTT(30) DEF RegistryExact
<1>11. Passed'
  <2>1. \A p \in Protos : reg[p] \subseteq Conn
    BY <1>0, Zenon DEF TypeOK
  <2> QED
    BY <1>0, <1>2, <1>3, <1>5, <2>1, Zenon DEF Passed
<1> QED
  BY <1>6, <1>7, <1>8, <1>9, <1>10, <1>11, Zenon DEF StateInv

\* Every step preserves the part of the invariant that counts nothing.
LEMMA StateStep == StateInv /\ [Next]_vars => StateInv'
<1>1. StateInv /\ UNCHANGED vars => StateInv'
  <2> SUFFICES ASSUME StateInv, UNCHANGED vars PROVE StateInv'
    BY Zenon
  <2> USE DEF StateInv, mainVars, shutdown_all, signalVars, counts, sessionVars
  <2>1. TypeOK' /\ MainHolds'
    BY Zenon DEF vars, semaphore, TypeOK, MainHolds
  <2>2. NotYet' /\ SocketOwned' /\ RegistryExact' /\ Passed'
    BY ConnectionsKept, Zenon DEF vars
  <2> QED
    BY <2>1, <2>2, Zenon
<1>2. StateInv /\ Next => StateInv'
  BY SignalKeeps, LoopKeeps, AcceptKeeps, SpawnKeeps, ShutLockKeeps, WalkKeeps,
     DrainKeeps, ClientKeeps, ThreadKeeps, RegisterKeeps, SessionKeeps, UnregisterKeeps, Zenon
  DEF Next, Environment, MainStep, Prompt, Timeout
<1> QED
  BY <1>1, <1>2, Zenon

\* Adding an element to a set of connections counts for one, ...
LEMMA OneMore ==
    ASSUME NEW S, S \subseteq Conn, NEW c \in Conn, c \notin S
    PROVE  Cardinality(S \cup {c}) = Cardinality(S) + 1
<1>1. IsFiniteSet(S)
  BY ServerAssumption, FS_Subset, Zenon
<1> QED
  BY <1>1, FS_AddElement, Zenon

\* ... and taking one away.
LEMMA OneLess ==
    ASSUME NEW S, S \subseteq Conn, NEW c \in S
    PROVE  Cardinality(S \ {c}) = Cardinality(S) - 1
<1>1. IsFiniteSet(S)
  BY ServerAssumption, FS_Subset, Zenon
<1> QED
  BY <1>1, FS_RemoveElement, Zenon

\* A set of connections has a size.
LEMMA CountsNat ==
    ASSUME NEW S, S \subseteq Conn
    PROVE  Cardinality(S) \in Nat
<1>1. IsFiniteSet(S)
  BY ServerAssumption, FS_Subset, Zenon
<1> QED
  BY <1>1, FS_CardinalityType, Zenon

\* A thread moves, and belongs to the same groups as before.
LEMMA SameGroups ==
    ASSUME TypeOK, NEW c \in Conn, NEW l, th' = [th EXCEPT ![c] = l],
           th[c] \in InSession \ {"register"}, l \in InSession \ {"register"}
    PROVE  Holders' = Holders /\ Active' = Active /\ Inside' = Inside /\ Online' = Online
  BY DEF TypeOK, Holders, Active, Inside, Online, Telnet

\* Every step keeps the slots and the counters in balance.
LEMMA CountStep == StateInv /\ CountInv /\ [Next]_vars => CountInv'
<1> SUFFICES ASSUME StateInv, CountInv, [Next]_vars
             PROVE  CountInv'
  BY Zenon
<1> USE DEF mainVars, counts
<1>0. TypeOK
  BY Zenon DEF StateInv
<1>s. /\ Holders \subseteq Conn /\ Active \subseteq Conn /\ Inside \subseteq Conn /\ Online \subseteq Conn
      /\ Cardinality(Holders) \in Nat /\ Cardinality(Active) \in Nat /\ Cardinality(Inside) \in Nat /\ Cardinality(Online) \in Nat
  <2>1. Holders \subseteq Conn /\ Active \subseteq Conn /\ Inside \subseteq Conn /\ Online \subseteq Conn
    BY Zenon DEF Holders, Active, Inside, Online
  <2> QED
    BY <2>1, CountsNat, Zenon
<1>t. slots \in Nat /\ taken \in Nat /\ active \in Int /\ active_connections \in Int /\ online_count \in Int
  BY <1>0, Zenon DEF TypeOK
\* What does not touch a thread or a slot.
<1>1. ASSUME UNCHANGED <<th, slots, taken, counts>>, main = "create" <=> main' = "create"
      PROVE  CountInv'
  <2>1. Holders' = Holders /\ Active' = Active /\ Inside' = Inside /\ Online' = Online /\ Reserved' = Reserved
    BY <1>1, Zenon DEF Holders, Active, Inside, Online, Reserved, Telnet
  <2> QED
    BY <1>1, <2>1, Zenon DEF CountInv, SlotAccount, CountersExact
<1>2. ASSUME NEW c \in Conn, NEW l, th' = [th EXCEPT ![c] = l],
             th[c] \in InSession \ {"register"}, l \in InSession \ {"register"},
             UNCHANGED <<main, slots, taken, counts>>
      PROVE  CountInv'
  <2>1. Holders' = Holders /\ Active' = Active /\ Inside' = Inside /\ Online' = Online
    BY Zenon, <1>0, <1>2, SameGroups
  <2>2. Reserved' = Reserved
    BY <1>2, Zenon DEF Reserved
  <2> QED
    BY <1>2, <2>1, <2>2, Zenon DEF CountInv, SlotAccount, CountersExact
<1>3. CASE SigTerm \/ SigHup
  <2>1. UNCHANGED <<th, slots, taken, counts>> /\ (main = "create" <=> main' = "create")
    BY <1>3, Zenon DEF SigTerm, SigHup, Deliver
  <2> QED
    BY <1>1, <2>1, Zenon
<1>4. CASE \/ Start \/ CheckShutdown \/ Select \/ AcceptFails \/ AllServed \/ ShutLock
           \/ ShutUnlock \/ ShutDone \/ Destroy \/ Exit
  <2>1. UNCHANGED <<th, slots, taken, counts>>
    BY <1>4, Zenon DEF Start, CheckShutdown, Select, AcceptFails, AllServed, ShutLock, ShutUnlock, ShutDone,
         Destroy, Exit, MainOnly
  <2>2. main # "create" /\ main' # "create"
    BY <1>4, Zenon DEF Start, CheckShutdown, Select, AcceptFails, AllServed, ShutLock, ShutUnlock, ShutDone,
         Destroy, Exit
  <2> QED
    BY <1>1, <2>1, <2>2, Zenon
<1>5. CASE Accept \/ Reject \/ ShutFlag \/ ShutWrite
  <2>1. UNCHANGED <<th, slots, taken, counts>> /\ main # "create" /\ main' # "create"
    BY <1>5, Zenon DEF Accept, Reject, ShutFlag, ShutWrite, Drop
  <2> QED
    BY <1>1, <2>1, Zenon
<1>6. ASSUME NEW c \in Conn, Connect(c) \/ ClientSend(c) \/ ClientLeave(c) \/ Notify(c)
      PROVE  CountInv'
  <2>1. UNCHANGED <<th, slots, taken, counts>> /\ UNCHANGED main
    BY <1>6, Zenon DEF Connect, ClientSend, ClientLeave, Notify
  <2> QED
    BY <1>1, <2>1, Zenon
\* The slot goes from the semaphore to main, ...
<1>7. CASE Reserve
  <2>1. UNCHANGED <<th, taken, counts>> /\ slots' = slots - 1 /\ main # "create" /\ main' = "create"
    BY <1>7, Zenon DEF Reserve
  <2>2. Holders' = Holders /\ Active' = Active /\ Inside' = Inside /\ Online' = Online /\ Reserved = 0 /\ Reserved' = 1
    BY <2>1, Zenon DEF Holders, Active, Inside, Online, Reserved, Telnet
  <2> QED
    BY <1>s, <1>t, <2>1, <2>2 DEF CountInv, SlotAccount, CountersExact
\* ... and back, ...
<1>8. CASE CreateFails
  <2>1. UNCHANGED <<th, taken, counts>> /\ slots' = slots + 1 /\ main = "create" /\ main' # "create"
    BY <1>8, Zenon DEF CreateFails, Drop
  <2>2. Holders' = Holders /\ Active' = Active /\ Inside' = Inside /\ Online' = Online /\ Reserved = 1 /\ Reserved' = 0
    BY <2>1, Zenon DEF Holders, Active, Inside, Online, Reserved, Telnet
  <2> QED
    BY <1>s, <1>t, <2>1, <2>2 DEF CountInv, SlotAccount, CountersExact
\* ... or to the thread, ...
<1>9. CASE Create
  <2>1. UNCHANGED <<slots, taken, counts>> /\ main = "create" /\ main' # "create"
    BY <1>9, Zenon DEF Create
  <2>2. cur \in Conn /\ th[cur] = "none" /\ th' = [th EXCEPT ![cur] = "entry"]
    BY <1>0, <1>9, <2>1, Zenon DEF Create, StateInv, MainHolds, SocketOwned, TypeOK
  <2>3. cur \notin Holders /\ Holders' = Holders \cup {cur} /\ Active' = Active /\ Inside' = Inside /\ Online' = Online
    <3>0. th \in [Conn -> ThreadPCs]
      BY <1>0, Zenon DEF TypeOK
    <3>1. cur \notin Holders /\ Holders' = Holders \cup {cur}
      BY <2>2, <3>0, Labels, Zenon DEF Holders
    <3>2. Active' = Active /\ Inside' = Inside
      BY <2>2, <3>0, Labels, Zenon DEF Active, Inside
    <3>3. Online' = Online
      BY <2>2, <3>0, Labels, Zenon DEF Online, Telnet
    <3> QED
      BY <3>1, <3>2, <3>3, Zenon
  <2>4. Cardinality(Holders') = Cardinality(Holders) + 1
    BY <1>s, <2>2, <2>3, OneMore, Zenon
  <2>5. Reserved = 1 /\ Reserved' = 0
    BY <2>1, Zenon DEF Reserved
  <2> QED
    BY <1>s, <1>t, <2>1, <2>3, <2>4, <2>5 DEF CountInv, SlotAccount, CountersExact
\* ... which returns it, ...
<1>10. ASSUME NEW c \in Conn, Post(c) PROVE CountInv'
  <2>1. UNCHANGED <<main, taken, counts>> /\ slots' = slots + 1
    BY <1>10, Zenon DEF Post
  <2>2. th[c] = "post" /\ th' = [th EXCEPT ![c] = "done"]
    BY <1>10, Zenon DEF Post, At, Goto
  <2>3. c \in Holders /\ Holders' = Holders \ {c} /\ Active' = Active /\ Inside' = Inside /\ Online' = Online
    <3>0. th \in [Conn -> ThreadPCs]
      BY <1>0, Zenon DEF TypeOK
    <3>1. c \in Holders /\ Holders' = Holders \ {c}
      BY <2>2, <3>0, Labels, Zenon DEF Holders
    <3>2. Active' = Active /\ Inside' = Inside
      BY <2>2, <3>0, Labels, Zenon DEF Active, Inside
    <3>3. Online' = Online
      BY <2>2, <3>0, Labels, Zenon DEF Online, Telnet
    <3> QED
      BY <3>1, <3>2, <3>3, Zenon
  <2>4. Cardinality(Holders') = Cardinality(Holders) - 1
    BY <1>s, <2>3, OneLess, Zenon
  <2>5. Reserved' = Reserved /\ Reserved \in Nat
    BY <2>1, Zenon DEF Reserved
  <2> QED
    BY <1>s, <1>t, <2>1, <2>3, <2>4, <2>5 DEF CountInv, SlotAccount, CountersExact
\* ... and connector_destroy takes it.
<1>11. CASE WaitSlot
  <2>1. UNCHANGED <<th, counts, main>> /\ slots' = slots - 1 /\ taken' = taken + 1
    BY <1>11, Zenon DEF WaitSlot
  <2>2. Holders' = Holders /\ Active' = Active /\ Inside' = Inside /\ Online' = Online /\ Reserved' = Reserved /\ Reserved \in Nat
    BY <2>1, Zenon DEF Holders, Active, Inside, Online, Reserved, Telnet
  <2> QED
    BY <1>s, <1>t, <2>1, <2>2 DEF CountInv, SlotAccount, CountersExact
\* A thread enters fn, ...
<1>12a. ASSUME NEW c \in Conn, Enter(c) PROVE CountInv'
  <2>1. /\ UNCHANGED <<main, slots, taken, active_connections, online_count>>
        /\ active' = active + 1
    BY <1>12a, Zenon DEF Enter
  <2>2. th[c] = "entry" /\ th' = [th EXCEPT ![c] = "run"]
    BY <1>12a, Zenon DEF Enter, At, Goto
  <2>3. c \notin Active /\ Active' = Active \cup {c}
        /\ Inside' = Inside /\ Holders' = Holders /\ Online' = Online
    <3>0. th \in [Conn -> ThreadPCs]
      BY <1>0, Zenon DEF TypeOK
    <3>1. Holders' = Holders
      BY <2>2, <3>0, Labels, Zenon DEF Holders
    <3>2. c \notin Active /\ Active' = Active \cup {c}
      BY <2>2, <3>0, Labels, Zenon DEF Active
    <3>3. Online' = Online
      BY <2>2, <3>0, Labels, Zenon DEF Online, Telnet
    <3>4. Inside' = Inside
      BY <2>2, <3>0, Labels, Zenon DEF Inside
    <3> QED
      BY <3>1, <3>2, <3>3, <3>4, Zenon
  <2>4. Cardinality(Active') = Cardinality(Active) + 1
    BY <1>s, <2>3, OneMore, Zenon
  <2>5. Reserved' = Reserved
    BY <2>1, Zenon DEF Reserved
  <2> QED
    BY <1>s, <1>t, <2>1, <2>3, <2>4, <2>5, Zenon DEF CountInv, SlotAccount, CountersExact
\* ... which is connection_run, ...
<1>12. ASSUME NEW c \in Conn, Run(c) PROVE CountInv'
  <2>1. /\ UNCHANGED <<main, slots, taken, active, online_count>>
        /\ active_connections' = active_connections + 1
    BY <1>12, Zenon DEF Run
  <2>2. th[c] = "run" /\ \E l \in {"register", "exit"} : th' = [th EXCEPT ![c] = l]
    BY <1>12, Zenon DEF Run, At, Goto
  <2>3. c \notin Inside /\ Inside' = Inside \cup {c}
        /\ Active' = Active /\ Holders' = Holders /\ Online' = Online
    <3>0. th \in [Conn -> ThreadPCs]
      BY <1>0, Zenon DEF TypeOK
    <3>1. Holders' = Holders
      BY <2>2, <3>0, Labels, Zenon DEF Holders
    <3>2. c \notin Inside /\ Inside' = Inside \cup {c}
      BY <2>2, <3>0, Labels, Zenon DEF Inside
    <3>3. Online' = Online
      BY <2>2, <3>0, Labels, Zenon DEF Online, Telnet
    <3>4. Active' = Active
      BY <2>2, <3>0, Labels, Zenon DEF Active
    <3> QED
      BY <3>1, <3>2, <3>3, <3>4, Zenon
  <2>4. Cardinality(Inside') = Cardinality(Inside) + 1
    BY <1>s, <2>3, OneMore, Zenon
  <2>5. Reserved' = Reserved
    BY <2>1, Zenon DEF Reserved
  <2> QED
    BY <1>s, <1>t, <2>1, <2>3, <2>4, <2>5, Zenon DEF CountInv, SlotAccount, CountersExact
\* ... its session starts, if it is one of telnet, to count as online, ...
<1>13. ASSUME NEW c \in Conn, Register(c) PROVE CountInv'
  <2>1. /\ UNCHANGED <<main, slots, taken, active, active_connections>>
        /\ online_count' = IF Telnet(c) THEN online_count + 1 ELSE online_count
    BY <1>13, Zenon DEF Register
  <2>2. th[c] = "register" /\ \E l \in {"check", "read"} : th' = [th EXCEPT ![c] = l]
    BY <1>13, Zenon DEF Register, At, Goto
  <2>3. Holders' = Holders /\ Active' = Active /\ Inside' = Inside
    <3>0. th \in [Conn -> ThreadPCs]
      BY <1>0, Zenon DEF TypeOK
    <3>1. Holders' = Holders
      BY <2>2, <3>0, Labels, Zenon DEF Holders
    <3>2. Active' = Active /\ Inside' = Inside
      BY <2>2, <3>0, Labels, Zenon DEF Active, Inside
    <3> QED
      BY <3>1, <3>2, Zenon
  <2>4. c \notin Online /\ Online' = IF Telnet(c) THEN Online \cup {c} ELSE Online
    BY <1>0, <2>2, Labels DEF TypeOK, Online, Telnet
  <2>5. Telnet(c) => Cardinality(Online') = Cardinality(Online) + 1
    BY <1>s, <2>4, OneMore, Zenon
  <2>6. Reserved' = Reserved
    BY <2>1, Zenon DEF Reserved
  <2> QED
    BY <1>s, <1>t, <2>1, <2>3, <2>4, <2>5, <2>6, Zenon DEF CountInv, SlotAccount, CountersExact
\* ... and stops to, ...
<1>14. ASSUME NEW c \in Conn, CloseSock(c) PROVE CountInv'
  <2>1. /\ UNCHANGED <<main, slots, taken, active, active_connections>>
        /\ online_count' = IF Telnet(c) THEN online_count - 1 ELSE online_count
    BY <1>14, Zenon DEF CloseSock
  <2>2. th[c] = "closesock" /\ th' = [th EXCEPT ![c] = "exit"]
    BY <1>14, Zenon DEF CloseSock, At, Goto
  <2>3. Holders' = Holders /\ Active' = Active /\ Inside' = Inside
    <3>0. th \in [Conn -> ThreadPCs]
      BY <1>0, Zenon DEF TypeOK
    <3>1. Holders' = Holders
      BY <2>2, <3>0, Labels, Zenon DEF Holders
    <3>2. Active' = Active /\ Inside' = Inside
      BY <2>2, <3>0, Labels, Zenon DEF Active, Inside
    <3> QED
      BY <3>1, <3>2, Zenon
  <2>4. (Telnet(c) => c \in Online) /\ Online' = Online \ {c} /\ (~Telnet(c) => c \notin Online)
    BY <1>0, <2>2, Labels, Zenon DEF TypeOK, Online, Telnet
  <2>5. Telnet(c) => Cardinality(Online') = Cardinality(Online) - 1
    BY <1>s, <2>4, OneLess, Zenon
  <2>6. ~Telnet(c) => Online' = Online
    BY <2>4, Zenon
  <2>7. Reserved' = Reserved
    BY <2>1, Zenon DEF Reserved
  <2> QED
    BY <1>s, <1>t, <2>1, <2>3, <2>5, <2>6, <2>7, Zenon DEF CountInv, SlotAccount, CountersExact
\* ... the thread leaves connection_run, ...
<1>15. ASSUME NEW c \in Conn, Leave(c) PROVE CountInv'
  <2>1. /\ UNCHANGED <<main, slots, taken, active, online_count>>
        /\ active_connections' = active_connections - 1
    BY <1>15, Zenon DEF Leave
  <2>2. th[c] = "exit" /\ th' = [th EXCEPT ![c] = "return"]
    BY <1>15, Zenon DEF Leave, At, Goto
  <2>3. c \in Inside /\ Inside' = Inside \ {c}
        /\ Active' = Active /\ Holders' = Holders /\ Online' = Online
    <3>0. th \in [Conn -> ThreadPCs]
      BY <1>0, Zenon DEF TypeOK
    <3>1. Holders' = Holders
      BY <2>2, <3>0, Labels, Zenon DEF Holders
    <3>2. c \in Inside /\ Inside' = Inside \ {c}
      BY <2>2, <3>0, Labels, Zenon DEF Inside
    <3>3. Online' = Online
      BY <2>2, <3>0, Labels, Zenon DEF Online, Telnet
    <3>4. Active' = Active
      BY <2>2, <3>0, Labels, Zenon DEF Active
    <3> QED
      BY <3>1, <3>2, <3>3, <3>4, Zenon
  <2>4. Cardinality(Inside') = Cardinality(Inside) - 1
    BY <1>s, <2>3, OneLess, Zenon
  <2>5. Reserved' = Reserved
    BY <2>1, Zenon DEF Reserved
  <2> QED
    BY <1>s, <1>t, <2>1, <2>3, <2>4, <2>5, Zenon DEF CountInv, SlotAccount, CountersExact
\* ... and fn.
<1>15a. ASSUME NEW c \in Conn, Return(c) PROVE CountInv'
  <2>1. /\ UNCHANGED <<main, slots, taken, active_connections, online_count>>
        /\ active' = active - 1
    BY <1>15a, Zenon DEF Return
  <2>2. th[c] = "return" /\ th' = [th EXCEPT ![c] = "post"]
    BY <1>15a, Zenon DEF Return, At, Goto
  <2>3. c \in Active /\ Active' = Active \ {c}
        /\ Inside' = Inside /\ Holders' = Holders /\ Online' = Online
    <3>0. th \in [Conn -> ThreadPCs]
      BY <1>0, Zenon DEF TypeOK
    <3>1. Holders' = Holders
      BY <2>2, <3>0, Labels, Zenon DEF Holders
    <3>2. c \in Active /\ Active' = Active \ {c}
      BY <2>2, <3>0, Labels, Zenon DEF Active
    <3>3. Online' = Online
      BY <2>2, <3>0, Labels, Zenon DEF Online, Telnet
    <3>4. Inside' = Inside
      BY <2>2, <3>0, Labels, Zenon DEF Inside
    <3> QED
      BY <3>1, <3>2, <3>3, <3>4, Zenon
  <2>4. Cardinality(Active') = Cardinality(Active) - 1
    BY <1>s, <2>3, OneLess, Zenon
  <2>5. Reserved' = Reserved
    BY <2>1, Zenon DEF Reserved
  <2> QED
    BY <1>s, <1>t, <2>1, <2>3, <2>4, <2>5, Zenon DEF CountInv, SlotAccount, CountersExact
\* All other steps of a thread are within its session.
<1>16. ASSUME NEW c \in Conn,
              \/ Check(c) \/ PollWake(c) \/ Drain(c) \/ Recheck(c) \/ Redraw(c) \/ Recv(c)
              \/ Reply(c) \/ Bye(c) \/ ReadRequest(c) \/ Respond(c) \/ PollTimeout(c) \/ ReadTimeout(c)
       PROVE  CountInv'
  <2>1. PICK l \in Registered : Moves(c, l)
    BY <1>16, SessionMoves, Zenon
  <2>2. /\ UNCHANGED <<main, slots, taken, counts>>
        /\ th[c] \in Registered /\ th' = [th EXCEPT ![c] = l]
    BY <2>1, Zenon DEF Moves
  <2>3. th[c] \in InSession \ {"register"} /\ l \in InSession \ {"register"}
    BY <2>2, Zenon DEF Registered
  <2> QED
    BY Zenon, <1>2, <2>2, <2>3
<1>u. ASSUME NEW c \in Conn, Unregister(c) \/ ClosePipe(c) PROVE CountInv'
  <2>1. UNCHANGED <<main, slots, taken, counts>>
    BY <1>u, Zenon DEF Unregister, ClosePipe
  <2>2. th[c] \in {"leave", "closepipe"} /\ \E l \in {"closepipe", "closesock"} : th' = [th EXCEPT ![c] = l]
    BY <1>u, Zenon DEF Unregister, ClosePipe, At, Goto
  <2>3. {"leave", "closepipe", "closesock"} \subseteq InSession \ {"register"}
    BY Zenon DEF InSession
  <2> QED
    BY Zenon, <1>2, <2>1, <2>2, <2>3
<1>17. CASE UNCHANGED vars
  BY <1>1, <1>17, Zenon DEF vars, semaphore
<1> QED
  BY <1>3, <1>4, <1>5, <1>6, <1>7, <1>8, <1>9, <1>10, <1>11, <1>12, <1>12a, <1>13, <1>14,
     <1>15, <1>15a, <1>16, <1>17, <1>u, Zenon
  DEF Next, Environment, MainStep, Prompt, Timeout

\* The program starts in the invariant.
LEMMA InitInv == Init => ServerInv
<1> SUFFICES ASSUME Init PROVE ServerInv
  BY Zenon
<1> USE ServerAssumption
<1>1. StateInv
  <2>1. TypeOK
    <3>1. /\ bytes \in [Conn -> BOOLEAN] /\ shutdown_requested \in [Conn -> BOOLEAN]
          /\ s_shutting_down \in [Protos -> BOOLEAN]
          /\ s_shutdown \in BOOLEAN /\ s_reload \in BOOLEAN
      BY Zenon DEF Init
    <3>2. reg \in [Protos -> SUBSET Conn] /\ walk \subseteq Conn
      BY Zenon DEF Init
    <3>3. have \in [Conn -> 0..BufSz]
      BY DEF Init
    <3> QED
      BY <3>1, <3>2, <3>3 DEF Init, TypeOK, InSession, ThreadPCs, MainPCs
  <2>2. MainHolds /\ NotYet
    BY DEF Init, MainHolds, NotYet, Protos
  <2>3. SocketOwned
    BY Zenon DEF Init, SocketOwned, InSession
  <2>4. RegistryExact /\ Passed
    BY Zenon DEF Init, RegistryExact, Passed, Registered, InSession, Protos
  <2> QED
    BY <2>1, <2>2, <2>3, <2>4, Zenon DEF StateInv
<1>2. Holders = {} /\ Active = {} /\ Inside = {} /\ Online = {} /\ Reserved = 0
  BY Zenon DEF Init, Holders, Active, Inside, Online, Reserved, InSession
<1>3. Cardinality({}) = 0
  BY FS_EmptySet, Zenon
<1>4. CountInv
  BY <1>2, <1>3 DEF Init, CountInv, SlotAccount, CountersExact
<1> QED
  BY <1>1, <1>4, Zenon DEF ServerInv

\* The inductive invariant of the process holds always, for every number of
\* connections and slots and with every failure of a system call.
THEOREM ServerInvariant == Spec => []ServerInv
<1>1. ServerInv /\ [Next]_vars => ServerInv'
  BY StateStep, CountStep, Zenon DEF ServerInv
<1> QED
  BY InitInv, <1>1, PTL DEF Spec

\* Every reachable state of the server is well-typed: connector_destroy waits
\* for no more than MaxConn slots and no session reads past its buffer.
THEOREM ServerTypes == Spec => []TypeOK
<1>1. ServerInv => TypeOK
  BY Zenon DEF ServerInv, StateInv
<1> QED
  BY ServerInvariant, <1>1, PTL

\* No slot is lost or returned twice on any path through connector_spawn,
\* thread_entry and connector_destroy.
THEOREM SlotsAccounted == Spec => []SlotAccount
<1>1. ServerInv => SlotAccount
  BY Zenon DEF ServerInv, CountInv
<1> QED
  BY ServerInvariant, <1>1, PTL

\* An accepted socket has one owner, who closes it, on every error path
\* between accept and the end of the session.
THEOREM SocketsOwned == Spec => []SocketOwned
<1>1. ServerInv => SocketOwned
  BY Zenon DEF ServerInv, StateInv
<1> QED
  BY ServerInvariant, <1>1, PTL

\* The counters of connector.c, connection.c and telnet_session.c are exact.
THEOREM CountersRight == Spec => []CountersExact
<1>1. ServerInv => CountersExact
  BY Zenon DEF ServerInv, CountInv
<1> QED
  BY ServerInvariant, <1>1, PTL

\* shutdown_all meets live sessions only, with their pipes open.
THEOREM RegistryIsLive == Spec => []RegistryLive
<1>1. ServerInv => RegistryLive
  <2> SUFFICES ASSUME StateInv PROVE RegistryLive
    BY Zenon DEF ServerInv
  <2>1. ASSUME NEW p \in Protos, NEW c \in reg[p] PROVE ProtoOf[c] = p /\ Wakeable(c)
    <3>1. c \in Conn
      BY Zenon DEF StateInv, TypeOK
    <3> QED
      BY <2>1, <3>1, Zenon DEF StateInv, RegistryExact, Wakeable, Registered, InSession
  <2>2. ASSUME main = "write" PROVE visit \in Conn /\ Wakeable(visit)
    <3>1. lock \in Protos /\ visit \in reg[lock]
      BY <2>2, Zenon DEF StateInv, TypeOK, MainHolds
    <3>2. visit \in Conn
      BY <3>1, Zenon DEF StateInv, TypeOK
    <3> QED
      BY <2>1, <3>1, <3>2, Zenon
  <2> QED
    BY <2>1, <2>2, Zenon DEF RegistryLive
<1> QED
  BY ServerInvariant, <1>1, PTL

\* shutdown_all misses no session, however late it registers and whatever
\* wake-ups are drained from its pipe.
THEOREM ShutdownIsHeard == Spec => []ShutdownHeard
<1>1. ServerInv => ShutdownHeard
  BY Zenon DEF ServerInv, StateInv, Passed, ShutdownHeard
<1> QED
  BY ServerInvariant, <1>1, PTL

\* connector_destroy lets no more threads slip through than it has had
\* interrupted waits.
THEOREM DrainIsComplete == Spec => []DrainComplete
<1>1. ServerInv => DrainComplete
  <2> SUFFICES ASSUME ServerInv, main \in {"destroyed", "exited"}
               PROVE  Cardinality(Holders) <= waited - taken
    BY Zenon DEF DrainComplete
  <2> USE ServerAssumption DEF ServerInv, StateInv, TypeOK
  <2>0. Cardinality(Holders) \in Nat /\ Reserved \in Nat
    BY CountsNat, Zenon DEF Holders, Reserved
  <2>1. CASE waited = MaxConn
    BY <2>0, <2>1, SMTT(30) DEF CountInv, SlotAccount
  <2>2. CASE \A c \in Conn : th[c] \in {"none", "done"}
    <3>1. Holders = {}
      BY <2>2, Zenon DEF Holders, InSession
    <3>2. Cardinality(Holders) = 0
      BY <3>1, FS_EmptySet, Zenon
    <3>3. taken <= waited
      BY Zenon DEF MainHolds
    <3> QED
      BY <3>2, <3>3
  <2> QED
    BY <2>1, <2>2, Zenon DEF MainHolds
<1> QED
  BY ServerInvariant, <1>1, PTL
=============================================================================
