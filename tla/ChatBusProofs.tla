--------------------------- MODULE ChatBusProofs ----------------------------
(***************************************************************************)
(* Proofs about ChatBus, part 2: no wake-up is lost; from that and         *)
(* ChatBusSteps the inductive invariant BusInv, type correctness,          *)
(* SubscribersLive, NoLostWakeup, StreamExact, VisitorListed and           *)
(* PresenceExact; and that the bus implements the abstract feed.  All of   *)
(* it for every set of threads, rooms and descriptors and every limit.     *)
(***************************************************************************)
EXTENDS BusFeed, ChatBusSteps

(* Wake-ups *)

(* A poster on its way stays on its way while it does not move. *)
LEMMA WakeupStays ==
    ASSUME NEW u \in Thread, WakeupComing(u), UNCHANGED sub_fds,
           room'[u] = room[u], wfd'[u] = wfd[u],
           \A p \in Thread : pc[p] \in {"lock", "write"} =>
              pc'[p] = pc[p] /\ room'[p] = room[p] /\ idx'[p] = idx[p]
    PROVE  WakeupComing(u)'
<1>1. PICK p \in Thread : /\ room[p] = room[u]
                          /\ \/ pc[p] = "lock"
                             \/ pc[p] = "write" /\ \E i \in DOMAIN sub_fds[room[u]] :
                                  i >= idx[p] /\ sub_fds[room[u]][i] = wfd[u]
  BY Zenon DEF WakeupComing
<1>2. pc'[p] = pc[p] /\ room'[p] = room[p] /\ idx'[p] = idx[p]
  BY <1>1, Zenon
<1> QED
  BY <1>1, <1>2, SMT, SMTT(60) DEF WakeupComing

\* What a step of t leaves alone of the others.
OthersStay(t) ==
    \A u \in Thread : u # t =>
        /\ kind'[u] = kind[u] /\ pc'[u] = pc[u] /\ at_live'[u] = at_live[u]
        /\ oldest'[u] = oldest[u] /\ screen'[u] = screen[u]
        /\ wfd'[u] = wfd[u] /\ room'[u] = room[u] /\ idx'[u] = idx[u]
        /\ wfd[u] # NoFd /\ pipe'[wfd[u]] = 0 => pipe[wfd[u]] = 0

(* A step by a thread that is not posting costs nobody a wake-up. *)
LEMMA QuietStep ==
    ASSUME NoLostWakeup, NEW t \in Thread, UNCHANGED <<log, sub_fds>>,
           pc[t] \notin {"lock", "write"}, OthersStay(t),
           Asleep(t)' => ScreenFresh(t)' \/ WakeupComing(t)'
    PROVE  NoLostWakeup'
<1> SUFFICES ASSUME NEW u \in Thread, Asleep(u)'
             PROVE  ScreenFresh(u)' \/ WakeupComing(u)'
  BY Zenon DEF NoLostWakeup
<1>1. CASE u = t
  BY <1>1, Zenon
<1>2. CASE u # t
  <2>1. Asleep(u)
    BY <1>2, SMT, SMTT(60) DEF Asleep, Listed, OthersStay
  <2>2. ScreenFresh(u) => ScreenFresh(u)'
    BY <1>2, Zenon DEF ScreenFresh, Page, OthersStay
  <2>3. WakeupComing(u) => WakeupComing(u)'
    BY <1>2, WakeupStays, Zenon DEF OthersStay
  <2> QED
    BY <2>1, <2>2, <2>3, ZenonT(60) DEF NoLostWakeup
<1> QED
  BY <1>1, <1>2, Zenon

(* Nothing changes that the property looks at. *)
LEMMA WakeupStutter ==
    ASSUME NoLostWakeup,
           UNCHANGED <<log, sub_fds, pipe, kind, pc, wfd, room, at_live, oldest,
                       screen, idx>>
    PROVE  NoLostWakeup'
<1> SUFFICES ASSUME NEW u \in Thread, Asleep(u)'
             PROVE  ScreenFresh(u)' \/ WakeupComing(u)'
  BY Zenon DEF NoLostWakeup
<1>1. Asleep(u)
  BY Zenon DEF Asleep, Listed
<1>2. ScreenFresh(u) => ScreenFresh(u)'
  BY Zenon DEF ScreenFresh, Page
<1>3. WakeupComing(u) => WakeupComing(u)'
  BY WakeupStays, Zenon
<1> QED
  BY <1>1, <1>2, <1>3, ZenonT(60) DEF NoLostWakeup

(* Two sessions have two descriptors. *)
LEMMA DistinctFds ==
    ASSUME OwnerOK, NEW t \in Thread, NEW u \in Thread, u # t, wfd[u] # NoFd
    PROVE  wfd[t] # wfd[u]
BY Zenon DEF OwnerOK

(* Draining a pipe leaves the others' pipes alone. *)
LEMMA DrainStay ==
    ASSUME TypeOK, OwnerOK, NEW t \in Thread, DrainPipe(t),
           NEW u \in Thread, u # t, wfd[u] # NoFd
    PROVE  pipe'[wfd[u]] = pipe[wfd[u]]
BY DistinctFds, ZenonT(60) DEF DrainPipe, TypeOK, SharedType, SessionType, ScreenType

(* So does opening one. *)
LEMMA OpenStay ==
    ASSUME TypeOK, OwnerOK, NEW t \in Thread, OpenPipe(t),
           NEW u \in Thread, u # t
    PROVE  wfd'[u] = wfd[u] /\ (wfd[u] # NoFd => pipe'[wfd[u]] = pipe[wfd[u]])
<1>1. CASE wfd' = [wfd EXCEPT ![t] = NoFd] /\ UNCHANGED <<owner, pipe>>
  BY <1>1, ZenonT(60) DEF TypeOK, SharedType, SessionType, ScreenType
<1>2. ASSUME NEW f \in Fd, owner[f] = None,
             wfd' = [wfd EXCEPT ![t] = f], pipe' = [pipe EXCEPT ![f] = 0]
      PROVE  wfd'[u] = wfd[u] /\ (wfd[u] # NoFd => pipe'[wfd[u]] = pipe[wfd[u]])
  <2>1. wfd[u] # NoFd => wfd[u] # f
    BY <1>2, BusAssumption, ZenonT(60) DEF OwnerOK
  <2> QED
    BY <1>2, <2>1, ZenonT(60) DEF TypeOK, SharedType, SessionType, ScreenType
<1> QED
  BY <1>1, <1>2, ZenonT(60) DEF OpenPipe

(* A stored message is announced by its poster, who is at the lock. *)
LEMMA InsertWakes ==
    ASSUME TypeOK, ControlOK, NoLostWakeup, NEW t \in Thread, PostInsert(t)
    PROVE  NoLostWakeup'
<1>1. /\ room[t] \in Room /\ pc[t] = "insert" /\ pc'[t] # "poll"
      /\ UNCHANGED <<sub_fds, pipe, kind, wfd, room, screenVars, idx>>
      /\ \A u \in Thread : u # t => pc'[u] = pc[u]
  BY Zenon DEF PostInsert, At, ControlOK, Goto, TypeOK, SharedType, SessionType,
     ScreenType, AfterPost
<1>2. OthersStay(t) /\ ~Asleep(t)'
  BY <1>1, Zenon DEF OthersStay, Asleep, screenVars
<1>3. CASE UNCHANGED log
  BY <1>1, <1>2, <1>3, QuietStep, ZenonT(60)
<1>4. CASE log' = InsertMessage(log, room[t]) /\ pc'[t] = "lock"
  <2> SUFFICES ASSUME NEW u \in Thread, Asleep(u)'
               PROVE  ScreenFresh(u)' \/ WakeupComing(u)'
    BY Zenon DEF NoLostWakeup
  <2>1. u # t /\ Asleep(u)
    BY <1>1, <1>2, ZenonT(60) DEF Asleep, Listed, screenVars
  <2>2. CASE room[u] = room[t]
    BY <1>1, <1>4, <2>2, ZenonT(60) DEF WakeupComing
  <2>3. CASE room[u] # room[t]
    <3>1. IdsOf(log', room[u]) = IdsOf(log, room[u])
      BY <1>1, <1>4, <2>3, IdsAfterInsert, SMT, SMTT(60) DEF TypeOK, SharedType,
         SessionType, ScreenType
    <3>2. ScreenFresh(u) => ScreenFresh(u)'
      BY <1>1, <3>1, ZenonT(60) DEF ScreenFresh, Page, MessagesBefore, screenVars
    <3>3. WakeupComing(u) => WakeupComing(u)'
      BY <1>1, WakeupStays, ZenonT(60)
    <3> QED
      BY <2>1, <3>2, <3>3, ZenonT(60) DEF NoLostWakeup
  <2> QED
    BY <2>2, <2>3, ZenonT(60)
<1> QED
  BY <1>3, <1>4, ZenonT(60) DEF PostInsert, Goto, TypeOK, SharedType, SessionType, ScreenType

(* A step in or around a critical section, in terms of who is on the way. *)
LEMMA NotifyStep ==
    ASSUME NoLostWakeup, NEW t \in Thread, UNCHANGED log, OthersStay(t),
           ~Asleep(t)',
           \A u \in Thread : u # t /\ Asleep(u)' =>
              Listed(u) /\ (WakeupComing(u) => WakeupComing(u)')
    PROVE  NoLostWakeup'
<1> SUFFICES ASSUME NEW u \in Thread, Asleep(u)'
             PROVE  ScreenFresh(u)' \/ WakeupComing(u)'
  BY Zenon DEF NoLostWakeup
<1>1. u # t
  BY Zenon
<1>2. Asleep(u)
  BY <1>1, SMT, SMTT(60) DEF Asleep, OthersStay
<1>3. ScreenFresh(u) => ScreenFresh(u)'
  BY <1>1, Zenon DEF ScreenFresh, Page, OthersStay
<1> QED
  BY <1>1, <1>2, <1>3, ZenonT(60) DEF NoLostWakeup

(* The loop of chat_room_post starts below every entry. *)
LEMMA LockWakes ==
    ASSUME TypeOK, ControlOK, NoLostWakeup, NEW t \in Thread, PostLock(t)
    PROVE  NoLostWakeup'
<1>1. /\ pc[t] = "lock" /\ pc'[t] = "write" /\ idx'[t] = 1
      /\ UNCHANGED <<log, sub_fds, pipe, kind, wfd, room, screenVars>>
      /\ \A u \in Thread : u # t => pc'[u] = pc[u] /\ idx'[u] = idx[u]
  BY Zenon DEF PostLock, At, Goto, TypeOK, SharedType, SessionType, ScreenType
<1>2. OthersStay(t) /\ ~Asleep(t)'
  BY <1>1, ZenonT(60) DEF OthersStay, Asleep, screenVars
<1>3. ASSUME NEW u \in Thread, u # t, Asleep(u)'
      PROVE  Listed(u) /\ (WakeupComing(u) => WakeupComing(u)')
  <2>1. Listed(u) /\ room[u] \in Room
    BY <1>1, <1>3, ZenonT(60) DEF Asleep, Listed, ControlOK
  <2>2. PICK i \in DOMAIN sub_fds[room[u]] : sub_fds[room[u]][i] = wfd[u]
    BY <2>1, ZenonT(60) DEF Listed
  <2>3. i >= 1
    BY <2>1, <2>2, SMT, SMTT(60) DEF TypeOK, SharedType, SessionType, ScreenType
  <2> QED
    BY <1>1, <2>1, <2>2, <2>3, SMT, SMTT(60) DEF WakeupComing
<1> QED
  BY <1>1, <1>2, <1>3, NotifyStep, ZenonT(60)

(* A write fills the pipe it passes, or finds it full. *)
LEMMA WriteWakes ==
    ASSUME TypeOK, ControlOK, OwnerOK, LockOK, NoLostWakeup,
           NEW t \in Thread, PostWrite(t)
    PROVE  NoLostWakeup'
<1> DEFINE f == sub_fds[room[t]][idx[t]]
<1>1. /\ pc[t] = "write" /\ room[t] \in Room /\ idx[t] \in Nat
      /\ idx'[t] = idx[t] + 1
      /\ UNCHANGED <<log, sub_fds, pc, kind, wfd, room, screenVars>>
      /\ \A u \in Thread : u # t => idx'[u] = idx[u]
  BY ZenonT(60) DEF PostWrite, At, ControlOK, TypeOK, SharedType, SessionType, ScreenType
<1>2. f \in Fd \cup {NoFd}
  BY <1>1, SMT, SMTT(60) DEF PostWrite, TypeOK, SharedType, SessionType, ScreenType, LockOK
<1>3. /\ f # NoFd => pipe'[f] # 0
      /\ \A g \in Fd : g # f => pipe'[g] = pipe[g]
      /\ \A g \in Fd : pipe'[g] = 0 => pipe[g] = 0
  <2>1. CASE f # NoFd /\ pipe[f] < PipeCap
    <3>1. pipe' = [pipe EXCEPT ![f] = @ + 1]
      BY <2>1, ZenonT(60) DEF PostWrite
    <3> HIDE DEF f
    <3> QED
      BY <1>2, <2>1, <3>1, SMT, SMTT(60) DEF TypeOK, SharedType, SessionType, ScreenType
  <2>2. CASE f = NoFd \/ ~(pipe[f] < PipeCap)
    <3>1. pipe' = pipe
      BY <2>2, ZenonT(60) DEF PostWrite
    <3> HIDE DEF f
    <3> QED
      BY <1>2, <2>2, <3>1, BusAssumption, SMT, SMTT(60) DEF TypeOK, SharedType,
         SessionType, ScreenType
  <2> QED
    BY <2>1, <2>2, ZenonT(60)
<1>4. OthersStay(t) /\ ~Asleep(t)'
  BY <1>1, <1>3, SMT, SMTT(60) DEF OthersStay, Asleep, screenVars, TypeOK, SharedType,
     SessionType, ScreenType
<1>5. ASSUME NEW u \in Thread, u # t, Asleep(u)'
      PROVE  Listed(u) /\ (WakeupComing(u) => WakeupComing(u)')
  <2>1. Listed(u) /\ wfd[u] # f
    BY <1>1, <1>3, <1>5, ZenonT(60) DEF Asleep, Listed
  <2> SUFFICES ASSUME WakeupComing(u) PROVE WakeupComing(u)'
    BY <2>1, Zenon
  <2>2. PICK p \in Thread : /\ room[p] = room[u]
                            /\ \/ pc[p] = "lock"
                               \/ pc[p] = "write" /\ \E i \in DOMAIN sub_fds[room[u]] :
                                    i >= idx[p] /\ sub_fds[room[u]][i] = wfd[u]
    BY Zenon DEF WakeupComing
  <2>3. CASE p # t
    BY <1>1, <2>2, <2>3, ZenonT(60) DEF WakeupComing
  <2>4. CASE p = t
    <3>1. PICK i \in DOMAIN sub_fds[room[u]] : i >= idx[t] /\ sub_fds[room[u]][i] = wfd[u]
      BY <1>1, <2>2, <2>4, ZenonT(60)
    <3>2. i # idx[t] /\ i \in Nat
      BY <1>1, <2>1, <2>2, <2>4, <3>1, SMT, SMTT(60) DEF TypeOK, SharedType, SessionType,
         ScreenType
    <3>3. i >= idx'[t]
      BY <1>1, <3>1, <3>2, SMT, SMTT(60)
    <3> QED
      BY <1>1, <2>2, <2>4, <3>1, <3>3, ZenonT(60) DEF WakeupComing
  <2> QED
    BY <2>3, <2>4, ZenonT(60)
<1> QED
  BY <1>1, <1>4, <1>5, NotifyStep, ZenonT(60)

(* The loop ends behind every entry. *)
LEMMA UnlockWakes ==
    ASSUME TypeOK, ControlOK, NoLostWakeup, NEW t \in Thread, PostUnlock(t)
    PROVE  NoLostWakeup'
<1>1. /\ pc[t] = "write" /\ room[t] \in Room /\ pc'[t] # "poll"
      /\ idx[t] > Len(sub_fds[room[t]])
      /\ UNCHANGED <<log, sub_fds, pipe, kind, wfd, room, screenVars>>
      /\ \A u \in Thread : u # t => pc'[u] = pc[u] /\ idx'[u] = idx[u]
  BY Zenon DEF PostUnlock, At, ControlOK, Goto, TypeOK, SharedType, SessionType,
     ScreenType, AfterPost
<1>2. OthersStay(t) /\ ~Asleep(t)'
  BY <1>1, ZenonT(60) DEF OthersStay, Asleep, screenVars
<1>3. ASSUME NEW u \in Thread, u # t, Asleep(u)'
      PROVE  Listed(u) /\ (WakeupComing(u) => WakeupComing(u)')
  <2>1. Listed(u)
    BY <1>1, <1>3, ZenonT(60) DEF Asleep, Listed
  <2>2. ASSUME room[t] = room[u], NEW i \in DOMAIN sub_fds[room[u]]
        PROVE  ~(i >= idx[t])
    <3>1. sub_fds[room[t]] \in Seq(Fd \cup {NoFd}) /\ idx[t] \in Nat
      BY <1>1, ZenonT(60) DEF TypeOK, SharedType, SessionType, ScreenType
    <3> QED
      BY <1>1, <2>2, <3>1, SMT, SMTT(60)
  <2> QED
    BY <1>1, <2>1, <2>2, ZenonT(60) DEF WakeupComing
<1> QED
  BY <1>1, <1>2, <1>3, NotifyStep, ZenonT(60)

(* Lists change only while nobody writes to their entries. *)
LEMMA ListStep ==
    ASSUME TypeOK, ControlOK, OwnerOK, LockOK, NoLostWakeup,
           NEW t \in Thread, Subscribe(t) \/ Unsubscribe(t)
    PROVE  NoLostWakeup'
<1> DEFINE s == sub_fds[room[t]]
<1>1. /\ room[t] \in Room /\ lock[room[t]] = None
      /\ pc[t] \in {"subscribe", "unsubscribe"} /\ pc'[t] \in {"join", "render", "clear"}
      /\ UNCHANGED <<log, pipe, kind, wfd, room, screenVars, idx>>
      /\ \A u \in Thread : u # t => pc'[u] = pc[u]
  BY ZenonT(60) DEF Subscribe, Unsubscribe, At, ControlOK, Goto, TypeOK, SharedType,
     SessionType, ScreenType
<1>2. OthersStay(t) /\ ~Asleep(t)'
  BY <1>1, Zenon DEF OthersStay, Asleep, screenVars
<1>3. s \in Seq(Fd \cup {NoFd})
  BY <1>1, ZenonT(60) DEF TypeOK, SharedType, SessionType, ScreenType
<1>4. /\ \A r \in Room : r # room[t] => sub_fds'[r] = sub_fds[r]
      /\ sub_fds'[room[t]] \in {WithFd(s, wfd[t]), WithoutFd(s, wfd[t])}
  BY <1>1, ZenonT(60) DEF Subscribe, Unsubscribe, TypeOK, SharedType, SessionType, ScreenType
<1>5. \A i \in DOMAIN sub_fds'[room[t]] :
        \/ sub_fds'[room[t]][i] = wfd[t]
        \/ \E j \in DOMAIN s : sub_fds'[room[t]][i] = s[j]
  <2>1. CASE sub_fds'[room[t]] = WithFd(s, wfd[t])
    <3> HIDE DEF s
    <3> QED
      BY <1>3, <2>1, SMT, SMTT(60) DEF WithFd
  <2>2. CASE sub_fds'[room[t]] = WithoutFd(s, wfd[t]) /\ \E j \in DOMAIN s : s[j] = wfd[t]
    <3>1. /\ Len(WithoutFd(s, wfd[t])) = Len(s) - 1
          /\ WithoutFd(s, wfd[t]) \in Seq(Fd \cup {NoFd})
          /\ \A i \in DOMAIN WithoutFd(s, wfd[t]) :
                \/ WithoutFd(s, wfd[t])[i] = s[Len(s)]
                \/ WithoutFd(s, wfd[t])[i] = s[i]
      <4>1. \A i \in DOMAIN WithoutFd(s, wfd[t]) : WithoutFd(s, wfd[t])[i] =
                IF i = FirstAt(s, wfd[t]) THEN s[Len(s)] ELSE s[i]
        BY <1>3, <2>2, WithoutFdFacts, SMT, SMTT(60)
      <4>2. /\ Len(WithoutFd(s, wfd[t])) = Len(s) - 1
            /\ WithoutFd(s, wfd[t]) \in Seq(Fd \cup {NoFd})
        BY <1>3, <2>2, WithoutFdFacts, SMT, SMTT(60)
      <4> QED
        BY <4>1, <4>2, ZenonT(60)
    <3> HIDE DEF s
    <3>2. DOMAIN WithoutFd(s, wfd[t]) = 1..(Len(s) - 1) /\ DOMAIN s = 1..Len(s) /\ Len(s) \in Nat
      BY <1>3, <3>1, SMT, SMTT(60)
    <3> QED
      BY <2>2, <3>1, <3>2, SMT, SMTT(60)
  <2>3. CASE sub_fds'[room[t]] = WithoutFd(s, wfd[t]) /\ ~ \E j \in DOMAIN s : s[j] = wfd[t]
    BY <2>3, Zenon DEF WithoutFd
  <2> QED
    BY <1>4, <2>1, <2>2, <2>3, ZenonT(60)
<1>6. ASSUME NEW u \in Thread, u # t, Asleep(u)'
      PROVE  Listed(u) /\ (WakeupComing(u) => WakeupComing(u)')
  <2>1. room[u] \in Room /\ wfd[u] # NoFd /\ wfd[u] # wfd[t]
    BY <1>1, <1>6, DistinctFds, ZenonT(60) DEF Asleep, ControlOK
  <2>2. CASE room[u] # room[t]
    <3>1. sub_fds'[room[u]] = sub_fds[room[u]]
      BY <1>4, <2>1, <2>2, ZenonT(60)
    <3> QED
      BY <1>1, <1>6, <3>1, SMT, SMTT(60) DEF Asleep, Listed, WakeupComing
  <2>3. CASE room[u] = room[t]
    <3>1. Listed(u)
      BY <1>1, <1>5, <1>6, <2>1, <2>3, SMT, SMTT(60) DEF Asleep, Listed
    <3>2. \A p \in Thread : room[p] = room[u] => pc[p] # "write"
      BY <1>1, <2>3, BusAssumption, SMT, SMTT(60) DEF LockOK
    <3> QED
      BY <1>1, <3>1, <3>2, ZenonT(60) DEF WakeupComing
  <2> QED
    BY <2>2, <2>3, ZenonT(60)
<1> QED
  BY <1>1, <1>2, <1>6, NotifyStep, ZenonT(60)

(* Every step keeps wake-ups from being lost. *)
LEMMA WakeupStep ==
    ASSUME TypeOK, ControlOK, OwnerOK, LockOK, NoLostWakeup, [Next]_vars
    PROVE  NoLostWakeup'
<1> USE DEF TypeOK, SharedType, SessionType, ScreenType, OthersStay
<1>1. ASSUME NEW t \in Thread, OpenTelnet(t)
      PROVE  NoLostWakeup'
  <2>1. UNCHANGED <<log, sub_fds>> /\ pc[t] \notin {"lock", "write"}
    BY <1>1, ZenonT(60) DEF OpenTelnet, At, shared
  <2>2. OthersStay(t)
    BY <1>1, OpenStay, ZenonT(60) DEF OpenTelnet, Goto, screenVars, shared
  <2>3. Asleep(t)' => ScreenFresh(t)' \/ WakeupComing(t)'
    BY <1>1, ZenonT(60) DEF Asleep, OpenTelnet, Goto, At, ControlOK, TelnetPCs, screenVars
  <2> QED
    BY <2>1, <2>2, <2>3, QuietStep, SMT, SMTT(60)
<1>2. ASSUME NEW t \in Thread, NEW k \in Serves[t] \ {"telnet"}, NEW r \in Room,
             OpenHttp(t, k, r)
      PROVE  NoLostWakeup'
  <2>1. UNCHANGED <<log, sub_fds>> /\ pc[t] \notin {"lock", "write"}
    BY <1>2, ZenonT(60) DEF OpenHttp, At, shared
  <2>2. OthersStay(t)
    BY <1>2, OpenStay, SMT, SMTT(60) DEF OpenHttp, Goto, screenVars, shared
  <2>3. Asleep(t)' => ScreenFresh(t)' \/ WakeupComing(t)'
    BY <1>2, ZenonT(60) DEF Asleep, OpenHttp, Goto, At, ControlOK, TelnetPCs, screenVars
  <2> QED
    BY <2>1, <2>2, <2>3, QuietStep, SMT, SMTT(60)
<1>3. ASSUME NEW t \in Thread, Close(t)
      PROVE  NoLostWakeup'
  <2>1. UNCHANGED <<log, sub_fds>> /\ pc[t] \notin {"lock", "write"}
    BY <1>3, ZenonT(60) DEF Close, At, shared
  <2>2. OthersStay(t)
    BY <1>3, DistinctFds, ZenonT(60) DEF Close, Goto, screenVars, shared
  <2>3. Asleep(t)' => ScreenFresh(t)' \/ WakeupComing(t)'
    BY <1>3, SMT, SMTT(60) DEF Asleep, Close, Goto, At, ControlOK, TelnetPCs, screenVars
  <2> QED
    BY <2>1, <2>2, <2>3, QuietStep, ZenonT(60)
<1>4. ASSUME NEW t \in Thread, Clear(t)
      PROVE  NoLostWakeup'
  <2>1. UNCHANGED <<log, sub_fds>> /\ pc[t] \notin {"lock", "write"}
    BY <1>4, ZenonT(60) DEF Clear, At, shared
  <2>2. OthersStay(t)
    BY <1>4, ZenonT(60) DEF Clear, Goto, screenVars, shared
  <2>3. Asleep(t)' => ScreenFresh(t)' \/ WakeupComing(t)'
    BY <1>4, ZenonT(60) DEF Asleep, Clear, Goto, At, ControlOK, TelnetPCs, screenVars
  <2> QED
    BY <2>1, <2>2, <2>3, QuietStep, Zenon
<1>5. ASSUME NEW t \in Thread, NEW r \in Room, EnterRoom(t, r)
      PROVE  NoLostWakeup'
  <2>1. UNCHANGED <<log, sub_fds>> /\ pc[t] \notin {"lock", "write"}
    BY <1>5, ZenonT(60) DEF EnterRoom, At, shared
  <2>2. OthersStay(t)
    BY <1>5, ZenonT(60) DEF EnterRoom, Goto, screenVars, shared
  <2>3. Asleep(t)' => ScreenFresh(t)' \/ WakeupComing(t)'
    BY <1>5, SMT, SMTT(60) DEF Asleep, EnterRoom, Goto, At, ControlOK, TelnetPCs, screenVars
  <2> QED
    BY <2>1, <2>2, <2>3, QuietStep, SMT, SMTT(60)
<1>6. ASSUME NEW t \in Thread, Hangup(t)
      PROVE  NoLostWakeup'
  <2>1. UNCHANGED <<log, sub_fds>> /\ pc[t] \notin {"lock", "write"}
    BY <1>6, ZenonT(60) DEF Hangup, At, shared
  <2>2. OthersStay(t)
    BY <1>6, ZenonT(60) DEF Hangup, Goto, screenVars, shared
  <2>3. Asleep(t)' => ScreenFresh(t)' \/ WakeupComing(t)'
    BY <1>6, ZenonT(60) DEF Asleep, Hangup, Goto, At, ControlOK, TelnetPCs, screenVars
  <2> QED
    BY <2>1, <2>2, <2>3, QuietStep, Zenon
<1>7. ASSUME NEW t \in Thread,
             Subscribe(t) \/ Unsubscribe(t)
      PROVE  NoLostWakeup'
  BY <1>7, ListStep, ZenonT(60)
<1>8. ASSUME NEW t \in Thread, PostInsert(t)
      PROVE  NoLostWakeup'
  BY <1>8, InsertWakes, ZenonT(60)
<1>9. ASSUME NEW t \in Thread, PostLock(t)
      PROVE  NoLostWakeup'
  BY <1>9, LockWakes, ZenonT(60)
<1>10. ASSUME NEW t \in Thread, PostWrite(t)
       PROVE  NoLostWakeup'
  BY <1>10, WriteWakes, SMT, SMTT(60)
<1>11. ASSUME NEW t \in Thread, PostUnlock(t)
       PROVE  NoLostWakeup'
  BY <1>11, UnlockWakes, Zenon
<1>12. ASSUME NEW t \in Thread, Render(t)
       PROVE  NoLostWakeup'
  <2>1. UNCHANGED <<log, sub_fds>> /\ pc[t] \notin {"lock", "write"}
    BY <1>12, ZenonT(60) DEF Render, At, shared
  <2>2. OthersStay(t)
    BY <1>12, ZenonT(60) DEF Render, Goto, screenVars, shared
  <2>3. Asleep(t)' => ScreenFresh(t)' \/ WakeupComing(t)'
    <3>1. screen'[t] = Page(t) /\ UNCHANGED <<log, room, at_live>>
      BY <1>12, SMT, SMTT(60) DEF Render, shared
    <3> QED
      BY <3>1, ZenonT(60) DEF Asleep, ScreenFresh, Page
  <2> QED
    BY <2>1, <2>2, <2>3, QuietStep, Zenon
<1>13. ASSUME NEW t \in Thread, TelnetWake(t)
       PROVE  NoLostWakeup'
  <2>1. UNCHANGED <<log, sub_fds>> /\ pc[t] \notin {"lock", "write"}
    BY <1>13, ZenonT(60) DEF TelnetWake, At, shared
  <2>2. OthersStay(t)
    BY <1>13, DrainStay, ZenonT(60) DEF TelnetWake, Goto, screenVars, shared
  <2>3. Asleep(t)' => ScreenFresh(t)' \/ WakeupComing(t)'
    BY <1>13, SMT, SMTT(60) DEF Asleep, TelnetWake, Goto, At, ControlOK, TelnetPCs,
       screenVars
  <2> QED
    BY <2>1, <2>2, <2>3, QuietStep, Zenon
<1>14. ASSUME NEW t \in Thread, Refresh(t)
       PROVE  NoLostWakeup'
  <2>1. UNCHANGED <<log, sub_fds>> /\ pc[t] \notin {"lock", "write"}
    BY <1>14, ZenonT(60) DEF Refresh, At, shared
  <2>2. OthersStay(t)
    BY <1>14, ZenonT(60) DEF Refresh, Goto, screenVars, shared
  <2>3. Asleep(t)' => ScreenFresh(t)' \/ WakeupComing(t)'
    BY <1>14, ZenonT(60) DEF Asleep, Refresh, Goto, At, ControlOK, TelnetPCs, screenVars
  <2> QED
    BY <2>1, <2>2, <2>3, QuietStep, Zenon
<1>15. ASSUME NEW t \in Thread, KeyCompose(t)
       PROVE  NoLostWakeup'
  BY <1>15, WakeupStutter, SMT, SMTT(60) DEF KeyCompose, shared
<1>16. ASSUME NEW t \in Thread,
              KeyOlder(t) \/ KeyNewest(t) \/ KeyLeave(t)
       PROVE  NoLostWakeup'
  <2>1. UNCHANGED <<log, sub_fds>> /\ pc[t] \notin {"lock", "write"}
    BY <1>16, ZenonT(60) DEF KeyOlder, KeyNewest, KeyLeave, At, InRoomKey, shared
  <2>2. OthersStay(t)
    BY <1>16, SMT, SMTT(60) DEF KeyOlder, KeyNewest, KeyLeave, Goto, screenVars, shared
  <2>3. Asleep(t)' => ScreenFresh(t)' \/ WakeupComing(t)'
    BY <1>16, SMT, SMTT(60) DEF Asleep, KeyOlder, KeyNewest, KeyLeave, Goto, At, ControlOK,
       TelnetPCs, screenVars
  <2> QED
    BY <2>1, <2>2, <2>3, QuietStep, Zenon
<1>17. ASSUME NEW t \in Thread,
              KeyCancel(t) \/ KeySend(t) \/ KeySendEmpty(t)
       PROVE  NoLostWakeup'
  <2>1. UNCHANGED <<log, sub_fds>> /\ pc[t] \notin {"lock", "write"}
    BY <1>17, ZenonT(60) DEF KeyCancel, KeySend, KeySendEmpty, At, ComposeKey, shared
  <2>2. OthersStay(t)
    BY <1>17, SMT, SMTT(60) DEF KeyCancel, KeySend, KeySendEmpty, Goto, screenVars, shared
  <2>3. Asleep(t)' => ScreenFresh(t)' \/ WakeupComing(t)'
    BY <1>17, SMT, SMTT(60) DEF Asleep, KeyCancel, KeySend, KeySendEmpty, Goto, At,
       ControlOK, TelnetPCs, screenVars
  <2> QED
    BY <2>1, <2>2, <2>3, QuietStep, Zenon
<1>18. ASSUME NEW t \in Thread,
              SseTail(t) \/ SseJoin(t) \/ SseFetch(t) \/ SseSent(t)
       PROVE  NoLostWakeup'
  <2>1. UNCHANGED <<log, sub_fds>> /\ pc[t] \notin {"lock", "write"}
    BY <1>18, ZenonT(60) DEF SseTail, SseJoin, SseFetch, SseSent, At, shared
  <2>2. OthersStay(t)
    BY <1>18, ZenonT(60) DEF SseTail, SseJoin, SseFetch, SseSent, Goto, screenVars, shared
  <2>3. Asleep(t)' => ScreenFresh(t)' \/ WakeupComing(t)'
    BY <1>18, ZenonT(60) DEF Asleep, SseTail, SseJoin, SseFetch, SseSent, Goto, At,
       ControlOK, TelnetPCs, screenVars
  <2> QED
    BY <2>1, <2>2, <2>3, QuietStep, Zenon
<1>19. ASSUME NEW t \in Thread, SseWake(t)
       PROVE  NoLostWakeup'
  <2>1. UNCHANGED <<log, sub_fds>> /\ pc[t] \notin {"lock", "write"}
    BY <1>19, ZenonT(60) DEF SseWake, At, shared
  <2>2. OthersStay(t)
    BY <1>19, DrainStay, SMT, SMTT(60) DEF SseWake, Goto, screenVars, shared
  <2>3. Asleep(t)' => ScreenFresh(t)' \/ WakeupComing(t)'
    BY <1>19, SMT, SMTT(60) DEF Asleep, SseWake, Goto, At, ControlOK, TelnetPCs, screenVars
  <2> QED
    BY <2>1, <2>2, <2>3, QuietStep, Zenon
<1>20. ASSUME NEW t \in Thread,
              SseKeepalive(t) \/ SseSend(t)
       PROVE  NoLostWakeup'
  <2>1. UNCHANGED <<log, sub_fds>> /\ pc[t] \notin {"lock", "write"}
    BY <1>20, SMT, SMTT(60) DEF SseKeepalive, SseSend, At, shared
  <2>2. OthersStay(t)
    BY <1>20, SMT, SMTT(60) DEF SseKeepalive, SseSend, Goto, screenVars, shared
  <2>3. Asleep(t)' => ScreenFresh(t)' \/ WakeupComing(t)'
    BY <1>20, SMT, SMTT(60) DEF Asleep, SseKeepalive, SseSend, Goto, At, ControlOK,
       TelnetPCs, screenVars
  <2> QED
    BY <2>1, <2>2, <2>3, QuietStep, Zenon
<1>21. CASE UNCHANGED vars
  BY <1>21, WakeupStutter, ZenonT(60) DEF vars, shared, screenVars
<1> QED
  BY <1>1, <1>2, <1>3, <1>4, <1>5, <1>6, <1>7, <1>8, <1>9, <1>10, <1>11, <1>12,
     <1>13, <1>14, <1>15, <1>16, <1>17, <1>18, <1>19, <1>20, <1>21, Zenon DEF Next,
     UserStep, ThreadStep

-----------------------------------------------------------------------------
(* Theorems *)

(***************************************************************************)
(* The inductive invariant: it holds initially and every step keeps it.    *)
(***************************************************************************)
THEOREM BusInvariant == Spec => []BusInv
<1>1. Init => BusInv
  <2> SUFFICES ASSUME Init PROVE BusInv
    BY ZenonT(60)
  <2> USE BusAssumption DEF Init
  <2>1. TypeOK
    BY SMT, SMTT(60) DEF TypeOK, SharedType, SessionType, ScreenType, StreamType, SubsFit,
       PCs, Kinds
  <2>2. ControlOK /\ OwnerOK /\ LockOK
    BY ZenonT(60) DEF ControlOK, OwnerOK, LockOK
  <2>3. SubscribersLive /\ NoLostWakeup
    BY SMT, SMTT(60) DEF SubscribersLive, NoLostWakeup, Asleep
  <2>4. StreamOK
    BY Zenon DEF StreamOK, OnAir
  <2> QED
    BY <2>1, <2>2, <2>3, <2>4, ZenonT(60) DEF BusInv
<1>2. BusInv /\ [Next]_vars => BusInv'
  BY TypeStep, ControlStep, OwnerStep, LockStep, SubscribersStep, WakeupStep,
     StreamStep, Zenon DEF BusInv
<1> QED
  BY <1>1, <1>2, PTL DEF Spec

(* Type correctness of every reachable state of the bus. *)
THEOREM TypeCorrect == Spec => []TypeOK
<1>1. BusInv => TypeOK
  BY Zenon DEF BusInv
<1> QED
  BY <1>1, BusInvariant, PTL

(***************************************************************************)
(* For any number of threads, rooms and descriptors, chat_room_post writes *)
(* only to open pipes of sessions that are visiting the room.              *)
(***************************************************************************)
THEOREM NoStaleSubscriber == Spec => []SubscribersLive
<1>1. BusInv => SubscribersLive
  BY ZenonT(60) DEF BusInv
<1> QED
  BY <1>1, BusInvariant, PTL

(***************************************************************************)
(* For any number of threads and any pipe capacity, a listed telnet        *)
(* session that sleeps over its live page shows the newest message or is   *)
(* about to be woken.                                                      *)
(***************************************************************************)
THEOREM WakeupNotLost == Spec => []NoLostWakeup
<1>1. BusInv => NoLostWakeup
  BY ZenonT(60) DEF BusInv
<1> QED
  BY <1>1, BusInvariant, PTL

(***************************************************************************)
(* For any batch size, an event stream has sent exactly the messages       *)
(* between its start and its cursor, each once and in order.               *)
(***************************************************************************)
THEOREM StreamIsExact == Spec => []StreamExact
<1>1. BusInv => StreamExact
  BY Zenon DEF BusInv, StreamOK, StreamExact, OnAir
<1> QED
  BY <1>1, BusInvariant, PTL

(* The history variables of BusVisits restrict nothing. *)
LEMMA VisitsAreRuns == VisitSpec => Spec
<1>1. VisitInit => Init
  BY Zenon DEF VisitInit
<1>2. [VisitNext]_visitVars => [Next]_vars
  BY Zenon DEF VisitNext, visitVars
<1> QED  BY <1>1, <1>2, PTL DEF VisitSpec, Spec

(***************************************************************************)
(* chat_room_subscribe drops a subscriber only in a room that has as many  *)
(* visitors as the list has places: any other visitor with a pipe is in    *)
(* the list of its room until chat_room_unsubscribe, whoever else comes,   *)
(* goes and is swapped around meanwhile.  The lists have to be matched     *)
(* with the visitors for this, entry by entry, or a list could be full of  *)
(* entries that belong to nobody.  For any finite number of threads.       *)
(***************************************************************************)
THEOREM VisitorsAreListed ==
    ASSUME IsFiniteSet(Thread)
    PROVE  VisitSpec => []VisitorListed
<1> DEFINE LInv == Matched /\ VisitorListed
<1>1. VisitInit => LInv
  <2> SUFFICES ASSUME VisitInit PROVE LInv
    BY Zenon
  <2>1. ASSUME NEW r \in Room PROVE \E h : Match(h, r)
    <3>1. sub_fds[r] = <<>> /\ DOMAIN sub_fds[r] = {}
      BY DEF VisitInit, Init
    <3>2. Match([i \in {} |-> None], r)
      BY <3>1, Zenon DEF Match
    <3> QED  BY <3>2, ZenonT(60)
  <2>2. VisitorListed
    BY Zenon DEF VisitInit, Init, VisitorListed, Subscribed
  <2> QED  BY <2>1, <2>2, Zenon DEF Matched
<1>2. BusInv /\ LInv /\ [VisitNext]_visitVars => LInv'
  <2>1. [VisitNext]_visitVars => [Next]_vars
    BY Zenon DEF VisitNext, visitVars
  <2> QED  BY <2>1, MatchedStep, ListedStep, ZenonT(60) DEF BusInv
<1> QED
  BY <1>1, <1>2, VisitsAreRuns, BusInvariant, PTL DEF VisitSpec

(***************************************************************************)
(* Whatever names the users have, a row of the presence table belongs to a *)
(* visitor, however earlier visits ended, and a visitor without a row has  *)
(* lost it to a visitor of the same name who left the room.                *)
(***************************************************************************)
THEOREM PresenceIsExact == VisitSpec => []PresenceExact
<1>1. VisitInit => RowsOK
  BY Zenon DEF VisitInit, Init, RowsOK, HasRow
<1>2. BusInv /\ RowsOK /\ [VisitNext]_visitVars => RowsOK'
  BY RowsStep, ZenonT(60) DEF BusInv
<1>3. RowsOK => PresenceExact
  BY Zenon DEF RowsOK, PresenceExact
<1> QED
  BY <1>1, <1>2, <1>3, VisitsAreRuns, BusInvariant, PTL DEF VisitSpec

-----------------------------------------------------------------------------
(* The feed *)

(* A step that leaves the table and every running stream alone is invisible. *)
LEMMA FeedSame ==
    ASSUME UNCHANGED log,
           \A u \in Thread :
              /\ OnStream(u)' <=> OnStream(u)
              /\ OnStream(u) => /\ room'[u] = room[u] /\ first'[u] = first[u]
                                /\ sent'[u] = sent[u]
    PROVE  UNCHANGED Feed!feedVars
<1>1. FeedTuned' = FeedTuned
  BY Zenon DEF FeedTuned
<1>2. FeedStart' = FeedStart
  BY Zenon DEF FeedStart
<1>3. FeedGot' = FeedGot
  BY Zenon DEF FeedGot
<1> QED
  BY <1>1, <1>2, <1>3, ZenonT(60) DEF Feed!feedVars

(* So is a step of one thread that neither goes on the air nor off it. *)
LEMMA StepSame ==
    ASSUME NEW t \in Thread, UNCHANGED <<log, kind, room, first, sent>>,
           \A u \in Thread : u # t => pc'[u] = pc[u],
           kind[t] = "sse" => (pc'[t] \in OnAir <=> pc[t] \in OnAir)
    PROVE  UNCHANGED Feed!feedVars
<1>1. \A u \in Thread : OnStream(u)' <=> OnStream(u)
  BY Zenon DEF OnStream
<1> QED
  BY <1>1, FeedSame, Zenon

(* Storing a message is a post. *)
LEMMA InsertIsPost ==
    ASSUME BusInv, NEW t \in Thread, PostInsert(t)
    PROVE  [Feed!FeedNext]_(Feed!feedVars)
<1>1. room[t] \in Room /\ kind[t] # "sse"
  BY ZenonT(60) DEF PostInsert, At, BusInv, ControlOK, SsePCs
<1>2. /\ UNCHANGED <<kind, room, first, sent>>
      /\ \A u \in Thread : kind[u] = "sse" => pc'[u] = pc[u]
  BY <1>1, ZenonT(60) DEF PostInsert, Goto, streamVars, BusInv, TypeOK, SessionType
<1>3. \A u \in Thread : OnStream(u)' <=> OnStream(u)
  BY <1>2, Zenon DEF OnStream
<1>4. CASE UNCHANGED log
  BY <1>2, <1>3, <1>4, FeedSame, ZenonT(60)
<1>5. CASE log' = InsertMessage(log, room[t])
  <2>1. /\ UNCHANGED <<FeedTuned, FeedStart, FeedGot>>
    BY <1>2, <1>3, Zenon DEF FeedTuned, FeedStart, FeedGot
  <2>2. log' = Feed!InsertMessage(log, room[t])
    BY <1>5, Zenon DEF InsertMessage, Feed!InsertMessage
  <2>3. Feed!Post(room[t])
    BY <2>1, <2>2, ZenonT(60) DEF Feed!Post
  <2> QED
    BY <1>1, <2>3, Zenon DEF Feed!FeedNext
<1> QED
  BY <1>4, <1>5, ZenonT(60) DEF PostInsert

(* Reading the room's newest id tunes in. *)
LEMMA TailTunesIn ==
    ASSUME BusInv, NEW t \in Thread, SseTail(t)
    PROVE  Feed!TuneIn(t, room[t]) /\ room[t] \in Room
<1> USE DEF BusInv, TypeOK, SessionType
<1>1. /\ kind[t] = "sse" /\ pc[t] = "tail" /\ sent[t] = <<>> /\ room[t] \in Room
  BY ZenonT(60) DEF SseTail, At, ControlOK, TelnetPCs, RestPCs, Kinds, StreamOK
<1>2. /\ UNCHANGED <<log, kind, room, sent>>
      /\ first' = [first EXCEPT ![t] = MaxMessageId(log, room[t])]
      /\ pc' = [pc EXCEPT ![t] = "subscribe"]
  BY Zenon DEF SseTail, Goto, shared
<1>3. /\ ~OnStream(t) /\ OnStream(t)'
      /\ \A u \in Thread : u # t => (OnStream(u)' <=> OnStream(u))
  BY <1>1, <1>2, ZenonT(60) DEF OnStream, OnAir
<1>4. FeedTuned[t] = None /\ FeedTuned' = [FeedTuned EXCEPT ![t] = room[t]]
  BY <1>2, <1>3, ZenonT(60) DEF FeedTuned
<1>5. FeedStart' = [FeedStart EXCEPT ![t] = MaxMessageId(log, room[t])]
  BY <1>2, <1>3, ZenonT(60) DEF FeedStart, StreamType
<1>6. FeedGot' = FeedGot
  BY <1>1, <1>2, <1>3, ZenonT(60) DEF FeedGot
<1>7. MaxMessageId(log, room[t]) = Feed!MaxMessageId(log, room[t])
  BY Zenon DEF MaxMessageId, Feed!MaxMessageId, IdsOf, Feed!IdsOf, Max, Feed!Max
<1> QED
  BY <1>1, <1>2, <1>4, <1>5, <1>6, <1>7, SMT, SMTT(60) DEF Feed!TuneIn

(* The end of the loop tunes out. *)
LEMMA EndTunesOut ==
    ASSUME BusInv, NEW t \in Thread, OnStream(t), ~OnStream(t)', UNCHANGED log,
           \A u \in Thread : u # t =>
              /\ OnStream(u)' <=> OnStream(u)
              /\ room'[u] = room[u] /\ first'[u] = first[u] /\ sent'[u] = sent[u]
    PROVE  Feed!TuneOut(t)
<1>1. room[t] \in Room /\ None \notin Room
  BY BusAssumption, ZenonT(60) DEF BusInv, ControlOK, OnStream, OnAir
<1>2. FeedTuned[t] # None /\ FeedTuned' = [FeedTuned EXCEPT ![t] = None]
  BY <1>1, Zenon DEF FeedTuned
<1>3. FeedStart' = [FeedStart EXCEPT ![t] = 0]
  BY Zenon DEF FeedStart
<1>4. FeedGot' = [FeedGot EXCEPT ![t] = <<>>]
  BY Zenon DEF FeedGot
<1> QED
  BY <1>2, <1>3, <1>4, ZenonT(60) DEF Feed!TuneOut

(***************************************************************************)
(* What a stream on the air has not sent are the messages above its        *)
(* cursor: none lies between its last frame and the cursor.                *)
(***************************************************************************)
LEMMA WaitingIsNew ==
    ASSUME BusInv, NEW t \in Thread, OnStream(t)
    PROVE  Feed!Waiting(t) = NewIds(t)
<1> DEFINE ids == IdsOf(log, room[t])
           s == sent[t]
           pos == IF s = <<>> THEN first[t] ELSE s[Len(s)]
<1>1. /\ ids \in SUBSET Nat /\ s \in Seq(Nat)
      /\ first[t] \in Nat /\ cursor[t] \in Nat
  BY IdsType, SMT, SMTT(60) DEF BusInv, TypeOK, SharedType, StreamType
<1>2. /\ first[t] <= cursor[t]
      /\ {s[i] : i \in DOMAIN s} = {i \in ids : first[t] < i /\ i <= cursor[t]}
      /\ \A i, j \in DOMAIN s : i < j => s[i] < s[j]
  BY Zenon DEF BusInv, StreamOK, OnStream
<1>3. Feed!Waiting(t) = {i \in ids : i > pos}
  <2>1. FeedTuned[t] = room[t] /\ FeedStart[t] = first[t] /\ FeedGot[t] = s
    BY Zenon DEF FeedTuned, FeedStart, FeedGot
  <2> QED
    BY <2>1, ZenonT(60) DEF Feed!Waiting, Feed!Position, Feed!IdsOf, IdsOf
<1>4. NewIds(t) = {i \in ids : i > cursor[t]}
  BY Zenon DEF NewIds
<1> HIDE DEF ids, s
<1>5. pos \in Nat /\ pos <= cursor[t] /\ \A i \in ids : i <= cursor[t] => i <= pos
  <2>1. CASE s = <<>>
    <3>1. {s[i] : i \in DOMAIN s} = {} /\ pos = first[t]
      BY <2>1, SMT, SMTT(60)
    <3> HIDE DEF pos
    <3>2. \A i \in ids : ~(first[t] < i /\ i <= cursor[t])
      BY <1>2, <3>1, ZenonT(60)
    <3>3. /\ first[t] \in Nat /\ cursor[t] \in Nat /\ first[t] <= cursor[t]
          /\ pos = first[t] /\ \A i \in ids : i \in Nat
      BY <1>1, <1>2, <3>1, ZenonT(60)
    <3>4. pos \in Nat /\ pos <= cursor[t]
      BY <3>3, ZenonT(60)
    <3>5. ASSUME NEW i \in ids, i <= cursor[t] PROVE i <= pos
      <4>1. i \in Nat /\ pos \in Nat /\ ~(pos < i)
        BY <3>2, <3>3, <3>5, ZenonT(60)
      <4> QED
        BY <4>1, SMT, SMTT(60)
    <3> QED
      BY <3>4, <3>5, ZenonT(60)
  <2>2. CASE s # <<>>
    <3>1. Len(s) \in DOMAIN s /\ DOMAIN s = 1..Len(s) /\ Len(s) \in Nat
      <4>1. s \in Seq(Nat)
        BY <1>1, ZenonT(60)
      <4> QED
        BY <2>2, <4>1, LastPosition, ZenonT(60)
    <3>2. s[Len(s)] \in {i \in ids : first[t] < i /\ i <= cursor[t]}
      BY <1>2, <3>1, ZenonT(60)
    <3>3. \A i \in DOMAIN s : s[i] <= s[Len(s)]
      BY <1>1, <1>2, <3>1, SMT, SMTT(60)
    <3>4. ASSUME NEW i \in ids, i <= cursor[t] PROVE i <= s[Len(s)]
      <4>1. CASE first[t] < i
        <5>1. PICK j \in DOMAIN s : s[j] = i
          BY <1>2, <3>4, <4>1, ZenonT(60)
        <5> QED
          BY <3>3, <5>1, ZenonT(60)
      <4>2. CASE i <= first[t]
        <5>1. first[t] < s[Len(s)] /\ s[Len(s)] \in Nat /\ i \in Nat
          BY <1>1, <3>2, ZenonT(60)
        <5> QED
          BY <1>1, <4>2, <5>1, SMT, SMTT(60)
      <4> QED
        BY <1>1, <4>1, <4>2, SMT, SMTT(60)
    <3> QED
      BY <1>1, <2>2, <3>2, <3>4, ZenonT(60)
  <2> QED
    BY <2>1, <2>2, ZenonT(60)
<1> HIDE DEF pos
<1>6. \A i \in ids : i > pos <=> i > cursor[t]
  <2> SUFFICES ASSUME NEW i \in ids PROVE i > pos <=> i > cursor[t]
    BY SMT, SMTT(60)
  <2>1. i \in Nat /\ pos \in Nat /\ cursor[t] \in Nat /\ pos <= cursor[t] /\ (i <= cursor[t] => i <= pos)
    BY <1>1, <1>5, ZenonT(60)
  <2> QED
    BY <2>1, SMT, SMTT(60)
<1> QED
  BY <1>3, <1>4, <1>6, ZenonT(60)

(* Sending the least row of the batch is a frame; failing to tunes out. *)
LEMMA SendIsFrame ==
    ASSUME BusInv, NEW t \in Thread, SseSend(t)
    PROVE  Feed!Frame(t) \/ Feed!TuneOut(t)
<1> USE DEF BusInv, TypeOK, SessionType, StreamType
<1> DEFINE m == Min(batch[t])
<1>1. kind[t] = "sse" /\ pc[t] = "send" /\ batch[t] # {} /\ OnStream(t)
  BY ZenonT(60) DEF SseSend, At, ControlOK, TelnetPCs, RestPCs, Kinds, OnStream, OnAir
<1>2. /\ UNCHANGED <<log, kind, room, first>>
      /\ \A u \in Thread : u # t => pc'[u] = pc[u] /\ sent'[u] = sent[u]
  BY ZenonT(60) DEF SseSend, Goto, shared
<1>3. \A u \in Thread : u # t => (OnStream(u)' <=> OnStream(u))
  BY <1>2, ZenonT(60) DEF OnStream
<1>4. CASE pc'[t] = "unsubscribe"
  <2>1. ~OnStream(t)'
    BY <1>4, ZenonT(60) DEF OnStream, OnAir
  <2> QED
    BY <1>1, <1>2, <1>3, <2>1, EndTunesOut, SMT, SMTT(60)
<1>5. CASE pc' = pc /\ sent' = [sent EXCEPT ![t] = Append(@, m)]
  <2>1. OnStream(t)' /\ FeedTuned' = FeedTuned /\ FeedStart' = FeedStart
    <3>1. \A u \in Thread : OnStream(u)' <=> OnStream(u)
      BY <1>2, <1>5, ZenonT(60) DEF OnStream
    <3> QED
      BY <1>1, <1>2, <3>1, SMT, SMTT(60) DEF FeedTuned, FeedStart
  <2>2. FeedGot' = [FeedGot EXCEPT ![t] = Append(@, m)]
    BY <1>1, <1>3, <1>5, <2>1, ZenonT(60) DEF FeedGot
  <2>3. m \in NewIds(t) /\ \A i \in NewIds(t) : m <= i
    <3>1. m \in batch[t] /\ \A k \in batch[t] : m <= k
      BY <1>1, MinIsLeast, ZenonT(60)
    <3>2. /\ batch[t] \subseteq NewIds(t)
          /\ \A k \in batch[t] : \A i \in NewIds(t) : i <= k => i \in batch[t]
      BY <1>1, ZenonT(60) DEF StreamOK
    <3>3. NewIds(t) \in SUBSET Nat
      BY IdsType, SMT, SMTT(60) DEF NewIds, SharedType
    <3> HIDE DEF m
    <3> QED
      BY <3>1, <3>2, <3>3, SMT, SMTT(60)
  <2>4. m = Feed!Min(Feed!Waiting(t)) /\ Feed!Waiting(t) # {}
    <3>1. Feed!Waiting(t) = NewIds(t)
      BY <1>1, WaitingIsNew, ZenonT(60)
    <3>2. NewIds(t) \in SUBSET Nat
      BY IdsType DEF NewIds, SharedType
    <3> HIDE DEF m
    <3>3. \A x \in NewIds(t) : (\A y \in NewIds(t) : x <= y) => x = m
      BY <2>3, <3>2, SMT, SMTT(60)
    <3>4. m = Feed!Min(NewIds(t))
      BY <2>3, <3>3, ZenonT(60) DEF Feed!Min
    <3> QED
      BY <2>3, <3>1, <3>4, ZenonT(60)
  <2>5. FeedTuned[t] # None
    BY <1>1, BusAssumption, ZenonT(60) DEF FeedTuned, ControlOK
  <2> HIDE DEF m
  <2> QED
    BY <1>2, <2>1, <2>2, <2>4, <2>5, SMT, SMTT(60) DEF Feed!Frame
<1> QED
  BY <1>4, <1>5, SMT, SMTT(60) DEF SseSend, Goto

(* Every step of the bus is a step of the feed, or none. *)
LEMMA FeedStep ==
    ASSUME BusInv, [Next]_vars
    PROVE  [Feed!FeedNext]_(Feed!feedVars)
<1> USE DEF Kinds, TelnetPCs, SsePCs, RestPCs, OnStream, OnAir
<1>0. /\ kind \in [Thread -> Kinds] /\ pc \in [Thread -> PCs]
      /\ room \in [Thread -> Room \cup {None}] /\ quit \in [Thread -> BOOLEAN]
      /\ first \in [Thread -> Nat] /\ sent \in [Thread -> Seq(Nat)]
  BY ZenonT(60) DEF BusInv, TypeOK, SessionType, StreamType
<1>1. ASSUME NEW t \in Thread, OpenTelnet(t)
      PROVE  UNCHANGED Feed!feedVars
  <2>1. pc[t] = "idle"
    BY <1>1, Zenon DEF OpenTelnet, At
  <2>2. ~OnStream(t)
    BY <2>1, Zenon
  <2>3. /\ ~OnStream(t)' /\ UNCHANGED log
        /\ \A u \in Thread : u # t => (OnStream(u)' <=> OnStream(u))
    BY <1>0, <1>1, Zenon DEF OpenTelnet, Goto
  <2>4. UNCHANGED <<room, first, sent>>
    BY <1>1, Zenon DEF OpenTelnet, streamVars
  <2> QED
    BY <2>2, <2>3, <2>4, FeedSame, Zenon
<1>2. ASSUME NEW t \in Thread, NEW k \in Serves[t] \ {"telnet"}, NEW r \in Room,
             OpenHttp(t, k, r)
      PROVE  UNCHANGED Feed!feedVars
  BY <1>0, <1>2, FeedSame, ZenonT(60) DEF OpenHttp, Goto, At, streamVars
<1>3. ASSUME NEW t \in Thread, Close(t)
      PROVE  UNCHANGED Feed!feedVars
  BY <1>0, <1>3, FeedSame, ZenonT(60) DEF Close, Goto, At
<1>4. ASSUME NEW t \in Thread, Clear(t)
      PROVE  UNCHANGED Feed!feedVars
  BY <1>0, <1>4, FeedSame, ZenonT(60) DEF Clear, Goto, At, streamVars
<1>5. ASSUME NEW t \in Thread, NEW r \in Room, EnterRoom(t, r)
      PROVE  UNCHANGED Feed!feedVars
  BY <1>0, <1>5, FeedSame, ZenonT(60) DEF EnterRoom, Goto, At, streamVars, BusInv, ControlOK
<1>6. ASSUME NEW t \in Thread, Subscribe(t) \/ Unsubscribe(t)
      PROVE  UNCHANGED Feed!feedVars
  <2>1. UNCHANGED <<log, kind, room, first, sent>>
    BY <1>6, Zenon DEF Subscribe, Unsubscribe, streamVars
  <2>2. /\ \A u \in Thread : u # t => pc'[u] = pc[u]
        /\ kind[t] = "sse" => (pc'[t] \in OnAir <=> pc[t] \in OnAir)
    BY <1>0, <1>6, Zenon DEF Subscribe, Unsubscribe, Goto, At
  <2> QED
    BY <2>1, <2>2, StepSame, Zenon
<1>7. ASSUME NEW t \in Thread, PostLock(t) \/ PostWrite(t) \/ PostUnlock(t)
      PROVE  UNCHANGED Feed!feedVars
  <2>1. UNCHANGED <<log, kind, room, first, sent>>
    BY <1>7, Zenon DEF PostLock, PostWrite, PostUnlock, streamVars
  <2>2. \A u \in Thread : u # t => pc'[u] = pc[u]
    BY <1>0, <1>7, Zenon DEF PostLock, PostWrite, PostUnlock, Goto
  <2>3. pc[t] \in {"lock", "write"}
    BY <1>7, Zenon DEF PostLock, PostWrite, PostUnlock, At
  <2>4. kind[t] # "sse"
    BY <2>3, Zenon DEF BusInv, ControlOK
  <2> QED
    BY <2>1, <2>2, <2>4, StepSame, Zenon
<1>8. ASSUME NEW t \in Thread, Render(t) \/ TelnetWake(t) \/ Refresh(t)
      PROVE  UNCHANGED Feed!feedVars
  <2>1. UNCHANGED <<log, kind, room, first, sent>>
    BY <1>8, Zenon DEF Render, TelnetWake, Refresh, shared, streamVars
  <2>2. \A u \in Thread : u # t => pc'[u] = pc[u]
    BY <1>0, <1>8, Zenon DEF Render, TelnetWake, Refresh, Goto
  <2>3. kind[t] = "telnet" \/ pc[t] \in {"render", "refresh"}
    BY <1>8, Zenon DEF Render, TelnetWake, Refresh, At
  <2>4. kind[t] # "sse"
    BY <2>3, Zenon DEF BusInv, ControlOK
  <2> QED
    BY <2>1, <2>2, <2>4, StepSame, Zenon
<1>9. ASSUME NEW t \in Thread,
             \/ KeyCompose(t) \/ KeyOlder(t) \/ KeyNewest(t) \/ KeyLeave(t)
             \/ KeyCancel(t) \/ KeySend(t) \/ KeySendEmpty(t)
      PROVE  UNCHANGED Feed!feedVars
  <2>1. InRoomKey(t) \/ ComposeKey(t)
    BY <1>9, Zenon DEF KeyCompose, KeyOlder, KeyNewest, KeyLeave, KeyCancel, KeySend,
       KeySendEmpty
  <2>2. kind[t] # "sse"
    BY <2>1, Zenon DEF InRoomKey, ComposeKey
  <2>3. UNCHANGED <<log, kind, room, first, sent>>
    BY <1>9, Zenon DEF KeyCompose, KeyOlder, KeyNewest, KeyLeave, KeyCancel, KeySend,
       KeySendEmpty, shared, streamVars
  <2>4. \A u \in Thread : u # t => pc'[u] = pc[u]
    BY <1>0, <1>9, Zenon DEF KeyCompose, KeyOlder, KeyNewest, KeyLeave, KeyCancel,
       KeySend, KeySendEmpty, Goto
  <2> QED
    BY <2>2, <2>3, <2>4, StepSame, Zenon
<1>10. ASSUME NEW t \in Thread, SseJoin(t) \/ SseWake(t) \/ SseFetch(t) \/ SseSent(t)
       PROVE  UNCHANGED Feed!feedVars
  <2>1. UNCHANGED <<log, kind, room, first, sent>>
    BY <1>10, Zenon DEF SseJoin, SseWake, SseFetch, SseSent, shared, streamVars
  <2>2. \A u \in Thread : u # t => pc'[u] = pc[u]
    BY <1>0, <1>10, Zenon DEF SseJoin, SseWake, SseFetch, SseSent, Goto
  <2>3. pc'[t] \in OnAir /\ pc[t] \in OnAir
    BY <1>0, <1>10, Zenon DEF SseJoin, SseWake, SseFetch, SseSent, Goto, At
  <2> QED
    BY <2>1, <2>2, <2>3, StepSame, Zenon
<1>11. ASSUME NEW t \in Thread, PostInsert(t)
       PROVE  [Feed!FeedNext]_(Feed!feedVars)
  BY <1>11, InsertIsPost, ZenonT(60)
<1>12. ASSUME NEW t \in Thread, SseTail(t)
       PROVE  Feed!FeedNext
  BY <1>12, TailTunesIn, ZenonT(60) DEF Feed!FeedNext
<1>13. ASSUME NEW t \in Thread, SseSend(t)
       PROVE  Feed!FeedNext
  BY <1>13, SendIsFrame, ZenonT(60) DEF Feed!FeedNext
<1>14. ASSUME NEW t \in Thread, Hangup(t) \/ SseKeepalive(t)
       PROVE  [Feed!FeedNext]_(Feed!feedVars)
  <2>1. /\ UNCHANGED <<log, kind, room, first, sent>>
        /\ \A u \in Thread : u # t => pc'[u] = pc[u]
    BY <1>0, <1>14, ZenonT(60) DEF Hangup, SseKeepalive, Goto, shared, streamVars
  <2>2. CASE OnStream(t) /\ ~OnStream(t)'
    <3>1. Feed!TuneOut(t)
      BY <2>1, <2>2, EndTunesOut, ZenonT(60)
    <3> QED
      BY <3>1, ZenonT(60) DEF Feed!FeedNext
  <2>3. CASE OnStream(t)' <=> OnStream(t)
    BY <2>1, <2>3, FeedSame, ZenonT(60)
  <2>4. OnStream(t)' => OnStream(t)
    BY <1>0, <1>14, <2>1, ZenonT(60) DEF Hangup, SseKeepalive, Goto, At
  <2> QED
    BY <2>2, <2>3, <2>4, SMT, SMTT(60)
<1>15. CASE UNCHANGED vars
  <2>1. UNCHANGED <<log, kind, pc, room, first, sent>>
    BY <1>15, ZenonT(60) DEF vars, shared, streamVars
  <2> QED
    BY <2>1, FeedSame, ZenonT(60)
<1> QED
  BY <1>1, <1>2, <1>3, <1>4, <1>5, <1>6, <1>7, <1>8, <1>9, <1>10, <1>11, <1>12,
     <1>13, <1>14, <1>15, Zenon DEF Next, UserStep, ThreadStep

(***************************************************************************)
(* For any number of threads, rooms and descriptors and any batch size,    *)
(* handle_sse over the bus implements the abstract feed: readers get the   *)
(* messages stored after they tuned in, in order, each exactly once.       *)
(***************************************************************************)
THEOREM BusImplementsFeed == Spec => ImplementsFeed
<1>1. Init => Feed!FeedInit
  <2> SUFFICES ASSUME Init PROVE Feed!FeedInit
    BY Zenon
  <2>1. \A t \in Thread : ~OnStream(t)
    BY Zenon DEF Init, OnStream
  <2> QED
    BY <2>1, ZenonT(60) DEF Init, FeedTuned, FeedStart, FeedGot, Feed!FeedInit
<1>2. BusInv /\ [Next]_vars => [Feed!FeedNext]_(Feed!feedVars)
  BY FeedStep, Zenon
<1> QED
  BY <1>1, <1>2, BusInvariant, PTL DEF Spec, ImplementsFeed, Feed!FeedSpec
=============================================================================
