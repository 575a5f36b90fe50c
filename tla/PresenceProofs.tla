--------------------------- MODULE PresenceProofs ---------------------------
(***************************************************************************)
(* The safety properties of Presence, for any sessions and names, any      *)
(* window and any timeouts that do not outlast it.                         *)
(***************************************************************************)
EXTENDS Presence, TLAPS

\* A row is no younger than the absence of its name.
RowAge == \A u \in User : age[u] # NoRow => away[u] <= age[u]

\* A name with a session in the room is not away.
InsideNow == \A t \in inside : away[UserOf[t]] = 0

\* The row of a session that nothing disturbed was renewed when its present
\* poll began, or later.
Kept ==
    \A t \in inside :
        excuse[t] = {} => age[UserOf[t]] # NoRow /\ age[UserOf[t]] <= waited[t]

\* A session in a send that blocks has an excuse.
HeldExcused == \A t \in held : excuse[t] # {}

Inv == TypeOK /\ RowAge /\ InsideNow /\ Kept /\ HeldExcused

-----------------------------------------------------------------------------
(* The least of two numbers is one of them, and not above the other. *)
LEMMA MinOfTwo ==
    ASSUME NEW a \in Int, NEW b \in Int
    PROVE  Min({a, b}) = IF a <= b THEN a ELSE b
<1>1. CASE a <= b
  <2>1. \A y \in {a, b} : a <= y
    BY <1>1
  <2>2. \A x \in {a, b} : (\A y \in {a, b} : x <= y) => x = a
    BY <1>1
  <2>3. Min({a, b}) = a
    BY <2>1, <2>2, Zenon DEF Min
  <2> QED  BY <1>1, <2>3, Zenon
<1>2. CASE ~(a <= b)
  <2>1. \A y \in {a, b} : b <= y
    BY <1>2
  <2>2. \A x \in {a, b} : (\A y \in {a, b} : x <= y) => x = b
    BY <1>2
  <2> QED  BY <1>2, <2>1, <2>2, Zenon DEF Min
<1> QED  BY <1>1, <1>2, Zenon

(* A session's timeout is at least one tick and within the window, however *)
(* near the deadline of the negotiation is.                                *)
LEMMA TimeoutWithin ==
    ASSUME NEW t \in Session, NEW n \in Over .. Nego
    PROVE  PollTimeout(t, n) \in 1 .. Ttl
BY PresenceAssumption DEF PollTimeout, Over

(* Sessions have names. *)
LEMMA NameOf ==
    ASSUME NEW t \in Session
    PROVE  UserOf[t] \in User
BY PresenceAssumption, Zenon

-----------------------------------------------------------------------------
(* The room is empty at first, and the invariant holds. *)
LEMMA InitInv ==
    ASSUME Init
    PROVE  Inv
<1>1. TypeOK
  <2>1. /\ NoRow \in NoRow .. Old /\ 0 \in 0 .. Ttl /\ Old \in 0 .. Old
        /\ 0 \in 0 .. MaxNoise /\ Over \in Over .. Nego
    BY PresenceAssumption DEF NoRow, Old, Over
  <2>2. \A t \in Session : PollTimeout(t, Over) \in 1 .. Ttl
    BY <2>1, TimeoutWithin, Zenon
  <2>3. \A n \in 1 .. Ttl : 0 <= n
    BY PresenceAssumption
  <2> QED  BY <2>1, <2>2, <2>3, Zenon DEF Init, TypeOK
<1> QED  BY <1>1, Zenon DEF Init, Inv, RowAge, InsideNow, Kept, HeldExcused

-----------------------------------------------------------------------------
(* The numbers of which the types speak. *)
LEMMA Bounds ==
    /\ 0 \in NoRow .. Old /\ NoRow \in NoRow .. Old /\ 0 \in 0 .. Old
    /\ 0 \in 0 .. Ttl /\ 0 # NoRow
    /\ Over \in Over .. Nego
    /\ \A n \in 1 .. Ttl : 0 <= n
BY PresenceAssumption DEF NoRow, Old, Over

(* A poll that starts keeps the types of what it sets. *)
LEMMA PollTypes ==
    ASSUME TypeOK, NEW t \in Session, NEW n \in Over .. Nego, Poll(t, n)
    PROVE  /\ nego' \in [Session -> Over .. Nego]
           /\ timeout' \in [Session -> 1 .. Ttl] /\ waited' \in [Session -> 0 .. Ttl]
           /\ \A x \in Session : waited'[x] <= timeout'[x]
<1>1. PollTimeout(t, n) \in 1 .. Ttl
  BY TimeoutWithin, Zenon
<1>2. ASSUME NEW x \in Session
      PROVE  waited'[x] <= timeout'[x]
  <2>1. CASE x = t
    <3>1. waited'[x] = 0 /\ timeout'[x] \in 1 .. Ttl
      BY <1>1, <2>1, Zenon DEF TypeOK, Poll
    <3> QED  BY <3>1, Bounds, Zenon
  <2>2. CASE x # t
    BY <2>2, Zenon DEF TypeOK, Poll
  <2> QED  BY <2>1, <2>2, Zenon
<1> QED  BY <1>1, <1>2, Bounds, Zenon DEF TypeOK, Poll

(* So do the polls of all who are woken. *)
LEMMA WokenTypes ==
    ASSUME TypeOK, NEW W, Woken(W)
    PROVE  /\ timeout' \in [Session -> 1 .. Ttl] /\ waited' \in [Session -> 0 .. Ttl]
           /\ \A x \in Session : waited'[x] <= timeout'[x]
           /\ noise' \in 0 .. MaxNoise
<1>1. \A x \in Session : PollTimeout(x, nego[x]) \in 1 .. Ttl
  BY TimeoutWithin, Zenon DEF TypeOK
<1>2. noise' \in 0 .. MaxNoise
  BY PresenceAssumption DEF TypeOK, Woken, Noise
<1>3. ASSUME NEW x \in Session
      PROVE  waited'[x] <= timeout'[x]
  <2>1. CASE x \in W
    <3>1. waited'[x] = 0 /\ timeout'[x] \in 1 .. Ttl
      BY <1>1, <2>1, Zenon DEF Woken
    <3> QED  BY <3>1, Bounds, Zenon
  <2>2. CASE x \notin W
    BY <2>2, Zenon DEF TypeOK, Woken
  <2> QED  BY <2>1, <2>2, Zenon
<1>4. timeout' \in [Session -> 1 .. Ttl] /\ waited' \in [Session -> 0 .. Ttl]
  BY <1>1, Bounds, Zenon DEF TypeOK, Woken
<1> QED  BY <1>2, <1>3, <1>4, Zenon

(* A step that renews the row of one name and ends that name's absence     *)
(* keeps rows no younger than absences.                                    *)
LEMMA RenewedAge ==
    ASSUME TypeOK, RowAge, NEW u \in User, presence_set(u),
           away' = [away EXCEPT ![u] = 0]
    PROVE  RowAge'
<1>1. ASSUME NEW v \in User, age'[v] # NoRow
      PROVE  away'[v] <= age'[v]
  <2>1. CASE v = u
    <3>1. away'[v] = 0 /\ age'[v] = 0
      BY <2>1, Zenon DEF TypeOK, presence_set
    <3> QED  BY <3>1
  <2>2. CASE v # u
    <3>1. away'[v] = away[v] /\ age'[v] = age[v]
      BY <2>2, Zenon DEF TypeOK, presence_set
    <3> QED  BY <1>1, <3>1, Zenon DEF RowAge
  <2> QED  BY <2>1, <2>2, Zenon
<1> QED  BY <1>1, Zenon DEF RowAge

(* Where the row of a name is renewed and no other, and every poll either  *)
(* goes on or starts again, a session keeps what Kept says of it unless    *)
(* its excuse is dropped by this step while it has another name.           *)
LEMMA RenewedKept ==
    ASSUME TypeOK, TypeOK', Kept, NEW u \in User, presence_set(u),
           \A x \in inside' : UserOf[x] # u /\ excuse'[x] = {} =>
               x \in inside /\ excuse[x] = {} /\ waited'[x] = waited[x]
    PROVE  Kept'
<1>1. ASSUME NEW x \in inside', excuse'[x] = {}
      PROVE  age'[UserOf[x]] # NoRow /\ age'[UserOf[x]] <= waited'[x]
  <2>0. x \in Session /\ UserOf[x] \in User
    BY NameOf, Zenon DEF TypeOK
  <2>1. CASE UserOf[x] = u
    <3>1. age'[UserOf[x]] = 0
      BY <2>1, Zenon DEF TypeOK, presence_set
    <3>2. waited'[x] \in 0 .. Ttl
      BY <2>0, Zenon DEF TypeOK
    <3> QED  BY <3>1, <3>2, PresenceAssumption DEF NoRow
  <2>2. CASE UserOf[x] # u
    <3>1. age'[UserOf[x]] = age[UserOf[x]]
      BY <2>0, <2>2, Zenon DEF TypeOK, presence_set
    <3> QED  BY <1>1, <2>2, <3>1, Zenon DEF Kept
  <2> QED  BY <2>1, <2>2, Zenon
<1> QED  BY <1>1, Zenon DEF Kept

-----------------------------------------------------------------------------
(* Enter renews the visitor's row, whoever else has the name. *)
LEMMA EnterInv ==
    ASSUME Inv, NEW t \in Session, NEW n \in Over .. Nego, Enter(t, n)
    PROVE  Inv'
<1>1. UserOf[t] \in User
  BY NameOf, Zenon
<1>2. TypeOK'
  <2>1. /\ nego' \in [Session -> Over .. Nego]
        /\ timeout' \in [Session -> 1 .. Ttl] /\ waited' \in [Session -> 0 .. Ttl]
        /\ \A x \in Session : waited'[x] <= timeout'[x]
    BY PollTypes, Zenon DEF Inv, Enter
  <2> QED  BY <1>1, <2>1, Bounds, Zenon DEF Inv, TypeOK, Enter, Excused, presence_set
<1>3. RowAge'
  BY <1>1, RenewedAge, Zenon DEF Inv, Enter
<1>4. InsideNow'
  BY <1>1, NameOf, Zenon DEF Inv, TypeOK, InsideNow, Enter
<1>5. Kept'
  <2>1. ASSUME NEW x \in inside', UserOf[x] # UserOf[t], excuse'[x] = {}
        PROVE  x \in inside /\ excuse[x] = {} /\ waited'[x] = waited[x]
    BY <2>1, Zenon DEF Inv, TypeOK, Enter, Poll, Excused, Twins
  <2> QED  BY <1>1, <1>2, <2>1, RenewedKept, Zenon DEF Inv, Enter
<1>6. HeldExcused'
  BY Zenon DEF Inv, TypeOK, HeldExcused, Enter, Excused
<1> QED  BY <1>2, <1>3, <1>4, <1>5, <1>6, Zenon DEF Inv

(* A name that is not away stays so by being set to 0. *)
LEMMA AwayAlready ==
    ASSUME Inv, NEW t \in inside
    PROVE  away = [away EXCEPT ![UserOf[t]] = 0]
BY Zenon DEF Inv, TypeOK, InsideNow

(* Tock renews the stream's row and ends every excuse of the name. *)
LEMMA TockInv ==
    ASSUME Inv, NEW t \in Session, Tock(t)
    PROVE  Inv'
<1>1. UserOf[t] \in User /\ t \in inside
  BY NameOf, Zenon DEF Tock, Awake
<1>2. TypeOK'
  <2>1. nego[t] \in Over .. Nego /\ Poll(t, nego[t])
    BY Zenon DEF Inv, TypeOK, Tock, KeepaliveDue, Renew
  <2>2. /\ nego' \in [Session -> Over .. Nego]
        /\ timeout' \in [Session -> 1 .. Ttl] /\ waited' \in [Session -> 0 .. Ttl]
        /\ \A x \in Session : waited'[x] <= timeout'[x]
    BY <2>1, PollTypes, Zenon DEF Inv
  <2> QED
    BY <1>1, <2>2, Bounds, Zenon
       DEF Inv, TypeOK, Tock, KeepaliveDue, Renew, Excused, presence_set
<1>3. RowAge'
  BY <1>1, AwayAlready, RenewedAge, Zenon DEF Inv, Tock, KeepaliveDue, Renew
<1>4. InsideNow'
  BY Zenon DEF Inv, InsideNow, Tock, KeepaliveDue, Renew
<1>5. Kept'
  <2>1. ASSUME NEW x \in inside', UserOf[x] # UserOf[t], excuse'[x] = {}
        PROVE  x \in inside /\ excuse[x] = {} /\ waited'[x] = waited[x]
    BY <2>1, Zenon DEF Inv, TypeOK, Tock, KeepaliveDue, Renew, Poll, Excused, Twins
  <2> QED  BY <1>1, <1>2, <2>1, RenewedKept, Zenon DEF Inv, Tock, KeepaliveDue
<1>6. HeldExcused'
  BY Zenon DEF Inv, TypeOK, HeldExcused, Tock, Awake, KeepaliveDue, Renew, Excused
<1> QED  BY <1>2, <1>3, <1>4, <1>5, <1>6, Zenon DEF Inv

(* Post renews the row of the one who posts; all other sessions in the     *)
(* room are woken, and have an excuse.                                     *)
LEMMA PostInv ==
    ASSUME Inv, NEW t \in Session, Post(t)
    PROVE  Inv'
<1>1. UserOf[t] \in User /\ t \in inside
  BY NameOf, Zenon DEF Post, Awake
<1>3. TypeOK'
  <2>1. /\ timeout' \in [Session -> 1 .. Ttl] /\ waited' \in [Session -> 0 .. Ttl]
        /\ \A x \in Session : waited'[x] <= timeout'[x]
        /\ noise' \in 0 .. MaxNoise
    BY WokenTypes, Zenon DEF Inv, Post
  <2> QED  BY <1>1, <2>1, Bounds, Zenon DEF Inv, TypeOK, Post, presence_set
<1>4. RowAge'
  BY <1>1, AwayAlready, RenewedAge, Zenon DEF Inv, Post
<1>5. InsideNow'
  BY Zenon DEF Inv, InsideNow, Post
<1>6. Kept'
  <2>1. ASSUME NEW x \in inside', UserOf[x] # UserOf[t], excuse'[x] = {}
        PROVE  x \in inside /\ excuse[x] = {} /\ waited'[x] = waited[x]
    BY <2>1, Zenon DEF Inv, TypeOK, Post, Twins
  <2> QED  BY <1>1, <1>3, <2>1, RenewedKept, Zenon DEF Inv, Post
<1>7. HeldExcused'
  BY Zenon DEF Inv, TypeOK, HeldExcused, Post
<1> QED  BY <1>3, <1>4, <1>5, <1>6, <1>7, Zenon DEF Inv

-----------------------------------------------------------------------------
(* Gone deletes the row of its name, and gives every other session of the  *)
(* name an excuse.                                                         *)
LEMMA GoneInv ==
    ASSUME Inv, NEW t \in Session, t \notin held, Gone(t)
    PROVE  Inv'
<1>1. UserOf[t] \in User
  BY NameOf, Zenon
<1>2. TypeOK'
  <2>1. /\ nego' \in [Session -> Over .. Nego]
        /\ timeout' \in [Session -> 1 .. Ttl] /\ waited' \in [Session -> 0 .. Ttl]
        /\ \A x \in Session : waited'[x] <= timeout'[x]
    BY Bounds, PollTypes, Zenon DEF Inv, Gone
  <2> QED  BY <1>1, <2>1, Bounds, Zenon DEF Inv, TypeOK, Gone, presence_clear
<1>3. RowAge'
  BY Zenon DEF Inv, TypeOK, RowAge, Gone, presence_clear
<1>4. InsideNow'
  BY Zenon DEF Inv, InsideNow, Gone
<1>5. ASSUME NEW x \in inside', excuse'[x] = {}
      PROVE  age'[UserOf[x]] # NoRow /\ age'[UserOf[x]] <= waited'[x]
  <2>1. x \in inside /\ x # t /\ x \in Session
    BY Zenon DEF Gone, Inv, TypeOK
  <2>2. UserOf[x] # UserOf[t] /\ excuse[x] = {}
    BY <1>5, <2>1, Zenon DEF Gone, Twins
  <2>3. age'[UserOf[x]] = age[UserOf[x]] /\ waited'[x] = waited[x]
    BY <2>1, <2>2, NameOf, Zenon DEF Inv, TypeOK, Gone, Poll, presence_clear
  <2> QED  BY <2>1, <2>2, <2>3, Zenon DEF Inv, Kept
<1>6. HeldExcused'
  BY Zenon DEF Inv, TypeOK, HeldExcused, Gone
<1> QED  BY <1>2, <1>3, <1>4, <1>5, <1>6, Zenon DEF Inv, Kept

(* A post through the web renews nothing; those it wakes have an excuse. *)
LEMMA RestPostInv ==
    ASSUME Inv, RestPost
    PROVE  Inv'
<1>1. TypeOK'
  <2>1. /\ timeout' \in [Session -> 1 .. Ttl] /\ waited' \in [Session -> 0 .. Ttl]
        /\ \A x \in Session : waited'[x] <= timeout'[x]
        /\ noise' \in 0 .. MaxNoise
    BY WokenTypes, Zenon DEF Inv, RestPost
  <2> QED  BY <2>1, Zenon DEF Inv, TypeOK, RestPost
<1>2. \A x \in inside : excuse'[x] # {}
  BY Zenon DEF Inv, TypeOK, RestPost
<1>3. Kept' /\ HeldExcused'
  BY <1>2, Zenon DEF Inv, TypeOK, Kept, HeldExcused, RestPost
<1> QED  BY <1>1, <1>3, Zenon DEF Inv, RowAge, InsideNow, RestPost

(* A key, the end of the negotiation and the end of a send that blocked    *)
(* start a new poll and renew nothing, and their session has an excuse.    *)
LEMMA PolledInv ==
    ASSUME Inv, NEW t \in Session, NEW n \in Over .. Nego, Poll(t, n),
           noise' \in 0 .. MaxNoise, held' \subseteq held,
           excuse' = [excuse EXCEPT ![t] = excuse'[t]],
           excuse'[t] \subseteq {"woken", "twin", "nego", "held"}, excuse'[t] # {},
           UNCHANGED <<service, age, inside, away>>
    PROVE  Inv'
<1>1. TypeOK'
  <2>1. /\ nego' \in [Session -> Over .. Nego]
        /\ timeout' \in [Session -> 1 .. Ttl] /\ waited' \in [Session -> 0 .. Ttl]
        /\ \A x \in Session : waited'[x] <= timeout'[x]
    BY PollTypes, Zenon DEF Inv
  <2> QED  BY <2>1, Zenon DEF Inv, TypeOK
<1>2. \A x \in inside : excuse'[x] = {} => excuse[x] = {} /\ waited'[x] = waited[x]
  BY Zenon DEF Inv, TypeOK, Poll
<1>3. HeldExcused'
  BY Zenon DEF Inv, TypeOK, HeldExcused
<1> QED  BY <1>1, <1>2, <1>3, Zenon DEF Inv, RowAge, InsideNow, Kept

(* A key leaves an excuse, whether or not it ends the negotiation. *)
LEMMA KeyInv ==
    ASSUME Inv, NEW t \in Session, NEW last \in BOOLEAN, Key(t, last)
    PROVE  Inv'
<1>1. noise' \in 0 .. MaxNoise
  BY PresenceAssumption DEF Inv, TypeOK, Key, Noise
<1> DEFINE n == IF last THEN Over ELSE nego[t]
<1>2. n \in Over .. Nego /\ Poll(t, n)
  BY Bounds, Zenon DEF Inv, TypeOK, Key
<1>3. /\ excuse' = [excuse EXCEPT ![t] = excuse'[t]]
      /\ excuse'[t] \subseteq {"woken", "twin", "nego", "held"} /\ excuse'[t] # {}
  BY Zenon DEF Inv, TypeOK, Key
<1> HIDE DEF n
<1> QED  BY <1>1, <1>2, <1>3, PolledInv, Zenon DEF Key

(* A timeout that goes to the negotiation leaves an excuse. *)
LEMMA NegoTimeoutInv ==
    ASSUME Inv, NEW t \in Session, NegoTimeout(t)
    PROVE  Inv'
<1>1. noise' \in 0 .. MaxNoise /\ Over \in Over .. Nego
  BY Bounds, Zenon DEF Inv, TypeOK, NegoTimeout
<1>2. /\ excuse' = [excuse EXCEPT ![t] = excuse'[t]]
      /\ excuse'[t] \subseteq {"woken", "twin", "nego", "held"} /\ excuse'[t] # {}
  BY Zenon DEF Inv, TypeOK, NegoTimeout
<1> QED  BY <1>1, <1>2, PolledInv, Zenon DEF NegoTimeout

(* A session that is held has an excuse, and keeps it when it polls again. *)
LEMMA HeldInv ==
    ASSUME Inv, NEW t \in Session, Block(t) \/ Release(t)
    PROVE  Inv'
<1>1. CASE Block(t)
  <2>1. noise' \in 0 .. MaxNoise
    BY <1>1, PresenceAssumption DEF Inv, TypeOK, Block, Noise
  <2>2. TypeOK'
    BY <1>1, <2>1, Zenon DEF Inv, TypeOK, Block, Awake
  <2>3. \A x \in inside : excuse'[x] = {} => excuse[x] = {}
    BY <1>1, Zenon DEF Inv, TypeOK, Block
  <2>4. HeldExcused'
    BY <1>1, Zenon DEF Inv, TypeOK, HeldExcused, Block
  <2> QED  BY <1>1, <2>2, <2>3, <2>4, Zenon DEF Inv, RowAge, InsideNow, Kept, Block
<1>2. CASE Release(t)
  <2>1. noise' \in 0 .. MaxNoise /\ nego[t] \in Over .. Nego /\ held' \subseteq held
    BY <1>2, Zenon DEF Inv, TypeOK, Release
  <2>2. /\ excuse' = [excuse EXCEPT ![t] = excuse'[t]]
        /\ excuse'[t] \subseteq {"woken", "twin", "nego", "held"} /\ excuse'[t] # {}
    BY <1>2, Zenon DEF Inv, TypeOK, HeldExcused, Release
  <2> QED  BY <1>2, <2>1, <2>2, PolledInv, Zenon DEF Release
<1> QED  BY <1>1, <1>2, Zenon

(* A tick ages the rows, the polls and the absences alike: what was younger *)
(* stays younger, and no poll that is not due passes its timeout.          *)
LEMMA TickInv ==
    ASSUME Inv, Tick
    PROVE  Inv'
<1>1. \A n \in Int : Min({n + 1, Old}) = IF n + 1 <= Old THEN n + 1 ELSE Old
  BY MinOfTwo, PresenceAssumption DEF Old
<1>2. ASSUME NEW u \in User
      PROVE  /\ age'[u] \in NoRow .. Old
             /\ away'[u] \in 0 .. Old
             /\ age'[u] = NoRow <=> age[u] = NoRow
             /\ age[u] # NoRow /\ away[u] <= age[u] => away'[u] <= age'[u]
             /\ age[u] # NoRow => age'[u] <= age[u] + 1
  <2>1. age[u] \in NoRow .. Old /\ away[u] \in 0 .. Old
    BY Zenon DEF Inv, TypeOK
  <2>2. /\ age'[u] = IF age[u] = NoRow THEN NoRow ELSE Min({age[u] + 1, Old})
        /\ away'[u] = 0 \/ away'[u] = Min({away[u] + 1, Old})
    BY Zenon DEF Tick
  <2>3. age[u] \in Int /\ away[u] \in Int
    BY <2>1, PresenceAssumption DEF NoRow, Old
  <2>4. /\ Min({age[u] + 1, Old}) = IF age[u] + 1 <= Old THEN age[u] + 1 ELSE Old
        /\ Min({away[u] + 1, Old}) = IF away[u] + 1 <= Old THEN away[u] + 1 ELSE Old
    BY <1>1, <2>3, Zenon
  <2> HIDE DEF Min
  <2> QED  BY <2>1, <2>2, <2>4, PresenceAssumption DEF NoRow, Old
<1>3. ASSUME NEW t \in Session
      PROVE  /\ waited'[t] \in 0 .. Ttl
             /\ waited'[t] <= timeout'[t]
             /\ nego'[t] \in Over .. Nego
             /\ Awake(t) => waited'[t] = waited[t] + 1
  <2>1. /\ waited[t] \in 0 .. Ttl /\ timeout[t] \in 1 .. Ttl /\ waited[t] <= timeout[t]
        /\ nego[t] \in Over .. Nego /\ timeout'[t] = timeout[t]
        /\ Awake(t) => waited[t] < timeout[t]
    BY Zenon DEF Inv, TypeOK, Tick, Awake
  <2>2. /\ waited'[t] = IF Awake(t) THEN waited[t] + 1 ELSE waited[t]
        /\ nego'[t] = IF nego[t] > 0 THEN nego[t] - 1 ELSE nego[t]
    BY Zenon DEF Tick
  <2> QED  BY <2>1, <2>2, PresenceAssumption DEF Over
<1>4. TypeOK'
  <2>1. age' \in [User -> NoRow .. Old] /\ away' \in [User -> 0 .. Old]
    BY <1>2, Zenon DEF Tick
  <2>2. waited' \in [Session -> 0 .. Ttl] /\ nego' \in [Session -> Over .. Nego]
    BY <1>3, Zenon DEF Tick
  <2> QED  BY <1>3, <2>1, <2>2, Zenon DEF Inv, TypeOK, Tick
<1>5. RowAge'
  BY <1>2, Zenon DEF Inv, RowAge
<1>6. InsideNow'
  <2>1. ASSUME NEW t \in inside'
        PROVE  away'[UserOf[t]] = 0
    <3>1. t \in inside /\ UserOf[t] \in User
      BY NameOf, Zenon DEF Inv, TypeOK, Tick
    <3> QED  BY <3>1, Zenon DEF Tick
  <2> QED  BY <2>1, Zenon DEF InsideNow
<1>7. ASSUME NEW t \in inside', excuse'[t] = {}
      PROVE  age'[UserOf[t]] # NoRow /\ age'[UserOf[t]] <= waited'[t]
  <2>1. t \in Session /\ UserOf[t] \in User /\ excuse[t] = {} /\ Awake(t) /\ t \in inside
    BY <1>7, NameOf, Zenon DEF Inv, TypeOK, HeldExcused, Tick, Awake
  <2>2. age[UserOf[t]] # NoRow /\ age[UserOf[t]] <= waited[t]
    BY <2>1, Zenon DEF Inv, Kept
  <2>3. /\ age'[UserOf[t]] # NoRow
        /\ age'[UserOf[t]] <= age[UserOf[t]] + 1
        /\ waited'[t] = waited[t] + 1
    BY <1>2, <1>3, <2>1, <2>2, Zenon
  <2>4. /\ age[UserOf[t]] \in NoRow .. Old /\ age'[UserOf[t]] \in NoRow .. Old
        /\ waited[t] \in 0 .. Ttl
    BY <1>2, <2>1, Zenon DEF Inv, TypeOK
  <2> QED  BY <2>2, <2>3, <2>4, PresenceAssumption DEF NoRow, Old
<1>8. HeldExcused'
  BY Zenon DEF Inv, HeldExcused, Tick
<1> QED  BY <1>4, <1>5, <1>6, <1>7, <1>8, Zenon DEF Inv, Kept

(* The start of the service, a crash and a restart leave the table alone;  *)
(* a crash empties the room.                                               *)
LEMMA ProcessInv ==
    ASSUME Inv, Crash \/ Restart \/ \E found \in {"ready", "failed"} : ServiceInit(found)
    PROVE  Inv'
<1>1. CASE Crash
  <2>1. TypeOK'
    <3>1. \A x \in Session : waited'[x] <= timeout'[x]
      BY <1>1, Bounds, Zenon DEF Inv, TypeOK, Crash
    <3> QED  BY <1>1, <3>1, Bounds, Zenon DEF Inv, TypeOK, Crash
  <2> QED  BY <1>1, <2>1, Zenon DEF Inv, RowAge, InsideNow, Kept, HeldExcused, Crash
<1>2. CASE Restart
  BY <1>2, Zenon DEF Inv, TypeOK, RowAge, InsideNow, Kept, HeldExcused, Restart
<1>3. ASSUME NEW found \in {"ready", "failed"}, ServiceInit(found)
      PROVE  Inv'
  BY <1>3, Zenon DEF Inv, TypeOK, RowAge, InsideNow, Kept, HeldExcused, ServiceInit
<1> QED  BY <1>1, <1>2, <1>3, Zenon

-----------------------------------------------------------------------------
(* Every step keeps the invariant. *)
LEMMA NextInv ==
    ASSUME Inv, [Next]_vars
    PROVE  Inv'
<1>1. CASE UNCHANGED vars
  BY <1>1, Zenon DEF Inv, TypeOK, RowAge, InsideNow, Kept, HeldExcused, vars
<1>2. ASSUME NEW t \in Session, Leave(t) \/ IdleTimeout(t)
      PROVE  Inv'
  BY <1>2, GoneInv, Zenon DEF Leave, IdleTimeout, Awake
<1>3. ASSUME NEW t \in Session, Stray(t) \/ Timeout(t)
      PROVE  Inv'
  BY <1>3, TockInv, Zenon DEF Stray, Timeout
<1> QED
  BY <1>1, <1>2, <1>3, EnterInv, PostInv, KeyInv, NegoTimeoutInv, HeldInv, RestPostInv,
     TickInv, ProcessInv, Zenon DEF Next, Due

(* The invariant holds in every run, under any schedule. *)
THEOREM PresenceInvariant == Spec => []Inv
BY InitInv, NextInv, PTL DEF Spec

(* The fields keep their types, and no poll of a session outlasts the      *)
(* timeout that telnet_run_session or handle_sse gives it.                 *)
THEOREM PresenceTypes == Spec => []TypeOK
BY PresenceInvariant, PTL DEF Inv

(* chat_db_active_users with CHAT_PRESENCE_TTL: whoever left, lost the     *)
(* connection or was in the room when the process died is off the list     *)
(* once the window has passed.                                             *)
THEOREM DisconnectedDropOff == Spec => []DropsOff
<1>1. ASSUME Inv
      PROVE  DropsOff
  <2>1. ASSUME NEW u \in User, Listed(u)
        PROVE  away[u] <= Ttl
    <3>1. age[u] \in NoRow .. Old /\ away[u] \in 0 .. Old
      BY <1>1, Zenon DEF Inv, TypeOK
    <3>2. away[u] <= age[u] /\ age[u] <= Ttl
      BY <1>1, <2>1, Zenon DEF Inv, RowAge, Listed
    <3> QED  BY <3>1, <3>2, PresenceAssumption DEF NoRow, Old
  <2> QED  BY <2>1, Zenon DEF DropsOff
<1> QED  BY <1>1, PresenceInvariant, PTL

(* A session in the room is listed as long as its polls run to timeouts    *)
(* that do not go to the negotiation, its sends do not block and no        *)
(* session of the same name leaves: there is no other way to be missing,   *)
(* for every keepalive, idle and negotiation timeout within the window.    *)
THEOREM VisitorsListed == Spec => []ListedUnlessDisturbed
<1>1. ASSUME Inv
      PROVE  ListedUnlessDisturbed
  <2>1. ASSUME NEW t \in inside, excuse[t] = {}
        PROVE  Listed(UserOf[t])
    <3>1. t \in Session /\ UserOf[t] \in User
      BY <1>1, NameOf, Zenon DEF Inv, TypeOK
    <3>2. age[UserOf[t]] \in NoRow .. Old /\ waited[t] \in 0 .. Ttl
      BY <1>1, <3>1, Zenon DEF Inv, TypeOK
    <3>3. age[UserOf[t]] # NoRow /\ age[UserOf[t]] <= waited[t]
      BY <1>1, <2>1, Zenon DEF Inv, Kept
    <3>4. age[UserOf[t]] <= Ttl
      BY <3>2, <3>3, PresenceAssumption DEF NoRow, Old
    <3> QED  BY <3>3, <3>4, Zenon DEF Listed
  <2> QED  BY <2>1, Zenon DEF ListedUnlessDisturbed
<1> QED  BY <1>1, PresenceInvariant, PTL
=============================================================================
