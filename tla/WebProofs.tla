------------------------------ MODULE WebProofs ------------------------------
(***************************************************************************)
(* The web client's view: WebClient's safety properties, for any rooms,    *)
(* any number of selections, faults and messages, and any limit of the     *)
(* history.                                                                *)
(***************************************************************************)
EXTENDS WebClient, FiniteSetTheorems, WellFoundedInduction, TLAPS

(* The message table, as in ChatBusSteps *)

(* A nonempty set of naturals has a least element. *)
LEMMA NatMin ==
    ASSUME NEW S \in SUBSET Nat, S # {}
    PROVE  \E x \in S : \A y \in S : x <= y
<1>1. \E R : /\ IsWellFoundedOn(R, Nat)
             /\ \A x, y \in Nat : <<x, y>> \in R <=> x < y
  <2>1. \A x, y \in Nat : <<x, y>> \in OpToRel(<, Nat) <=> x < y
    BY Zenon DEF OpToRel
  <2> QED
    BY <2>1, NatLessThanWellFounded, Zenon
<1>2. PICK R : /\ IsWellFoundedOn(R, Nat)
               /\ \A x, y \in Nat : <<x, y>> \in R <=> x < y
  BY <1>1, Zenon
<1>3. PICK x \in S : \A y \in S : ~ (<<y, x>> \in R)
  <2>1. S \subseteq Nat /\ S # {}
    BY Zenon
  <2>2. IsWellFoundedOn(R, Nat)
    BY <1>2, Zenon
  <2> QED
    BY <2>1, <2>2, WFMin, Zenon
<1>4. \A y \in S : ~ (y < x)
  BY <1>2, <1>3, Zenon
<1> QED
  BY <1>4

(* Min is the least element. *)
LEMMA MinIsLeast ==
    ASSUME NEW S \in SUBSET Nat, S # {}
    PROVE  Min(S) \in S /\ \A y \in S : Min(S) <= y
BY NatMin, Zenon DEF Min

(* Max is the greatest element of a bounded set: the least distance to the *)
(* bound gives it.                                                         *)
LEMMA MaxIsGreatest ==
    ASSUME NEW n \in Nat, NEW S \in SUBSET (0..n), S # {}
    PROVE  Max(S) \in S /\ \A y \in S : y <= Max(S)
<1> DEFINE D == {d \in 0..n : n - d \in S}
<1>1. \A y \in S : y \in 0..n /\ n - y \in D
  <2> TAKE y \in S
  <2>1. y \in 0..n /\ n - y \in 0..n /\ n - (n - y) = y
    OBVIOUS
  <2> QED
    BY <2>1, Zenon
<1>2. PICK d \in D : \A e \in D : d <= e
  <2>1. D # {}
    <3>1. PICK y \in S : TRUE
      BY Zenon
    <3> QED
      BY <1>1, <3>1, Zenon
  <2>2. D \in SUBSET Nat
    OBVIOUS
  <2> QED
    BY <2>1, <2>2, NatMin, Zenon
<1>3. n - d \in S /\ d \in 0..n
  BY <1>2, Zenon
<1>4. \A y \in S : n - d >= y
  BY <1>1, <1>2, <1>3
<1>5. \E z \in S : \A y \in S : z >= y
  BY <1>3, <1>4, Zenon
<1>6. Max(S) \in S /\ \A y \in S : Max(S) >= y
  BY <1>5, Zenon DEF Max
<1> QED
  BY <1>1, <1>6, Zenon

(* The ids of a room are a finite set of positive numbers. *)
LEMMA IdsType ==
    ASSUME NEW Rooms, NEW table \in Seq(Rooms), NEW r
    PROVE  /\ IdsOf(table, r) \in SUBSET (1..Len(table))
           /\ IsFiniteSet(IdsOf(table, r))
<1>1. IdsOf(table, r) \in SUBSET (1..Len(table))
  BY DEF IdsOf
<1>2. IsFiniteSet(1..Len(table))
  BY FS_Interval
<1> QED
  BY <1>1, <1>2, FS_Subset, Zenon

(* Appending to one room adds the new id there and nothing elsewhere. *)
LEMMA IdsAfterInsert ==
    ASSUME NEW Rooms, NEW table \in Seq(Rooms), NEW r \in Rooms, NEW q
    PROVE  /\ InsertMessage(table, r) \in Seq(Rooms)
           /\ Len(InsertMessage(table, r)) = Len(table) + 1
           /\ IdsOf(InsertMessage(table, r), q) =
                 IF q = r THEN IdsOf(table, q) \cup {Len(table) + 1}
                 ELSE IdsOf(table, q)
BY DEF IdsOf, InsertMessage

(***************************************************************************)
(* chat_db_max_message_id bounds the room: it is no id beyond the table,   *)
(* and no message of the room is newer.                                    *)
(***************************************************************************)
LEMMA TailIsNewest ==
    ASSUME NEW Rooms, NEW table \in Seq(Rooms), NEW r
    PROVE  /\ MaxMessageId(table, r) \in 0..Len(table)
           /\ \A i \in IdsOf(table, r) : i <= MaxMessageId(table, r)
<1>1. Len(table) \in Nat /\ IdsOf(table, r) \in SUBSET (0..Len(table))
  BY IdsType
<1>2. CASE IdsOf(table, r) = {}
  BY <1>1, <1>2 DEF MaxMessageId
<1>3. CASE IdsOf(table, r) # {}
  BY <1>1, <1>3, MaxIsGreatest, Zenon DEF MaxMessageId
<1> QED
  BY <1>2, <1>3, Zenon

-----------------------------------------------------------------------------
(* Rendering a set of messages oldest first *)

\* The members of S up to i; their number is the rank of i.
UpTo(S, i) == {j \in S : j <= i}

(* The rank of a member is between one and the number of members, and      *)
(* grows with the member.                                                  *)
LEMMA RankType ==
    ASSUME NEW S \in SUBSET Nat, IsFiniteSet(S)
    PROVE  /\ Cardinality(S) \in Nat
           /\ \A i \in S : Cardinality(UpTo(S, i)) \in 1 .. Cardinality(S)
           /\ \A i, j \in S : i < j => Cardinality(UpTo(S, i)) < Cardinality(UpTo(S, j))
           /\ \A i \in S : Cardinality(UpTo(S, i)) = Cardinality(S) => \A j \in S : j <= i
<1>1. \A i \in S : UpTo(S, i) \in SUBSET S /\ i \in UpTo(S, i)
  BY DEF UpTo
<1>2. Cardinality(S) \in Nat
  BY FS_CardinalityType, Zenon
<1>3. \A i \in S : /\ IsFiniteSet(UpTo(S, i)) /\ Cardinality(UpTo(S, i)) \in Nat
                   /\ Cardinality(UpTo(S, i)) <= Cardinality(S)
                   /\ Cardinality(S) = Cardinality(UpTo(S, i)) => S = UpTo(S, i)
  BY <1>1, FS_Subset, FS_CardinalityType, Zenon
<1>4. \A i \in S : Cardinality(UpTo(S, i)) # 0
  <2>1. \A i \in S : UpTo(S, i) # {}
    BY <1>1, Zenon
  <2> QED  BY <1>3, <2>1, FS_EmptySet, Zenon
<1>5. \A i \in S : Cardinality(UpTo(S, i)) \in 1 .. Cardinality(S)
  BY <1>2, <1>3, <1>4
<1>6. ASSUME NEW i \in S, NEW j \in S, i < j
      PROVE  Cardinality(UpTo(S, i)) < Cardinality(UpTo(S, j))
  <2>1. UpTo(S, i) \in SUBSET UpTo(S, j) /\ j \notin UpTo(S, i) /\ j \in UpTo(S, j)
    <3>1. ~(j <= i) /\ \A x \in S : x <= i => x <= j
      BY <1>6
    <3>2. j <= j
      OBVIOUS
    <3> QED  BY <3>1, <3>2, Zenon DEF UpTo
  <2>2. /\ Cardinality(UpTo(S, i)) <= Cardinality(UpTo(S, j))
        /\ Cardinality(UpTo(S, j)) # Cardinality(UpTo(S, i))
    BY <1>3, <2>1, FS_Subset, Zenon
  <2>3. Cardinality(UpTo(S, i)) \in Nat /\ Cardinality(UpTo(S, j)) \in Nat
    BY <1>3, Zenon
  <2> QED  BY <2>2, <2>3
<1>7. ASSUME NEW i \in S, Cardinality(UpTo(S, i)) = Cardinality(S)
      PROVE  \A j \in S : j <= i
  <2>1. S = UpTo(S, i)
    BY <1>3, <1>7, Zenon
  <2> QED  BY <2>1, Zenon DEF UpTo
<1> QED  BY <1>2, <1>5, <1>6, <1>7, Zenon

(* Every rank is somebody's. *)
LEMMA RankTaken ==
    ASSUME NEW S \in SUBSET Nat, IsFiniteSet(S), NEW k \in 1 .. Cardinality(S)
    PROVE  \E i \in S : Cardinality(UpTo(S, i)) = k
<1> DEFINE n == Cardinality(S)
           f == [i \in S |-> Cardinality(UpTo(S, i))]
<1>1. n \in Nat /\ \A i \in S : Cardinality(UpTo(S, i)) \in 1 .. n
  BY RankType, Zenon
<1>2. f \in [S -> 1 .. n]
  BY <1>1, Zenon
<1>3. \A i, j \in S : f[i] = f[j] => i = j
  <2>1. ASSUME NEW i \in S, NEW j \in S, f[i] = f[j], i # j
        PROVE  FALSE
    <3>1. i < j \/ j < i
      BY <2>1
    <3>2. f[i] < f[j] \/ f[j] < f[i]
      BY <3>1, RankType, Zenon
    <3>3. f[i] \in Nat /\ f[j] \in Nat
      BY <1>1
    <3> QED  BY <2>1, <3>2, <3>3
  <2> QED  BY <2>1, Zenon
<1>4. f \in Injection(S, 1 .. n)
  BY <1>2, <1>3, Zenon DEF Injection, IsInjective
<1>5. IsFiniteSet(1 .. n) /\ Cardinality(1 .. n) = n
  <2>1. 1 \in Int /\ n \in Int
    BY <1>1
  <2>2. IsFiniteSet(1 .. n) /\ Cardinality(1 .. n) = IF 1 > n THEN 0 ELSE n - 1 + 1
    BY <2>1, FS_Interval, Zenon
  <2> QED  BY <1>1, <2>2
<1>6. f \in Surjection(S, 1 .. n)
  <2> HIDE DEF f
  <2> QED  BY <1>4, <1>5, FS_Injection, Zenon
<1> QED  BY <1>6, Zenon DEF Surjection

\* What the view holds.
Entry == [id: Nat, by: Call]

\* The member of rank k.
Ranked(S, k) == CHOOSE i \in S : Cardinality({j \in S : j <= i}) = k

(* Ranked lists the members in order, the last being the greatest. *)
LEMMA RankedInOrder ==
    ASSUME NEW S \in SUBSET Nat, IsFiniteSet(S)
    PROVE  /\ Cardinality(S) \in Nat
           /\ \A k \in 1 .. Cardinality(S) : Ranked(S, k) \in S
           /\ \A k, l \in 1 .. Cardinality(S) : k < l => Ranked(S, k) < Ranked(S, l)
           /\ \A i \in S : \E k \in 1 .. Cardinality(S) : Ranked(S, k) = i
           /\ S # {} => /\ Cardinality(S) \in 1 .. Cardinality(S)
                        /\ \A j \in S : j <= Ranked(S, Cardinality(S))
<1> DEFINE n == Cardinality(S)
           R(i) == Cardinality(UpTo(S, i))
<1>1. /\ n \in Nat /\ \A i \in S : R(i) \in 1 .. n
      /\ \A i, j \in S : i < j => R(i) < R(j)
      /\ \A i \in S : R(i) = n => \A j \in S : j <= i
  BY RankType, Zenon
<1>2. \A k \in 1 .. n : Ranked(S, k) \in S /\ R(Ranked(S, k)) = k
  BY RankTaken, Zenon DEF Ranked, UpTo
<1> HIDE DEF n, R
<1>3. ASSUME NEW i \in S, NEW j \in S, ~(i < j)
      PROVE  ~(R(i) < R(j))
  <2>1. i = j \/ j < i
    BY <1>3
  <2>2. R(i) = R(j) \/ R(j) < R(i)
    BY <1>1, <2>1, Zenon
  <2>3. R(i) \in Nat /\ R(j) \in Nat
    BY <1>1
  <2> QED  BY <2>2, <2>3
<1>4. \A k, l \in 1 .. n : k < l => Ranked(S, k) < Ranked(S, l)
  BY <1>2, <1>3, Zenon
<1>5. ASSUME NEW i \in S
      PROVE  Ranked(S, R(i)) = i
  <2>1. R(i) \in 1 .. n
    BY <1>1, Zenon
  <2>2. Ranked(S, R(i)) \in S /\ R(Ranked(S, R(i))) = R(i)
    BY <1>2, <2>1, Zenon
  <2>3. R(i) \in Nat
    BY <1>1, <2>1
  <2>4. ~(R(i) < R(i))
    BY <2>3
  <2>5. ~(Ranked(S, R(i)) < i) /\ ~(i < Ranked(S, R(i)))
    BY <1>1, <2>2, <2>4, Zenon
  <2>6. Ranked(S, R(i)) \in Nat /\ i \in Nat
    BY <2>2, Zenon
  <2> QED  BY <2>5, <2>6
<1>6. ASSUME S # {}
      PROVE  n \in 1 .. n
  <2>1. PICK i \in S : TRUE
    BY <1>6, Zenon
  <2>2. R(i) \in 1 .. n
    BY <1>1, Zenon
  <2> QED  BY <1>1, <2>2
<1>7. \A i \in S : \E k \in 1 .. n : Ranked(S, k) = i
  BY <1>1, <1>5, Zenon
<1>8. S # {} => \A j \in S : j <= Ranked(S, n)
  BY <1>1, <1>2, <1>6, Zenon
<1> QED  BY <1>1, <1>2, <1>4, <1>6, <1>7, <1>8, Zenon DEF n

(* What Render appends. *)
LEMMA RenderAdds ==
    ASSUME NEW n \in Nat, NEW S \in SUBSET (1 .. n), NEW c \in Call, Render(S, c)
    PROVE  LET new == {m \in S : m > cursor}
               add == [k \in 1 .. Cardinality(new) |-> [id |-> Ranked(new, k), by |-> c]]
           IN  /\ new \in SUBSET Nat /\ IsFiniteSet(new)
               /\ shown' = shown \o add
               /\ cursor' = IF new = {} THEN cursor ELSE Ranked(new, Cardinality(new))
<1> DEFINE new == {m \in S : m > cursor}
<1>1. IsFiniteSet(1 .. n)
  <2>1. 1 \in Int /\ n \in Int
    OBVIOUS
  <2> QED  BY <2>1, FS_Interval, Zenon
<1>2. new \in SUBSET (1 .. n) /\ IsFiniteSet(new)
  <2>1. new \in SUBSET (1 .. n)
    BY Zenon
  <2> QED  BY <1>1, <2>1, FS_Subset, Zenon
<1>3. new \in SUBSET Nat /\ new \in SUBSET (0 .. n)
  <2>1. \A x \in 1 .. n : x \in Nat /\ x \in 0 .. n
    OBVIOUS
  <2> QED  BY <1>2, <2>1, Zenon
<1>4. shown' = shown \o [k \in 1 .. Cardinality(new) |-> [id |-> Ranked(new, k), by |-> c]]
  BY Zenon DEF Render, Ranked, IsNew
<1>5. cursor' = IF new = {} THEN cursor ELSE Max(new)
  BY Zenon DEF Render, IsNew
<1> HIDE DEF new
<1>6. ASSUME new # {}
      PROVE  Max(new) = Ranked(new, Cardinality(new))
  <2>1. Max(new) \in new /\ \A y \in new : y <= Max(new)
    BY <1>3, <1>6, MaxIsGreatest, Zenon
  <2>2. /\ Ranked(new, Cardinality(new)) \in new
        /\ \A y \in new : y <= Ranked(new, Cardinality(new))
    BY <1>2, <1>3, <1>6, RankedInOrder, Zenon
  <2>3. /\ Max(new) <= Ranked(new, Cardinality(new))
        /\ Ranked(new, Cardinality(new)) <= Max(new)
        /\ Max(new) \in Nat /\ Ranked(new, Cardinality(new)) \in Nat
    BY <1>3, <2>1, <2>2, Zenon
  <2> HIDE DEF Max
  <2> QED  BY <2>3
<1>7. cursor' = IF new = {} THEN cursor ELSE Ranked(new, Cardinality(new))
  BY <1>5, <1>6, Zenon
<1> QED  BY <1>2, <1>3, <1>4, <1>7, Zenon DEF new

\* t is s followed by the n elements of a; L is the length of s.
Join(s, a, t, L, n) ==
    /\ Len(t) = L + n /\ L \in Nat /\ n \in Nat
    /\ DOMAIN t = 1 .. (L + n) /\ DOMAIN s = 1 .. L
    /\ \A i \in 1 .. L : i \in 1 .. (L + n) /\ t[i] = s[i]
    /\ \A i \in 1 .. (L + n) : i \notin 1 .. L => i - L \in 1 .. n /\ t[i] = a[i - L]
    /\ \A k \in 1 .. n : L + k \in 1 .. (L + n) /\ t[L + k] = a[k]

(* One sequence after another. *)
LEMMA Joined ==
    ASSUME NEW E, NEW s \in Seq(E), NEW a \in Seq(E)
    PROVE  s \o a \in Seq(E) /\ Join(s, a, s \o a, Len(s), Len(a))
<1>1. /\ s \o a \in Seq(E) /\ Len(s \o a) = Len(s) + Len(a)
      /\ Len(s) \in Nat /\ Len(a) \in Nat
  OBVIOUS
<1>2. DOMAIN (s \o a) = 1 .. (Len(s) + Len(a)) /\ DOMAIN s = 1 .. Len(s)
  OBVIOUS
<1>3. \A i \in 1 .. Len(s) : i \in 1 .. (Len(s) + Len(a)) /\ (s \o a)[i] = s[i]
  OBVIOUS
<1>4. \A i \in 1 .. (Len(s) + Len(a)) : i \notin 1 .. Len(s) =>
          i - Len(s) \in 1 .. Len(a) /\ (s \o a)[i] = a[i - Len(s)]
  OBVIOUS
<1>5. \A k \in 1 .. Len(a) :
          Len(s) + k \in 1 .. (Len(s) + Len(a)) /\ (s \o a)[Len(s) + k] = a[k]
  OBVIOUS
<1> QED  BY <1>1, <1>2, <1>3, <1>4, <1>5, Zenon DEF Join

\* What a call of Render for call c with the messages S did to the view.
Rendered(S, c) ==
    /\ shown' \in Seq(Entry) /\ cursor' \in Nat /\ ShownOnce'
    /\ \A i \in DOMAIN shown : i \in DOMAIN shown' /\ shown'[i] = shown[i]
    /\ \A i \in DOMAIN shown' :
          \/ i \in DOMAIN shown /\ shown'[i] = shown[i]
          \/ shown'[i].by = c /\ shown'[i].id \in S
    /\ \A m \in S : m > cursor => m \in ShownIds'

(* Render keeps the view in order and its cursor exact, keeps what was     *)
(* shown, and adds what is newer than the cursor and nothing else.         *)
LEMMA RenderStep ==
    ASSUME NEW n \in Nat, NEW S \in SUBSET (1 .. n), NEW c \in Call, Render(S, c),
           shown \in Seq(Entry), cursor \in Nat, ShownOnce
    PROVE  Rendered(S, c)
<1> DEFINE new == {m \in S : m > cursor}
           N == Cardinality(new)
           add == [k \in 1 .. N |-> [id |-> Ranked(new, k), by |-> c]]
           L == Len(shown)
<1>1. /\ new \in SUBSET Nat /\ IsFiniteSet(new) /\ shown' = shown \o add
      /\ cursor' = IF new = {} THEN cursor ELSE Ranked(new, N)
  BY RenderAdds, Zenon
<1>2. \A m \in new : m > cursor
  BY Zenon
<1> HIDE DEF new
<1>3. /\ N \in Nat
      /\ \A k \in 1 .. N : Ranked(new, k) \in new
      /\ \A k, l \in 1 .. N : k < l => Ranked(new, k) < Ranked(new, l)
      /\ \A i \in new : \E k \in 1 .. N : Ranked(new, k) = i
      /\ new # {} => N \in 1 .. N /\ \A j \in new : j <= Ranked(new, N)
  BY <1>1, RankedInOrder, Zenon
<1>4. \A k \in 1 .. N : add[k] \in Entry /\ add[k].id = Ranked(new, k) /\ add[k].by = c
  BY <1>1, <1>3, Zenon DEF Entry
<1>5. add \in Seq(Entry) /\ Len(add) = N /\ DOMAIN add = 1 .. N
  <2>1. add \in [1 .. N -> Entry]
    BY <1>4, Zenon
  <2> HIDE DEF N, add
  <2> QED  BY <1>3, <2>1
<1> HIDE DEF N, add
<1>6. shown' \in Seq(Entry) /\ Join(shown, add, shown', L, N)
  <2>1. shown \o add \in Seq(Entry) /\ Join(shown, add, shown \o add, Len(shown), Len(add))
    BY <1>5, Joined, Zenon
  <2> QED  BY <1>1, <1>5, <2>1, Zenon
<1> HIDE DEF L
<1>7. /\ Len(shown') = L + N /\ L \in Nat /\ DOMAIN shown' = 1 .. (L + N)
      /\ DOMAIN shown = 1 .. L
      /\ \A i \in 1 .. L : i \in DOMAIN shown' /\ shown'[i] = shown[i]
  BY <1>6, Zenon DEF Join
<1>8. ASSUME NEW i \in DOMAIN shown', i \notin 1 .. L
      PROVE  /\ i - L \in 1 .. N
             /\ shown'[i].by = c /\ shown'[i].id = Ranked(new, i - L) /\ shown'[i].id \in new
  <2>1. i - L \in 1 .. N /\ shown'[i] = add[i - L]
    BY <1>6, <1>7, <1>8, Zenon DEF Join
  <2> QED  BY <1>3, <1>4, <2>1, Zenon
<1>9. \A m \in new : \E i \in DOMAIN shown' : shown'[i].id = m /\ shown'[i].by = c
  <2> TAKE m \in new
  <2>1. PICK k \in 1 .. N : Ranked(new, k) = m
    BY <1>3, Zenon
  <2>2. L + k \in DOMAIN shown' /\ shown'[L + k] = add[k]
    BY <1>6, <1>7, Zenon DEF Join
  <2>3. shown'[L + k].id = m /\ shown'[L + k].by = c
    BY <1>4, <2>1, <2>2, Zenon
  <2> QED  BY <2>2, <2>3, Zenon
<1>10. \A i \in 1 .. L : shown[i].id \in Nat /\ shown[i].id <= cursor
  <2>1. ASSUME NEW i \in 1 .. L
        PROVE  shown[i].id \in Nat /\ shown[i].id <= cursor
    <3>1. L \in 1 .. L /\ (i = L \/ i < L) /\ L # 0
      BY <1>7, <2>1
    <3>2. shown[i] \in Entry /\ shown[L] \in Entry
      BY <1>7, <3>1
    <3>5. shown # <<>>
      BY <3>1 DEF L
    <3>3. shown[i].id \in Nat /\ shown[L].id \in Nat
      BY <3>2, Zenon DEF Entry
    <3>4. cursor = shown[L].id /\ (i < L => shown[i].id < shown[L].id)
      BY <1>7, <3>1, <3>5, Zenon DEF ShownOnce, L
    <3> QED  BY <3>1, <3>3, <3>4
  <2> QED  BY <2>1, Zenon
<1>11. ASSUME NEW i \in DOMAIN shown', NEW j \in DOMAIN shown', i < j
       PROVE  shown'[i].id < shown'[j].id
  <2>1. CASE j \in 1 .. L
    <3>1. i \in 1 .. L
      BY <1>7, <1>11, <2>1
    <3> QED  BY <1>7, <1>11, <2>1, <3>1, Zenon DEF ShownOnce
  <2>2. CASE i \in 1 .. L /\ j \notin 1 .. L
    <3>1. shown'[j].id \in new /\ shown'[j].id > cursor /\ shown'[j].id \in Nat
      BY <1>1, <1>2, <1>8, <2>2, Zenon
    <3>2. shown'[i].id \in Nat /\ shown'[i].id <= cursor
      BY <1>7, <1>10, <2>2, Zenon
    <3> QED  BY <3>1, <3>2
  <2>3. CASE i \notin 1 .. L /\ j \notin 1 .. L
    <3>1. i - L \in 1 .. N /\ j - L \in 1 .. N
      BY <1>8, <2>3, Zenon
    <3>2. i - L < j - L
      BY <1>7, <1>11
    <3>3. Ranked(new, i - L) < Ranked(new, j - L)
      BY <1>3, <3>1, <3>2, Zenon
    <3> QED  BY <1>8, <2>3, <3>3, Zenon
  <2> QED  BY <2>1, <2>2, <2>3, Zenon
<1>12. cursor' \in Nat /\ cursor' = IF shown' = <<>> THEN 0 ELSE shown'[Len(shown')].id
  <2>1. CASE new = {}
    <3>1. N = 0
      BY <2>1, FS_EmptySet, Zenon DEF N
    <3>2. add = <<>>
      BY <1>5, <3>1
    <3>3. shown' = shown /\ cursor' = cursor
      <4>1. shown \o <<>> = shown
        OBVIOUS
      <4> QED  BY <1>1, <2>1, <3>2, <4>1, Zenon
    <3> QED  BY <3>3, Zenon DEF ShownOnce
  <2>2. CASE new # {}
    <3>1. N \in 1 .. N
      BY <1>3, <2>2, Zenon
    <3>2. L + N \in DOMAIN shown' /\ shown'[L + N] = add[N]
      BY <1>6, <1>7, <3>1, Zenon DEF Join
    <3>5. shown'[L + N].id = Ranked(new, N)
      BY <1>4, <3>1, <3>2, Zenon
    <3>3. shown' # <<>>
      <4>1. Len(shown') # 0
        BY <1>7, <3>1
      <4> QED  BY <4>1
    <3>4. cursor' = Ranked(new, N) /\ Ranked(new, N) \in Nat
      BY <1>1, <1>3, <2>2, <3>1, Zenon
    <3> QED  BY <1>7, <3>3, <3>4, <3>5, Zenon
  <2> QED  BY <2>1, <2>2, Zenon
<1>13. ShownOnce'
  BY <1>11, <1>12, Zenon DEF ShownOnce
<1>14. \A i \in DOMAIN shown' :
           \/ i \in DOMAIN shown /\ shown'[i] = shown[i]
           \/ shown'[i].by = c /\ shown'[i].id \in new
  BY <1>7, <1>8, Zenon
<1>15. \A m \in new : m \in ShownIds'
  BY <1>9, Zenon DEF ShownIds
<1>16. \A m \in S : m > cursor => m \in ShownIds'
  BY <1>15, Zenon DEF new
<1>17. new \subseteq S
  BY Zenon DEF new
<1> QED  BY <1>6, <1>7, <1>12, <1>13, <1>14, <1>16, <1>17, Zenon DEF Rendered

-----------------------------------------------------------------------------
(* The inductive invariant *)

Types ==
    /\ log \in Seq(Room) /\ Len(log) <= MaxPosts
    /\ tuned \in [Call -> Room \cup {None}]
    /\ start \in [Call -> Nat] /\ got \in [Call -> Seq(Nat)]
    /\ current \in Room \cup {None} /\ latest \in Call \cup {0}
    /\ cursor \in Nat /\ shown \in Seq(Entry)
    /\ step \in [Call -> {"unused", "asked", "answered", "done", "failed"}]
    /\ want \in [Call -> Room \cup {None}]
    /\ rows \in [Call -> SUBSET Nat]
    /\ events \in Call \cup {0}
    /\ es \in [Call -> {"none", "connecting", "open", "closed"}]
    /\ taken \in [Call -> Nat]
    /\ asked \subseteq Room /\ who \in Room \cup {None}
    /\ faults \in 0 .. MaxFaults

\* The last id of a stream g that started from s.
End(s, g) == IF g = <<>> THEN s ELSE g[Len(g)]

\* g is the ids of I after s, in order and without gaps.
Gapless(I, s, g) ==
    /\ \A i \in DOMAIN g : g[i] \in I /\ g[i] > s
    /\ \A i, j \in DOMAIN g : i < j => g[i] < g[j]
    /\ \A m \in I : m > s /\ m <= End(s, g) => \E i \in DOMAIN g : g[i] = m

\* The stream of a connection.
Streams ==
    \A c \in Call :
        /\ start[c] <= Len(log)
        /\ tuned[c] = None => got[c] = <<>>
        /\ tuned[c] # None => Gapless(IdsOf(log, tuned[c]), start[c], got[c])

\* A call, its EventSource and the connection.
Calls ==
    /\ latest = 0 => current = None
    /\ latest # 0 => current \in Room /\ want[latest] = current
    /\ events # 0 => step[events] = "done"
    /\ \A c \in Call :
        /\ step[c] # "unused" => c <= latest /\ want[c] \in Room
        /\ es[c] # "none" => step[c] = "done"
        /\ es[c] \in {"none", "connecting"} => tuned[c] = None
        /\ es[c] = "open" => tuned[c] = want[c]
        /\ taken[c] <= Len(got[c])

\* A history answer: messages of the room that was asked about.
Histories ==
    \A c \in Call :
        /\ step[c] \in {"unused", "asked"} => rows[c] = {}
        /\ rows[c] \subseteq IdsOf(log, want[c])

\* What is in the view was put there by a call that has come to its end,
\* and is of that call's room.
View ==
    \A i \in DOMAIN shown :
        /\ step[shown[i].by] = "done"
        /\ shown[i].id \in IdsOf(log, want[shown[i].by])

\* The view of the newest call shows its history and what its connection
\* has brought, and has nothing newer than the connection from elsewhere.
Faithful ==
    Undisturbed =>
        /\ rows[latest] \subseteq ShownIds
        /\ \A i \in 1 .. taken[latest] : got[latest][i] \in ShownIds
        /\ es[latest] = "open" =>
              \A m \in ShownIds : m > start[latest] =>
                 \E i \in 1 .. taken[latest] : got[latest][i] = m

Inv == Types /\ Streams /\ Calls /\ Histories /\ View /\ Faithful /\ ShownOnce

-----------------------------------------------------------------------------
(* Streams *)

(* No id of a stream is beyond its end. *)
LEMMA EndIsLast ==
    ASSUME NEW I \in SUBSET Nat, NEW s \in Nat, NEW g \in Seq(Nat), Gapless(I, s, g)
    PROVE  /\ End(s, g) \in Nat /\ s <= End(s, g)
           /\ g # <<>> => Len(g) \in DOMAIN g /\ End(s, g) = g[Len(g)]
           /\ \A i \in DOMAIN g : g[i] \in Nat /\ g[i] <= End(s, g)
<1>1. \A i, j \in DOMAIN g : i < j => g[i] < g[j]
  BY Zenon DEF Gapless
<1>2. \A i \in DOMAIN g : g[i] > s
  BY Zenon DEF Gapless
<1>3. g = <<>> => DOMAIN g = {}
  OBVIOUS
<1>4. g # <<>> => Len(g) \in DOMAIN g
  OBVIOUS
<1>5. \A i \in DOMAIN g : g[i] \in Nat /\ (i < Len(g) \/ i = Len(g))
  OBVIOUS
<1>6. CASE g = <<>>
  <2>1. End(s, g) = s
    BY <1>6, Zenon DEF End
  <2> QED  BY <1>3, <1>6, <2>1
<1>7. CASE g # <<>>
  <2>1. End(s, g) = g[Len(g)] /\ Len(g) \in DOMAIN g
    BY <1>4, <1>7, Zenon DEF End
  <2>2. g[Len(g)] \in Nat /\ g[Len(g)] > s
    BY <1>2, <1>5, <2>1, Zenon
  <2>3. ASSUME NEW i \in DOMAIN g
        PROVE  g[i] \in Nat /\ g[i] <= g[Len(g)]
    <3>1. g[i] \in Nat /\ (g[i] < g[Len(g)] \/ g[i] = g[Len(g)])
      BY <1>1, <1>5, <2>1, Zenon
    <3> QED  BY <2>2, <3>1
  <2>4. s <= g[Len(g)]
    BY <2>2
  <2> QED  BY <2>1, <2>2, <2>3, <2>4, Zenon
<1> QED  BY <1>6, <1>7, Zenon

(* A stream that has sent nothing has no gaps. *)
LEMMA GaplessStart ==
    ASSUME NEW I \in SUBSET Nat, NEW s \in Nat
    PROVE  Gapless(I, s, <<>>)
<1> DEFINE g == <<>>
<1>1. DOMAIN g = {} /\ End(s, g) = s
  BY DEF End
<1>2. \A m \in I : ~(m > s /\ m <= s)
  OBVIOUS
<1> HIDE DEF g
<1>3. Gapless(I, s, g)
  BY <1>1, <1>2, Zenon DEF Gapless
<1> QED  BY <1>3, Zenon DEF g

(* A new message beyond the end of a stream makes no gap in it. *)
LEMMA GaplessGrow ==
    ASSUME NEW I \in SUBSET Nat, NEW s \in Nat, NEW g \in Seq(Nat), Gapless(I, s, g),
           NEW x \in Nat, x > End(s, g)
    PROVE  Gapless(I \cup {x}, s, g)
<1>1. End(s, g) \in Nat
  BY EndIsLast, Zenon
<1>2. ~(x <= End(s, g))
  BY <1>1
<1> QED  BY <1>2, Zenon DEF Gapless

(* The oldest id beyond the end continues a stream. *)
LEMMA GaplessNext ==
    ASSUME NEW I \in SUBSET Nat, NEW s \in Nat, NEW g \in Seq(Nat), Gapless(I, s, g),
           NEW x \in I, x > End(s, g), \A m \in I : m > End(s, g) => x <= m
    PROVE  /\ Append(g, x) \in Seq(Nat) /\ Len(Append(g, x)) = Len(g) + 1
           /\ Gapless(I, s, Append(g, x))
<1> DEFINE h == Append(g, x)
           n == Len(g)
<1>1. /\ h \in Seq(Nat) /\ Len(h) = n + 1 /\ n \in Nat
      /\ DOMAIN h = 1 .. (n + 1) /\ DOMAIN g = 1 .. n
      /\ h # <<>> /\ x \in Nat
  OBVIOUS
<1>2. h[n + 1] = x /\ \A i \in 1 .. n : h[i] = g[i]
  OBVIOUS
<1>3. End(s, h) = x
  BY <1>1, <1>2, Zenon DEF End
<1>4. /\ End(s, g) \in Nat /\ s <= End(s, g)
      /\ \A i \in DOMAIN g : g[i] \in Nat /\ g[i] <= End(s, g)
  BY EndIsLast, Zenon
<1>5. x > s /\ \A i \in DOMAIN g : g[i] < x
  BY <1>1, <1>4
<1>6. \A i \in 1 .. (n + 1) : i \in 1 .. n \/ i = n + 1
  BY <1>1
<1>7. \A i, j \in 1 .. (n + 1) : i < j => i \in 1 .. n
  BY <1>1
<1> HIDE DEF h, n
<1>8. \A i \in DOMAIN h : h[i] \in I /\ h[i] > s
  BY <1>1, <1>2, <1>5, <1>6, Zenon DEF Gapless
<1>9. ASSUME NEW i \in DOMAIN h, NEW j \in DOMAIN h, i < j
      PROVE  h[i] < h[j]
  <2>1. i \in 1 .. n /\ i \in DOMAIN g /\ h[i] = g[i]
    BY <1>1, <1>2, <1>7, <1>9, Zenon
  <2>2. CASE j = n + 1
    BY <1>2, <1>5, <2>1, <2>2, Zenon
  <2>3. CASE j \in 1 .. n
    BY <1>1, <1>2, <1>9, <2>1, <2>3, Zenon DEF Gapless
  <2> QED  BY <1>1, <1>6, <2>2, <2>3, Zenon
<1>10. ASSUME NEW m \in I, m > s, m <= End(s, h)
       PROVE  \E i \in DOMAIN h : h[i] = m
  <2>1. CASE m <= End(s, g)
    <3>1. PICK i \in DOMAIN g : g[i] = m
      BY <1>10, <2>1, Zenon DEF Gapless
    <3>2. i \in DOMAIN h /\ h[i] = m
      <4>1. i \in 1 .. (n + 1)
        BY <1>1
      <4> QED  BY <1>1, <1>2, <3>1, <4>1, Zenon
    <3> QED  BY <3>2, Zenon
  <2>2. CASE ~(m <= End(s, g))
    <3>1. m > End(s, g)
      BY <1>4, <2>2
    <3>2. x <= m /\ m <= x
      BY <1>3, <1>10, <3>1, Zenon
    <3>3. m = x /\ n + 1 \in 1 .. (n + 1)
      BY <1>1, <3>2
    <3> QED  BY <1>1, <1>2, <3>3, Zenon
  <2> QED  BY <2>1, <2>2, Zenon
<1>11. Gapless(I, s, h)
  BY <1>8, <1>9, <1>10, Zenon DEF Gapless
<1> QED  BY <1>1, <1>11, Zenon DEF h, n

-----------------------------------------------------------------------------
(* Every step keeps the invariant *)

(* Calls are numbered from one. *)
LEMMA CallNumbers ==
    /\ 0 \notin Call
    /\ \A c \in Call : c \in Nat /\ c > 0 /\ \A d \in 1 .. c : d \in Call
<1>1. Cardinality(Reader) \in Nat /\ Reader = 1 .. Cardinality(Reader)
  BY WebAssumption, FS_CardinalityType, Zenon
<1> QED  BY <1>1 DEF Call

(* The ids of a room are positive and in the table. *)
LEMMA IdsInLog ==
    ASSUME Types, NEW r
    PROVE  /\ IdsOf(log, r) \in SUBSET (1 .. Len(log)) /\ IdsOf(log, r) \in SUBSET Nat
           /\ Len(log) \in Nat
           /\ \A m \in IdsOf(log, r) : m \in Nat /\ m > 0 /\ m <= Len(log)
<1>1. log \in Seq(Room)
  BY Zenon DEF Types
<1>2. Len(log) \in Nat
  BY <1>1
<1>3. IdsOf(log, r) \in SUBSET (1 .. Len(log))
  BY <1>1, IdsType, Zenon
<1>4. \A m \in 1 .. Len(log) : m \in Nat /\ m > 0 /\ m <= Len(log)
  BY <1>2
<1> QED  BY <1>2, <1>3, <1>4, Zenon

(* The initial state: nothing stored, nothing selected, nothing shown. *)
LEMMA InitInv == Init => Inv
<1> SUFFICES ASSUME Init PROVE Inv
  OBVIOUS
<1>1. /\ log = <<>> /\ tuned = [t \in Call |-> None] /\ start = [t \in Call |-> 0]
      /\ got = [t \in Call |-> <<>>]
      /\ current = None /\ cursor = 0 /\ shown = <<>> /\ latest = 0 /\ events = 0
      /\ step = [c \in Call |-> "unused"] /\ want = [c \in Call |-> None]
      /\ rows = [c \in Call |-> {}] /\ es = [c \in Call |-> "none"]
      /\ taken = [c \in Call |-> 0] /\ asked = {} /\ who = None /\ faults = 0
  BY Zenon DEF Init, FeedInit, Call
<1>2. /\ log \in Seq(Room) /\ Len(log) = 0 /\ DOMAIN log = {} /\ shown \in Seq(Entry)
      /\ DOMAIN shown = {} /\ <<>> \in Seq(Nat) /\ Len(<<>>) = 0
  BY <1>1
<1>3. MaxPosts \in Nat /\ MaxFaults \in Nat /\ 0 <= 0 /\ 0 <= MaxPosts /\ 0 \in 0 .. MaxFaults
  BY WebAssumption
<1>4. Types
  BY <1>1, <1>2, <1>3, Zenon DEF Types
<1>5. Streams
  BY <1>1, <1>2, <1>3, Zenon DEF Streams
<1>6. Calls
  BY <1>1, <1>2, <1>3, Zenon DEF Calls
<1>7. \A r : IdsOf(log, r) = {}
  BY <1>2, Zenon DEF IdsOf
<1>8. Histories
  BY <1>1, <1>7, Zenon DEF Histories
<1>9. View /\ ShownOnce
  BY <1>1, <1>2, Zenon DEF View, ShownOnce
<1>10. Faithful
  BY <1>1, Zenon DEF Faithful, Undisturbed
<1> QED  BY <1>4, <1>5, <1>6, <1>8, <1>9, <1>10, Zenon DEF Inv

(* A step that leaves the table, the streams and the page alone. *)
LEMMA PageKept ==
    ASSUME Inv, UNCHANGED feedVars, UNCHANGED pageVars,
           asked' \subseteq Room, who' \in Room \cup {None}, faults' \in 0 .. MaxFaults
    PROVE  Inv'
<1>1. /\ log' = log /\ tuned' = tuned /\ start' = start /\ got' = got
      /\ current' = current /\ cursor' = cursor /\ shown' = shown /\ latest' = latest
      /\ step' = step /\ want' = want /\ rows' = rows /\ events' = events
      /\ es' = es /\ taken' = taken
  BY Zenon DEF feedVars, pageVars
<1>2. Types'
  BY <1>1, Zenon DEF Inv, Types
<1>3. Streams'
  BY <1>1, Zenon DEF Inv, Streams
<1>4. Calls'
  BY <1>1, Zenon DEF Inv, Calls
<1>5. Histories'
  BY <1>1, Zenon DEF Inv, Histories
<1>6. View'
  BY <1>1, Zenon DEF Inv, View
<1>7. ShownOnce'
  BY <1>1, Zenon DEF Inv, ShownOnce
<1>8. Faithful'
  <2>1. ShownIds' = ShownIds
    BY <1>1, Zenon DEF ShownIds
  <2>2. Undisturbed' <=> Undisturbed
    BY <1>1, Zenon DEF Undisturbed
  <2> QED  BY <1>1, <2>1, <2>2, Zenon DEF Inv, Faithful
<1> QED  BY <1>2, <1>3, <1>4, <1>5, <1>6, <1>7, <1>8, Zenon DEF Inv

(* The user list and its requests do not touch the view. *)
LEMMA WhoInv ==
    ASSUME Inv, \/ \E r \in Room : WhoAnswer(r) \/ WhoFails(r)
                \/ UpdateWho
                \/ UNCHANGED vars
    PROVE  Inv'
<1>1. /\ asked \subseteq Room /\ who \in Room \cup {None} /\ faults \in 0 .. MaxFaults
      /\ current \in Room \cup {None}
  BY Zenon DEF Inv, Types
<1>2. UNCHANGED feedVars /\ UNCHANGED pageVars
  BY Zenon DEF WhoAnswer, WhoFails, UpdateWho, vars, whoVars
<1>3. asked' \subseteq Room
  BY <1>1, Zenon DEF WhoAnswer, WhoFails, UpdateWho, vars, whoVars
<1>4. who' \in Room \cup {None}
  BY <1>1, Zenon DEF WhoAnswer, WhoFails, UpdateWho, vars, whoVars
<1>5. faults' = faults \/ (faults < MaxFaults /\ faults' = faults + 1)
  BY Zenon DEF WhoAnswer, WhoFails, UpdateWho, vars, whoVars
<1>6. faults' \in 0 .. MaxFaults
  BY <1>1, <1>5, WebAssumption
<1> QED  BY <1>2, <1>3, <1>4, <1>6, PageKept, Zenon

(* A new message is newer than everything sent, answered and shown. *)
LEMMA PostInv ==
    ASSUME Inv, NEW r \in Room, SomebodyPosts(r)
    PROVE  Inv'
<1>1. /\ tuned' = tuned /\ start' = start /\ got' = got
      /\ current' = current /\ cursor' = cursor /\ shown' = shown /\ latest' = latest
      /\ step' = step /\ want' = want /\ rows' = rows /\ events' = events
      /\ es' = es /\ taken' = taken /\ asked' = asked /\ who' = who /\ faults' = faults
      /\ Len(log) < MaxPosts /\ log' = InsertMessage(log, r)
  BY Zenon DEF SomebodyPosts, Post, pageVars, whoVars
<1>2. Types /\ Streams /\ Calls /\ Histories /\ View /\ Faithful /\ ShownOnce
  BY Zenon DEF Inv
<1>3. log \in Seq(Room) /\ Len(log) \in Nat /\ MaxPosts \in Nat
  BY <1>2, IdsInLog, WebAssumption, Zenon DEF Types
<1>4. log' \in Seq(Room) /\ Len(log') = Len(log) + 1
  BY <1>1, <1>3, IdsAfterInsert, Zenon
<1>5. \A q : IdsOf(log', q) = IF q = r THEN IdsOf(log, q) \cup {Len(log) + 1}
                              ELSE IdsOf(log, q)
  <2> TAKE q
  <2>1. IdsOf(InsertMessage(log, r), q) =
           IF q = r THEN IdsOf(log, q) \cup {Len(log) + 1} ELSE IdsOf(log, q)
    BY <1>3, IdsAfterInsert, SMT
  <2> QED  BY <1>1, <2>1, Zenon
<1>6. Len(log) + 1 \in Nat /\ Len(log') <= MaxPosts
  BY <1>1, <1>3, <1>4
<1>7. Types'
  BY <1>1, <1>2, <1>4, <1>6, Zenon DEF Types
<1>8. Streams'
  <2>1. ASSUME NEW c \in Call
        PROVE  /\ start[c] <= Len(log')
               /\ tuned[c] # None => Gapless(IdsOf(log', tuned[c]), start[c], got[c])
    <3>1. start[c] \in Nat /\ got[c] \in Seq(Nat) /\ start[c] <= Len(log)
      BY <1>2, Zenon DEF Types, Streams
    <3>2. start[c] <= Len(log')
      BY <1>3, <1>4, <3>1
    <3>3. ASSUME tuned[c] # None, tuned[c] = r
          PROVE  Gapless(IdsOf(log', tuned[c]), start[c], got[c])
      <4>1. Gapless(IdsOf(log, r), start[c], got[c])
        BY <1>2, <3>3, Zenon DEF Streams
      <4>2. IdsOf(log, r) \in SUBSET Nat /\ \A m \in IdsOf(log, r) : m \in Nat /\ m <= Len(log)
        BY <1>2, IdsInLog, Zenon
      <4>3. End(start[c], got[c]) \in Nat /\ End(start[c], got[c]) <= Len(log)
        <5>1. CASE got[c] = <<>>
          <6>1. End(start[c], got[c]) = start[c]
            BY <5>1, Zenon DEF End
          <6> QED  BY <3>1, <6>1, Zenon
        <5>2. CASE got[c] # <<>>
          <6>1. /\ End(start[c], got[c]) \in Nat /\ Len(got[c]) \in DOMAIN got[c]
                /\ End(start[c], got[c]) = got[c][Len(got[c])]
            BY <3>1, <4>1, <4>2, <5>2, EndIsLast, Zenon
          <6>2. got[c][Len(got[c])] \in IdsOf(log, r)
            BY <4>1, <6>1, Zenon DEF Gapless
          <6> QED  BY <4>2, <6>1, <6>2, Zenon
        <5> QED  BY <5>1, <5>2, Zenon
      <4>4. Len(log) + 1 > End(start[c], got[c])
        BY <1>3, <4>3
      <4>5. Gapless(IdsOf(log, r) \cup {Len(log) + 1}, start[c], got[c])
        BY <1>6, <3>1, <4>1, <4>2, <4>4, GaplessGrow, Zenon
      <4> QED  BY <1>5, <3>3, <4>5, Zenon
    <3>4. ASSUME tuned[c] # None, tuned[c] # r
          PROVE  Gapless(IdsOf(log', tuned[c]), start[c], got[c])
      BY <1>2, <1>5, <3>4, Zenon DEF Streams
    <3> QED  BY <3>2, <3>3, <3>4, Zenon
  <2> QED  BY <1>1, <1>2, <2>1, Zenon DEF Streams
<1>9. Calls'
  BY <1>1, <1>2, Zenon DEF Calls
<1>10. Histories'
  <2>1. \A q : IdsOf(log, q) \subseteq IdsOf(log', q)
    BY <1>5, Zenon
  <2> QED  BY <1>1, <1>2, <2>1, Zenon DEF Histories
<1>11. View'
  <2>1. \A q : IdsOf(log, q) \subseteq IdsOf(log', q)
    BY <1>5, Zenon
  <2> QED  BY <1>1, <1>2, <2>1, Zenon DEF View
<1>12. ShownOnce'
  BY <1>1, <1>2, Zenon DEF ShownOnce
<1>13. Faithful'
  <2>1. ShownIds' = ShownIds
    BY <1>1, Zenon DEF ShownIds
  <2>2. Undisturbed' <=> Undisturbed
    BY <1>1, Zenon DEF Undisturbed
  <2> QED  BY <1>1, <1>2, <2>1, <2>2, Zenon DEF Faithful
<1> QED  BY <1>7, <1>8, <1>9, <1>10, <1>11, <1>12, <1>13, Zenon DEF Inv

(* A selection clears the view; its call has no answer and no connection. *)
LEMMA SelectInv ==
    ASSUME Inv, NEW r \in Room, Select(r)
    PROVE  Inv'
<1> DEFINE c == latest + 1
<1>1. /\ c \in Call /\ current' = r /\ cursor' = 0 /\ shown' = <<>> /\ latest' = c
      /\ step' = [step EXCEPT ![c] = "asked"] /\ want' = [want EXCEPT ![c] = r]
      /\ asked' = asked \cup {r} /\ rows' = rows /\ events' = events /\ es' = es
      /\ taken' = taken /\ who' = who /\ faults' = faults
      /\ log' = log /\ tuned' = tuned /\ start' = start /\ got' = got
  BY Zenon DEF Select, feedVars
<1>2. Types /\ Streams /\ Calls /\ Histories /\ View /\ Faithful /\ ShownOnce
  BY Zenon DEF Inv
<1>3. latest \in Nat /\ c \in Nat /\ ~(c <= latest) /\ c # 0 /\ c <= c
      /\ \A d \in Call : d <= latest => d <= c
  <2>1. latest \in Nat
    <3>1. latest \in Call \cup {0} /\ \A d \in Call : d \in Nat
      BY <1>2, CallNumbers, Zenon DEF Types
    <3> QED  BY <3>1
  <2>2. \A d \in Call : d \in Nat
    BY CallNumbers, Zenon
  <2> QED  BY <2>1, <2>2
<1> HIDE DEF c
<1>4. step[c] = "unused" /\ es[c] = "none" /\ events # c
  <2>1. step[c] = "unused"
    BY <1>1, <1>2, <1>3, Zenon DEF Calls
  <2> QED  BY <1>1, <1>2, <1>3, <2>1, Zenon DEF Calls
<1>5. \A d \in Call : /\ step'[d] = IF d = c THEN "asked" ELSE step[d]
                      /\ want'[d] = IF d = c THEN r ELSE want[d]
  BY <1>1, <1>2, Zenon DEF Types
<1>6. Types'
  <2>1. cursor' \in Nat /\ shown' \in Seq(Entry)
    BY <1>1
  <2>2. step' \in [Call -> {"unused", "asked", "answered", "done", "failed"}]
    BY <1>1, <1>2, Zenon DEF Types
  <2>3. want' \in [Call -> Room \cup {None}]
    BY <1>1, <1>2, Zenon DEF Types
  <2>4. asked' \subseteq Room
    BY <1>1, <1>2, Zenon DEF Types
  <2> QED  BY <1>1, <1>2, <2>1, <2>2, <2>3, <2>4, Zenon DEF Types
<1>7. Streams'
  BY <1>1, <1>2, Zenon DEF Streams
<1>8. Calls'
  <2>1. current' \in Room /\ want'[latest'] = current' /\ latest' # 0
    BY <1>1, <1>3, <1>5, Zenon
  <2>2. events' # 0 => step'[events'] = "done"
    <3>1. events # 0 => events \in Call /\ step[events] = "done"
      BY <1>2, Zenon DEF Calls, Types
    <3> QED  BY <1>1, <1>4, <1>5, <3>1, Zenon
  <2>3. ASSUME NEW d \in Call
        PROVE  /\ step'[d] # "unused" => d <= latest' /\ want'[d] \in Room
               /\ es'[d] # "none" => step'[d] = "done"
               /\ es'[d] \in {"none", "connecting"} => tuned'[d] = None
               /\ es'[d] = "open" => tuned'[d] = want'[d]
               /\ taken'[d] <= Len(got'[d])
    <3>1. /\ step[d] # "unused" => d <= latest /\ want[d] \in Room
          /\ es[d] # "none" => step[d] = "done"
          /\ es[d] \in {"none", "connecting"} => tuned[d] = None
          /\ es[d] = "open" => tuned[d] = want[d]
          /\ taken[d] <= Len(got[d])
      BY <1>2, Zenon DEF Calls
    <3>2. CASE d = c
      BY <1>1, <1>3, <1>4, <1>5, <3>1, <3>2, Zenon
    <3>3. CASE d # c
      BY <1>1, <1>3, <1>5, <3>1, <3>3, Zenon
    <3> QED  BY <3>2, <3>3, Zenon
  <2> QED  BY <2>1, <2>2, <2>3, Zenon DEF Calls
<1>9. Histories'
  <2>1. rows[c] = {}
    BY <1>1, <1>2, <1>4, Zenon DEF Histories
  <2> QED  BY <1>1, <1>2, <1>5, <2>1, Zenon DEF Histories
<1>10. View' /\ ShownOnce'
  <2>1. DOMAIN shown' = {}
    BY <1>1
  <2> QED  BY <1>1, <2>1, Zenon DEF View, ShownOnce
<1>11. Faithful'
  BY <1>1, <1>4, Zenon DEF Faithful, Undisturbed
<1> QED  BY <1>6, <1>7, <1>8, <1>9, <1>10, <1>11, Zenon DEF Inv

\* Call c, still waiting, moves on to s with the rows R.
Answers(c, s, R) ==
    /\ step[c] \in {"asked", "answered"} /\ s \in {"answered", "failed"}
    /\ R \in SUBSET IdsOf(log, want[c])
    /\ step' = [step EXCEPT ![c] = s] /\ rows' = [rows EXCEPT ![c] = R]
    /\ faults' \in 0 .. MaxFaults
    /\ UNCHANGED <<feedVars, current, cursor, shown, latest, want, events, es,
                   taken, whoVars>>

(* An answer, or a failure, of a history request concerns a call that has  *)
(* neither rendered nor connected.                                         *)
LEMMA AnswerStep ==
    ASSUME Inv, NEW c \in Call, NEW s, NEW R, Answers(c, s, R)
    PROVE  Inv'
<1>1. /\ log' = log /\ tuned' = tuned /\ start' = start /\ got' = got
      /\ current' = current /\ cursor' = cursor /\ shown' = shown /\ latest' = latest
      /\ want' = want /\ events' = events /\ es' = es /\ taken' = taken
      /\ asked' = asked /\ who' = who
  BY Zenon DEF Answers, feedVars, whoVars
<1>2. Types /\ Streams /\ Calls /\ Histories /\ View /\ Faithful /\ ShownOnce
  BY Zenon DEF Inv
<1>2a. /\ step[c] \in {"asked", "answered"} /\ s \in {"answered", "failed"}
       /\ R \in SUBSET IdsOf(log, want[c])
       /\ step' = [step EXCEPT ![c] = s] /\ rows' = [rows EXCEPT ![c] = R]
       /\ faults' \in 0 .. MaxFaults
  BY Zenon DEF Answers
<1>3. \A d \in Call : /\ step'[d] = IF d = c THEN s ELSE step[d]
                      /\ rows'[d] = IF d = c THEN R ELSE rows[d]
  BY <1>2, <1>2a, Zenon DEF Types
<1>4. step[c] # "unused" /\ step[c] # "done" /\ s # "unused" /\ s # "asked" /\ s # "done"
  <2>1. step[c] = "asked" \/ step[c] = "answered"
    BY <1>2a, Zenon
  <2>2. s = "answered" \/ s = "failed"
    BY <1>2a, Zenon
  <2> QED  BY <2>1, <2>2
<1>5. es[c] = "none" /\ events # c
  <2>1. c # 0
    BY CallNumbers, Zenon
  <2> QED  BY <1>2, <1>4, <2>1, Zenon DEF Calls
<1>6. Types'
  <2>1. step' \in [Call -> {"unused", "asked", "answered", "done", "failed"}]
    BY <1>2, <1>2a, Zenon DEF Types
  <2>2. R \in SUBSET Nat
    BY <1>2, <1>2a, IdsInLog, Zenon
  <2>3. rows' \in [Call -> SUBSET Nat]
    BY <1>2, <1>2a, <2>2, Zenon DEF Types
  <2> QED  BY <1>1, <1>2, <1>2a, <2>1, <2>3, Zenon DEF Types
<1>7. Streams'
  BY <1>1, <1>2, Zenon DEF Streams
<1>8. Calls'
  <2>1. events' # 0 => step'[events'] = "done"
    <3>1. events # 0 => events \in Call /\ step[events] = "done"
      BY <1>2, Zenon DEF Calls, Types
    <3> QED  BY <1>1, <1>3, <1>5, <3>1, Zenon
  <2>2. ASSUME NEW d \in Call
        PROVE  /\ step'[d] # "unused" => d <= latest /\ want[d] \in Room
               /\ es[d] # "none" => step'[d] = "done"
    <3>1. /\ step[d] # "unused" => d <= latest /\ want[d] \in Room
          /\ es[d] # "none" => step[d] = "done"
      BY <1>2, Zenon DEF Calls
    <3> QED  BY <1>3, <1>4, <1>5, <3>1, Zenon
  <2> QED  BY <1>1, <1>2, <2>1, <2>2, Zenon DEF Calls
<1>9. Histories'
  <2>1. ASSUME NEW d \in Call
        PROVE  /\ step'[d] \in {"unused", "asked"} => rows'[d] = {}
               /\ rows'[d] \subseteq IdsOf(log, want[d])
    <3>1. CASE d = c
      <4>1. step'[d] \notin {"unused", "asked"} /\ rows'[d] = R
        BY <1>3, <1>4, <3>1, Zenon
      <4> QED  BY <1>2a, <3>1, <4>1, Zenon
    <3>2. CASE d # c
      <4>1. step'[d] = step[d] /\ rows'[d] = rows[d]
        BY <1>3, <3>2, Zenon
      <4> QED  BY <1>2, <4>1, Zenon DEF Histories
    <3> QED  BY <3>1, <3>2, Zenon
  <2> QED  BY <1>1, <2>1, Zenon DEF Histories
<1>10. View'
  <2>1. ASSUME NEW i \in DOMAIN shown
        PROVE  step'[shown[i].by] = "done"
    <3>1. shown[i] \in Entry
      BY <1>2 DEF Types
    <3>2. shown[i].by \in Call
      BY <3>1, Zenon DEF Entry
    <3>3. step[shown[i].by] = "done"
      BY <1>2, Zenon DEF View
    <3> QED  BY <1>3, <1>4, <3>2, <3>3, Zenon
  <2> QED  BY <1>1, <1>2, <2>1, Zenon DEF View
<1>11. ShownOnce'
  BY <1>1, <1>2, Zenon DEF ShownOnce
<1>12. Faithful'
  <2>1. ShownIds' = ShownIds
    BY <1>1, Zenon DEF ShownIds
  <2>2. Undisturbed' <=> Undisturbed
    BY <1>1, Zenon DEF Undisturbed
  <2>3. Undisturbed => latest \in Call /\ rows'[latest] = rows[latest]
    BY <1>2, <1>3, <1>5, Zenon DEF Undisturbed, Types
  <2> QED  BY <1>1, <1>2, <2>1, <2>2, <2>3, Zenon DEF Faithful
<1> QED  BY <1>6, <1>7, <1>8, <1>9, <1>10, <1>11, <1>12, Zenon DEF Inv

(* The history comes: messages of the room. *)
LEMMA HistoryInv ==
    ASSUME Inv, NEW c \in Call, History(c)
    PROVE  Inv'
<1> DEFINE R == MessagesSince(log, want[c], 0, Limit)
<1>1. /\ step[c] \in {"asked", "answered"} /\ step' = [step EXCEPT ![c] = "answered"]
      /\ rows' = [rows EXCEPT ![c] = R]
      /\ UNCHANGED <<feedVars, current, cursor, shown, latest, want, events, es,
                     taken, whoVars>>
  BY Zenon DEF History, HistoryRows
<1>2. faults' \in 0 .. MaxFaults
  BY Zenon DEF History, Inv, Types
<1>4. R \in SUBSET IdsOf(log, want[c])
  BY Zenon DEF MessagesSince, Lowest
<1> HIDE DEF R
<1>8. Answers(c, "answered", R)
  BY <1>1, <1>2, <1>4, Zenon DEF Answers
<1> QED  BY <1>8, AnswerStep, Zenon

(* The history request fails. *)
LEMMA HistoryFailsInv ==
    ASSUME Inv, NEW c \in Call, HistoryFails(c)
    PROVE  Inv'
<1>1. /\ step[c] \in {"asked", "answered"} /\ step' = [step EXCEPT ![c] = "failed"]
      /\ rows' = [rows EXCEPT ![c] = {}]
      /\ UNCHANGED <<feedVars, current, cursor, shown, latest, want, events, es,
                     taken, whoVars>>
      /\ faults < MaxFaults /\ faults' = faults + 1
  BY Zenon DEF HistoryFails
<1>2. faults' \in 0 .. MaxFaults
  <2>1. faults \in 0 .. MaxFaults
    BY Zenon DEF Inv, Types
  <2> QED  BY <1>1, <2>1, WebAssumption
<1>3. Answers(c, "failed", {})
  BY <1>1, <1>2, Zenon DEF Answers
<1> QED  BY <1>3, AnswerStep, Zenon

(* The entries of the view, and what their fields are. *)
LEMMA Entries ==
    ASSUME Types, NEW i \in DOMAIN shown
    PROVE  shown[i].id \in Nat /\ shown[i].by \in Call /\ shown[i].id \in ShownIds
<1>1. shown[i] \in Entry
  BY DEF Types
<1>2. shown[i].id \in Nat /\ shown[i].by \in Call
  BY <1>1, Zenon DEF Entry
<1>3. shown[i].id \in ShownIds
  BY Zenon DEF ShownIds
<1> QED  BY <1>2, <1>3, Zenon

(* Rendering messages of the table. *)
LEMMA RenderDoes ==
    ASSUME Types, ShownOnce, NEW c \in Call, NEW S \in SUBSET (1 .. Len(log)), Render(S, c)
    PROVE  Rendered(S, c)
<1>1. Len(log) \in Nat /\ shown \in Seq(Entry) /\ cursor \in Nat
  BY IdsInLog, Zenon DEF Types
<1> QED  BY <1>1, RenderStep, Zenon

(* Rendering for a call that has come to its end keeps the view sound: the *)
(* messages are of its room.                                               *)
LEMMA RenderedView ==
    ASSUME Types, View, NEW c \in Call, NEW S, Rendered(S, c),
           S \subseteq IdsOf(log, want[c]), log' = log, want' = want,
           step'[c] = "done", \A d \in Call : step[d] = "done" => step'[d] = "done"
    PROVE  View'
<1>1. ASSUME NEW i \in DOMAIN shown'
      PROVE  /\ step'[shown'[i].by] = "done"
             /\ shown'[i].id \in IdsOf(log, want[shown'[i].by])
  <2>1. CASE i \in DOMAIN shown /\ shown'[i] = shown[i]
    <3>1. shown[i].by \in Call
      BY <2>1, Entries, Zenon
    <3> QED  BY <2>1, <3>1, Zenon DEF View
  <2>2. CASE shown'[i].by = c /\ shown'[i].id \in S
    BY <2>2, Zenon
  <2> QED  BY <2>1, <2>2, Zenon DEF Rendered
<1> QED  BY <1>1, Zenon DEF View

(* The view only grows, and it grows by messages of the rendering call. *)
LEMMA RenderedIds ==
    ASSUME NEW c \in Call, NEW S, Rendered(S, c)
    PROVE  /\ ShownIds \subseteq ShownIds' /\ ShownIds' \subseteq ShownIds \cup S
           /\ latest' = latest /\ events' = events /\ Undisturbed' => Undisturbed
           /\ latest' = latest /\ c # latest /\ Undisturbed' => ShownIds' = ShownIds
<1>1. ShownIds \subseteq ShownIds'
  BY Zenon DEF Rendered, ShownIds
<1>2. ShownIds' \subseteq ShownIds \cup S
  BY Zenon DEF Rendered, ShownIds
<1>3. ASSUME latest' = latest, events' = events, Undisturbed'
      PROVE  Undisturbed
  BY <1>3, Zenon DEF Rendered, Undisturbed
<1>4. ASSUME latest' = latest, c # latest, Undisturbed'
      PROVE  ShownIds' \subseteq ShownIds
  BY <1>4, Zenon DEF Rendered, Undisturbed, ShownIds
<1> QED  BY <1>1, <1>2, <1>3, <1>4, Zenon

(* A call goes on after its await: it renders its history, closes the old  *)
(* EventSource and opens its own.  A view that is undisturbed afterwards   *)
(* was empty before.                                                       *)
LEMMA ResumeInv ==
    ASSUME Inv, NEW c \in Call, Resume(c)
    PROVE  Inv'
<1>1. /\ log' = log /\ tuned' = tuned /\ start' = start /\ got' = got
      /\ current' = current /\ latest' = latest /\ want' = want /\ rows' = rows
      /\ taken' = taken /\ asked' = asked /\ who' = who /\ faults' = faults
      /\ step[c] = "answered" /\ step' = [step EXCEPT ![c] = "done"]
      /\ Render(rows[c], c) /\ events' = c
      /\ es' = [d \in Call |-> IF d = c THEN "connecting"
                               ELSE IF d = events THEN "closed" ELSE es[d]]
  BY Zenon DEF Resume, feedVars, whoVars
<1>2. Types /\ Streams /\ Calls /\ Histories /\ View /\ Faithful /\ ShownOnce
  BY Zenon DEF Inv
<1>3. \A d \in Call : step'[d] = IF d = c THEN "done" ELSE step[d]
  BY <1>1, <1>2, Zenon DEF Types
<1>4. step[c] # "done" /\ step[c] # "unused"
  BY <1>1
<1>5. es[c] = "none" /\ tuned[c] = None /\ got[c] = <<>> /\ taken[c] <= Len(got[c])
  BY <1>2, <1>4, Zenon DEF Calls, Streams
<1>6. rows[c] \subseteq IdsOf(log, want[c]) /\ rows[c] \in SUBSET (1 .. Len(log))
  <2>1. rows[c] \subseteq IdsOf(log, want[c])
    BY <1>2, Zenon DEF Histories
  <2> QED  BY <1>2, <2>1, IdsInLog, Zenon
<1>7. Rendered(rows[c], c)
  BY <1>1, <1>2, <1>6, RenderDoes, Zenon
<1>8. Types'
  <2>1. step' \in [Call -> {"unused", "asked", "answered", "done", "failed"}]
    BY <1>1, <1>2, Zenon DEF Types
  <2>2. es' \in [Call -> {"none", "connecting", "open", "closed"}]
    <3>1. \A d \in Call : es[d] \in {"none", "connecting", "open", "closed"}
      BY <1>2, Zenon DEF Types
    <3> QED  BY <1>1, <3>1, Zenon
  <2>3. shown' \in Seq(Entry) /\ cursor' \in Nat
    BY <1>7, Zenon DEF Rendered
  <2> QED  BY <1>1, <1>2, <2>1, <2>2, <2>3, Zenon DEF Types
<1>9. Streams'
  BY <1>1, <1>2, Zenon DEF Streams
<1>10. Calls'
  <2>1. events' # 0 => step'[events'] = "done"
    BY <1>1, <1>3, Zenon
  <2>2. ASSUME NEW d \in Call
        PROVE  /\ step'[d] # "unused" => d <= latest /\ want[d] \in Room
               /\ es'[d] # "none" => step'[d] = "done"
               /\ es'[d] \in {"none", "connecting"} => tuned[d] = None
               /\ es'[d] = "open" => tuned[d] = want[d]
               /\ taken[d] <= Len(got[d])
    <3>1. /\ step[d] # "unused" => d <= latest /\ want[d] \in Room
          /\ es[d] # "none" => step[d] = "done"
          /\ es[d] \in {"none", "connecting"} => tuned[d] = None
          /\ es[d] = "open" => tuned[d] = want[d]
          /\ taken[d] <= Len(got[d])
          /\ events # 0 => step[events] = "done"
      BY <1>2, Zenon DEF Calls
    <3>2. CASE d = c
      <4>1. step'[d] = "done" /\ es'[d] = "connecting"
        BY <1>1, <1>3, <3>2, Zenon
      <4>2. es'[d] # "open"
        BY <4>1
      <4> QED  BY <1>4, <1>5, <3>1, <3>2, <4>1, <4>2, Zenon
    <3>3. CASE d # c /\ d = events
      <4>1. step'[d] = "done" /\ es'[d] = "closed"
        <5>1. d # 0
          BY CallNumbers, Zenon
        <5> QED  BY <1>1, <1>3, <3>1, <3>3, <5>1, Zenon
      <4>2. es'[d] \notin {"none", "connecting"} /\ es'[d] # "open"
        BY <4>1
      <4>3. step[d] # "unused"
        <5>1. step[d] = step'[d]
          BY <1>3, <3>3, Zenon
        <5> QED  BY <4>1, <5>1
      <4> QED  BY <3>1, <4>1, <4>2, <4>3, Zenon
    <3>4. CASE d # c /\ d # events
      BY <1>1, <1>3, <3>1, <3>4, Zenon
    <3> QED  BY <3>2, <3>3, <3>4, Zenon
  <2> QED  BY <1>1, <1>2, <2>1, <2>2, Zenon DEF Calls
<1>11. Histories'
  <2>1. \A d \in Call : step'[d] \in {"unused", "asked"} => step[d] \in {"unused", "asked"}
    BY <1>3, Zenon
  <2> QED  BY <1>1, <1>2, <2>1, Zenon DEF Histories
<1>12. View'
  <2>1. step'[c] = "done" /\ \A d \in Call : step[d] = "done" => step'[d] = "done"
    BY <1>3, Zenon
  <2> QED  BY <1>1, <1>2, <1>6, <1>7, <2>1, RenderedView, Zenon
<1>13. ShownOnce'
  BY <1>7, Zenon DEF Rendered
<1>14. ASSUME Undisturbed'
       PROVE  /\ latest = c /\ rows[c] \subseteq ShownIds' /\ 1 .. taken[c] = {}
              /\ es'[c] # "open"
  <2>1. latest = c /\ \A i \in DOMAIN shown' : shown'[i].by = c
    BY <1>1, <1>14, Zenon DEF Undisturbed
  <2>2. \A i \in DOMAIN shown : FALSE
    <3>1. \A i \in DOMAIN shown : shown[i].by = c /\ step[shown[i].by] = "done"
      BY <1>2, <1>7, <2>1, Zenon DEF Rendered, View
    <3> QED  BY <1>4, <3>1, Zenon
  <2>3. cursor = 0
    <3>1. shown \in Seq(Entry)
      BY <1>2, Zenon DEF Types
    <3>2. shown = <<>>
      BY <2>2, <3>1
    <3> QED  BY <1>2, <3>2, Zenon DEF ShownOnce
  <2>4. \A m \in rows[c] : m > cursor
    <3>1. \A m \in rows[c] : m > 0
      BY <1>2, <1>6, IdsInLog, Zenon
    <3> QED  BY <2>3, <3>1, Zenon
  <2>5. 1 .. taken[c] = {}
    <3>1. taken[c] \in Nat /\ Len(got[c]) = 0
      BY <1>2, <1>5 DEF Types
    <3> QED  BY <1>5, <3>1
  <2>6. es'[c] # "open"
    <3>1. es'[c] = "connecting"
      BY <1>1, Zenon
    <3> QED  BY <3>1
  <2> QED  BY <1>7, <2>1, <2>4, <2>5, <2>6, Zenon DEF Rendered
<1>15. Faithful'
  BY <1>1, <1>14, Zenon DEF Faithful
<1> QED  BY <1>8, <1>9, <1>10, <1>11, <1>12, <1>13, <1>15, Zenon DEF Inv

(* A frame is handled: it is newer than anything an undisturbed view has,  *)
(* so addMessage does not throw it away.                                   *)
LEMMA ReceiveInv ==
    ASSUME Inv, NEW c \in Call, Receive(c)
    PROVE  Inv'
<1> DEFINE t == taken[c] + 1
           m0 == got[c][t]
<1>1. /\ log' = log /\ tuned' = tuned /\ start' = start /\ got' = got
      /\ current' = current /\ latest' = latest /\ step' = step /\ want' = want
      /\ rows' = rows /\ events' = events /\ es' = es /\ who' = who /\ faults' = faults
      /\ es[c] = "open" /\ taken[c] < Len(got[c]) /\ taken' = [taken EXCEPT ![c] = t]
      /\ Render({m0}, c) /\ asked' = asked \cup {current}
  BY Zenon DEF Receive, feedVars
<1>2. Types /\ Streams /\ Calls /\ Histories /\ View /\ Faithful /\ ShownOnce
  BY Zenon DEF Inv
<1>3. taken[c] \in Nat /\ got[c] \in Seq(Nat) /\ start[c] \in Nat /\ cursor \in Nat
  BY <1>2, Zenon DEF Types
<1>4. step[c] = "done" /\ tuned[c] = want[c] /\ want[c] \in Room /\ want[c] # None
  <2>1. es[c] # "none"
    BY <1>1
  <2>2. step[c] = "done" /\ tuned[c] = want[c]
    BY <1>1, <1>2, <2>1, Zenon DEF Calls
  <2>3. step[c] # "unused"
    BY <2>2
  <2>4. want[c] \in Room
    BY <1>2, <2>3, Zenon DEF Calls
  <2> QED  BY <2>2, <2>4, WebAssumption, Zenon
<1>5. /\ t \in DOMAIN got[c] /\ t \in Nat /\ t <= Len(got[c])
      /\ \A i \in 1 .. taken[c] : i \in DOMAIN got[c] /\ i < t /\ i \in 1 .. t
      /\ \A i \in 1 .. t : i = t \/ i \in 1 .. taken[c]
      /\ t \in 1 .. t
  BY <1>1, <1>3, SMTT(30)
<1>6. Gapless(IdsOf(log, want[c]), start[c], got[c])
  BY <1>2, <1>4, Zenon DEF Streams
<1> HIDE DEF t
<1>7. /\ m0 \in IdsOf(log, want[c]) /\ m0 > start[c] /\ m0 \in Nat /\ m0 > 0
      /\ \A i \in 1 .. taken[c] : got[c][i] < m0
  <2>1. m0 \in IdsOf(log, want[c]) /\ m0 > start[c]
    BY <1>5, <1>6, Zenon DEF Gapless
  <2>2. m0 \in Nat /\ m0 > 0
    BY <1>2, <2>1, IdsInLog, Zenon
  <2>3. \A i \in 1 .. taken[c] : got[c][i] < m0
    BY <1>5, <1>6, Zenon DEF Gapless
  <2> QED  BY <2>1, <2>2, <2>3, Zenon
<1> HIDE DEF m0
<1>8. {m0} \subseteq IdsOf(log, want[c]) /\ {m0} \in SUBSET (1 .. Len(log))
  <2>1. IdsOf(log, want[c]) \in SUBSET (1 .. Len(log))
    BY <1>2, IdsInLog, Zenon
  <2> QED  BY <1>7, <2>1, Zenon
<1>9. Rendered({m0}, c)
  BY <1>1, <1>2, <1>8, RenderDoes, Zenon
<1>10. taken' \in [Call -> Nat] /\ \A d \in Call : taken'[d] = IF d = c THEN t ELSE taken[d]
  BY <1>1, <1>2, <1>5, Zenon DEF Types
<1>11. Types'
  <2>1. shown' \in Seq(Entry) /\ cursor' \in Nat
    BY <1>9, Zenon DEF Rendered
  <2>2. asked' \subseteq Room
    <3>1. current \in Room
      <4>1. latest \in Call \cup {0} /\ latest # 0
        <5>1. c <= latest /\ c \in Nat /\ c > 0
          <6>1. step[c] # "unused"
            BY <1>4
          <6> QED  BY <1>2, <6>1, CallNumbers, Zenon DEF Calls
        <5>2. latest \in Call \cup {0}
          BY <1>2, Zenon DEF Types
        <5> QED  BY <5>1, <5>2
      <4> QED  BY <1>2, <4>1, Zenon DEF Calls
    <3> QED  BY <1>1, <1>2, <3>1, Zenon DEF Types
  <2> QED  BY <1>1, <1>2, <1>10, <2>1, <2>2, Zenon DEF Types
<1>12. Streams' /\ Histories'
  BY <1>1, <1>2, Zenon DEF Streams, Histories
<1>13. Calls'
  <2>1. \A d \in Call : taken'[d] <= Len(got[d])
    BY <1>2, <1>5, <1>10, Zenon DEF Calls
  <2> QED  BY <1>1, <1>2, <2>1, Zenon DEF Calls
<1>14. View'
  BY <1>1, <1>2, <1>4, <1>8, <1>9, RenderedView, Zenon
<1>15. ShownOnce'
  BY <1>9, Zenon DEF Rendered
<1>16. ASSUME Undisturbed', latest = c
       PROVE  /\ rows[c] \subseteq ShownIds' /\ \A i \in 1 .. t : got[c][i] \in ShownIds'
              /\ \A m \in ShownIds' : m > start[c] => \E i \in 1 .. t : got[c][i] = m
  <2>1. Undisturbed
    <3>1. latest' = latest /\ events' = events /\ Undisturbed' => Undisturbed
      BY <1>9, RenderedIds, Zenon
    <3> QED  BY <1>1, <1>16, <3>1, Zenon
  <2>2. /\ rows[c] \subseteq ShownIds
        /\ \A i \in 1 .. taken[c] : got[c][i] \in ShownIds
        /\ \A m \in ShownIds : m > start[c] => \E i \in 1 .. taken[c] : got[c][i] = m
    BY <1>1, <1>2, <1>16, <2>1, Zenon DEF Faithful
  <2>3. m0 > cursor
    <3>1. CASE shown = <<>>
      <4>1. cursor = 0
        BY <1>2, <3>1, Zenon DEF ShownOnce
      <4> QED  BY <1>7, <4>1, Zenon
    <3>2. CASE shown # <<>>
      <4>1. Len(shown) \in DOMAIN shown
        <5>1. shown \in Seq(Entry)
          BY <1>2, Zenon DEF Types
        <5> QED  BY <3>2, <5>1
      <4>2. cursor = shown[Len(shown)].id /\ cursor \in ShownIds
        BY <1>2, <3>2, <4>1, Zenon DEF ShownOnce, ShownIds
      <4>3. CASE cursor > start[c]
        <5>1. cursor < m0
          BY <1>7, <2>2, <4>2, <4>3, Zenon
        <5> QED  BY <1>3, <1>7, <5>1
      <4>4. CASE ~(cursor > start[c])
        BY <1>3, <1>7, <4>4
      <4> QED  BY <4>3, <4>4, Zenon
    <3> QED  BY <3>1, <3>2, Zenon
  <2>4. m0 \in ShownIds' /\ ShownIds \subseteq ShownIds' /\ ShownIds' \subseteq ShownIds \cup {m0}
    <3>1. m0 \in ShownIds'
      BY <1>9, <2>3, Zenon DEF Rendered
    <3>2. ShownIds \subseteq ShownIds' /\ ShownIds' \subseteq ShownIds \cup {m0}
      BY <1>9, RenderedIds, Zenon
    <3> QED  BY <3>1, <3>2, Zenon
  <2>5. \A i \in 1 .. t : got[c][i] \in ShownIds'
    BY <1>5, <2>2, <2>4, Zenon DEF m0
  <2>6. ASSUME NEW m \in ShownIds', m > start[c]
        PROVE  \E i \in 1 .. t : got[c][i] = m
    <3>1. CASE m = m0
      BY <1>5, <3>1, Zenon DEF m0
    <3>2. CASE m \in ShownIds
      BY <1>5, <2>2, <2>6, <3>2, Zenon
    <3> QED  BY <2>4, <3>1, <3>2, Zenon
  <2> QED  BY <2>2, <2>4, <2>5, <2>6, Zenon
<1>17. ASSUME Undisturbed', latest # c
       PROVE  Undisturbed /\ ShownIds' = ShownIds /\ taken'[latest] = taken[latest]
  <2>1. Undisturbed /\ ShownIds' = ShownIds
    BY <1>1, <1>9, <1>17, RenderedIds, Zenon
  <2>2. latest \in Call
    BY <1>2, <2>1, Zenon DEF Undisturbed, Types
  <2> QED  BY <1>10, <1>17, <2>1, <2>2, Zenon
<1>18. Faithful'
  <2>1. CASE latest = c
    BY <1>1, <1>10, <1>16, <2>1, Zenon DEF Faithful
  <2>2. CASE latest # c
    BY <1>1, <1>2, <1>17, <2>2, Zenon DEF Faithful
  <2> QED  BY <2>1, <2>2, Zenon
<1> QED  BY <1>11, <1>12, <1>13, <1>14, <1>15, <1>18, Zenon DEF Inv

\* The connection of call c changes to e; its room, start and frames are
\* then r, s and g, and the page has handled k of the frames.
Rewired(c, e, r, s, g, k) ==
    /\ tuned' = [tuned EXCEPT ![c] = r] /\ start' = [start EXCEPT ![c] = s]
    /\ got' = [got EXCEPT ![c] = g] /\ es' = [es EXCEPT ![c] = e]
    /\ taken' = [taken EXCEPT ![c] = k] /\ faults' \in 0 .. MaxFaults
    /\ log' = log
    /\ UNCHANGED <<current, cursor, shown, latest, step, want, rows, events, whoVars>>

\* What the invariant asks of that connection.
Wired(c, e, r, s, g, k) ==
    /\ s \in Nat /\ g \in Seq(Nat) /\ k \in Nat /\ r \in Room \cup {None}
    /\ e \in {"connecting", "open", "closed"} /\ e # "none" /\ step[c] = "done"
    /\ s <= Len(log) /\ k <= Len(g)
    /\ r = None => g = <<>>
    /\ r # None => Gapless(IdsOf(log, r), s, g)
    /\ e = "connecting" => r = None
    /\ e = "open" => r = want[c]
    /\ c = latest /\ Undisturbed => \A i \in 1 .. k : g[i] \in ShownIds
    /\ c = latest /\ Undisturbed /\ e = "open" =>
          \A m \in ShownIds : m > s => \E i \in 1 .. k : g[i] = m

(* A connection is made, carries a frame or ends, and is then as it must   *)
(* be: the other connections and the view do not notice.                   *)
LEMMA ConnectionStep ==
    ASSUME Inv, NEW c \in Call, NEW e, NEW r, NEW s, NEW g, NEW k,
           Rewired(c, e, r, s, g, k), Wired(c, e, r, s, g, k)
    PROVE  Inv'
<1>1. /\ log' = log /\ current' = current /\ cursor' = cursor /\ shown' = shown
      /\ latest' = latest /\ step' = step /\ want' = want /\ rows' = rows
      /\ events' = events /\ asked' = asked /\ who' = who /\ faults' \in 0 .. MaxFaults
      /\ tuned' = [tuned EXCEPT ![c] = r] /\ start' = [start EXCEPT ![c] = s]
      /\ got' = [got EXCEPT ![c] = g] /\ es' = [es EXCEPT ![c] = e]
      /\ taken' = [taken EXCEPT ![c] = k]
  BY Zenon DEF Rewired, whoVars
<1>2. Types /\ Streams /\ Calls /\ Histories /\ View /\ Faithful /\ ShownOnce
  BY Zenon DEF Inv
<1>2a. /\ s \in Nat /\ g \in Seq(Nat) /\ k \in Nat /\ r \in Room \cup {None}
       /\ e \in {"connecting", "open", "closed"} /\ e # "none" /\ step[c] = "done"
       /\ s <= Len(log) /\ k <= Len(g)
       /\ r = None => g = <<>>
       /\ r # None => Gapless(IdsOf(log, r), s, g)
       /\ e = "connecting" => r = None
       /\ e = "open" => r = want[c]
  BY Zenon DEF Wired
<1>3. \A d \in Call : /\ tuned'[d] = IF d = c THEN r ELSE tuned[d]
                      /\ start'[d] = IF d = c THEN s ELSE start[d]
                      /\ got'[d] = IF d = c THEN g ELSE got[d]
  BY <1>1, <1>2, Zenon DEF Types
<1>4. \A d \in Call : /\ es'[d] = IF d = c THEN e ELSE es[d]
                      /\ taken'[d] = IF d = c THEN k ELSE taken[d]
  BY <1>1, <1>2, Zenon DEF Types
<1>5. Types'
  <2>1. tuned' \in [Call -> Room \cup {None}] /\ start' \in [Call -> Nat]
    BY <1>1, <1>2, <1>2a, Zenon DEF Types
  <2>2. got' \in [Call -> Seq(Nat)] /\ taken' \in [Call -> Nat]
    BY <1>1, <1>2, <1>2a, Zenon DEF Types
  <2>3. es' \in [Call -> {"none", "connecting", "open", "closed"}]
    BY <1>1, <1>2, <1>2a, Zenon DEF Types
  <2> QED  BY <1>1, <1>2, <2>1, <2>2, <2>3, Zenon DEF Types
<1>6. Streams'
  <2>1. ASSUME NEW d \in Call
        PROVE  /\ start'[d] <= Len(log) /\ (tuned'[d] = None => got'[d] = <<>>)
               /\ tuned'[d] # None => Gapless(IdsOf(log, tuned'[d]), start'[d], got'[d])
    <3>1. CASE d = c
      BY <1>3, <1>2a, <3>1, Zenon
    <3>2. CASE d # c
      BY <1>2, <1>3, <3>2, Zenon DEF Streams
    <3> QED  BY <3>1, <3>2, Zenon
  <2>2. log' = log
    BY <1>1, Zenon
  <2> QED  BY <2>1, <2>2, Zenon DEF Streams
<1>7. Calls'
  <2>1. ASSUME NEW d \in Call
        PROVE  /\ es'[d] # "none" => step[d] = "done"
               /\ es'[d] \in {"none", "connecting"} => tuned'[d] = None
               /\ es'[d] = "open" => tuned'[d] = want[d]
               /\ taken'[d] <= Len(got'[d])
    <3>1. CASE d = c
      <4>1. es'[d] = e /\ tuned'[d] = r /\ got'[d] = g /\ taken'[d] = k
        BY <1>3, <1>4, <3>1, Zenon
      <4> QED  BY <1>2a, <3>1, <4>1, Zenon
    <3>2. CASE d # c
      <4>1. es'[d] = es[d] /\ tuned'[d] = tuned[d] /\ got'[d] = got[d] /\ taken'[d] = taken[d]
        BY <1>3, <1>4, <3>2, Zenon
      <4> QED  BY <1>2, <4>1, Zenon DEF Calls
    <3> QED  BY <3>1, <3>2, Zenon
  <2> QED  BY <1>1, <1>2, <2>1, Zenon DEF Calls
<1>8. Histories' /\ View'
  BY <1>1, <1>2, Zenon DEF Histories, View
<1>9. ShownOnce'
  BY <1>1, <1>2, Zenon DEF ShownOnce
<1>10. ShownIds' = ShownIds /\ (Undisturbed' <=> Undisturbed)
  <2>1. ShownIds' = ShownIds
    BY <1>1, Zenon DEF ShownIds
  <2>2. Undisturbed' <=> Undisturbed
    BY <1>1, Zenon DEF Undisturbed
  <2> QED  BY <2>1, <2>2, Zenon
<1>11. ASSUME Undisturbed
       PROVE  /\ rows[latest] \subseteq ShownIds
              /\ \A i \in 1 .. taken'[latest] : got'[latest][i] \in ShownIds
              /\ es'[latest] = "open" =>
                    \A m \in ShownIds : m > start'[latest] =>
                       \E i \in 1 .. taken'[latest] : got'[latest][i] = m
  <2>1. latest \in Call
    BY <1>2, <1>11, Zenon DEF Undisturbed, Types
  <2>2. /\ rows[latest] \subseteq ShownIds
        /\ \A i \in 1 .. taken[latest] : got[latest][i] \in ShownIds
        /\ es[latest] = "open" =>
              \A m \in ShownIds : m > start[latest] =>
                 \E i \in 1 .. taken[latest] : got[latest][i] = m
    BY <1>2, <1>11, Zenon DEF Faithful
  <2>3. CASE latest = c
    <3>1. /\ es'[latest] = e /\ start'[latest] = s /\ got'[latest] = g /\ taken'[latest] = k
      BY <1>3, <1>4, <2>3, Zenon
    <3> QED  BY <1>11, <2>2, <2>3, <3>1, Zenon DEF Wired
  <2>4. CASE latest # c
    <3>1. /\ es'[latest] = es[latest] /\ start'[latest] = start[latest]
          /\ got'[latest] = got[latest] /\ taken'[latest] = taken[latest]
      BY <1>3, <1>4, <2>1, <2>4, Zenon
    <3> QED  BY <2>2, <3>1, Zenon
  <2> QED  BY <2>3, <2>4, Zenon
<1>12. Faithful'
  <2>1. latest' = latest /\ rows' = rows
    BY <1>1, Zenon
  <2> QED  BY <1>10, <1>11, <2>1, Zenon DEF Faithful
<1> QED  BY <1>5, <1>6, <1>7, <1>8, <1>9, <1>12, Zenon DEF Inv

(* Nothing changes in a function that is given the value it has. *)
LEMMA SameValue ==
    ASSUME NEW S, NEW T, NEW f \in [S -> T], NEW c \in S
    PROVE  f = [f EXCEPT ![c] = f[c]]
OBVIOUS

(* A new connection starts from the newest id: the view has nothing newer. *)
LEMMA ConnectInv ==
    ASSUME Inv, NEW c \in Call, Connect(c)
    PROVE  Inv'
<1> DEFINE s == MaxMessageId(log, want[c])
           g == <<>>
<1>1. /\ es[c] = "connecting" /\ tuned[c] = None
      /\ tuned' = [tuned EXCEPT ![c] = want[c]] /\ start' = [start EXCEPT ![c] = s]
      /\ es' = [es EXCEPT ![c] = "open"] /\ taken' = [taken EXCEPT ![c] = 0]
      /\ log' = log /\ got' = got /\ faults' = faults
      /\ UNCHANGED <<current, cursor, shown, latest, step, want, rows, events, whoVars>>
  BY Zenon DEF Connect, TuneIn
<1>2. Types /\ Streams /\ Calls /\ Histories /\ View /\ Faithful /\ ShownOnce
  BY Zenon DEF Inv
<1>3. log \in Seq(Room) /\ got \in [Call -> Seq(Nat)] /\ faults \in 0 .. MaxFaults
  BY <1>2, Zenon DEF Types
<1>4. step[c] = "done" /\ want[c] \in Room /\ want[c] # None
  <2>1. es[c] # "none"
    BY <1>1
  <2>2. step[c] = "done"
    BY <1>2, <2>1, Zenon DEF Calls
  <2>3. step[c] # "unused"
    BY <2>2
  <2> QED  BY <1>2, <2>2, <2>3, WebAssumption, Zenon DEF Calls
<1>5. got[c] = g /\ got' = [got EXCEPT ![c] = g]
  <2>1. got[c] = g
    BY <1>1, <1>2, Zenon DEF Streams
  <2>2. got = [got EXCEPT ![c] = got[c]]
    BY <1>3, SameValue, Zenon
  <2> QED  BY <1>1, <2>1, <2>2, Zenon
<1>6. IdsOf(log, want[c]) \in SUBSET Nat /\ Len(log) \in Nat
  BY <1>2, IdsInLog, Zenon
<1>7. s \in 0 .. Len(log) /\ \A m \in IdsOf(log, want[c]) : m <= s
  BY <1>3, TailIsNewest, SMT
<1> HIDE DEF s
<1>8. s \in Nat /\ s <= Len(log) /\ 0 \in Nat
  BY <1>6, <1>7
<1>9. g \in Seq(Nat) /\ 0 <= Len(g) /\ 1 .. 0 = {}
  OBVIOUS
<1>10. Gapless(IdsOf(log, want[c]), s, g)
  BY <1>6, <1>8, GaplessStart, Zenon
<1> HIDE DEF g
<1>11. Rewired(c, "open", want[c], s, g, 0)
  BY <1>1, <1>3, <1>5, Zenon DEF Rewired
<1>12. ASSUME Undisturbed, c = latest, NEW m \in ShownIds
       PROVE  ~(m > s)
  <2>1. PICK i \in DOMAIN shown : shown[i].id = m
    BY Zenon DEF ShownIds
  <2>2. m \in IdsOf(log, want[c])
    BY <1>2, <1>12, <2>1, Zenon DEF View, Undisturbed
  <2>3. m <= s /\ m \in Nat
    BY <1>6, <1>7, <2>2, Zenon
  <2> QED  BY <1>8, <2>3
<1>13. c = latest /\ Undisturbed =>
          /\ \A i \in 1 .. 0 : g[i] \in ShownIds
          /\ \A m \in ShownIds : m > s => \E i \in 1 .. 0 : g[i] = m
  BY <1>9, <1>12, Zenon
<1>14. /\ "open" \in {"connecting", "open", "closed"} /\ "open" # "connecting"
       /\ "open" # "none"
  OBVIOUS
<1>15. Wired(c, "open", want[c], s, g, 0)
  BY <1>4, <1>8, <1>9, <1>10, <1>13, <1>14, Zenon DEF Wired
<1> QED  BY <1>11, <1>15, ConnectionStep, Zenon

(* A frame: the oldest message that is waiting. *)
LEMMA SendInv ==
    ASSUME Inv, NEW c \in Call, Send(c)
    PROVE  Inv'
<1> DEFINE I == IdsOf(log, tuned[c])
           x == Min(Waiting(c))
           g == Append(got[c], x)
<1>1. /\ tuned[c] # None /\ Waiting(c) # {} /\ got' = [got EXCEPT ![c] = g]
      /\ log' = log /\ tuned' = tuned /\ start' = start
      /\ es' = es /\ taken' = taken /\ faults' = faults
      /\ UNCHANGED <<current, cursor, shown, latest, step, want, rows, events, whoVars>>
  BY Zenon DEF Send, Frame, pageVars
<1>2. Types /\ Streams /\ Calls /\ Histories /\ View /\ Faithful /\ ShownOnce
  BY Zenon DEF Inv
<1>3. /\ got[c] \in Seq(Nat) /\ start[c] \in Nat /\ taken[c] \in Nat /\ tuned[c] \in Room \cup {None}
      /\ faults \in 0 .. MaxFaults /\ es[c] \in {"none", "connecting", "open", "closed"}
  BY <1>2, Zenon DEF Types
<1>4. I \in SUBSET Nat /\ Gapless(I, start[c], got[c]) /\ start[c] <= Len(log)
  BY <1>1, <1>2, IdsInLog, Zenon DEF Streams
<1>5. Waiting(c) = {m \in I : m > End(start[c], got[c])}
  BY Zenon DEF Waiting, Position, End
<1> HIDE DEF I
<1>6. Waiting(c) \in SUBSET Nat
  BY <1>4, <1>5, Zenon
<1>7. x \in Waiting(c) /\ \A y \in Waiting(c) : x <= y
  BY <1>1, <1>6, MinIsLeast, Zenon
<1> HIDE DEF x
<1>8. x \in I /\ x > End(start[c], got[c]) /\ \A m \in I : m > End(start[c], got[c]) => x <= m
  BY <1>5, <1>7, Zenon
<1>9. g \in Seq(Nat) /\ Len(g) = Len(got[c]) + 1 /\ Gapless(I, start[c], g)
  BY <1>3, <1>4, <1>8, GaplessNext, Zenon
<1>10. taken[c] <= Len(got[c]) /\ step[c] = "done" /\ es[c] \in {"open", "closed"}
       /\ (es[c] = "open" => tuned[c] = want[c])
  <2>1. es[c] \notin {"none", "connecting"} /\ taken[c] <= Len(got[c])
    BY <1>1, <1>2, Zenon DEF Calls
  <2> QED  BY <1>2, <1>3, <2>1, Zenon DEF Calls
<1>11. /\ \A i \in 1 .. taken[c] : g[i] = got[c][i]
       /\ taken[c] <= Len(g)
  <2>1. x \in Nat
    BY <1>6, <1>7, Zenon
  <2> QED  BY <1>3, <1>10, <2>1
<1> HIDE DEF g
<1>12. Rewired(c, es[c], tuned[c], start[c], g, taken[c])
  <2>1. es = [es EXCEPT ![c] = es[c]] /\ taken = [taken EXCEPT ![c] = taken[c]]
    BY <1>2, SameValue, Zenon DEF Types
  <2>2. tuned = [tuned EXCEPT ![c] = tuned[c]] /\ start = [start EXCEPT ![c] = start[c]]
    BY <1>2, SameValue, Zenon DEF Types
  <2> QED  BY <1>1, <1>3, <2>1, <2>2, Zenon DEF Rewired
<1>13. c = latest /\ Undisturbed =>
          /\ \A i \in 1 .. taken[c] : g[i] \in ShownIds
          /\ es[c] = "open" => \A m \in ShownIds : m > start[c] =>
                                  \E i \in 1 .. taken[c] : g[i] = m
  BY <1>2, <1>11, Zenon DEF Faithful
<1>14. es[c] \in {"connecting", "open", "closed"} /\ es[c] # "connecting" /\ es[c] # "none"
  BY <1>10
<1>15. Gapless(IdsOf(log, tuned[c]), start[c], g)
  BY <1>9, Zenon DEF I
<1>16. Wired(c, es[c], tuned[c], start[c], g, taken[c])
  BY <1>1, <1>3, <1>4, <1>9, <1>10, <1>11, <1>13, <1>14, <1>15, Zenon DEF Wired
<1> QED  BY <1>12, <1>16, ConnectionStep, Zenon

(* A connection ends: its frames are forgotten on both sides. *)
LEMMA TuneOutInv ==
    ASSUME Inv, NEW c \in Call, Drop(c) \/ NoticeClose(c)
    PROVE  Inv'
<1> DEFINE e == IF es[c] = "open" THEN "connecting" ELSE "closed"
           g == <<>>
<1>1. /\ es[c] = "open" \/ es[c] = "closed"
      /\ tuned' = [tuned EXCEPT ![c] = None] /\ start' = [start EXCEPT ![c] = 0]
      /\ got' = [got EXCEPT ![c] = g] /\ taken' = [taken EXCEPT ![c] = 0] /\ log' = log
      /\ UNCHANGED <<current, cursor, shown, latest, step, want, rows, events, whoVars>>
  BY Zenon DEF Drop, NoticeClose, TuneOut
<1>2. Types /\ Streams /\ Calls /\ Histories /\ View /\ Faithful /\ ShownOnce
  BY Zenon DEF Inv
<1>3. es' = [es EXCEPT ![c] = e]
  <2>1. CASE Drop(c)
    BY <2>1, Zenon DEF Drop
  <2>2. CASE NoticeClose(c)
    <3>1. es' = es /\ es[c] = "closed"
      BY <2>2, Zenon DEF NoticeClose
    <3>2. es[c] = e
      BY <3>1
    <3>3. es = [es EXCEPT ![c] = es[c]]
      BY <1>2, SameValue, Zenon DEF Types
    <3> HIDE DEF e
    <3> QED  BY <3>1, <3>2, <3>3, Zenon
  <2> QED  BY <2>1, <2>2, Zenon
<1>4. faults' \in 0 .. MaxFaults
  <2>1. faults \in 0 .. MaxFaults
    BY <1>2, Zenon DEF Types
  <2>2. faults' = faults \/ (faults < MaxFaults /\ faults' = faults + 1)
    BY Zenon DEF Drop, NoticeClose
  <2> QED  BY <2>1, <2>2, WebAssumption
<1>5. step[c] = "done"
  <2>1. es[c] # "none"
    BY <1>1
  <2> QED  BY <1>2, <2>1, Zenon DEF Calls
<1>6. e \in {"connecting", "open", "closed"} /\ e # "open" /\ e # "none"
  OBVIOUS
<1>7. g \in Seq(Nat) /\ 0 <= Len(g) /\ 1 .. 0 = {} /\ 0 \in Nat
  OBVIOUS
<1>8. Len(log) \in Nat /\ 0 <= Len(log)
  <2>1. Len(log) \in Nat
    BY <1>2, IdsInLog, Zenon
  <2> QED  BY <2>1
<1> HIDE DEF e, g
<1>9. Rewired(c, e, None, 0, g, 0)
  BY <1>1, <1>3, <1>4, Zenon DEF Rewired
<1>10. \A i \in 1 .. 0 : g[i] \in ShownIds
  BY <1>7, Zenon
<1>11. g = <<>>
  BY Zenon DEF g
<1>12. Wired(c, e, None, 0, g, 0)
  BY <1>5, <1>6, <1>7, <1>8, <1>10, <1>11, Zenon DEF Wired
<1> QED  BY <1>9, <1>12, ConnectionStep, Zenon

(* Every step, and every stuttering step, keeps the invariant. *)
LEMMA NextInv == Inv /\ [Next]_vars => Inv'
<1> SUFFICES ASSUME Inv, [Next]_vars PROVE Inv'
  OBVIOUS
<1>1. ASSUME NEW r \in Room, Select(r) \/ SomebodyPosts(r)
      PROVE  Inv'
  BY <1>1, SelectInv, PostInv, Zenon
<1>2. ASSUME NEW c \in Call, History(c) \/ HistoryFails(c) \/ Resume(c)
      PROVE  Inv'
  BY <1>2, HistoryInv, HistoryFailsInv, ResumeInv, Zenon
<1>3. ASSUME NEW c \in Call,
             Connect(c) \/ Send(c) \/ Receive(c) \/ Drop(c) \/ NoticeClose(c)
      PROVE  Inv'
  BY <1>3, ConnectInv, SendInv, ReceiveInv, TuneOutInv, Zenon
<1>4. ASSUME \/ \E r \in Room : WhoAnswer(r) \/ WhoFails(r)
             \/ UpdateWho
             \/ UNCHANGED vars
      PROVE  Inv'
  BY <1>4, WhoInv, Zenon
<1> QED  BY <1>1, <1>2, <1>3, <1>4, Zenon DEF Next

(***************************************************************************)
(* The page's state, the streams and the view fit together at all times:   *)
(* the invariant the following theorems rest on.                           *)
(***************************************************************************)
THEOREM WebInvariant == Spec => []Inv
BY InitInv, NextInv, PTL DEF Spec

(***************************************************************************)
(* The types of the web client's state: what is shown was stored and was   *)
(* put there by a call that was made, and the page never handles a frame   *)
(* that was not sent.                                                      *)
(***************************************************************************)
THEOREM WebTypes == Spec => []TypeOK
<1>1. Inv => TypeOK
  <2> SUFFICES ASSUME Inv PROVE TypeOK
    OBVIOUS
  <2>1. Types /\ Calls /\ Histories /\ View /\ ShownOnce
    BY Zenon DEF Inv
  <2>2. log \in Seq(Room) /\ Len(log) \in Nat /\ Len(log) <= MaxPosts
    BY <2>1, IdsInLog, Zenon DEF Types
  <2>3. ASSUME NEW i \in DOMAIN shown
        PROVE  shown[i].id \in 1 .. Len(log) /\ shown[i].by \in 1 .. latest
    <3>1. /\ shown[i].by \in Call /\ shown[i].id \in Nat /\ step[shown[i].by] = "done"
          /\ shown[i].id \in IdsOf(log, want[shown[i].by])
      BY <2>1, Entries, Zenon DEF View
    <3>2. step[shown[i].by] # "unused"
      BY <3>1
    <3>3. shown[i].by <= latest /\ shown[i].by \in Nat /\ shown[i].by > 0
      BY <2>1, <3>1, <3>2, CallNumbers, Zenon DEF Calls
    <3>4. latest \in Nat
      <4>1. latest \in Call \cup {0} /\ \A d \in Call : d \in Nat
        BY <2>1, CallNumbers, Zenon DEF Types
      <4> QED  BY <4>1
    <3>5. shown[i].by \in 1 .. latest
      BY <3>3, <3>4
    <3>6. IdsOf(log, want[shown[i].by]) \in SUBSET (1 .. Len(log))
      BY <2>1, IdsInLog, Zenon
    <3> QED  BY <3>1, <3>5, <3>6, Zenon
  <2>4. cursor \in 0 .. MaxPosts
    <3>1. CASE shown = <<>>
      <4>1. cursor = 0
        BY <2>1, <3>1, Zenon DEF ShownOnce
      <4> QED  BY <4>1, WebAssumption
    <3>2. CASE shown # <<>>
      <4>1. shown \in Seq(Entry)
        BY <2>1, Zenon DEF Types
      <4>2. Len(shown) \in DOMAIN shown
        BY <3>2, <4>1
      <4>3. cursor \in 1 .. Len(log)
        BY <2>1, <2>3, <3>2, <4>2, Zenon DEF ShownOnce
      <4> QED  BY <2>2, <4>3, WebAssumption
    <3> QED  BY <3>1, <3>2, Zenon
  <2>5. \A c \in Call : rows[c] \subseteq 1 .. Len(log)
    <3> TAKE c \in Call
    <3>1. rows[c] \subseteq IdsOf(log, want[c])
      BY <2>1, Zenon DEF Histories
    <3> QED  BY <2>1, <3>1, IdsInLog, Zenon
  <2>6. \A c \in Call : taken[c] <= Len(got[c])
    BY <2>1, Zenon DEF Calls
  <2> QED  BY <2>1, <2>3, <2>4, <2>5, <2>6, Zenon DEF TypeOK, Types
<1> QED  BY <1>1, WebInvariant, PTL

(***************************************************************************)
(* addMessage: the view is in id order without repetitions and the cursor  *)
(* is its last id, for any interleaving of answers, streams, selections    *)
(* and reconnections.                                                      *)
(***************************************************************************)
THEOREM ViewInOrder == Spec => []ShownOnce
<1>1. Inv => ShownOnce
  BY Zenon DEF Inv
<1> QED  BY <1>1, WebInvariant, PTL

(***************************************************************************)
(* selectRoom, onmessage, addMessage: an undisturbed view shows messages   *)
(* of its room only, all of the history answer and every frame handled,    *)
(* and all it lacks up to its newest message was stored before the start   *)
(* of the present connection, whichever rows the answer has.               *)
(***************************************************************************)
THEOREM UndisturbedViewExact == Spec => []ViewExact
<1>1. Inv => ViewExact
  <2> SUFFICES ASSUME Inv, Undisturbed PROVE ViewExact
    BY Zenon DEF ViewExact
  <2> DEFINE c == latest
             all == IdsOf(log, current)
  <2>1. Types /\ Streams /\ Calls /\ Histories /\ View /\ Faithful /\ ShownOnce
    BY Zenon DEF Inv
  <2>2. c \in Call /\ want[c] = current /\ current \in Room /\ current # None
    BY <2>1, WebAssumption, Zenon DEF Undisturbed, Calls, Types
  <2>3. ShownIds \subseteq all
    <3>1. \A i \in DOMAIN shown : shown[i].id \in all
      BY <2>1, <2>2, Zenon DEF View, Undisturbed
    <3> QED  BY <3>1, Zenon DEF ShownIds
  <2>4. rows[c] \subseteq ShownIds /\ \A i \in 1 .. taken[c] : got[c][i] \in ShownIds
    BY <2>1, Zenon DEF Faithful
  <2>5. /\ all \in SUBSET Nat /\ \A m \in all : m \in Nat /\ m > 0 /\ m <= Len(log)
        /\ Len(log) \in Nat
    BY <2>1, IdsInLog, Zenon
  <2>6. /\ start[c] \in Nat /\ cursor \in Nat /\ got[c] \in Seq(Nat) /\ taken[c] \in Nat
        /\ taken[c] <= Len(got[c]) /\ rows[c] \subseteq all
    BY <2>1, <2>2, Zenon DEF Types, Calls, Histories
  <2>8. ASSUME es[c] = "open", NEW m \in all \ ShownIds, m <= cursor
        PROVE  m <= start[c]
    <3> SUFFICES ASSUME ~(m <= start[c]) PROVE FALSE
      OBVIOUS
    <3>1. m \in Nat /\ m > 0 /\ m > start[c] /\ cursor > start[c] /\ cursor # 0
      BY <2>5, <2>6, <2>8
    <3>2. cursor \in ShownIds
      <4>1. shown # <<>>
        BY <2>1, <3>1, Zenon DEF ShownOnce
      <4>2. Len(shown) \in DOMAIN shown
        <5>1. shown \in Seq(Entry)
          BY <2>1, Zenon DEF Types
        <5> QED  BY <4>1, <5>1
      <4> QED  BY <2>1, <4>1, <4>2, Zenon DEF ShownOnce, ShownIds
    <3>3. PICK i \in 1 .. taken[c] : got[c][i] = cursor
      BY <2>1, <2>8, <3>1, <3>2, Zenon DEF Faithful
    <3>4. Gapless(all, start[c], got[c])
      BY <2>1, <2>2, <2>8, Zenon DEF Calls, Streams
    <3>5. i \in DOMAIN got[c]
      BY <2>6, <3>3
    <3>6. End(start[c], got[c]) \in Nat /\ cursor <= End(start[c], got[c])
      BY <2>5, <2>6, <3>3, <3>4, <3>5, EndIsLast, Zenon
    <3>7. m <= End(start[c], got[c])
      BY <2>6, <2>8, <3>1, <3>6
    <3>8. PICK j \in DOMAIN got[c] : got[c][j] = m
      BY <3>1, <3>4, <3>7, Zenon DEF Gapless
    <3>9. j \in 1 .. taken[c]
      <4>1. ~(i < j)
        <5>1. i < j => cursor < m
          BY <3>3, <3>4, <3>5, <3>8, Zenon DEF Gapless
        <5> QED  BY <2>6, <2>8, <3>1, <5>1
      <4> QED  BY <2>6, <3>3, <3>8, <4>1, SMTT(30)
    <3> QED  BY <2>4, <2>8, <3>8, <3>9, Zenon
  <2> QED  BY <2>3, <2>4, <2>8, Zenon DEF ViewExact
<1> QED  BY <1>1, WebInvariant, PTL
=============================================================================
