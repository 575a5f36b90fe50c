---------------------------- MODULE ChatBusSteps ----------------------------
(***************************************************************************)
(* Proofs about ChatBus, part 1: facts about the message table, and what   *)
(* every step of the bus keeps: the event streams exact; the types, the    *)
(* control state, the ownership of descriptors and the room locks in       *)
(* order; the subscriber lists free of descriptors that are closed, reused *)
(* or listed twice, with an entry for every visitor; the presence table.   *)
(***************************************************************************)
EXTENDS BusVisits, FiniteSetTheorems, WellFoundedInduction, TLAPS

(* The message table *)

(* A nonempty set of naturals has a least element. *)
LEMMA NatMin ==
    ASSUME NEW S \in SUBSET Nat, S # {}
    PROVE  \E x \in S : \A y \in S : x <= y
<1>1. \E R : /\ IsWellFoundedOn(R, Nat)
             /\ \A x, y \in Nat : <<x, y>> \in R <=> x < y
  <2>1. \A x, y \in Nat : <<x, y>> \in OpToRel(<, Nat) <=> x < y
    BY Zenon DEF OpToRel
  <2> QED
    BY <2>1, NatLessThanWellFounded, Zenon
<1>2. PICK R : /\ IsWellFoundedOn(R, Nat)
               /\ \A x, y \in Nat : <<x, y>> \in R <=> x < y
  BY <1>1, Zenon
<1>3. PICK x \in S : \A y \in S : ~ (<<y, x>> \in R)
  <2>1. S \subseteq Nat /\ S # {}
    BY Zenon
  <2>2. IsWellFoundedOn(R, Nat)
    BY <1>2, Zenon
  <2> QED
    BY <2>1, <2>2, WFMin, Zenon
<1>4. \A y \in S : ~ (y < x)
  BY <1>2, <1>3, Zenon
<1> QED
  BY <1>4

(* Min is the least element. *)
LEMMA MinIsLeast ==
    ASSUME NEW S \in SUBSET Nat, S # {}
    PROVE  Min(S) \in S /\ \A y \in S : Min(S) <= y
BY NatMin, Zenon DEF Min

(* Max is the greatest element of a bounded set: the least distance to the *)
(* bound gives it.                                                         *)
LEMMA MaxIsGreatest ==
    ASSUME NEW n \in Nat, NEW S \in SUBSET (0..n), S # {}
    PROVE  Max(S) \in S /\ \A y \in S : y <= Max(S)
<1> DEFINE D == {d \in 0..n : n - d \in S}
<1>1. \A y \in S : y \in 0..n /\ n - y \in D
  <2> TAKE y \in S
  <2>1. y \in 0..n /\ n - y \in 0..n /\ n - (n - y) = y
    OBVIOUS
  <2> QED
    BY <2>1, Zenon
<1>2. PICK d \in D : \A e \in D : d <= e
  <2>1. D # {}
    <3>1. PICK y \in S : TRUE
      BY Zenon
    <3> QED
      BY <1>1, <3>1, Zenon
  <2>2. D \in SUBSET Nat
    OBVIOUS
  <2> QED
    BY <2>1, <2>2, NatMin, Zenon
<1>3. n - d \in S /\ d \in 0..n
  BY <1>2, Zenon
<1>4. \A y \in S : n - d >= y
  BY <1>1, <1>2, <1>3, SMT, SMTT(60)
<1>5. \E z \in S : \A y \in S : z >= y
  BY <1>3, <1>4, Zenon
<1>6. Max(S) \in S /\ \A y \in S : Max(S) >= y
  BY <1>5, Zenon DEF Max
<1> QED
  BY <1>1, <1>6, Zenon

(* The last position of a sequence of numbers. *)
LEMMA LastPosition ==
    ASSUME NEW s \in Seq(Nat), s # <<>>
    PROVE  Len(s) \in DOMAIN s /\ DOMAIN s = 1..Len(s) /\ Len(s) \in Nat
OBVIOUS

(* The ids of a room are a finite set of positive numbers. *)
LEMMA IdsType ==
    ASSUME NEW Rooms, NEW table \in Seq(Rooms), NEW r
    PROVE  /\ IdsOf(table, r) \in SUBSET (1..Len(table))
           /\ IsFiniteSet(IdsOf(table, r))
<1>1. IdsOf(table, r) \in SUBSET (1..Len(table))
  BY DEF IdsOf
<1>2. IsFiniteSet(1..Len(table))
  BY FS_Interval
<1> QED
  BY <1>1, <1>2, FS_Subset, Zenon

(* Appending to one room adds the new id there and nothing elsewhere. *)
LEMMA IdsAfterInsert ==
    ASSUME NEW Rooms, NEW table \in Seq(Rooms), NEW r \in Rooms, NEW q
    PROVE  /\ InsertMessage(table, r) \in Seq(Rooms)
           /\ Len(InsertMessage(table, r)) = Len(table) + 1
           /\ IdsOf(InsertMessage(table, r), q) =
                 IF q = r THEN IdsOf(table, q) \cup {Len(table) + 1}
                 ELSE IdsOf(table, q)
BY DEF IdsOf, InsertMessage

(***************************************************************************)
(* chat_db_max_message_id bounds the room: it is no id beyond the table,   *)
(* and no message of the room is newer.                                    *)
(***************************************************************************)
THEOREM TailIsNewest ==
    ASSUME NEW Rooms, NEW table \in Seq(Rooms), NEW r
    PROVE  /\ MaxMessageId(table, r) \in 0..Len(table)
           /\ \A i \in IdsOf(table, r) : i <= MaxMessageId(table, r)
<1>1. Len(table) \in Nat /\ IdsOf(table, r) \in SUBSET (0..Len(table))
  BY IdsType
<1>2. CASE IdsOf(table, r) = {}
  BY <1>1, <1>2 DEF MaxMessageId
<1>3. CASE IdsOf(table, r) # {}
  BY <1>1, <1>3, MaxIsGreatest, Zenon DEF MaxMessageId
<1> QED
  BY <1>2, <1>3, Zenon

(***************************************************************************)
(* chat_db_messages_since has no gaps: it returns ids of the room above    *)
(* the cursor, and with an id every other one between it and the cursor.   *)
(* A reader that moves its cursor along the rows therefore skips nothing.  *)
(***************************************************************************)
THEOREM SinceHasNoGaps ==
    ASSUME NEW Rooms, NEW table \in Seq(Rooms), NEW r, NEW after \in Nat,
           NEW limit \in Nat
    PROVE  LET B == MessagesSince(table, r, after, limit)
               S == {i \in IdsOf(table, r) : i > after}
           IN  /\ B \subseteq S
               /\ \A k \in B : \A i \in S : i <= k => i \in B
<1> DEFINE S == {i \in IdsOf(table, r) : i > after}
           Below(i) == {j \in S : j < i}
<1>1. IsFiniteSet(S) /\ S \in SUBSET Nat
  <2>1. S \in SUBSET IdsOf(table, r)
    BY Zenon
  <2> QED
    BY <2>1, IdsType, FS_Subset, SMT, SMTT(60)
<1>2. ASSUME NEW k \in S, NEW i \in S, i <= k, Cardinality(Below(k)) < limit
      PROVE  Cardinality(Below(i)) < limit
  <2>1. IsFiniteSet(Below(k)) /\ IsFiniteSet(Below(i))
    <3>1. Below(k) \in SUBSET S /\ Below(i) \in SUBSET S
      BY Zenon
    <3> QED
      BY <3>1, <1>1, FS_Subset, Zenon
  <2>2. Below(i) \in SUBSET Below(k)
    BY <1>1, <1>2
  <2>3. Cardinality(Below(i)) <= Cardinality(Below(k))
    BY <2>1, <2>2, FS_Subset, Zenon
  <2>4. Cardinality(Below(i)) \in Nat /\ Cardinality(Below(k)) \in Nat
    BY <2>1, FS_CardinalityType, Zenon
  <2> QED
    BY <1>2, <2>3, <2>4, SMT, SMTT(60)
<1>3. MessagesSince(table, r, after, limit) =
        {i \in S : Cardinality(Below(i)) < limit}
  BY Zenon DEF MessagesSince, Lowest
<1> HIDE DEF S, Below
<1> QED
  BY <1>2, <1>3, Zenon DEF S

-----------------------------------------------------------------------------
(* The event streams *)

(* Streams depend on nothing but their own cursor, rows and the table. *)
LEMMA StreamKeep ==
    ASSUME TypeOK, StreamOK, UNCHANGED <<log, streamVars>>,
           \A u \in Thread :
              /\ kind'[u] = "sse" <=> kind[u] = "sse"
              /\ kind[u] = "sse" /\ pc'[u] = "tail" => pc[u] = "tail"
              /\ kind[u] = "sse" /\ pc'[u] = "send" => pc[u] = "send"
              /\ kind[u] = "sse" /\ pc'[u] \in OnAir =>
                    pc[u] \in OnAir /\ room'[u] = room[u]
    PROVE  StreamOK'
BY SMT, SMTT(60) DEF StreamOK, OnAir, NewIds, streamVars

(* A new message is above every cursor and every fetched row. *)
LEMMA StreamInsert ==
    ASSUME TypeOK, ControlOK, StreamOK, NEW t \in Thread, PostInsert(t)
    PROVE  StreamOK'
<1>0. room[t] \in Room /\ kind[t] # "sse"
  BY Zenon DEF PostInsert, At, ControlOK, SsePCs
<1>1. /\ UNCHANGED <<kind, room, streamVars>>
      /\ \A u \in Thread : kind[u] = "sse" => pc'[u] = pc[u]
  BY <1>0, Zenon DEF PostInsert, Goto, TypeOK, SharedType, SessionType, StreamType
<1>2. CASE UNCHANGED log
  BY <1>1, <1>2, StreamKeep, Zenon
<1>3. CASE log' = InsertMessage(log, room[t])
  <2>1. SUFFICES ASSUME NEW u \in Thread, kind[u] = "sse", pc[u] \in OnAir,
                        room[u] \in Room
                 PROVE  /\ cursor[u] <= Len(log')
                        /\ {i \in IdsOf(log', room[u]) : first[u] < i /\ i <= cursor[u]}
                            = {i \in IdsOf(log, room[u]) : first[u] < i /\ i <= cursor[u]}
                        /\ pc[u] = "send" =>
                             /\ batch[u] \subseteq NewIds(u)'
                             /\ \A k \in batch[u] : \A i \in NewIds(u)' :
                                    i <= k => i \in batch[u]
    <3>1. \A u \in Thread : pc[u] \in OnAir => room[u] \in Room
      BY Zenon DEF ControlOK, OnAir
    <3> QED
      BY <1>1, <2>1, <3>1, SMT, SMTT(60) DEF StreamOK, streamVars, OnAir
  <2>2. /\ Len(log') = Len(log) + 1 /\ Len(log) \in Nat
        /\ IdsOf(log', room[u]) = IdsOf(log, room[u])
           \/ IdsOf(log', room[u]) = IdsOf(log, room[u]) \cup {Len(log) + 1}
    <3>1. log \in Seq(Room)
      BY Zenon DEF TypeOK, SharedType
    <3> DEFINE new == InsertMessage(log, room[t])
    <3>2. /\ Len(new) = Len(log) + 1
          /\ IdsOf(new, room[u]) = IF room[u] = room[t]
                THEN IdsOf(log, room[u]) \cup {Len(log) + 1} ELSE IdsOf(log, room[u])
      BY <1>0, <3>1, SMT, SMTT(60) DEF IdsOf, InsertMessage
    <3>3. log' = new
      BY <1>3, Zenon
    <3> HIDE DEF new
    <3> QED
      BY <3>1, <3>2, <3>3, SMT, SMTT(60)
  <2>3. IdsOf(log, room[u]) \in SUBSET (1..Len(log))
    BY IdsType, Zenon DEF TypeOK, SharedType, SessionType, StreamType
  <2>4. cursor[u] \in Nat /\ cursor[u] <= Len(log)
    BY <2>1, Zenon DEF TypeOK, SharedType, SessionType, StreamType, StreamOK
  <2>5. NewIds(u)' = NewIds(u) \/ NewIds(u)' = NewIds(u) \cup {Len(log) + 1}
    BY <1>1, <2>2, <2>4, Zenon DEF NewIds, streamVars
  <2>6. pc[u] = "send" => /\ batch[u] \subseteq NewIds(u)
                          /\ \A k \in batch[u] : \A i \in NewIds(u) : i <= k => i \in batch[u]
    BY <2>1, Zenon DEF StreamOK
  <2>7. pc[u] = "send" => \A k \in batch[u] : k \in Nat /\ k <= Len(log)
    BY <2>3, <2>6, SMT, SMTT(60) DEF NewIds
  <2> QED
    BY <2>2, <2>3, <2>4, <2>5, <2>6, <2>7, SMT, SMTT(60)
<1> QED
  BY <1>2, <1>3, Zenon DEF PostInsert

(* Only the stream of t moves. *)
LEMMA StreamOthers ==
    ASSUME StreamOK, NEW t \in Thread, UNCHANGED log,
           \A u \in Thread : u # t =>
              /\ kind'[u] = kind[u] /\ pc'[u] = pc[u] /\ room'[u] = room[u]
              /\ first'[u] = first[u] /\ cursor'[u] = cursor[u]
              /\ batch'[u] = batch[u] /\ sent'[u] = sent[u],
           /\ kind'[t] # "sse" \/ pc'[t] = "tail" => sent'[t] = <<>>
           /\ kind'[t] = "sse" /\ pc'[t] \in OnAir =>
              /\ first'[t] <= cursor'[t] /\ cursor'[t] <= Len(log)
              /\ {sent'[t][i] : i \in DOMAIN sent'[t]} =
                     {i \in IdsOf(log, room'[t]) : first'[t] < i /\ i <= cursor'[t]}
              /\ \A i, j \in DOMAIN sent'[t] : i < j => sent'[t][i] < sent'[t][j]
           /\ kind'[t] = "sse" /\ pc'[t] = "send" =>
              /\ batch'[t] \subseteq NewIds(t)'
              /\ \A k \in batch'[t] : \A i \in NewIds(t)' : i <= k => i \in batch'[t]
    PROVE  StreamOK'
<1> SUFFICES ASSUME NEW u \in Thread
             PROVE  /\ kind'[u] # "sse" \/ pc'[u] = "tail" => sent'[u] = <<>>
                    /\ kind'[u] = "sse" /\ pc'[u] \in OnAir =>
                       /\ first'[u] <= cursor'[u] /\ cursor'[u] <= Len(log)
                       /\ {sent'[u][i] : i \in DOMAIN sent'[u]} =
                            {i \in IdsOf(log, room'[u]) : first'[u] < i /\ i <= cursor'[u]}
                       /\ \A i, j \in DOMAIN sent'[u] : i < j => sent'[u][i] < sent'[u][j]
                    /\ kind'[u] = "sse" /\ pc'[u] = "send" =>
                       /\ batch'[u] \subseteq NewIds(u)'
                       /\ \A k \in batch'[u] : \A i \in NewIds(u)' : i <= k => i \in batch'[u]
  BY Zenon DEF StreamOK
<1>1. CASE u = t
  BY <1>1, SMT, SMTT(60)
<1>2. CASE u # t
  <2>1. NewIds(u)' = NewIds(u)
    BY <1>2, Zenon DEF NewIds
  <2> QED
    BY <1>2, <2>1, SMT, SMTT(60) DEF StreamOK
<1> QED
  BY <1>1, <1>2, Zenon

(* A stream starts at the end of the table with nothing sent. *)
LEMMA StreamTail ==
    ASSUME TypeOK, ControlOK, StreamOK, NEW t \in Thread, SseTail(t)
    PROVE  StreamOK'
<1>1. kind[t] = "sse" /\ sent[t] = <<>>
  BY Zenon DEF SseTail, At, ControlOK, TelnetPCs, RestPCs, TypeOK, SharedType,
     SessionType, StreamType, Kinds, StreamOK
<1>2. MaxMessageId(log, room[t]) \in 0..Len(log)
  BY TailIsNewest, Zenon DEF TypeOK, SharedType, SessionType, StreamType
<1>3. /\ first'[t] = MaxMessageId(log, room[t])
      /\ cursor'[t] = MaxMessageId(log, room[t])
      /\ sent'[t] = <<>> /\ pc'[t] = "subscribe" /\ room'[t] = room[t]
      /\ UNCHANGED <<log, kind, room, batch, sent>>
      /\ \A u \in Thread : u # t =>
            pc'[u] = pc[u] /\ first'[u] = first[u] /\ cursor'[u] = cursor[u]
  BY <1>1, Zenon DEF SseTail, Goto, TypeOK, SharedType, SessionType, StreamType, shared
<1>4. \A i \in IdsOf(log, room[t]) : i \in Nat
  BY IdsType, SMT, SMTT(60) DEF TypeOK, SharedType, SessionType, StreamType
<1> QED
  BY <1>1, <1>2, <1>3, <1>4, StreamOthers, SMT, SMTT(60) DEF OnAir

(* The rows fetched are the next ones, without gaps. *)
LEMMA StreamFetch ==
    ASSUME TypeOK, ControlOK, StreamOK, NEW t \in Thread, SseFetch(t)
    PROVE  StreamOK'
<1>1. kind[t] = "sse" /\ pc[t] = "fetch"
  BY Zenon DEF SseFetch, At, ControlOK, TelnetPCs, RestPCs, TypeOK, SharedType,
     SessionType, StreamType, Kinds
<1>2. /\ batch'[t] = MessagesSince(log, room[t], cursor[t], SseBatch)
      /\ pc'[t] = "send"
      /\ UNCHANGED <<log, kind, room, first, cursor, sent>>
      /\ \A u \in Thread : u # t => pc'[u] = pc[u] /\ batch'[u] = batch[u]
  BY Zenon DEF SseFetch, Goto, TypeOK, SharedType, SessionType, StreamType, shared
<1>3. /\ batch'[t] \subseteq NewIds(t)
      /\ \A k \in batch'[t] : \A i \in NewIds(t) : i <= k => i \in batch'[t]
  <2>1. log \in Seq(Room) /\ cursor[t] \in Nat /\ SseBatch \in Nat
    BY BusAssumption, Zenon DEF TypeOK, SharedType, SessionType, StreamType
  <2> DEFINE B == MessagesSince(log, room[t], cursor[t], SseBatch)
             S == {i \in IdsOf(log, room[t]) : i > cursor[t]}
  <2>2. B \subseteq S /\ \A k \in B : \A i \in S : i <= k => i \in B
    BY <2>1, SinceHasNoGaps, Zenon
  <2>3. batch'[t] = B /\ NewIds(t) = S
    BY <1>2, Zenon DEF NewIds
  <2> HIDE DEF B, S
  <2> QED
    BY <2>2, <2>3, Zenon
<1>4. NewIds(t)' = NewIds(t)
  BY <1>2, Zenon DEF NewIds
<1>5. /\ first[t] <= cursor[t] /\ cursor[t] <= Len(log)
      /\ {sent[t][i] : i \in DOMAIN sent[t]} =
             {i \in IdsOf(log, room[t]) : first[t] < i /\ i <= cursor[t]}
      /\ \A i, j \in DOMAIN sent[t] : i < j => sent[t][i] < sent[t][j]
  BY <1>1, Zenon DEF OnAir, StreamOK
<1>6. \A u \in Thread : u # t =>
        /\ kind'[u] = kind[u] /\ pc'[u] = pc[u] /\ room'[u] = room[u]
        /\ first'[u] = first[u] /\ cursor'[u] = cursor[u]
        /\ batch'[u] = batch[u] /\ sent'[u] = sent[u]
  BY <1>2, Zenon
<1> HIDE DEF StreamOK
<1> QED
  BY <1>1, <1>2, <1>3, <1>4, <1>5, <1>6, StreamOthers, SMT, SMTT(60)

(* Sending the least fetched row extends the frames by the next message. *)
LEMMA StreamSend ==
    ASSUME TypeOK, ControlOK, StreamOK, NEW t \in Thread, SseSend(t)
    PROVE  StreamOK'
<1> DEFINE m == Min(batch[t])
<1>1. kind[t] = "sse" /\ pc[t] = "send" /\ batch[t] # {}
  BY Zenon DEF SseSend, At, ControlOK, TelnetPCs, RestPCs, TypeOK, SharedType,
     SessionType, StreamType, Kinds
<1>2. /\ UNCHANGED <<log, kind, room, first>>
      /\ \A u \in Thread : u # t => /\ pc'[u] = pc[u] /\ cursor'[u] = cursor[u]
                                    /\ batch'[u] = batch[u] /\ sent'[u] = sent[u]
  BY SMT, SMTT(60) DEF SseSend, Goto, TypeOK, SharedType, SessionType, StreamType, shared
<1>3. CASE pc'[t] = "unsubscribe"
  BY <1>1, <1>2, <1>3, StreamOthers, Zenon DEF OnAir
<1>4. CASE /\ pc' = pc /\ cursor'[t] = m
           /\ sent'[t] = Append(sent[t], m) /\ batch'[t] = batch[t] \ {m}
  <2> DEFINE ids == IdsOf(log, room[t])
             s == sent[t]
  <2>1. m \in batch[t] /\ \A k \in batch[t] : m <= k
    BY <1>1, MinIsLeast, Zenon DEF TypeOK, SharedType, SessionType, StreamType
  <2> HIDE DEF m
  <2>2. /\ ids \in SUBSET (1..Len(log))
        /\ cursor[t] \in Nat /\ first[t] \in Nat /\ Len(log) \in Nat
        /\ s \in Seq(Nat)
    BY IdsType, SMT, SMTT(60) DEF TypeOK, SharedType, SessionType, StreamType
  <2>3. /\ first[t] <= cursor[t] /\ cursor[t] <= Len(log)
        /\ {s[i] : i \in DOMAIN s} =
               {i \in ids : first[t] < i /\ i <= cursor[t]}
        /\ \A i, j \in DOMAIN s : i < j => s[i] < s[j]
        /\ batch[t] \subseteq NewIds(t)
        /\ \A k \in batch[t] : \A i \in NewIds(t) : i <= k => i \in batch[t]
    BY <1>1, Zenon DEF StreamOK, OnAir
  <2>4. m \in ids /\ m > cursor[t] /\ m \in Nat
    BY <2>1, <2>2, <2>3, SMT, SMTT(60) DEF NewIds
  <2>5. \A i \in ids : cursor[t] < i /\ i <= m => i = m
    BY <2>1, <2>2, <2>3, <2>4, SMT, SMTT(60) DEF NewIds
  <2>6. {i \in ids : first[t] < i /\ i <= m} =
           {i \in ids : first[t] < i /\ i <= cursor[t]} \cup {m}
    BY <2>2, <2>3, <2>4, <2>5, SMT, SMTT(60)
  <2> HIDE DEF ids, s
  <2>7. /\ DOMAIN Append(s, m) = DOMAIN s \cup {Len(s) + 1}
        /\ \A i \in DOMAIN s : Append(s, m)[i] = s[i]
        /\ Append(s, m)[Len(s) + 1] = m
        /\ DOMAIN s = 1..Len(s) /\ Len(s) \in Nat
    BY <2>2, <2>4, SMT, SMTT(60)
  <2>8. {Append(s, m)[i] : i \in DOMAIN Append(s, m)} = {s[i] : i \in DOMAIN s} \cup {m}
    BY <2>7
  <2>9. ASSUME NEW i \in DOMAIN s PROVE s[i] < m
    <3>1. s[i] \in {j \in ids : first[t] < j /\ j <= cursor[t]}
      BY <2>3, Zenon
    <3> QED
      BY <2>2, <2>4, <3>1, SMT, SMTT(60)
  <2>10. \A i, j \in DOMAIN Append(s, m) : i < j => Append(s, m)[i] < Append(s, m)[j]
    BY <2>3, <2>7, <2>9, SMT, SMTT(60)
  <2>11. /\ batch'[t] \subseteq NewIds(t)'
         /\ \A k \in batch'[t] : \A i \in NewIds(t)' : i <= k => i \in batch'[t]
    BY <1>2, <1>4, <2>1, <2>2, <2>3, <2>4, SMT, SMTT(60) DEF NewIds, ids
  <2>12. /\ first'[t] <= cursor'[t] /\ cursor'[t] <= Len(log)
         /\ {sent'[t][i] : i \in DOMAIN sent'[t]} =
              {i \in IdsOf(log, room'[t]) : first'[t] < i /\ i <= cursor'[t]}
    <3>1. first[t] <= m /\ m <= Len(log)
      BY <2>2, <2>3, <2>4, SMT, SMTT(60)
    <3>2. {Append(s, m)[i] : i \in DOMAIN Append(s, m)} =
             {i \in ids : first[t] < i /\ i <= m}
      BY <2>3, <2>6, <2>8, Zenon
    <3> QED
      BY <1>2, <1>4, <3>1, <3>2, SMT, SMTT(60) DEF ids, s
  <2>13. \A i, j \in DOMAIN sent'[t] : i < j => sent'[t][i] < sent'[t][j]
    BY <1>4, <2>10, Zenon DEF s
  <2>14. \A u \in Thread : u # t =>
              /\ kind'[u] = kind[u] /\ pc'[u] = pc[u] /\ room'[u] = room[u]
              /\ first'[u] = first[u] /\ cursor'[u] = cursor[u]
              /\ batch'[u] = batch[u] /\ sent'[u] = sent[u]
    BY <1>2, Zenon
  <2>15. kind'[t] = "sse" /\ pc'[t] = "send" /\ UNCHANGED log
    BY <1>1, <1>2, <1>4, ZenonT(60)
  <2> QED
    BY <2>11, <2>12, <2>13, <2>14, <2>15, StreamOthers, ZenonT(60)
<1> QED
  BY <1>3, <1>4, ZenonT(60) DEF SseSend, Goto, TypeOK, SharedType, SessionType, StreamType

(* Every step keeps the streams exact. *)
LEMMA StreamStep ==
    ASSUME TypeOK, ControlOK, StreamOK, [Next]_vars
    PROVE  StreamOK'
<1> USE DEF TypeOK, SessionType, ControlOK, Kinds, TelnetPCs, SsePCs, RestPCs
<1>1. ASSUME NEW t \in Thread, OpenTelnet(t)
      PROVE  StreamOK'
  BY <1>1, StreamKeep, Zenon DEF OpenTelnet, Goto, At, shared, OnAir
<1>2. ASSUME NEW t \in Thread, NEW k \in Serves[t] \ {"telnet"}, NEW r \in Room,
             OpenHttp(t, k, r)
      PROVE  StreamOK'
  <2>1. kind[t] = "none" /\ pc'[t] \in {"tail", "insert"}
    BY <1>2, Zenon DEF OpenHttp, Goto, At
  <2>2. UNCHANGED <<log, first, cursor, batch, sent>> /\ sent[t] = <<>>
    BY <1>2, <2>1, Zenon DEF OpenHttp, streamVars, StreamOK
  <2>3. \A u \in Thread : u # t =>
            kind'[u] = kind[u] /\ pc'[u] = pc[u] /\ room'[u] = room[u]
    BY <1>2, Zenon DEF OpenHttp, Goto
  <2> QED
    BY <2>1, <2>2, <2>3, StreamOthers, Zenon DEF OnAir
<1>3. ASSUME NEW t \in Thread, Close(t)
      PROVE  StreamOK'
  <2>1. kind'[t] = "none" /\ pc'[t] = "idle" /\ sent'[t] = <<>> /\ UNCHANGED log
    BY <1>3, Zenon DEF Close, Goto, StreamType
  <2>2. \A u \in Thread : u # t =>
           /\ kind'[u] = kind[u] /\ pc'[u] = pc[u] /\ room'[u] = room[u]
           /\ first'[u] = first[u] /\ cursor'[u] = cursor[u]
           /\ batch'[u] = batch[u] /\ sent'[u] = sent[u]
    BY <1>3, Zenon DEF Close, Goto, StreamType
  <2> QED
    BY <2>1, <2>2, StreamOthers, Zenon DEF OnAir
<1>4. ASSUME NEW t \in Thread, Clear(t)
      PROVE  StreamOK'
  BY <1>4, StreamKeep, Zenon DEF Clear, Goto, At, shared, OnAir
<1>5. ASSUME NEW t \in Thread, NEW r \in Room, EnterRoom(t, r)
      PROVE  StreamOK'
  BY <1>5, StreamKeep, Zenon DEF EnterRoom, Goto, At, shared, OnAir
<1>6. ASSUME NEW t \in Thread,
             Hangup(t) \/ Subscribe(t) \/ Unsubscribe(t)
      PROVE  StreamOK'
  BY <1>6, StreamKeep, ZenonT(60) DEF Hangup, Subscribe, Unsubscribe, Goto, At, shared,
     OnAir
<1>7. ASSUME NEW t \in Thread, PostInsert(t)
      PROVE  StreamOK'
  BY <1>7, StreamInsert, Zenon
<1>8. ASSUME NEW t \in Thread,
             PostLock(t) \/ PostWrite(t) \/ PostUnlock(t)
      PROVE  StreamOK'
  BY <1>8, StreamKeep, Zenon DEF PostLock, PostWrite, PostUnlock, Goto, At, shared,
     OnAir, AfterPost
<1>9. ASSUME NEW t \in Thread,
             Render(t) \/ TelnetWake(t) \/ Refresh(t)
      PROVE  StreamOK'
  BY <1>9, StreamKeep, Zenon DEF Render, TelnetWake, Refresh, Goto, At, shared, OnAir
<1>10. ASSUME NEW t \in Thread,
              KeyCompose(t) \/ KeyOlder(t) \/ KeyNewest(t) \/ KeyLeave(t)
       PROVE  StreamOK'
  BY <1>10, StreamKeep, Zenon DEF KeyCompose, KeyOlder, KeyNewest, KeyLeave, Goto, At,
     shared, OnAir, InRoomKey
<1>11. ASSUME NEW t \in Thread,
              KeyCancel(t) \/ KeySend(t) \/ KeySendEmpty(t)
       PROVE  StreamOK'
  BY <1>11, StreamKeep, ZenonT(60) DEF KeyCancel, KeySend, KeySendEmpty, Goto, At, shared,
     OnAir, ComposeKey
<1>12. ASSUME NEW t \in Thread, SseTail(t)
       PROVE  StreamOK'
  BY <1>12, StreamTail, Zenon
<1>13. ASSUME NEW t \in Thread,
              SseJoin(t) \/ SseWake(t) \/ SseSent(t)
       PROVE  StreamOK'
  BY <1>13, StreamKeep, Zenon DEF SseJoin, SseWake, SseSent, Goto, At, shared, OnAir
<1>14. ASSUME NEW t \in Thread, SseKeepalive(t)
       PROVE  StreamOK'
  BY <1>14, StreamKeep, ZenonT(60) DEF SseKeepalive, Goto, At, shared, OnAir
<1>15. ASSUME NEW t \in Thread, SseFetch(t)
       PROVE  StreamOK'
  BY <1>15, StreamFetch, Zenon
<1>16. ASSUME NEW t \in Thread, SseSend(t)
       PROVE  StreamOK'
  BY <1>16, StreamSend, Zenon
<1>17. CASE UNCHANGED vars
  BY <1>17, StreamKeep, Zenon DEF vars, shared
<1> QED
  BY SMT, SMTT(60), <1>1, <1>2, <1>3, <1>4, <1>5, <1>6, <1>7, <1>8, <1>9, <1>10, <1>11, <1>12,
     <1>13, <1>14, <1>15, <1>16, <1>17, SMT, SMTT(60) DEF Next, UserStep, ThreadStep

-----------------------------------------------------------------------------
(* Types and control *)

(* chat_room_subscribe leaves a list of descriptors. *)
LEMMA WithFdType ==
    ASSUME NEW s \in Seq(Fd \cup {NoFd}), NEW f \in Fd \cup {NoFd}
    PROVE  WithFd(s, f) \in Seq(Fd \cup {NoFd})
BY SMT, SMTT(60) DEF WithFd

(* chat_room_subscribe: the entries of a list with one more at its end. *)
LEMMA AppendEntries ==
    ASSUME NEW S, NEW s \in Seq(S), NEW f \in S
    PROVE  \A j \in DOMAIN Append(s, f) :
              \/ j \in DOMAIN s /\ Append(s, f)[j] = s[j]
              \/ j = Len(s) + 1 /\ Append(s, f)[j] = f
BY SMT, SMTT(60)

(* chat_room_unsubscribe: one entry fewer, the last one moved into the gap. *)
LEMMA WithoutFdFacts ==
    ASSUME NEW S, NEW s \in Seq(S), NEW f,
           \E i \in DOMAIN s : s[i] = f
    PROVE  /\ WithoutFd(s, f) \in Seq(S)
           /\ Len(WithoutFd(s, f)) = Len(s) - 1
           /\ FirstAt(s, f) \in DOMAIN s
           /\ s[FirstAt(s, f)] = f
           /\ \A i \in DOMAIN WithoutFd(s, f) :
                WithoutFd(s, f)[i] = IF i = FirstAt(s, f) THEN s[Len(s)] ELSE s[i]
<1>1. FirstAt(s, f) \in DOMAIN s /\ s[FirstAt(s, f)] = f
  <2> DEFINE I == {i \in DOMAIN s : s[i] = f}
  <2>1. I \in SUBSET Nat /\ I # {}
    OBVIOUS
  <2>2. PICK i \in I : \A j \in I : i <= j
    BY <2>1, NatMin, Zenon
  <2>3. \E m \in DOMAIN s : s[m] = f /\ \A j \in DOMAIN s : s[j] = f => m <= j
    BY <2>2, Zenon
  <2> QED
    BY <2>3, Zenon DEF FirstAt
<1> DEFINE e == [s EXCEPT ![FirstAt(s, f)] = s[Len(s)]]
<1>2. e \in Seq(S) /\ Len(e) = Len(s)
  BY <1>1
<1>3. WithoutFd(s, f) = SubSeq(e, 1, Len(s) - 1)
  BY Zenon DEF WithoutFd
<1>4. \A i \in 1..Len(s) : e[i] = IF i = FirstAt(s, f) THEN s[Len(s)] ELSE s[i]
  BY <1>1, SMT, SMTT(60)
<1> HIDE DEF e
<1>5. Len(s) - 1 \in 0..Len(e)
  BY <1>1, <1>2, SMT, SMTT(60)
<1> QED
  BY <1>1, <1>2, <1>3, <1>4, <1>5, SMT, SMTT(60)

\* g says where the entries of the list w were in the list s from which the
\* entry at k was taken; nothing else but f is lost.
Origin(g, w, s, f) ==
    /\ \A i \in DOMAIN w : g[i] \in DOMAIN s /\ w[i] = s[g[i]]
    /\ \A i, j \in DOMAIN w : g[i] = g[j] => i = j
    /\ (\E j \in DOMAIN s : s[j] = f) =>
          /\ FirstAt(s, f) \in DOMAIN s /\ s[FirstAt(s, f)] = f
          /\ \A i \in DOMAIN w : g[i] # FirstAt(s, f)
    /\ \A j \in DOMAIN s : s[j] # f => \E i \in DOMAIN w : g[i] = j

(* chat_room_unsubscribe: what is left was there before. *)
LEMMA WithoutFdOrigin ==
    ASSUME NEW S, NEW s \in Seq(S), NEW f
    PROVE  \E g : Origin(g, WithoutFd(s, f), s, f)
<1> DEFINE w == WithoutFd(s, f)
<1>1. CASE ~\E j \in DOMAIN s : s[j] = f
  <2> DEFINE g == [i \in DOMAIN s |-> i]
  <2>1. w = s
    BY <1>1, Zenon DEF WithoutFd
  <2>2. Origin(g, w, s, f)
    BY <1>1, <2>1, Zenon DEF Origin
  <2> QED  BY <2>2, Zenon
<1>2. CASE \E j \in DOMAIN s : s[j] = f
  <2> DEFINE k == FirstAt(s, f)
             n == Len(s)
             g == [i \in 1 .. (n - 1) |-> IF i = k THEN n ELSE i]
  <2>1. /\ w \in Seq(S) /\ Len(w) = n - 1 /\ k \in DOMAIN s /\ s[k] = f
        /\ \A i \in DOMAIN w : w[i] = IF i = k THEN s[n] ELSE s[i]
    BY <1>2, WithoutFdFacts, SMT, SMTT(60)
  <2>2. /\ DOMAIN s = 1 .. n /\ n \in Nat
    OBVIOUS
  <2> HIDE DEF w, k, n
  <2>3. DOMAIN w = 1 .. (n - 1) /\ k \in 1 .. n
    BY <2>1, <2>2
  <2>4. \A i \in 1 .. (n - 1) : g[i] = IF i = k THEN n ELSE i
    BY Zenon
  <2> HIDE DEF g
  <2>5. ASSUME NEW i \in DOMAIN w
        PROVE  g[i] \in DOMAIN s /\ w[i] = s[g[i]] /\ g[i] # k
    <3>1. i \in 1 .. n /\ i # n /\ n \in 1 .. n
      BY <2>2, <2>3, SMT, SMTT(60)
    <3>2. g[i] = (IF i = k THEN n ELSE i) /\ w[i] = IF i = k THEN s[n] ELSE s[i]
      BY <2>1, <2>3, <2>4, Zenon
    <3> QED  BY <2>2, <3>1, <3>2, Zenon
  <2>6. ASSUME NEW i \in DOMAIN w, NEW j \in DOMAIN w, g[i] = g[j]
        PROVE  i = j
    <3>1. i # n /\ j # n
      BY <2>2, <2>3, SMT, SMTT(60)
    <3> QED  BY <2>3, <2>4, <2>6, <3>1, Zenon
  <2>7. ASSUME NEW j \in DOMAIN s, s[j] # f
        PROVE  \E i \in DOMAIN w : g[i] = j
    <3>1. j # k
      BY <2>1, <2>7, Zenon
    <3>2. CASE j = n
      <4>1. k \in DOMAIN w
        BY <2>2, <2>3, <3>1, <3>2, SMT, SMTT(60)
      <4> QED  BY <2>3, <2>4, <3>2, <4>1, Zenon
    <3>3. CASE j # n
      <4>1. j \in DOMAIN w
        BY <2>2, <2>3, <3>3, SMT, SMTT(60)
      <4> QED  BY <2>3, <2>4, <3>1, <4>1, Zenon
    <3> QED  BY <3>2, <3>3, Zenon
  <2>8. Origin(g, w, s, f)
    BY <2>1, <2>5, <2>6, <2>7, Zenon DEF Origin, k
  <2> QED  BY <2>8, Zenon DEF w
<1> QED  BY <1>1, <1>2, Zenon

(* A session's new pipe has the right type. *)
LEMMA OpenPipeType ==
    ASSUME SharedType, SessionType, NEW t \in Thread, OpenPipe(t)
    PROVE  /\ wfd' \in [Thread -> Fd \cup {NoFd}]
           /\ owner' \in [Fd -> Thread \cup {None}]
           /\ pipe' \in [Fd -> 0..PipeCap]
<1>1. CASE wfd' = [wfd EXCEPT ![t] = NoFd] /\ UNCHANGED <<owner, pipe>>
  BY <1>1, Zenon DEF SharedType, SessionType
<1>2. ASSUME NEW f \in Fd,
             wfd' = [wfd EXCEPT ![t] = f],
             owner' = [owner EXCEPT ![f] = t],
             pipe' = [pipe EXCEPT ![f] = 0]
      PROVE  /\ wfd' \in [Thread -> Fd \cup {NoFd}]
             /\ owner' \in [Fd -> Thread \cup {None}]
             /\ pipe' \in [Fd -> 0..PipeCap]
  BY <1>2, BusAssumption, SMT, SMTT(60) DEF SharedType, SessionType
<1> QED
  BY <1>1, <1>2, Zenon DEF OpenPipe

(* The tables, lists, locks and pipes keep their types. *)
LEMMA SharedTypeStep ==
    ASSUME SharedType, SessionType, ControlOK, LockOK, [Next]_vars
    PROVE  SharedType'
<1> USE BusAssumption DEF SharedType
<1>1. ASSUME NEW t \in Thread, OpenTelnet(t)
      PROVE  SharedType'
  BY <1>1, OpenPipeType, Zenon DEF OpenTelnet
<1>2. ASSUME NEW t \in Thread, NEW k \in Serves[t] \ {"telnet"}, NEW r \in Room,
             OpenHttp(t, k, r)
      PROVE  SharedType'
  BY <1>2, OpenPipeType, ZenonT(60) DEF OpenHttp
<1>3. ASSUME NEW t \in Thread, Close(t)
      PROVE  SharedType'
  BY <1>3, SMT, SMTT(60) DEF Close
<1>4. ASSUME NEW t \in Thread, Subscribe(t)
      PROVE  SharedType'
  <2>1. room[t] \in Room
    BY <1>4, Zenon DEF Subscribe, At, ControlOK
  <2>2. WithFd(sub_fds[room[t]], wfd[t]) \in Seq(Fd \cup {NoFd})
    BY <2>1, WithFdType, Zenon DEF SessionType
  <2> QED
    BY <1>4, <2>1, <2>2, Zenon DEF Subscribe
<1>5. ASSUME NEW t \in Thread, Unsubscribe(t)
      PROVE  SharedType'
  <2>1. room[t] \in Room
    BY <1>5, Zenon DEF Unsubscribe, At, ControlOK
  <2>2. WithoutFd(sub_fds[room[t]], wfd[t]) \in Seq(Fd \cup {NoFd})
    <3>1. CASE \E i \in DOMAIN sub_fds[room[t]] : sub_fds[room[t]][i] = wfd[t]
      BY <2>1, <3>1, WithoutFdFacts, Zenon
    <3>2. CASE ~ \E i \in DOMAIN sub_fds[room[t]] : sub_fds[room[t]][i] = wfd[t]
      BY <2>1, <3>2, Zenon DEF WithoutFd
    <3> QED
      BY <3>1, <3>2, Zenon
  <2> QED
    BY <1>5, <2>1, <2>2, Zenon DEF Unsubscribe
<1>6. ASSUME NEW t \in Thread, Clear(t)
      PROVE  SharedType'
  BY <1>6, Zenon DEF Clear, MarkAbsent, PresenceClear
<1>7. ASSUME NEW t \in Thread, NEW r \in Room, EnterRoom(t, r)
      PROVE  SharedType'
  <2>1. room'[t] \in Room
    BY <1>7, ZenonT(60) DEF EnterRoom, At, ControlOK, SessionType
  <2>2. presence' \in SUBSET (Room \X User)
    BY <1>7, <2>1, SMT, SMTT(60) DEF EnterRoom, MarkPresent, PresenceSet
  <2> QED
    BY <1>7, <2>2, Zenon DEF EnterRoom
<1>8. ASSUME NEW t \in Thread, Refresh(t)
      PROVE  SharedType'
  <2>1. room'[t] \in Room
    BY <1>8, ZenonT(60) DEF Refresh, At, ControlOK, SessionType
  <2>2. presence' \in SUBSET (Room \X User)
    BY <1>8, <2>1, SMT, SMTT(60) DEF Refresh, MarkPresent, PresenceSet
  <2> QED
    BY <1>8, <2>2, Zenon DEF Refresh
<1>9. ASSUME NEW t \in Thread, SseJoin(t)
      PROVE  SharedType'
  <2>1. room'[t] \in Room
    BY <1>9, ZenonT(60) DEF SseJoin, At, ControlOK, SessionType
  <2>2. presence' \in SUBSET (Room \X User)
    BY <1>9, <2>1, SMT, SMTT(60) DEF SseJoin, MarkPresent, PresenceSet
  <2> QED
    BY <1>9, <2>2, Zenon DEF SseJoin
<1>10. ASSUME NEW t \in Thread, SseKeepalive(t)
       PROVE  SharedType'
  <2>1. room'[t] \in Room
    BY <1>10, ZenonT(60) DEF SseKeepalive, At, ControlOK, SessionType
  <2>2. presence' \in SUBSET (Room \X User)
    BY <1>10, <2>1, SMT, SMTT(60) DEF SseKeepalive, MarkPresent, PresenceSet
  <2> QED
    BY <1>10, <2>2, Zenon DEF SseKeepalive
<1>11. ASSUME NEW t \in Thread, PostInsert(t)
       PROVE  SharedType'
  <2>1. room[t] \in Room
    BY <1>11, Zenon DEF PostInsert, At, ControlOK
  <2>2. Append(log, room[t]) \in Seq(Room)
    BY <2>1, SMT, SMTT(60)
  <2>3. log' = log \/ log' = Append(log, room[t])
    BY <1>11, Zenon DEF PostInsert, InsertMessage
  <2>4. UNCHANGED <<presence, sub_fds, lock, owner, pipe>>
    BY <1>11, Zenon DEF PostInsert
  <2> QED
    BY <2>2, <2>3, <2>4, Zenon
<1>12. ASSUME NEW t \in Thread, PostLock(t)
       PROVE  SharedType'
  BY <1>12, Zenon DEF PostLock
<1>13. ASSUME NEW t \in Thread, PostWrite(t)
       PROVE  SharedType'
  <2>1. room[t] \in Room /\ idx[t] >= 1 /\ idx[t] \in Nat
    BY <1>13, ZenonT(60) DEF PostWrite, At, ControlOK, LockOK, SessionType
  <2> DEFINE f == sub_fds[room[t]][idx[t]]
  <2>2. f \in Fd \cup {NoFd}
    BY <1>13, <2>1, SMT, SMTT(60) DEF PostWrite
  <2>3. /\ UNCHANGED <<log, presence, sub_fds, lock, owner>>
        /\ pipe' = IF f # NoFd /\ pipe[f] < PipeCap
                   THEN [pipe EXCEPT ![f] = @ + 1] ELSE pipe
    BY <1>13, Zenon DEF PostWrite
  <2> HIDE DEF f
  <2>4. pipe' \in [Fd -> 0..PipeCap]
    BY <2>2, <2>3, SMT, SMTT(60)
  <2> QED
    BY <2>3, <2>4, Zenon
<1>14. ASSUME NEW t \in Thread, PostUnlock(t)
       PROVE  SharedType'
  BY <1>14, Zenon DEF PostUnlock
<1>15. ASSUME NEW t \in Thread, TelnetWake(t)
       PROVE  SharedType'
  <2>1. /\ pipe' = [pipe EXCEPT ![wfd[t]] = 0]
        /\ UNCHANGED <<log, presence, sub_fds, lock, owner>>
    BY <1>15, Zenon DEF TelnetWake, DrainPipe
  <2>2. 0 \in 0..PipeCap
    BY SMT, SMTT(60)
  <2> QED
    BY <2>1, <2>2, Zenon
<1>16. ASSUME NEW t \in Thread, SseWake(t)
       PROVE  SharedType'
  <2>1. /\ pipe' = [pipe EXCEPT ![wfd[t]] = 0]
        /\ UNCHANGED <<log, presence, sub_fds, lock, owner>>
    BY <1>16, Zenon DEF SseWake, DrainPipe
  <2>2. 0 \in 0..PipeCap
    OBVIOUS
  <2> QED
    BY <2>1, <2>2, Zenon
<1>17. ASSUME NEW t \in Thread,
              Hangup(t) \/ Render(t) \/ KeyCompose(t) \/ KeyOlder(t)
              \/ KeyNewest(t) \/ KeyLeave(t)
       PROVE  SharedType'
  BY <1>17, Zenon DEF Hangup, Render, KeyCompose, KeyOlder, KeyNewest, KeyLeave, shared
<1>18. ASSUME NEW t \in Thread,
              KeyCancel(t) \/ KeySend(t) \/ KeySendEmpty(t) \/ SseTail(t)
              \/ SseFetch(t) \/ SseSend(t) \/ SseSent(t)
       PROVE  SharedType'
  BY <1>18, Zenon DEF KeyCancel, KeySend, KeySendEmpty, SseTail, SseFetch, SseSend,
     SseSent, shared
<1>19. CASE UNCHANGED vars
  BY <1>19, Zenon DEF vars, shared
<1> QED
  BY <1>1, <1>2, <1>3, <1>4, <1>5, <1>6, <1>7, <1>8, <1>9, <1>10, <1>11, <1>12,
     <1>13, <1>14, <1>15, <1>16, <1>17, <1>18, <1>19, Zenon DEF Next, UserStep,
     ThreadStep

(* The control state of the sessions keeps its type. *)
LEMMA SessionTypeStep ==
    ASSUME SharedType, SessionType, [Next]_vars
    PROVE  SessionType'
<1> USE BusAssumption DEF SessionType, PCs, Kinds
<1>1. ASSUME NEW t \in Thread, OpenTelnet(t)
      PROVE  SessionType'
  BY <1>1, OpenPipeType, Zenon DEF OpenTelnet, Goto
<1>2. ASSUME NEW t \in Thread, NEW k \in Serves[t] \ {"telnet"}, NEW r \in Room,
             OpenHttp(t, k, r)
      PROVE  SessionType'
  <2>1. k \in Kinds
    BY Zenon
  <2> QED
    BY <1>2, <2>1, OpenPipeType, Zenon DEF OpenHttp, Goto
<1>3. ASSUME NEW t \in Thread, Close(t)
      PROVE  SessionType'
  BY <1>3, Zenon DEF Close, Goto
<1>4. ASSUME NEW t \in Thread, Hangup(t)
      PROVE  SessionType'
  BY <1>4, Zenon DEF Hangup, Goto
<1>5. ASSUME NEW t \in Thread,
             Subscribe(t) \/ Unsubscribe(t)
      PROVE  SessionType'
  BY <1>5 DEF Subscribe, Unsubscribe, Goto
<1>6. ASSUME NEW t \in Thread, Clear(t)
      PROVE  SessionType'
  BY <1>6, Zenon DEF Clear, Goto
<1>7. ASSUME NEW t \in Thread, PostInsert(t)
      PROVE  SessionType'
  BY <1>7, ZenonT(60) DEF PostInsert, Goto, AfterPost
<1>8. ASSUME NEW t \in Thread, PostLock(t)
      PROVE  SessionType'
  BY <1>8, Zenon DEF PostLock, Goto
<1>9. ASSUME NEW t \in Thread, PostWrite(t)
      PROVE  SessionType'
  BY <1>9, SMT, SMTT(60) DEF PostWrite, Goto
<1>10. ASSUME NEW t \in Thread, PostUnlock(t)
       PROVE  SessionType'
  BY <1>10, Zenon DEF PostUnlock, Goto, AfterPost
<1>11. ASSUME NEW t \in Thread, NEW r \in Room, EnterRoom(t, r)
       PROVE  SessionType'
  BY <1>11, Zenon DEF EnterRoom, Goto
<1>12. ASSUME NEW t \in Thread,
              Render(t) \/ TelnetWake(t) \/ Refresh(t)
       PROVE  SessionType'
  BY <1>12, ZenonT(60) DEF Render, TelnetWake, Refresh, Goto
<1>13. ASSUME NEW t \in Thread,
              KeyCompose(t) \/ KeyOlder(t) \/ KeyNewest(t) \/ KeyLeave(t)
       PROVE  SessionType'
  BY <1>13, ZenonT(60) DEF KeyCompose, KeyOlder, KeyNewest, KeyLeave, Goto
<1>14. ASSUME NEW t \in Thread,
              KeyCancel(t) \/ KeySend(t) \/ KeySendEmpty(t)
       PROVE  SessionType'
  BY <1>14, ZenonT(60) DEF KeyCancel, KeySend, KeySendEmpty, Goto
<1>15. ASSUME NEW t \in Thread,
              SseTail(t) \/ SseJoin(t) \/ SseWake(t) \/ SseFetch(t)
              \/ SseSent(t)
       PROVE  SessionType'
  BY <1>15, SMT, SMTT(60) DEF SseTail, SseJoin, SseWake, SseFetch, SseSent, Goto
<1>16. ASSUME NEW t \in Thread, SseKeepalive(t)
       PROVE  SessionType'
  BY <1>16, Zenon DEF SseKeepalive, Goto
<1>17. ASSUME NEW t \in Thread, SseSend(t)
       PROVE  SessionType'
  BY <1>17, ZenonT(60) DEF SseSend, Goto
<1>18. CASE UNCHANGED vars
  BY <1>18, Zenon DEF vars
<1> QED
  BY <1>1, <1>2, <1>3, <1>4, <1>5, <1>6, <1>7, <1>8, <1>9, <1>10, <1>11, <1>12,
     <1>13, <1>14, <1>15, <1>16, <1>17, <1>18, Zenon DEF Next, UserStep, ThreadStep

(* So do the telnet screens. *)
LEMMA ScreenTypeStep ==
    ASSUME SharedType, ScreenType, [Next]_vars
    PROVE  ScreenType'
<1> USE DEF ScreenType
<1>1. ASSUME NEW t \in Thread, Clear(t)
      PROVE  ScreenType'
  <2>1. {} \in SUBSET Nat /\ screen' = [screen EXCEPT ![t] = {}]
    BY <1>1, Zenon DEF Clear
  <2>2. screen' \in [Thread -> SUBSET Nat]
    BY <2>1, Zenon
  <2> QED
    BY <1>1, <2>2, Zenon DEF Clear
<1>2. ASSUME NEW t \in Thread, NEW r \in Room, EnterRoom(t, r)
      PROVE  ScreenType'
  BY <1>2, Zenon DEF EnterRoom, screenVars
<1>3. ASSUME NEW t \in Thread, Refresh(t)
      PROVE  ScreenType'
  BY <1>3, Zenon DEF Refresh, screenVars
<1>4. ASSUME NEW t \in Thread, Render(t)
      PROVE  ScreenType'
  <2>1. Page(t) \in SUBSET Nat
    BY IdsType DEF Page, MessagesBefore, Highest, SharedType
  <2>2. Page(t) # {} => Min(Page(t)) \in Nat
    BY <2>1, MinIsLeast, Zenon
  <2> QED
    BY <1>4, <2>1, <2>2, Zenon DEF Render
<1>5. ASSUME NEW t \in Thread,
             KeyCompose(t) \/ KeyOlder(t) \/ KeyNewest(t) \/ KeyLeave(t)
      PROVE  ScreenType'
  BY <1>5, Zenon DEF KeyCompose, KeyOlder, KeyNewest, KeyLeave, screenVars
<1>6. ASSUME NEW t \in Thread,
             KeyCancel(t) \/ KeySend(t) \/ KeySendEmpty(t)
      PROVE  ScreenType'
  BY <1>6, Zenon DEF KeyCancel, KeySend, KeySendEmpty, screenVars
<1>7. ASSUME NEW t \in Thread, OpenTelnet(t)
      PROVE  ScreenType'
  BY <1>7, Zenon DEF OpenTelnet, screenVars
<1>8. ASSUME NEW t \in Thread, NEW k \in Serves[t] \ {"telnet"}, NEW r \in Room,
             OpenHttp(t, k, r)
      PROVE  ScreenType'
  BY <1>8, Zenon DEF OpenHttp, screenVars
<1>9. ASSUME NEW t \in Thread,
             Hangup(t) \/ Close(t) \/ Subscribe(t) \/ Unsubscribe(t)
             \/ TelnetWake(t)
      PROVE  ScreenType'
  BY <1>9, Zenon DEF Hangup, Close, Subscribe, Unsubscribe, TelnetWake, screenVars
<1>10. ASSUME NEW t \in Thread,
              PostInsert(t) \/ PostLock(t) \/ PostWrite(t) \/ PostUnlock(t)
       PROVE  ScreenType'
  BY <1>10, Zenon DEF PostInsert, PostLock, PostWrite, PostUnlock, screenVars
<1>11. ASSUME NEW t \in Thread,
              SseTail(t) \/ SseJoin(t) \/ SseKeepalive(t) \/ SseWake(t)
              \/ SseFetch(t) \/ SseSend(t) \/ SseSent(t)
       PROVE  ScreenType'
  BY <1>11, Zenon DEF SseTail, SseJoin, SseKeepalive, SseWake, SseFetch, SseSend,
     SseSent, screenVars
<1>12. CASE UNCHANGED vars
  BY <1>12, Zenon DEF vars, screenVars
<1> QED
  BY <1>1, <1>2, <1>3, <1>4, <1>5, <1>6, <1>7, <1>8, <1>9, <1>10, <1>11, <1>12, ZenonT(60)
     DEF Next, UserStep, ThreadStep

(* And the event streams. *)
LEMMA StreamTypeStep ==
    ASSUME SharedType, StreamType, [Next]_vars
    PROVE  StreamType'
<1> USE DEF StreamType
<1>1. ASSUME NEW t \in Thread, Close(t)
      PROVE  StreamType'
  <2>1. /\ {} \in SUBSET Nat /\ batch' = [batch EXCEPT ![t] = {}]
        /\ <<>> \in Seq(Nat) /\ sent' = [sent EXCEPT ![t] = <<>>]
    BY <1>1 DEF Close
  <2>2. batch' \in [Thread -> SUBSET Nat]
    BY <2>1, Zenon
  <2>3. sent' \in [Thread -> Seq(Nat)]
    BY <2>1, Zenon
  <2> QED
    BY <1>1, <2>2, <2>3, ZenonT(60) DEF Close
<1>2. ASSUME NEW t \in Thread, SseTail(t)
      PROVE  StreamType'
  <2>1. MaxMessageId(log, room[t]) \in Nat
    BY TailIsNewest, SMT, SMTT(60) DEF SharedType
  <2> QED
    BY <1>2, <2>1, Zenon DEF SseTail
<1>3. ASSUME NEW t \in Thread, SseFetch(t)
      PROVE  StreamType'
  <2>1. MessagesSince(log, room[t], cursor[t], SseBatch) \in SUBSET Nat
    BY IdsType DEF MessagesSince, Lowest, SharedType
  <2> QED
    BY <1>3, <2>1, Zenon DEF SseFetch
<1>4. ASSUME NEW t \in Thread, SseSend(t)
      PROVE  StreamType'
  <2> DEFINE m == Min(batch[t])
  <2>1. m \in Nat
    BY <1>4, MinIsLeast, Zenon DEF SseSend
  <2>2. /\ UNCHANGED first
        /\ cursor' = [cursor EXCEPT ![t] = m]
        /\ sent' = sent \/ sent' = [sent EXCEPT ![t] = Append(sent[t], m)]
        /\ \/ batch' = [batch EXCEPT ![t] = batch[t] \ {m}]
           \/ batch' = [batch EXCEPT ![t] = {}]
    BY <1>4, Zenon DEF SseSend
  <2> HIDE DEF m
  <2>3. ASSUME NEW B \in SUBSET Nat, batch' = [batch EXCEPT ![t] = B]
        PROVE  batch' \in [Thread -> SUBSET Nat]
    BY <2>3, Zenon
  <2>4. batch[t] \ {m} \in SUBSET Nat /\ {} \in SUBSET Nat
    BY Zenon
  <2>5. Append(sent[t], m) \in Seq(Nat)
    BY <2>1
  <2>6. sent' \in [Thread -> Seq(Nat)]
    BY <2>2, <2>5, Zenon
  <2>7. batch' \in [Thread -> SUBSET Nat]
    BY <2>2, <2>3, <2>4, Zenon
  <2> QED
    BY <2>1, <2>2, <2>6, <2>7, Zenon
<1>5. ASSUME NEW t \in Thread, OpenTelnet(t)
      PROVE  StreamType'
  BY <1>5, Zenon DEF OpenTelnet, streamVars
<1>6. ASSUME NEW t \in Thread, NEW k \in Serves[t] \ {"telnet"}, NEW r \in Room,
             OpenHttp(t, k, r)
      PROVE  StreamType'
  BY <1>6, Zenon DEF OpenHttp, streamVars
<1>7. ASSUME NEW t \in Thread, NEW r \in Room, EnterRoom(t, r)
      PROVE  StreamType'
  BY <1>7, Zenon DEF EnterRoom, streamVars
<1>8. ASSUME NEW t \in Thread,
             Hangup(t) \/ Subscribe(t) \/ Unsubscribe(t) \/ Clear(t)
             \/ Render(t) \/ TelnetWake(t) \/ Refresh(t)
      PROVE  StreamType'
  BY <1>8, Zenon DEF Hangup, Subscribe, Unsubscribe, Clear, Render, TelnetWake,
     Refresh, streamVars
<1>9. ASSUME NEW t \in Thread,
             PostInsert(t) \/ PostLock(t) \/ PostWrite(t) \/ PostUnlock(t)
      PROVE  StreamType'
  BY <1>9, Zenon DEF PostInsert, PostLock, PostWrite, PostUnlock, streamVars
<1>10. ASSUME NEW t \in Thread,
              KeyCompose(t) \/ KeyOlder(t) \/ KeyNewest(t) \/ KeyLeave(t)
       PROVE  StreamType'
  BY <1>10, Zenon DEF KeyCompose, KeyOlder, KeyNewest, KeyLeave, streamVars
<1>11. ASSUME NEW t \in Thread,
              KeyCancel(t) \/ KeySend(t) \/ KeySendEmpty(t)
       PROVE  StreamType'
  BY <1>11, Zenon DEF KeyCancel, KeySend, KeySendEmpty, streamVars
<1>12. ASSUME NEW t \in Thread,
              SseJoin(t) \/ SseKeepalive(t) \/ SseWake(t) \/ SseSent(t)
       PROVE  StreamType'
  BY <1>12, Zenon DEF SseJoin, SseKeepalive, SseWake, SseSent, streamVars
<1>13. CASE UNCHANGED vars
  BY <1>13, Zenon DEF vars, streamVars
<1> QED
  BY <1>1, <1>2, <1>3, <1>4, <1>5, <1>6, <1>7, <1>8, <1>9, <1>10, <1>11, <1>12,
     <1>13, Zenon DEF Next, UserStep, ThreadStep

(* No list outgrows its array. *)
LEMMA SubsFitStep ==
    ASSUME SharedType, SessionType, SubsFit, ControlOK, [Next]_vars
    PROVE  SubsFit'
<1>1. ASSUME NEW t \in Thread, Subscribe(t)
      PROVE  SubsFit'
  <2>1. room[t] \in Room
    BY <1>1, Zenon DEF Subscribe, At, ControlOK
  <2> DEFINE s == sub_fds[room[t]]
  <2>2. s \in Seq(Fd \cup {NoFd}) /\ Len(s) <= MaxSubs
    BY <2>1, Zenon DEF SharedType, SubsFit
  <2>3. Len(WithFd(s, wfd[t])) <= MaxSubs
    BY <2>2, BusAssumption, SMT, SMTT(60) DEF WithFd
  <2>4. sub_fds' = [sub_fds EXCEPT ![room[t]] = WithFd(s, wfd[t])]
    BY <1>1, Zenon DEF Subscribe
  <2> HIDE DEF s
  <2> QED
    BY <2>1, <2>3, <2>4, Zenon DEF SharedType, SubsFit
<1>2. ASSUME NEW t \in Thread, Unsubscribe(t)
      PROVE  SubsFit'
  <2>1. room[t] \in Room
    BY <1>2, Zenon DEF Unsubscribe, At, ControlOK
  <2> DEFINE s == sub_fds[room[t]]
  <2>2. s \in Seq(Fd \cup {NoFd}) /\ Len(s) <= MaxSubs
    BY <2>1, Zenon DEF SharedType, SubsFit
  <2>3. Len(WithoutFd(s, wfd[t])) <= MaxSubs
    <3>1. CASE \E i \in DOMAIN s : s[i] = wfd[t]
      <4>1. Len(WithoutFd(s, wfd[t])) = Len(s) - 1
        BY <2>2, <3>1, WithoutFdFacts, SMT, SMTT(60)
      <4> QED
        BY <2>2, <4>1, BusAssumption, SMT, SMTT(60)
    <3>2. CASE ~ \E i \in DOMAIN s : s[i] = wfd[t]
      BY <2>2, <3>2, Zenon DEF WithoutFd
    <3> QED
      BY <3>1, <3>2, Zenon
  <2>4. sub_fds' = [sub_fds EXCEPT ![room[t]] = WithoutFd(s, wfd[t])]
    BY <1>2, Zenon DEF Unsubscribe
  <2> HIDE DEF s
  <2> QED
    BY <2>1, <2>3, <2>4, Zenon DEF SharedType, SubsFit
<1>3. CASE UNCHANGED sub_fds
  BY <1>3, Zenon DEF SubsFit
<1>4. ASSUME NEW t \in Thread, UserStep(t)
      PROVE  UNCHANGED sub_fds
  BY <1>4, Zenon DEF UserStep, OpenTelnet, OpenHttp, OpenPipe, Hangup, EnterRoom,
     KeyCompose, KeyOlder, KeyNewest, KeyLeave, KeyCancel, KeySend,
     KeySendEmpty, SseKeepalive, shared
<1>5. ASSUME NEW t \in Thread, ThreadStep(t)
      PROVE  Subscribe(t) \/ Unsubscribe(t) \/ UNCHANGED sub_fds
  BY <1>5, Zenon DEF ThreadStep, Close, Clear, PostInsert, PostLock, PostWrite,
     PostUnlock, Render, TelnetWake, Refresh, SseTail, SseJoin, SseWake,
     SseFetch, SseSend, SseSent, shared
<1>6. CASE UNCHANGED vars
  BY <1>3, <1>6, Zenon DEF vars, shared
<1> QED
  BY <1>1, <1>2, <1>3, <1>4, <1>5, <1>6, Zenon DEF Next

(* Every step keeps the type invariant. *)
LEMMA TypeStep ==
    ASSUME TypeOK, ControlOK, LockOK, [Next]_vars PROVE TypeOK'
BY SharedTypeStep, SessionTypeStep, ScreenTypeStep, StreamTypeStep,
   SubsFitStep, Zenon DEF TypeOK

-----------------------------------------------------------------------------
(* Control, descriptors and locks *)

(* A new pipe gets a descriptor nobody has. *)
LEMMA OpenPipeOwner ==
    ASSUME TypeOK, OwnerOK, NEW t \in Thread, At(t, "idle"), OpenPipe(t),
           NEW l, l # "idle", Goto(t, l)
    PROVE  OwnerOK'
<1> USE BusAssumption DEF TypeOK, SharedType, SessionType, OwnerOK, At, Goto
<1>1. CASE wfd' = [wfd EXCEPT ![t] = NoFd] /\ UNCHANGED <<owner, pipe>>
  BY <1>1, ZenonT(60)
<1>2. ASSUME NEW f \in Fd, owner[f] = None,
             wfd' = [wfd EXCEPT ![t] = f],
             owner' = [owner EXCEPT ![f] = t]
      PROVE  OwnerOK'
  <2>1. \A u \in Thread : wfd[u] # f
    <3> SUFFICES ASSUME NEW u \in Thread, wfd[u] = f PROVE FALSE
      BY Zenon
    <3>1. f # NoFd
      BY ZenonT(60)
    <3>2. owner[f] = u
      BY <3>1, Zenon
    <3> QED
      BY <1>2, <3>2, Zenon
  <2> QED
    BY <1>2, <2>1, SMT, SMTT(60)
<1> QED
  BY <1>1, <1>2, Zenon DEF OpenPipe

(* Every step keeps a session within the steps of its kind. *)
LEMMA ControlStep ==
    ASSUME TypeOK, ControlOK, [Next]_vars
    PROVE  ControlOK'
<1> USE DEF TypeOK, SessionType, Kinds, ControlOK, TelnetPCs, SsePCs, RestPCs
<1>1. ASSUME NEW t \in Thread, OpenTelnet(t)
      PROVE  ControlOK'
  BY <1>1, Zenon DEF OpenTelnet, Goto, At
<1>2. ASSUME NEW t \in Thread, NEW k \in Serves[t] \ {"telnet"}, NEW r \in Room,
             OpenHttp(t, k, r)
      PROVE  ControlOK'
  BY <1>2, BusAssumption, ZenonT(60) DEF OpenHttp, Goto, At
<1>3. ASSUME NEW t \in Thread, Close(t)
      PROVE  ControlOK'
  BY <1>3, SMT, SMTT(60) DEF Close, Goto, At
<1>4. ASSUME NEW t \in Thread, NEW r \in Room, EnterRoom(t, r)
      PROVE  ControlOK'
  BY <1>4, Zenon DEF EnterRoom, Goto, At
<1>5. ASSUME NEW t \in Thread, Clear(t)
      PROVE  ControlOK'
  BY <1>5, ZenonT(60) DEF Clear, Goto, At
<1>6. ASSUME NEW t \in Thread, PostInsert(t)
      PROVE  ControlOK'
  BY <1>6, SMT, SMTT(60) DEF PostInsert, Goto, At, AfterPost
<1>7. ASSUME NEW t \in Thread, PostUnlock(t)
      PROVE  ControlOK'
  BY <1>7, ZenonT(60) DEF PostUnlock, Goto, At, AfterPost
<1>8. ASSUME NEW t \in Thread, SseKeepalive(t)
      PROVE  ControlOK'
  BY <1>8, SMT, SMTT(60) DEF SseKeepalive, Goto, At
<1>9. ASSUME NEW t \in Thread, SseSend(t)
      PROVE  ControlOK'
  BY <1>9, SMT, SMTT(60) DEF SseSend, Goto, At
<1>10. ASSUME NEW t \in Thread, Hangup(t)
       PROVE  ControlOK'
  BY <1>10, SMT, SMTT(60) DEF Hangup, Goto, At
<1>11. ASSUME NEW t \in Thread, Subscribe(t)
       PROVE  ControlOK'
  BY <1>11, Zenon DEF Subscribe, Goto, At
<1>12. ASSUME NEW t \in Thread, Unsubscribe(t)
       PROVE  ControlOK'
  BY <1>12, Zenon DEF Unsubscribe, Goto, At
<1>13. ASSUME NEW t \in Thread, PostLock(t)
       PROVE  ControlOK'
  BY <1>13, Zenon DEF PostLock, Goto, At
<1>14. ASSUME NEW t \in Thread, PostWrite(t)
       PROVE  ControlOK'
  BY <1>14, ZenonT(60) DEF PostWrite, Goto, At
<1>15. ASSUME NEW t \in Thread, Render(t)
       PROVE  ControlOK'
  BY <1>15, Zenon DEF Render, Goto, At
<1>16. ASSUME NEW t \in Thread, TelnetWake(t)
       PROVE  ControlOK'
  BY <1>16, Zenon DEF TelnetWake, Goto, At
<1>17. ASSUME NEW t \in Thread, Refresh(t)
       PROVE  ControlOK'
  BY <1>17, ZenonT(60) DEF Refresh, Goto, At
<1>18. ASSUME NEW t \in Thread,
              KeyCompose(t) \/ KeyOlder(t) \/ KeyNewest(t) \/ KeyLeave(t)
       PROVE  ControlOK'
  BY <1>18, SMT, SMTT(60) DEF KeyCompose, KeyOlder, KeyNewest, KeyLeave, Goto, At, InRoomKey
<1>19. ASSUME NEW t \in Thread, KeyCancel(t)
       PROVE  ControlOK'
  BY <1>19, Zenon DEF KeyCancel, Goto, At, ComposeKey
<1>20. ASSUME NEW t \in Thread, KeySend(t)
       PROVE  ControlOK'
  BY <1>20, ZenonT(60) DEF KeySend, Goto, At, ComposeKey
<1>21. ASSUME NEW t \in Thread, KeySendEmpty(t)
       PROVE  ControlOK'
  BY <1>21, ZenonT(60) DEF KeySendEmpty, Goto, At, ComposeKey
<1>22. ASSUME NEW t \in Thread,
              SseTail(t) \/ SseJoin(t) \/ SseWake(t) \/ SseFetch(t)
              \/ SseSent(t)
       PROVE  ControlOK'
  BY <1>22, SMT, SMTT(60) DEF SseTail, SseJoin, SseWake, SseFetch, SseSent, Goto, At
<1>23. CASE UNCHANGED vars
  BY <1>23, ZenonT(60) DEF vars
<1> QED
  BY <1>1, <1>2, <1>3, <1>4, <1>5, <1>6, <1>7, <1>8, <1>9, <1>10, <1>11, <1>12,
     <1>13, <1>14, <1>15, <1>16, <1>17, <1>18, <1>19, <1>20, <1>21, <1>22, <1>23, Zenon
     DEF Next, UserStep, ThreadStep

(* Every step keeps descriptors and sessions in agreement. *)
LEMMA OwnerStep ==
    ASSUME TypeOK, OwnerOK, [Next]_vars
    PROVE  OwnerOK'
<1> USE DEF TypeOK, SessionType, OwnerOK
<1>1. ASSUME NEW t \in Thread, OpenTelnet(t)
      PROVE  OwnerOK'
  BY <1>1, OpenPipeOwner, Zenon DEF OpenTelnet
<1>2. ASSUME NEW t \in Thread, NEW k \in Serves[t] \ {"telnet"}, NEW r \in Room,
             OpenHttp(t, k, r)
      PROVE  OwnerOK'
  BY <1>2, OpenPipeOwner, ZenonT(60) DEF OpenHttp
<1>3. ASSUME NEW t \in Thread, Close(t)
      PROVE  OwnerOK'
  BY <1>3, BusAssumption, SMT, SMTT(60) DEF Close, Goto, SharedType
<1>4. ASSUME NEW t \in Thread, NEW r \in Room, EnterRoom(t, r)
      PROVE  OwnerOK'
  BY <1>4, Zenon DEF EnterRoom, Goto, At, shared
<1>5. ASSUME NEW t \in Thread, Hangup(t)
      PROVE  OwnerOK'
  BY <1>5, Zenon DEF Hangup, Goto, At, shared
<1>6. ASSUME NEW t \in Thread,
             Subscribe(t) \/ Unsubscribe(t)
      PROVE  OwnerOK'
  BY <1>6, Zenon DEF Subscribe, Unsubscribe, Goto, At, shared
<1>7. ASSUME NEW t \in Thread, Clear(t)
      PROVE  OwnerOK'
  BY <1>7, Zenon DEF Clear, Goto, At, shared
<1>8. ASSUME NEW t \in Thread,
             PostInsert(t) \/ PostLock(t)
      PROVE  OwnerOK'
  BY <1>8, Zenon DEF PostInsert, PostLock, Goto, At, shared, AfterPost
<1>9. ASSUME NEW t \in Thread, PostWrite(t)
      PROVE  OwnerOK'
  BY <1>9, Zenon DEF PostWrite, Goto, At, shared
<1>10. ASSUME NEW t \in Thread, PostUnlock(t)
       PROVE  OwnerOK'
  BY <1>10, Zenon DEF PostUnlock, Goto, At, shared, AfterPost
<1>11. ASSUME NEW t \in Thread, Render(t)
       PROVE  OwnerOK'
  BY <1>11, Zenon DEF Render, Goto, At, shared
<1>12. ASSUME NEW t \in Thread, TelnetWake(t)
       PROVE  OwnerOK'
  BY <1>12, Zenon DEF TelnetWake, Goto, At, shared
<1>13. ASSUME NEW t \in Thread, Refresh(t)
       PROVE  OwnerOK'
  BY <1>13, Zenon DEF Refresh, Goto, At, shared
<1>14. ASSUME NEW t \in Thread,
              KeyCompose(t) \/ KeyOlder(t) \/ KeyNewest(t) \/ KeyLeave(t)
       PROVE  OwnerOK'
  BY <1>14, Zenon DEF KeyCompose, KeyOlder, KeyNewest, KeyLeave, Goto, At, shared
<1>15. ASSUME NEW t \in Thread,
              KeyCancel(t) \/ KeySend(t) \/ KeySendEmpty(t)
       PROVE  OwnerOK'
  BY <1>15, Zenon DEF KeyCancel, KeySend, KeySendEmpty, Goto, At, shared
<1>16. ASSUME NEW t \in Thread,
              SseTail(t) \/ SseJoin(t) \/ SseWake(t) \/ SseFetch(t)
              \/ SseSent(t)
       PROVE  OwnerOK'
  BY <1>16, Zenon DEF SseTail, SseJoin, SseWake, SseFetch, SseSent, Goto, At, shared
<1>17. ASSUME NEW t \in Thread, SseKeepalive(t)
       PROVE  OwnerOK'
  BY <1>17, Zenon DEF SseKeepalive, Goto, At, shared
<1>18. ASSUME NEW t \in Thread, SseSend(t)
       PROVE  OwnerOK'
  BY <1>18, Zenon DEF SseSend, Goto, At, shared
<1>19. CASE UNCHANGED vars
  BY <1>19, Zenon DEF vars, shared
<1> QED
  BY <1>1, <1>2, <1>3, <1>4, <1>5, <1>6, <1>7, <1>8, <1>9, <1>10, <1>11, <1>12,
     <1>13, <1>14, <1>15, <1>16, <1>17, <1>18, <1>19, Zenon DEF Next, UserStep,
     ThreadStep

(* Every step keeps writers in possession of their room's lock. *)
LEMMA LockStep ==
    ASSUME TypeOK, ControlOK, LockOK, [Next]_vars
    PROVE  LockOK'
<1> USE DEF TypeOK, SessionType, LockOK
<1>1. ASSUME NEW t \in Thread, OpenTelnet(t)
      PROVE  LockOK'
  BY <1>1, Zenon DEF OpenTelnet, Goto, At, shared
<1>2. ASSUME NEW t \in Thread, NEW k \in Serves[t] \ {"telnet"}, NEW r \in Room,
             OpenHttp(t, k, r)
      PROVE  LockOK'
  BY <1>2, Zenon DEF OpenHttp, Goto, At, shared
<1>3. ASSUME NEW t \in Thread, Close(t)
      PROVE  LockOK'
  BY <1>3, Zenon DEF Close, Goto, At, shared
<1>4. ASSUME NEW t \in Thread, Clear(t)
      PROVE  LockOK'
  BY <1>4, Zenon DEF Clear, Goto, At, shared
<1>5. ASSUME NEW t \in Thread, NEW r \in Room, EnterRoom(t, r)
      PROVE  LockOK'
  BY <1>5, Zenon DEF EnterRoom, Goto, At, shared
<1>6. ASSUME NEW t \in Thread, PostInsert(t)
      PROVE  LockOK'
  BY <1>6, Zenon DEF PostInsert, Goto, At, shared, AfterPost
<1>7. ASSUME NEW t \in Thread, PostLock(t)
      PROVE  LockOK'
  <2>1. room[t] \in Room /\ lock[room[t]] = None
    BY <1>7, Zenon DEF PostLock, At, ControlOK
  <2>2. ASSUME NEW u \in Thread, pc[u] = "write"
        PROVE  room[u] # room[t] /\ room[u] \in Room
    <3>1. lock[room[u]] = u /\ u # None
      BY <2>2, BusAssumption, Zenon
    <3> QED
      BY <2>1, <2>2, <3>1, Zenon DEF ControlOK
  <2> SUFFICES ASSUME NEW u \in Thread, pc'[u] = "write"
               PROVE  lock'[room'[u]] = u /\ idx'[u] >= 1
    BY Zenon DEF LockOK
  <2>3. CASE u = t
    BY <1>7, <2>1, <2>3, SMT, SMTT(60) DEF PostLock, SharedType
  <2>4. CASE u # t
    BY <1>7, <2>1, <2>2, <2>4, ZenonT(60) DEF PostLock, Goto, SharedType
  <2> QED
    BY <2>3, <2>4, Zenon
<1>8. ASSUME NEW t \in Thread, PostWrite(t)
      PROVE  LockOK'
  <2>1. UNCHANGED <<lock, pc, room>>
    BY <1>8, Zenon DEF PostWrite
  <2>2. \A u \in Thread : idx[u] \in Nat /\ (idx'[u] = idx[u] \/ idx'[u] = idx[u] + 1)
    BY <1>8, Zenon DEF PostWrite
  <2> QED
    BY <2>1, <2>2, SMT, SMTT(60)
<1>9. ASSUME NEW t \in Thread, PostUnlock(t)
      PROVE  LockOK'
  <2>1. \A u \in Thread : u # t /\ pc[u] = "write" => room[u] # room[t]
    BY <1>9, SMT, SMTT(60) DEF PostUnlock, At, ControlOK
  <2>2. ASSUME NEW u \in Thread, pc'[u] = "write"
        PROVE  u # t /\ pc[u] = "write" /\ UNCHANGED room /\ idx'[u] = idx[u]
    BY <1>9, <2>2, Zenon DEF PostUnlock, Goto, AfterPost
  <2> QED
    BY <1>9, <2>1, <2>2, ZenonT(60) DEF PostUnlock, SharedType, ControlOK
<1>10. ASSUME NEW t \in Thread, Hangup(t)
       PROVE  LockOK'
  BY <1>10, Zenon DEF Hangup, Goto, At, shared
<1>11. ASSUME NEW t \in Thread,
              Subscribe(t) \/ Unsubscribe(t)
       PROVE  LockOK'
  BY <1>11, Zenon DEF Subscribe, Unsubscribe, Goto, At, shared
<1>12. ASSUME NEW t \in Thread,
              Render(t) \/ TelnetWake(t) \/ Refresh(t)
       PROVE  LockOK'
  BY <1>12, Zenon DEF Render, TelnetWake, Refresh, Goto, At, shared
<1>13. ASSUME NEW t \in Thread,
              KeyCompose(t) \/ KeyOlder(t) \/ KeyNewest(t) \/ KeyLeave(t)
       PROVE  LockOK'
  BY <1>13, Zenon DEF KeyCompose, KeyOlder, KeyNewest, KeyLeave, Goto, At, shared
<1>14. ASSUME NEW t \in Thread,
              KeyCancel(t) \/ KeySend(t) \/ KeySendEmpty(t)
       PROVE  LockOK'
  BY <1>14, Zenon DEF KeyCancel, KeySend, KeySendEmpty, Goto, At, shared
<1>15. ASSUME NEW t \in Thread,
              SseTail(t) \/ SseJoin(t)
       PROVE  LockOK'
  BY <1>15, ZenonT(60) DEF SseTail, SseJoin, Goto, At, shared
<1>16. ASSUME NEW t \in Thread,
              SseWake(t) \/ SseFetch(t) \/ SseSent(t)
       PROVE  LockOK'
  BY <1>16, SMT, SMTT(60) DEF SseWake, SseFetch, SseSent, Goto, At, shared
<1>17. ASSUME NEW t \in Thread,
              SseKeepalive(t) \/ SseSend(t)
       PROVE  LockOK'
  BY <1>17, Zenon DEF SseKeepalive, SseSend, Goto, At, shared
<1>18. CASE UNCHANGED vars
  BY <1>18, ZenonT(60) DEF vars, shared
<1> QED
  BY <1>1, <1>2, <1>3, <1>4, <1>5, <1>6, <1>7, <1>8, <1>9, <1>10, <1>11, <1>12,
     <1>13, <1>14, <1>15, <1>16, <1>17, <1>18, Zenon DEF Next, UserStep, ThreadStep

-----------------------------------------------------------------------------
(* The subscriber lists *)

\* What a step does that takes nobody out of a list and closes no listed pipe.
SubscribersStay ==
    /\ UNCHANGED sub_fds
    /\ \A u \in Thread : Subscribed(u) =>
          Subscribed(u)' /\ room'[u] = room[u] /\ wfd'[u] = wfd[u]
    /\ \A f \in Fd : owner[f] # None /\ Subscribed(owner[f]) => owner'[f] = owner[f]

\* Nor does it bring a new visitor with a pipe.
NoNewVisitor ==
    \A u \in Thread : Subscribed(u)' /\ wfd'[u] # NoFd => Subscribed(u)

(* A step of that kind keeps every entry live. *)
LEMMA SubscribersKeep ==
    ASSUME TypeOK, SubscribersLive, SubscribersStay
    PROVE  SubscribersLive'
<1>0. UNCHANGED sub_fds
  BY ZenonT(60) DEF SubscribersStay
<1> SUFFICES ASSUME NEW r \in Room, NEW i \in DOMAIN sub_fds'[r], sub_fds'[r][i] # NoFd
             PROVE  LET f == sub_fds'[r][i] IN
                    /\ owner'[f] # None
                    /\ wfd'[owner'[f]] = f
                    /\ room'[owner'[f]] = r
                    /\ Subscribed(owner[sub_fds[r][i]])'
                    /\ \A j \in DOMAIN sub_fds'[r] : sub_fds'[r][j] = f => j = i
  BY ZenonT(60) DEF SubscribersLive
<1> DEFINE f == sub_fds[r][i]
           u == owner[f]
<1>1. i \in DOMAIN sub_fds[r] /\ sub_fds[r][i] # NoFd
  BY <1>0, ZenonT(60)
<1>2. f \in Fd
  BY <1>1, SMT, SMTT(60) DEF TypeOK, SharedType, SessionType
<1>3. /\ u # None /\ wfd[u] = f /\ room[u] = r /\ Subscribed(u)
      /\ \A j \in DOMAIN sub_fds[r] : sub_fds[r][j] = f => j = i
  BY <1>1, ZenonT(60) DEF SubscribersLive
<1>4. u \in Thread
  BY <1>2, <1>3, ZenonT(60) DEF TypeOK, SharedType, SessionType
<1>5. owner'[f] = u
  BY <1>2, <1>3, ZenonT(60) DEF SubscribersStay
<1>6. room'[u] = room[u] /\ wfd'[u] = wfd[u]
  BY <1>3, <1>4, ZenonT(60) DEF SubscribersStay
<1>7. pc'[u] \in {"render", "poll", "insert", "lock", "write", "refresh", "join",
                  "fetch", "send", "unsubscribe"} /\ kind'[u] \in {"telnet", "sse"}
  BY <1>3, <1>4, ZenonT(60) DEF SubscribersStay, Subscribed
<1>8. sub_fds'[r][i] = f /\ owner'[sub_fds'[r][i]] = u
  BY <1>0, <1>5, ZenonT(60)
<1>9. \A j \in DOMAIN sub_fds'[r] : sub_fds'[r][j] = f => j = i
  BY <1>0, <1>3, ZenonT(60)
<1> HIDE DEF f, u
<1>10. Subscribed(owner[sub_fds[r][i]])'
  BY <1>7, <1>8, ZenonT(60) DEF Subscribed
<1> QED
  BY <1>3, <1>6, <1>8, <1>9, <1>10, ZenonT(60)

(* Opening a pipe changes no other session's descriptor. *)
LEMMA OpenPipeKeeps ==
    ASSUME TypeOK, NEW t \in Thread, OpenPipe(t)
    PROVE  /\ \A u \in Thread : u # t => wfd'[u] = wfd[u]
           /\ \A f \in Fd : owner[f] # None => owner'[f] = owner[f]
BY DEF OpenPipe, TypeOK, SharedType, SessionType

(* A new entry is live, and unlike every other one. *)
LEMMA SubscribeStep ==
    ASSUME TypeOK, ControlOK, OwnerOK, SubscribersLive,
           NEW t \in Thread, Subscribe(t)
    PROVE  SubscribersLive'
<1> DEFINE s == sub_fds[room[t]]
<1>1. room[t] \in Room /\ kind[t] \in {"telnet", "sse"} /\ ~Subscribed(t)
  BY Zenon DEF Subscribe, At, ControlOK, TypeOK, SharedType, SessionType, Kinds,
     RestPCs, Subscribed
<1>2. /\ UNCHANGED <<owner, wfd, room, kind>>
      /\ \A u \in Thread : Subscribed(u) => Subscribed(u)'
  BY Zenon DEF Subscribe, At, Goto, Subscribed, TypeOK, SharedType, SessionType
<1>3. Subscribed(t)'
  BY <1>1, Zenon DEF Subscribe, Goto, Subscribed, TypeOK, SharedType, SessionType
<1>4. CASE WithFd(s, wfd[t]) = s
  <2>1. UNCHANGED sub_fds
    BY <1>4, Zenon DEF Subscribe, TypeOK, SharedType, SessionType
  <2> QED
    BY <1>2, <2>1, SubscribersKeep, Zenon DEF SubscribersStay
<1>5. CASE WithFd(s, wfd[t]) = Append(s, wfd[t])
  <2> SUFFICES ASSUME NEW r \in Room, NEW i \in DOMAIN sub_fds'[r],
                      NEW f, f = sub_fds'[r][i], f # NoFd
               PROVE  /\ \A j \in DOMAIN sub_fds'[r] : sub_fds'[r][j] = f => j = i
                      /\ \E u \in Thread : /\ owner'[f] = u /\ wfd'[u] = f
                                           /\ room'[u] = r /\ Subscribed(u)'
    BY BusAssumption, SMT, SMTT(60) DEF SubscribersLive, Subscribed
  <2>0. s \in Seq(Fd \cup {NoFd}) /\ wfd[t] \in Fd \cup {NoFd}
    BY <1>1, Zenon DEF TypeOK, SharedType, SessionType
  <2>1. /\ r # room[t] => sub_fds'[r] = sub_fds[r]
        /\ r = room[t] => sub_fds'[r] = Append(s, wfd[t])
    BY <1>1, <1>5, ZenonT(60) DEF Subscribe, TypeOK, SharedType, SessionType
  <2>2. ASSUME NEW q \in Room, NEW j \in DOMAIN sub_fds[q]
        PROVE  sub_fds[q][j] # wfd[t] \/ wfd[t] = NoFd
    BY <1>1, SMT, SMTT(60) DEF SubscribersLive, OwnerOK
  <2>5. ASSUME NEW j \in DOMAIN sub_fds'[r]
        PROVE  \/ j \in DOMAIN sub_fds[r] /\ sub_fds'[r][j] = sub_fds[r][j]
               \/ r = room[t] /\ j = Len(s) + 1 /\ sub_fds'[r][j] = wfd[t]
    <3>1. CASE r # room[t]
      BY <2>1, <2>5, <3>1, Zenon
    <3>2. CASE r = room[t]
      <4>1. sub_fds'[r] = Append(s, wfd[t]) /\ sub_fds[r] = s
        BY <2>1, <3>2, ZenonT(60)
      <4> HIDE DEF s
      <4>2. \A l \in DOMAIN Append(s, wfd[t]) :
               \/ l \in DOMAIN s /\ Append(s, wfd[t])[l] = s[l]
               \/ l = Len(s) + 1 /\ Append(s, wfd[t])[l] = wfd[t]
        BY <2>0, AppendEntries, SMT, SMTT(60)
      <4> QED
        BY <3>2, <4>1, <4>2, Zenon
    <3> QED
      BY <3>1, <3>2, Zenon
  <2> HIDE DEF s
  <2>3. CASE i \in DOMAIN sub_fds[r] /\ f = sub_fds[r][i]
    <3>1. /\ owner[f] # None /\ wfd[owner[f]] = f /\ room[owner[f]] = r
          /\ Subscribed(owner[f])
          /\ \A j \in DOMAIN sub_fds[r] : sub_fds[r][j] = f => j = i
      BY <2>3, SMT, SMTT(60) DEF SubscribersLive
    <3>2. owner[f] \in Thread
      BY <2>3, <3>1, SMT, SMTT(60) DEF TypeOK, SharedType, SessionType
    <3>3. f # wfd[t]
      BY <2>2, <2>3, Zenon
    <3>4. \A j \in DOMAIN sub_fds'[r] : sub_fds'[r][j] = f => j = i
      BY <2>5, <3>1, <3>3, Zenon
    <3> QED
      BY <1>2, <3>1, <3>2, <3>4, ZenonT(60)
  <2>4. CASE r = room[t] /\ i = Len(s) + 1 /\ f = wfd[t]
    <3>1. owner[f] = t
      BY <2>4, Zenon DEF OwnerOK
    <3>3. \A j \in DOMAIN sub_fds'[r] : sub_fds'[r][j] = f => j = i
      BY <2>5, <2>2, <2>4, Zenon
    <3> QED
      BY <1>2, <1>3, <2>4, <3>1, <3>3, ZenonT(60)
  <2> QED
    BY <2>3, <2>4, <2>5, ZenonT(60)
<1> QED
  BY <1>4, <1>5, Zenon DEF WithFd

(* The entries that remain are the other sessions', each still once. *)
LEMMA UnsubscribeStep ==
    ASSUME TypeOK, ControlOK, OwnerOK, SubscribersLive,
           NEW t \in Thread, Unsubscribe(t)
    PROVE  SubscribersLive'
<1> DEFINE s == sub_fds[room[t]]
<1>1. room[t] \in Room
  BY Zenon DEF Unsubscribe, At, ControlOK
<1>0. s \in Seq(Fd \cup {NoFd})
  BY <1>1, Zenon DEF TypeOK, SharedType, SessionType
<1>2. UNCHANGED <<owner, wfd, room, kind>>
      /\ \A u \in Thread : u # t /\ Subscribed(u) => Subscribed(u)'
  BY Zenon DEF Unsubscribe, Goto, Subscribed, TypeOK, SharedType, SessionType
<1>3. /\ DOMAIN sub_fds' = Room
      /\ \A r \in Room : r # room[t] => sub_fds'[r] = sub_fds[r]
      /\ sub_fds'[room[t]] = WithoutFd(s, wfd[t])
  BY <1>1, Zenon DEF Unsubscribe, TypeOK, SharedType, SessionType
<1>4. PICK g : Origin(g, WithoutFd(s, wfd[t]), s, wfd[t])
  BY <1>0, WithoutFdOrigin, Zenon
<1> SUFFICES ASSUME NEW r \in Room, NEW i \in DOMAIN sub_fds'[r],
                    NEW f, f = sub_fds'[r][i], f # NoFd
             PROVE  /\ \A j \in DOMAIN sub_fds'[r] : sub_fds'[r][j] = f => j = i
                    /\ \E u \in Thread : /\ owner'[f] = u /\ wfd'[u] = f
                                         /\ room'[u] = r /\ Subscribed(u)'
  BY BusAssumption DEF SubscribersLive, Subscribed
<1> HIDE DEF s
<1>5. ASSUME NEW m \in DOMAIN sub_fds[r], sub_fds[r][m] = f
      PROVE  /\ owner[f] \in Thread /\ wfd[owner[f]] = f /\ room[owner[f]] = r
             /\ Subscribed(owner[f])
             /\ \A j \in DOMAIN sub_fds[r] : sub_fds[r][j] = f => j = m
  <2>1. /\ owner[f] # None /\ wfd[owner[f]] = f /\ room[owner[f]] = r
        /\ Subscribed(owner[f])
        /\ \A j \in DOMAIN sub_fds[r] : sub_fds[r][j] = f => j = m
    BY <1>5, SMT, SMTT(60) DEF SubscribersLive
  <2>2. owner[f] \in Thread
    BY <1>5, <2>1, SMT, SMTT(60) DEF TypeOK, SharedType, SessionType
  <2> QED
    BY <2>1, <2>2, ZenonT(60)
<1>6. CASE r # room[t]
  <2>1. sub_fds'[r] = sub_fds[r]
    BY <1>3, <1>6, Zenon
  <2>2. i \in DOMAIN sub_fds[r] /\ sub_fds[r][i] = f
    BY <2>1, Zenon
  <2>3. owner[f] # t
    BY <1>5, <1>6, <2>2, Zenon
  <2> QED
    BY <1>2, <1>5, <2>1, <2>2, <2>3, Zenon
<1>7. CASE r = room[t]
  <2>1. sub_fds[r] = s /\ sub_fds'[r] = WithoutFd(s, wfd[t])
    BY <1>3, <1>7, Zenon DEF s
  <2>2. \A j \in DOMAIN sub_fds'[r] : g[j] \in DOMAIN s /\ sub_fds'[r][j] = s[g[j]]
    BY <1>4, <2>1, ZenonT(60) DEF Origin
  <2>3. /\ owner[f] \in Thread /\ wfd[owner[f]] = f /\ room[owner[f]] = r
        /\ Subscribed(owner[f])
        /\ \A j \in DOMAIN s : s[j] = f => j = g[i]
    BY <1>5, <2>1, <2>2, Zenon
  <2>4. owner[f] # t
    <3> SUFFICES ASSUME f = wfd[t] PROVE FALSE
      BY <2>3, Zenon
    <3>1. \E j \in DOMAIN s : s[j] = wfd[t]
      BY <2>2, Zenon
    <3>2. /\ FirstAt(s, wfd[t]) \in DOMAIN s /\ s[FirstAt(s, wfd[t])] = wfd[t]
          /\ \A j \in DOMAIN WithoutFd(s, wfd[t]) : g[j] # FirstAt(s, wfd[t])
      BY <1>4, <3>1, Zenon DEF Origin
    <3> QED
      BY <2>1, <2>3, <3>2, Zenon
  <2>5. \A j \in DOMAIN sub_fds'[r] : sub_fds'[r][j] = f => j = i
    <3>1. \A j, l \in DOMAIN sub_fds'[r] : g[j] = g[l] => j = l
      BY <1>4, <2>1, Zenon DEF Origin
    <3>2. ASSUME NEW j \in DOMAIN sub_fds'[r], sub_fds'[r][j] = f
          PROVE  j = i
      <4>1. g[j] \in DOMAIN s /\ s[g[j]] = f
        BY <2>2, <3>2, Zenon
      <4>2. g[j] = g[i]
        BY <2>3, <4>1, Zenon
      <4> QED
        BY <3>1, <4>2, Zenon
    <3> QED
      BY <3>2, Zenon
  <2> QED
    BY <1>2, <2>3, <2>4, <2>5, Zenon
<1> QED
  BY <1>6, <1>7, Zenon

(* Apart from subscriptions and unsubscriptions, no step touches a list or *)
(* the visitors it names.                                                  *)
LEMMA QuietLists ==
    ASSUME TypeOK, ControlOK, OwnerOK, [Next]_vars
    PROVE  \/ SubscribersStay /\ NoNewVisitor
           \/ \E t \in Thread : Subscribe(t) \/ Unsubscribe(t)
<1> USE DEF TypeOK, SessionType, Subscribed, ControlOK, TelnetPCs, SsePCs, RestPCs
<1>1. ASSUME NEW t \in Thread, OpenTelnet(t)
      PROVE  SubscribersStay /\ NoNewVisitor
  <2>1. UNCHANGED <<sub_fds, room>> /\ \A u \in Thread : Subscribed(u) => u # t
    BY <1>1, Zenon DEF OpenTelnet, At
  <2>2. \A u \in Thread : u # t /\ Subscribed(u) => Subscribed(u)'
    BY <1>1, Zenon DEF OpenTelnet, Goto
  <2>3. /\ \A u \in Thread : u # t => wfd'[u] = wfd[u]
        /\ \A f \in Fd : owner[f] # None => owner'[f] = owner[f]
    BY <1>1, OpenPipeKeeps, Zenon DEF OpenTelnet
  <2>4. SubscribersStay
    BY <2>1, <2>2, <2>3, ZenonT(60) DEF SubscribersStay
  <2>5. NoNewVisitor
    BY <1>1, Zenon DEF NoNewVisitor, OpenTelnet, Goto
  <2> QED  BY <2>4, <2>5, Zenon
<1>2. ASSUME NEW t \in Thread, NEW k \in Serves[t] \ {"telnet"}, NEW r \in Room,
             OpenHttp(t, k, r)
      PROVE  SubscribersStay /\ NoNewVisitor
  <2>1. /\ UNCHANGED sub_fds
        /\ \A u \in Thread : u # t => room'[u] = room[u]
        /\ \A u \in Thread : Subscribed(u) => u # t
    BY <1>2, Zenon DEF OpenHttp, At
  <2>2. \A u \in Thread : u # t /\ Subscribed(u) => Subscribed(u)'
    BY <1>2, Zenon DEF OpenHttp, Goto
  <2>3. /\ \A u \in Thread : u # t => wfd'[u] = wfd[u]
        /\ \A f \in Fd : owner[f] # None => owner'[f] = owner[f]
    BY <1>2, OpenPipeKeeps, Zenon DEF OpenHttp
  <2>4. SubscribersStay
    BY <2>1, <2>2, <2>3, ZenonT(60) DEF SubscribersStay
  <2>5. NoNewVisitor
    BY <1>2, ZenonT(60) DEF NoNewVisitor, OpenHttp, Goto
  <2> QED  BY <2>4, <2>5, Zenon
<1>3. ASSUME NEW t \in Thread, Close(t)
      PROVE  SubscribersStay /\ NoNewVisitor
  <2>1. \A f \in Fd : f = wfd[t] => owner[f] = t
    BY BusAssumption, SMT, SMTT(60) DEF OwnerOK
  <2>2. SubscribersStay
    BY <1>3, <2>1, ZenonT(60) DEF SubscribersStay, Close, Goto, At
  <2>3. NoNewVisitor
    BY <1>3, ZenonT(60) DEF NoNewVisitor, Close, Goto
  <2> QED  BY <2>2, <2>3, Zenon
<1>4. ASSUME NEW t \in Thread, Clear(t)
      PROVE  SubscribersStay /\ NoNewVisitor
  <2>1. SubscribersStay
    BY <1>4, Zenon DEF SubscribersStay, Clear, Goto, At, shared
  <2>2. NoNewVisitor
    BY <1>4, Zenon DEF NoNewVisitor, Clear, Goto, At, shared
  <2> QED  BY <2>1, <2>2, Zenon
<1>5. ASSUME NEW t \in Thread, NEW r \in Room, EnterRoom(t, r)
      PROVE  SubscribersStay /\ NoNewVisitor
  <2>1. SubscribersStay
    BY <1>5, Zenon DEF SubscribersStay, EnterRoom, Goto, At, shared
  <2>2. NoNewVisitor
    BY <1>5, ZenonT(60) DEF NoNewVisitor, EnterRoom, Goto, At, shared
  <2> QED  BY <2>1, <2>2, Zenon
<1>6. ASSUME NEW t \in Thread, Hangup(t)
      PROVE  SubscribersStay /\ NoNewVisitor
  <2>1. SubscribersStay
    BY <1>6, Zenon DEF SubscribersStay, Hangup, Goto, At, shared
  <2>2. NoNewVisitor
    BY <1>6, ZenonT(60) DEF NoNewVisitor, Hangup, Goto, At, shared
  <2> QED  BY <2>1, <2>2, Zenon
<1>7. ASSUME NEW t \in Thread, PostInsert(t)
      PROVE  SubscribersStay /\ NoNewVisitor
  <2>1. kind[t] = "telnet" => pc'[t] \in {"lock", "refresh"}
    BY <1>7, Zenon DEF PostInsert, Goto, AfterPost
  <2>2. kind[t] # "sse" /\ \A u \in Thread : u # t => pc'[u] = pc[u]
    BY <1>7, Zenon DEF PostInsert, Goto, At
  <2>3. UNCHANGED <<sub_fds, room, wfd, owner, kind>>
    BY <1>7, Zenon DEF PostInsert
  <2>4. SubscribersStay
    BY <2>1, <2>2, <2>3, ZenonT(60) DEF SubscribersStay
  <2>5. NoNewVisitor
    BY <1>7, <2>2, <2>3, ZenonT(60) DEF NoNewVisitor, PostInsert, At
  <2> QED  BY <2>4, <2>5, Zenon
<1>8. ASSUME NEW t \in Thread, PostLock(t)
       PROVE  SubscribersStay /\ NoNewVisitor
  <2>1. SubscribersStay
    BY <1>8, Zenon DEF SubscribersStay, PostLock, Goto, At, shared
  <2>2. NoNewVisitor
    BY <1>8, ZenonT(60) DEF NoNewVisitor, PostLock, Goto, At, shared
  <2> QED  BY <2>1, <2>2, Zenon
<1>9. ASSUME NEW t \in Thread, PostWrite(t)
       PROVE  SubscribersStay /\ NoNewVisitor
  <2>1. SubscribersStay
    BY <1>9, Zenon DEF SubscribersStay, PostWrite, Goto, At, shared
  <2>2. NoNewVisitor
    BY <1>9, ZenonT(60) DEF NoNewVisitor, PostWrite, Goto, At, shared
  <2> QED  BY <2>1, <2>2, Zenon
<1>10. ASSUME NEW t \in Thread, PostUnlock(t)
       PROVE  SubscribersStay /\ NoNewVisitor
  <2>1. SubscribersStay
    BY <1>10, Zenon DEF SubscribersStay, PostUnlock, Goto, At, shared, AfterPost
  <2>2. NoNewVisitor
    BY <1>10, ZenonT(60) DEF NoNewVisitor, PostUnlock, Goto, At, shared, AfterPost
  <2> QED  BY <2>1, <2>2, Zenon
<1>11. ASSUME NEW t \in Thread,
              Render(t) \/ TelnetWake(t) \/ Refresh(t)
       PROVE  SubscribersStay /\ NoNewVisitor
  <2>1. SubscribersStay
    BY <1>11, Zenon DEF SubscribersStay, Render, TelnetWake, Refresh, Goto, At,
       shared
  <2>2. NoNewVisitor
    BY <1>11, ZenonT(60) DEF NoNewVisitor, Render, TelnetWake, Refresh, Goto, At,
       shared
  <2> QED  BY <2>1, <2>2, Zenon
<1>12. ASSUME NEW t \in Thread,
              KeyCompose(t) \/ KeyOlder(t) \/ KeyNewest(t) \/ KeyLeave(t)
       PROVE  SubscribersStay /\ NoNewVisitor
  <2>1. SubscribersStay
    BY <1>12, Zenon DEF SubscribersStay, KeyCompose, KeyOlder, KeyNewest, KeyLeave,
       Goto, At, shared, InRoomKey
  <2>2. NoNewVisitor
    BY <1>12, ZenonT(60) DEF NoNewVisitor, KeyCompose, KeyOlder, KeyNewest, KeyLeave,
       Goto, At, shared, InRoomKey
  <2> QED  BY <2>1, <2>2, Zenon
<1>13. ASSUME NEW t \in Thread,
              KeyCancel(t) \/ KeySend(t) \/ KeySendEmpty(t)
       PROVE  SubscribersStay /\ NoNewVisitor
  <2>1. SubscribersStay
    BY <1>13, Zenon DEF SubscribersStay, KeyCancel, KeySend, KeySendEmpty, Goto, At,
       shared, ComposeKey
  <2>2. NoNewVisitor
    BY <1>13, ZenonT(60) DEF NoNewVisitor, KeyCancel, KeySend, KeySendEmpty, Goto, At,
       shared, ComposeKey
  <2> QED  BY <2>1, <2>2, Zenon
<1>14. ASSUME NEW t \in Thread,
              SseTail(t) \/ SseJoin(t) \/ SseWake(t) \/ SseFetch(t)
              \/ SseSent(t)
       PROVE  SubscribersStay /\ NoNewVisitor
  <2>1. SubscribersStay
    BY <1>14, Zenon DEF SubscribersStay, SseTail, SseJoin, SseWake, SseFetch,
       SseSent, Goto, At, shared
  <2>2. NoNewVisitor
    BY <1>14, ZenonT(60) DEF NoNewVisitor, SseTail, SseJoin, SseWake, SseFetch,
       SseSent, Goto, At, shared
  <2> QED  BY <2>1, <2>2, Zenon
<1>15. ASSUME NEW t \in Thread,
              SseKeepalive(t) \/ SseSend(t)
       PROVE  SubscribersStay /\ NoNewVisitor
  <2>1. SubscribersStay
    BY <1>15, Zenon DEF SubscribersStay, SseKeepalive, SseSend, Goto, At, shared
  <2>2. NoNewVisitor
    BY <1>15, Zenon DEF NoNewVisitor, SseKeepalive, SseSend, Goto, At, shared
  <2> QED  BY <2>1, <2>2, Zenon
<1>16. CASE UNCHANGED vars
  BY <1>16, Zenon DEF SubscribersStay, NoNewVisitor, vars, shared
<1> QED
  BY <1>1, <1>2, <1>3, <1>4, <1>5, <1>6, <1>7, <1>8, <1>9, <1>10,
     <1>11, <1>12, <1>13, <1>14, <1>15, <1>16, Zenon DEF Next, UserStep, ThreadStep

(* Every step keeps the entries of all lists live. *)
LEMMA SubscribersStep ==
    ASSUME TypeOK, ControlOK, OwnerOK, SubscribersLive, [Next]_vars
    PROVE  SubscribersLive'
<1>1. CASE SubscribersStay
  BY <1>1, SubscribersKeep, Zenon
<1>2. ASSUME NEW t \in Thread, Subscribe(t)
      PROVE  SubscribersLive'
  BY <1>2, SubscribeStep, Zenon
<1>3. ASSUME NEW t \in Thread, Unsubscribe(t)
      PROVE  SubscribersLive'
  BY <1>3, UnsubscribeStep, Zenon
<1> QED  BY <1>1, <1>2, <1>3, QuietLists, Zenon

-----------------------------------------------------------------------------
(* Who is in a list *)

\* h gives each entry of room r's list a visitor of its own whose descriptor
\* it is.
Match(h, r) ==
    /\ h \in [DOMAIN sub_fds[r] -> Thread]
    /\ \A i, j \in DOMAIN sub_fds[r] : h[i] = h[j] => i = j
    /\ \A i \in DOMAIN sub_fds[r] :
          Subscribed(h[i]) /\ room[h[i]] = r /\ wfd[h[i]] = sub_fds[r][i]

\* No list has more entries than the room has visitors.
Matched == \A r \in Room : \E h : Match(h, r)

(* A step that leaves the lists and their visitors alone. *)
LEMMA MatchedKeep ==
    ASSUME Matched, SubscribersStay
    PROVE  Matched'
<1> SUFFICES ASSUME NEW r \in Room PROVE \E h : Match(h, r)'
  BY Zenon DEF Matched
<1>1. PICK h : Match(h, r)
  BY Zenon DEF Matched
<1>2. sub_fds' = sub_fds
  BY Zenon DEF SubscribersStay
<1>3. ASSUME NEW i \in DOMAIN sub_fds[r]
      PROVE  Subscribed(h[i])' /\ room'[h[i]] = r /\ wfd'[h[i]] = sub_fds[r][i]
  <2>1. h[i] \in Thread /\ Subscribed(h[i]) /\ room[h[i]] = r /\ wfd[h[i]] = sub_fds[r][i]
    BY <1>1, Zenon DEF Match
  <2>2. /\ Subscribed(h[i])' /\ room'[h[i]] = room[h[i]]
        /\ wfd'[h[i]] = wfd[h[i]]
    BY <2>1, Zenon DEF SubscribersStay
  <2> QED  BY <2>1, <2>2, Zenon
<1>4. Match(h, r)'
  BY <1>1, <1>2, <1>3, ZenonT(60) DEF Match
<1> QED  BY <1>4, Zenon

(* A list is no longer than its room has visitors: while they are fewer    *)
(* than the list has places, there is room for one more.                   *)
LEMMA RoomLeft ==
    ASSUME IsFiniteSet(Thread), TypeOK, Matched, NEW r \in Room,
           ~(Cardinality(Visitors(r)) >= MaxSubs)
    PROVE  Len(sub_fds[r]) < MaxSubs
<1> DEFINE s == sub_fds[r]
           T == Visitors(r)
<1>1. PICK h : Match(h, r)
  BY Zenon DEF Matched
<1>2. s \in Seq(Fd \cup {NoFd})
  BY ZenonT(60) DEF TypeOK, SharedType
<1>3. Len(s) \in Nat /\ DOMAIN s = 1 .. Len(s)
  BY <1>2, SMT, SMTT(60)
<1>4. h \in [1 .. Len(s) -> T]
  <2>1. h \in [1 .. Len(s) -> Thread]
    BY <1>1, <1>3, Zenon DEF Match
  <2>2. ASSUME NEW i \in 1 .. Len(s) PROVE h[i] \in T
    <3>1. h[i] \in Thread /\ Subscribed(h[i]) /\ room[h[i]] = r
      BY <1>1, <1>3, ZenonT(60) DEF Match
    <3> QED  BY <3>1, Zenon DEF Visitors
  <2> HIDE DEF T
  <2> QED  BY <2>1, <2>2, SMT, SMTT(60)
<1>5. h \in Injection(1 .. Len(s), T)
  BY <1>1, <1>3, <1>4, Zenon DEF Match, Injection, IsInjective
<1>6. IsFiniteSet(1 .. Len(s)) /\ Cardinality(1 .. Len(s)) = Len(s)
  <2>1. 1 \in Int /\ Len(s) \in Int
    BY <1>3, SMT, SMTT(60)
  <2>2. /\ IsFiniteSet(1 .. Len(s))
        /\ Cardinality(1 .. Len(s)) = IF 1 > Len(s) THEN 0 ELSE Len(s) - 1 + 1
    BY <2>1, FS_Interval, Zenon
  <2> QED  BY <1>3, <2>2, SMT, SMTT(60)
<1>7. IsFiniteSet(T) /\ Cardinality(T) \in Nat
  <2>1. T \in SUBSET Thread
    BY Zenon DEF Visitors
  <2>2. IsFiniteSet(T)
    BY <2>1, FS_Subset, Zenon
  <2> QED  BY <2>2, FS_CardinalityType, Zenon
<1>8. Cardinality(1 .. Len(s)) <= Cardinality(T)
  BY <1>5, <1>6, <1>7, FS_Injection, Zenon
<1>9. ~(Cardinality(T) >= MaxSubs)
  BY Zenon
<1> HIDE DEF T
<1> QED  BY <1>3, <1>6, <1>7, <1>8, <1>9, BusAssumption, SMT, SMTT(60)

(* A new entry is its subscriber's. *)
LEMMA MatchedSubscribe ==
    ASSUME TypeOK, ControlOK, Matched, NEW t \in Thread, Subscribe(t)
    PROVE  Matched'
<1> DEFINE s == sub_fds[room[t]]
<1>1. room[t] \in Room /\ ~Subscribed(t) /\ kind[t] \in {"telnet", "sse"}
  BY Zenon DEF Subscribe, At, ControlOK, TypeOK, SessionType, Kinds, RestPCs, Subscribed
<1>2. /\ wfd' = wfd /\ room' = room /\ Subscribed(t)'
      /\ \A u \in Thread : Subscribed(u) => Subscribed(u)'
  <2>1. wfd' = wfd /\ room' = room /\ kind' = kind
    BY Zenon DEF Subscribe
  <2>2. Subscribed(t)'
    BY <1>1, Zenon DEF Subscribe, Goto, Subscribed, TypeOK, SessionType
  <2>3. \A u \in Thread : Subscribed(u) => Subscribed(u)'
    BY Zenon DEF Subscribe, At, Goto, Subscribed, TypeOK, SessionType
  <2> QED  BY <2>1, <2>2, <2>3, Zenon
<1>3. /\ s \in Seq(Fd \cup {NoFd}) /\ wfd[t] \in Fd \cup {NoFd}
      /\ \A r \in Room : sub_fds'[r] = IF r = room[t] THEN WithFd(s, wfd[t]) ELSE sub_fds[r]
  BY <1>1, Zenon DEF Subscribe, TypeOK, SharedType, SessionType
<1> SUFFICES ASSUME NEW r \in Room PROVE \E h : Match(h, r)'
  BY Zenon DEF Matched
<1>4. PICK h : Match(h, r)
  BY Zenon DEF Matched
<1>5. CASE sub_fds'[r] = sub_fds[r]
  <2>1. ASSUME NEW i \in DOMAIN sub_fds[r]
        PROVE  Subscribed(h[i])' /\ room'[h[i]] = r /\ wfd'[h[i]] = sub_fds[r][i]
    BY <1>2, <1>4, Zenon DEF Match
  <2>2. Match(h, r)'
    BY <1>4, <1>5, <2>1, ZenonT(60) DEF Match
  <2> QED  BY <2>2, Zenon
<1>6. CASE r = room[t] /\ sub_fds'[r] = Append(s, wfd[t])
  <2>0. PICK n, w, e : /\ n = Len(s) /\ w = Append(s, wfd[t])
                       /\ e = [i \in 1 .. (n + 1) |-> IF i = n + 1 THEN t ELSE h[i]]
    BY ZenonT(60)
  <2>1. /\ n \in Nat /\ DOMAIN s = 1 .. n /\ DOMAIN w = 1 .. (n + 1)
        /\ w[n + 1] = wfd[t] /\ \A i \in 1 .. n : w[i] = s[i]
    BY <1>3, <2>0, SMT, SMTT(60)
  <2>2. \A i \in 1 .. (n + 1) : i = n + 1 \/ i \in 1 .. n
    BY <2>1, SMT, SMTT(60)
  <2>3. \A i \in 1 .. (n + 1) : e[i] = IF i = n + 1 THEN t ELSE h[i]
    BY <2>0, ZenonT(60)
  <2>4. DOMAIN e = 1 .. (n + 1) /\ n + 1 \notin 1 .. n
    BY <2>0, <2>1, SMT, SMTT(60)
  <2>9. e = [i \in 1 .. (n + 1) |-> e[i]]
    BY <2>0, ZenonT(60)
  <2> HIDE DEF s
  <2>5. \A i \in 1 .. n : /\ h[i] \in Thread /\ h[i] # t /\ Subscribed(h[i])
                          /\ room[h[i]] = r /\ wfd[h[i]] = s[i]
    <3>1. \A i \in 1 .. n : /\ h[i] \in Thread /\ Subscribed(h[i])
                            /\ room[h[i]] = r /\ wfd[h[i]] = s[i]
      <4>1. s = sub_fds[r] /\ DOMAIN sub_fds[r] = 1 .. n
        BY <1>6, <2>1, Zenon DEF s
      <4> QED  BY <1>4, <4>1, Zenon DEF Match
    <3> QED  BY <1>1, <3>1, SMT, SMT, SMTT(60)
  <2>6. ASSUME NEW i \in 1 .. (n + 1)
        PROVE  e[i] \in Thread /\ Subscribed(e[i])' /\ room'[e[i]] = r /\ wfd'[e[i]] = w[i]
    <3>1. CASE i = n + 1
      <4>1. e[i] = t
        BY <2>3, <3>1, Zenon
      <4>2. Subscribed(e[i])'
        BY <1>2, <4>1, ZenonT(60)
      <4>3. e[i] \in Thread /\ room'[e[i]] = r /\ wfd'[e[i]] = w[i]
        BY <1>2, <1>6, <2>1, <3>1, <4>1, SMT, SMT, SMTT(60)
      <4> QED  BY <4>2, <4>3, Zenon
    <3>2. CASE i # n + 1
      <4>1. e[i] = h[i] /\ i \in 1 .. n
        BY <2>2, <2>3, <3>2, Zenon
      <4>2. /\ h[i] \in Thread /\ Subscribed(h[i])' /\ room'[h[i]] = r /\ wfd'[h[i]] = w[i]
        BY <1>2, <2>1, <2>5, <4>1, Zenon
      <4> QED  BY <4>1, <4>2, Zenon
    <3> QED  BY <3>1, <3>2, Zenon
  <2>7. ASSUME NEW i \in 1 .. (n + 1), NEW j \in 1 .. (n + 1), e[i] = e[j]
        PROVE  i = j
    <3>1. CASE i = n + 1 \/ j = n + 1
      BY <2>2, <2>3, <2>5, <2>7, <3>1, ZenonT(60)
    <3>2. CASE i # n + 1 /\ j # n + 1
      <4>1. i \in 1 .. n /\ j \in 1 .. n /\ h[i] = h[j]
        BY <2>2, <2>3, <2>7, <3>2, ZenonT(60)
      <4> QED  BY <1>4, <1>6, <2>1, <4>1, ZenonT(60) DEF Match, s
    <3> QED  BY <3>1, <3>2, Zenon
  <2>8. e \in [1 .. (n + 1) -> Thread]
    BY <2>6, <2>9, Zenon
  <2>10. sub_fds'[r] = w /\ DOMAIN sub_fds'[r] = 1 .. (n + 1)
    BY <1>6, <2>0, <2>1, ZenonT(60)
  <2>11. Match(e, r)'
    <3>1. e \in [DOMAIN sub_fds'[r] -> Thread]
      BY <2>8, <2>10, Zenon
    <3>2. \A i, j \in DOMAIN sub_fds'[r] : e[i] = e[j] => i = j
      BY <2>7, <2>10, Zenon
    <3>3. \A i \in DOMAIN sub_fds'[r] :
             Subscribed(e[i])' /\ room'[e[i]] = r /\ wfd'[e[i]] = sub_fds'[r][i]
      BY <2>6, <2>10, Zenon
    <3> QED  BY <3>1, <3>2, <3>3, Zenon DEF Match
  <2> QED  BY <2>11, Zenon
<1> QED  BY <1>3, <1>5, <1>6, Zenon DEF WithFd

(* What an unsubscription leaves is still matched: the entry it takes may  *)
(* be another one with the same descriptor value, whose visitor then takes *)
(* over the entry that the leaving thread was matched with.                *)
LEMMA MatchedUnsubscribe ==
    ASSUME TypeOK, ControlOK, Matched, NEW t \in Thread, Unsubscribe(t)
    PROVE  Matched'
<1>1. room[t] \in Room
  BY Zenon DEF Unsubscribe, At, ControlOK
<1>2. /\ wfd' = wfd /\ room' = room
      /\ \A u \in Thread : u # t /\ Subscribed(u) => Subscribed(u)'
  BY Zenon DEF Unsubscribe, Goto, Subscribed, TypeOK, SessionType
<1>3. /\ sub_fds[room[t]] \in Seq(Fd \cup {NoFd})
      /\ \A r \in Room : r # room[t] => sub_fds'[r] = sub_fds[r]
      /\ sub_fds'[room[t]] = WithoutFd(sub_fds[room[t]], wfd[t])
  BY <1>1, ZenonT(60) DEF Unsubscribe, TypeOK, SharedType
<1> SUFFICES ASSUME NEW r \in Room PROVE \E h : Match(h, r)'
  BY Zenon DEF Matched
<1>4. PICK h : Match(h, r)
  BY Zenon DEF Matched
<1>5. \A i \in DOMAIN sub_fds[r] : /\ h[i] \in Thread /\ Subscribed(h[i])
                                   /\ room[h[i]] = r /\ wfd[h[i]] = sub_fds[r][i]
  BY <1>4, Zenon DEF Match
<1>6. CASE r # room[t]
  <2>1. ASSUME NEW i \in DOMAIN sub_fds[r]
        PROVE  Subscribed(h[i])' /\ room'[h[i]] = r /\ wfd'[h[i]] = sub_fds[r][i]
    <3>1. h[i] # t
      BY <1>5, <1>6, Zenon
    <3> QED  BY <1>2, <1>5, <3>1, Zenon
  <2>2. Match(h, r)'
    BY <1>3, <1>4, <1>6, <2>1, Zenon DEF Match
  <2> QED  BY <2>2, Zenon
<1>7. CASE r = room[t]
  <2>1. PICK s, w, f : /\ s = sub_fds[r] /\ f = wfd[t] /\ w = WithoutFd(s, f)
    BY Zenon
  <2>2. s \in Seq(Fd \cup {NoFd}) /\ sub_fds'[r] = w
    BY <1>3, <1>7, <2>1, Zenon
  <2>3. PICK g : Origin(g, w, s, f)
    BY <2>1, <2>2, WithoutFdOrigin, Zenon
  <2>4. PICK e : e = [i \in DOMAIN w |-> IF h[g[i]] = t THEN h[FirstAt(s, f)] ELSE h[g[i]]]
    BY Zenon
  <2>5. \A i \in DOMAIN w : e[i] = IF h[g[i]] = t THEN h[FirstAt(s, f)] ELSE h[g[i]]
    BY <2>4, Zenon
  <2>6. \A i \in DOMAIN s : /\ h[i] \in Thread /\ Subscribed(h[i])
                            /\ room[h[i]] = r /\ wfd[h[i]] = s[i]
    BY <1>5, <2>1, Zenon
  <2>7. \A i, j \in DOMAIN s : h[i] = h[j] => i = j
    BY <1>4, <2>1, Zenon DEF Match
  <2>8. ASSUME NEW i \in DOMAIN w, h[g[i]] = t
        PROVE  /\ e[i] = h[FirstAt(s, f)] /\ FirstAt(s, f) \in DOMAIN s
               /\ e[i] # t /\ w[i] = s[FirstAt(s, f)]
               /\ \A j \in DOMAIN w : g[j] # FirstAt(s, f)
    <3>1. e[i] = h[FirstAt(s, f)]
      BY <2>5, <2>8, Zenon
    <3>2. g[i] \in DOMAIN s /\ s[g[i]] = f /\ w[i] = s[g[i]]
      <4>1. g[i] \in DOMAIN s /\ w[i] = s[g[i]]
        BY <2>3, Zenon DEF Origin
      <4> QED  BY <2>1, <2>6, <2>8, <4>1, Zenon
    <3>3. /\ FirstAt(s, f) \in DOMAIN s /\ s[FirstAt(s, f)] = f
          /\ \A j \in DOMAIN w : g[j] # FirstAt(s, f)
      BY <2>3, <3>2, Zenon DEF Origin
    <3>4. h[FirstAt(s, f)] # t
      BY <2>7, <2>8, <3>2, <3>3, Zenon
    <3> QED  BY <3>1, <3>2, <3>3, <3>4, Zenon
  <2>9. ASSUME NEW i \in DOMAIN w
        PROVE  \E m \in DOMAIN s : e[i] = h[m] /\ h[m] # t /\ w[i] = s[m]
    <3>1. g[i] \in DOMAIN s /\ w[i] = s[g[i]]
      BY <2>3, Zenon DEF Origin
    <3>2. CASE h[g[i]] = t
      BY <2>8, <3>2, Zenon
    <3>3. CASE h[g[i]] # t
      BY <2>5, <3>1, <3>3, Zenon
    <3> QED  BY <3>2, <3>3, Zenon
  <2>10. ASSUME NEW i \in DOMAIN w
         PROVE  e[i] \in Thread /\ Subscribed(e[i])' /\ room'[e[i]] = r /\ wfd'[e[i]] = w[i]
    <3>1. PICK m \in DOMAIN s : e[i] = h[m] /\ h[m] # t /\ w[i] = s[m]
      BY <2>9, Zenon
    <3>2. h[m] \in Thread /\ Subscribed(h[m])' /\ room'[h[m]] = r /\ wfd'[h[m]] = s[m]
      BY <1>2, <2>6, <3>1, Zenon
    <3> QED  BY <3>1, <3>2, Zenon
  <2>11. ASSUME NEW i \in DOMAIN w, NEW j \in DOMAIN w, e[i] = e[j]
         PROVE  i = j
    <3>1. g[i] \in DOMAIN s /\ g[j] \in DOMAIN s /\ (g[i] = g[j] => i = j)
      BY <2>3, Zenon DEF Origin
    <3>2. CASE h[g[i]] = t /\ h[g[j]] = t
      BY <2>7, <3>1, <3>2, Zenon
    <3>3. CASE h[g[i]] # t /\ h[g[j]] # t
      <4>1. e[i] = h[g[i]] /\ e[j] = h[g[j]]
        BY <2>5, <3>3, Zenon
      <4> QED  BY <2>7, <2>11, <3>1, <4>1, Zenon
    <3>4. CASE h[g[i]] = t /\ h[g[j]] # t
      <4>1. e[j] = h[g[j]]
        BY <2>5, <3>4, Zenon
      <4> QED  BY <2>7, <2>8, <2>11, <3>1, <3>4, <4>1, ZenonT(60)
    <3>5. CASE h[g[i]] # t /\ h[g[j]] = t
      <4>1. e[i] = h[g[i]]
        BY <2>5, <3>5, Zenon
      <4> QED  BY <2>7, <2>8, <2>11, <3>1, <3>5, <4>1, ZenonT(60)
    <3> QED  BY <3>2, <3>3, <3>4, <3>5, Zenon
  <2>12. e \in [DOMAIN w -> Thread]
    <3>1. e = [i \in DOMAIN w |-> e[i]]
      BY <2>4, ZenonT(60)
    <3> QED  BY <2>10, <3>1, Zenon
  <2>13. Match(e, r)'
    <3>1. e \in [DOMAIN sub_fds'[r] -> Thread]
      BY <2>2, <2>12, Zenon
    <3>2. \A i, j \in DOMAIN sub_fds'[r] : e[i] = e[j] => i = j
      BY <2>2, <2>11, Zenon
    <3>3. \A i \in DOMAIN sub_fds'[r] :
             Subscribed(e[i])' /\ room'[e[i]] = r /\ wfd'[e[i]] = sub_fds'[r][i]
      BY <2>2, <2>10, Zenon
    <3> QED  BY <3>1, <3>2, <3>3, Zenon DEF Match
  <2> QED  BY <2>13, Zenon
<1> QED  BY <1>6, <1>7, Zenon

(* No step leaves an entry without a visitor of its own. *)
LEMMA MatchedStep ==
    ASSUME TypeOK, ControlOK, OwnerOK, Matched, [Next]_vars
    PROVE  Matched'
<1>1. CASE SubscribersStay
  BY <1>1, MatchedKeep, Zenon
<1>2. ASSUME NEW t \in Thread, Subscribe(t) PROVE Matched'
  BY <1>2, MatchedSubscribe, Zenon
<1>3. ASSUME NEW t \in Thread, Unsubscribe(t) PROVE Matched'
  BY <1>3, MatchedUnsubscribe, Zenon
<1> QED  BY <1>1, <1>2, <1>3, QuietLists, Zenon

(* A visitor with a pipe that does not come to a crowd gets an entry and   *)
(* keeps it until it leaves.                                               *)
LEMMA ListedStep ==
    ASSUME IsFiniteSet(Thread),
           TypeOK, ControlOK, OwnerOK, Matched, VisitorListed, [VisitNext]_visitVars
    PROVE  VisitorListed'
<1> SUFFICES ASSUME NEW u \in Thread, Subscribed(u)', wfd'[u] # NoFd, u \notin crowded'
             PROVE  \E i \in DOMAIN sub_fds'[room'[u]] : sub_fds'[room'[u]][i] = wfd'[u]
  BY Zenon DEF VisitorListed, Listed
<1>0. /\ [Next]_vars
      /\ Subscribed(u) => u \notin crowded
      /\ ~Subscribed(u) => ~(Cardinality(Visitors(room'[u])) >= MaxSubs)
  <2>1. CASE VisitNext
    BY <2>1, Zenon DEF VisitNext
  <2>2. CASE UNCHANGED visitVars
    <3>1. UNCHANGED vars /\ crowded' = crowded
      BY <2>2, Zenon DEF visitVars
    <3>2. Subscribed(u)
      BY <3>1, Zenon DEF vars, Subscribed
    <3> QED  BY <3>1, <3>2, Zenon
  <2> QED  BY <2>1, <2>2, Zenon
<1>1. CASE SubscribersStay /\ NoNewVisitor
  <2>1. Subscribed(u)
    BY <1>1, Zenon DEF NoNewVisitor
  <2>2. wfd'[u] = wfd[u] /\ room'[u] = room[u] /\ sub_fds' = sub_fds
    BY <1>1, <2>1, Zenon DEF SubscribersStay
  <2>3. Listed(u)
    BY <1>0, <2>1, <2>2, Zenon DEF VisitorListed
  <2> QED  BY <2>2, <2>3, Zenon DEF Listed
<1>2. ASSUME NEW t \in Thread, Subscribe(t)
      PROVE  \E i \in DOMAIN sub_fds'[room'[u]] : sub_fds'[room'[u]][i] = wfd'[u]
  <2>1. room[t] \in Room /\ ~Subscribed(t)
    BY <1>2, Zenon DEF Subscribe, At, ControlOK, Subscribed
  <2>2. wfd' = wfd /\ room' = room /\ (u # t => Subscribed(u))
    BY <1>2, Zenon DEF Subscribe, Goto, Subscribed, TypeOK, SessionType
  <2>3. PICK s : s = sub_fds[room[t]]
    BY Zenon
  <2>4. s \in Seq(Fd \cup {NoFd})
    BY <2>1, <2>3, ZenonT(60) DEF TypeOK, SharedType
  <2>5. /\ \A r \in Room : r # room[t] => sub_fds'[r] = sub_fds[r]
        /\ sub_fds'[room[t]] = WithFd(s, wfd[t])
    BY <1>2, <2>1, <2>3, ZenonT(60) DEF Subscribe, TypeOK, SharedType
  <2>6. sub_fds'[room[t]] = s \/ sub_fds'[room[t]] = Append(s, wfd[t])
    BY <2>5, Zenon DEF WithFd
  <2>7. \E i \in DOMAIN Append(s, wfd[t]) : Append(s, wfd[t])[i] = wfd[t]
    <3>1. Len(s) + 1 \in DOMAIN Append(s, wfd[t]) /\ Append(s, wfd[t])[Len(s) + 1] = wfd[t]
      BY <2>4, SMT, SMTT(60)
    <3> QED  BY <3>1, Zenon
  <2>8. \A i \in DOMAIN s : i \in DOMAIN Append(s, wfd[t]) /\ Append(s, wfd[t])[i] = s[i]
    BY <2>4, SMT, SMTT(60)
  <2>9. CASE u = t
    <3>1. Len(s) < MaxSubs
      BY <1>0, <2>1, <2>2, <2>3, <2>9, RoomLeft, Zenon
    <3>2. sub_fds'[room[t]] = Append(s, wfd[t])
      BY <2>5, <3>1, Zenon DEF WithFd
    <3> QED  BY <2>2, <2>7, <2>9, <3>2, Zenon
  <2>10. CASE u # t
    <3>1. Subscribed(u) /\ Listed(u)
      BY <1>0, <2>2, <2>10, Zenon DEF VisitorListed
    <3>2. PICK i \in DOMAIN sub_fds[room[u]] : sub_fds[room[u]][i] = wfd[u]
      BY <3>1, Zenon DEF Listed
    <3>3. room[u] \in Room
      BY <3>1, Zenon DEF Subscribed, ControlOK
    <3>4. CASE room[u] # room[t]
      BY <2>2, <2>5, <3>2, <3>3, <3>4, Zenon
    <3>5. CASE room[u] = room[t]
      <4>1. i \in DOMAIN s /\ s[i] = wfd[u]
        BY <2>3, <3>2, <3>5, Zenon
      <4>2. i \in DOMAIN Append(s, wfd[t]) /\ Append(s, wfd[t])[i] = wfd[u]
        BY <2>8, <4>1, ZenonT(60)
      <4>3. \E j \in DOMAIN sub_fds'[room[t]] : sub_fds'[room[t]][j] = wfd[u]
        BY <2>6, <4>1, <4>2, ZenonT(60)
      <4> QED  BY <2>2, <3>5, <4>3, ZenonT(60)
    <3> QED  BY <3>4, <3>5, Zenon
  <2> QED  BY <2>9, <2>10, Zenon
<1>3. ASSUME NEW t \in Thread, Unsubscribe(t)
      PROVE  \E i \in DOMAIN sub_fds'[room'[u]] : sub_fds'[room'[u]][i] = wfd'[u]
  <2>1. room[t] \in Room
    BY <1>3, Zenon DEF Unsubscribe, At, ControlOK
  <2>2. wfd' = wfd /\ room' = room /\ u # t /\ Subscribed(u)
    BY <1>3, Zenon DEF Unsubscribe, Goto, Subscribed, TypeOK, SessionType
  <2>3. PICK s, w, f : s = sub_fds[room[t]] /\ f = wfd[t] /\ w = WithoutFd(s, f)
    BY Zenon
  <2>4. /\ s \in Seq(Fd \cup {NoFd}) /\ sub_fds'[room[t]] = w
        /\ \A r \in Room : r # room[t] => sub_fds'[r] = sub_fds[r]
    BY <1>3, <2>1, <2>3, ZenonT(60) DEF Unsubscribe, TypeOK, SharedType
  <2>5. Listed(u) /\ wfd[u] # NoFd
    BY <1>0, <2>2, Zenon DEF VisitorListed
  <2>6. PICK i \in DOMAIN sub_fds[room[u]] : sub_fds[room[u]][i] = wfd[u]
    BY <2>5, Zenon DEF Listed
  <2>7. room[u] \in Room
    BY <2>2, Zenon DEF Subscribed, ControlOK
  <2>8. CASE room[u] # room[t]
    BY <2>2, <2>4, <2>6, <2>7, <2>8, ZenonT(60)
  <2>9. CASE room[u] = room[t]
    <3>1. i \in DOMAIN s /\ s[i] = wfd[u]
      BY <2>3, <2>6, <2>9, ZenonT(60)
    <3>2. wfd[u] # f
      BY <2>2, <2>3, <2>5, ZenonT(60) DEF OwnerOK
    <3>3. PICK g : Origin(g, w, s, f)
      BY <2>3, <2>4, WithoutFdOrigin, ZenonT(60)
    <3>4. PICK j \in DOMAIN w : g[j] = i
      BY <3>1, <3>2, <3>3, ZenonT(60) DEF Origin
    <3>5. w[j] = wfd[u]
      BY <3>1, <3>3, <3>4, ZenonT(60) DEF Origin
    <3> QED  BY <2>2, <2>4, <2>9, <3>4, <3>5, ZenonT(60)
  <2> QED  BY <2>8, <2>9, Zenon
<1> QED  BY <1>0, <1>1, <1>2, <1>3, QuietLists, Zenon

-----------------------------------------------------------------------------
(* Who has a row in the presence table *)

\* The rows are those of the named threads between the two calls, but for
\* the threads that a namesake has robbed.
RowsOK ==
    /\ \A t \in Thread :
          HasRow(t) /\ UserOf[t] # None
              => <<room[t], UserOf[t]>> \in presence \/ t \in robbed
    /\ \A row \in presence : \E t \in Thread :
          HasRow(t) /\ UserOf[t] # None /\ UserOf[t] = row[2] /\ room[t] = row[1]

\* A step that changes nothing of this for a thread.
KeepsRow(u) == (HasRow(u)' <=> HasRow(u)) /\ (HasRow(u) => room'[u] = room[u])
RowsStay == UNCHANGED presence /\ \A u \in Thread : KeepsRow(u)

\* Thread t writes its row, or writes it again.
RowSet(t) ==
    /\ MarkPresent(t)
    /\ HasRow(t)' /\ (HasRow(t) => room'[t] = room[t])
    /\ \A u \in Thread : u # t => KeepsRow(u)

\* Thread t deletes its row.
RowCleared(t) ==
    /\ MarkAbsent(t)
    /\ ~HasRow(t)' /\ pc[t] = "clear" /\ pc'[t] # "clear"
    /\ \A u \in Thread : u # t => KeepsRow(u)

(* What the steps of a session do to its own row: chat.c and http_chat.c   *)
(* write it on entering a room or a stream, again after a post and on a    *)
(* keep-alive, and delete it when the visit ends.                          *)
LEMMA RowSteps ==
    ASSUME TypeOK, ControlOK, [Next]_vars
    PROVE  RowsStay \/ \E t \in Thread : RowSet(t) \/ RowCleared(t)
<1> USE DEF TypeOK, SessionType, HasRow, ControlOK, TelnetPCs, SsePCs, RestPCs
<1>1. ASSUME NEW t \in Thread, OpenTelnet(t) PROVE RowsStay
  BY <1>1, Zenon DEF RowsStay, KeepsRow, OpenTelnet, Goto, At
<1>2. ASSUME NEW t \in Thread, NEW k \in Serves[t] \ {"telnet"}, NEW r \in Room,
             OpenHttp(t, k, r)
      PROVE  RowsStay
  BY <1>2, ZenonT(60) DEF RowsStay, KeepsRow, OpenHttp, Goto, At
<1>3. ASSUME NEW t \in Thread, Close(t) PROVE RowsStay
  BY <1>3, ZenonT(60) DEF RowsStay, KeepsRow, Close, Goto, At
<1>4. ASSUME NEW t \in Thread, Clear(t) PROVE RowCleared(t)
  BY <1>4, Zenon DEF RowCleared, KeepsRow, Clear, Goto, At
<1>5. ASSUME NEW t \in Thread, NEW r \in Room, EnterRoom(t, r) PROVE RowSet(t)
  <2>1. kind[t] = "telnet" /\ kind' = kind
    BY <1>5, Zenon DEF EnterRoom, At, Kinds
  <2>2. MarkPresent(t) /\ (HasRow(t) => room'[t] = room[t])
    BY <1>5, Zenon DEF EnterRoom, At
  <2>3. HasRow(t)'
    <3>1. pc'[t] \in {"render", "subscribe"}
      BY <1>5, Zenon DEF EnterRoom, Goto
    <3> QED  BY <2>1, <3>1, ZenonT(60)
  <2>4. \A u \in Thread : u # t => pc'[u] = pc[u] /\ room'[u] = room[u]
    BY <1>5, ZenonT(60) DEF EnterRoom, Goto
  <2> QED  BY <2>1, <2>2, <2>3, <2>4, ZenonT(60) DEF RowSet, KeepsRow
<1>6. ASSUME NEW t \in Thread, Hangup(t) PROVE RowsStay
  BY <1>6, ZenonT(60) DEF RowsStay, KeepsRow, Hangup, Goto, shared
<1>7. ASSUME NEW t \in Thread, PostInsert(t) PROVE RowsStay
  BY <1>7, ZenonT(60) DEF RowsStay, KeepsRow, PostInsert, AfterPost, Goto, At
<1>8. ASSUME NEW t \in Thread, PostLock(t) \/ PostWrite(t) PROVE RowsStay
  BY <1>8, ZenonT(60) DEF RowsStay, KeepsRow, PostLock, PostWrite, Goto, At
<1>9. ASSUME NEW t \in Thread, PostUnlock(t) PROVE RowsStay
  BY <1>9, ZenonT(60) DEF RowsStay, KeepsRow, PostUnlock, AfterPost, Goto, At
<1>10. ASSUME NEW t \in Thread, Render(t) \/ TelnetWake(t) PROVE RowsStay
  BY <1>10, ZenonT(60) DEF RowsStay, KeepsRow, Render, TelnetWake, Goto, At, shared
<1>11. ASSUME NEW t \in Thread, Refresh(t) PROVE RowSet(t)
  <2>1. kind[t] = "telnet" /\ kind' = kind
    BY <1>11, ZenonT(60) DEF Refresh, At, Kinds
  <2>2. MarkPresent(t) /\ (HasRow(t) => room'[t] = room[t])
    BY <1>11, ZenonT(60) DEF Refresh, At
  <2>3. HasRow(t)'
    <3>1. pc'[t] \in {"render"}
      BY <1>11, ZenonT(60) DEF Refresh, Goto
    <3> QED  BY <2>1, <3>1, ZenonT(60)
  <2>4. \A u \in Thread : u # t => pc'[u] = pc[u] /\ room'[u] = room[u]
    BY <1>11, ZenonT(60) DEF Refresh, Goto
  <2> QED  BY <2>1, <2>2, <2>3, <2>4, ZenonT(60) DEF RowSet, KeepsRow
<1>12. ASSUME NEW t \in Thread,
              KeyCompose(t) \/ KeyOlder(t) \/ KeyNewest(t) \/ KeyLeave(t)
       PROVE  RowsStay
  BY <1>12, ZenonT(60) DEF RowsStay, KeepsRow, KeyCompose, KeyOlder, KeyNewest, KeyLeave,
     Goto, At, shared, InRoomKey
<1>13. ASSUME NEW t \in Thread,
              KeyCancel(t) \/ KeySend(t) \/ KeySendEmpty(t)
       PROVE  RowsStay
  BY <1>13, ZenonT(60) DEF RowsStay, KeepsRow, KeyCancel, KeySend, KeySendEmpty, Goto, At,
     shared, ComposeKey
<1>14. ASSUME NEW t \in Thread, SseTail(t) \/ SseWake(t) \/ SseFetch(t)
       PROVE  RowsStay
  BY <1>14, ZenonT(60) DEF RowsStay, KeepsRow, SseTail, SseWake, SseFetch, Goto, At, shared
<1>15. ASSUME NEW t \in Thread, SseJoin(t) PROVE RowSet(t)
  <2>1. kind[t] = "sse" /\ kind' = kind
    BY <1>15, ZenonT(60) DEF SseJoin, At, Kinds
  <2>2. MarkPresent(t) /\ (HasRow(t) => room'[t] = room[t])
    BY <1>15, ZenonT(60) DEF SseJoin, At
  <2>3. HasRow(t)'
    <3>1. pc'[t] \in {"poll"}
      BY <1>15, ZenonT(60) DEF SseJoin, Goto
    <3> QED  BY <2>1, <3>1, ZenonT(60)
  <2>4. \A u \in Thread : u # t => pc'[u] = pc[u] /\ room'[u] = room[u]
    BY <1>15, ZenonT(60) DEF SseJoin, Goto
  <2> QED  BY <2>1, <2>2, <2>3, <2>4, ZenonT(60) DEF RowSet, KeepsRow
<1>16. ASSUME NEW t \in Thread, SseKeepalive(t) PROVE RowSet(t)
  BY <1>16, ZenonT(60) DEF RowSet, KeepsRow, SseKeepalive, Goto, At
<1>17. ASSUME NEW t \in Thread, SseSend(t) \/ SseSent(t) PROVE RowsStay
  BY <1>17, ZenonT(60) DEF RowsStay, KeepsRow, SseSend, SseSent, Goto, At, shared
<1>18. ASSUME NEW t \in Thread, Subscribe(t) PROVE RowsStay
  BY <1>18, Zenon DEF RowsStay, KeepsRow, Subscribe, Goto, At
<1>19. ASSUME NEW t \in Thread, Unsubscribe(t) PROVE RowsStay
  BY <1>19, ZenonT(60) DEF RowsStay, KeepsRow, Unsubscribe, Goto, At
<1>20. CASE UNCHANGED vars
  BY <1>20, Zenon DEF RowsStay, KeepsRow, vars, shared
<1> QED
  BY <1>1, <1>2, <1>3, <1>4, <1>5, <1>6, <1>7, <1>8, <1>9, <1>10, <1>11, <1>12,
     <1>13, <1>14, <1>15, <1>16, <1>17, <1>18, <1>19, <1>20, Zenon
     DEF Next, UserStep, ThreadStep

(* The rows stay exact: a row that another visitor still needs is deleted  *)
(* by a namesake or not at all.                                            *)
LEMMA RowsStep ==
    ASSUME TypeOK, ControlOK, RowsOK, [VisitNext]_visitVars
    PROVE  RowsOK'
<1>0. /\ [Next]_vars
      /\ \A t \in Thread :
            HasRow(t)' /\ (t \in robbed \/ \E u \in Thread : Robs(u, t)) =>
                <<room'[t], UserOf[t]>> \in presence' \/ t \in robbed'
  <2>1. CASE VisitNext
    BY <2>1, Zenon DEF VisitNext
  <2>2. CASE UNCHANGED visitVars
    <3>1. UNCHANGED vars /\ robbed' = robbed
      BY <2>2, Zenon DEF visitVars
    <3>2. pc' = pc
      BY <3>1, Zenon DEF vars
    <3> QED  BY <3>1, <3>2, Zenon DEF Robs
  <2> QED  BY <2>1, <2>2, Zenon
<1>1. CASE RowsStay
  <2>1. ASSUME NEW t \in Thread, HasRow(t)', UserOf[t] # None
        PROVE  <<room'[t], UserOf[t]>> \in presence' \/ t \in robbed'
    <3>1. HasRow(t) /\ room'[t] = room[t] /\ presence' = presence
      BY <1>1, <2>1, Zenon DEF RowsStay, KeepsRow
    <3>2. <<room[t], UserOf[t]>> \in presence \/ t \in robbed
      BY <2>1, <3>1, Zenon DEF RowsOK
    <3> QED  BY <1>0, <2>1, <3>1, <3>2, Zenon
  <2>2. ASSUME NEW row \in presence'
        PROVE  \E t \in Thread : HasRow(t)' /\ UserOf[t] # None
                                 /\ UserOf[t] = row[2] /\ room'[t] = row[1]
    <3>1. row \in presence
      BY <1>1, <2>2, Zenon DEF RowsStay
    <3>2. PICK t \in Thread : HasRow(t) /\ UserOf[t] # None
                              /\ UserOf[t] = row[2] /\ room[t] = row[1]
      BY <3>1, Zenon DEF RowsOK
    <3>3. HasRow(t)' /\ room'[t] = room[t]
      BY <1>1, <3>2, Zenon DEF RowsStay, KeepsRow
    <3> QED  BY <3>2, <3>3, Zenon
  <2> QED  BY <2>1, <2>2, Zenon DEF RowsOK
<1>2. ASSUME NEW t \in Thread, RowSet(t) PROVE RowsOK'
  <2>1. /\ \A row \in presence : row \in presence'
        /\ UserOf[t] # None => <<room'[t], UserOf[t]>> \in presence'
        /\ \A row \in presence' : \/ row \in presence
                                  \/ UserOf[t] # None /\ row = <<room'[t], UserOf[t]>>
    BY <1>2, Zenon DEF RowSet, MarkPresent, PresenceSet
  <2>2. \A u \in Thread : u = t \/ (HasRow(u)' => HasRow(u) /\ room'[u] = room[u])
    BY <1>2, ZenonT(60) DEF RowSet, KeepsRow
  <2>3. \A u \in Thread : HasRow(u) => HasRow(u)' /\ room'[u] = room[u]
    <3>1. \A u \in Thread : u # t /\ HasRow(u) => HasRow(u)' /\ room'[u] = room[u]
      BY <1>2, Zenon DEF RowSet, KeepsRow
    <3>2. HasRow(t)' /\ (HasRow(t) => room'[t] = room[t])
      BY <1>2, Zenon DEF RowSet
    <3> QED  BY <3>1, <3>2, SMT, SMT, SMTT(60)
  <2>4. ASSUME NEW u \in Thread, HasRow(u)', UserOf[u] # None
        PROVE  <<room'[u], UserOf[u]>> \in presence' \/ u \in robbed'
    <3>1. CASE u = t
      BY <2>1, <2>4, <3>1, Zenon
    <3>2. CASE u # t
      <4>1. HasRow(u) /\ room'[u] = room[u]
        BY <2>2, <2>4, <3>2, Zenon
      <4>2. <<room[u], UserOf[u]>> \in presence \/ u \in robbed
        BY <2>4, <4>1, Zenon DEF RowsOK
      <4> QED  BY <1>0, <2>1, <2>4, <4>1, <4>2, Zenon
    <3> QED  BY <3>1, <3>2, Zenon
  <2>5. ASSUME NEW row \in presence'
        PROVE  \E u \in Thread : HasRow(u)' /\ UserOf[u] # None
                                 /\ UserOf[u] = row[2] /\ room'[u] = row[1]
    <3>1. CASE row \in presence
      <4>1. PICK u \in Thread : HasRow(u) /\ UserOf[u] # None
                                /\ UserOf[u] = row[2] /\ room[u] = row[1]
        BY <3>1, Zenon DEF RowsOK
      <4> QED  BY <2>3, <4>1, Zenon
    <3>2. CASE UserOf[t] # None /\ row = <<room'[t], UserOf[t]>>
      <4>1. row[1] = room'[t] /\ row[2] = UserOf[t]
        BY <3>2, SMT, SMTT(60)
      <4>2. HasRow(t)'
        BY <1>2, ZenonT(60) DEF RowSet
      <4> QED  BY <3>2, <4>1, <4>2, ZenonT(60)
    <3> QED  BY <2>1, <3>1, <3>2, Zenon
  <2> QED  BY <2>4, <2>5, Zenon DEF RowsOK
<1>3. ASSUME NEW t \in Thread, RowCleared(t) PROVE RowsOK'
  <2>1. /\ \A row \in presence' : row \in presence
        /\ UserOf[t] # None => \A row \in presence' : row # <<room[t], UserOf[t]>>
        /\ \A row \in presence :
              \/ row \in presence'
              \/ UserOf[t] # None /\ row = <<room[t], UserOf[t]>>
    BY <1>3, Zenon DEF RowCleared, MarkAbsent, PresenceClear
  <2>2. ASSUME NEW u \in Thread, HasRow(u)', UserOf[u] # None
        PROVE  <<room'[u], UserOf[u]>> \in presence' \/ u \in robbed'
    <3>1. u # t
      BY <1>3, <2>2, SMT, SMT, SMTT(60) DEF RowCleared
    <3>2. HasRow(u) /\ room'[u] = room[u]
      BY <1>3, <2>2, <3>1, Zenon DEF RowCleared, KeepsRow
    <3>3. <<room[u], UserOf[u]>> \in presence \/ u \in robbed
      BY <2>2, <3>2, ZenonT(60) DEF RowsOK
    <3>4. CASE UserOf[u] = UserOf[t] /\ room[u] = room[t]
      <4>1. Robs(t, u)
        BY <1>3, <3>1, <3>4, ZenonT(60) DEF Robs, RowCleared
      <4> QED  BY <1>0, <2>2, <4>1, Zenon
    <3>5. CASE ~(UserOf[u] = UserOf[t] /\ room[u] = room[t])
      <4>1. <<room[u], UserOf[u]>> # <<room[t], UserOf[t]>>
        BY <3>5, SMT, SMTT(60)
      <4> QED  BY <1>0, <2>1, <2>2, <3>2, <3>3, <4>1, ZenonT(60)
    <3> QED  BY <3>4, <3>5, Zenon
  <2>3. ASSUME NEW row \in presence'
        PROVE  \E u \in Thread : HasRow(u)' /\ UserOf[u] # None
                                 /\ UserOf[u] = row[2] /\ room'[u] = row[1]
    <3>1. PICK u \in Thread : HasRow(u) /\ UserOf[u] # None
                              /\ UserOf[u] = row[2] /\ room[u] = row[1]
      BY <2>1, <2>3, Zenon DEF RowsOK
    <3>2. row = <<row[1], row[2]>>
      <4>1. row \in Room \X User
        BY <2>1, <2>3, Zenon DEF TypeOK, SharedType
      <4> QED  BY <4>1, SMT, SMTT(60)
    <3>3. u # t
      BY <2>1, <2>3, <3>1, <3>2, ZenonT(60)
    <3>4. HasRow(u)' /\ room'[u] = room[u]
      BY <1>3, <3>1, <3>3, Zenon DEF RowCleared, KeepsRow
    <3> QED  BY <3>1, <3>4, Zenon
  <2> QED  BY <2>2, <2>3, Zenon DEF RowsOK
<1> QED  BY <1>0, <1>1, <1>2, <1>3, RowSteps, ZenonT(60)
=============================================================================
