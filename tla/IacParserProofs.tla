-------------------------- MODULE IacParserProofs --------------------------
(***************************************************************************)
(* For every size of the accumulator, every input and every way to cut it  *)
(* into reads: the parser's accumulator is never written past its end, the *)
(* place of the cuts makes no difference, and what is reported is what the *)
(* grammar of IacGrammar says of the stream.                               *)
(*                                                                         *)
(* The recursive functions of the grammar are shown to exist, from the     *)
(* last byte of the stream backwards, and are then unfolded by the         *)
(* equations they solve.  What they compute is proved by least             *)
(* counterexamples (Induct, InductDown).                                   *)
(***************************************************************************)
EXTENDS IacCuts, IacGrammar, WellFoundedInduction, TLAPS

(* What the parser reports are events. *)
LEMMA EventTypes ==
    /\ \A b \in Byte : Data(b) \in Event
    /\ \A v \in Verbs, b \in Byte : Option(v, b) \in Event
    /\ \A o \in Field, s \in Seq(Field) : Subneg(o, s) \in Event
BY DEF Data, Option, Subneg, Event, Field

(* The payload reported is a part of the accumulator. *)
LEMMA PayloadType ==
    ASSUME TypeOK
    PROVE  Payload \in Seq(Field)
<1>1. sb_buf \in Seq(Field) /\ Len(sb_buf) = SbMax
  BY IacAssumption DEF TypeOK
<1>2. \A k \in 0..SbMax : SubSeq(sb_buf, 1, k) \in Seq(Field)
  BY <1>1, IacAssumption
<1> QED
  BY <1>2, IacAssumption DEF TypeOK, Payload

(* In the middle of a command the verb is known. *)
VerbKnown == state = "IAC_CMD" => cmd \in Verbs

(* A byte of the stream keeps every field in its range. *)
LEMMA FeedType ==
    ASSUME TypeOK, VerbKnown, NEW b \in Byte, Feed(b)
    PROVE  TypeOK' /\ VerbKnown'
<1> USE IacAssumption DEF TypeOK, VerbKnown, State
<1>0. fed' \in Seq(Byte)
  BY DEF Feed
<1>1. CASE InData(b)
  <2>1. Data(b) \in Event
    BY EventTypes, Zenon
  <2>2. out \o slice \in Seq(Event) /\ Append(slice, Data(b)) \in Seq(Event)
    BY <2>1
  <2>3. slice' \in Seq(Event) /\ out' \in Seq(Event)
    <3>1. CASE b = IAC
      <4>1. out' = out \o slice /\ slice' = <<>>
        BY <1>1, <3>1, Zenon DEF InData, Flushed
      <4>2. <<>> \in Seq(Event)
        OBVIOUS
      <4> QED
        BY <2>2, <4>1, <4>2, Zenon
    <3>2. CASE b # IAC
      BY <1>1, <2>2, <3>2, Zenon DEF InData
    <3> QED
      BY <3>1, <3>2, Zenon
  <2> QED
    BY <1>0, <1>1, <2>3, Zenon DEF InData
<1>2. CASE InIac(b)
  <2>1. Data(IAC) \in Event
    BY EventTypes, Zenon DEF Byte
  <2>2. out' \in Seq(Event)
    BY <1>2, <2>1 DEF InIac
  <2> QED
    BY <1>0, <1>2, <2>2 DEF InIac
<1>3. CASE InCmd(b)
  <2>1. Option(cmd, b) \in Event
    BY <1>3, EventTypes, Zenon DEF InCmd
  <2>2. out' \in Seq(Event)
    BY <1>3, <2>1 DEF InCmd
  <2> QED
    BY <1>0, <1>3, <2>2, Zenon DEF InCmd
<1>4. CASE InSb(b)
  <2>1. UNCHANGED <<cmd, slice, out>> /\ b \in Field
    BY <1>4, Zenon DEF InSb, Field
  <2>2. state' \in State \ {"IAC_CMD"} /\ sb_opt' \in Field
    BY <1>4, <2>1, Zenon DEF InSb
  <2>3. sb_len' \in 0..SbMax
    BY <1>4 DEF InSb, Stores
  <2>4. sb_buf' \in [1..SbMax -> Field]
    BY <1>4, <2>1, Zenon DEF InSb, Stores
  <2> QED
    BY <1>0, <2>1, <2>2, <2>3, <2>4, Zenon
<1>5. CASE InSbIac(b)
  <2>1. Append(out, Subneg(sb_opt, Payload)) \in Seq(Event)
    BY EventTypes, PayloadType
  <2>2. out' \in Seq(Event)
    <3>1. CASE b = SE
      BY <1>5, <2>1, <3>1, Zenon DEF InSbIac
    <3>2. CASE b # SE
      BY <1>5, <3>2, Zenon DEF InSbIac
    <3> QED
      BY <3>1, <3>2, Zenon
  <2> QED
    BY <1>0, <1>5, <2>2, Zenon DEF InSbIac
<1> QED
  BY <1>1, <1>2, <1>3, <1>4, <1>5, Zenon DEF Feed

(***************************************************************************)
(* Whatever bytes arrive and however they are cut into reads, sb_len stays *)
(* within the accumulator (and within its uint8_t for the size 255), and   *)
(* every write goes to a position of it.                                   *)
(***************************************************************************)
THEOREM AccumulatorBounded == Spec => []TypeOK
<1>1. Init => TypeOK /\ VerbKnown
  BY IacAssumption DEF Init, TypeOK, VerbKnown, State, Field
<1>2. TypeOK /\ VerbKnown /\ [Next]_vars => TypeOK' /\ VerbKnown'
  <2> SUFFICES ASSUME TypeOK, VerbKnown, [Next]_vars PROVE TypeOK' /\ VerbKnown'
    BY Zenon
  <2>1. CASE ReadEnds
    BY <2>1 DEF ReadEnds, Flushed, TypeOK, VerbKnown
  <2>2. CASE UNCHANGED vars
    BY <2>2, Zenon DEF vars, TypeOK, VerbKnown
  <2> QED
    BY <2>1, <2>2, FeedType, Zenon DEF Next
<1> QED
  BY <1>1, <1>2, PTL DEF Spec

(* Adding to what is held back adds to what is reported. *)
LEMMA AppendLast ==
    \A a, h \in Seq(Event) : \A e \in Event : a \o Append(h, e) = Append(a \o h, e)
<1> SUFFICES ASSUME NEW S, NEW a \in Seq(S), NEW h \in Seq(S), NEW e \in S
             PROVE  a \o Append(h, e) = Append(a \o h, e)
  BY SMT, SMTT(60)
<1> QED
  OBVIOUS

(* Nothing added changes nothing. *)
LEMMA ConcatNothing ==
    ASSUME NEW S, NEW a \in Seq(S)
    PROVE  a \o <<>> = a
OBVIOUS

(* Two parsers in the same state that are fed the same byte. *)
LEMMA SameFeed ==
    ASSUME SameParser, VerbKnown, NEW b \in Byte, Feed(b), Second!Feed(b)
    PROVE  SameParser'
<1> USE DEF SameParser, CutIndependent, Flushed, Second!Flushed
<1>0. TypeOK'
  BY FeedType, Zenon
<1>1. CASE state = "IAC_DATA"
  <2>1. InData(b) /\ Second!InData(b)
    BY <1>1, Zenon DEF Feed, InData, InIac, InCmd, InSb, InSbIac, Second!Feed,
       Second!InData, Second!InIac, Second!InCmd, Second!InSb, Second!InSbIac
  <2>2. /\ UNCHANGED <<cmd, sb_opt, sb_len, sb_buf>>
        /\ UNCHANGED <<cmd2, sb_opt2, sb_len2, sb_buf2>>
    BY <2>1, Zenon DEF InData, Second!InData
  <2>3. CASE b = IAC
    <3>1. /\ out' = out \o slice /\ slice' = <<>> /\ state' = "IAC_IAC"
          /\ out2' = out2 \o slice2 /\ slice2' = <<>> /\ state2' = "IAC_IAC"
      BY <2>1, <2>3, Zenon DEF InData, Second!InData
    <3>2. out2 \o slice2 \in Seq(Event)
      OBVIOUS
    <3> QED
      BY <1>0, <2>2, <3>1, <3>2
  <2>4. CASE b # IAC
    <3> DEFINE e == Data(b)
    <3>1. /\ UNCHANGED <<state, out, state2, out2>>
          /\ slice' = Append(slice, e) /\ slice2' = Append(slice2, e)
      BY <2>1, <2>4, Zenon DEF InData, Second!InData, Data, Second!Data
    <3>2. e \in Event
      BY EventTypes, Zenon
    <3> HIDE DEF e
    <3>3. /\ out \o Append(slice, e) = Append(out \o slice, e)
          /\ out2 \o Append(slice2, e) = Append(out2 \o slice2, e)
          /\ Append(slice2, e) \in Seq(Event)
      <4>1. out \in Seq(Event) /\ slice \in Seq(Event)
        BY Zenon DEF TypeOK
      <4>2. Append(slice2, e) \in Seq(Event)
        BY <3>2
      <4>3. out \o Append(slice, e) = Append(out \o slice, e)
        BY <3>2, <4>1, AppendLast, Zenon
      <4>4. out2 \in Seq(Event) /\ slice2 \in Seq(Event)
        BY Zenon
      <4>5. out2 \o Append(slice2, e) = Append(out2 \o slice2, e)
        BY <3>2, <4>4, AppendLast, Zenon
      <4> QED
        BY <4>2, <4>3, <4>5, Zenon
    <3> QED
      BY <1>0, <1>1, <2>2, <3>1, <3>3, Zenon
  <2> QED
    BY <2>3, <2>4, Zenon
<1>2. CASE state # "IAC_DATA"
  <2>1. /\ slice = <<>> /\ slice2 = <<>> /\ out = out2
        /\ slice' = <<>> /\ slice2' = <<>>
    <3>1. slice = <<>> /\ slice2 = <<>>
      BY <1>2, Zenon
    <3>2. out \o <<>> = out /\ out2 \o <<>> = out2
      BY ConcatNothing, Zenon DEF TypeOK
    <3>3. slice' = slice /\ slice2' = slice2
      BY <1>2, Zenon DEF Feed, InData, InIac, InCmd, InSb, InSbIac, Second!Feed,
         Second!InData, Second!InIac, Second!InCmd, Second!InSb, Second!InSbIac
    <3> QED
      BY <3>1, <3>2, <3>3, Zenon
  <2>2. /\ out2' = out' /\ state2' = state' /\ cmd2' = cmd' /\ sb_opt2' = sb_opt'
        /\ sb_len2' = sb_len' /\ sb_buf2' = sb_buf'
    <3>1. CASE state = "IAC_IAC"
      <4>1. InIac(b) /\ Second!InIac(b)
        BY <3>1, Zenon DEF Feed, InData, InIac, InCmd, InSb, InSbIac, Second!Feed,
           Second!InData, Second!InIac, Second!InCmd, Second!InSb, Second!InSbIac
      <4> QED
        BY <2>1, <4>1, Zenon DEF InIac, Second!InIac, Data, Second!Data
    <3>2. CASE state = "IAC_CMD"
      <4>1. InCmd(b) /\ Second!InCmd(b)
        BY <3>2, Zenon DEF Feed, InData, InIac, InCmd, InSb, InSbIac, Second!Feed,
           Second!InData, Second!InIac, Second!InCmd, Second!InSb, Second!InSbIac
      <4> QED
        BY <2>1, <4>1, Zenon DEF InCmd, Second!InCmd, Option, Second!Option
    <3>3. CASE state = "IAC_SB"
      <4>1. InSb(b) /\ Second!InSb(b)
        BY <3>3, Zenon DEF Feed, InData, InIac, InCmd, InSb, InSbIac, Second!Feed,
           Second!InData, Second!InIac, Second!InCmd, Second!InSb, Second!InSbIac
      <4> QED
        BY <2>1, <4>1 DEF InSb, Second!InSb, Stores, Second!Stores
    <3>4. CASE state = "IAC_SB_IAC"
      <4>1. InSbIac(b) /\ Second!InSbIac(b)
        BY <3>4, Zenon DEF Feed, InData, InIac, InCmd, InSb, InSbIac, Second!Feed,
           Second!InData, Second!InIac, Second!InCmd, Second!InSb, Second!InSbIac
      <4>2. Second!Subneg(sb_opt2, Second!Payload) = Subneg(sb_opt, Payload)
        BY Zenon DEF Subneg, Second!Subneg, Payload, Second!Payload
      <4> QED
        BY <2>1, <4>1, <4>2, Zenon DEF InSbIac, Second!InSbIac
    <3> QED
      BY <1>2, <3>1, <3>2, <3>3, <3>4, Zenon DEF TypeOK, State
  <2>3. out2' \in Seq(Event) /\ slice2' \in Seq(Event)
    BY <1>0, <2>1, <2>2, Zenon DEF TypeOK
  <2> QED
    BY <1>0, <2>1, <2>2, <2>3, Zenon
<1> QED
  BY <1>1, <1>2, Zenon

(* The end of a read of either parser changes nothing that is reported. *)
LEMMA SameRead ==
    ASSUME SameParser,
           \/ ReadEnds /\ UNCHANGED vars2
           \/ Second!ReadEnds /\ UNCHANGED vars
    PROVE  SameParser'
<1> USE DEF SameParser, CutIndependent, Flushed, Second!Flushed
<1>1. \A a \in Seq(Event) : a \o <<>> = a
  BY ConcatNothing, Zenon
<1>2. out \o slice \in Seq(Event) /\ out2 \o slice2 \in Seq(Event)
  BY DEF TypeOK
<1>3. CASE ReadEnds /\ UNCHANGED vars2
  <2>1. /\ out' = out \o slice /\ slice' = <<>>
        /\ UNCHANGED <<state, cmd, sb_opt, sb_len, sb_buf, fed, vars2>>
    BY <1>3, Zenon DEF ReadEnds
  <2>2. TypeOK'
    BY <1>2, <2>1, SMT, SMTT(60) DEF TypeOK
  <2> QED
    BY <1>1, <1>2, <2>1, <2>2, Zenon DEF vars2
<1>4. CASE Second!ReadEnds /\ UNCHANGED vars
  <2>1. /\ out2' = out2 \o slice2 /\ slice2' = <<>>
        /\ UNCHANGED <<state2, cmd2, sb_opt2, sb_len2, sb_buf2, vars>>
    BY <1>4, Zenon DEF Second!ReadEnds
  <2>2. TypeOK'
    BY <2>1, Zenon DEF TypeOK, vars
  <2> QED
    BY <1>1, <1>2, <2>1, <2>2, SMT, SMTT(60) DEF vars
<1> QED
  BY <1>3, <1>4, Zenon

(***************************************************************************)
(* For every input and every two ways to cut it into reads, and at every   *)
(* moment, iac_parser_feed has made or is about to make the same calls in  *)
(* the same order.                                                         *)
(***************************************************************************)
THEOREM CutsDoNotMatter == CutsSpec => []CutIndependent
<1> DEFINE Inv == SameParser /\ VerbKnown
<1>1. CutsInit => Inv
  BY IacAssumption DEF CutsInit, Init, Second!Init, SameParser, TypeOK, State,
     Field, CutIndependent, Flushed, Second!Flushed, VerbKnown
<1>2. Inv /\ [CutsNext]_<<vars, vars2>> => Inv'
  <2> SUFFICES ASSUME Inv, [CutsNext]_<<vars, vars2>> PROVE Inv'
    BY Zenon
  <2>1. CASE \/ ReadEnds /\ UNCHANGED vars2
             \/ Second!ReadEnds /\ UNCHANGED vars
    <3>1. VerbKnown'
      BY <2>1, Zenon DEF VerbKnown, ReadEnds, vars
    <3> QED
      BY <2>1, <3>1, SameRead, Zenon
  <2>2. ASSUME NEW b \in Byte, Feed(b), Second!Feed(b) PROVE Inv'
    <3>1. TypeOK
      BY Zenon DEF SameParser
    <3> QED
      BY <2>2, <3>1, SameFeed, FeedType, Zenon
  <2>3. CASE UNCHANGED <<vars, vars2>>
    BY <2>3, Zenon DEF vars, vars2, SameParser, TypeOK, CutIndependent, Flushed,
       Second!Flushed, VerbKnown
  <2> QED
    BY <2>1, <2>2, <2>3, Zenon DEF CutsNext
<1>3. Inv => CutIndependent
  BY Zenon DEF SameParser
<1> QED
  BY <1>1, <1>2, <1>3, PTL DEF CutsSpec

(* A nonempty set of naturals has a least element. *)
LEMMA NatMin ==
    ASSUME NEW S \in SUBSET Nat, S # {}
    PROVE  \E x \in S : \A y \in S : x <= y
<1>1. \E R : /\ IsWellFoundedOn(R, Nat)
             /\ \A x, y \in Nat : <<x, y>> \in R <=> x < y
  <2>1. \A x, y \in Nat : <<x, y>> \in OpToRel(<, Nat) <=> x < y
    BY Zenon DEF OpToRel
  <2> QED
    BY <2>1, NatLessThanWellFounded, Zenon
<1>2. PICK R : /\ IsWellFoundedOn(R, Nat)
               /\ \A x, y \in Nat : <<x, y>> \in R <=> x < y
  BY <1>1, Zenon
<1>3. PICK x \in S : \A y \in S : ~ (<<y, x>> \in R)
  <2>1. S \subseteq Nat /\ S # {}
    BY Zenon
  <2>2. IsWellFoundedOn(R, Nat)
    BY <1>2, Zenon
  <2> QED
    BY <2>1, <2>2, WFMin, Zenon
<1>4. \A y \in S : ~ (y < x)
  BY <1>2, <1>3, Zenon
<1> QED
  BY <1>4

(* What holds at the first number and passes on to the next holds of all:  *)
(* there would be a least one for which it does not.                       *)
LEMMA Induct ==
    ASSUME NEW m \in Nat, NEW n \in Nat, NEW P, m \in P,
           \A i \in m .. n - 1 : i \in P => i + 1 \in P
    PROVE  \A i \in m .. n : i \in P
<1> DEFINE Bad == {i \in m .. n : i \notin P}
<1> SUFFICES ASSUME Bad # {} PROVE FALSE
  BY Zenon
<1>1. Bad \in SUBSET Nat
  OBVIOUS
<1>2. PICK i \in Bad : \A j \in Bad : i <= j
  BY <1>1, NatMin, Zenon
<1>3. i \in m .. n /\ i \notin P
  BY <1>2, Zenon
<1>4. i # m
  BY <1>3, Zenon
<1>5. i - 1 \in m .. n - 1 /\ i - 1 \in m .. n /\ (i - 1) + 1 = i /\ ~(i <= i - 1)
  BY <1>3, <1>4
<1>6. i - 1 \in P
  BY <1>2, <1>5, Zenon
<1> QED
  BY <1>3, <1>5, <1>6, Zenon

(* The same downwards, where all that is above is known. *)
LEMMA InductDown ==
    ASSUME NEW n \in Nat, NEW P,
           \A i \in 1 .. n : (\A j \in i + 1 .. n : j \in P) => i \in P
    PROVE  \A i \in 1 .. n : i \in P
<1> DEFINE Bad == {d \in 0 .. n - 1 : n - d \notin P}
<1>1. Bad = {}
  <2> SUFFICES ASSUME Bad # {} PROVE FALSE
    BY Zenon
  <2>1. Bad \in SUBSET Nat
    OBVIOUS
  <2>2. PICK d \in Bad : \A e \in Bad : d <= e
    BY <2>1, NatMin, Zenon
  <2>3. d \in 0 .. n - 1 /\ n - d \notin P /\ n - d \in 1 .. n
    BY <2>2
  <2>4. ASSUME NEW j \in (n - d) + 1 .. n PROVE j \in P
    <3>1. n - j \in 0 .. n - 1 /\ n - (n - j) = j /\ ~(d <= n - j)
      BY <2>3
    <3> QED
      BY <2>2, <3>1, Zenon
  <2> QED
    BY <2>3, <2>4, Zenon
<1>2. ASSUME NEW i \in 1 .. n PROVE i \in P
  <2>1. n - i \in 0 .. n - 1 /\ n - (n - i) = i
    OBVIOUS
  <2> QED
    BY <1>1, <2>1, Zenon
<1> QED
  BY <1>2, Zenon

(* Min is the least element. *)
LEMMA MinIsLeast ==
    ASSUME NEW S \in SUBSET Nat, S # {}
    PROVE  Min(S) \in S /\ \A y \in S : Min(S) <= y
BY NatMin, Zenon DEF Min

(* There is one least element. *)
LEMMA LeastIsMin ==
    ASSUME NEW S \in SUBSET Nat, NEW m \in S, \A y \in S : m <= y
    PROVE  Min(S) = m
<1>1. Min(S) \in S /\ \A y \in S : Min(S) <= y
  BY MinIsLeast, Zenon
<1>2. Min(S) <= m /\ m <= Min(S) /\ m \in Nat /\ Min(S) \in Nat
  BY <1>1, Zenon
<1> HIDE DEF Min
<1> QED
  BY <1>2

-----------------------------------------------------------------------------
(* Payloads *)

\* The run of IACs just before j, back to a at most, has k of them.
Run(s, a, j, k) ==
    /\ k \in 0 .. j - a
    /\ \A i \in j - k .. j - 1 : s[i] = IAC
    /\ j - k > a => s[j - k - 1] # IAC

(* There is one. *)
LEMMA RunExists ==
    ASSUME NEW s, NEW a \in Nat, NEW j \in Nat, a <= j
    PROVE  \E k : Run(s, a, j, k)
<1> DEFINE K == {k \in 0 .. j - a : j - k > a => s[j - k - 1] # IAC}
<1>1. j - a \in K /\ K \in SUBSET Nat
  OBVIOUS
<1>2. PICK k \in K : \A h \in K : k <= h
  BY <1>1, NatMin, Zenon
<1>3. k \in 0 .. j - a /\ (j - k > a => s[j - k - 1] # IAC)
  BY <1>2, Zenon
<1>4. ASSUME NEW i \in j - k .. j - 1 PROVE s[i] = IAC
  <2>1. /\ j - 1 - i \in 0 .. j - a /\ ~(k <= j - 1 - i)
        /\ j - (j - 1 - i) - 1 = i
    BY <1>3
  <2> QED
    BY <1>2, <2>1, Zenon
<1> QED
  BY <1>3, <1>4, Zenon DEF Run

(* There is only one. *)
LEMMA RunUnique ==
    ASSUME NEW s, NEW a \in Nat, NEW j \in Nat, a <= j, NEW k, NEW h,
           Run(s, a, j, k), Run(s, a, j, h)
    PROVE  k = h
<1>1. /\ k \in 0 .. j - a /\ h \in 0 .. j - a
      /\ \A i \in j - k .. j - 1 : s[i] = IAC
      /\ \A i \in j - h .. j - 1 : s[i] = IAC
      /\ j - k > a => s[j - k - 1] # IAC
      /\ j - h > a => s[j - h - 1] # IAC
  BY Zenon DEF Run
<1>2. ~(k < h)
  <2> SUFFICES ASSUME k < h PROVE FALSE
    BY Zenon
  <2>1. j - k - 1 \in j - h .. j - 1 /\ j - k > a
    BY <1>1
  <2> QED
    BY <1>1, <2>1, Zenon
<1>3. ~(h < k)
  <2> SUFFICES ASSUME h < k PROVE FALSE
    BY Zenon
  <2>1. j - h - 1 \in j - k .. j - 1 /\ j - h > a
    BY <1>1
  <2> QED
    BY <1>1, <2>1, Zenon
<1> QED
  BY <1>1, <1>2, <1>3

(* An escaped byte comes after an odd run. *)
LEMMA EscapedRun ==
    ASSUME NEW s, NEW a \in Nat, NEW j \in Nat, a <= j, NEW k, Run(s, a, j, k)
    PROVE  Escaped(s, a, j) <=> k % 2 = 1
<1>1. ASSUME k % 2 = 1 PROVE Escaped(s, a, j)
  <2>1. k \in 1 .. j - a
    BY <1>1 DEF Run
  <2> QED
    BY <1>1, <2>1, Zenon DEF Escaped, Run
<1>2. ASSUME Escaped(s, a, j) PROVE k % 2 = 1
  <2>1. PICK h \in 1 .. j - a :
            /\ h % 2 = 1
            /\ \A i \in j - h .. j - 1 : s[i] = IAC
            /\ j - h > a => s[j - h - 1] # IAC
    BY <1>2, Zenon DEF Escaped
  <2>2. h \in 0 .. j - a
    OBVIOUS
  <2>3. Run(s, a, j, h)
    BY <2>1, <2>2, Zenon DEF Run
  <2>4. h = k
    BY <2>3, RunUnique, Zenon
  <2> QED
    BY <2>1, <2>4, Zenon
<1> QED
  BY <1>1, <1>2, Zenon

(* The first byte of a payload is not escaped. *)
LEMMA EscapedFirst ==
    ASSUME NEW s, NEW a \in Nat
    PROVE  ~Escaped(s, a, a)
BY DEF Escaped

(* Another one is by an IAC that is not escaped itself. *)
LEMMA EscapedStep ==
    ASSUME NEW s, NEW a \in Nat, NEW j \in Nat, a <= j
    PROVE  Escaped(s, a, j + 1) <=> s[j] = IAC /\ ~Escaped(s, a, j)
<1>2. PICK k : Run(s, a, j, k)
  BY RunExists, Zenon
<1>3. k \in 0 .. j - a /\ k \in Nat
  BY <1>2 DEF Run
<1>4. Escaped(s, a, j) <=> k % 2 = 1
  BY <1>2, EscapedRun, Zenon
<1>5. CASE s[j] = IAC
  <2>1. Run(s, a, j + 1, k + 1)
    <3>1. k + 1 \in 0 .. (j + 1) - a
      BY <1>3
    <3>2. ASSUME NEW i \in (j + 1) - (k + 1) .. (j + 1) - 1 PROVE s[i] = IAC
      <4>1. i \in j - k .. j - 1 \/ i = j
        BY <1>3
      <4> QED
        BY <1>2, <1>5, <4>1, Zenon DEF Run
    <3>3. (j + 1) - (k + 1) = j - k
      BY <1>3
    <3> QED
      BY <1>2, <3>1, <3>2, <3>3, Zenon DEF Run
  <2>2. Escaped(s, a, j + 1) <=> (k + 1) % 2 = 1
    <3>1. j + 1 \in Nat /\ a <= j + 1
      OBVIOUS
    <3> QED
      BY <2>1, <3>1, EscapedRun, Zenon
  <2>3. (k + 1) % 2 = 1 <=> ~(k % 2 = 1)
    BY <1>3
  <2> QED
    BY <1>4, <1>5, <2>2, <2>3, Zenon
<1>6. CASE s[j] # IAC
  <2>1. Run(s, a, j + 1, 0)
    BY <1>6 DEF Run
  <2>2. ~Escaped(s, a, j + 1)
    <3>1. j + 1 \in Nat /\ a <= j + 1 /\ ~(0 % 2 = 1)
      OBVIOUS
    <3> QED
      BY <2>1, <3>1, EscapedRun, Zenon
  <2> QED
    BY <1>6, <2>2, Zenon
<1> QED
  BY <1>5, <1>6, Zenon

\* A sequence that goes on where the other ends.
Longer(s, t) ==
    /\ s \in Seq(Byte) /\ t \in Seq(Byte)
    /\ Len(s) <= Len(t)
    /\ \A i \in 1 .. Len(s) : t[i] = s[i]

(* What comes later escapes nothing. *)
LEMMA EscapedSame ==
    ASSUME NEW s, NEW t, Longer(s, t), NEW a \in Nat \ {0},
           NEW j \in Nat, j <= Len(s) + 1
    PROVE  Escaped(t, a, j) <=> Escaped(s, a, j)
<1>0. Len(s) \in Nat /\ \A i \in 1 .. Len(s) : t[i] = s[i]
  BY DEF Longer
<1>1. ASSUME NEW k \in 1 .. j - a
      PROVE  /\ \A i \in j - k .. j - 1 : t[i] = s[i]
             /\ j - k > a => t[j - k - 1] = s[j - k - 1]
  <2>1. \A i \in j - k .. j - 1 : i \in 1 .. Len(s)
    BY <1>0
  <2>2. j - k > a => j - k - 1 \in 1 .. Len(s)
    BY <1>0
  <2> QED
    BY <1>0, <2>1, <2>2, Zenon
<1>2. ASSUME NEW k \in 1 .. j - a
      PROVE  /\ (\A i \in j - k .. j - 1 : t[i] = IAC) <=> (\A i \in j - k .. j - 1 : s[i] = IAC)
             /\ (j - k > a => t[j - k - 1] # IAC) <=> (j - k > a => s[j - k - 1] # IAC)
  BY <1>1, Zenon
<1>3. ASSUME Escaped(s, a, j) PROVE Escaped(t, a, j)
  BY <1>2, <1>3, Zenon DEF Escaped
<1>4. ASSUME Escaped(t, a, j) PROVE Escaped(s, a, j)
  BY <1>2, <1>4, Zenon DEF Escaped
<1> QED
  BY <1>3, <1>4, Zenon

\* The definition of Picked as an equation.
PickedLoop(s, a, I, f) ==
    [i \in a - 1 .. Len(s) |->
        IF i < a THEN <<>>
        ELSE IF i \in I THEN Append(f[i - 1], s[i])
        ELSE f[i - 1]]

\* One that holds up to n.
PickedUpto(s, a, I, n, f) ==
    \A i \in a - 1 .. n :
        f[i] = IF i < a THEN <<>>
               ELSE IF i \in I THEN Append(f[i - 1], s[i])
               ELSE f[i - 1]

(* The equation has a solution: one for a part of the stream is            *)
(* continued by a byte.                                                    *)
LEMMA PickedSolved ==
    ASSUME NEW s \in Seq(Byte), NEW I \in SUBSET Int, NEW a \in Nat \ {0}, a - 1 <= Len(s)
    PROVE  \E f : f = PickedLoop(s, a, I, f)
<1> DEFINE P == {n \in a - 1 .. Len(s) : \E f : PickedUpto(s, a, I, n, f)}
<1>1. a - 1 \in Nat /\ Len(s) \in Nat
  OBVIOUS
<1>2. a - 1 \in P
  <2>1. PickedUpto(s, a, I, a - 1, [i \in {a - 1} |-> <<>>])
    BY DEF PickedUpto
  <2>2. a - 1 \in a - 1 .. Len(s)
    BY <1>1
  <2> QED
    BY <2>1, <2>2, Zenon
<1>3. ASSUME NEW n \in a - 1 .. Len(s) - 1, n \in P PROVE n + 1 \in P
  <2>1. PICK f : PickedUpto(s, a, I, n, f)
    BY <1>3, Zenon
  <2>2. n \in Nat /\ n + 1 \in a - 1 .. Len(s) /\ n + 1 \notin a - 1 .. n /\ (n + 1) - 1 = n
    BY <1>1
  <2> DEFINE v == IF n + 1 \in I THEN Append(f[n], s[n + 1])
                  ELSE f[n]
             g == [i \in a - 1 .. n + 1 |-> IF i = n + 1 THEN v ELSE f[i]]
  <2>3. \A i \in a - 1 .. n : g[i] = f[i]
    <3>1. \A i \in a - 1 .. n : i \in a - 1 .. n + 1 /\ i # n + 1
      BY <2>2
    <3> QED
      BY <3>1, Zenon
  <2>4. g[n + 1] = v
    <3>1. n + 1 \in a - 1 .. n + 1
      BY <2>2
    <3> QED
      BY <3>1, Zenon
  <2> HIDE DEF g
  <2>5. PickedUpto(s, a, I, n + 1, g)
    <3> SUFFICES ASSUME NEW i \in a - 1 .. n + 1
                 PROVE  g[i] = IF i < a THEN <<>>
                               ELSE IF i \in I THEN Append(g[i - 1], s[i])
                               ELSE g[i - 1]
      BY Zenon DEF PickedUpto
    <3>1. CASE i = n + 1
      <4>1. ~(i < a) /\ i - 1 = n /\ n \in a - 1 .. n
        BY <2>2, <3>1
      <4>2. g[i - 1] = f[n]
        BY <2>3, <4>1, Zenon
      <4> QED
        BY <2>4, <3>1, <4>1, <4>2, Zenon
    <3>2. CASE i # n + 1
      <4>1. i \in a - 1 .. n
        BY <2>2, <3>2
      <4>2. f[i] = IF i < a THEN <<>>
                   ELSE IF i \in I THEN Append(f[i - 1], s[i])
                   ELSE f[i - 1]
        BY <2>1, <4>1, Zenon DEF PickedUpto
      <4>3. CASE i < a
        BY <2>3, <4>1, <4>2, <4>3, Zenon
      <4>4. CASE ~(i < a)
        <5>1. i - 1 \in a - 1 .. n
          BY <4>1, <4>4
        <5>2. g[i - 1] = f[i - 1] /\ g[i] = f[i]
          BY <2>3, <4>1, <5>1, Zenon
        <5> QED
          BY <4>2, <4>4, <5>2, Zenon
      <4> QED
        BY <4>3, <4>4, Zenon
    <3> QED
      BY <3>1, <3>2, Zenon
  <2> QED
    BY <2>2, <2>5, Zenon
<1>4. \A n \in a - 1 .. Len(s) : n \in P
  <2> HIDE DEF P
  <2> QED
    BY <1>1, <1>2, <1>3, Induct, Zenon
<1>5. Len(s) \in P
  <2>1. Len(s) \in a - 1 .. Len(s)
    BY <1>1
  <2> QED
    BY <1>4, <2>1, Zenon
<1>6. PICK f : PickedUpto(s, a, I, Len(s), f)
  BY <1>5, Zenon
<1> DEFINE h == [i \in a - 1 .. Len(s) |-> f[i]]
<1>7. h = PickedLoop(s, a, I, h)
  <2>1. ASSUME NEW i \in a - 1 .. Len(s)
        PROVE  f[i] = IF i < a THEN <<>>
                      ELSE IF i \in I THEN Append(h[i - 1], s[i])
                      ELSE h[i - 1]
    <3>1. f[i] = IF i < a THEN <<>>
                 ELSE IF i \in I THEN Append(f[i - 1], s[i])
                 ELSE f[i - 1]
      BY <1>6, Zenon DEF PickedUpto
    <3>2. CASE i < a
      BY <3>1, <3>2, Zenon
    <3>3. CASE ~(i < a)
      <4>1. i - 1 \in a - 1 .. Len(s)
        BY <3>3, <1>1
      <4>2. h[i - 1] = f[i - 1]
        BY <4>1, Zenon
      <4> QED
        BY <3>1, <3>3, <4>2, Zenon
    <3> QED
      BY <3>2, <3>3, Zenon
  <2> DEFINE w(i) == IF i < a THEN <<>>
                     ELSE IF i \in I THEN Append(h[i - 1], s[i])
                     ELSE h[i - 1]
  <2>2. PickedLoop(s, a, I, h) = [i \in a - 1 .. Len(s) |-> w(i)]
    BY Zenon DEF PickedLoop
  <2>3. \A i \in a - 1 .. Len(s) : f[i] = w(i)
    BY <2>1, Zenon
  <2> HIDE DEF w
  <2>4. h = [i \in a - 1 .. Len(s) |-> w(i)]
    BY <2>3, Zenon
  <2> QED
    BY <2>2, <2>4, Zenon
<1> QED
  BY <1>7, Zenon

\* Picked place by place.
PickedSteps(s, a, I) ==
    \A i \in a .. Len(s) :
        Picked(s, a, I, i) = IF i \in I THEN Append(Picked(s, a, I, i - 1), s[i])
                             ELSE Picked(s, a, I, i - 1)

(* It is. *)
LEMMA PickedStep ==
    ASSUME NEW s \in Seq(Byte), NEW I \in SUBSET Int, NEW a \in Nat \ {0}, a - 1 <= Len(s)
    PROVE  /\ Picked(s, a, I, a - 1) = <<>>
           /\ PickedSteps(s, a, I)
<1> DEFINE f == CHOOSE g : g = PickedLoop(s, a, I, g)
<1>1. f = PickedLoop(s, a, I, f)
  BY PickedSolved, Zenon
<1>2. \A i : Picked(s, a, I, i) = f[i]
  BY Zenon DEF Picked, PickedLoop
<1> HIDE DEF f
<1>3. \A i \in a - 1 .. Len(s) :
        f[i] = IF i < a THEN <<>>
               ELSE IF i \in I THEN Append(f[i - 1], s[i])
               ELSE f[i - 1]
  <2> DEFINE w(i) == IF i < a THEN <<>>
                     ELSE IF i \in I THEN Append(f[i - 1], s[i])
                     ELSE f[i - 1]
  <2>1. f = [i \in a - 1 .. Len(s) |-> w(i)]
    BY <1>1, Zenon DEF PickedLoop
  <2> SUFFICES \A i \in a - 1 .. Len(s) : f[i] = w(i)
    BY Zenon
  <2> HIDE DEF w
  <2> QED
    BY <2>1, Zenon
<1>4. Picked(s, a, I, a - 1) = <<>>
  <2>1. a - 1 \in a - 1 .. Len(s) /\ a - 1 < a
    OBVIOUS
  <2> QED
    BY <1>2, <1>3, <2>1, Zenon
<1>5. ASSUME NEW i \in a .. Len(s)
      PROVE  Picked(s, a, I, i) = IF i \in I
                             THEN Append(Picked(s, a, I, i - 1), s[i])
                             ELSE Picked(s, a, I, i - 1)
  <2>1. i \in a - 1 .. Len(s) /\ ~(i < a)
    OBVIOUS
  <2>2. f[i] = IF i \in I THEN Append(f[i - 1], s[i]) ELSE f[i - 1]
    BY <1>3, <2>1, Zenon
  <2> QED
    BY <1>2, <2>2, Zenon
<1> QED
  BY <1>4, <1>5, Zenon DEF PickedSteps

(* What is picked is bytes. *)
LEMMA PickedType ==
    ASSUME NEW s \in Seq(Byte), NEW I \in SUBSET Int, NEW a \in Nat \ {0}, NEW j \in a - 1 .. Len(s)
    PROVE  Picked(s, a, I, j) \in Seq(Byte)
<1> DEFINE P == {i \in a - 1 .. Len(s) : Picked(s, a, I, i) \in Seq(Byte)}
<1>0. a - 1 <= Len(s) /\ a - 1 \in Nat /\ Len(s) \in Nat
  OBVIOUS
<1>1. a - 1 \in P
  <2>1. <<>> \in Seq(Byte) /\ a - 1 \in a - 1 .. Len(s)
    BY <1>0, SMT, SMTT(60)
  <2> QED
    BY <1>0, <2>1, PickedStep, Zenon
<1>2. ASSUME NEW i \in a - 1 .. Len(s) - 1, i \in P PROVE i + 1 \in P
  <2>1. i + 1 \in a .. Len(s) /\ (i + 1) - 1 = i /\ i + 1 \in 1 .. Len(s) /\ i + 1 \in a - 1 .. Len(s)
    BY <1>0
  <2>2. s[i + 1] \in Byte
    BY <2>1
  <2>3. \A q \in Seq(Byte) : Append(q, s[i + 1]) \in Seq(Byte)
    BY <2>2
  <2>4. Picked(s, a, I, i + 1) = IF i + 1 \in I
                            THEN Append(Picked(s, a, I, i), s[i + 1]) ELSE Picked(s, a, I, i)
    <3>1. PickedSteps(s, a, I)
      BY <1>0, PickedStep, Zenon
    <3> QED
      BY <2>1, <3>1, Zenon DEF PickedSteps
  <2> QED
    BY <1>2, <2>1, <2>3, <2>4, Zenon
<1>3. \A i \in a - 1 .. Len(s) : i \in P
  <2> HIDE DEF P
  <2> QED
    BY <1>0, <1>1, <1>2, Induct, Zenon
<1> QED
  BY <1>3, Zenon

\* The same places of a sequence from a on.
SamePlaces(s, a, I, J) == \A i \in a .. Len(s) : i \in J <=> i \in I

(* What comes later does not change what is picked before it. *)
LEMMA PickedSame ==
    ASSUME NEW s, NEW t, Longer(s, t), NEW a \in Nat \ {0}, NEW j \in a - 1 .. Len(s),
           NEW I \in SUBSET Int, NEW J \in SUBSET Int,
           SamePlaces(s, a, I, J)
    PROVE  Picked(t, a, J, j) = Picked(s, a, I, j)
<1> DEFINE P == {i \in a - 1 .. Len(s) : Picked(t, a, J, i) = Picked(s, a, I, i)}
<1>0. /\ s \in Seq(Byte) /\ t \in Seq(Byte)
      /\ a - 1 <= Len(s) /\ a - 1 <= Len(t) /\ Len(s) <= Len(t)
      /\ a - 1 \in Nat /\ Len(s) \in Nat /\ Len(t) \in Nat
      /\ \A i \in 1 .. Len(s) : t[i] = s[i]
  BY DEF Longer
<1>1. a - 1 \in P
  <2>1. a - 1 \in a - 1 .. Len(s)
    BY <1>0
  <2>2. Picked(t, a, J, a - 1) = <<>>
    BY <1>0, PickedStep, Zenon
  <2>3. Picked(s, a, I, a - 1) = <<>>
    BY <1>0, PickedStep, Zenon
  <2> QED
    BY <2>1, <2>2, <2>3, Zenon
<1>2. ASSUME NEW i \in a - 1 .. Len(s) - 1, i \in P PROVE i + 1 \in P
  <2>1. /\ i + 1 \in a .. Len(s) /\ (i + 1) - 1 = i /\ i + 1 \in 1 .. Len(s)
        /\ i + 1 \in a - 1 .. Len(s) /\ i + 1 \in a .. Len(t)
        /\ i + 1 \in Nat /\ i + 1 <= Len(s) + 1
    BY <1>0
  <2>2. Picked(s, a, I, i + 1) = IF i + 1 \in I
                            THEN Append(Picked(s, a, I, i), s[i + 1]) ELSE Picked(s, a, I, i)
    <3>1. PickedSteps(s, a, I)
      BY <1>0, PickedStep, Zenon
    <3> QED
      BY <2>1, <3>1, Zenon DEF PickedSteps
  <2>3. Picked(t, a, J, i + 1) = IF i + 1 \in J
                            THEN Append(Picked(t, a, J, i), t[i + 1]) ELSE Picked(t, a, J, i)
    <3>1. PickedSteps(t, a, J)
      BY <1>0, PickedStep, Zenon
    <3> QED
      BY <2>1, <3>1, Zenon DEF PickedSteps
  <2>4. i + 1 \in J <=> i + 1 \in I
    BY <2>1, Zenon DEF SamePlaces
  <2>5. t[i + 1] = s[i + 1] /\ Picked(t, a, J, i) = Picked(s, a, I, i)
    BY <1>0, <1>2, <2>1, Zenon
  <2>6. Picked(t, a, J, i + 1) = Picked(s, a, I, i + 1)
    <3>1. CASE i + 1 \in I
      BY <2>2, <2>3, <2>4, <2>5, <3>1, Zenon
    <3>2. CASE ~(i + 1 \in I)
      BY <2>2, <2>3, <2>4, <2>5, <3>2, Zenon
    <3> QED
      BY <3>1, <3>2, Zenon
  <2> QED
    BY <2>1, <2>6, Zenon
<1>3. \A i \in a - 1 .. Len(s) : i \in P
  <2> HIDE DEF P
  <2> QED
    BY <1>0, <1>1, <1>2, Induct, ZenonT(60)
<1> QED
  BY <1>3, Zenon

\* What the parser keeps of a payload, were there room: no byte of a pair.
Kept(s, a, j) == Picked(s, a, {i \in a .. Len(s) : s[i] # IAC /\ ~Escaped(s, a, i)}, j)

(* The body byte by byte. *)
LEMMA BodyStep ==
    ASSUME NEW s \in Seq(Byte), NEW a \in Nat \ {0}, a - 1 <= Len(s)
    PROVE  /\ Body(s, a, a - 1) = <<>>
           /\ \A i \in a .. Len(s) :
                Body(s, a, i) = IF s[i] = IAC <=> Escaped(s, a, i)
                                THEN Append(Body(s, a, i - 1), s[i])
                                ELSE Body(s, a, i - 1)
<1> DEFINE I == {i \in a .. Len(s) : s[i] = IAC <=> Escaped(s, a, i)}
<1>1. \A i : Body(s, a, i) = Picked(s, a, I, i)
  BY Zenon DEF Body
<1>2. \A i \in a .. Len(s) : i \in I <=> (s[i] = IAC <=> Escaped(s, a, i))
  BY Zenon
<1>0. I \in SUBSET Int
  OBVIOUS
<1> HIDE DEF I
<1>3. /\ Picked(s, a, I, a - 1) = <<>>
      /\ PickedSteps(s, a, I)
  BY <1>0, PickedStep, Zenon
<1>4. ASSUME NEW i \in a .. Len(s)
      PROVE  Body(s, a, i) = IF s[i] = IAC <=> Escaped(s, a, i)
                             THEN Append(Body(s, a, i - 1), s[i]) ELSE Body(s, a, i - 1)
  BY <1>1, <1>2, <1>3, Zenon DEF PickedSteps
<1> QED
  BY <1>1, <1>3, <1>4, Zenon

(* The body is bytes. *)
LEMMA BodyType ==
    ASSUME NEW s \in Seq(Byte), NEW a \in Nat \ {0}, NEW j \in a - 1 .. Len(s)
    PROVE  Body(s, a, j) \in Seq(Byte)
<1>1. {i \in a .. Len(s) : s[i] = IAC <=> Escaped(s, a, i)} \in SUBSET Int
  OBVIOUS
<1> QED
  BY <1>1, PickedType, Zenon DEF Body

(* What comes later does not change the body. *)
LEMMA BodySame ==
    ASSUME NEW s, NEW t, Longer(s, t), NEW a \in Nat \ {0}, NEW j \in a - 1 .. Len(s)
    PROVE  Body(t, a, j) = Body(s, a, j)
<1> DEFINE I == {i \in a .. Len(s) : s[i] = IAC <=> Escaped(s, a, i)}
           J == {i \in a .. Len(t) : t[i] = IAC <=> Escaped(t, a, i)}
<1>1. Body(s, a, j) = Picked(s, a, I, j) /\ Body(t, a, j) = Picked(t, a, J, j)
  BY Zenon DEF Body
<1>2. \A i \in a .. Len(s) : i \in Nat /\ i <= Len(s) + 1 /\ i \in a .. Len(t) /\ t[i] = s[i]
  BY DEF Longer
<1>3. SamePlaces(s, a, I, J)
  <2> SUFFICES ASSUME NEW i \in a .. Len(s) PROVE i \in J <=> i \in I
    BY Zenon DEF SamePlaces
  <2>1. Escaped(t, a, i) <=> Escaped(s, a, i)
    BY <1>2, EscapedSame, Zenon
  <2> QED
    BY <1>2, <2>1, Zenon
<1>4. I \in SUBSET Int /\ J \in SUBSET Int
  OBVIOUS
<1> HIDE DEF I, J
<1>5. Picked(t, a, J, j) = Picked(s, a, I, j)
  BY <1>3, <1>4, PickedSame, SMT, SMTT(60)
<1> QED
  BY <1>1, <1>5, Zenon

(* What is kept byte by byte. *)
LEMMA KeptStep ==
    ASSUME NEW s \in Seq(Byte), NEW a \in Nat \ {0}, a - 1 <= Len(s)
    PROVE  /\ Kept(s, a, a - 1) = <<>>
           /\ \A i \in a .. Len(s) :
                Kept(s, a, i) = IF s[i] # IAC /\ ~Escaped(s, a, i)
                                THEN Append(Kept(s, a, i - 1), s[i])
                                ELSE Kept(s, a, i - 1)
<1> DEFINE I == {i \in a .. Len(s) : s[i] # IAC /\ ~Escaped(s, a, i)}
<1>1. \A i : Kept(s, a, i) = Picked(s, a, I, i)
  BY Zenon DEF Kept
<1>2. \A i \in a .. Len(s) : i \in I <=> (s[i] # IAC /\ ~Escaped(s, a, i))
  BY Zenon
<1>0. I \in SUBSET Int
  OBVIOUS
<1> HIDE DEF I
<1>3. /\ Picked(s, a, I, a - 1) = <<>>
      /\ PickedSteps(s, a, I)
  BY <1>0, PickedStep, Zenon
<1>4. ASSUME NEW i \in a .. Len(s)
      PROVE  Kept(s, a, i) = IF s[i] # IAC /\ ~Escaped(s, a, i)
                             THEN Append(Kept(s, a, i - 1), s[i]) ELSE Kept(s, a, i - 1)
  BY <1>1, <1>2, <1>3, Zenon DEF PickedSteps
<1> QED
  BY <1>1, <1>3, <1>4, Zenon

(* What is kept is bytes. *)
LEMMA KeptType ==
    ASSUME NEW s \in Seq(Byte), NEW a \in Nat \ {0}, NEW j \in a - 1 .. Len(s)
    PROVE  Kept(s, a, j) \in Seq(Byte)
<1>1. {i \in a .. Len(s) : s[i] # IAC /\ ~Escaped(s, a, i)} \in SUBSET Int
  OBVIOUS
<1> QED
  BY <1>1, PickedType, Zenon DEF Kept

(* What comes later does not change what is kept. *)
LEMMA KeptSame ==
    ASSUME NEW s, NEW t, Longer(s, t), NEW a \in Nat \ {0}, NEW j \in a - 1 .. Len(s)
    PROVE  Kept(t, a, j) = Kept(s, a, j)
<1> DEFINE I == {i \in a .. Len(s) : s[i] # IAC /\ ~Escaped(s, a, i)}
           J == {i \in a .. Len(t) : t[i] # IAC /\ ~Escaped(t, a, i)}
<1>1. Kept(s, a, j) = Picked(s, a, I, j) /\ Kept(t, a, j) = Picked(t, a, J, j)
  BY Zenon DEF Kept
<1>2. \A i \in a .. Len(s) : i \in Nat /\ i <= Len(s) + 1 /\ i \in a .. Len(t) /\ t[i] = s[i]
  BY DEF Longer
<1>3. SamePlaces(s, a, I, J)
  <2> SUFFICES ASSUME NEW i \in a .. Len(s) PROVE i \in J <=> i \in I
    BY Zenon DEF SamePlaces
  <2>1. Escaped(t, a, i) <=> Escaped(s, a, i)
    BY <1>2, EscapedSame, Zenon
  <2> QED
    BY <1>2, <2>1, Zenon
<1>4. I \in SUBSET Int /\ J \in SUBSET Int
  OBVIOUS
<1> HIDE DEF I, J
<1>5. Picked(t, a, J, j) = Picked(s, a, I, j)
  BY <1>3, <1>4, PickedSame, SMT, SMTT(60)
<1> QED
  BY <1>1, <1>5, Zenon

\* A body and what is kept of it: the same up to the first byte 255.
SharesStart(B, K) ==
    /\ B \in Seq(Byte) /\ K \in Seq(Byte) /\ Len(K) <= Len(B)
    /\ (\A h \in 1 .. Len(B) : B[h] # IAC) => K = B
    /\ \A i \in 1 .. Len(B) :
         (\A h \in 1 .. i : B[h] # IAC) => i <= Len(K) /\ K[i] = B[i]

(* A byte that both take. *)
LEMMA SharesBoth ==
    ASSUME NEW B, NEW K, SharesStart(B, K), NEW x \in Byte, x # IAC
    PROVE  SharesStart(Append(B, x), Append(K, x))
<1> DEFINE C == Append(B, x)
           L == Append(K, x)
<1>1. B \in Seq(Byte) /\ K \in Seq(Byte) /\ Len(K) <= Len(B) /\ Len(B) \in Nat /\ Len(K) \in Nat
  BY DEF SharesStart
<1>2. /\ C \in Seq(Byte) /\ Len(C) = Len(B) + 1 /\ C[Len(B) + 1] = x
      /\ \A h \in 1 .. Len(B) : C[h] = B[h]
  BY <1>1
<1>3. /\ L \in Seq(Byte) /\ Len(L) = Len(K) + 1 /\ L[Len(K) + 1] = x
      /\ \A h \in 1 .. Len(K) : L[h] = K[h]
  BY <1>1
<1>4. ASSUME \A h \in 1 .. Len(B) : C[h] # IAC PROVE K = B
  BY <1>2, <1>4, Zenon DEF SharesStart
<1>5. ASSUME \A h \in 1 .. Len(C) : C[h] # IAC PROVE L = C
  <2>1. \A h \in 1 .. Len(B) : C[h] # IAC
    BY <1>1, <1>2, <1>5, SMT, SMTT(60)
  <2> QED
    BY <1>4, <2>1, Zenon
<1>6. ASSUME NEW i \in 1 .. Len(C), \A h \in 1 .. i : C[h] # IAC
      PROVE  i <= Len(L) /\ L[i] = C[i]
  <2>1. CASE i = Len(B) + 1
    <3>1. \A h \in 1 .. Len(B) : C[h] # IAC
      BY <1>1, <1>6, <2>1, SMT, SMTT(60)
    <3>2. K = B
      BY <1>4, <3>1, Zenon
    <3> QED
      BY <1>1, <1>2, <1>3, <2>1, <3>2, SMT, SMTT(60)
  <2>2. CASE i # Len(B) + 1
    <3>1. i \in 1 .. Len(B) /\ \A h \in 1 .. i : h \in 1 .. Len(B)
      BY <1>1, <1>2, <2>2, SMT, SMTT(60)
    <3>2. \A h \in 1 .. i : B[h] # IAC
      BY <1>2, <1>6, <3>1, Zenon
    <3>3. i <= Len(K) /\ K[i] = B[i]
      BY <3>1, <3>2, Zenon DEF SharesStart
    <3>4. i \in 1 .. Len(K) /\ i <= Len(K) + 1
      BY <1>1, <3>1, <3>3, SMT, SMTT(60)
    <3> QED
      BY <1>2, <1>3, <3>1, <3>3, <3>4, Zenon
  <2> QED
    BY <2>1, <2>2, Zenon
<1>7. Len(L) <= Len(C)
  BY <1>1, <1>2, <1>3, SMT, SMTT(60)
<1> HIDE DEF C, L
<1>8. SharesStart(C, L)
  BY <1>2, <1>3, <1>5, <1>6, <1>7, Zenon DEF SharesStart
<1> QED
  BY <1>8, Zenon DEF C, L

(* The byte 255, which only the body has. *)
LEMMA SharesIac ==
    ASSUME NEW B, NEW K, SharesStart(B, K), IAC \in Byte
    PROVE  SharesStart(Append(B, IAC), K)
<1> DEFINE C == Append(B, IAC)
<1>1. B \in Seq(Byte) /\ K \in Seq(Byte) /\ Len(K) <= Len(B) /\ Len(B) \in Nat /\ Len(K) \in Nat
  BY DEF SharesStart
<1>2. /\ C \in Seq(Byte) /\ Len(C) = Len(B) + 1 /\ C[Len(B) + 1] = IAC
      /\ \A h \in 1 .. Len(B) : C[h] = B[h]
  BY <1>1
<1>3. Len(B) + 1 \in 1 .. Len(C) /\ Len(K) <= Len(C)
  BY <1>1, <1>2, SMT, SMTT(60)
<1>4. ASSUME NEW i \in 1 .. Len(C), \A h \in 1 .. i : C[h] # IAC
      PROVE  i <= Len(K) /\ K[i] = C[i]
  <2>1. i # Len(B) + 1
    <3> SUFFICES ASSUME i = Len(B) + 1 PROVE FALSE
      OBVIOUS
    <3>1. i \in 1 .. i
      BY <1>1, SMT, SMTT(60)
    <3> QED
      BY <1>2, <1>4, <3>1, Zenon
  <2>2. i \in 1 .. Len(B) /\ \A h \in 1 .. i : h \in 1 .. Len(B)
    BY <1>1, <1>2, <2>1, SMT, SMTT(60)
  <2>3. \A h \in 1 .. i : B[h] # IAC
    BY <1>2, <1>4, <2>2, Zenon
  <2>4. i <= Len(K) /\ K[i] = B[i]
    BY <2>2, <2>3, Zenon DEF SharesStart
  <2> QED
    BY <1>2, <2>2, <2>4, Zenon
<1> HIDE DEF C
<1>5. SharesStart(C, K)
  BY <1>1, <1>2, <1>3, <1>4, Zenon DEF SharesStart
<1> QED
  BY <1>5, Zenon DEF C

(* A payload and what is kept of it begin alike. *)
LEMMA KeptShares ==
    ASSUME NEW s \in Seq(Byte), NEW a \in Nat \ {0}, NEW j \in a - 1 .. Len(s)
    PROVE  SharesStart(Body(s, a, j), Kept(s, a, j))
<1> DEFINE P == {i \in a - 1 .. Len(s) : SharesStart(Body(s, a, i), Kept(s, a, i))}
<1>0. a - 1 <= Len(s) /\ a - 1 \in Nat /\ Len(s) \in Nat
  OBVIOUS
<1>1. a - 1 \in P
  <2>1. a - 1 \in a - 1 .. Len(s)
    BY <1>0
  <2>2. Body(s, a, a - 1) = <<>> /\ Kept(s, a, a - 1) = <<>>
    BY <1>0, BodyStep, KeptStep, Zenon
  <2>3. SharesStart(<<>>, <<>>)
    BY SMT, SMTT(60) DEF SharesStart
  <2> QED
    BY <2>1, <2>2, <2>3, Zenon
<1>2. ASSUME NEW i \in a - 1 .. Len(s) - 1, i \in P PROVE i + 1 \in P
  <2>1. i + 1 \in a .. Len(s) /\ (i + 1) - 1 = i /\ i + 1 \in 1 .. Len(s) /\ i + 1 \in a - 1 .. Len(s)
    BY <1>0
  <2>2. s[i + 1] \in Byte /\ IAC \in Byte
    BY <2>1 DEF Byte
  <2> DEFINE x == s[i + 1]
             e == Escaped(s, a, i + 1)
  <2>3. Body(s, a, i + 1) = IF x = IAC <=> e THEN Append(Body(s, a, i), x) ELSE Body(s, a, i)
    BY <1>0, <2>1, BodyStep, ZenonT(60)
  <2>4. Kept(s, a, i + 1) = IF x # IAC /\ ~e THEN Append(Kept(s, a, i), x) ELSE Kept(s, a, i)
    BY <1>0, <2>1, KeptStep, ZenonT(60)
  <2>5. SharesStart(Body(s, a, i), Kept(s, a, i))
    BY <1>2, Zenon
  <2> HIDE DEF x, e
  <2>6. SharesStart(Body(s, a, i + 1), Kept(s, a, i + 1))
    <3>1. CASE x # IAC /\ ~e
      BY <2>2, <2>3, <2>4, <2>5, <3>1, SharesBoth, Zenon DEF x
    <3>2. CASE x = IAC /\ e
      BY <2>2, <2>3, <2>4, <2>5, <3>2, SharesIac, Zenon
    <3>3. CASE ~(x = IAC <=> e)
      <4>1. ~(x # IAC /\ ~e)
        BY <3>3, Zenon
      <4> QED
        BY <2>3, <2>4, <2>5, <3>3, <4>1, Zenon
    <3>4. (x # IAC /\ ~e) \/ (x = IAC /\ e) \/ ~(x = IAC <=> e)
      BY Zenon DEF e
    <3> QED
      BY <3>1, <3>2, <3>3, <3>4, Zenon
  <2> QED
    BY <2>1, <2>6, Zenon
<1>3. \A i \in a - 1 .. Len(s) : i \in P
  <2> HIDE DEF P
  <2> QED
    BY <1>0, <1>1, <1>2, Induct, Zenon
<1> QED
  BY <1>3, Zenon

-----------------------------------------------------------------------------
(* Units *)

(* The kinds of units. *)
LEMMA SizeForms ==
    ASSUME NEW s \in Seq(Byte), NEW p \in 1 .. Len(s) + 1
    PROVE  /\ p = Len(s) + 1 => Size(s, p) = 0
           /\ p <= Len(s) /\ s[p] # IAC => Size(s, p) = 1
           /\ p = Len(s) /\ s[p] = IAC => Size(s, p) = 0
           /\ p < Len(s) /\ s[p] = IAC /\ s[p + 1] \in Verbs
                => Size(s, p) = IF p + 2 > Len(s) THEN 0 ELSE 3
           /\ p < Len(s) /\ s[p] = IAC /\ s[p + 1] = SB
                => Size(s, p) = IF Ends(s, p + 2) = {} THEN 0
                                ELSE Min(Ends(s, p + 2)) + 1 - p
           /\ p < Len(s) /\ s[p] = IAC /\ s[p + 1] # SB /\ s[p + 1] \notin Verbs
                => Size(s, p) = 2
<1> DEFINE E == Ends(s, p + 2)
           m == Min(E)
<1>1. Len(s) \in Nat /\ p \in Nat /\ SB \notin Verbs
  BY IacAssumption
<1>2. Size(s, p) = CASE p > Len(s) -> 0
                     [] p <= Len(s) /\ s[p] # IAC -> 1
                     [] p = Len(s) /\ s[p] = IAC -> 0
                     [] p < Len(s) /\ s[p] = IAC /\ s[p + 1] \in Verbs -> IF p + 2 > Len(s) THEN 0 ELSE 3
                     [] p < Len(s) /\ s[p] = IAC /\ s[p + 1] = SB -> IF E = {} THEN 0 ELSE m + 1 - p
                     [] OTHER -> 2
  BY Zenon DEF Size
<1> HIDE DEF E, m
<1>3. CASE p = Len(s) + 1
  BY <1>1, <1>2, <1>3, SMT, SMTT(60)
<1>4. CASE p <= Len(s) /\ s[p] # IAC
  BY <1>1, <1>2, <1>4, SMT, SMTT(60)
<1>5. CASE p = Len(s) /\ s[p] = IAC
  BY <1>1, <1>2, <1>5, SMT, SMTT(60)
<1>6. CASE p < Len(s) /\ s[p] = IAC
  <2>1. s[p + 1] \in Verbs => Size(s, p) = IF p + 2 > Len(s) THEN 0 ELSE 3
    BY <1>1, <1>2, <1>6, SMT, SMTT(60)
  <2>2. s[p + 1] = SB => Size(s, p) = IF E = {} THEN 0 ELSE m + 1 - p
    BY <1>1, <1>2, <1>6, SMT, SMTT(60)
  <2>3. s[p + 1] # SB /\ s[p + 1] \notin Verbs => Size(s, p) = 2
    BY <1>1, <1>2, <1>6, SMT, SMTT(60)
  <2>4. ~(p = Len(s) + 1) /\ ~(p = Len(s)) /\ s[p] = IAC
    BY <1>1, <1>6
  <2> QED
    BY <2>1, <2>2, <2>3, <2>4, Zenon DEF E, m
<1> QED
  BY <1>1, <1>3, <1>4, <1>5, <1>6, SMT, SMTT(60)

(* Where a payload ends. *)
LEMMA EndsNat ==
    ASSUME NEW s \in Seq(Byte), NEW a \in Nat \ {0}
    PROVE  /\ Ends(s, a) \in SUBSET Nat
           /\ \A j \in Ends(s, a) : /\ j \in a + 1 .. Len(s) /\ s[j] = SE
                                    /\ Escaped(s, a, j)
<1>1. Ends(s, a) \subseteq a .. Len(s)
  BY Zenon DEF Ends
<1>2. Ends(s, a) \in SUBSET Nat
  BY <1>1
<1>3. ASSUME NEW j \in Ends(s, a)
      PROVE  j \in a + 1 .. Len(s) /\ s[j] = SE /\ Escaped(s, a, j)
  <2>1. j \in a .. Len(s) /\ s[j] = SE /\ Escaped(s, a, j)
    BY <1>3, Zenon DEF Ends
  <2>2. a \in Nat
    OBVIOUS
  <2>3. ~Escaped(s, a, a)
    BY <2>2, EscapedFirst, Zenon
  <2>4. j # a
    BY <2>1, <2>3, Zenon
  <2>5. j \in a + 1 .. Len(s)
    BY <2>1, <2>4
  <2> QED
    BY <2>1, <2>5, Zenon
<1> QED
  BY <1>2, <1>3, Zenon

(* A complete unit lies within the stream.  A payload has an option byte or *)
(* at least the pair that ends it.                                          *)
LEMMA SizeType ==
    ASSUME NEW s \in Seq(Byte), NEW p \in 1 .. Len(s) + 1
    PROVE  /\ Size(s, p) \in Nat /\ p + Size(s, p) \in p .. Len(s) + 1
           /\ Size(s, p) > 0 => p <= Len(s)
           /\ p < Len(s) /\ s[p] = IAC /\ s[p + 1] = SB /\ Size(s, p) > 0
                => /\ Ends(s, p + 2) # {} /\ p + Size(s, p) - 1 = Min(Ends(s, p + 2))
                   /\ p + Size(s, p) - 3 \in p + 1 .. Len(s)
           /\ p < Len(s) /\ s[p] = IAC /\ s[p + 1] \in Verbs /\ Size(s, p) > 0
                => p + 2 <= Len(s)
<1> DEFINE m == Min(Ends(s, p + 2))
<1>1. Len(s) \in Nat /\ p \in Nat /\ SB \notin Verbs /\ p + 2 \in Nat \ {0}
  BY IacAssumption
<1>2. Ends(s, p + 2) # {} => m \in p + 3 .. Len(s)
  <2>1. Ends(s, p + 2) \in SUBSET Nat /\ \A j \in Ends(s, p + 2) : j \in (p + 2) + 1 .. Len(s)
    BY <1>1, EndsNat, Zenon
  <2>2. Ends(s, p + 2) # {} => m \in Ends(s, p + 2)
    BY <2>1, MinIsLeast, Zenon
  <2>3. (p + 2) + 1 = p + 3
    BY <1>1
  <2> QED
    BY <2>1, <2>2, <2>3, Zenon
<1> DEFINE z == Size(s, p)
           E == Ends(s, p + 2)
<1>3. /\ p = Len(s) + 1 => z = 0
      /\ p <= Len(s) /\ s[p] # IAC => z = 1
      /\ p = Len(s) /\ s[p] = IAC => z = 0
      /\ p < Len(s) /\ s[p] = IAC /\ s[p + 1] \in Verbs
           => z = IF p + 2 > Len(s) THEN 0 ELSE 3
      /\ p < Len(s) /\ s[p] = IAC /\ s[p + 1] = SB
           => z = IF E = {} THEN 0 ELSE m + 1 - p
      /\ p < Len(s) /\ s[p] = IAC /\ s[p + 1] # SB /\ s[p + 1] \notin Verbs
           => z = 2
  BY SizeForms, Zenon
<1>4. E # {} => m \in p + 3 .. Len(s)
  BY <1>2, Zenon
<1> HIDE DEF z, E, m
<1>5. /\ z \in Nat /\ p + z \in p .. Len(s) + 1
      /\ z > 0 => p <= Len(s)
      /\ p < Len(s) /\ s[p] = IAC /\ s[p + 1] = SB /\ z > 0
           => E # {} /\ p + z - 1 = m /\ p + z - 3 \in p + 1 .. Len(s)
      /\ p < Len(s) /\ s[p] = IAC /\ s[p + 1] \in Verbs /\ z > 0 => p + 2 <= Len(s)
  <2>1. CASE p = Len(s) + 1
    BY <1>1, <1>3, <2>1, SMT, SMTT(60)
  <2>2. CASE p <= Len(s) /\ s[p] # IAC
    BY <1>1, <1>3, <2>2, SMT, SMTT(60)
  <2>3. CASE p = Len(s) /\ s[p] = IAC
    BY <1>1, <1>3, <2>3, SMT, SMTT(60)
  <2>4. CASE p < Len(s) /\ s[p] = IAC /\ s[p + 1] \in Verbs
    BY <1>1, <1>3, <2>4, SMT, SMTT(60)
  <2>5. CASE p < Len(s) /\ s[p] = IAC /\ s[p + 1] = SB
    <3>1. s[p + 1] \notin Verbs /\ p < Len(s)
      BY <1>1, <2>5, Zenon
    <3>2. CASE E = {}
      <4>1. z = 0
        BY <1>3, <2>5, <3>2, Zenon
      <4> QED
        BY <1>1, <3>1, <4>1, SMT, SMTT(60)
    <3>3. CASE E # {}
      <4>1. z = m + 1 - p /\ m \in p + 3 .. Len(s)
        BY <1>3, <1>4, <2>5, <3>3, ZenonT(60)
      <4> QED
        BY <1>1, <3>1, <3>3, <4>1, SMT, SMTT(60)
    <3> QED
      BY <3>2, <3>3, Zenon
  <2>6. CASE p < Len(s) /\ s[p] = IAC /\ s[p + 1] # SB /\ s[p + 1] \notin Verbs
    BY <1>1, <1>3, <2>6, SMT, SMTT(60)
  <2> QED
    BY <1>1, <2>1, <2>2, <2>3, <2>4, <2>5, <2>6, SMT, SMTT(60)
<1> QED
  BY <1>5, Zenon DEF z, E, m

(* What the kinds mean. *)
LEMMA MeaningForms ==
    ASSUME NEW s, NEW p
    PROVE  /\ s[p] # IAC => Meaning(s, p) = <<Data(s[p])>>
           /\ s[p] = IAC /\ s[p + 1] = IAC => Meaning(s, p) = <<Data(IAC)>>
           /\ s[p] = IAC /\ s[p + 1] \in Verbs
                => Meaning(s, p) = <<Option(s[p + 1], s[p + 2])>>
           /\ s[p] = IAC /\ s[p + 1] = SB
                => Meaning(s, p) = <<Block(Body(s, p + 2, p + Size(s, p) - 3))>>
           /\ s[p] = IAC /\ s[p + 1] # IAC /\ s[p + 1] # SB /\ s[p + 1] \notin Verbs
                => Meaning(s, p) = <<>>
<1>1. SB \notin Verbs /\ IAC \notin Verbs /\ IAC # SB
  BY IacAssumption, Zenon
<1> DEFINE v == <<Data(s[p])>>
           w == <<Data(IAC)>>
           x == <<Option(s[p + 1], s[p + 2])>>
           y == <<Block(Body(s, p + 2, p + Size(s, p) - 3))>>
           b == s[p]
           c == s[p + 1]
<1>2. Meaning(s, p) = CASE b # IAC -> v
                        [] b = IAC /\ c = IAC -> w
                        [] b = IAC /\ c \in Verbs -> x
                        [] b = IAC /\ c = SB -> y
                        [] OTHER -> <<>>
  BY Zenon DEF Meaning
<1> HIDE DEF v, w, x, y, b, c
<1>3. /\ b # IAC => Meaning(s, p) = v
      /\ b = IAC /\ c = IAC => Meaning(s, p) = w
      /\ b = IAC /\ c \in Verbs => Meaning(s, p) = x
      /\ b = IAC /\ c = SB => Meaning(s, p) = y
      /\ b = IAC /\ c # IAC /\ c # SB /\ c \notin Verbs => Meaning(s, p) = <<>>
  BY <1>1, <1>2
<1> QED
  BY <1>3, Zenon DEF v, w, x, y, b, c

(* A block is an event. *)
LEMMA BlockType ==
    ASSUME NEW body \in Seq(Byte)
    PROVE  Block(body) \in Event
<1> DEFINE n == IF Len(body) < SbMax THEN Len(body) ELSE SbMax
           payload == SubSeq(body, 2, n)
           o == IF payload = <<>> THEN NoByte ELSE body[1]
<1>1. body \in Seq(Field) /\ n \in 0 .. Len(body)
  BY IacAssumption DEF Field
<1> HIDE DEF n
<1>2. payload \in Seq(Field) /\ (n < 2 => payload = <<>>)
  BY <1>1
<1>3. o \in Field
  <2>1. n >= 2 => body[1] \in Field
    BY <1>1
  <2>2. n >= 2 \/ n < 2
    BY <1>1
  <2>3. NoByte \in Field
    BY Zenon DEF Field
  <2> QED
    BY <1>2, <2>1, <2>2, <2>3, Zenon
<1>4. Subneg(o, payload) \in Event
  BY <1>2, <1>3, EventTypes, Zenon
<1> QED
  BY <1>4, Zenon DEF Block, n

(* The block of a payload is that of what is kept, or has a byte 255.      *)
LEMMA BlockAgrees ==
    ASSUME NEW B, NEW K, SharesStart(B, K)
    PROVE  Block(K) = Block(B) \/ Escapes(Block(B))
<1> DEFINE n == IF Len(B) < SbMax THEN Len(B) ELSE SbMax
           k == IF Len(K) < SbMax THEN Len(K) ELSE SbMax
           p == SubSeq(B, 2, n)
           r == SubSeq(K, 2, k)
<1>1. /\ B \in Seq(Byte) /\ K \in Seq(Byte) /\ Len(K) <= Len(B)
      /\ Len(B) \in Nat /\ Len(K) \in Nat /\ SbMax \in Nat \ {0}
  BY IacAssumption DEF SharesStart
<1>2. /\ n \in 0 .. Len(B) /\ k \in 0 .. Len(K) /\ k <= n
      /\ n = 0 => Len(B) = 0
      /\ n <= Len(K) => k = n
  BY <1>1, SMT, SMTT(60)
<1>3. /\ Block(B) = Subneg(IF p = <<>> THEN NoByte ELSE B[1], p)
      /\ Block(K) = Subneg(IF r = <<>> THEN NoByte ELSE K[1], r)
  BY Zenon DEF Block
<1> HIDE DEF n, k
<1>4. /\ n <= 1 => p = <<>>
      /\ n > 1 => p = [i \in 1 .. n - 1 |-> B[i + 1]] /\ p # <<>>
  BY <1>1, <1>2, SMT, SMTT(60)
<1>5. /\ k <= 1 => r = <<>>
      /\ k > 1 => r = [i \in 1 .. k - 1 |-> K[i + 1]] /\ r # <<>>
  BY <1>1, <1>2, SMT, SMTT(60)
<1> HIDE DEF p, r
<1>6. CASE n <= 1
  <2>1. k <= 1
    BY <1>1, <1>2, <1>6, SMT, SMTT(60)
  <2> QED
    BY <1>3, <1>4, <1>5, <1>6, <2>1, Zenon
<1>7. CASE n > 1 /\ \A h \in 1 .. n : B[h] # IAC
  <2>1. n \in 1 .. Len(B) /\ 1 \in 1 .. n
    BY <1>1, <1>2, <1>7, SMT, SMTT(60)
  <2>2. n <= Len(K)
    BY <1>7, <2>1, Zenon DEF SharesStart
  <2>3. k = n
    BY <1>2, <2>2, Zenon
  <2>4. ASSUME NEW i \in 1 .. n PROVE K[i] = B[i]
    <3>1. i \in 1 .. Len(B) /\ \A h \in 1 .. i : h \in 1 .. n
      BY <1>1, <1>2, <2>1, SMT, SMTT(60)
    <3> QED
      BY <1>7, <3>1, Zenon DEF SharesStart
  <2>5. \A i \in 1 .. n - 1 : i + 1 \in 1 .. n
    BY <1>1, <1>2, SMT, SMTT(60)
  <2>6. r = p
    <3>1. r = [i \in 1 .. n - 1 |-> K[i + 1]] /\ p = [i \in 1 .. n - 1 |-> B[i + 1]]
      BY <1>4, <1>5, <1>7, <2>3, Zenon
    <3>2. \A i \in 1 .. n - 1 : K[i + 1] = B[i + 1]
      BY <2>4, <2>5, Zenon
    <3> QED
      BY <3>1, <3>2, Zenon
  <2>7. K[1] = B[1]
    BY <2>1, <2>4, Zenon
  <2>8. Block(K) = Block(B)
    <3>1. p # <<>> /\ r # <<>>
      BY <1>4, <1>7, <2>6, Zenon
    <3>2. Block(B) = Subneg(B[1], p) /\ Block(K) = Subneg(K[1], r)
      BY <1>3, <3>1, Zenon
    <3> QED
      BY <2>6, <2>7, <3>2, Zenon
  <2> QED
    BY <2>8, Zenon
<1>8. ASSUME n > 1, NEW h \in 1 .. n, B[h] = IAC PROVE Escapes(Block(B))
  <2>1. Block(B) = Subneg(B[1], p) /\ p = [i \in 1 .. n - 1 |-> B[i + 1]]
    BY <1>3, <1>4, <1>8, Zenon
  <2>2. /\ Subneg(B[1], p).event = "subneg" /\ Subneg(B[1], p).opt = B[1]
        /\ Subneg(B[1], p).bytes = p
    BY DEF Subneg
  <2>3. CASE h = 1
    BY <1>8, <2>1, <2>2, <2>3, Zenon DEF Escapes
  <2>4. CASE h # 1
    <3>1. h - 1 \in 1 .. n - 1 /\ (h - 1) + 1 = h
      BY <1>1, <1>2, <1>8, <2>4, SMT, SMTT(60)
    <3>2. h - 1 \in DOMAIN p /\ p[h - 1] = IAC
      BY <1>8, <2>1, <3>1, Zenon
    <3> QED
      BY <2>1, <2>2, <3>2, Zenon DEF Escapes
  <2> QED
    BY <2>3, <2>4, Zenon
<1>9. n <= 1 \/ n > 1
  BY <1>1, <1>2, SMT, SMTT(60)
<1> QED
  BY <1>6, <1>7, <1>8, <1>9, Zenon

(* What a complete unit is reported as are events. *)
LEMMA MeaningType ==
    ASSUME NEW s \in Seq(Byte), NEW p \in 1 .. Len(s) + 1, Size(s, p) > 0
    PROVE  Meaning(s, p) \in Seq(Event)
<1>0. \A e \in Event : <<e>> \in Seq(Event)
  OBVIOUS
<1>1. /\ p <= Len(s) /\ p \in Nat /\ Len(s) \in Nat
      /\ p < Len(s) /\ s[p] = IAC /\ s[p + 1] = SB
           => p + Size(s, p) - 3 \in p + 1 .. Len(s)
      /\ p < Len(s) /\ s[p] = IAC /\ s[p + 1] \in Verbs => p + 2 <= Len(s)
  <2>1. p \in Nat /\ Len(s) \in Nat
    OBVIOUS
  <2> QED
    BY <2>1, SizeType, Zenon
<1>2. p < Len(s) \/ s[p] # IAC
  <2>1. p = Len(s) /\ s[p] = IAC => Size(s, p) = 0
    BY SizeForms, Zenon
  <2>2. ~(0 > 0) /\ (p < Len(s) \/ p = Len(s))
    BY <1>1
  <2> QED
    BY <2>1, <2>2, Zenon
<1>3. CASE s[p] # IAC
  <2>1. s[p] \in Byte
    BY <1>1
  <2>2. Data(s[p]) \in Event
    BY <2>1, EventTypes, Zenon
  <2> QED
    BY <1>0, <1>3, <2>2, MeaningForms, Zenon
<1>4. CASE s[p] = IAC /\ p < Len(s) /\ s[p + 1] = IAC
  <2>1. Data(IAC) \in Event
    BY EventTypes, Zenon DEF Byte
  <2> QED
    BY <1>0, <1>4, <2>1, MeaningForms, Zenon
<1>5. CASE s[p] = IAC /\ p < Len(s) /\ s[p + 1] \in Verbs
  <2>1. s[p + 2] \in Byte
    BY <1>1, <1>5
  <2>2. Option(s[p + 1], s[p + 2]) \in Event
    BY <1>5, <2>1, EventTypes, Zenon
  <2> QED
    BY <1>0, <1>5, <2>2, MeaningForms, Zenon
<1>6. CASE s[p] = IAC /\ p < Len(s) /\ s[p + 1] = SB
  <2> DEFINE j == p + Size(s, p) - 3
  <2>1. j \in p + 1 .. Len(s)
    BY <1>1, <1>6, Zenon
  <2>2. p + 2 \in Nat \ {0} /\ p + 1 = (p + 2) - 1
    BY <1>1
  <2>3. j \in (p + 2) - 1 .. Len(s)
    BY <2>1, <2>2, Zenon
  <2> HIDE DEF j
  <2>4. Body(s, p + 2, j) \in Seq(Byte)
    BY <2>2, <2>3, BodyType, Zenon
  <2>5. Block(Body(s, p + 2, j)) \in Event
    BY <2>4, BlockType, Zenon
  <2> QED
    BY <1>0, <1>6, <2>5, MeaningForms, Zenon DEF j
<1>7. CASE s[p] = IAC /\ s[p + 1] # IAC /\ s[p + 1] # SB /\ s[p + 1] \notin Verbs
  <2>1. <<>> \in Seq(Event)
    OBVIOUS
  <2> QED
    BY <1>7, <2>1, MeaningForms, Zenon
<1> QED
  BY <1>2, <1>3, <1>4, <1>5, <1>6, <1>7, Zenon

\* The value of From at p, given what follows.
UnitAt(s, f, p) ==
    IF Size(s, p) = 0 THEN [events |-> <<>>, rest |-> p]
    ELSE [events |-> Meaning(s, p) \o f[p + Size(s, p)].events,
          rest   |-> f[p + Size(s, p)].rest]

\* The definition of Units as an equation, and one that holds from n on.
UnitLoop(s, f)     == [p \in 1 .. Len(s) + 1 |-> UnitAt(s, f, p)]
UnitsFrom(s, n, f) == \A p \in n .. Len(s) + 1 : f[p] = UnitAt(s, f, p)

(* A unit depends only on what comes after it. *)
LEMMA UnitAtSame ==
    ASSUME NEW s \in Seq(Byte), NEW p \in 1 .. Len(s) + 1, NEW f, NEW g,
           \A i \in p + 1 .. Len(s) + 1 : g[i] = f[i]
    PROVE  UnitAt(s, g, p) = UnitAt(s, f, p)
<1>1. CASE Size(s, p) = 0
  BY <1>1, Zenon DEF UnitAt
<1>2. CASE Size(s, p) # 0
  <2> DEFINE z == Size(s, p)
  <2>1. z \in Nat /\ p + z \in p .. Len(s) + 1
    BY SizeType, Zenon
  <2>2. z # 0
    BY <1>2, Zenon
  <2> HIDE DEF z
  <2>3. p + z \in p + 1 .. Len(s) + 1
    BY <2>1, <2>2
  <2>4. g[p + Size(s, p)] = f[p + Size(s, p)]
    BY <2>3, Zenon DEF z
  <2> QED
    BY <1>2, <2>4, Zenon DEF UnitAt
<1> QED
  BY <1>1, <1>2, Zenon

(* The equation has a solution: one for what follows a unit is continued   *)
(* to the unit.                                                            *)
LEMMA UnitsSolved ==
    ASSUME NEW s \in Seq(Byte)
    PROVE  \E f : f = UnitLoop(s, f)
<1> DEFINE n == Len(s) + 1
           P == {m \in 1 .. n : \E f : UnitsFrom(s, m, f)}
<1>1. n \in Nat /\ n >= 1
  OBVIOUS
<1>2. ASSUME NEW m \in 1 .. n, \A j \in m + 1 .. n : j \in P PROVE m \in P
  <2>1. PICK f : \A p \in m + 1 .. n : f[p] = UnitAt(s, f, p)
    <3>1. CASE m = n
      <4>1. m + 1 .. n = {}
        BY <1>1, <3>1, SMT, SMTT(60)
      <4> QED
        BY <4>1, Zenon
    <3>2. CASE m # n
      <4>1. m + 1 \in m + 1 .. n
        BY <1>1, <3>2
      <4>2. m + 1 \in P
        BY <1>2, <4>1, Zenon
      <4> QED
        BY <4>2, Zenon DEF UnitsFrom
    <3> QED
      BY <3>1, <3>2, Zenon
  <2> DEFINE v == UnitAt(s, f, m)
             g == [p \in m .. n |-> IF p = m THEN v ELSE f[p]]
  <2>2. ASSUME NEW p \in m + 1 .. n PROVE g[p] = f[p]
    <3>1. p \in m .. n /\ p # m
      BY <1>1
    <3> QED
      BY <3>1, Zenon
  <2>3. g[m] = v
    <3>1. m \in m .. n
      BY <1>1
    <3> QED
      BY <3>1, Zenon
  <2> HIDE DEF g, v
  <2>4. ASSUME NEW p \in m .. n PROVE g[p] = UnitAt(s, g, p)
    <3>1. /\ p \in 1 .. Len(s) + 1
          /\ \A i \in p + 1 .. Len(s) + 1 : i \in m + 1 .. n
      BY <1>1
    <3>2. \A i \in p + 1 .. Len(s) + 1 : g[i] = f[i]
      BY <2>2, <3>1, Zenon
    <3>3. UnitAt(s, g, p) = UnitAt(s, f, p)
      BY <3>1, <3>2, UnitAtSame, Zenon
    <3>4. CASE p = m
      BY <2>3, <3>3, <3>4, Zenon DEF v
    <3>5. CASE p # m
      <4>1. p \in m + 1 .. n
        BY <3>5
      <4> QED
        BY <2>1, <2>2, <3>3, <4>1, Zenon
    <3> QED
      BY <3>4, <3>5, Zenon
  <2>5. UnitsFrom(s, m, g)
    BY <2>4, Zenon DEF UnitsFrom
  <2> QED
    BY <2>5, Zenon
<1>3. \A m \in 1 .. n : m \in P
  <2> HIDE DEF P, n
  <2> QED
    BY <1>1, <1>2, InductDown, Zenon
<1>4. 1 \in P
  <2>1. 1 \in 1 .. n
    BY <1>1
  <2> QED
    BY <1>3, <2>1, Zenon
<1>5. PICK f : UnitsFrom(s, 1, f)
  BY <1>4, Zenon
<1> DEFINE h == [p \in 1 .. Len(s) + 1 |-> f[p]]
<1>6. ASSUME NEW p \in 1 .. Len(s) + 1 PROVE f[p] = UnitAt(s, h, p)
  <2>1. \A i \in p + 1 .. Len(s) + 1 : i \in 1 .. Len(s) + 1
    OBVIOUS
  <2>2. \A i \in p + 1 .. Len(s) + 1 : h[i] = f[i]
    BY <2>1, Zenon
  <2> HIDE DEF h
  <2>3. UnitAt(s, h, p) = UnitAt(s, f, p)
    BY <2>2, UnitAtSame, Zenon
  <2> QED
    BY <1>5, <2>3, Zenon DEF UnitsFrom
<1>7. h = [p \in 1 .. Len(s) + 1 |-> UnitAt(s, h, p)]
  <2> DEFINE w(p) == UnitAt(s, h, p)
  <2>1. \A p \in 1 .. Len(s) + 1 : f[p] = w(p)
    BY <1>6, Zenon
  <2> HIDE DEF w
  <2>2. h = [p \in 1 .. Len(s) + 1 |-> w(p)]
    BY <2>1, Zenon
  <2> QED
    BY <2>2, Zenon DEF w
<1> HIDE DEF h
<1>8. h = UnitLoop(s, h)
  BY <1>7, Zenon DEF UnitLoop
<1> QED
  BY <1>8, Zenon

(* Units one by one. *)
LEMMA UnitsStep ==
    ASSUME NEW s \in Seq(Byte), NEW p \in 1 .. Len(s) + 1
    PROVE  Units(s)[p] = UnitAt(s, Units(s), p)
<1> DEFINE f == CHOOSE g : g = UnitLoop(s, g)
<1>1. f = UnitLoop(s, f)
  BY UnitsSolved, Zenon
<1>2. Units(s) = f
  BY Zenon DEF Units, UnitLoop, UnitAt
<1> HIDE DEF f
<1>3. f = [i \in 1 .. Len(s) + 1 |-> UnitAt(s, f, i)]
  BY <1>1, Zenon DEF UnitLoop
<1> DEFINE w(i) == UnitAt(s, f, i)
<1>4. f = [i \in 1 .. Len(s) + 1 |-> w(i)]
  BY <1>3, Zenon
<1> SUFFICES f[p] = w(p)
  BY <1>2, Zenon
<1> HIDE DEF w
<1> QED
  BY <1>4, Zenon

(* The same, a unit at a time. *)
LEMMA UnitsNext ==
    ASSUME NEW s \in Seq(Byte), NEW p \in 1 .. Len(s) + 1
    PROVE  /\ Size(s, p) = 0 => /\ Units(s)[p].events = <<>>
                                /\ Units(s)[p].rest = p
           /\ Size(s, p) # 0 =>
                /\ p + Size(s, p) \in p + 1 .. Len(s) + 1
                /\ Units(s)[p].events = Meaning(s, p) \o Units(s)[p + Size(s, p)].events
                /\ Units(s)[p].rest = Units(s)[p + Size(s, p)].rest
<1>1. Units(s)[p] = UnitAt(s, Units(s), p)
  BY UnitsStep, Zenon
<1>2. CASE Size(s, p) = 0
  <2>1. Units(s)[p] = [events |-> <<>>, rest |-> p]
    BY <1>1, <1>2, Zenon DEF UnitAt
  <2>2. Units(s)[p].events = <<>> /\ Units(s)[p].rest = p
    BY <2>1
  <2> QED
    BY <1>2, <2>2, Zenon
<1>3. CASE Size(s, p) # 0
  <2> DEFINE z == Size(s, p)
  <2>1. z \in Nat /\ p + z \in p .. Len(s) + 1 /\ z # 0
    BY <1>3, SizeType, Zenon
  <2> HIDE DEF z
  <2>2. p + z \in p + 1 .. Len(s) + 1
    BY <2>1, SMT, SMTT(60)
  <2>3. Units(s)[p] = [events |-> Meaning(s, p) \o Units(s)[p + Size(s, p)].events,
                       rest   |-> Units(s)[p + Size(s, p)].rest]
    BY <1>1, <1>3, Zenon DEF UnitAt
  <2> DEFINE e == Meaning(s, p) \o Units(s)[p + Size(s, p)].events
             r == Units(s)[p + Size(s, p)].rest
             u == Units(s)[p]
  <2>4. u = [events |-> e, rest |-> r]
    BY <2>3, Zenon
  <2> HIDE DEF e, r, u
  <2>5. u.events = e /\ u.rest = r
    BY <2>4
  <2> QED
    BY <1>3, <2>2, <2>5, Zenon DEF z, e, r, u
<1> QED
  BY <1>2, <1>3, Zenon

(* The units end at one that is not complete. *)
LEMMA UnitsType ==
    ASSUME NEW s \in Seq(Byte)
    PROVE  \A p \in 1 .. Len(s) + 1 :
             /\ Units(s)[p].events \in Seq(Event)
             /\ Units(s)[p].rest \in p .. Len(s) + 1
             /\ Size(s, Units(s)[p].rest) = 0
<1> DEFINE n == Len(s) + 1
           P == {p \in 1 .. n : /\ Units(s)[p].events \in Seq(Event)
                                /\ Units(s)[p].rest \in p .. n
                                /\ Size(s, Units(s)[p].rest) = 0}
<1>0. n \in Nat
  OBVIOUS
<1>1. ASSUME NEW p \in 1 .. n, \A j \in p + 1 .. n : j \in P PROVE p \in P
  <2>1. CASE Size(s, p) = 0
    <3>1. Units(s)[p].events = <<>> /\ Units(s)[p].rest = p
      BY <2>1, UnitsNext, Zenon
    <3>2. <<>> \in Seq(Event) /\ p \in p .. n
      OBVIOUS
    <3> QED
      BY <2>1, <3>1, <3>2, Zenon
  <2>2. CASE Size(s, p) # 0
    <3> DEFINE q == p + Size(s, p)
    <3>1. /\ q \in p + 1 .. n
          /\ Units(s)[p].events = Meaning(s, p) \o Units(s)[q].events
          /\ Units(s)[p].rest = Units(s)[q].rest
      BY <2>2, UnitsNext, Zenon
    <3>2. q \in P
      BY <1>1, <3>1, Zenon
    <3>3. Size(s, p) > 0
      <4>1. Size(s, p) \in Nat
        BY SizeType, Zenon
      <4> QED
        BY <2>2, <4>1
    <3>4. Meaning(s, p) \in Seq(Event)
      BY <3>3, MeaningType, Zenon
    <3>5. \A x, y \in Seq(Event) : x \o y \in Seq(Event)
      BY SMT, SMTT(60)
    <3> HIDE DEF q
    <3>6. \A r \in q .. n : r \in p .. n
      BY <3>1
    <3> QED
      BY <3>1, <3>2, <3>4, <3>5, <3>6, Zenon
  <2> QED
    BY <2>1, <2>2, Zenon
<1>2. \A p \in 1 .. n : p \in P
  <2> HIDE DEF P, n
  <2> QED
    BY <1>0, <1>1, InductDown, Zenon
<1> QED
  BY <1>2, Zenon

(* A payload that has ended has ended where it did. *)
LEMMA EndsSame ==
    ASSUME NEW s, NEW t, Longer(s, t), NEW a \in Nat \ {0}, Ends(s, a) # {}
    PROVE  Ends(t, a) # {} /\ Min(Ends(t, a)) = Min(Ends(s, a))
<1>0. /\ s \in Seq(Byte) /\ t \in Seq(Byte) /\ Len(s) <= Len(t)
      /\ Len(s) \in Nat /\ Len(t) \in Nat
      /\ \A i \in 1 .. Len(s) : t[i] = s[i]
  BY DEF Longer
<1>1. ASSUME NEW j \in a .. Len(s) PROVE j \in Ends(t, a) <=> j \in Ends(s, a)
  <2>1. j \in a .. Len(t) /\ j \in 1 .. Len(s) /\ j \in Nat /\ j <= Len(s) + 1
    BY <1>0
  <2>2. Escaped(t, a, j) <=> Escaped(s, a, j)
    BY <2>1, EscapedSame, Zenon
  <2> QED
    BY <1>0, <1>1, <2>1, <2>2, Zenon DEF Ends
<1> DEFINE m == Min(Ends(s, a))
<1>2. Ends(s, a) \in SUBSET Nat /\ Ends(s, a) \subseteq a .. Len(s)
  <2>1. Ends(s, a) \subseteq a .. Len(s)
    BY Zenon DEF Ends
  <2> QED
    BY <2>1, <1>0, EndsNat, Zenon
<1>3. m \in Ends(s, a) /\ \A y \in Ends(s, a) : m <= y
  BY <1>2, MinIsLeast, Zenon
<1>4. m \in a .. Len(s) /\ m \in Ends(t, a)
  BY <1>1, <1>2, <1>3, Zenon
<1>5. Ends(t, a) \in SUBSET Nat /\ Ends(t, a) \subseteq a .. Len(t)
  <2>1. Ends(t, a) \subseteq a .. Len(t)
    BY Zenon DEF Ends
  <2> QED
    BY <2>1, <1>0, EndsNat, Zenon
<1> HIDE DEF m
<1>6. ASSUME NEW y \in Ends(t, a) PROVE m <= y
  <2>1. y \in a .. Len(t)
    BY <1>5, Zenon
  <2>2. CASE y <= Len(s)
    <3>1. y \in a .. Len(s)
      BY <2>1, <2>2, SMT, SMTT(60)
    <3> QED
      BY <1>1, <1>3, <3>1, Zenon
  <2>3. CASE ~(y <= Len(s))
    BY <1>0, <1>4, <2>1, <2>3, SMT, SMTT(60)
  <2> QED
    BY <2>2, <2>3, Zenon
<1>7. Min(Ends(t, a)) = m
  BY <1>4, <1>5, <1>6, LeastIsMin, Zenon
<1> QED
  BY <1>4, <1>7, Zenon DEF m

(* A unit that is complete stays what it is. *)
LEMMA UnitSame ==
    ASSUME NEW s, NEW t, Longer(s, t), NEW p \in 1 .. Len(s) + 1, Size(s, p) # 0
    PROVE  Size(t, p) = Size(s, p) /\ Meaning(t, p) = Meaning(s, p)
<1>0. /\ s \in Seq(Byte) /\ t \in Seq(Byte) /\ Len(s) <= Len(t)
      /\ Len(s) \in Nat /\ Len(t) \in Nat /\ p \in Nat
      /\ \A i \in 1 .. Len(s) : t[i] = s[i]
      /\ p \in 1 .. Len(t) + 1
  BY DEF Longer
<1>1. /\ p <= Len(s)
      /\ p < Len(s) /\ s[p] = IAC /\ s[p + 1] = SB
           => /\ Ends(s, p + 2) # {}
              /\ p + Size(s, p) - 3 \in p + 1 .. Len(s)
      /\ p < Len(s) /\ s[p] = IAC /\ s[p + 1] \in Verbs => p + 2 <= Len(s)
  <2>1. Size(s, p) \in Nat
    BY <1>0, SizeType, Zenon
  <2>2. Size(s, p) > 0
    BY <2>1
  <2> QED
    BY <1>0, <2>2, SizeType, Zenon
<1>2. p < Len(s) \/ s[p] # IAC
  <2>1. p = Len(s) /\ s[p] = IAC => Size(s, p) = 0
    BY <1>0, SizeForms, Zenon
  <2>2. p < Len(s) \/ p = Len(s)
    BY <1>0, <1>1, SMT, SMTT(60)
  <2> QED
    BY <2>1, <2>2, Zenon
<1>3. p <= Len(t) /\ p \in 1 .. Len(s) /\ t[p] = s[p]
  <2>1. p <= Len(t) /\ p \in 1 .. Len(s)
    BY <1>0, <1>1, SMT, SMTT(60)
  <2> QED
    BY <1>0, <2>1, Zenon
<1>4. CASE s[p] # IAC
  <2>1. Size(s, p) = 1
    BY <1>0, <1>1, <1>4, SizeForms, Zenon
  <2>2. t[p] # IAC
    BY <1>3, <1>4, Zenon
  <2>3. Size(t, p) = 1
    BY <1>0, <1>3, <2>2, SizeForms, Zenon
  <2>4. Meaning(s, p) = <<Data(s[p])>>
    BY <1>4, MeaningForms, Zenon
  <2>5. Meaning(t, p) = <<Data(t[p])>>
    BY <2>2, MeaningForms, Zenon
  <2> QED
    BY <1>3, <2>1, <2>3, <2>4, <2>5, Zenon
<1>5. CASE s[p] = IAC
  <2>0. /\ p < Len(s) /\ p < Len(t) /\ t[p] = IAC
        /\ p + 1 \in 1 .. Len(s) /\ t[p + 1] = s[p + 1]
    <3>1. p < Len(s)
      BY <1>2, <1>5, Zenon
    <3>2. p + 1 \in 1 .. Len(s) /\ p < Len(t)
      BY <1>0, <3>1, SMT, SMTT(60)
    <3> QED
      BY <1>0, <1>3, <1>5, <3>1, <3>2, Zenon
  <2>1. CASE s[p + 1] \in Verbs
    <3>1. p + 2 <= Len(s)
      BY <1>1, <1>5, <2>0, <2>1, ZenonT(60)
    <3>2. p + 2 \in 1 .. Len(s) /\ ~(p + 2 > Len(s)) /\ ~(p + 2 > Len(t))
      BY <1>0, <3>1, SMT, SMTT(60)
    <3>3. t[p + 2] = s[p + 2] /\ t[p + 1] \in Verbs
      BY <1>0, <2>0, <2>1, <3>2, Zenon
    <3>4. Size(s, p) = 3
      BY <1>0, <1>5, <2>0, <2>1, <3>2, SizeForms, ZenonT(60)
    <3>5. Size(t, p) = 3
      BY <1>0, <2>0, <3>2, <3>3, SizeForms, ZenonT(60)
    <3>6. Meaning(s, p) = <<Option(s[p + 1], s[p + 2])>>
      BY <1>5, <2>1, MeaningForms, Zenon
    <3>7. Meaning(t, p) = <<Option(t[p + 1], t[p + 2])>>
      BY <2>0, <3>3, MeaningForms, Zenon
    <3> QED
      BY <2>0, <3>3, <3>4, <3>5, <3>6, <3>7, ZenonT(60)
  <2>2. CASE s[p + 1] = SB
    <3> DEFINE j == p + Size(s, p) - 3
    <3>1. Ends(s, p + 2) # {} /\ j \in p + 1 .. Len(s) /\ t[p + 1] = SB
      BY <1>1, <1>5, <2>0, <2>2, ZenonT(60)
    <3>2. p + 2 \in Nat \ {0} /\ p + 1 = (p + 2) - 1
      BY <1>0, SMT, SMTT(60)
    <3>3. Ends(t, p + 2) # {} /\ Min(Ends(t, p + 2)) = Min(Ends(s, p + 2))
      BY <3>1, <3>2, EndsSame, ZenonT(60)
    <3>4. Size(s, p) = Min(Ends(s, p + 2)) + 1 - p
      BY <1>0, <1>5, <2>0, <2>2, <3>1, SizeForms, Zenon
    <3>5. Size(t, p) = Min(Ends(t, p + 2)) + 1 - p
      BY <1>0, <2>0, <3>1, <3>3, SizeForms, Zenon
    <3>6. Size(t, p) = Size(s, p)
      BY <3>3, <3>4, <3>5, Zenon
    <3>7. j \in (p + 2) - 1 .. Len(s)
      BY <3>1, <3>2, Zenon
    <3>8. Meaning(s, p) = <<Block(Body(s, p + 2, j))>>
      BY <1>5, <2>2, MeaningForms, Zenon
    <3>9. Meaning(t, p) = <<Block(Body(t, p + 2, p + Size(t, p) - 3))>>
      BY <2>0, <3>1, MeaningForms, Zenon
    <3>10. Meaning(t, p) = <<Block(Body(t, p + 2, j))>>
      BY <3>6, <3>9, Zenon
    <3> HIDE DEF j
    <3>11. Body(t, p + 2, j) = Body(s, p + 2, j)
      BY <3>2, <3>7, BodySame, ZenonT(60)
    <3> QED
      BY <3>6, <3>8, <3>10, <3>11, ZenonT(60)
  <2>3. CASE s[p + 1] = IAC
    <3>1. s[p + 1] # SB /\ s[p + 1] \notin Verbs /\ t[p + 1] # SB /\ t[p + 1] \notin Verbs
          /\ t[p + 1] = IAC
      BY <2>0, <2>3, IacAssumption, Zenon
    <3>2. Size(s, p) = 2
      BY <1>0, <1>5, <2>0, <3>1, SizeForms, Zenon
    <3>3. Size(t, p) = 2
      BY <1>0, <2>0, <3>1, SizeForms, Zenon
    <3>4. Meaning(s, p) = <<Data(IAC)>>
      BY <1>5, <2>3, MeaningForms, Zenon
    <3>5. Meaning(t, p) = <<Data(IAC)>>
      BY <2>0, <3>1, MeaningForms, Zenon
    <3> QED
      BY <3>2, <3>3, <3>4, <3>5, Zenon
  <2>4. CASE s[p + 1] # SB /\ s[p + 1] \notin Verbs /\ s[p + 1] # IAC
    <3>1. t[p + 1] # SB /\ t[p + 1] \notin Verbs /\ t[p + 1] # IAC
      BY <2>0, <2>4, Zenon
    <3>2. Size(s, p) = 2
      BY <1>0, <1>5, <2>0, <2>4, SizeForms, ZenonT(60)
    <3>3. Size(t, p) = 2
      BY <1>0, <2>0, <3>1, SizeForms, Zenon
    <3>4. Meaning(s, p) = <<>>
      BY <1>5, <2>4, MeaningForms, Zenon
    <3>5. Meaning(t, p) = <<>>
      BY <2>0, <3>1, MeaningForms, Zenon
    <3> QED
      BY <3>2, <3>3, <3>4, <3>5, Zenon
  <2> QED
    BY <2>1, <2>2, <2>3, <2>4, Zenon
<1> QED
  BY <1>4, <1>5, Zenon

(* Concatenation is associative. *)
LEMMA ConcatAssoc ==
    \A x, y, z \in Seq(Event) : (x \o y) \o z = x \o (y \o z)
<1> SUFFICES ASSUME NEW S, NEW x \in Seq(S), NEW y \in Seq(S), NEW z \in Seq(S)
             PROVE  (x \o y) \o z = x \o (y \o z)
  BY SMT, SMTT(60)
<1> QED
  BY SMT, SMTT(60)

(* The meaning of a longer stream: what the shorter one means, and then    *)
(* what begins at the unit it left incomplete.                             *)
LEMMA UnitsExtend ==
    ASSUME NEW s, NEW t, Longer(s, t)
    PROVE  \A p \in 1 .. Len(s) + 1 :
             /\ Units(t)[p].events = Units(s)[p].events \o Units(t)[Units(s)[p].rest].events
             /\ Units(t)[p].rest = Units(t)[Units(s)[p].rest].rest
<1> DEFINE n == Len(s) + 1
           P == {p \in 1 .. n :
                   /\ Units(t)[p].events = Units(s)[p].events \o Units(t)[Units(s)[p].rest].events
                   /\ Units(t)[p].rest = Units(t)[Units(s)[p].rest].rest}
<1>0. /\ s \in Seq(Byte) /\ t \in Seq(Byte) /\ n \in Nat
      /\ \A p \in 1 .. n : \A r \in p .. n : r \in 1 .. Len(t) + 1
  BY DEF Longer
<1>1. ASSUME NEW p \in 1 .. n, \A j \in p + 1 .. n : j \in P PROVE p \in P
  <2>0. p \in p .. n /\ p \in 1 .. Len(s) + 1
    BY <1>0
  <2>1. CASE Size(s, p) = 0
    <3>1. Units(s)[p].events = <<>> /\ Units(s)[p].rest = p
      BY <1>0, <2>0, <2>1, UnitsNext, Zenon
    <3>2. Units(t)[p].events \in Seq(Event)
      <4>1. p \in 1 .. Len(t) + 1
        BY <1>0, <2>0, Zenon
      <4> QED
        BY <1>0, <4>1, UnitsType, Zenon
    <3>3. \A x \in Seq(Event) : <<>> \o x = x
      OBVIOUS
    <3> QED
      BY <3>1, <3>2, <3>3, Zenon
  <2>2. CASE Size(s, p) # 0
    <3> DEFINE q == p + Size(s, p)
               r == Units(s)[q].rest
    <3>1. /\ q \in p + 1 .. n
          /\ Units(s)[p].events = Meaning(s, p) \o Units(s)[q].events
          /\ Units(s)[p].rest = r
      BY <1>0, <2>0, <2>2, UnitsNext, Zenon
    <3>2. Size(t, p) = Size(s, p) /\ Meaning(t, p) = Meaning(s, p)
      BY <2>0, <2>2, UnitSame, Zenon
    <3>3. /\ Units(t)[p].events = Meaning(s, p) \o Units(t)[q].events
          /\ Units(t)[p].rest = Units(t)[q].rest
      <4>1. p \in 1 .. Len(t) + 1
        BY <1>0, <2>0, Zenon
      <4>2. Size(t, p) # 0
        BY <2>2, <3>2, Zenon
      <4>3. /\ Units(t)[p].events = Meaning(t, p) \o Units(t)[p + Size(t, p)].events
            /\ Units(t)[p].rest = Units(t)[p + Size(t, p)].rest
        BY <1>0, <4>1, <4>2, UnitsNext, Zenon
      <4> QED
        BY <3>2, <4>3, Zenon
    <3>4. /\ Units(t)[q].events = Units(s)[q].events \o Units(t)[r].events
          /\ Units(t)[q].rest = Units(t)[r].rest
      BY <1>1, <3>1, Zenon
    <3>5. Meaning(s, p) \in Seq(Event)
      <4>1. Size(s, p) \in Nat
        BY <1>0, <2>0, SizeType, Zenon
      <4>2. Size(s, p) > 0
        BY <2>2, <4>1, SMT, SMTT(60)
      <4> QED
        BY <1>0, <2>0, <4>2, MeaningType, Zenon
    <3> HIDE DEF q
    <3>6. q \in 1 .. Len(s) + 1
      BY <2>0, <3>1, SMT, SMTT(60)
    <3>7. Units(s)[q].events \in Seq(Event) /\ r \in q .. n
      BY <1>0, <3>6, UnitsType, Zenon
    <3>8. Units(t)[r].events \in Seq(Event)
      <4>1. r \in 1 .. Len(t) + 1
        BY <1>0, <3>6, <3>7, Zenon
      <4> QED
        BY <1>0, <4>1, UnitsType, Zenon
    <3>9. (Meaning(s, p) \o Units(s)[q].events) \o Units(t)[r].events
            = Meaning(s, p) \o (Units(s)[q].events \o Units(t)[r].events)
      <4> DEFINE x == Meaning(s, p)
                 y == Units(s)[q].events
                 z == Units(t)[r].events
      <4>1. x \in Seq(Event) /\ y \in Seq(Event) /\ z \in Seq(Event)
        BY <3>5, <3>7, <3>8, Zenon
      <4> SUFFICES (x \o y) \o z = x \o (y \o z)
        BY Zenon
      <4> HIDE DEF x, y, z
      <4> QED
        BY <4>1, ConcatAssoc, ZenonT(60)
    <3> HIDE DEF r
    <3> QED
      BY <3>1, <3>3, <3>4, <3>9, Zenon
  <2> QED
    BY <2>1, <2>2, Zenon
<1>2. \A p \in 1 .. n : p \in P
  <2> HIDE DEF P, n
  <2> QED
    BY <1>0, <1>1, InductDown, Zenon
<1> QED
  BY <1>2, Zenon

-----------------------------------------------------------------------------
(* A stream that grows by a byte *)

\* From s to t = Append(s, b), where q is the unit that s leaves incomplete.
Grown(s, b, t, q) ==
    /\ Longer(s, t) /\ t \in Seq(Byte) /\ Len(t) = Len(s) + 1 /\ Len(s) \in Nat
    /\ t[Len(s) + 1] = b /\ \A i \in 1 .. Len(s) : t[i] = s[i]
    /\ q \in 1 .. Len(s) + 1 /\ q \in 1 .. Len(t) + 1 /\ Size(s, q) = 0
    /\ Decode(s) \in Seq(Event)
    /\ Size(t, q) = 0 => Units(t)[1].rest = q /\ Decode(t) = Decode(s)
    /\ Size(t, q) # 0 /\ q + Size(t, q) = Len(t) + 1
         => Units(t)[1].rest = Len(t) + 1 /\ Decode(t) = Decode(s) \o Meaning(t, q)

(* The byte belongs to the unit that was left incomplete: it leaves it so  *)
(* or completes it, and is then the last byte of it.                       *)
LEMMA StreamGrows ==
    ASSUME NEW s \in Seq(Byte), NEW b \in Byte
    PROVE  Grown(s, b, Append(s, b), Units(s)[1].rest)
<1> DEFINE t == Append(s, b)
           q == Units(s)[1].rest
<1>1. /\ t \in Seq(Byte) /\ Len(t) = Len(s) + 1 /\ Len(s) \in Nat
      /\ t[Len(s) + 1] = b /\ \A i \in 1 .. Len(s) : t[i] = s[i]
      /\ Len(s) <= Len(t)
  OBVIOUS
<1> HIDE DEF t
<1>2. Longer(s, t)
  BY <1>1, Zenon DEF Longer
<1>3. 1 \in 1 .. Len(s) + 1
  BY <1>1, SMT, SMTT(60)
<1>4. Units(s)[1].events \in Seq(Event) /\ q \in 1 .. Len(s) + 1 /\ Size(s, q) = 0
  BY <1>3, UnitsType, Zenon
<1>5. q \in 1 .. Len(t) + 1 /\ Len(t) + 1 \in 1 .. Len(t) + 1
  BY <1>1, <1>4, SMT, SMTT(60)
<1>6. /\ Units(t)[1].events = Units(s)[1].events \o Units(t)[q].events
      /\ Units(t)[1].rest = Units(t)[q].rest
  BY <1>2, <1>3, UnitsExtend, ZenonT(60)
<1>7. ASSUME Size(t, q) = 0 PROVE Units(t)[1].rest = q /\ Decode(t) = Decode(s)
  <2>1. Units(t)[q].events = <<>> /\ Units(t)[q].rest = q
    BY <1>1, <1>5, <1>7, UnitsNext, Zenon
  <2>2. Units(s)[1].events \o <<>> = Units(s)[1].events
    BY <1>4, ConcatNothing, Zenon
  <2> QED
    BY <1>6, <2>1, <2>2, Zenon DEF Decode
<1>8. ASSUME Size(t, q) # 0, q + Size(t, q) = Len(t) + 1
      PROVE  Units(t)[1].rest = Len(t) + 1 /\ Decode(t) = Decode(s) \o Meaning(t, q)
  <2>1. /\ Units(t)[q].events = Meaning(t, q) \o Units(t)[Len(t) + 1].events
        /\ Units(t)[q].rest = Units(t)[Len(t) + 1].rest
    <3>1. /\ Units(t)[q].events = Meaning(t, q) \o Units(t)[q + Size(t, q)].events
          /\ Units(t)[q].rest = Units(t)[q + Size(t, q)].rest
      BY <1>1, <1>5, <1>8, UnitsNext, Zenon
    <3> QED
      BY <1>8, <3>1, Zenon
  <2>2. Size(t, Len(t) + 1) = 0
    BY <1>1, <1>5, SizeForms, Zenon
  <2>3. Units(t)[Len(t) + 1].events = <<>> /\ Units(t)[Len(t) + 1].rest = Len(t) + 1
    BY <1>1, <1>5, <2>2, UnitsNext, Zenon
  <2>4. Meaning(t, q) \in Seq(Event)
    <3>1. Size(t, q) \in Nat
      BY <1>1, <1>5, SizeType, Zenon
    <3>2. Size(t, q) > 0
      BY <1>8, <3>1, SMT, SMTT(60)
    <3> QED
      BY <1>1, <1>5, <3>2, MeaningType, Zenon
  <2>5. Meaning(t, q) \o <<>> = Meaning(t, q)
    BY <2>4, ConcatNothing, Zenon
  <2> QED
    BY <1>6, <2>1, <2>3, <2>5, Zenon DEF Decode
<1>9. Decode(s) \in Seq(Event)
  BY <1>4, Zenon DEF Decode
<1> HIDE DEF q
<1>10. Grown(s, b, t, q)
  BY <1>1, <1>2, <1>4, <1>5, <1>7, <1>8, <1>9, ZenonT(60) DEF Grown
<1> QED
  BY <1>10, Zenon DEF t, q

\* The same for a payload that begins at a; n is the length of s.
PayloadGrown(s, b, t, a, n) ==
    /\ Escaped(t, a, n + 2) <=> b = IAC /\ ~Escaped(s, a, n + 1)
    /\ Kept(t, a, n + 1) = IF b # IAC /\ ~Escaped(s, a, n + 1)
                           THEN Append(Kept(s, a, n), b) ELSE Kept(s, a, n)
    /\ Ends(t, a) = IF b = SE /\ Escaped(s, a, n + 1) THEN {n + 1} ELSE {}
    /\ Escaped(s, a, n + 1) => a <= n /\ Kept(t, a, n - 1) = Kept(s, a, n)
    /\ Kept(s, a, n) \in Seq(Byte)

(* The byte in a payload that has not ended. *)
LEMMA PayloadGrows ==
    ASSUME NEW s \in Seq(Byte), NEW b \in Byte, NEW a \in 2 .. Len(s) + 1, Ends(s, a) = {}
    PROVE  PayloadGrown(s, b, Append(s, b), a, Len(s))
<1> DEFINE t == Append(s, b)
           n == Len(s)
<1>1. /\ t \in Seq(Byte) /\ Len(t) = n + 1 /\ n \in Nat
      /\ t[n + 1] = b /\ \A i \in 1 .. n : t[i] = s[i]
      /\ n <= Len(t)
  OBVIOUS
<1> HIDE DEF t
<1>2. Longer(s, t)
  BY <1>1, Zenon DEF Longer
<1>3. /\ a \in Nat /\ a \in Nat \ {0} /\ a <= n + 1 /\ a - 1 <= n /\ a - 1 <= n + 1
      /\ n + 1 \in Nat /\ n + 1 <= n + 1 /\ (n + 1) - 1 = n /\ (n + 1) + 1 = n + 2
      /\ n \in a - 1 .. n /\ n + 1 \in a .. n + 1
  BY <1>1
<1>4. Escaped(t, a, n + 1) <=> Escaped(s, a, n + 1)
  BY <1>2, <1>3, EscapedSame, Zenon
<1>5. Escaped(t, a, n + 2) <=> b = IAC /\ ~Escaped(s, a, n + 1)
  <2>1. Escaped(t, a, (n + 1) + 1) <=> t[n + 1] = IAC /\ ~Escaped(t, a, n + 1)
    BY <1>3, EscapedStep, Zenon
  <2> QED
    BY <1>1, <1>3, <1>4, <2>1, Zenon
<1>6. Kept(t, a, n) = Kept(s, a, n)
  BY <1>2, <1>3, KeptSame, ZenonT(60)
<1>7. Kept(t, a, n + 1) = IF b # IAC /\ ~Escaped(s, a, n + 1)
                          THEN Append(Kept(s, a, n), b) ELSE Kept(s, a, n)
  <2>1. \A i \in a .. Len(t) :
          Kept(t, a, i) = IF t[i] # IAC /\ ~Escaped(t, a, i)
                          THEN Append(Kept(t, a, i - 1), t[i]) ELSE Kept(t, a, i - 1)
    BY <1>1, <1>3, KeptStep, Zenon
  <2>2. Kept(t, a, n + 1) = IF b # IAC /\ ~Escaped(t, a, n + 1)
                            THEN Append(Kept(t, a, n), b) ELSE Kept(t, a, n)
    BY <1>1, <1>3, <2>1, Zenon
  <2>3. CASE b # IAC /\ ~Escaped(s, a, n + 1)
    BY <1>4, <1>6, <2>2, <2>3, Zenon
  <2>4. CASE ~(b # IAC /\ ~Escaped(s, a, n + 1))
    BY <1>4, <1>6, <2>2, <2>4, Zenon
  <2> QED
    BY <2>3, <2>4, Zenon
<1>8. Ends(t, a) = IF b = SE /\ Escaped(s, a, n + 1) THEN {n + 1} ELSE {}
  <2>1. ASSUME NEW j \in a .. n PROVE j \notin Ends(t, a)
    <3>1. j \in 1 .. n /\ j \in Nat /\ j <= n + 1
      BY <1>1
    <3>2. Escaped(t, a, j) <=> Escaped(s, a, j)
      BY <1>2, <1>3, <3>1, EscapedSame, Zenon
    <3>3. t[j] = s[j] /\ j \notin Ends(s, a)
      BY <1>1, <3>1, Zenon
    <3> QED
      BY <2>1, <3>2, <3>3, Zenon DEF Ends
  <2>2. \A j \in a .. n + 1 : j \in a .. n \/ j = n + 1
    BY <1>1
  <2>3. Ends(t, a) \subseteq a .. n + 1
    BY <1>1, Zenon DEF Ends
  <2>4. Ends(t, a) \subseteq {n + 1}
    BY <2>1, <2>2, <2>3, Zenon
  <2>5. n + 1 \in Ends(t, a) <=> b = SE /\ Escaped(s, a, n + 1)
    BY <1>1, <1>3, <1>4, Zenon DEF Ends
  <2>6. CASE b = SE /\ Escaped(s, a, n + 1)
    BY <2>4, <2>5, <2>6, Zenon
  <2>7. CASE ~(b = SE /\ Escaped(s, a, n + 1))
    BY <2>4, <2>5, <2>7, Zenon
  <2> QED
    BY <2>6, <2>7, Zenon
<1>9. ASSUME Escaped(s, a, n + 1) PROVE a <= n /\ Kept(t, a, n - 1) = Kept(s, a, n)
  <2>1. ~Escaped(s, a, a)
    BY <1>3, EscapedFirst, Zenon
  <2>2. a # n + 1
    BY <1>9, <2>1, Zenon
  <2>3. a <= n /\ n \in a .. n /\ n - 1 \in a - 1 .. n
    BY <1>1, <1>3, <2>2, SMT, SMTT(60)
  <2>4. s[n] = IAC
    <3>1. Escaped(s, a, n + 1) <=> s[n] = IAC /\ ~Escaped(s, a, n)
      <4>1. n \in Nat /\ a \in Nat /\ a <= n
        BY <1>1, <1>3, <2>3, Zenon
      <4> QED
        BY <4>1, EscapedStep, Zenon
    <3> QED
      BY <1>9, <3>1, Zenon
  <2>5. \A i \in a .. Len(s) :
          Kept(s, a, i) = IF s[i] # IAC /\ ~Escaped(s, a, i)
                          THEN Append(Kept(s, a, i - 1), s[i]) ELSE Kept(s, a, i - 1)
    BY <1>3, KeptStep, Zenon
  <2>6. Kept(s, a, n) = Kept(s, a, n - 1)
    BY <2>3, <2>4, <2>5, Zenon
  <2>7. Kept(t, a, n - 1) = Kept(s, a, n - 1)
    BY <1>2, <1>3, <2>3, KeptSame, ZenonT(60)
  <2> QED
    BY <2>3, <2>6, <2>7, Zenon
<1>10. Kept(s, a, n) \in Seq(Byte)
  BY <1>3, KeptType, Zenon
<1>11. PayloadGrown(s, b, t, a, n)
  BY <1>5, <1>7, <1>8, <1>9, <1>10, Zenon DEF PayloadGrown
<1> QED
  BY <1>11, Zenon DEF t

-----------------------------------------------------------------------------
(* The parser follows the grammar *)

(* What is compared with the grammar of an event: all of it, but for the   *)
(* option of a block without payload.                                      *)
LEMMA ReportedForms ==
    /\ \A b \in Byte : Reported(Data(b)) = Data(b)
    /\ \A v \in Verbs, b \in Byte : Reported(Option(v, b)) = Option(v, b)
    /\ \A o \in Field, x \in Seq(Field) :
         Reported(Subneg(o, x)) = Subneg(IF x = <<>> THEN NoByte ELSE o, x)
    /\ \A e \in Event : Reported(e) \in Event
<1>1. \A v \in Verbs : v # "subneg"
  BY IacAssumption, Zenon
<1>2. \A b \in Byte : Reported(Data(b)) = Data(b)
  BY DEF Reported, Data
<1>3. ASSUME NEW v \in Verbs, NEW b \in Byte PROVE Reported(Option(v, b)) = Option(v, b)
  <2>1. Option(v, b).event = v
    BY DEF Option
  <2> QED
    BY <1>1, <2>1, Zenon DEF Reported
<1>4. ASSUME NEW o \in Field, NEW x \in Seq(Field)
      PROVE  Reported(Subneg(o, x)) = Subneg(IF x = <<>> THEN NoByte ELSE o, x)
  <2>1. Subneg(o, x).event = "subneg" /\ Subneg(o, x).bytes = x
    BY DEF Subneg
  <2>2. CASE x = <<>>
    BY <2>1, <2>2, Zenon DEF Reported
  <2>3. CASE x # <<>>
    BY <2>1, <2>3, Zenon DEF Reported
  <2> QED
    BY <2>2, <2>3, Zenon
<1>5. Subneg(NoByte, <<>>) \in Event
  <2>1. NoByte \in Field /\ <<>> \in Seq(Field)
    BY DEF Field
  <2> QED
    BY <2>1, EventTypes, Zenon
<1>6. \A e \in Event : Reported(e) \in Event
  BY <1>5, Zenon DEF Reported
<1> QED
  BY <1>2, <1>3, <1>4, <1>6, Zenon

\* An event that stands for r, and events that do one by one.
Means(e, r) == Reported(e) = r \/ (e.event = "subneg" /\ Escapes(r))
Tells(events, meant) ==
    Len(events) = Len(meant) /\ \A i \in DOMAIN events : Means(events[i], meant[i])

(* What is proved of the events of a stream. *)
LEMMA StreamTells == DecodesStream <=> Tells(Flushed, Decode(fed))
BY Zenon DEF DecodesStream, Tells, Means

(* The same after a step. *)
LEMMA StreamTellsNext == DecodesStream' <=> Tells(Flushed', Decode(fed'))
BY Zenon DEF DecodesStream, Tells, Means

(* A byte after which nothing more is reported. *)
LEMMA SaysNothing ==
    ASSUME DecodesStream, Flushed' = Flushed, Decode(fed') = Decode(fed)
    PROVE  DecodesStream'
<1>1. Tells(Flushed', Decode(fed'))
  BY StreamTells, Zenon
<1> QED
  BY <1>1, StreamTellsNext, Zenon

(* A byte after which one event more is. *)
LEMMA SaysThis ==
    ASSUME DecodesStream, Flushed \in Seq(Event), Decode(fed) \in Seq(Event),
           NEW e \in Event, Flushed' = Append(Flushed, e),
           NEW r \in Event, Means(e, r), Decode(fed') = Decode(fed) \o <<r>>
    PROVE  DecodesStream'
<1>1. Tells(Flushed, Decode(fed))
  BY StreamTells, Zenon
<1>2. ASSUME NEW F \in Seq(Event), NEW D \in Seq(Event), Tells(F, D)
      PROVE  Tells(Append(F, e), D \o <<r>>)
  <2> DEFINE G == Append(F, e)
             H == D \o <<r>>
  <2>1. Len(D) = Len(F) /\ Len(F) \in Nat /\ \A i \in DOMAIN F : Means(F[i], D[i])
    BY <1>2, SMT, SMTT(60) DEF Tells
  <2>2. /\ Len(G) = Len(F) + 1 /\ DOMAIN G = 1 .. Len(F) + 1 /\ DOMAIN F = 1 .. Len(F)
        /\ G[Len(F) + 1] = e /\ \A i \in 1 .. Len(F) : G[i] = F[i]
    BY SMT, SMTT(60)
  <2>3. /\ Len(H) = Len(D) + 1
        /\ H[Len(D) + 1] = r /\ \A i \in 1 .. Len(D) : H[i] = D[i]
    BY SMT, SMTT(60)
  <2> HIDE DEF G, H
  <2>4. ASSUME NEW i \in 1 .. Len(F) + 1 PROVE Means(G[i], H[i])
    <3>1. i = Len(F) + 1 \/ i \in 1 .. Len(F)
      BY <2>1, SMT, SMTT(60)
    <3> QED
      BY <2>1, <2>2, <2>3, <3>1, Zenon
  <2>5. Len(G) = Len(H)
    BY <2>1, <2>2, <2>3, Zenon
  <2>6. Tells(G, H)
    BY <2>2, <2>4, <2>5, Zenon DEF Tells
  <2> QED
    BY <2>6, Zenon DEF G, H
<1>3. Tells(Flushed', Decode(fed'))
  BY <1>1, <1>2, Zenon
<1> QED
  BY <1>3, StreamTellsNext, Zenon

(* A byte after which the event is just what the grammar says. *)
LEMMA SaysOne ==
    ASSUME DecodesStream, Flushed \in Seq(Event), Decode(fed) \in Seq(Event),
           NEW e \in Event, Flushed' = Append(Flushed, e),
           Decode(fed') = Decode(fed) \o <<Reported(e)>>
    PROVE  DecodesStream'
<1>1. Reported(e) \in Event
  BY ReportedForms, Zenon
<1>2. Means(e, Reported(e))
  BY Zenon DEF Means
<1> QED
  BY <1>1, <1>2, SaysThis, Zenon

(* What a read has reported and holds back are events; outside IAC_DATA    *)
(* nothing is held back.                                                   *)
LEMMA FlushedType ==
    ASSUME TypeOK
    PROVE  /\ Flushed \in Seq(Event)
           /\ slice = <<>> => Flushed = out
           /\ slice' = <<>> /\ out' \in Seq(Event) => Flushed' = out'
<1>1. out \in Seq(Event) /\ slice \in Seq(Event)
  BY Zenon DEF TypeOK
<1>2. out \o slice \in Seq(Event)
  BY <1>1
<1>3. \A x \in Seq(Event) : x \o <<>> = x
  BY ConcatNothing, Zenon
<1>4. slice = <<>> => Flushed = out
  BY <1>1, <1>3, Zenon DEF Flushed
<1>5. slice' = <<>> /\ out' \in Seq(Event) => Flushed' = out'
  <2> SUFFICES ASSUME slice' = <<>>, out' \in Seq(Event) PROVE out' \o slice' = out'
    BY Zenon DEF Flushed
  <2> QED
    BY <1>3, Zenon
<1> QED
  BY <1>2, <1>4, <1>5, Zenon DEF Flushed

\* What the parser holds of a payload.
Keeps(body, len, opt, buf) ==
    /\ len = IF Len(body) < SbMax THEN Len(body) ELSE SbMax
    /\ len > 0 => opt = body[1]
    /\ \A i \in 1 .. len - 1 : buf[i] = body[i + 1]

\* Why: the parser stands at the unit that the grammar finds incomplete, and
\* knows of it what it needs.  In a payload it knows whether the next byte is
\* the second of a pair, and has the option and what there is room for.
Follows ==
    LET q == Units(fed)[1].rest
        n == Len(fed)
        body == Kept(fed, q + 2, n)
    IN  /\ state = "IAC_DATA" => q = n + 1
        /\ state # "IAC_DATA" => slice = <<>> /\ q <= n /\ fed[q] = IAC
        /\ state = "IAC_IAC" => q = n
        /\ state = "IAC_CMD" => q + 1 = n /\ fed[n] = cmd /\ cmd \in Verbs
        /\ state \in {"IAC_SB", "IAC_SB_IAC"} =>
             /\ q + 1 <= n /\ fed[q + 1] = SB
             /\ state = "IAC_SB_IAC" <=> Escaped(fed, q + 2, n + 1)
             /\ sb_len = IF Len(body) < SbMax THEN Len(body) ELSE SbMax
             /\ sb_len > 0 => sb_opt = body[1]
             /\ \A i \in 1 .. sb_len - 1 : sb_buf[i] = body[i + 1]

(* Follows, state by state. *)
LEMMA FollowsForms ==
    ASSUME NEW q, q = Units(fed)[1].rest, NEW n, n = Len(fed)
    PROVE  /\ state = "IAC_DATA" => (Follows <=> q = n + 1)
           /\ state = "IAC_IAC" => (Follows <=> slice = <<>> /\ q <= n /\ fed[q] = IAC /\ q = n)
           /\ state = "IAC_CMD" => (Follows <=> /\ slice = <<>> /\ q <= n /\ fed[q] = IAC
                                                /\ q + 1 = n /\ fed[n] = cmd /\ cmd \in Verbs)
           /\ state \in {"IAC_SB", "IAC_SB_IAC"} =>
                (Follows <=> /\ slice = <<>> /\ q <= n /\ fed[q] = IAC
                             /\ q + 1 <= n /\ fed[q + 1] = SB
                             /\ state = "IAC_SB_IAC" <=> Escaped(fed, q + 2, n + 1)
                             /\ Keeps(Kept(fed, q + 2, n), sb_len, sb_opt, sb_buf))
<1>1. CASE state = "IAC_DATA"
  BY <1>1, Zenon DEF Follows
<1>2. CASE state = "IAC_IAC"
  BY <1>2, Zenon DEF Follows
<1>3. CASE state = "IAC_CMD"
  BY <1>3, Zenon DEF Follows
<1>4. CASE state \in {"IAC_SB", "IAC_SB_IAC"}
  BY <1>4, Zenon DEF Follows, Keeps
<1> QED
  BY <1>1, <1>2, <1>3, <1>4, Zenon

(* A plain byte, or the IAC of a command. *)
LEMMA DataFollows ==
    ASSUME TypeOK, Follows, DecodesStream, NEW b \in Byte, fed' = Append(fed, b),
           TypeOK', InData(b)
    PROVE  Follows' /\ DecodesStream'
<1> DEFINE q == Units(fed)[1].rest
           n == Len(fed)
<1>0. fed \in Seq(Byte) /\ state = "IAC_DATA" /\ out' \in Seq(Event)
  BY Zenon DEF TypeOK, InData
<1>1. /\ fed' \in Seq(Byte) /\ Len(fed') = n + 1 /\ n \in Nat /\ fed'[n + 1] = b
      /\ q \in 1 .. Len(fed') + 1 /\ Decode(fed) \in Seq(Event)
      /\ Size(fed', q) = 0 => Units(fed')[1].rest = q /\ Decode(fed') = Decode(fed)
      /\ Size(fed', q) # 0 /\ q + Size(fed', q) = Len(fed') + 1
           => /\ Units(fed')[1].rest = Len(fed') + 1
              /\ Decode(fed') = Decode(fed) \o Meaning(fed', q)
  <2>1. Grown(fed, b, fed', q)
    BY <1>0, StreamGrows, Zenon
  <2> QED
    BY <2>1, Zenon DEF Grown
<1>2. q = n + 1
  BY <1>0, FollowsForms, Zenon
<1>3. Flushed \in Seq(Event)
  BY FlushedType, Zenon
<1>4. CASE b = IAC
  <2>1. out' = Flushed /\ slice' = <<>> /\ state' = "IAC_IAC"
    BY <1>4, Zenon DEF InData
  <2>2. Flushed' = Flushed
    BY <1>0, <2>1, FlushedType, Zenon
  <2>3. q = Len(fed') /\ fed'[q] = IAC
    BY <1>1, <1>2, <1>4, Zenon
  <2>4. Size(fed', q) = 0
    BY <1>1, <2>3, SizeForms, Zenon
  <2>5. DecodesStream'
    BY <1>1, <2>2, <2>4, SaysNothing, ZenonT(60)
  <2>6. Units(fed')[1].rest = Len(fed') /\ Len(fed') <= Len(fed')
    BY <1>1, <2>3, <2>4, SMT, SMTT(60)
  <2>7. Follows'
    BY <2>1, <2>3, <2>6, ZenonT(60) DEF Follows
  <2> QED
    BY <2>5, <2>7, Zenon
<1>5. CASE b # IAC
  <2>1. slice' = Append(slice, Data(b)) /\ state' = "IAC_DATA" /\ out' = out
    BY <1>0, <1>5, Zenon DEF InData
  <2>2. Data(b) \in Event /\ Reported(Data(b)) = Data(b)
    BY EventTypes, ReportedForms, Zenon
  <2>3. Flushed' = Append(Flushed, Data(b))
    <3>1. out \in Seq(Event) /\ slice \in Seq(Event)
      BY Zenon DEF TypeOK
    <3>2. out \o Append(slice, Data(b)) = Append(out \o slice, Data(b))
      BY <2>2, <3>1, AppendLast, ZenonT(60)
    <3> QED
      BY <2>1, <3>2, Zenon DEF Flushed
  <2>4. q <= Len(fed') /\ fed'[q] = b /\ q + 1 = Len(fed') + 1
    BY <1>1, <1>2, SMT, SMTT(60)
  <2>5. Size(fed', q) = 1
    BY <1>1, <1>5, <2>4, SizeForms, Zenon
  <2>6. Meaning(fed', q) = <<Data(b)>>
    BY <1>5, <2>4, MeaningForms, ZenonT(60)
  <2>7. Units(fed')[1].rest = Len(fed') + 1 /\ Decode(fed') = Decode(fed) \o <<Data(b)>>
    <3>1. 1 # 0
      OBVIOUS
    <3> QED
      BY <1>1, <2>4, <2>5, <2>6, <3>1, Zenon
  <2>8. DecodesStream'
    BY <1>1, <1>3, <2>2, <2>3, <2>7, SaysOne, ZenonT(60)
  <2>9. Follows'
    BY <2>1, <2>7, Zenon DEF Follows
  <2> QED
    BY <2>8, <2>9, Zenon
<1> QED
  BY <1>4, <1>5, Zenon

(* The byte after an IAC. *)
LEMMA IacFollows ==
    ASSUME TypeOK, Follows, DecodesStream, NEW b \in Byte, fed' = Append(fed, b),
           TypeOK', InIac(b)
    PROVE  Follows' /\ DecodesStream'
<1> DEFINE q == Units(fed)[1].rest
           n == Len(fed)
<1>0. fed \in Seq(Byte) /\ state = "IAC_IAC" /\ out' \in Seq(Event) /\ slice' = slice
  BY Zenon DEF TypeOK, InIac
<1>1. /\ fed' \in Seq(Byte) /\ Len(fed') = n + 1 /\ n \in Nat /\ fed'[n + 1] = b
      /\ q \in 1 .. n + 1 /\ \A i \in 1 .. n : fed'[i] = fed[i]
      /\ q \in 1 .. Len(fed') + 1 /\ Decode(fed) \in Seq(Event)
      /\ Size(fed', q) = 0 => Units(fed')[1].rest = q /\ Decode(fed') = Decode(fed)
      /\ Size(fed', q) # 0 /\ q + Size(fed', q) = Len(fed') + 1
           => /\ Units(fed')[1].rest = Len(fed') + 1
              /\ Decode(fed') = Decode(fed) \o Meaning(fed', q)
  <2>1. Grown(fed, b, fed', q)
    BY <1>0, StreamGrows, Zenon
  <2> QED
    BY <2>1, Zenon DEF Grown
<1>2. q = n /\ fed[q] = IAC /\ slice = <<>>
  BY <1>0, FollowsForms, Zenon
<1> HIDE DEF q
<1>3. Flushed = out /\ Flushed \in Seq(Event) /\ Flushed' = out' /\ slice' = <<>>
  BY <1>0, <1>2, FlushedType, ZenonT(60)
<1>4. /\ q \in 1 .. n /\ q < Len(fed') /\ q + 1 = n + 1 /\ q + 1 = Len(fed')
      /\ q <= Len(fed') /\ q + 2 > Len(fed') /\ q + 2 = Len(fed') + 1 /\ 2 # 0
  BY <1>1, <1>2, SMT, SMTT(60)
<1>5. fed'[q] = IAC /\ fed'[q + 1] = b /\ fed'[Len(fed')] = b
  BY <1>1, <1>2, <1>4, ZenonT(60)
<1>6. CASE b = SB
  <2>1. /\ out' = out /\ state' = "IAC_SB" /\ sb_len' = 0
    BY <1>6, IacAssumption, Zenon DEF InIac
  <2>2. Ends(fed', q + 2) = {}
    <3>1. q + 2 .. Len(fed') = {}
      BY <1>1, <1>4, SMT, SMTT(60)
    <3> QED
      BY <3>1, Zenon DEF Ends
  <2>3. Size(fed', q) = 0
    BY <1>1, <1>4, <1>5, <1>6, <2>2, SizeForms, ZenonT(60)
  <2>4. DecodesStream'
    BY <1>1, <1>3, <2>1, <2>3, SaysNothing, ZenonT(60)
  <2>5. Units(fed')[1].rest = q
    BY <1>1, <2>3, ZenonT(60)
  <2>6. /\ q + 2 \in Nat /\ q + 2 \in Nat \ {0} /\ q + 2 <= q + 2
        /\ Len(fed') = (q + 2) - 1 /\ (q + 2) - 1 <= Len(fed')
    BY <1>1, <1>4, SMT, SMTT(60)
  <2>7. ~Escaped(fed', q + 2, q + 2)
    BY <2>6, EscapedFirst, Zenon
  <2>8. Kept(fed', q + 2, Len(fed')) = <<>>
    BY <1>1, <2>6, KeptStep, Zenon
  <2>9. Keeps(<<>>, 0, sb_opt', sb_buf')
    BY IacAssumption, SMT, SMTT(60) DEF Keeps
  <2>10. Follows'
    <3>1. Keeps(Kept(fed', q + 2, Len(fed')), sb_len', sb_opt', sb_buf')
      BY <2>1, <2>8, <2>9, Zenon
    <3>2. ~Escaped(fed', q + 2, Len(fed') + 1) /\ q + 1 <= Len(fed')
      BY <1>4, <2>7, SMT, SMTT(60)
    <3> QED
      BY <1>3, <1>4, <1>5, <1>6, <2>1, <2>5, <3>1, <3>2, ZenonT(60) DEF Follows, Keeps
  <2> QED
    BY <2>4, <2>10, Zenon
<1>7. CASE b \in Verbs
  <2>1. out' = out /\ state' = "IAC_CMD" /\ cmd' = b
    BY <1>7, IacAssumption, Zenon DEF InIac
  <2>2. Size(fed', q) = 0
    BY <1>1, <1>4, <1>5, <1>7, SizeForms, ZenonT(60)
  <2>3. DecodesStream'
    BY <1>1, <1>3, <2>1, <2>2, SaysNothing, ZenonT(60)
  <2>4. Units(fed')[1].rest = q
    BY <1>1, <2>2, Zenon
  <2>5. Follows'
    BY <1>3, <1>4, <1>5, <1>7, <2>1, <2>4, ZenonT(60) DEF Follows
  <2> QED
    BY <2>3, <2>5, Zenon
<1>8. CASE b # SB /\ b \notin Verbs
  <2>1. state' = "IAC_DATA" /\ out' = IF b = IAC THEN Append(out, Data(IAC)) ELSE out
    BY <1>8, Zenon DEF InIac
  <2>2. Size(fed', q) = 2
    BY <1>1, <1>4, <1>5, <1>8, SizeForms, ZenonT(60)
  <2>3. /\ Units(fed')[1].rest = Len(fed') + 1
        /\ Decode(fed') = Decode(fed) \o Meaning(fed', q)
    BY <1>1, <1>4, <2>2, Zenon
  <2>4. Follows'
    BY <2>1, <2>3, Zenon DEF Follows
  <2>5. CASE b = IAC
    <3>1. Meaning(fed', q) = <<Data(IAC)>>
      BY <1>5, <2>5, MeaningForms, Zenon
    <3>2. Data(IAC) \in Event /\ Reported(Data(IAC)) = Data(IAC)
      BY EventTypes, ReportedForms, Zenon DEF Byte
    <3>3. Flushed' = Append(Flushed, Data(IAC))
      BY <1>3, <2>1, <2>5, Zenon
    <3>4. Decode(fed') = Decode(fed) \o <<Reported(Data(IAC))>>
      BY <2>3, <3>1, <3>2, Zenon
    <3>5. DecodesStream'
      BY <1>1, <1>3, <3>2, <3>3, <3>4, SaysOne, ZenonT(60)
    <3> QED
      BY <2>4, <3>5, Zenon
  <2>6. CASE b # IAC
    <3>1. Meaning(fed', q) = <<>>
      BY <1>5, <1>8, <2>6, MeaningForms, ZenonT(60)
    <3>2. Decode(fed) \o <<>> = Decode(fed)
      BY <1>1, ConcatNothing, Zenon
    <3>3. Decode(fed') = Decode(fed) /\ Flushed' = Flushed
      BY <1>3, <2>1, <2>3, <2>6, <3>1, <3>2, ZenonT(60)
    <3>4. DecodesStream'
      BY <3>3, SaysNothing, ZenonT(60)
    <3> QED
      BY <2>4, <3>4, Zenon
  <2> QED
    BY <2>5, <2>6, Zenon
<1> QED
  BY <1>6, <1>7, <1>8, Zenon

(* The option of WILL, WONT, DO or DONT. *)
LEMMA CmdFollows ==
    ASSUME TypeOK, Follows, DecodesStream, NEW b \in Byte, fed' = Append(fed, b),
           TypeOK', InCmd(b)
    PROVE  Follows' /\ DecodesStream'
<1> DEFINE q == Units(fed)[1].rest
           n == Len(fed)
<1>0. fed \in Seq(Byte) /\ state = "IAC_CMD" /\ out' \in Seq(Event) /\ slice' = slice
  BY Zenon DEF TypeOK, InCmd
<1>1. /\ fed' \in Seq(Byte) /\ Len(fed') = n + 1 /\ n \in Nat /\ fed'[n + 1] = b
      /\ q \in 1 .. n + 1 /\ \A i \in 1 .. n : fed'[i] = fed[i]
      /\ q \in 1 .. Len(fed') + 1 /\ Decode(fed) \in Seq(Event)
      /\ Size(fed', q) # 0 /\ q + Size(fed', q) = Len(fed') + 1
           => /\ Units(fed')[1].rest = Len(fed') + 1
              /\ Decode(fed') = Decode(fed) \o Meaning(fed', q)
  <2>1. Grown(fed, b, fed', q)
    BY <1>0, StreamGrows, Zenon
  <2> QED
    BY <2>1, Zenon DEF Grown
<1>2. q + 1 = n /\ fed[q] = IAC /\ slice = <<>> /\ fed[n] = cmd /\ cmd \in Verbs
  BY <1>0, FollowsForms, ZenonT(60)
<1> HIDE DEF q
<1>3. Flushed = out /\ Flushed \in Seq(Event) /\ Flushed' = out'
  BY <1>0, <1>2, FlushedType, Zenon
<1>4. /\ q \in 1 .. n /\ q + 1 \in 1 .. n /\ q < Len(fed') /\ q + 2 = n + 1
      /\ ~(q + 2 > Len(fed')) /\ q + 3 = Len(fed') + 1 /\ 3 # 0
  BY <1>1, <1>2, SMT, SMTT(60)
<1>5. fed'[q] = IAC /\ fed'[q + 1] = cmd /\ fed'[q + 2] = b
  BY <1>1, <1>2, <1>4, Zenon
<1>6. Size(fed', q) = 3
  BY <1>1, <1>2, <1>4, <1>5, SizeForms, ZenonT(60)
<1>7. Meaning(fed', q) = <<Option(cmd, b)>>
  BY <1>2, <1>5, MeaningForms, Zenon
<1>8. Option(cmd, b) \in Event /\ Reported(Option(cmd, b)) = Option(cmd, b)
  BY <1>2, EventTypes, ReportedForms, Zenon
<1>9. /\ Units(fed')[1].rest = Len(fed') + 1
      /\ Decode(fed') = Decode(fed) \o <<Reported(Option(cmd, b))>>
  BY <1>1, <1>4, <1>6, <1>7, <1>8, ZenonT(60)
<1>10. Flushed' = Append(Flushed, Option(cmd, b)) /\ state' = "IAC_DATA"
  BY <1>3, Zenon DEF InCmd
<1>11. DecodesStream'
  BY <1>1, <1>3, <1>8, <1>9, <1>10, SaysOne, ZenonT(60)
<1>12. Follows'
  BY <1>9, <1>10, ZenonT(60) DEF Follows
<1> QED
  BY <1>11, <1>12, Zenon

(* What is kept of a payload that grows. *)
LEMMA KeepsMore ==
    ASSUME TypeOK, NEW body \in Seq(Byte), Keeps(body, sb_len, sb_opt, sb_buf),
           NEW b \in Byte, b # IAC, InSb(b)
    PROVE  Keeps(Append(body, b), sb_len', sb_opt', sb_buf')
<1> DEFINE m == Len(body)
           more == Append(body, b)
<1>1. /\ sb_len = IF m < SbMax THEN m ELSE SbMax
      /\ sb_len > 0 => sb_opt = body[1]
      /\ \A i \in 1 .. sb_len - 1 : sb_buf[i] = body[i + 1]
  BY Zenon DEF Keeps
<1>2. /\ m \in Nat /\ SbMax \in Nat \ {0} /\ Len(more) = m + 1 /\ more[m + 1] = b
      /\ \A i \in 1 .. m : more[i] = body[i]
  BY IacAssumption, SMT, SMTT(60)
<1>3. sb_buf \in [1 .. SbMax -> Field] /\ sb_len \in 0 .. SbMax
  BY Zenon DEF TypeOK
<1> HIDE DEF m, more
<1>4. CASE sb_len = 0 /\ sb_opt' = b /\ sb_len' = 1
  <2>1. m = 0
    BY <1>1, <1>2, <1>4, SMT, SMTT(60)
  <2>2. sb_len' = IF Len(more) < SbMax THEN Len(more) ELSE SbMax
    BY <1>2, <1>4, <2>1, SMT, SMTT(60)
  <2>3. sb_opt' = more[1]
    BY <1>2, <1>4, <2>1, SMT, SMTT(60)
  <2>4. 1 .. sb_len' - 1 = {}
    BY <1>4, SMT, SMTT(60)
  <2>5. Keeps(more, sb_len', sb_opt', sb_buf')
    BY <2>2, <2>3, <2>4, ZenonT(60) DEF Keeps
  <2> QED
    BY <2>5, Zenon DEF more
<1>5. CASE /\ sb_len > 0 /\ sb_len < SbMax /\ sb_buf' = [sb_buf EXCEPT ![sb_len] = b]
           /\ sb_len' = sb_len + 1 /\ sb_opt' = sb_opt
  <2>1. m = sb_len
    BY <1>1, <1>2, <1>5, SMT, SMTT(60)
  <2>2. sb_len' = IF Len(more) < SbMax THEN Len(more) ELSE SbMax
    BY <1>2, <1>5, <2>1, SMT, SMTT(60)
  <2>3. sb_opt' = more[1]
    BY <1>1, <1>2, <1>5, <2>1, SMT, SMTT(60)
  <2>4. ASSUME NEW i \in 1 .. sb_len' - 1 PROVE sb_buf'[i] = more[i + 1]
    <3>1. i \in 1 .. SbMax /\ i \in 1 .. m /\ sb_len \in 1 .. SbMax
      BY <1>2, <1>3, <1>5, <2>1, SMT, SMTT(60)
    <3>2. CASE i = sb_len
      <4>1. sb_buf'[i] = b
        BY <1>3, <1>5, <3>1, <3>2, ZenonT(60)
      <4> QED
        BY <1>2, <2>1, <3>2, <4>1, Zenon
    <3>3. CASE i # sb_len
      <4>1. i \in 1 .. sb_len - 1 /\ i + 1 \in 1 .. m
        BY <1>2, <2>1, <3>1, <3>3, SMT, SMTT(60)
      <4>2. sb_buf'[i] = sb_buf[i]
        BY <1>3, <1>5, <3>1, <3>3, ZenonT(60)
      <4> QED
        BY <1>1, <1>2, <4>1, <4>2, ZenonT(60)
    <3> QED
      BY <3>2, <3>3, ZenonT(60)
  <2>5. Keeps(more, sb_len', sb_opt', sb_buf')
    BY <2>2, <2>3, <2>4, ZenonT(60) DEF Keeps
  <2> QED
    BY <2>5, Zenon DEF more
<1>6. CASE sb_len > 0 /\ ~(sb_len < SbMax) /\ UNCHANGED <<sb_opt, sb_len, sb_buf>>
  <2>1. m >= SbMax /\ sb_len = SbMax
    BY <1>1, <1>2, <1>3, <1>6, SMT, SMTT(60)
  <2>2. sb_len' = IF Len(more) < SbMax THEN Len(more) ELSE SbMax
    BY <1>2, <1>6, <2>1, SMT, SMTT(60)
  <2>3. sb_opt' = more[1]
    BY <1>1, <1>2, <1>6, <2>1, SMT, SMTT(60)
  <2>4. ASSUME NEW i \in 1 .. sb_len' - 1 PROVE sb_buf'[i] = more[i + 1]
    <3>1. i \in 1 .. sb_len - 1 /\ i + 1 \in 1 .. m
      BY <1>2, <1>6, <2>1, SMT, SMTT(60)
    <3> QED
      BY <1>1, <1>2, <1>6, <3>1, ZenonT(60)
  <2>5. Keeps(more, sb_len', sb_opt', sb_buf')
    BY <2>2, <2>3, <2>4, Zenon DEF Keeps
  <2> QED
    BY <2>5, Zenon DEF more
<1> QED
  BY <1>4, <1>5, <1>6, Zenon DEF InSb, Stores

(* What is reported at the end of a payload. *)
LEMMA BlockReported ==
    ASSUME TypeOK, NEW body \in Seq(Byte), Keeps(body, sb_len, sb_opt, sb_buf)
    PROVE  Reported(Subneg(sb_opt, Payload)) = Block(body)
<1> DEFINE m == Len(body)
           k == IF m < SbMax THEN m ELSE SbMax
           payload == SubSeq(body, 2, k)
<1>1. /\ sb_len = k
      /\ sb_len > 0 => sb_opt = body[1]
      /\ \A i \in 1 .. sb_len - 1 : sb_buf[i] = body[i + 1]
  BY Zenon DEF Keeps
<1>2. m \in Nat /\ SbMax \in Nat \ {0} /\ k \in 0 .. m /\ k \in 0 .. SbMax
  BY IacAssumption, SMT, SMTT(60)
<1>3. sb_buf \in Seq(Field) /\ Len(sb_buf) = SbMax /\ body \in Seq(Field)
  BY IacAssumption, SMT, SMTT(60) DEF TypeOK, Field
<1> HIDE DEF k
<1>4. CASE k <= 1
  <2>1. Payload = <<>>
    <3>1. Payload = SubSeq(sb_buf, 1, 0)
      BY <1>1, <1>2, <1>4, SMT, SMTT(60) DEF Payload
    <3> QED
      BY <1>3, <3>1, SMT, SMTT(60)
  <2>2. payload = <<>>
    BY <1>2, <1>3, <1>4, SMT, SMTT(60)
  <2>3. Block(body) = Subneg(NoByte, <<>>)
    BY <2>2, Zenon DEF Block, k
  <2>4. sb_opt \in Field /\ <<>> \in Seq(Field)
    BY DEF TypeOK
  <2>5. Reported(Subneg(sb_opt, <<>>)) = Subneg(NoByte, <<>>)
    BY <2>4, ReportedForms, Zenon
  <2> QED
    BY <2>1, <2>3, <2>5, Zenon
<1>5. CASE ~(k <= 1)
  <2>1. /\ Payload = SubSeq(sb_buf, 1, k - 1)
        /\ \A i \in 1 .. k - 1 : sb_buf[i] = body[i + 1]
        /\ sb_opt = body[1]
    <3>1. sb_len > 1 /\ sb_len > 0
      BY <1>1, <1>2, <1>5, SMT, SMTT(60)
    <3> QED
      BY <1>1, <3>1, Zenon DEF Payload
  <2>2. SubSeq(sb_buf, 1, k - 1) = [i \in 1 .. k - 1 |-> sb_buf[i]]
    BY <1>2, <1>3, <1>5, SMT, SMTT(60)
  <2>3. payload = [i \in 1 .. k - 1 |-> body[i + 1]] /\ payload # <<>>
    BY <1>2, <1>3, <1>5, SMT, SMTT(60)
  <2>4. Payload = payload
    BY <2>1, <2>2, <2>3, Zenon
  <2>5. Block(body) = Subneg(body[1], payload)
    BY <2>3, Zenon DEF Block, k
  <2>6. sb_opt \in Field /\ Payload \in Seq(Field)
    BY PayloadType, Zenon DEF TypeOK
  <2>7. Payload # <<>>
    BY <2>3, <2>4, Zenon
  <2>8. Reported(Subneg(sb_opt, Payload)) = Subneg(sb_opt, Payload)
    BY <2>6, <2>7, ReportedForms, Zenon
  <2> QED
    BY <2>1, <2>4, <2>5, <2>8, ZenonT(60)
<1> QED
  BY <1>4, <1>5, Zenon

\* Within a payload that began at a, in the unit at q: what a byte adds to it.
InPayload(b, q, a, n, body) ==
    /\ fed' \in Seq(Byte) /\ Len(fed') = n + 1 /\ n \in Nat
    /\ q \in 1 .. Len(fed') + 1 /\ q < Len(fed') /\ q + 1 <= Len(fed') /\ q <= Len(fed')
    /\ a = q + 2 /\ fed'[q] = IAC /\ fed'[q + 1] = SB
    /\ Decode(fed) \in Seq(Event)
    /\ Size(fed', q) = 0 => Units(fed')[1].rest = q /\ Decode(fed') = Decode(fed)
    /\ Size(fed', q) # 0 /\ q + Size(fed', q) = Len(fed') + 1
         => /\ Units(fed')[1].rest = Len(fed') + 1
            /\ Decode(fed') = Decode(fed) \o Meaning(fed', q)
    /\ body \in Seq(Byte) /\ Keeps(body, sb_len, sb_opt, sb_buf)
    /\ slice = <<>>
    /\ LET escaped == state = "IAC_SB_IAC" IN
       /\ Escaped(fed', a, n + 2) <=> b = IAC /\ ~escaped
       /\ Kept(fed', a, n + 1) = IF b # IAC /\ ~escaped THEN Append(body, b) ELSE body
       /\ Ends(fed', a) = IF b = SE /\ escaped THEN {n + 1} ELSE {}
       /\ escaped => a <= n /\ Kept(fed', a, n - 1) = body

(* That is where the parser is in IAC_SB and IAC_SB_IAC. *)
LEMMA PayloadFollows ==
    ASSUME TypeOK, Follows, NEW b \in Byte, fed' = Append(fed, b),
           state \in {"IAC_SB", "IAC_SB_IAC"}
    PROVE  \E q, body : InPayload(b, q, q + 2, Len(fed), body)
<1> DEFINE q == Units(fed)[1].rest
           n == Len(fed)
           a == q + 2
           body == Kept(fed, q + 2, n)
<1>0. fed \in Seq(Byte)
  BY Zenon DEF TypeOK
<1>1. /\ fed' \in Seq(Byte) /\ Len(fed') = n + 1 /\ n \in Nat
      /\ q \in 1 .. n + 1 /\ \A i \in 1 .. n : fed'[i] = fed[i]
      /\ q \in 1 .. Len(fed') + 1 /\ Decode(fed) \in Seq(Event) /\ Size(fed, q) = 0
      /\ Size(fed', q) = 0 => Units(fed')[1].rest = q /\ Decode(fed') = Decode(fed)
      /\ Size(fed', q) # 0 /\ q + Size(fed', q) = Len(fed') + 1
           => /\ Units(fed')[1].rest = Len(fed') + 1
              /\ Decode(fed') = Decode(fed) \o Meaning(fed', q)
  <2>1. Grown(fed, b, fed', q)
    BY <1>0, StreamGrows, Zenon
  <2> QED
    BY <2>1, Zenon DEF Grown
<1>2. /\ slice = <<>> /\ fed[q] = IAC /\ q + 1 <= n /\ fed[q + 1] = SB
      /\ state = "IAC_SB_IAC" <=> Escaped(fed, q + 2, n + 1)
      /\ Keeps(Kept(fed, q + 2, n), sb_len, sb_opt, sb_buf)
  BY FollowsForms, ZenonT(60)
<1> HIDE DEF q
<1>3. /\ q < Len(fed') /\ q <= Len(fed') /\ q + 1 <= Len(fed') /\ q < n
      /\ q \in 1 .. n /\ q + 1 \in 1 .. n /\ a \in 2 .. n + 1 /\ a \in Nat \ {0}
  BY <1>1, <1>2, SMT, SMTT(60)
<1>4. fed'[q] = IAC /\ fed'[q + 1] = SB
  BY <1>1, <1>2, <1>3, ZenonT(60)
<1>5. Ends(fed, a) = {}
  <2> SUFFICES ASSUME Ends(fed, a) # {} PROVE FALSE
    BY Zenon
  <2> DEFINE m == Min(Ends(fed, a))
  <2>1. Size(fed, q) = m + 1 - q
    BY <1>0, <1>1, <1>2, <1>3, SizeForms, ZenonT(60)
  <2>2. Ends(fed, a) \in SUBSET Nat /\ \A j \in Ends(fed, a) : j \in a + 1 .. n
    BY <1>0, <1>3, EndsNat, ZenonT(60)
  <2>3. m \in a + 1 .. n
    BY <2>2, MinIsLeast, Zenon
  <2> HIDE DEF m
  <2> QED
    BY <1>1, <2>1, <2>3, SMT, SMTT(60)
<1> HIDE DEF a
<1>6. /\ Escaped(fed', a, n + 2) <=> b = IAC /\ ~Escaped(fed, a, n + 1)
      /\ Kept(fed', a, n + 1) = IF b # IAC /\ ~Escaped(fed, a, n + 1)
                                THEN Append(Kept(fed, a, n), b) ELSE Kept(fed, a, n)
      /\ Ends(fed', a) = IF b = SE /\ Escaped(fed, a, n + 1) THEN {n + 1} ELSE {}
      /\ Escaped(fed, a, n + 1) => a <= n /\ Kept(fed', a, n - 1) = Kept(fed, a, n)
      /\ Kept(fed, a, n) \in Seq(Byte)
  <2>1. PayloadGrown(fed, b, fed', a, n)
    BY <1>0, <1>3, <1>5, PayloadGrows, ZenonT(60)
  <2> QED
    BY <2>1, Zenon DEF PayloadGrown
<1>7. Escaped(fed, a, n + 1) <=> state = "IAC_SB_IAC"
  BY <1>2, Zenon DEF a
<1>8. InPayload(b, q, a, n, Kept(fed, a, n))
  <2>1. Keeps(Kept(fed, a, n), sb_len, sb_opt, sb_buf)
    BY <1>2, Zenon DEF a
  <2>2. a = q + 2
    BY Zenon DEF a
  <2>3. CASE state = "IAC_SB_IAC"
    BY <1>1, <1>2, <1>3, <1>4, <1>6, <1>7, <2>1, <2>2, <2>3, ZenonT(60) DEF InPayload
  <2>4. CASE state # "IAC_SB_IAC"
    BY <1>1, <1>2, <1>3, <1>4, <1>6, <1>7, <2>1, <2>2, <2>4, ZenonT(60) DEF InPayload
  <2> QED
    BY <2>3, <2>4, Zenon
<1>9. InPayload(b, q, q + 2, Len(fed), Kept(fed, a, n))
  BY <1>8, Zenon DEF a
<1> QED
  BY <1>9, Zenon

(* A byte that does not end the payload. *)
LEMMA PayloadGoesOn ==
    ASSUME TypeOK, DecodesStream, NEW b, NEW q, NEW n, NEW body,
           InPayload(b, q, q + 2, n, body), Ends(fed', q + 2) = {},
           TypeOK', out' = out, slice' = slice,
           state' = IF b = IAC /\ state = "IAC_SB" THEN "IAC_SB_IAC" ELSE "IAC_SB",
           state \in {"IAC_SB", "IAC_SB_IAC"},
           Keeps(Kept(fed', q + 2, n + 1), sb_len', sb_opt', sb_buf')
    PROVE  Follows' /\ DecodesStream'
<1>1. Size(fed', q) = 0
  BY SizeForms, Zenon DEF InPayload
<1>2. Units(fed')[1].rest = q /\ Decode(fed') = Decode(fed)
  BY <1>1, Zenon DEF InPayload
<1>3. Flushed' = Flushed
  BY Zenon DEF Flushed
<1>4. DecodesStream'
  BY <1>2, <1>3, SaysNothing, ZenonT(60)
<1>5. /\ Escaped(fed', q + 2, n + 2) <=> b = IAC /\ ~(state = "IAC_SB_IAC")
      /\ Len(fed') = n + 1 /\ n \in Nat /\ slice = <<>>
      /\ q + 1 <= Len(fed') /\ q <= Len(fed') /\ fed'[q] = IAC /\ fed'[q + 1] = SB
  BY Zenon DEF InPayload
<1>6. (n + 1) + 1 = n + 2
  BY <1>5, SMT, SMTT(60)
<1>7. state' = "IAC_SB_IAC" <=> Escaped(fed', q + 2, Len(fed') + 1)
  BY <1>5, <1>6, Zenon
<1>8. /\ Keeps(Kept(fed', q + 2, Len(fed')), sb_len', sb_opt', sb_buf')
      /\ state' \in {"IAC_SB", "IAC_SB_IAC"}
  BY <1>5, Zenon
<1>9. Follows'
  <2>1. /\ Units(fed')[1].rest = q /\ slice' = <<>> /\ q <= Len(fed') /\ fed'[q] = IAC
        /\ q + 1 <= Len(fed') /\ fed'[q + 1] = SB
    BY <1>2, <1>5, Zenon
  <2> QED
    BY <1>7, <1>8, <2>1, ZenonT(60) DEF Follows, Keeps
<1> QED
  BY <1>4, <1>9, Zenon

(* A byte of a payload. *)
LEMMA SbFollows ==
    ASSUME TypeOK, Follows, DecodesStream, NEW b \in Byte, fed' = Append(fed, b),
           TypeOK', InSb(b)
    PROVE  Follows' /\ DecodesStream'
<1>0. state = "IAC_SB" /\ out' = out /\ slice' = slice
  BY Zenon DEF InSb
<1> DEFINE n == Len(fed)
<1>1. PICK q, body : InPayload(b, q, q + 2, n, body)
  BY <1>0, PayloadFollows, Zenon
<1>2. /\ body \in Seq(Byte) /\ Keeps(body, sb_len, sb_opt, sb_buf)
      /\ Kept(fed', q + 2, n + 1) = IF b # IAC THEN Append(body, b) ELSE body
      /\ Ends(fed', q + 2) = {}
  BY <1>0, <1>1, Zenon DEF InPayload
<1>3. state' = IF b = IAC /\ state = "IAC_SB" THEN "IAC_SB_IAC" ELSE "IAC_SB"
  <2>1. CASE b = IAC
    BY <1>0, <2>1, Zenon DEF InSb
  <2>2. CASE b # IAC
    BY <1>0, <2>2, Zenon DEF InSb
  <2> QED
    BY <2>1, <2>2, Zenon
<1>4. Keeps(Kept(fed', q + 2, n + 1), sb_len', sb_opt', sb_buf')
  <2>1. CASE b = IAC
    <3>1. UNCHANGED <<sb_opt, sb_len, sb_buf>>
      BY <2>1, Zenon DEF InSb
    <3> QED
      BY <1>2, <2>1, <3>1, Zenon
  <2>2. CASE b # IAC
    <3>1. Keeps(Append(body, b), sb_len', sb_opt', sb_buf')
      BY <1>2, <2>2, KeepsMore, ZenonT(60)
    <3> QED
      BY <1>2, <2>2, <3>1, ZenonT(60)
  <2> QED
    BY <2>1, <2>2, Zenon
<1> HIDE DEF n
<1> QED
  BY <1>0, <1>1, <1>2, <1>3, <1>4, PayloadGoesOn, ZenonT(60)

(* The byte after an IAC in a payload. *)
LEMMA SbIacFollows ==
    ASSUME TypeOK, Follows, DecodesStream, NEW b \in Byte, fed' = Append(fed, b),
           TypeOK', InSbIac(b)
    PROVE  Follows' /\ DecodesStream'
<1>0. /\ state = "IAC_SB_IAC" /\ slice' = slice /\ out' \in Seq(Event)
      /\ UNCHANGED <<sb_opt, sb_len, sb_buf>>
  BY Zenon DEF InSbIac, TypeOK
<1> DEFINE n == Len(fed)
<1>1. PICK q, body : InPayload(b, q, q + 2, n, body)
  BY <1>0, PayloadFollows, Zenon
<1>2. /\ body \in Seq(Byte) /\ Keeps(body, sb_len, sb_opt, sb_buf)
      /\ Kept(fed', q + 2, n + 1) = body /\ Kept(fed', q + 2, n - 1) = body /\ q + 2 <= n
      /\ Ends(fed', q + 2) = IF b = SE THEN {n + 1} ELSE {}
      /\ slice = <<>>
  BY <1>0, <1>1, ZenonT(60) DEF InPayload
<1> HIDE DEF n
<1>3. CASE b = SE
  <2>1. out' = Append(out, Subneg(sb_opt, Payload)) /\ state' = "IAC_DATA"
    BY <1>3, Zenon DEF InSbIac
  <2>2. /\ fed' \in Seq(Byte) /\ Len(fed') = n + 1 /\ n \in Nat
        /\ q \in 1 .. Len(fed') + 1 /\ q < Len(fed')
        /\ fed'[q] = IAC /\ fed'[q + 1] = SB
        /\ Decode(fed) \in Seq(Event)
    BY <1>1, Zenon DEF InPayload
  <2>3. Min({n + 1}) = n + 1
    <3>1. {n + 1} \in SUBSET Nat /\ n + 1 \in {n + 1} /\ \A y \in {n + 1} : n + 1 <= y
      BY <2>2, SMT, SMTT(60)
    <3> QED
      BY <3>1, LeastIsMin, ZenonT(60)
  <2>4. Ends(fed', q + 2) = {n + 1} /\ {n + 1} # {}
    BY <1>2, <1>3, ZenonT(60)
  <2>5. Size(fed', q) = (n + 1) + 1 - q
    <3>1. Size(fed', q) = Min(Ends(fed', q + 2)) + 1 - q
      BY <2>2, <2>4, SizeForms, ZenonT(60)
    <3> QED
      BY <2>3, <2>4, <3>1, ZenonT(60)
  <2>6. Size(fed', q) # 0 /\ q + Size(fed', q) = Len(fed') + 1 /\ q + Size(fed', q) - 3 = n - 1
    BY <2>2, <2>5, SMT, SMTT(60)
  <2> DEFINE B == Body(fed', q + 2, n - 1)
             e == Subneg(sb_opt, Payload)
  <2>7. Meaning(fed', q) = <<Block(B)>>
    <3>1. Meaning(fed', q) = <<Block(Body(fed', q + 2, q + Size(fed', q) - 3))>>
      BY <2>2, MeaningForms, Zenon
    <3> QED
      BY <2>6, <3>1, Zenon
  <2>8. SharesStart(B, body)
    <3>1. q + 2 \in Nat \ {0} /\ n - 1 \in (q + 2) - 1 .. Len(fed')
      BY <1>2, <2>2, SMT, SMTT(60)
    <3>2. SharesStart(B, Kept(fed', q + 2, n - 1))
      BY <2>2, <3>1, KeptShares, Zenon
    <3> QED
      BY <1>2, <3>2, Zenon
  <2>9. /\ Units(fed')[1].rest = Len(fed') + 1
        /\ Decode(fed') = Decode(fed) \o <<Block(B)>>
    BY <1>1, <2>6, <2>7, ZenonT(60) DEF InPayload
  <2>14. Block(B) \in Event
    <3>1. B \in Seq(Byte)
      BY <2>8, Zenon DEF SharesStart
    <3> QED
      BY <3>1, BlockType, Zenon
  <2>15. Means(e, Block(B))
    <3>1. Reported(e) = Block(body)
      BY <1>2, BlockReported, ZenonT(60)
    <3>2. e.event = "subneg"
      BY DEF Subneg
    <3>3. Block(body) = Block(B) \/ Escapes(Block(B))
      BY <2>8, BlockAgrees, Zenon
    <3> HIDE DEF e
    <3> QED
      BY <3>1, <3>2, <3>3, Zenon DEF Means
  <2> HIDE DEF B
  <2>10. Flushed \in Seq(Event) /\ Flushed' = Append(Flushed, Subneg(sb_opt, Payload))
    BY <1>0, <1>2, <2>1, FlushedType, ZenonT(60)
  <2>11. Subneg(sb_opt, Payload) \in Event
    BY PayloadType, EventTypes, ZenonT(60) DEF TypeOK
  <2>12. DecodesStream'
    BY <2>2, <2>9, <2>10, <2>11, <2>14, <2>15, SaysThis, ZenonT(60)
  <2>13. Follows'
    BY <2>1, <2>9, ZenonT(60) DEF Follows
  <2> QED
    BY <2>12, <2>13, Zenon
<1>4. CASE b # SE
  <2>1. /\ out' = out /\ Ends(fed', q + 2) = {}
        /\ state' = IF b = IAC /\ state = "IAC_SB" THEN "IAC_SB_IAC" ELSE "IAC_SB"
    BY <1>0, <1>2, <1>4, ZenonT(60) DEF InSbIac
  <2>2. Keeps(Kept(fed', q + 2, n + 1), sb_len', sb_opt', sb_buf')
    BY <1>0, <1>2, ZenonT(60)
  <2> QED
    BY <1>0, <1>1, <2>1, <2>2, PayloadGoesOn, ZenonT(60)
<1> QED
  BY <1>3, <1>4, Zenon

\* What is kept: the types, where the parser stands, and what it has reported.
GrammarInv == TypeOK /\ VerbKnown /\ Follows /\ DecodesStream

(* At the start nothing has arrived and nothing has been reported. *)
LEMMA InitGrammar ==
    ASSUME Init
    PROVE  GrammarInv
<1>1. TypeOK /\ VerbKnown
  BY IacAssumption, SMT, SMTT(60) DEF Init, TypeOK, VerbKnown, State, Field
<1>2. fed = <<>> /\ state = "IAC_DATA" /\ Flushed = <<>>
  BY DEF Init, Flushed
<1>3. fed \in Seq(Byte) /\ Len(fed) = 0 /\ 1 \in 1 .. Len(fed) + 1 /\ 1 = Len(fed) + 1
  BY <1>2, SMT, SMTT(60)
<1>4. Size(fed, 1) = 0
  BY <1>3, SizeForms, ZenonT(60)
<1>5. Units(fed)[1].events = <<>> /\ Units(fed)[1].rest = Len(fed) + 1
  <2>1. Units(fed)[1].events = <<>> /\ Units(fed)[1].rest = 1
    BY <1>3, <1>4, UnitsNext, ZenonT(60)
  <2> QED
    BY <1>3, <2>1, ZenonT(60)
<1>6. Follows
  BY <1>2, <1>5, Zenon DEF Follows
<1>7. DecodesStream
  <2>1. Flushed = <<>> /\ Decode(fed) = <<>>
    BY <1>2, <1>5, Zenon DEF Decode
  <2>2. Tells(<<>>, <<>>)
    BY SMT, SMTT(60) DEF Tells
  <2> QED
    BY <2>1, <2>2, StreamTells, Zenon
<1> QED
  BY <1>1, <1>6, <1>7, ZenonT(60) DEF GrammarInv

(* A byte keeps it, whatever the state it is read in. *)
LEMMA FeedGrammar ==
    ASSUME GrammarInv, NEW b \in Byte, Feed(b)
    PROVE  GrammarInv'
<1>1. TypeOK /\ VerbKnown /\ Follows /\ DecodesStream /\ fed' = Append(fed, b)
  BY Zenon DEF GrammarInv, Feed
<1>2. TypeOK' /\ VerbKnown'
  BY <1>1, FeedType, Zenon
<1>3. Follows' /\ DecodesStream'
  <2>1. CASE InData(b)
    BY <1>1, <1>2, <2>1, DataFollows, Zenon
  <2>2. CASE InIac(b)
    BY <1>1, <1>2, <2>2, IacFollows, ZenonT(60)
  <2>3. CASE InCmd(b)
    BY <1>1, <1>2, <2>3, CmdFollows, Zenon
  <2>4. CASE InSb(b)
    BY <1>1, <1>2, <2>4, SbFollows, Zenon
  <2>5. CASE InSbIac(b)
    BY <1>1, <1>2, <2>5, SbIacFollows, Zenon
  <2> QED
    BY <2>1, <2>2, <2>3, <2>4, <2>5, ZenonT(60) DEF Feed
<1> QED
  BY <1>2, <1>3, ZenonT(60) DEF GrammarInv

(* The end of a read reports what it held back, and the parser stays where *)
(* it is.                                                                  *)
LEMMA ReadGrammar ==
    ASSUME GrammarInv, ReadEnds
    PROVE  GrammarInv'
<1>1. /\ TypeOK /\ VerbKnown /\ Follows /\ DecodesStream
      /\ out' = Flushed /\ slice' = <<>>
      /\ UNCHANGED <<state, cmd, sb_opt, sb_len, sb_buf, fed>>
  BY Zenon DEF GrammarInv, ReadEnds
<1>2. out' \in Seq(Event) /\ Flushed' = Flushed
  BY <1>1, FlushedType, ZenonT(60)
<1>3. TypeOK'
  BY <1>1, <1>2, SMT, SMTT(60) DEF TypeOK
<1>4. DecodesStream'
  <2>1. Decode(fed') = Decode(fed)
    BY <1>1, ZenonT(60)
  <2> QED
    BY <1>1, <1>2, <2>1, SaysNothing, ZenonT(60)
<1>5. Follows'
  BY <1>1, Zenon DEF Follows
<1>6. VerbKnown'
  BY <1>1, Zenon DEF VerbKnown
<1> QED
  BY <1>3, <1>4, <1>5, <1>6, ZenonT(60) DEF GrammarInv

(***************************************************************************)
(* For every stream of bytes, every way to cut it into reads and every     *)
(* size of the accumulator, and at every moment, iac_parser_feed has made  *)
(* or is about to make the calls that the grammar asks for, in order.  It  *)
(* stands at the unit the grammar finds incomplete: the strengthening that *)
(* makes this inductive.                                                   *)
(***************************************************************************)
THEOREM StreamIsDecoded == Spec => []DecodesStream
<1>1. Init => GrammarInv
  BY InitGrammar, Zenon
<1>2. GrammarInv /\ [Next]_vars => GrammarInv'
  <2> SUFFICES ASSUME GrammarInv, [Next]_vars PROVE GrammarInv'
    BY Zenon
  <2>1. CASE ReadEnds
    BY <2>1, ReadGrammar, ZenonT(60)
  <2>2. ASSUME NEW b \in Byte, Feed(b) PROVE GrammarInv'
    BY <2>2, FeedGrammar, ZenonT(60)
  <2>3. CASE UNCHANGED vars
    BY <2>3, ZenonT(60) DEF vars, GrammarInv, TypeOK, VerbKnown, Follows, DecodesStream, Flushed
  <2> QED
    BY <2>1, <2>2, <2>3, Zenon DEF Next
<1>3. GrammarInv => DecodesStream
  BY Zenon DEF GrammarInv
<1> QED
  BY <1>1, <1>2, <1>3, PTL DEF Spec

(***************************************************************************)
(* The same with a second parser beside it that is fed the same bytes.     *)
(***************************************************************************)
THEOREM StreamIsDecodedWithCuts == CutsSpec => []DecodesStream
<1>1. CutsInit => Init
  BY Zenon DEF CutsInit
<1>2. [CutsNext]_<<vars, vars2>> => [Next]_vars
  BY Zenon DEF CutsNext, Next
<1> QED
  BY <1>1, <1>2, StreamIsDecoded, PTL DEF CutsSpec, Spec
=============================================================================
