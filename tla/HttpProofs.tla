----------------------------- MODULE HttpProofs -----------------------------
(***************************************************************************)
(* HttpSession: one response per request, and the budget within which      *)
(* close_graceful gets it to the client, for every size of the buffer and  *)
(* of the reads, and every number of turns.                                *)
(*                                                                         *)
(* And what read_request makes of the stream: http_parse_request reads a   *)
(* buffer of any length as the reference does (ParseExact), so that the    *)
(* verdict is that of the whole stream wherever a read ends.               *)
(***************************************************************************)
EXTENDS HttpSession, WellFoundedInduction, TLAPS

\* The types of what the proofs speak of.
Types ==
    /\ sent \in Seq(Token)
    /\ peer \in {"open", "done", "gone"}
    /\ have \in 0 .. BufSz /\ off \in Nat /\ have + off <= Len(sent)
    /\ pc \in {"read", "dispatch", "send", "stream", "frame", "dispatched",
              "unregister", "drain", "closed"}
    /\ turns \in 0 .. DrainMax /\ owed \in Nat
    /\ late \in BOOLEAN

\* Where the one response is given, and noted.
Answered ==
    /\ pc \in {"read", "dispatch"} => replies = <<>>
    /\ pc = "read" => verdict = ""
    /\ pc \in {"dispatch", "send", "stream", "frame", "dispatched"} => verdict = "ok"
    /\ pc \in {"stream", "frame", "dispatched"} => responded
    /\ pc \in {"send", "stream", "frame", "dispatched", "unregister", "drain", "closed"} =>
         /\ \E status \in Status : replies = <<>> \/ replies = <<status>>
         /\ (replies = <<>>) <=> (verdict = "left")

\* Before the drain a response is lost only to a reset.  During it, and as
\* long as nothing new comes, what is left to receive is what there was less
\* what the turns have taken.
Budget ==
    /\ pc \in {"read", "dispatch"} => reply # "lost"
    /\ pc \in {"read", "dispatch", "send", "stream", "frame", "dispatched", "unregister"} =>
         turns = 0 /\ (reply = "lost" => peer = "gone")
    /\ pc = "drain" /\ ~late /\ Unread > 0 => owed = Unread + turns * Chunk
    /\ ReplyKept

Inv == Types /\ Answered /\ Budget

-----------------------------------------------------------------------------
(* Least elements *)

(* A nonempty set of naturals has a least element. *)
LEMMA NatMin ==
    ASSUME NEW S \in SUBSET Nat, S # {}
    PROVE  \E x \in S : \A y \in S : x <= y
<1>1. \E R : /\ IsWellFoundedOn(R, Nat)
             /\ \A x, y \in Nat : <<x, y>> \in R <=> x < y
  <2>1. \A x, y \in Nat : <<x, y>> \in OpToRel(<, Nat) <=> x < y
    BY Zenon DEF OpToRel
  <2> QED
    BY <2>1, NatLessThanWellFounded, Zenon
<1>2. PICK R : /\ IsWellFoundedOn(R, Nat)
               /\ \A x, y \in Nat : <<x, y>> \in R <=> x < y
  BY <1>1, Zenon
<1>3. PICK x \in S : \A y \in S : ~ (<<y, x>> \in R)
  <2>1. S \subseteq Nat /\ S # {}
    BY Zenon
  <2>2. IsWellFoundedOn(R, Nat)
    BY <1>2, Zenon
  <2> QED
    BY <2>1, <2>2, WFMin, Zenon
<1>4. \A y \in S : ~ (y < x)
  BY <1>2, <1>3, Zenon
<1> QED
  BY <1>4

(* Min is the least element. *)
LEMMA MinIsLeast ==
    ASSUME NEW S \in SUBSET Nat, S # {}
    PROVE  Min(S) \in S /\ Min(S) \in Nat /\ \A y \in S : Min(S) <= y
<1>1. Min(S) \in S /\ \A y \in S : Min(S) <= y
  BY NatMin, Zenon DEF Min
<1> QED
  BY <1>1, Zenon

(* There is one least element. *)
LEMMA LeastIsMin ==
    ASSUME NEW S \in SUBSET Nat, NEW m \in S, \A y \in S : m <= y
    PROVE  Min(S) = m
<1>1. Min(S) \in S /\ Min(S) \in Nat /\ \A y \in S : Min(S) <= y
  BY MinIsLeast, Zenon
<1>2. Min(S) <= m /\ m <= Min(S) /\ m \in Nat
  BY <1>1, Zenon
<1> HIDE DEF Min
<1> QED
  BY <1>1, <1>2

(* The least of two numbers is one of them, and not above the other. *)
LEMMA MinOfTwo ==
    ASSUME NEW a \in Int, NEW b \in Int
    PROVE  Min({a, b}) = IF a <= b THEN a ELSE b
<1>1. CASE a <= b
  <2>1. \A y \in {a, b} : a <= y
    BY <1>1
  <2>2. \A x \in {a, b} : (\A y \in {a, b} : x <= y) => x = a
    BY <1>1
  <2>3. Min({a, b}) = a
    BY <2>1, <2>2, Zenon DEF Min
  <2> QED
    BY <1>1, <2>3, Zenon
<1>2. CASE ~(a <= b)
  <2>1. \A y \in {a, b} : b <= y
    BY <1>2
  <2>2. \A x \in {a, b} : (\A y \in {a, b} : x <= y) => x = b
    BY <1>2
  <2>3. Min({a, b}) = b
    BY <2>1, <2>2, Zenon DEF Min
  <2> QED
    BY <1>2, <2>3, Zenon
<1> QED
  BY <1>1, <1>2, Zenon

-----------------------------------------------------------------------------
(* http_parse_request *)

\* Where the lines begin, and end empty, of what is left from p on, p itself
\* taken for the beginning of a line.
Starts(buf, p) == {j \in p .. Len(buf) : j = p \/ buf[j - 1] = "LF"}

Empties(buf, p) ==
    {i \in Newlines(buf, p) :
        i \in Starts(buf, p) \/ (i - 1 \in Starts(buf, p) /\ buf[i - 1] = "CR")}

\* The length of the body as of p, when the lines before have claimed length.
Claimed(buf, p, length) ==
    IF \E j \in Starts(buf, p) : j <= Min(Empties(buf, p)) /\ buf[j] = "len"
    THEN 1 ELSE length

\* What the loop over the lines does from p on, said without a loop.
Rest(buf) ==
    [p \in 1 .. Len(buf) + 1 |-> [length \in 0 .. 1 |->
        IF Empties(buf, p) = {} THEN More
        ELSE Finish(buf, Min(Empties(buf, p)), Claimed(buf, p, length))]]

\* The equation of the loop.
Loop(buf, f) ==
    [p \in 1 .. Len(buf) + 1 |-> [length \in 0 .. 1 |-> HeaderLine(buf, f, p, length)]]

Solves(buf, f) == f = Loop(buf, f)

(* The line ends from p on, and the first of them. *)
LEMMA FirstNewline ==
    ASSUME NEW buf \in Seq(Token), NEW p \in Nat \ {0}, Newlines(buf, p) # {}
    PROVE  LET nl == Min(Newlines(buf, p)) IN
           /\ nl \in Nat /\ p <= nl /\ nl <= Len(buf) /\ buf[nl] = "LF"
           /\ \A i \in p .. nl - 1 : buf[i] # "LF"
           /\ \A i \in Newlines(buf, p) : nl <= i
<1> DEFINE nl == Min(Newlines(buf, p))
<1>1. Newlines(buf, p) \in SUBSET Nat
  BY DEF Newlines
<1>2. nl \in Newlines(buf, p) /\ nl \in Nat /\ \A i \in Newlines(buf, p) : nl <= i
  BY <1>1, MinIsLeast, Zenon
<1> HIDE DEF nl
<1>3. p <= nl /\ nl <= Len(buf) /\ buf[nl] = "LF" /\ Len(buf) \in Nat
  BY <1>2 DEF Newlines
<1>4. ASSUME NEW i \in p .. nl - 1 PROVE buf[i] # "LF"
  BY <1>2, <1>3 DEF Newlines
<1> QED
  BY <1>2, <1>3, <1>4, Zenon DEF nl

(* A line is empty if it ends where it begins, or after a CR; otherwise it *)
(* begins with its first token.                                            *)
LEMMA LineText ==
    ASSUME NEW buf \in Seq(Token), NEW p \in Nat \ {0}, Newlines(buf, p) # {}
    PROVE  LET nl == Min(Newlines(buf, p))
               line == get_line(buf, p) IN
           /\ line.next = nl + 1
           /\ line.text = <<>> <=> nl = p \/ (nl = p + 1 /\ buf[p] = "CR")
           /\ line.text # <<>> => line.text[1] = buf[p]
<1> DEFINE nl == Min(Newlines(buf, p))
           e == IF nl > p /\ buf[nl - 1] = "CR" THEN nl - 2 ELSE nl - 1
<1>1. /\ nl \in Nat /\ p <= nl /\ nl <= Len(buf) /\ buf[nl] = "LF"
  BY FirstNewline, Zenon
<1>2. get_line(buf, p).next = nl + 1 /\ get_line(buf, p).text = SubSeq(buf, p, e)
  BY Zenon DEF get_line
<1> HIDE DEF nl
<1>3. e \in Int /\ p - 1 <= e /\ e <= Len(buf) /\ Len(buf) \in Nat
  BY <1>1
<1>4. e < p <=> nl = p \/ (nl = p + 1 /\ buf[p] = "CR")
  BY <1>1
<1> HIDE DEF e
<1>5. SubSeq(buf, p, e) = <<>> <=> e < p
  BY <1>3
<1>6. e >= p => SubSeq(buf, p, e)[1] = buf[p]
  BY <1>3
<1>7. SubSeq(buf, p, e) # <<>> => e >= p
  BY <1>3, <1>5
<1> QED
  BY <1>2, <1>4, <1>5, <1>6, <1>7, Zenon DEF nl

(* The lines after the first one from p on. *)
LEMMA NextLine ==
    ASSUME NEW buf \in Seq(Token), NEW p \in Nat \ {0}, Newlines(buf, p) # {}
    PROVE  LET nl == Min(Newlines(buf, p)) IN
           /\ nl \in Empties(buf, p) <=> nl = p \/ (nl = p + 1 /\ buf[p] = "CR")
           /\ \A j \in Starts(buf, p) : j <= nl => j = p
           /\ p \in Starts(buf, p)
           /\ \A j : j \in Starts(buf, p) /\ j # p <=> j \in Starts(buf, nl + 1)
           /\ \A i : i \in Empties(buf, p) /\ i # nl <=> i \in Empties(buf, nl + 1)
<1> DEFINE nl == Min(Newlines(buf, p))
<1>1. /\ nl \in Nat /\ p <= nl /\ nl <= Len(buf) /\ buf[nl] = "LF"
      /\ \A i \in p .. nl - 1 : buf[i] # "LF"
      /\ \A i \in Newlines(buf, p) : nl <= i
  BY FirstNewline, Zenon
<1> HIDE DEF nl
<1>2. p \in Starts(buf, p) /\ Len(buf) \in Nat
  BY <1>1 DEF Starts
<1>3. \A j \in Starts(buf, p) : j <= nl => j = p
  BY <1>1 DEF Starts
<1>4. nl \in Empties(buf, p) <=> nl = p \/ (nl = p + 1 /\ buf[p] = "CR")
  <2>1. nl \in Newlines(buf, p)
    BY <1>1 DEF Newlines
  <2>2. nl \in Starts(buf, p) <=> nl = p
    BY <1>1, <1>2, <1>3
  <2>3. nl - 1 \in Starts(buf, p) <=> nl = p + 1
    <3>1. nl = p + 1 => nl - 1 = p
      BY <1>1
    <3>2. nl - 1 \in Starts(buf, p) => nl - 1 = p
      BY <1>1, <1>3
    <3> QED
      BY <1>1, <1>2, <3>1, <3>2, SMT, SMTT(60)
  <2>4. nl = p + 1 => buf[nl - 1] = buf[p]
    BY <1>1
  <2> QED
    BY <2>1, <2>2, <2>3, <2>4, Zenon DEF Empties
<1>5. ASSUME NEW j PROVE j \in Starts(buf, p) /\ j # p <=> j \in Starts(buf, nl + 1)
  BY <1>1, <1>2 DEF Starts
<1>6. ASSUME NEW i PROVE i \in Empties(buf, p) /\ i # nl <=> i \in Empties(buf, nl + 1)
  <2>1. i \in Newlines(buf, p) /\ i # nl <=> i \in Newlines(buf, nl + 1)
    BY <1>1, <1>2 DEF Newlines
  <2>2. ASSUME i \in Newlines(buf, nl + 1)
        PROVE  /\ i \in Starts(buf, p) <=> i \in Starts(buf, nl + 1)
               /\ i - 1 \in Starts(buf, p) /\ buf[i - 1] = "CR"
                    <=> i - 1 \in Starts(buf, nl + 1) /\ buf[i - 1] = "CR"
    <3>1. i \in Nat /\ nl < i
      BY <1>1, <2>2 DEF Newlines
    <3>2. i # p
      BY <1>1, <3>1
    <3>3. i - 1 = p /\ buf[i - 1] = "CR" => i - 1 \notin Starts(buf, nl + 1)
      BY <1>1, <3>1 DEF Starts
    <3>4. i - 1 = p => i - 1 = nl
      BY <1>1, <3>1
    <3>5. i - 1 = nl => buf[i - 1] # "CR"
      BY <1>1
    <3> QED
      BY <1>5, <3>2, <3>4, <3>5, Zenon
  <2> QED
    BY <2>1, <2>2, Zenon DEF Empties
<1> QED
  BY <1>2, <1>3, <1>4, <1>5, <1>6, Zenon DEF nl

(* The lines are within the buffer. *)
LEMMA EmptiesNat ==
    ASSUME NEW buf \in Seq(Token), NEW p \in Nat
    PROVE  Empties(buf, p) \in SUBSET Nat /\ \A i \in Empties(buf, p) : i \in p .. Len(buf)
BY DEF Empties, Newlines

(* The closed form satisfies the equation of the loop. *)
LEMMA RestLoops ==
    ASSUME NEW buf \in Seq(Token)
    PROVE  Solves(buf, Rest(buf))
<1> SUFFICES ASSUME NEW p \in 1 .. Len(buf) + 1, NEW length \in 0 .. 1
             PROVE  (IF Empties(buf, p) = {} THEN More
                     ELSE Finish(buf, Min(Empties(buf, p)), Claimed(buf, p, length)))
                      = HeaderLine(buf, Rest(buf), p, length)
  BY Zenon DEF Rest, Loop, Solves
<1>0. p \in Nat \ {0} /\ Len(buf) \in Nat
  OBVIOUS
<1>1. CASE Newlines(buf, p) = {}
  <2>1. Empties(buf, p) = {}
    BY <1>1, Zenon DEF Empties
  <2> QED
    BY <1>1, <2>1, Zenon DEF HeaderLine
<1>2. CASE Newlines(buf, p) # {}
  <2> DEFINE nl == Min(Newlines(buf, p))
             line == get_line(buf, p)
             E == Empties(buf, p)
  <2>1. /\ nl \in Nat /\ p <= nl /\ nl <= Len(buf) /\ buf[nl] = "LF"
        /\ \A i \in Newlines(buf, p) : nl <= i
    BY <1>0, <1>2, FirstNewline, Zenon
  <2>2. /\ line.next = nl + 1
        /\ line.text = <<>> <=> nl = p \/ (nl = p + 1 /\ buf[p] = "CR")
        /\ line.text # <<>> => line.text[1] = buf[p]
    BY <1>0, <1>2, LineText, Zenon
  <2>3. /\ nl \in E <=> nl = p \/ (nl = p + 1 /\ buf[p] = "CR")
        /\ \A j \in Starts(buf, p) : j <= nl => j = p
        /\ p \in Starts(buf, p)
        /\ \A j : j \in Starts(buf, p) /\ j # p <=> j \in Starts(buf, nl + 1)
        /\ \A i : i \in E /\ i # nl <=> i \in Empties(buf, nl + 1)
    BY <1>0, <1>2, NextLine, Zenon
  <2>4. HeaderLine(buf, Rest(buf), p, length)
          = IF line.text = <<>> THEN Finish(buf, line.next - 1, length)
            ELSE Rest(buf)[line.next][Length(line.text, length)]
    BY <1>2, Zenon DEF HeaderLine
  <2>5. E \in SUBSET Nat /\ E \subseteq Newlines(buf, p)
    BY <1>0, EmptiesNat, Zenon DEF Empties
  <2> HIDE DEF nl, line, E
  <2>6. CASE nl \in E
    <3>1. Min(E) = nl
      BY <2>1, <2>5, <2>6, LeastIsMin, Zenon
    <3>2. buf[p] # "len"
      BY <2>1, <2>3, <2>6
    <3>3. Claimed(buf, p, length) = length
      BY <2>3, <3>1, <3>2, Zenon DEF Claimed, E
    <3>4. line.next - 1 = nl
      BY <2>1, <2>2
    <3> QED
      BY <2>2, <2>3, <2>4, <2>6, <3>1, <3>3, <3>4, Zenon DEF E
  <2>7. CASE nl \notin E
    <3> DEFINE q == nl + 1
    <3>1. q \in 1 .. Len(buf) + 1 /\ q \in Nat /\ p < q
      BY <1>0, <2>1
    <3>2. E = Empties(buf, q)
      BY <2>3, <2>7, Zenon
    <3>3. Length(line.text, length) \in 0 .. 1
      BY DEF Length
    <3>4. Rest(buf)[q][Length(line.text, length)]
            = IF E = {} THEN More
              ELSE Finish(buf, Min(E), Claimed(buf, q, Length(line.text, length)))
      BY <3>1, <3>2, <3>3, Zenon DEF Rest
    <3>5. ASSUME E # {}
          PROVE  Claimed(buf, p, length) = Claimed(buf, q, Length(line.text, length))
      <4>1. Min(E) \in Nat /\ q <= Min(E)
        <5>1. Min(E) \in E
          BY <2>5, <3>5, MinIsLeast, Zenon
        <5>2. Min(E) \in q .. Len(buf)
          BY <3>1, <3>2, <5>1, EmptiesNat, Zenon
        <5> HIDE DEF Min, q
        <5> QED
          BY <3>1, <5>2
      <4>2. p <= Min(E)
        <5> HIDE DEF Min, q
        <5> QED
          BY <1>0, <3>1, <4>1
      <4>3. Length(line.text, length) = IF buf[p] = "len" THEN 1 ELSE length
        BY <2>2, <2>3, <2>7, Zenon DEF Length
      <4>4. (\E j \in Starts(buf, p) : j <= Min(E) /\ buf[j] = "len")
              <=> buf[p] = "len" \/ \E j \in Starts(buf, q) : j <= Min(E) /\ buf[j] = "len"
        BY <2>3, <4>2, Zenon
      <4>5. /\ Claimed(buf, p, length)
                 = IF \E j \in Starts(buf, p) : j <= Min(E) /\ buf[j] = "len" THEN 1 ELSE length
            /\ Claimed(buf, q, Length(line.text, length))
                 = IF \E j \in Starts(buf, q) : j <= Min(E) /\ buf[j] = "len" THEN 1
                   ELSE Length(line.text, length)
        BY <3>2, Zenon DEF Claimed, E
      <4>6. CASE buf[p] = "len"
        <5>1. Claimed(buf, p, length) = 1
          BY <4>4, <4>5, <4>6, Zenon
        <5>2. Claimed(buf, q, Length(line.text, length)) = 1
          BY <4>3, <4>5, <4>6, Zenon
        <5> QED
          BY <5>1, <5>2, Zenon
      <4>7. CASE buf[p] # "len"
        <5>1. Length(line.text, length) = length
          BY <4>3, <4>7, Zenon
        <5>2. CASE \E j \in Starts(buf, q) : j <= Min(E) /\ buf[j] = "len"
          <6>1. Claimed(buf, p, length) = 1
            BY <4>4, <4>5, <5>2, Zenon
          <6>2. Claimed(buf, q, Length(line.text, length)) = 1
            BY <4>5, <5>2, Zenon
          <6> QED
            BY <6>1, <6>2, Zenon
        <5>3. CASE ~\E j \in Starts(buf, q) : j <= Min(E) /\ buf[j] = "len"
          <6>1. Claimed(buf, p, length) = length
            BY <4>4, <4>5, <4>7, <5>3, Zenon
          <6>2. Claimed(buf, q, Length(line.text, length)) = length
            BY <4>5, <5>1, <5>3, Zenon
          <6> QED
            BY <6>1, <6>2, Zenon
        <5> QED
          BY <5>2, <5>3, Zenon
      <4> QED
        BY <4>6, <4>7, Zenon
    <3> QED
      BY <2>2, <2>3, <2>4, <2>7, <3>4, <3>5, Zenon DEF E
  <2> QED
    BY <2>6, <2>7, Zenon
<1> QED
  BY <1>1, <1>2, Zenon

(* The equation has one solution: two that differ would differ at a last   *)
(* line, but there the rest of the lines decides.                          *)
LEMMA LoopUnique ==
    ASSUME NEW buf \in Seq(Token), NEW f, NEW g,
           Solves(buf, f), Solves(buf, g),
           NEW p \in 1 .. Len(buf) + 1, NEW length \in 0 .. 1
    PROVE  f[p][length] = g[p][length]
<1> DEFINE Differ(x) == \E l \in 0 .. 1 : f[x][l] # g[x][l]
           D == {d \in 0 .. Len(buf) : Differ(Len(buf) + 1 - d)}
<1>0. Len(buf) \in Nat
  OBVIOUS
<1>1. ASSUME NEW x \in 1 .. Len(buf) + 1, Differ(x)
      PROVE  \E y \in 1 .. Len(buf) + 1 : y > x /\ Differ(y)
  <2>1. PICK l \in 0 .. 1 : f[x][l] # g[x][l]
    BY <1>1, Zenon
  <2>2. f[x][l] = HeaderLine(buf, f, x, l) /\ g[x][l] = HeaderLine(buf, g, x, l)
    <3>1. \A h : Loop(buf, h)[x][l] = HeaderLine(buf, h, x, l)
      BY Zenon DEF Loop
    <3> QED
      BY <3>1, Zenon DEF Solves
  <2> DEFINE nl == Min(Newlines(buf, x))
             line == get_line(buf, x)
  <2>3. Newlines(buf, x) # {} /\ line.text # <<>>
    BY <2>1, <2>2, Zenon DEF HeaderLine
  <2>4. /\ f[x][l] = f[line.next][Length(line.text, l)]
        /\ g[x][l] = g[line.next][Length(line.text, l)]
    BY <2>2, <2>3, Zenon DEF HeaderLine
  <2>5. x \in Nat \ {0}
    OBVIOUS
  <2>6. line.next = nl + 1 /\ nl \in Nat /\ x <= nl /\ nl <= Len(buf)
    <3>1. line.next = nl + 1
      BY <2>3, <2>5, LineText, Zenon
    <3>2. nl \in Nat /\ x <= nl /\ nl <= Len(buf)
      BY <2>3, <2>5, FirstNewline, Zenon
    <3> QED
      BY <3>1, <3>2, Zenon
  <2> HIDE DEF nl, line
  <2>7. line.next \in 1 .. Len(buf) + 1 /\ line.next > x
    BY <1>0, <2>5, <2>6
  <2>8. Length(line.text, l) \in 0 .. 1
    BY DEF Length
  <2> QED
    BY <2>1, <2>4, <2>7, <2>8, Zenon
<1> HIDE DEF Differ
<1>2. D = {}
  <2> SUFFICES ASSUME D # {} PROVE FALSE
    BY Zenon
  <2>1. D \in SUBSET Nat
    BY <1>0
  <2>2. PICK d \in D : \A e \in D : d <= e
    BY <2>1, NatMin, Zenon
  <2>3. /\ d \in 0 .. Len(buf) /\ Len(buf) + 1 - d \in 1 .. Len(buf) + 1
        /\ Differ(Len(buf) + 1 - d)
    BY <1>0, <2>2
  <2>4. PICK y \in 1 .. Len(buf) + 1 : y > Len(buf) + 1 - d /\ Differ(y)
    BY <1>1, <2>3, Zenon
  <2>5. /\ Len(buf) + 1 - y \in 0 .. Len(buf) /\ Len(buf) + 1 - (Len(buf) + 1 - y) = y
        /\ ~(d <= Len(buf) + 1 - y)
    BY <1>0, <2>3, <2>4
  <2>6. Len(buf) + 1 - y \in D
    BY <2>4, <2>5, Zenon
  <2> QED
    BY <2>2, <2>5, <2>6, Zenon
<1>3. ~Differ(p)
  <2>1. /\ Len(buf) + 1 - p \in 0 .. Len(buf)
        /\ Len(buf) + 1 - (Len(buf) + 1 - p) = p
    BY <1>0
  <2> QED
    BY <1>2, <2>1, Zenon
<1> QED
  BY <1>3, Zenon DEF Differ

(* The loop of http_parse_request does what the closed form says. *)
LEMMA ParseLoop ==
    ASSUME NEW buf \in Seq(Token), Newlines(buf, 1) # {}, WellFormed(get_line(buf, 1).text)
    PROVE  http_parse_request(buf) = Rest(buf)[Min(Newlines(buf, 1)) + 1][0]
<1> DEFINE g == CHOOSE f : f = Loop(buf, f)
<1>1. Solves(buf, Rest(buf))
  BY RestLoops, Zenon
<1>2. Solves(buf, g)
  BY <1>1, Zenon DEF Solves
<1>3. http_parse_request(buf) = g[get_line(buf, 1).next][0]
  BY Zenon DEF http_parse_request, Loop
<1> HIDE DEF g
<1> DEFINE nl == Min(Newlines(buf, 1))
<1>4. 1 \in Nat \ {0} /\ 0 \in 0 .. 1 /\ Len(buf) \in Nat
  OBVIOUS
<1>5. get_line(buf, 1).next = nl + 1 /\ nl \in Nat /\ nl <= Len(buf)
  <2>1. get_line(buf, 1).next = nl + 1
    BY <1>4, LineText, Zenon
  <2>2. nl \in Nat /\ nl <= Len(buf)
    BY <1>4, FirstNewline, Zenon
  <2> QED
    BY <2>1, <2>2, Zenon
<1> HIDE DEF nl
<1>6. nl + 1 \in 1 .. Len(buf) + 1
  BY <1>4, <1>5
<1>7. g[nl + 1][0] = Rest(buf)[nl + 1][0]
  <2>1. \A p \in 1 .. Len(buf) + 1 : \A length \in 0 .. 1 : g[p][length] = Rest(buf)[p][length]
    BY <1>1, <1>2, LoopUnique
  <2> QED
    BY <1>4, <1>6, <2>1, Zenon
<1> QED
  BY <1>3, <1>5, <1>7, Zenon DEF nl

(* The first line has a blank in it, with the CR at its end or without. *)
LEMMA FirstLineForm ==
    ASSUME NEW buf \in Seq(Token), Newlines(buf, 1) # {}
    PROVE  WellFormed(get_line(buf, 1).text) <=> WellFormed(FirstLine(buf))
<1> DEFINE nl == Min(Newlines(buf, 1))
           e == IF nl > 1 /\ buf[nl - 1] = "CR" THEN nl - 2 ELSE nl - 1
<1>0. 1 \in Nat \ {0} /\ Len(buf) \in Nat
  OBVIOUS
<1>1. nl \in Nat /\ 1 <= nl /\ nl <= Len(buf)
  BY <1>0, FirstNewline, Zenon
<1>2. get_line(buf, 1).text = SubSeq(buf, 1, e) /\ FirstLine(buf) = SubSeq(buf, 1, nl - 1)
  BY Zenon DEF get_line, FirstLine
<1> HIDE DEF nl
<1>3. e \in 0 .. Len(buf) /\ nl - 1 \in 0 .. Len(buf) /\ e <= nl - 1
  BY <1>0, <1>1
<1>4. \A i \in e + 1 .. nl - 1 : buf[i] = "CR"
  BY <1>0, <1>1
<1> HIDE DEF e
<1>5. ASSUME NEW n \in 0 .. Len(buf)
      PROVE  WellFormed(SubSeq(buf, 1, n)) <=> \E i \in 1 .. n : buf[i] \in Text
  <2>1. DOMAIN SubSeq(buf, 1, n) = 1 .. n /\ \A i \in 1 .. n : SubSeq(buf, 1, n)[i] = buf[i]
    BY <1>0, SMT, SMTT(60)
  <2> QED
    BY <2>1, Zenon DEF WellFormed
<1>6. "CR" \notin Text
  BY DEF Text
<1>7. \A i \in 1 .. e : i \in 1 .. nl - 1
  BY <1>1, <1>3
<1>8. \A i \in 1 .. nl - 1 : i \in 1 .. e \/ i \in e + 1 .. nl - 1
  BY <1>1, <1>3
<1>9. (\E i \in 1 .. e : buf[i] \in Text) <=> (\E i \in 1 .. nl - 1 : buf[i] \in Text)
  BY <1>4, <1>6, <1>7, <1>8, Zenon
<1> QED
  BY <1>2, <1>3, <1>5, <1>9, Zenon

(* The empty lines after the first one, and the headers before them. *)
LEMMA BlanksAreEmpties ==
    ASSUME NEW buf \in Seq(Token), Newlines(buf, 1) # {}
    PROVE  LET p == Min(Newlines(buf, 1)) + 1 IN
           /\ Blanks(buf) = Empties(buf, p)
           /\ Blanks(buf) # {} => BodyLength(buf) = Claimed(buf, p, 0)
<1> DEFINE nl == Min(Newlines(buf, 1))
<1>0. 1 \in Nat \ {0} /\ Len(buf) \in Nat
  OBVIOUS
<1>1. /\ nl \in Nat /\ 1 <= nl /\ nl <= Len(buf) /\ buf[nl] = "LF"
      /\ \A i \in 1 .. nl - 1 : buf[i] # "LF"
  BY <1>0, FirstNewline, Zenon
<1> HIDE DEF nl
<1> DEFINE p == nl + 1
<1>2. \A j : j \in Starts(buf, p) <=> j \in 2 .. Len(buf) /\ buf[j - 1] = "LF"
  BY <1>0, <1>1, SMT, SMTT(60) DEF Starts
<1>3. ASSUME NEW i PROVE i \in Blanks(buf) <=> i \in Empties(buf, p)
  <2>1. ASSUME i \in Empties(buf, p) PROVE i \in Blanks(buf)
    <3>1. i \in Newlines(buf, 2) /\ i \in Nat
      BY <1>1, <2>1 DEF Empties, Newlines
    <3>2. i \in Starts(buf, p) \/ (i - 1 \in Starts(buf, p) /\ buf[i - 1] = "CR")
      BY <2>1, Zenon DEF Empties
    <3>3. (i - 1) - 1 = i - 2
      BY <3>1
    <3>4. i - 1 \in 2 .. Len(buf) => i > 2
      BY <3>1
    <3> QED
      BY <1>2, <3>1, <3>2, <3>3, <3>4, Zenon DEF Blanks
  <2>2. ASSUME i \in Blanks(buf) PROVE i \in Empties(buf, p)
    <3>1. /\ i \in 2 .. Len(buf) /\ buf[i] = "LF"
          /\ buf[i - 1] = "LF" \/ (i > 2 /\ buf[i - 1] = "CR" /\ buf[i - 2] = "LF")
      BY <2>2, Zenon DEF Blanks, Newlines
    <3>2. i \in Newlines(buf, p)
      BY <1>0, <1>1, <3>1 DEF Newlines
    <3>3. CASE buf[i - 1] = "LF"
      <4>1. i \in Starts(buf, p)
        BY <1>2, <3>1, <3>3, Zenon
      <4> QED
        BY <3>2, <4>1, Zenon DEF Empties
    <3>4. CASE i > 2 /\ buf[i - 1] = "CR" /\ buf[i - 2] = "LF"
      <4>1. i - 1 \in 2 .. Len(buf) /\ (i - 1) - 1 = i - 2
        BY <1>0, <3>1, <3>4
      <4>2. i - 1 \in Starts(buf, p)
        BY <1>2, <3>4, <4>1, Zenon
      <4> QED
        BY <3>2, <3>4, <4>2, Zenon DEF Empties
    <3> QED
      BY <3>1, <3>3, <3>4, Zenon
  <2> QED
    BY <2>1, <2>2, Zenon
<1>4. Blanks(buf) = Empties(buf, p)
  BY <1>3, Zenon
<1>5. ASSUME Blanks(buf) # {} PROVE BodyLength(buf) = Claimed(buf, p, 0)
  <2> DEFINE m == Min(Blanks(buf))
  <2>1. m \in 2 .. Len(buf)
    <3>1. Blanks(buf) \in SUBSET Nat
      BY DEF Blanks, Newlines
    <3>2. m \in Blanks(buf)
      BY <1>5, <3>1, MinIsLeast, Zenon
    <3> HIDE DEF m
    <3> QED
      BY <3>2, Zenon DEF Blanks, Newlines
  <2> HIDE DEF m
  <2>2. (\E i \in 2 .. m : buf[i - 1] = "LF" /\ buf[i] = "len")
          <=> \E j \in Starts(buf, p) : j <= m /\ buf[j] = "len"
    <3>1. \A j : j \in 2 .. m <=> j \in 2 .. Len(buf) /\ j <= m
      BY <1>0, <2>1
    <3> QED
      BY <1>2, <3>1, Zenon
  <2>3. BodyLength(buf) = IF \E i \in 2 .. m : buf[i - 1] = "LF" /\ buf[i] = "len" THEN 1 ELSE 0
    BY Zenon DEF BodyLength, m
  <2>4. Claimed(buf, p, 0) = IF \E j \in Starts(buf, p) : j <= m /\ buf[j] = "len" THEN 1 ELSE 0
    BY <1>4, Zenon DEF Claimed, m
  <2>5. CASE \E i \in 2 .. m : buf[i - 1] = "LF" /\ buf[i] = "len"
    <3>1. BodyLength(buf) = 1
      BY <2>3, <2>5, Zenon
    <3>2. Claimed(buf, p, 0) = 1
      BY <2>2, <2>4, <2>5, Zenon
    <3> QED
      BY <3>1, <3>2, Zenon
  <2>6. CASE ~\E i \in 2 .. m : buf[i - 1] = "LF" /\ buf[i] = "len"
    <3>1. BodyLength(buf) = 0
      BY <2>3, <2>6, Zenon
    <3>2. Claimed(buf, p, 0) = 0
      BY <2>2, <2>4, <2>6, Zenon
    <3> QED
      BY <3>1, <3>2, Zenon
  <2> QED
    BY <2>5, <2>6, Zenon
<1> QED
  BY <1>4, <1>5, Zenon DEF nl

(***************************************************************************)
(* http_parse_request reads a buffer of any length as the reference does:  *)
(* the line-by-line loop finds the first empty line after the request line *)
(* and the body length the headers before it claim.                        *)
(***************************************************************************)
THEOREM ParseExact ==
    ASSUME NEW buf \in Seq(Token)
    PROVE  http_parse_request(buf) =
             IF Newlines(buf, 1) = {} THEN More
             ELSE IF ~WellFormed(FirstLine(buf)) THEN Malformed
             ELSE IF Blanks(buf) = {} THEN More
             ELSE Finish(buf, Min(Blanks(buf)), BodyLength(buf))
<1>1. CASE Newlines(buf, 1) = {}
  BY <1>1, Zenon DEF http_parse_request
<1>2. CASE Newlines(buf, 1) # {} /\ ~WellFormed(FirstLine(buf))
  <2>1. ~WellFormed(get_line(buf, 1).text)
    BY <1>2, FirstLineForm, Zenon
  <2> QED
    BY <1>2, <2>1, Zenon DEF http_parse_request
<1>3. CASE Newlines(buf, 1) # {} /\ WellFormed(FirstLine(buf))
  <2> DEFINE p == Min(Newlines(buf, 1)) + 1
  <2>1. WellFormed(get_line(buf, 1).text)
    BY <1>3, FirstLineForm, Zenon
  <2>2. http_parse_request(buf) = Rest(buf)[p][0]
    BY <1>3, <2>1, ParseLoop, Zenon
  <2>3. p \in 1 .. Len(buf) + 1 /\ 0 \in 0 .. 1
    <3>1. 1 \in Nat \ {0} /\ Len(buf) \in Nat
      OBVIOUS
    <3>2. Min(Newlines(buf, 1)) \in Nat /\ Min(Newlines(buf, 1)) <= Len(buf)
      BY <1>3, <3>1, FirstNewline, Zenon
    <3> HIDE DEF Min
    <3> QED
      BY <3>1, <3>2
  <2>4. Rest(buf)[p][0] = IF Empties(buf, p) = {} THEN More
                          ELSE Finish(buf, Min(Empties(buf, p)), Claimed(buf, p, 0))
    BY <2>3, Zenon DEF Rest
  <2>5. /\ Blanks(buf) = Empties(buf, p)
        /\ Blanks(buf) # {} => BodyLength(buf) = Claimed(buf, p, 0)
    BY <1>3, BlanksAreEmpties, Zenon
  <2> HIDE DEF p
  <2>6. CASE Blanks(buf) = {}
    BY <1>3, <2>2, <2>4, <2>5, <2>6, Zenon
  <2>7. CASE Blanks(buf) # {}
    BY <1>3, <2>2, <2>4, <2>5, <2>7, Zenon
  <2> QED
    BY <2>6, <2>7, Zenon
<1> QED
  BY <1>1, <1>2, <1>3, Zenon

-----------------------------------------------------------------------------
(* One response *)

(* What is unread is a number, and a read takes some of it: all, or a full *)
(* chunk.                                                                  *)
LEMMA ReadTakes ==
    ASSUME Types, Unread > 0
    PROVE  LET n == Min({Unread, Chunk}) IN
           /\ n \in Nat /\ n <= Unread
           /\ n = Unread \/ n = Chunk
           /\ off + n \in Nat /\ have + (off + n) <= Len(sent)
<1>1. /\ Unread \in Int /\ Chunk \in Nat \ {0} /\ Len(sent) \in Nat
      /\ have \in Nat /\ off \in Nat /\ Unread = Len(sent) - have - off
  BY HttpAssumption DEF Types, Unread
<1>2. Min({Unread, Chunk}) = IF Unread <= Chunk THEN Unread ELSE Chunk
  BY <1>1, MinOfTwo
<1> HIDE DEF Min
<1> QED
  BY <1>1, <1>2, SMT, SMTT(60)

(* Nothing has happened at first. *)
LEMMA InitInv ==
    ASSUME Init
    PROVE  Inv
<1>0. /\ sent = <<>> /\ peer = "open" /\ have = 0 /\ off = 0 /\ pc = "read"
      /\ turns = 0 /\ owed = 0 /\ late = FALSE
  BY Zenon DEF Init
<1>1. Types
  <2>1. <<>> \in Seq(Token) /\ 0 + 0 <= Len(<<>>)
    OBVIOUS
  <2>2. 0 \in 0 .. BufSz /\ 0 \in Nat /\ 0 \in 0 .. DrainMax
    BY HttpAssumption
  <2> QED
    BY <1>0, <2>1, <2>2, Zenon DEF Types
<1>2. Answered
  BY Zenon DEF Init, Answered
<1>3. Budget
  BY Zenon DEF Init, Budget, ReplyKept
<1> QED
  BY <1>1, <1>2, <1>3, Zenon DEF Inv

-----------------------------------------------------------------------------
(* The client *)

(* A token more: what comes during the drain is late. *)
LEMMA SendInv ==
    ASSUME Inv, NEW x \in Token, Send(x)
    PROVE  Inv'
<1>0. sent' = Append(sent, x) /\ UNCHANGED <<have, off>>
  BY Zenon DEF Send, reading
<1>1. /\ sent' \in Seq(Token) /\ Len(sent') = Len(sent) + 1 /\ Len(sent) \in Nat
  BY <1>0 DEF Inv, Types
<1>2. have' + off' <= Len(sent')
  BY <1>0, <1>1 DEF Inv, Types
<1>3. late' \in BOOLEAN /\ (pc \in {"drain", "closed"} => late')
  BY Zenon DEF Inv, Types, Send
<1>4. Types'
  BY <1>1, <1>2, <1>3, Zenon DEF Inv, Types, Send, reading, closing
<1>5. Answered'
  BY Zenon DEF Inv, Answered, Send, reading
<1>6. Budget'
  <2>1. reply' = reply \/ pc = "closed"
    BY Zenon DEF Send
  <2>2. UNCHANGED <<peer, pc, turns, owed>> /\ (late => late')
    BY Zenon DEF Send, closing
  <2>3. pc \in {"read", "dispatch", "send", "stream", "frame", "dispatched",
                "unregister", "drain", "closed"}
    BY Zenon DEF Inv, Types
  <2> QED
    BY <1>3, <2>1, <2>2, <2>3, Zenon DEF Inv, Budget, ReplyKept
<1> QED
  BY <1>4, <1>5, <1>6, Zenon DEF Inv

(* The client ends its half, resets the connection or reads the response. *)
LEMMA ClientInv ==
    ASSUME Inv, ReadReply \/ \E how \in {"done", "gone"} : Leave(how)
    PROVE  Inv'
<1>1. CASE ReadReply
  <2>1. Types'
    BY <1>1, Zenon DEF Inv, Types, ReadReply, client, reading, closing
  <2>2. Answered'
    BY <1>1, Zenon DEF Inv, Answered, ReadReply, reading
  <2>3. Unread' = Unread
    BY <1>1, Zenon DEF Unread, ReadReply, client, reading
  <2>4. Budget'
    BY <1>1, <2>3, Zenon DEF Inv, Budget, ReplyKept, ReadReply, client, closing
  <2> QED
    BY <2>1, <2>2, <2>4, Zenon DEF Inv
<1>2. ASSUME NEW how \in {"done", "gone"}, Leave(how)
      PROVE  Inv'
  <2>1. Types'
    BY <1>2, Zenon DEF Inv, Types, Leave, reading, closing
  <2>2. Answered'
    BY <1>2, Zenon DEF Inv, Answered, Leave, reading, answer
  <2>3. Unread' = Unread
    BY <1>2, Zenon DEF Unread, Leave, reading
  <2>4. peer # "gone"
    BY <1>2, Zenon DEF Leave
  <2>5. Budget'
    BY <1>2, <2>3, <2>4, Zenon DEF Inv, Budget, ReplyKept, Leave, closing, answer
  <2> QED
    BY <2>1, <2>2, <2>5, Zenon DEF Inv
<1> QED
  BY <1>1, <1>2, Zenon

-----------------------------------------------------------------------------
(* The session's thread *)

\* A step of the thread that receives nothing.
Still == UNCHANGED <<sent, peer, have, off, turns, late>>

(* Such a step leaves what is unread. *)
LEMMA StillUnread ==
    ASSUME Still
    PROVE  Unread' = Unread
BY Zenon DEF Still, Unread

(* http_respond, given once, gives one response, lost only to a reset. *)
LEMMA Responds ==
    ASSUME NEW status \in Status, replies = <<>>,
           http_respond(status) \/ http_respond_held(status)
    PROVE  replies' = <<status>> /\ replies' # <<>> /\ (reply' = "lost" => peer = "gone")
<1>1. replies' = <<status>> /\ replies' # <<>>
  BY DEF http_respond, http_respond_held
<1>2. reply' = "lost" => peer = "gone"
  BY Zenon DEF http_respond, http_respond_held
<1> QED
  BY <1>1, <1>2, Zenon

\* A response is given by the way, or none to a client that has left.
Replies ==
    \/ /\ \E status \in Status : http_respond(status)
       /\ \/ verdict' # "left" /\ pc' = "unregister"
          \/ verdict' = "ok" /\ pc' \in {"stream", "dispatched"}
    \/ /\ \E status \in Status : http_respond_held(status)
       /\ verdict' = "ok" /\ pc' = "send"
    \/ UNCHANGED answer /\ verdict' = "left" /\ pc' = "unregister"

(* From read and dispatch, with a response or without one if the client    *)
(* has left, the session is on its way out or on the air.                  *)
LEMMA ReplyStep ==
    ASSUME Inv, pc \in {"read", "dispatch"}, Replies, UNCHANGED <<peer, turns>>
    PROVE  Answered' /\ Budget'
<1>1. replies = <<>> /\ reply # "lost" /\ turns = 0
  BY Zenon DEF Inv, Answered, Budget
<1>2. CASE /\ \E status \in Status : http_respond(status)
           /\ \/ verdict' # "left" /\ pc' = "unregister"
              \/ verdict' = "ok" /\ pc' \in {"stream", "dispatched"}
  <2>1. PICK status \in Status : http_respond(status)
    BY <1>2, Zenon
  <2>2. replies' = <<status>> /\ replies' # <<>> /\ (reply' = "lost" => peer = "gone")
    BY <1>1, <2>1, Responds, Zenon
  <2>3. responded'
    BY <2>1, Zenon DEF http_respond
  <2>4. Answered'
    BY <1>2, <2>2, <2>3, Zenon DEF Answered
  <2>5. Budget'
    BY <1>1, <1>2, <2>2, Zenon DEF Budget, ReplyKept
  <2> QED
    BY <2>4, <2>5, Zenon
<1>3. CASE /\ \E status \in Status : http_respond_held(status)
           /\ verdict' = "ok" /\ pc' = "send"
  <2>1. PICK status \in Status : http_respond_held(status)
    BY <1>3, Zenon
  <2>2. replies' = <<status>> /\ replies' # <<>> /\ (reply' = "lost" => peer = "gone")
    BY <1>1, <2>1, Responds, Zenon
  <2>3. Answered'
    BY <1>3, <2>2, Zenon DEF Answered
  <2>4. Budget'
    BY <1>1, <1>3, <2>2, Zenon DEF Budget, ReplyKept
  <2> QED
    BY <2>3, <2>4, Zenon
<1>4. CASE UNCHANGED answer /\ verdict' = "left" /\ pc' = "unregister"
  <2>1. 200 \in Status
    BY DEF Status
  <2>2. Answered'
    BY <1>1, <1>4, <2>1, Zenon DEF Answered, answer
  <2>3. Budget'
    BY <1>1, <1>4, Zenon DEF Budget, ReplyKept, answer
  <2> QED
    BY <2>2, <2>3, Zenon
<1> QED
  BY <1>2, <1>3, <1>4, Zenon DEF Replies

(* The codes of read_request are statuses. *)
LEMMA Codes == 400 \in Status /\ 413 \in Status /\ 408 \in Status /\ 200 \in Status
BY DEF Status

(* So are those of the handlers. *)
LEMMA AnswersAreStatuses ==
    ASSUME NEW method \in Method, NEW path \in Path, NEW room \in BOOLEAN
    PROVE  Answers(method, path, room) \subseteq Status
<1>1. handle_messages_post \subseteq {201, 400}
  BY DEF handle_messages_post
<1>2. ASSUME NEW status \in Answers(method, path, room)
      PROVE  status \in {200, 201, 400, 404, 405, 500}
  BY <1>1 DEF Answers, serve_static, handle_messages_get
<1> QED
  BY <1>2 DEF Status

(* read_request fills the buffer no further than its end; it goes on, or   *)
(* answers 400 or 413, or hands the request over.                          *)
LEMMA ReceiveInv ==
    ASSUME Inv, Receive
    PROVE  Inv'
<1>1. pc = "read" /\ have' = Filled /\ UNCHANGED <<sent, peer, off, turns, owed, late>>
  BY Zenon DEF Receive, client, closing
<1>2. PICK v : /\ verdict' = v
               /\ \E parsed : v = Verdict(parsed, Filled)
               /\ CASE v = "ok" -> pc' = "dispatch" /\ UNCHANGED answer
                    [] v = "bad" -> pc' = "unregister" /\ http_respond(400)
                    [] v = "large" -> pc' = "unregister" /\ http_respond(413)
                    [] OTHER -> UNCHANGED <<pc, answer>>
  BY ZenonT(60) DEF Receive
<1>3. v \in {"ok", "bad", "large", ""}
  BY <1>2, Zenon DEF Verdict
<1>4. have' \in 0 .. BufSz /\ have' + off <= Len(sent)
  <2>1. /\ Unread = Len(sent) - have - off /\ Len(sent) \in Nat
        /\ have \in 0 .. BufSz /\ off \in Nat /\ have + off <= Len(sent)
        /\ have + Unread \in Int /\ BufSz \in Int
    BY HttpAssumption DEF Inv, Types, Unread
  <2>2. Filled = IF have + Unread <= BufSz THEN have + Unread ELSE BufSz
    BY <2>1, MinOfTwo, Zenon DEF Filled
  <2> QED
    BY <1>1, <2>1, <2>2, HttpAssumption
<1>5. CASE v = "ok"
  <2>1. pc' = "dispatch" /\ UNCHANGED answer
    BY <1>2, <1>5, Zenon
  <2>2. Types'
    BY <1>1, <1>4, <2>1, Zenon DEF Inv, Types
  <2>3. Answered' /\ Budget'
    BY <1>1, <1>2, <1>5, <2>1, Zenon DEF Inv, Answered, Budget, ReplyKept, answer
  <2> QED
    BY <2>2, <2>3, Zenon DEF Inv
<1>6. CASE v \in {"bad", "large"}
  <2>1. pc' = "unregister" /\ (http_respond(400) \/ http_respond(413))
    BY <1>2, <1>6, ZenonT(60)
  <2>2. Types'
    BY <1>1, <1>4, <2>1, ZenonT(60) DEF Inv, Types
  <2>3. verdict' # "left"
    BY <1>2, <1>6, Zenon
  <2>4. Replies
    BY <2>1, <2>3, Codes, ZenonT(60) DEF Replies
  <2>5. Answered' /\ Budget'
    BY <1>1, <2>1, <2>4, ReplyStep, Zenon
  <2> QED
    BY <2>2, <2>5, Zenon DEF Inv
<1>7. CASE v = ""
  <2>1. UNCHANGED <<pc, answer>>
    BY <1>2, <1>7, Zenon
  <2>2. Types'
    BY <1>1, <1>4, <2>1, Zenon DEF Inv, Types
  <2>3. Answered' /\ Budget'
    BY <1>1, <1>2, <1>7, <2>1, Zenon DEF Inv, Answered, Budget, ReplyKept, answer
  <2> QED
    BY <2>2, <2>3, Zenon DEF Inv
<1> QED
  BY <1>3, <1>5, <1>6, <1>7, Zenon

(* The end of read_request without a request, and http_dispatch. *)
LEMMA DispatchInv ==
    ASSUME Inv, Quiet \/ PeerLeft \/ Handle
    PROVE  Inv'
<1>1. CASE Quiet
  <2>1. /\ pc = "read" /\ verdict' = "quiet" /\ pc' = "unregister" /\ http_respond(408)
        /\ UNCHANGED <<sent, peer, have, off, turns, owed, late>>
    BY <1>1, Zenon DEF Quiet, client, closing
  <2>2. Types'
    BY <2>1, Zenon DEF Inv, Types
  <2>3. Replies
    BY <2>1, Codes, ZenonT(60) DEF Replies
  <2>4. Answered' /\ Budget'
    BY <2>1, <2>3, ReplyStep, Zenon
  <2> QED
    BY <2>2, <2>4, Zenon DEF Inv
<1>2. CASE PeerLeft
  <2>1. /\ pc = "read" /\ verdict' = "left" /\ pc' = "unregister"
        /\ UNCHANGED <<sent, peer, have, off, turns, owed, late, answer>>
    BY <1>2, Zenon DEF PeerLeft, client, closing
  <2>2. Types'
    BY <2>1, Zenon DEF Inv, Types
  <2>3. Replies
    BY <2>1, Zenon DEF Replies
  <2>4. Answered' /\ Budget'
    BY <2>1, <2>3, ReplyStep, Zenon
  <2> QED
    BY <2>2, <2>4, Zenon DEF Inv
<1>3. CASE Handle
  <2>1. PICK method \in Method, path \in Path, room \in BOOLEAN :
            Dispatch(method, path, room) \/ DispatchStream(method, path, room)
    BY <1>3, Zenon DEF Handle
  <2>2. pc = "dispatch" /\ verdict = "ok"
    BY <1>3, Zenon DEF Handle, Inv, Answered
  <2>3. Answers(method, path, room) \subseteq Status
    BY AnswersAreStatuses, Zenon
  <2>4. UNCHANGED <<sent, peer, have, off, turns, owed, late, verdict>>
    BY <2>1, Zenon DEF Dispatch, DispatchStream, client, reading, closing
  <2>5. \/ /\ \E status \in Status : http_respond(status)
           /\ pc' \in {"stream", "dispatched"}
        \/ /\ \E status \in Status : http_respond_held(status)
           /\ pc' = "send"
    BY <2>1, <2>3, Codes, ZenonT(60) DEF Dispatch, DispatchStream
  <2>6. Types'
    BY <2>4, <2>5, Zenon DEF Inv, Types
  <2>7. Replies
    BY <2>2, <2>4, <2>5, Zenon DEF Replies
  <2>8. Answered' /\ Budget'
    BY <2>2, <2>4, <2>7, ReplyStep, Zenon
  <2> QED
    BY <2>6, <2>8, Zenon DEF Inv
<1> QED
  BY <1>1, <1>2, <1>3, Zenon

(* send_all goes on with a response. *)
LEMMA SendRestInv ==
    ASSUME Inv, SendRest
    PROVE  Inv'
<1>1. /\ pc = "send" /\ pc' = "dispatched" /\ responded'
      /\ reply' = "lost" => peer = "gone"
      /\ UNCHANGED <<sent, peer, have, off, verdict, replies, turns, owed, late>>
  BY Zenon DEF SendRest, client, reading, closing
<1>2. Types'
  BY <1>1, Zenon DEF Inv, Types
<1>3. Answered'
  BY <1>1, Zenon DEF Inv, Answered
<1>4. Budget'
  BY <1>1, Zenon DEF Inv, Budget, ReplyKept
<1> QED
  BY <1>2, <1>3, <1>4, Zenon DEF Inv

(* A frame, or a part of it, is no response, and is lost to nobody who is  *)
(* there.                                                                  *)
LEMMA FrameIs ==
    ASSUME Inv, pc = "stream", SendFrame
    PROVE  /\ pc' \in {"stream", "frame"} /\ UNCHANGED <<replies, responded>>
           /\ reply' = "lost" => reply = "lost"
BY Zenon DEF SendFrame, answer

(* A stream throws away what its client sends, answers with frames, and    *)
(* ends.                                                                   *)
LEMMA StreamInv ==
    ASSUME Inv, StreamTick \/ StreamFrame \/ FrameRest \/ StreamLeft \/ StreamStopped
    PROVE  Inv'
<1>1. CASE StreamTick \/ StreamFrame
  <2>1. /\ pc = "stream" /\ SendFrame
        /\ \/ Unread > 0 /\ off' = off + Min({Unread, Chunk})
           \/ off' = off
        /\ UNCHANGED <<sent, peer, have, verdict, turns, owed, late>>
    BY <1>1, Zenon DEF StreamTick, StreamFrame, client, reading, closing
  <2>2. off' \in Nat /\ have' + off' <= Len(sent')
    BY <2>1, ReadTakes, Zenon DEF Inv, Types
  <2>3. /\ pc' \in {"stream", "frame"} /\ UNCHANGED <<replies, responded>>
        /\ reply' = "lost" => reply = "lost"
    BY <2>1, FrameIs, Zenon
  <2>4. Types'
    BY <2>1, <2>2, <2>3, Zenon DEF Inv, Types
  <2>5. Answered'
    BY <2>1, <2>3, Zenon DEF Inv, Answered
  <2>6. Budget'
    BY <2>1, <2>3, Zenon DEF Inv, Budget, ReplyKept
  <2> QED
    BY <2>4, <2>5, <2>6, Zenon DEF Inv
<1>2. CASE FrameRest
  <2>1. /\ pc = "frame" /\ pc' \in {"stream", "dispatched"}
        /\ reply' = "lost" => peer = "gone"
        /\ UNCHANGED <<sent, peer, have, off, verdict, replies, responded, turns, owed, late>>
    BY <1>2, Zenon DEF FrameRest, client, reading, closing
  <2>2. Types'
    BY <2>1, Zenon DEF Inv, Types
  <2>3. Answered'
    BY <2>1, Zenon DEF Inv, Answered
  <2>4. Budget'
    BY <2>1, Zenon DEF Inv, Budget, ReplyKept
  <2> QED
    BY <2>2, <2>3, <2>4, Zenon DEF Inv
<1>3. CASE StreamLeft \/ StreamStopped
  <2>1. /\ pc = "stream" /\ pc' = "dispatched"
        /\ UNCHANGED <<sent, peer, have, off, verdict, replies, reply, responded>>
        /\ UNCHANGED <<turns, owed, late>>
    BY <1>3, Zenon DEF StreamLeft, StreamStopped, client, reading, answer, closing
  <2>2. Types'
    BY <2>1, Zenon DEF Inv, Types
  <2>3. Answered' /\ Budget'
    BY <2>1, Zenon DEF Inv, Answered, Budget, ReplyKept
  <2> QED
    BY <2>2, <2>3, Zenon DEF Inv
<1> QED
  BY <1>1, <1>2, <1>3, Zenon

(* http_run_session has nothing to add to the handler's response. *)
LEMMA FallbackInv ==
    ASSUME Inv, Fallback
    PROVE  Inv'
<1>1. /\ pc = "dispatched" /\ pc' = "unregister" /\ responded
      /\ UNCHANGED <<sent, peer, have, off, verdict, turns, owed, late>>
  BY Zenon DEF Fallback, Inv, Answered, client, reading, closing
<1>2. UNCHANGED <<replies, reply, responded>>
  BY <1>1, Zenon DEF Fallback, answer
<1>3. Types'
  BY <1>1, Zenon DEF Inv, Types
<1>4. Answered' /\ Budget'
  BY <1>1, <1>2, Zenon DEF Inv, Answered, Budget, ReplyKept
<1> QED
  BY <1>3, <1>4, Zenon DEF Inv

(* The drain begins with all that is unread owed to it. *)
LEMMA UnregisterInv ==
    ASSUME Inv, Unregister
    PROVE  Inv'
<1>1. /\ pc = "unregister" /\ pc' = "drain" /\ owed' = Unread
      /\ UNCHANGED <<sent, peer, have, off, verdict, replies, reply, turns, late>>
  BY Zenon DEF Unregister, client, reading, answer
<1>2. Unread \in Nat
  BY HttpAssumption DEF Inv, Types, Unread
<1>3. Types'
  BY <1>1, <1>2, Zenon DEF Inv, Types
<1>4. Answered'
  BY <1>1, Zenon DEF Inv, Answered
<1>5. turns' = 0 /\ (reply' = "lost" => peer' = "gone")
  BY <1>1, Zenon DEF Inv, Budget
<1>6. owed' = Unread' + turns' * Chunk
  <2>1. Unread' = Unread
    BY <1>1, Zenon DEF Unread
  <2>2. Unread + 0 * Chunk = Unread
    BY <1>2, HttpAssumption
  <2> QED
    BY <1>1, <1>5, <2>1, <2>2, Zenon
<1>7. Budget'
  BY <1>1, <1>5, <1>6, Zenon DEF Budget, ReplyKept
<1> QED
  BY <1>3, <1>4, <1>7, Zenon DEF Inv

(* A turn of the drain takes a full chunk, unless it takes the rest. *)
LEMMA DrainInv ==
    ASSUME Inv, Drain
    PROVE  Inv'
<1>1. /\ pc = "drain" /\ turns < DrainMax /\ Unread > 0
      /\ turns' = turns + 1 /\ off' = off + Min({Unread, Chunk})
      /\ UNCHANGED <<sent, peer, have, pc, verdict, replies, reply, owed, late>>
  BY Zenon DEF Drain, client, reading, answer
<1> DEFINE n == Min({Unread, Chunk})
<1>2. /\ n \in Nat /\ n <= Unread /\ (n = Unread \/ n = Chunk)
      /\ off' \in Nat /\ have' + off' <= Len(sent')
  BY <1>1, ReadTakes, Zenon DEF Inv
<1>3. turns' \in 0 .. DrainMax
  BY <1>1, HttpAssumption DEF Inv, Types
<1>4. Types'
  BY <1>1, <1>2, <1>3, Zenon DEF Inv, Types
<1>5. Answered'
  BY <1>1, Zenon DEF Inv, Answered
<1>6. ASSUME ~late, Unread' > 0
      PROVE  owed = Unread' + turns' * Chunk
  <2>1. Unread \in Nat /\ turns \in Nat /\ owed \in Nat /\ Chunk \in Nat
    BY HttpAssumption, SMT, SMTT(60) DEF Inv, Types, Unread
  <2>2. Unread' = Unread - n
    <3> HIDE DEF n
    <3>1. off' = off + n
      BY <1>1, Zenon DEF n
    <3>2. Len(sent) \in Nat /\ have \in Nat /\ off \in Nat
      BY HttpAssumption DEF Inv, Types
    <3>3. Unread = Len(sent) - have - off
      BY Zenon DEF Unread
    <3>4. Unread' = Len(sent) - have - (off + n)
      BY <1>1, <3>1, Zenon DEF Unread
    <3> QED
      BY <1>2, <3>2, <3>3, <3>4, SMT, SMTT(60)
  <2>3. owed = Unread + turns * Chunk
    BY <1>1, <1>6, Zenon DEF Inv, Budget
  <2> HIDE DEF n
  <2>4. n = Chunk
    BY <1>2, <1>6, <2>1, <2>2
  <2>5. (turns + 1) * Chunk = turns * Chunk + Chunk /\ turns * Chunk \in Nat
    BY <2>1
  <2> QED
    BY <1>1, <2>1, <2>2, <2>3, <2>4, <2>5, SMT, SMTT(60)
<1>7. Budget'
  BY <1>1, <1>6, Zenon DEF Inv, Budget, ReplyKept
<1> QED
  BY <1>4, <1>5, <1>7, Zenon DEF Inv

(* The socket is closed with bytes unread only when every turn was taken:  *)
(* then more was owed than the turns could take.                           *)
LEMMA CloseInv ==
    ASSUME Inv, Close
    PROVE  Inv'
<1>1. /\ pc = "drain" /\ pc' = "closed"
      /\ turns = DrainMax \/ Unread = 0 \/ peer = "gone"
      /\ reply' = IF reply = "sent" /\ Unread > 0 THEN "lost" ELSE reply
      /\ UNCHANGED <<sent, peer, have, off, verdict, replies, turns, owed, late>>
  BY Zenon DEF Close, CloseNow, client, reading, closing
<1>2. Types'
  BY <1>1, Zenon DEF Inv, Types
<1>3. Answered'
  BY <1>1, Zenon DEF Inv, Answered
<1>4. ASSUME reply' = "lost"
      PROVE  peer = "gone" \/ late \/ owed > DrainMax * Chunk
  <2>1. CASE reply = "lost"
    BY <2>1, Zenon DEF Inv, Budget, ReplyKept
  <2>2. CASE reply # "lost" /\ peer # "gone" /\ ~late
    <3>1. Unread > 0
      BY <1>1, <1>4, <2>2, Zenon
    <3>2. /\ Unread \in Nat /\ owed \in Nat /\ DrainMax * Chunk \in Nat
          /\ Unread # 0
      BY <3>1, HttpAssumption DEF Inv, Types, Unread
    <3>3. owed = Unread + DrainMax * Chunk
      BY <1>1, <2>2, <3>1, <3>2, Zenon DEF Inv, Budget
    <3> QED
      BY <3>2, <3>3
  <2> QED
    BY <2>1, <2>2, Zenon
<1>5. Budget'
  BY <1>1, <1>4, Zenon DEF Budget, ReplyKept
<1> QED
  BY <1>2, <1>3, <1>5, Zenon DEF Inv

-----------------------------------------------------------------------------
(* Every step keeps the invariant. *)
LEMMA NextInv ==
    ASSUME Inv, [Next]_vars
    PROVE  Inv'
<1>1. CASE UNCHANGED vars
  <2>1. /\ UNCHANGED <<sent, peer, have, off, pc, verdict, replies, reply, responded>>
        /\ UNCHANGED <<turns, owed, late>>
    BY <1>1, Zenon DEF vars
  <2>2. Unread' = Unread
    BY <2>1, Zenon DEF Unread
  <2> QED
    BY <2>1, <2>2, Zenon DEF Inv, Types, Answered, Budget, ReplyKept
<1> QED
  BY <1>1, SendInv, ClientInv, ReceiveInv, DispatchInv, SendRestInv, StreamInv,
     FallbackInv, UnregisterInv, DrainInv, CloseInv, Zenon DEF Next, Thread

(* The invariant holds in every run. *)
THEOREM HttpInvariant == Spec => []Inv
BY InitInv, NextInv, PTL DEF Spec

(* read_request, the handlers and http_run_session between them give every *)
(* request one response, and none only to a client that had left.          *)
THEOREM EveryRequestOneReply == Spec => []OneReply
<1>1. ASSUME Inv
      PROVE  OneReply
  <2>1. \E status \in Status : replies = <<>> \/ replies = <<status>>
    <3>1. 200 \in Status
      BY Codes, ZenonT(60)
    <3> QED
      BY <1>1, <3>1, Zenon DEF Inv, Types, Answered
  <2>2. Len(replies) <= 1
    <3>1. \A status \in Status : Len(<<>>) <= 1 /\ Len(<<status>>) <= 1
      OBVIOUS
    <3> QED
      BY <2>1, <3>1, Zenon
  <2>3. pc \in {"drain", "closed"} => (replies = <<>>) = (verdict = "left")
    BY <1>1, Zenon DEF Inv, Answered
  <2> QED
    BY <2>2, <2>3, Zenon DEF OneReply
<1> QED
  BY <1>1, HttpInvariant, PTL

(* close_graceful: a response is lost only to a client that resets the     *)
(* connection, that goes on sending, or whose unread bytes exceed what     *)
(* DrainMax reads of Chunk bytes take.                                     *)
THEOREM DrainKeepsReply == Spec => []ReplyKept
BY HttpInvariant, PTL DEF Inv, Budget

-----------------------------------------------------------------------------
(* The verdict of read_request *)

(* The lengths in a buffer with an empty line. *)
LEMMA LengthTypes ==
    ASSUME NEW s \in Seq(Token)
    PROVE  /\ BodyLength(s) \in 0 .. 1
           /\ Blanks(s) \in SUBSET Nat
           /\ Blanks(s) # {} => /\ Min(Blanks(s)) \in 2 .. Len(s) /\ Min(Blanks(s)) \in Blanks(s)
                                /\ \A i \in Blanks(s) : Min(Blanks(s)) <= i
<1>1. BodyLength(s) \in 0 .. 1
  <2>1. BodyLength(s) = 0 \/ BodyLength(s) = 1
    BY Zenon DEF BodyLength
  <2> HIDE DEF BodyLength
  <2> QED
    BY <2>1
<1>2. Blanks(s) \in SUBSET Nat
  BY DEF Blanks, Newlines
<1>3. ASSUME Blanks(s) # {}
      PROVE  /\ Min(Blanks(s)) \in 2 .. Len(s) /\ Min(Blanks(s)) \in Blanks(s)
             /\ \A i \in Blanks(s) : Min(Blanks(s)) <= i
  <2>1. Min(Blanks(s)) \in Blanks(s) /\ \A i \in Blanks(s) : Min(Blanks(s)) <= i
    BY <1>2, <1>3, MinIsLeast, Zenon
  <2>2. Min(Blanks(s)) \in 2 .. Len(s)
    BY <2>1, Zenon DEF Blanks, Newlines
  <2> QED
    BY <2>1, <2>2, Zenon
<1> QED
  BY <1>1, <1>2, <1>3, Zenon

(* read_request's verdict on a buffer is what the buffer is. *)
LEMMA ParsedVerdict ==
    ASSUME NEW s \in Seq(Token)
    PROVE  LET parsed == http_parse_request(s) IN
           /\ Verdict(parsed, Len(s)) = Expected(s)
           /\ parsed.length \in 0 .. 1
           /\ Expected(s) = "ok" => /\ parsed.code = RequestLength(s)
                                    /\ parsed.length = BodyLength(s)
                                    /\ parsed.code \in 0 .. Len(s)
<1> DEFINE parsed == http_parse_request(s)
           header == Min(Blanks(s))
           length == BodyLength(s)
<1>0. Len(s) \in Nat /\ BufSz \in Nat
  BY HttpAssumption
<1>1. CASE parsed = More /\ (Newlines(s, 1) = {} \/ (WellFormed(FirstLine(s)) /\ Blanks(s) = {}))
  <2>1. parsed.code = 0 /\ parsed.length = 0
    BY <1>1 DEF More
  <2>2. Expected(s) = IF Len(s) >= BufSz THEN "large" ELSE ""
    BY <1>1, Zenon DEF Expected
  <2> HIDE DEF parsed
  <2>3. Verdict(parsed, Len(s)) = IF Len(s) >= BufSz THEN "large" ELSE ""
    BY <1>0, <2>1 DEF Verdict
  <2>4. Expected(s) # "ok"
    BY <2>2, Zenon
  <2>5. parsed.length \in 0 .. 1
    BY <2>1
  <2> QED
    BY <2>2, <2>3, <2>4, <2>5, Zenon DEF parsed
<1>2. CASE parsed = Malformed /\ Newlines(s, 1) # {} /\ ~WellFormed(FirstLine(s))
  <2>1. parsed.code = -1 /\ parsed.length = 0
    BY <1>2 DEF Malformed
  <2>2. Expected(s) = "bad"
    BY <1>2, Zenon DEF Expected
  <2> HIDE DEF parsed
  <2>3. Verdict(parsed, Len(s)) = "bad"
    BY <1>0, <2>1, SMT, SMTT(60) DEF Verdict
  <2>4. Expected(s) # "ok"
    BY <2>2, Zenon
  <2>5. parsed.length \in 0 .. 1
    BY <2>1
  <2> QED
    BY <2>2, <2>3, <2>4, <2>5, Zenon DEF parsed
<1>3. CASE /\ parsed = Finish(s, header, length)
           /\ Newlines(s, 1) # {} /\ WellFormed(FirstLine(s)) /\ Blanks(s) # {}
  <2>1. header \in 2 .. Len(s) /\ length \in 0 .. 1
    BY <1>3, LengthTypes, Zenon
  <2>2. RequestLength(s) = header + length
    BY Zenon DEF RequestLength
  <2> HIDE DEF header, length
  <2>3. CASE Len(s) < header + length
    <3>1. parsed.code = 0 /\ parsed.length = 0
      BY <1>3, <2>3 DEF Finish, More
    <3>2. ~(RequestLength(s) <= Len(s))
      BY <1>0, <2>1, <2>2, <2>3, SMT, SMTT(60)
    <3>3. Expected(s) = IF Len(s) >= BufSz THEN "large" ELSE ""
      BY <1>3, <3>2, Zenon DEF Expected
    <3> HIDE DEF parsed
    <3>4. Verdict(parsed, Len(s)) = IF Len(s) >= BufSz THEN "large" ELSE ""
      BY <1>0, <3>1 DEF Verdict
    <3>5. Expected(s) # "ok"
      BY <3>3, Zenon
    <3>6. parsed.length \in 0 .. 1
      BY <3>1
    <3> QED
      BY <3>3, <3>4, <3>5, <3>6, Zenon DEF parsed
  <2>4. CASE ~(Len(s) < header + length)
    <3>1. parsed.code = header + length /\ parsed.length = length
      <4>1. parsed = [code |-> header + length, length |-> length]
        BY <1>3, <2>4, Zenon DEF Finish
      <4> HIDE DEF parsed
      <4> QED
        BY <4>1
    <3>2. RequestLength(s) <= Len(s) /\ header + length > 0 /\ header + length \in 0 .. Len(s)
      BY <1>0, <2>1, <2>2, <2>4, SMT, SMTT(60)
    <3>3. Expected(s) = "ok"
      BY <1>3, <3>2, Zenon DEF Expected
    <3> HIDE DEF parsed
    <3>4. Verdict(parsed, Len(s)) = "ok"
      BY <1>0, <2>1, <3>1, <3>2, SMT, SMTT(60) DEF Verdict
    <3> QED
      BY <2>1, <2>2, <3>1, <3>2, <3>3, <3>4, Zenon DEF parsed, length
  <2> QED
    BY <2>3, <2>4, Zenon
<1>4. \/ parsed = More /\ (Newlines(s, 1) = {} \/ (WellFormed(FirstLine(s)) /\ Blanks(s) = {}))
      \/ parsed = Malformed /\ Newlines(s, 1) # {} /\ ~WellFormed(FirstLine(s))
      \/ /\ parsed = Finish(s, header, length)
         /\ Newlines(s, 1) # {} /\ WellFormed(FirstLine(s)) /\ Blanks(s) # {}
  <2>1. parsed = IF Newlines(s, 1) = {} THEN More
                 ELSE IF ~WellFormed(FirstLine(s)) THEN Malformed
                 ELSE IF Blanks(s) = {} THEN More
                 ELSE Finish(s, header, length)
    BY ParseExact, Zenon
  <2> HIDE DEF parsed, header, length
  <2> QED
    BY <2>1, Zenon
<1> QED
  BY <1>1, <1>2, <1>3, <1>4, Zenon

(* What a buffer is does not change with what comes after the request, or  *)
(* after a malformed request line.                                         *)
LEMMA ExtensionKeeps ==
    ASSUME NEW t \in Seq(Token), NEW n \in 0 .. Len(t), NEW s, s = SubSeq(t, 1, n),
           Expected(s) \in {"ok", "bad"}
    PROVE  /\ Expected(t) = Expected(s)
           /\ Expected(s) = "ok" => /\ RequestLength(t) = RequestLength(s)
                                    /\ BodyLength(t) = BodyLength(s)
<1>0. /\ s \in Seq(Token) /\ Len(s) = n /\ n \in Nat /\ Len(t) \in Nat /\ n <= Len(t)
      /\ \A i \in 1 .. n : s[i] = t[i]
  OBVIOUS
<1>1. Newlines(s, 1) # {}
  BY Zenon DEF Expected
<1>2. Newlines(s, 1) \subseteq Newlines(t, 1) /\ \A i \in Newlines(t, 1) : i <= n => i \in Newlines(s, 1)
  BY <1>0 DEF Newlines
<1> DEFINE nl == Min(Newlines(s, 1))
<1>3. nl \in Newlines(s, 1) /\ nl \in Nat /\ nl \in 1 .. n /\ \A i \in Newlines(s, 1) : nl <= i
  <2>1. Newlines(s, 1) \in SUBSET Nat
    BY <1>0 DEF Newlines
  <2>2. nl \in Newlines(s, 1) /\ nl \in Nat /\ \A i \in Newlines(s, 1) : nl <= i
    BY <1>1, <2>1, MinIsLeast, Zenon
  <2> HIDE DEF nl
  <2>3. nl \in 1 .. n
    BY <1>0, <2>2 DEF Newlines
  <2> QED
    BY <2>2, <2>3, Zenon
<1>4. Min(Newlines(t, 1)) = nl /\ Newlines(t, 1) # {}
  <2>1. Newlines(t, 1) \in SUBSET Nat
    BY <1>0 DEF Newlines
  <2> HIDE DEF nl
  <2>2. nl \in Newlines(t, 1)
    BY <1>2, <1>3, Zenon
  <2>3. ASSUME NEW i \in Newlines(t, 1) PROVE nl <= i
    <3>1. CASE i <= n
      BY <1>2, <1>3, <3>1, Zenon
    <3>2. CASE ~(i <= n)
      BY <1>0, <1>3, <2>1, <3>2, SMT, SMTT(60)
    <3> QED
      BY <3>1, <3>2, Zenon
  <2> QED
    BY <2>1, <2>2, <2>3, LeastIsMin, Zenon
<1>5. FirstLine(t) = FirstLine(s)
  <2>1. FirstLine(t) = SubSeq(t, 1, nl - 1) /\ FirstLine(s) = SubSeq(s, 1, nl - 1)
    BY <1>4, Zenon DEF FirstLine
  <2> HIDE DEF nl
  <2>2. SubSeq(t, 1, nl - 1) = SubSeq(s, 1, nl - 1)
    BY <1>0, <1>3
  <2> QED
    BY <2>1, <2>2, Zenon
<1>6. CASE Expected(s) = "bad"
  <2>1. ~WellFormed(FirstLine(s))
    BY <1>6, Zenon DEF Expected
  <2>2. Expected(t) = "bad"
    BY <1>4, <1>5, <2>1, Zenon DEF Expected
  <2> QED
    BY <1>6, <2>2, Zenon
<1>7. CASE Expected(s) = "ok"
  <2>1. WellFormed(FirstLine(s)) /\ Blanks(s) # {} /\ RequestLength(s) <= Len(s)
    BY <1>7, Zenon DEF Expected
  <2>2. \A i : i \in Blanks(s) <=> i \in Blanks(t) /\ i <= n
    BY <1>0, SMT, SMTT(60) DEF Blanks, Newlines
  <2> DEFINE m == Min(Blanks(s))
  <2>3. m \in Blanks(s) /\ m \in 2 .. n /\ \A i \in Blanks(s) : m <= i
    BY <1>0, <2>1, LengthTypes, Zenon
  <2> HIDE DEF m
  <2>4. Min(Blanks(t)) = m /\ Blanks(t) # {}
    <3>1. Blanks(t) \in SUBSET Nat /\ m \in Blanks(t)
      BY <2>2, <2>3, LengthTypes, Zenon
    <3>2. ASSUME NEW i \in Blanks(t) PROVE m <= i
      <4>1. CASE i <= n
        BY <2>2, <2>3, <4>1, Zenon
      <4>2. CASE ~(i <= n)
        BY <1>0, <2>3, <3>1, <4>2, SMT, SMTT(60)
      <4> QED
        BY <4>1, <4>2, Zenon
    <3> QED
      BY <3>1, <3>2, LeastIsMin, Zenon
  <2>5. \A i \in 2 .. m : s[i - 1] = t[i - 1] /\ s[i] = t[i]
    BY <1>0, <2>3, SMT, SMTT(60)
  <2>6. BodyLength(t) = BodyLength(s)
    <3>1. /\ BodyLength(t) = IF \E i \in 2 .. m : t[i - 1] = "LF" /\ t[i] = "len" THEN 1 ELSE 0
          /\ BodyLength(s) = IF \E i \in 2 .. m : s[i - 1] = "LF" /\ s[i] = "len" THEN 1 ELSE 0
      BY <2>4, Zenon DEF BodyLength, m
    <3>2. (\E i \in 2 .. m : t[i - 1] = "LF" /\ t[i] = "len")
            <=> (\E i \in 2 .. m : s[i - 1] = "LF" /\ s[i] = "len")
      BY <2>5, Zenon
    <3>3. CASE \E i \in 2 .. m : s[i - 1] = "LF" /\ s[i] = "len"
      <4>1. BodyLength(s) = 1
        BY <3>1, <3>3, Zenon
      <4>2. BodyLength(t) = 1
        BY <3>1, <3>2, <3>3, Zenon
      <4> QED
        BY <4>1, <4>2, Zenon
    <3>4. CASE ~\E i \in 2 .. m : s[i - 1] = "LF" /\ s[i] = "len"
      <4>1. BodyLength(s) = 0
        BY <3>1, <3>4, Zenon
      <4>2. BodyLength(t) = 0
        BY <3>1, <3>2, <3>4, Zenon
      <4> QED
        BY <4>1, <4>2, Zenon
    <3> QED
      BY <3>3, <3>4, Zenon
  <2>7. RequestLength(t) = RequestLength(s)
    BY <2>4, <2>6, Zenon DEF RequestLength, m
  <2>8. RequestLength(t) <= Len(t)
    <3>1. RequestLength(s) \in Nat
      <4>1. RequestLength(s) = m + BodyLength(s) /\ BodyLength(s) \in 0 .. 1
        BY <1>0, LengthTypes, Zenon DEF RequestLength, m
      <4> HIDE DEF BodyLength, RequestLength
      <4> QED
        BY <2>3, <4>1
    <3> HIDE DEF RequestLength
    <3> QED
      BY <1>0, <2>1, <2>7, <3>1, SMT, SMTT(60)
  <2>9. Expected(t) = "ok"
    BY <1>4, <1>5, <2>1, <2>4, <2>8, Zenon DEF Expected
  <2> QED
    BY <1>7, <2>6, <2>7, <2>9, Zenon
<1> QED
  BY <1>6, <1>7, Zenon

\* With the verdict: nothing is thrown away before read_request has returned,
\* so the buffer holds what the client sent first.
ExactInv == Inv /\ TypeOK /\ (pc = "read" => off = 0) /\ VerdictExact

(* Nothing has been sent, so there is no verdict. *)
LEMMA InitExact ==
    ASSUME Init
    PROVE  ExactInv
<1>0. /\ sent = <<>> /\ peer = "open" /\ have = 0 /\ verdict = "" /\ total = 0 /\ body = 0
      /\ off = 0 /\ pc = "read" /\ replies = <<>> /\ reply = "none" /\ responded = FALSE
      /\ turns = 0 /\ owed = 0 /\ late = FALSE
  BY Zenon DEF Init
<1>1. TypeOK
  <2>1. <<>> \in Seq(Token) /\ Len(<<>>) <= MaxSent /\ <<>> \in Seq(Status)
    BY HttpAssumption
  <2>2. 0 \in 0 .. BufSz /\ 0 \in Nat /\ 0 \in 0 .. DrainMax /\ 0 \in 0 .. 1
    BY HttpAssumption
  <2> QED
    BY <1>0, <2>1, <2>2, Zenon DEF TypeOK
<1>2. VerdictExact
  <2>1. SubSeq(sent, 1, have) = <<>>
    <3>1. \A s \in Seq(Token) : SubSeq(s, 1, 0) = <<>>
      OBVIOUS
    <3> QED
      BY <1>0, <1>1, <3>1, Zenon DEF TypeOK
  <2>2. Newlines(<<>>, 1) = {}
    BY DEF Newlines
  <2>3. ~(Len(<<>>) >= BufSz)
    BY HttpAssumption
  <2>4. Expected(<<>>) = ""
    BY <2>2, <2>3, Zenon DEF Expected
  <2> QED
    BY <1>0, <2>1, <2>4, Zenon DEF VerdictExact
<1> QED
  BY <1>0, <1>1, <1>2, InitInv, Zenon DEF ExactInv

\* What the verdict is about.
Judged == SubSeq(sent, 1, Min({Len(sent), BufSz}))

(* What is judged is the beginning of the stream, as far as it fits. *)
LEMMA JudgedIs ==
    ASSUME NEW s \in Seq(Token)
    PROVE  LET n == Min({Len(s), BufSz}) IN
           /\ n \in Nat /\ n <= Len(s) /\ n <= BufSz
           /\ n = Len(s) \/ n = BufSz
           /\ SubSeq(s, 1, n) \in Seq(Token) /\ Len(SubSeq(s, 1, n)) = n
<1> DEFINE n == Min({Len(s), BufSz})
<1>1. Len(s) \in Nat /\ BufSz \in Nat
  BY HttpAssumption
<1>2. n = IF Len(s) <= BufSz THEN Len(s) ELSE BufSz
  <2>1. Len(s) \in Int /\ BufSz \in Int
    BY <1>1, SMT, SMTT(60)
  <2> QED
    BY <2>1, MinOfTwo, Zenon
<1> HIDE DEF n
<1>3. n \in Nat /\ n <= Len(s) /\ n <= BufSz /\ (n = Len(s) \/ n = BufSz)
  BY <1>1, <1>2, SMT, SMTT(60)
<1>4. SubSeq(s, 1, n) \in Seq(Token) /\ Len(SubSeq(s, 1, n)) = n
  BY <1>1, <1>3
<1> QED
  BY <1>3, <1>4, Zenon DEF n

(* A token more does not change the verdict on what came before it. *)
LEMMA SendExact ==
    ASSUME ExactInv, NEW x \in Token, Send(x)
    PROVE  ExactInv'
<1>0. /\ sent' = Append(sent, x) /\ Len(sent) < MaxSent
      /\ late' = (late \/ pc \in {"drain", "closed"})
      /\ reply' = IF pc = "closed" /\ reply = "sent" THEN "lost" ELSE reply
      /\ UNCHANGED <<peer, have, verdict, total, body, off, pc, replies, responded, turns, owed>>
  BY Zenon DEF Send, reading, closing
<1>1. sent \in Seq(Token) /\ have \in Nat /\ have <= Len(sent) /\ Len(sent) \in Nat
  BY HttpAssumption, SMT, SMTT(60) DEF ExactInv, Inv, Types
<1>2. sent' \in Seq(Token) /\ Len(sent') = Len(sent) + 1 /\ Len(sent') <= MaxSent
  BY <1>0, <1>1, HttpAssumption, SMT, SMTT(60)
<1>3. TypeOK'
  BY <1>0, <1>2, Zenon DEF ExactInv, TypeOK
<1>4. SubSeq(sent', 1, have) = SubSeq(sent, 1, have)
  BY <1>0, <1>1, SMT, SMTT(60)
<1>5. ASSUME verdict \in {"ok", "bad", "large"}
      PROVE  /\ verdict = Expected(Judged')
             /\ verdict = "ok" => total = RequestLength(Judged') /\ body = BodyLength(Judged')
  <2> DEFINE n == Min({Len(sent), BufSz})
             m == Min({Len(sent'), BufSz})
  <2>1. /\ verdict = Expected(Judged)
        /\ verdict = "ok" => total = RequestLength(Judged) /\ body = BodyLength(Judged)
    BY <1>5, Zenon DEF ExactInv, VerdictExact, Judged
  <2>2. /\ n \in Nat /\ n <= Len(sent) /\ n <= BufSz /\ (n = Len(sent) \/ n = BufSz)
        /\ Judged \in Seq(Token) /\ Len(Judged) = n
    BY <1>1, JudgedIs, Zenon DEF Judged
  <2>3. /\ m \in Nat /\ m <= Len(sent') /\ m <= BufSz /\ (m = Len(sent') \/ m = BufSz)
        /\ Judged' \in Seq(Token) /\ Len(Judged') = m
    BY <1>2, JudgedIs, Zenon DEF Judged
  <2>4. Judged = SubSeq(sent, 1, n) /\ Judged' = SubSeq(sent', 1, m)
    BY Zenon DEF Judged
  <2> HIDE DEF n, m
  <2>5. n \in 0 .. m /\ (n = m \/ n < BufSz)
    BY <1>1, <1>2, <2>2, <2>3, HttpAssumption, SMT, SMTT(60)
  <2>6. Judged = SubSeq(Judged', 1, n)
    BY <1>0, <1>1, <1>2, <2>2, <2>3, <2>4, <2>5, SMT, SMTT(60)
  <2>7. CASE n = m
    <3>1. Judged' = Judged
      BY <1>0, <1>1, <1>2, <2>2, <2>3, <2>4, <2>7, SMT, SMTT(60)
    <3> QED
      BY <2>1, <3>1, Zenon
  <2>8. CASE n < BufSz
    <3>1. ~(Len(Judged) >= BufSz)
      BY <2>2, <2>8, HttpAssumption, SMT, SMTT(60)
    <3>2. Expected(Judged) \in {"ok", "bad"}
      BY <1>5, <2>1, <3>1, Zenon DEF Expected
    <3>3. /\ Expected(Judged') = Expected(Judged)
          /\ Expected(Judged) = "ok" => /\ RequestLength(Judged') = RequestLength(Judged)
                                        /\ BodyLength(Judged') = BodyLength(Judged)
      BY <2>3, <2>5, <2>6, <3>2, ExtensionKeeps, Zenon
    <3> QED
      BY <2>1, <3>3, Zenon
  <2> QED
    BY <2>5, <2>7, <2>8, Zenon
<1>6. VerdictExact'
  <2>1. ASSUME verdict \in {"", "quiet", "left"} PROVE Expected(SubSeq(sent', 1, have)) = ""
    BY <1>4, <2>1, Zenon DEF ExactInv, VerdictExact
  <2> QED
    BY <1>0, <1>5, <2>1, Zenon DEF VerdictExact, Judged
<1>7. Inv'
  BY SendInv, Zenon DEF ExactInv
<1> QED
  BY <1>0, <1>3, <1>6, <1>7, Zenon DEF ExactInv

\* The types of what is answered.
AnswerType ==
    /\ replies \in Seq(Status)
    /\ reply \in {"none", "part", "rest", "sent", "read", "lost"}
    /\ responded \in BOOLEAN

(* http_respond keeps to the statuses. *)
LEMMA RespondType ==
    ASSUME TypeOK, NEW status \in Status,
           http_respond(status) \/ http_respond_held(status)
    PROVE  AnswerType'
<1>1. /\ replies' = Append(replies, status) /\ reply' \in {"sent", "lost", "part"}
      /\ responded' = TRUE \/ responded' = responded
  BY Zenon DEF http_respond, http_respond_held
<1>2. replies \in Seq(Status) /\ responded \in BOOLEAN
  BY Zenon DEF TypeOK
<1>3. replies' \in Seq(Status)
  BY <1>1, <1>2
<1> QED
  BY <1>1, <1>2, <1>3, Zenon DEF AnswerType

(* A turn of read_request judges all that came, as far as it fits. *)
LEMMA ReceiveExact ==
    ASSUME ExactInv, Receive
    PROVE  ExactInv'
<1>0. /\ pc = "read" /\ off = 0 /\ have' = Filled
      /\ UNCHANGED <<sent, peer, off, turns, owed, late>>
  BY Zenon DEF Receive, client, closing, ExactInv
<1>1. sent \in Seq(Token) /\ Len(sent) \in Nat /\ have \in Nat
  BY HttpAssumption DEF ExactInv, Inv, Types
<1>2. Filled = Min({Len(sent), BufSz})
  <2>1. have + Unread = Len(sent)
    BY <1>0, <1>1, SMT, SMTT(60) DEF Unread
  <2> QED
    BY <2>1, Zenon DEF Filled
<1> DEFINE parsed == http_parse_request(SubSeq(sent, 1, Filled))
           v == Verdict(parsed, Filled)
<1>3. /\ verdict' = v
      /\ total' = IF v = "ok" THEN parsed.code ELSE 0
      /\ body' = parsed.length
      /\ CASE v = "ok" -> pc' = "dispatch" /\ UNCHANGED answer
           [] v = "bad" -> pc' = "unregister" /\ http_respond(400)
           [] v = "large" -> pc' = "unregister" /\ http_respond(413)
           [] OTHER -> UNCHANGED <<pc, answer>>
  BY Zenon DEF Receive
<1>4. /\ Filled \in Nat /\ Filled <= BufSz
      /\ Judged = SubSeq(sent, 1, Filled) /\ Judged \in Seq(Token) /\ Len(Judged) = Filled
  BY <1>1, <1>2, JudgedIs, Zenon DEF Judged
<1>5. /\ v = Expected(Judged)
      /\ parsed.length \in 0 .. 1
      /\ v = "ok" => /\ parsed.code = RequestLength(Judged) /\ parsed.length = BodyLength(Judged)
                     /\ parsed.code \in 0 .. Filled
  BY <1>4, ParsedVerdict, Zenon
<1>6. v \in {"ok", "bad", "large", ""}
  BY <1>5, Zenon DEF Expected
<1> HIDE DEF parsed, v
<1>7. Filled \in 0 .. BufSz /\ total' \in 0 .. BufSz
  <2>1. Filled \in 0 .. BufSz
    BY <1>4, HttpAssumption, SMT, SMTT(60)
  <2>2. CASE v = "ok"
    <3>1. total' = parsed.code
      BY <1>3, <2>2, Zenon
    <3> QED
      BY <1>4, <1>5, <2>1, <2>2, <3>1, HttpAssumption, SMT, SMTT(60)
  <2>3. CASE v # "ok"
    <3>1. total' = 0
      BY <1>3, <2>3, Zenon
    <3> QED
      BY <2>1, <3>1, HttpAssumption, SMT, SMTT(60)
  <2> QED
    BY <2>1, <2>2, <2>3, Zenon
<1>8. /\ AnswerType'
      /\ pc' \in {"read", "dispatch", "unregister"}
  <2>1. CASE v = "bad"
    BY <1>3, <2>1, RespondType, Codes, ZenonT(60) DEF ExactInv
  <2>2. CASE v = "large"
    BY <1>3, <2>2, RespondType, Codes, ZenonT(60) DEF ExactInv
  <2>3. CASE v \in {"ok", ""}
    BY <1>0, <1>3, <2>3, Zenon DEF ExactInv, TypeOK, answer, AnswerType
  <2> QED
    BY <1>6, <2>1, <2>2, <2>3, ZenonT(60)
<1>9. TypeOK'
  BY <1>0, <1>3, <1>5, <1>6, <1>7, <1>8, Zenon DEF ExactInv, TypeOK, AnswerType
<1>10. VerdictExact'
  <2>1. Judged' = Judged /\ SubSeq(sent', 1, have') = Judged
    BY <1>0, <1>4, Zenon DEF Judged
  <2>2. ASSUME verdict' \in {"ok", "bad", "large"}
        PROVE  /\ verdict' = Expected(Judged)
               /\ verdict' = "ok" => total' = RequestLength(Judged) /\ body' = BodyLength(Judged)
    BY <1>3, <1>5, Zenon
  <2>3. ASSUME verdict' \in {"", "quiet", "left"} PROVE Expected(Judged) = ""
    BY <1>3, <1>5, <1>6, <2>3, Zenon
  <2> QED
    BY <2>1, <2>2, <2>3, Zenon DEF VerdictExact, Judged
<1>11. Inv'
  BY ReceiveInv, Zenon DEF ExactInv
<1> QED
  BY <1>0, <1>9, <1>10, <1>11, Zenon DEF ExactInv

\* A step after which the verdict is about the same bytes.
SameVerdict ==
    /\ UNCHANGED <<sent, have, total, body>>
    /\ verdict' = verdict \/ (verdict = "" /\ verdict' \in {"quiet", "left"})

(* Such a step keeps the verdict exact. *)
LEMMA SameExact ==
    ASSUME VerdictExact, SameVerdict
    PROVE  VerdictExact'
<1>1. CASE verdict' = verdict
  BY <1>1, Zenon DEF VerdictExact, SameVerdict
<1>2. CASE verdict = "" /\ verdict' \in {"quiet", "left"}
  BY <1>2, Zenon DEF VerdictExact, SameVerdict
<1> QED
  BY <1>1, <1>2, Zenon DEF SameVerdict

(* The rest of the session leaves what read_request returned alone. *)
LEMMA OtherExact ==
    ASSUME ExactInv,
           \/ ReadReply \/ \E how \in {"done", "gone"} : Leave(how)
           \/ Quiet \/ PeerLeft \/ Handle \/ SendRest \/ Fallback
           \/ StreamTick \/ StreamFrame \/ FrameRest \/ StreamLeft \/ StreamStopped
           \/ Unregister \/ Drain \/ Close
    PROVE  ExactInv'
<1>1. Inv'
  BY ClientInv, DispatchInv, SendRestInv, FallbackInv, StreamInv, UnregisterInv,
     DrainInv, CloseInv, Zenon DEF ExactInv
<1>2. SameVerdict
  <2>1. pc = "read" => verdict = ""
    BY Zenon DEF ExactInv, Inv, Answered
  <2>2. CASE ReadReply \/ \E how \in {"done", "gone"} : Leave(how)
    BY <2>2, Zenon DEF SameVerdict, ReadReply, Leave, client, reading
  <2>3. CASE Quiet \/ PeerLeft
    BY <2>1, <2>3, Zenon DEF SameVerdict, Quiet, PeerLeft, client
  <2>4. CASE Handle
    BY <2>4, Zenon DEF SameVerdict, Handle, Dispatch, DispatchStream, client, reading
  <2>5. CASE StreamTick \/ StreamFrame \/ FrameRest \/ StreamLeft \/ StreamStopped
    BY <2>5, Zenon DEF SameVerdict, StreamTick, StreamFrame, FrameRest, StreamLeft,
       StreamStopped, client, reading
  <2>6. CASE Unregister \/ Drain \/ Close
    BY <2>6, Zenon DEF SameVerdict, Unregister, Drain, Close, CloseNow, client, reading
  <2>7. CASE SendRest \/ Fallback
    BY <2>7, Zenon DEF SameVerdict, SendRest, Fallback, client, reading
  <2> QED
    BY <2>2, <2>3, <2>4, <2>5, <2>6, <2>7, Zenon
<1>3. VerdictExact'
  BY <1>2, SameExact, Zenon DEF ExactInv
<1>4. pc' = "read" => off' = 0
  <2>1. CASE ReadReply \/ \E how \in {"done", "gone"} : Leave(how)
    BY <2>1, Zenon DEF ExactInv, ReadReply, Leave
  <2>2. CASE Quiet \/ PeerLeft \/ Handle
    BY <2>2, Zenon DEF Quiet, PeerLeft, Handle, Dispatch, DispatchStream
  <2>3. CASE StreamTick \/ StreamFrame \/ FrameRest \/ StreamLeft \/ StreamStopped
    BY <2>3, Zenon DEF StreamTick, StreamFrame, SendFrame, FrameRest, StreamLeft, StreamStopped
  <2>4. CASE Unregister \/ Drain \/ Close
    BY <2>4, Zenon DEF Unregister, Drain, Close, CloseNow
  <2>5. CASE SendRest \/ Fallback
    BY <2>5, Zenon DEF SendRest, Fallback
  <2> QED
    BY <2>1, <2>2, <2>3, <2>4, <2>5, Zenon
<1>5. AnswerType'
  <2>0. AnswerType
    BY Zenon DEF ExactInv, TypeOK, AnswerType
  <2>1. CASE ReadReply \/ \E how \in {"done", "gone"} : Leave(how)
    BY <2>0, <2>1, Zenon DEF ReadReply, Leave, AnswerType, answer
  <2>2. CASE Quiet
    BY <2>2, RespondType, Codes, ZenonT(60) DEF ExactInv, Quiet
  <2>3. CASE PeerLeft
    BY <2>0, <2>3, Zenon DEF PeerLeft, AnswerType, answer
  <2>4. CASE Handle
    <3>1. PICK method \in Method, path \in Path, room \in BOOLEAN :
              Dispatch(method, path, room) \/ DispatchStream(method, path, room)
      BY <2>4, Zenon DEF Handle
    <3>2. PICK status \in Status : http_respond(status) \/ http_respond_held(status)
      BY <3>1, AnswersAreStatuses, Codes, ZenonT(60) DEF Dispatch, DispatchStream
    <3> QED
      BY <3>2, RespondType, Zenon DEF ExactInv
  <2>5. CASE StreamTick \/ StreamFrame \/ FrameRest \/ StreamLeft \/ StreamStopped
    BY <2>0, <2>5, ZenonT(60) DEF StreamTick, StreamFrame, SendFrame, FrameRest, StreamLeft,
       StreamStopped, AnswerType, answer
  <2>6. CASE Unregister \/ Drain \/ Close
    BY <2>0, <2>6, Zenon DEF Unregister, Drain, Close, CloseNow, AnswerType, answer
  <2>7. CASE SendRest
    BY <2>0, <2>7, Zenon DEF SendRest, AnswerType
  <2>8. CASE Fallback
    <3>1. 404 \in Status
      BY DEF Status
    <3> QED
      BY <2>0, <2>8, <3>1, RespondType, ZenonT(60) DEF ExactInv, Fallback, AnswerType, answer
  <2> QED
    BY <2>1, <2>2, <2>3, <2>4, <2>5, <2>6, <2>7, <2>8, ZenonT(60)
<1>6. TypeOK'
  BY <1>1, <1>2, <1>5, Zenon DEF Inv, Types, ExactInv, TypeOK, SameVerdict, AnswerType
<1> QED
  BY <1>1, <1>3, <1>4, <1>6, Zenon DEF ExactInv

(* Every step keeps it. *)
LEMMA NextExact ==
    ASSUME ExactInv, [Next]_vars
    PROVE  ExactInv'
<1>1. CASE UNCHANGED vars
  <2>1. Inv'
    BY NextInv, Zenon DEF ExactInv
  <2>2. /\ UNCHANGED <<sent, peer, have, off, pc, verdict, total, body, replies, reply>>
        /\ UNCHANGED <<responded, turns, owed, late>>
    BY <1>1, Zenon DEF vars
  <2>3. TypeOK' /\ (pc' = "read" => off' = 0)
    BY <2>2, ZenonT(60) DEF ExactInv, TypeOK
  <2>4. VerdictExact'
    BY <2>2, SameExact, Zenon DEF ExactInv, SameVerdict
  <2> QED
    BY <2>1, <2>3, <2>4, Zenon DEF ExactInv
<1> QED
  BY <1>1, SendExact, ReceiveExact, OtherExact, Zenon DEF Next, Thread

(* The invariant with the verdict holds in every run. *)
THEOREM ExactInvariant == Spec => []ExactInv
BY InitExact, NextExact, PTL DEF Spec

(* The request buffer, the counts of close_graceful and the rest of the    *)
(* session stay within their types, whatever the sizes.                    *)
THEOREM HttpTypes == Spec => []TypeOK
BY ExactInvariant, PTL DEF ExactInv

(* However recv cuts the stream, read_request returns the request the      *)
(* stream begins with, its length and its body's, or answers 400 or 413    *)
(* for what it begins with, and gives up only where no request had come.   *)
THEOREM ReadRequestExact == Spec => []VerdictExact
BY ExactInvariant, PTL DEF ExactInv
=============================================================================
