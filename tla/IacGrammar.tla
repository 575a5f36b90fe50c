----------------------------- MODULE IacGrammar -----------------------------
(***************************************************************************)
(* What a stream of Telnet bytes means, by its grammar: a sequence of      *)
(* units, each a plain byte or a command.  It knows neither parser states  *)
(* nor reads; the parser is measured against it.                           *)
(***************************************************************************)
EXTENDS IacParser, FiniteSetsExt

\* In a payload that begins at a, an IAC and the byte after it are a pair.
\* The byte at j is the second of one if the run of IACs just before it, back
\* to the payload's beginning at most, is odd.
Escaped(s, a, j) ==
    \E k \in 1 .. j - a :
        /\ k % 2 = 1
        /\ \A i \in j - k .. j - 1 : s[i] = IAC
        /\ j - k > a => s[j - k - 1] # IAC

\* The SE of an IAC SE pair ends the payload.
Ends(s, a) == {j \in a .. Len(s) : s[j] = SE /\ Escaped(s, a, j)}

\* The bytes of s from a to j at the places in I.
Picked(s, a, I, j) ==
    LET Upto[i \in a - 1 .. Len(s)] ==
          IF i < a THEN <<>>
          ELSE IF i \in I THEN Append(Upto[i - 1], s[i])
          ELSE Upto[i - 1]
    IN  Upto[j]

\* The bytes of the payload that begins at a, up to j.  RFC 855: a data byte
\* 255 is doubled; of other pairs it says nothing, they are left out.
Body(s, a, j) == Picked(s, a, {i \in a .. Len(s) : s[i] = IAC <=> Escaped(s, a, i)}, j)

\* A block <option, payload>: of the payload only what the parser has room
\* for.  The option of a block without payload is of no interest: nothing
\* reads it, and without an option byte it is that of an earlier block.
Block(body) ==
    LET payload == SubSeq(body, 2, IF Len(body) < SbMax THEN Len(body) ELSE SbMax)
    IN  Subneg(IF payload = <<>> THEN NoByte ELSE body[1], payload)

Reported(e) == IF e.event = "subneg" /\ e.bytes = <<>> THEN Subneg(NoByte, <<>>) ELSE e

\* The length of the unit at p, or 0 if it is not complete.
Size(s, p) ==
    CASE p > Len(s) -> 0
      [] p <= Len(s) /\ s[p] # IAC -> 1
      [] p = Len(s) /\ s[p] = IAC -> 0
      [] p < Len(s) /\ s[p] = IAC /\ s[p + 1] \in Verbs -> IF p + 2 > Len(s) THEN 0 ELSE 3
      [] p < Len(s) /\ s[p] = IAC /\ s[p + 1] = SB ->
           IF Ends(s, p + 2) = {} THEN 0 ELSE Min(Ends(s, p + 2)) + 1 - p
      [] OTHER -> 2

\* What a complete unit is reported as.
Meaning(s, p) ==
    CASE s[p] # IAC -> <<Data(s[p])>>
      [] s[p] = IAC /\ s[p + 1] = IAC -> <<Data(IAC)>>
      [] s[p] = IAC /\ s[p + 1] \in Verbs -> <<Option(s[p + 1], s[p + 2])>>
      [] s[p] = IAC /\ s[p + 1] = SB -> <<Block(Body(s, p + 2, p + Size(s, p) - 3))>>
      [] OTHER -> <<>>

\* The units from p on: their events, and where the first incomplete one is.
Units(s) ==
    LET From[p \in 1 .. Len(s) + 1] ==
          IF Size(s, p) = 0 THEN [events |-> <<>>, rest |-> p]
          ELSE LET next == From[p + Size(s, p)]
               IN  [events |-> Meaning(s, p) \o next.events, rest |-> next.rest]
    IN  From

Decode(s) == Units(s)[1].events

\* A block with a data byte 255.
Escapes(e) ==
    /\ e.event = "subneg"
    /\ e.opt = IAC \/ \E i \in DOMAIN e.bytes : e.bytes[i] = IAC

(***************************************************************************)
(* iac_parser_feed reports what the grammar says of the whole stream, in   *)
(* order and nothing twice, wherever the stream is cut into reads: in the  *)
(* middle of a command, of a payload or between the two bytes that end it. *)
(* A block with a data byte 255 is reported in its turn too, but not as    *)
(* RFC 855 has it: the parser drops the doubled byte, so that nothing is   *)
(* said of what such a block is reported to hold.                          *)
(***************************************************************************)
DecodesStream ==
    LET events == Flushed
        meant == Decode(fed)
    IN  /\ Len(events) = Len(meant)
        /\ \A i \in DOMAIN events :
              \/ Reported(events[i]) = meant[i]
              \/ events[i].event = "subneg" /\ Escapes(meant[i])
=============================================================================
