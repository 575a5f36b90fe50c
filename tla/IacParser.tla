------------------------------ MODULE IacParser ------------------------------
(***************************************************************************)
(* The Telnet parser (protocol/telnet/telnet_proto.c): a byte automaton    *)
(* that separates plain data from commands and keeps its state between     *)
(* reads, because commands may span them.                                  *)
(*                                                                         *)
(* Feed(b) is one turn of the loop of iac_parser_feed, ReadEnds its end.   *)
(* Bytes that the parser treats alike are one byte of the model.           *)
(***************************************************************************)
EXTENDS Naturals, Sequences

CONSTANTS
    IAC, SB, SE,    \* 255, 250, 240
    Verbs,          \* WILL, WONT, DO, DONT
    Others,         \* all other bytes
    NoByte,         \* the zero that memset leaves in the parser
    SbMax,          \* sizeof(sb_buf), 255
    MaxBytes        \* bound of the model: bytes ever received

Byte == {IAC, SB, SE} \cup Verbs \cup Others

ASSUME IacAssumption ==
    /\ IAC # SB /\ IAC # SE /\ SB # SE
    /\ {IAC, SB, SE} \cap Verbs = {}
    /\ ({IAC, SB, SE} \cup Verbs) \cap Others = {}
    /\ {"data", "subneg"} \cap Verbs = {}
    /\ SbMax \in Nat \ {0}
    /\ MaxBytes \in Nat

VARIABLES
    state,      \* iac_parse_state_t
    cmd,        \* pending WILL, WONT, DO or DONT
    sb_opt,     \* option of the subnegotiation
    sb_len,     \* 1 + stored payload bytes; 0 before the option byte
    sb_buf,     \* the accumulator, by position
    slice,      \* data_start, data_len: plain bytes of this read not yet given
                \* out, as the events they will be
    out,        \* the calls of on_data (a byte each), on_option, on_subneg
    fed         \* all bytes received

vars == <<state, cmd, sb_opt, sb_len, sb_buf, slice, out, fed>>

State == {"IAC_DATA", "IAC_IAC", "IAC_CMD", "IAC_SB", "IAC_SB_IAC"}

\* Events, all of one shape.
Data(b)           == [event |-> "data", opt |-> NoByte, bytes |-> <<b>>]
Option(verb, opt) == [event |-> verb, opt |-> opt, bytes |-> <<>>]
Subneg(opt, s)    == [event |-> "subneg", opt |-> opt, bytes |-> s]

Field == Byte \cup {NoByte}
Event == [event : Verbs \cup {"data", "subneg"}, opt : Field, bytes : Seq(Field)]

(* Type invariant.  The accumulator is never written past its end, and its *)
(* length counts the option byte: the last position stays unused.          *)
TypeOK ==
    /\ state \in State
    /\ cmd \in Verbs \cup {NoByte}
    /\ sb_opt \in Field
    /\ sb_len \in 0..SbMax
    /\ sb_buf \in [1..SbMax -> Field]
    /\ slice \in Seq(Event) /\ out \in Seq(Event)
    /\ fed \in Seq(Byte)

Init ==
    /\ state = "IAC_DATA"
    /\ cmd = NoByte /\ sb_opt = NoByte /\ sb_len = 0
    /\ sb_buf = [i \in 1..SbMax |-> NoByte]
    /\ slice = <<>> /\ out = <<>> /\ fed = <<>>

-----------------------------------------------------------------------------
\* What has been reported after FLUSH_DATA.
Flushed == out \o slice

InData(b) ==
    /\ state = "IAC_DATA"
    /\ IF b = IAC
       THEN /\ out' = Flushed /\ slice' = <<>>
            /\ state' = "IAC_IAC"
       ELSE /\ slice' = Append(slice, Data(b))
            /\ UNCHANGED <<state, out>>
    /\ UNCHANGED <<cmd, sb_opt, sb_len, sb_buf>>

InIac(b) ==
    /\ state = "IAC_IAC"
    /\ state' = IF b = SB THEN "IAC_SB"
                ELSE IF b \in Verbs THEN "IAC_CMD" ELSE "IAC_DATA"
    /\ out' = IF b = IAC THEN Append(out, Data(IAC)) ELSE out
    /\ sb_len' = IF b = SB THEN 0 ELSE sb_len
    /\ cmd' = IF b \in Verbs THEN b ELSE cmd
    /\ UNCHANGED <<sb_opt, sb_buf, slice>>

InCmd(b) ==
    /\ state = "IAC_CMD"
    /\ out' = Append(out, Option(cmd, b))
    /\ state' = "IAC_DATA"
    /\ UNCHANGED <<cmd, sb_opt, sb_len, sb_buf, slice>>

\* Mutant: the bound is off by one.
StoresOneMore == sb_len <= SbMax

Stores == sb_len < SbMax

InSb(b) ==
    /\ state = "IAC_SB"
    /\ \/ /\ b = IAC
          /\ state' = "IAC_SB_IAC"
          /\ UNCHANGED <<sb_opt, sb_len, sb_buf>>
       \/ /\ b # IAC /\ sb_len = 0
          /\ sb_opt' = b /\ sb_len' = 1
          /\ UNCHANGED <<state, sb_buf>>
       \/ /\ b # IAC /\ sb_len > 0 /\ Stores
          /\ sb_buf' = [sb_buf EXCEPT ![sb_len] = b]
          /\ sb_len' = sb_len + 1
          /\ UNCHANGED <<state, sb_opt>>
       \/ /\ b # IAC /\ sb_len > 0 /\ ~Stores
          /\ UNCHANGED <<state, sb_opt, sb_len, sb_buf>>
    /\ UNCHANGED <<cmd, slice, out>>

\* Mutant: the length still counts the option byte.
PayloadCountsOption == SubSeq(sb_buf, 1, sb_len)

\* ev.data, ev.len.
Payload == SubSeq(sb_buf, 1, IF sb_len > 1 THEN sb_len - 1 ELSE 0)

\* Anything but SE goes back to the payload, and both bytes are dropped.
InSbIac(b) ==
    /\ state = "IAC_SB_IAC"
    /\ IF b = SE
       THEN /\ out' = Append(out, Subneg(sb_opt, Payload))
            /\ state' = "IAC_DATA"
       ELSE /\ state' = "IAC_SB"
            /\ UNCHANGED out
    /\ UNCHANGED <<cmd, sb_opt, sb_len, sb_buf, slice>>

Feed(b) ==
    /\ Len(fed) < MaxBytes
    /\ fed' = Append(fed, b)
    /\ InData(b) \/ InIac(b) \/ InCmd(b) \/ InSb(b) \/ InSbIac(b)

\* Mutant: every read starts afresh.
ReadEndsForgets ==
    /\ out' = Flushed /\ slice' = <<>> /\ state' = "IAC_DATA"
    /\ UNCHANGED <<cmd, sb_opt, sb_len, sb_buf, fed>>

\* The end of a read.
ReadEnds ==
    /\ out' = Flushed /\ slice' = <<>>
    /\ UNCHANGED <<state, cmd, sb_opt, sb_len, sb_buf, fed>>

Next == ReadEnds \/ \E b \in Byte : Feed(b)

Spec == Init /\ [][Next]_vars
=============================================================================
