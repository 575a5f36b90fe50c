------------------------------ MODULE IacCuts ------------------------------
(***************************************************************************)
(* Two parsers that are fed the same bytes and whose reads end at          *)
(* different places: the one of IacParser and a second one.                *)
(***************************************************************************)
EXTENDS IacParser

VARIABLES state2, cmd2, sb_opt2, sb_len2, sb_buf2, slice2, out2

vars2 == <<state2, cmd2, sb_opt2, sb_len2, sb_buf2, slice2, out2>>

Second == INSTANCE IacParser
            WITH state <- state2, cmd <- cmd2, sb_opt <- sb_opt2,
                 sb_len <- sb_len2, sb_buf <- sb_buf2, slice <- slice2, out <- out2

CutsInit == Init /\ Second!Init

CutsNext ==
    \/ ReadEnds /\ UNCHANGED vars2
    \/ Second!ReadEnds /\ UNCHANGED vars
    \/ \E b \in Byte : Feed(b) /\ Second!Feed(b)

CutsSpec == CutsInit /\ [][CutsNext]_<<vars, vars2>>

(***************************************************************************)
(* The callbacks of iac_parser_feed are the same, in the same order,       *)
(* wherever the reads end.                                                 *)
(***************************************************************************)
CutIndependent == Flushed = Second!Flushed

\* Why: the parsers are in the same state, and hold back data only while in
\* IAC_DATA, so that a command is never reported before the data it follows.
SameParser ==
    /\ TypeOK
    /\ state2 = state /\ cmd2 = cmd /\ sb_opt2 = sb_opt
    /\ sb_len2 = sb_len /\ sb_buf2 = sb_buf
    /\ slice2 \in Seq(Event) /\ out2 \in Seq(Event)
    /\ state # "IAC_DATA" => slice = <<>> /\ slice2 = <<>>
    /\ CutIndependent
=============================================================================
