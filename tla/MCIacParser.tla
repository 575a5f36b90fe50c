---------------------------- MODULE MCIacParser ----------------------------
(***************************************************************************)
(* Two parsers with their own reads, and the grammar of what both are fed. *)
(***************************************************************************)
EXTENDS IacCuts, IacGrammar
=============================================================================
