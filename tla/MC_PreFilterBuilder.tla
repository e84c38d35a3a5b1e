------------------------- MODULE MC_PreFilterBuilder -------------------------
(***************************************************************************)
(* The prefilter editor, its short display and its slot assignment over   *)
(* every document the editor reaches from the sample lexicon.             *)
(***************************************************************************)
EXTENDS PreFilterBuilder, Renderer, Lexicons
=============================================================================
