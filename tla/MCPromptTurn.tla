---------------------------- MODULE MCPromptTurn ----------------------------
(* PromptTurn, instantiated for TLC by the PromptTurn_*.cfg files. *)
EXTENDS PromptTurn

MCMaxOf == [prompt |-> 1, fix |-> 1, forced |-> 1, auto |-> 2]
=============================================================================
