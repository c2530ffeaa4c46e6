---------------------------- MODULE MCSharedWta ----------------------------
(* SharedWta for TLC. *)
EXTENDS SharedWta
=============================================================================
