-------------------------- MODULE MCRestartBarrier --------------------------
(* RestartBarrier for TLC. *)
EXTENDS RestartBarrier
=============================================================================
