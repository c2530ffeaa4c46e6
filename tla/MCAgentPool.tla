---------------------------- MODULE MCAgentPool ----------------------------
(* AgentPool for TLC: two helpers, one warm key and two model-scoped keys   *)
(* of which a configuration picks some.                                     *)
EXTENDS AgentPool

CONSTANTS w, m1, m2, targetW, targetM

\* Two model-scoped keys of one launch configuration (a custom provider that
\* was edited and edited back) share their admission target.
MCAdmissionOf == [k \in Keys |-> IF k = w THEN targetW ELSE targetM]
MCCells == 1..8
MCInsts == 1..2
=============================================================================
