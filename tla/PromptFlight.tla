---------------------------- MODULE PromptFlight ----------------------------
(***************************************************************************)
(* What the prompt queue of a tab promises, whatever the user, the shell,  *)
(* the agent and the connection do meanwhile.  A request is accepted,      *)
(* waits, runs and is over, and never goes back; some are over without     *)
(* ever having run.  One request runs at a time, since the agent's output  *)
(* does not say which prompt it answers, and the requests of the user's    *)
(* own run in the order in which they were accepted.                       *)
(***************************************************************************)
EXTENDS Naturals

CONSTANT Requests   \* numbers, in the order of acceptance

VARIABLES
    status,     \* how far each request is
    automatic   \* requests the user has not made

vars == <<status, automatic>>

Progress(from) ==
    CASE from = "new" -> {"new", "waiting", "running", "over"}
      [] from = "waiting" -> {"waiting", "running", "over"}
      [] from = "running" -> {"running", "over"}
      [] from = "over" -> {"over"}

Init == status = [r \in Requests |-> "new"] /\ automatic = {}

\* A request starts when none runs and no earlier one of the user's waits.
MayStart(r) ==
    /\ \A q \in Requests : status[q] # "running"
    /\ r \notin automatic' =>
          \A q \in Requests \ automatic' : q < r => status'[q] # "waiting"

\* One event may end several requests, accept one and start one.
Step ==
    /\ \A r \in Requests : status'[r] \in Progress(status[r])
    /\ \A q, r \in Requests : status'[q] = "running" /\ status'[r] = "running" => q = r
    /\ \A r \in Requests : status'[r] = "running" /\ status[r] # "running" => MayStart(r)
    /\ automatic \subseteq automatic'
    /\ \A r \in Requests : (r \in automatic') # (r \in automatic) => status[r] = "new"

Spec == Init /\ [][Step]_vars
=============================================================================
