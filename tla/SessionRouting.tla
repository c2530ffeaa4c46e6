---------------------------- MODULE SessionRouting ----------------------------
(***************************************************************************)
(* Session ownership in wta-master (tools/wta/src/master/mod.rs): the      *)
(* route table from ACP sessions to helpers, and the transactions that     *)
(* change it -- session/new, session/load, session/close and the cleanup   *)
(* after a helper disconnects.                                             *)
(*                                                                         *)
(* All helpers here share one agent CLI, so a route is keyed by its        *)
(* session alone.  Each helper's transactions are serialized by its        *)
(* replacement gate, and its cleanup waits on the same gate: one program   *)
(* counter per helper is enough.  Routes of a session change only under    *)
(* the session's lifecycle gate.  A close is a subroutine: `step` says     *)
(* which transaction called it, `res` what it returned.  The two markers   *)
(* closing_session_helpers and destructive_session_helpers are set         *)
(* together by a disconnect and are one set here, `fenced`.                *)
(***************************************************************************)
EXTENDS Naturals

CONSTANTS
    Helpers,      \* helper connections
    Sessions,     \* ACP session ids
    Stored,       \* the sessions in the agent's history at the start
    Exclusive,    \* TRUE if helpers only load sessions no other helper has
    MaxRequests,  \* bound: session requests a helper sends
    None          \* stands for an absent helper, session or result

ASSUME RoutingAssumption ==
    /\ Stored \subseteq Sessions
    /\ Exclusive \in BOOLEAN
    /\ MaxRequests \in Nat
    /\ None \notin Helpers \cup Sessions

VARIABLES
    made,        \* sessions the agent has ever created (its history)
    open,        \* sessions the agent holds in memory
    route,       \* session_to_helper
    gate,        \* holder of the session's lifecycle gate
    row,         \* sessions with a live row in the registry
    cap,         \* helper whose MCP capability is bound to the session
    orphans,     \* orphaned_sessions
    conn,        \* the helper's pipe: up, lost (being cleaned up) or gone
    fenced,      \* closing_session_helpers and destructive_session_helpers
    pending,     \* pending_session_helpers
    pendingCap,  \* helpers with an entry in pending_session_mcp
    last,        \* HelperRecoveryMeta.last_session_id
    pc,          \* where the helper's transaction or cleanup is
    step,        \* the caller of the close in progress
    arg,         \* the session that close is about
    res,         \* what the close returned
    target,      \* session/load: the session to load
    prior,       \* the helper's session when the transaction began
    displaced,   \* session/load: previous_target_route
    how,         \* session/load: how the target was obtained
    todo,        \* cleanup: sessions still to be retired
    requests     \* session requests the helper has sent

agentVars  == <<made, open>>
tableVars  == <<route, gate, row, cap, orphans>>
ownerVars  == <<conn, fenced, pending, pendingCap, last>>
closeVars  == <<step, arg, res>>
loadVars   == <<target, prior, displaced, how>>
vars == <<agentVars, tableVars, ownerVars, pc, closeVars, loadVars, todo,
          requests>>

Callers == {"new", "load", "destroyed", "destroyedPrior", "abandon",
            "request", "cleanup"}

Types ==
    /\ made \in SUBSET Sessions /\ open \in SUBSET made
    /\ route \in [Sessions -> Helpers \cup {None}]
    /\ gate \in [Sessions -> Helpers \cup {None}]
    /\ row \in SUBSET Sessions
    /\ cap \in [Sessions -> Helpers \cup {None}]
    /\ orphans \in SUBSET Sessions
    /\ conn \in [Helpers -> {"up", "lost", "gone"}]
    /\ fenced \in SUBSET Helpers
    /\ pending \in SUBSET Helpers /\ pendingCap \in SUBSET Helpers
    /\ last \in [Helpers -> Sessions \cup {None}]
    /\ pc \in [Helpers -> {"idle", "close", "closing", "closed", "newCall",
                           "swap", "loadCall", "commit", "rollback",
                           "rollbackClose", "unbound", "cleanup", "drop",
                           "gone"}]
    /\ step \in [Helpers -> Callers \cup {None}]
    /\ arg \in [Helpers -> Sessions \cup {None}]
    /\ res \in [Helpers -> {"closed", "notOwned", "error", None}]
    /\ target \in [Helpers -> Sessions \cup {None}]
    /\ prior \in [Helpers -> Sessions \cup {None}]
    /\ displaced \in [Helpers -> Helpers \cup {None}]
    /\ how \in [Helpers -> {"loaded", "rebound", "failed", "refused", None}]
    /\ todo \in [Helpers -> SUBSET Sessions]
    /\ requests \in [Helpers -> 0..MaxRequests]

\* Every variable has its type, and a close is about some session.
TypeOK ==
    /\ Types
    /\ \A h \in Helpers :
          pc[h] \in {"close", "closing", "closed", "unbound"} => arg[h] # None

Nobody == [h \in Helpers |-> None]
Unowned == [s \in Sessions |-> None]

Init ==
    /\ made = Stored /\ open = {}
    /\ route = Unowned /\ gate = Unowned /\ cap = Unowned
    /\ row = {} /\ orphans = {}
    /\ conn = [h \in Helpers |-> "up"]
    /\ fenced = {} /\ pending = {} /\ pendingCap = {}
    /\ last = Nobody
    /\ pc = [h \in Helpers |-> "idle"]
    /\ step = Nobody /\ arg = Nobody /\ res = Nobody
    /\ target = Nobody /\ prior = Nobody /\ displaced = Nobody /\ how = Nobody
    /\ todo = [h \in Helpers |-> {}]
    /\ requests = [h \in Helpers |-> 0]

-----------------------------------------------------------------------------
(* Pieces of the transactions. *)

Goto(h, where) == pc' = [pc EXCEPT ![h] = where]

\* The session the transaction replaces, when there is one.
Replaces(h) == prior[h] \notin {None, target[h]}

\* Enter close_and_retire_owned_session for session s.
CallClose(h, s, caller) ==
    /\ Goto(h, "close")
    /\ step' = [step EXCEPT ![h] = caller]
    /\ arg' = [arg EXCEPT ![h] = s]
    /\ res' = [res EXCEPT ![h] = None]

\* The transaction forgets its local state.
ForgetClose(h) ==
    /\ step' = [step EXCEPT ![h] = None]
    /\ arg' = [arg EXCEPT ![h] = None]
    /\ res' = [res EXCEPT ![h] = None]

ForgetLoad(h) ==
    /\ target' = [target EXCEPT ![h] = None]
    /\ prior' = [prior EXCEPT ![h] = None]
    /\ displaced' = [displaced EXCEPT ![h] = None]
    /\ how' = [how EXCEPT ![h] = None]

\* Mutant: the registry row of a retired session is left behind.
RetireExactKeepsRow(s) ==
    /\ route' = [route EXCEPT ![s] = None]
    /\ cap' = [cap EXCEPT ![s] = None]
    /\ UNCHANGED row

\* retire_exact_session_state_gate_held, after the route is removed.
RetireExact(s) ==
    /\ route' = [route EXCEPT ![s] = None]
    /\ cap' = [cap EXCEPT ![s] = None]
    /\ row' = row \ {s}

\* publish_pending_owner, for a helper that is not fenced
Publish(h) == h \notin fenced /\ pending' = pending \cup {h}

\* finish_failed_pending_session
FinishFailed(h) ==
    /\ pending' = pending \ {h}
    /\ pendingCap' = pendingCap \ {h}
    /\ last' = IF h \in fenced THEN [last EXCEPT ![h] = None] ELSE last
    /\ UNCHANGED <<conn, fenced>>

\* ... and the transaction returns.
FailAndReturn(h) ==
    /\ FinishFailed(h)
    /\ Goto(h, "idle") /\ ForgetClose(h) /\ ForgetLoad(h)

\* commit_pending_session, for a helper that is not fenced
Own(h, s) ==
    /\ last' = [last EXCEPT ![h] = s]
    /\ pending' = pending \ {h}

\* A request the replacement gate lets in.
CanStart(h) ==
    /\ pc[h] = "idle" /\ conn[h] # "gone"
    /\ requests[h] < MaxRequests
    /\ requests' = [requests EXCEPT ![h] = @ + 1]

\* publish_pending_owner refuses a fenced helper: session/new and
\* session/load return its error and change nothing.
Refuse(h) ==
    /\ CanStart(h) /\ h \in fenced
    /\ UNCHANGED <<agentVars, tableVars, ownerVars, pc, closeVars, loadVars, todo>>

-----------------------------------------------------------------------------
(* close_and_retire_owned_session *)

CloseGate(h) ==
    /\ pc[h] = "close" /\ gate[arg[h]] = None
    /\ \/ /\ route[arg[h]] = h
          /\ gate' = [gate EXCEPT ![arg[h]] = h]
          /\ Goto(h, "closing") /\ UNCHANGED res
       \/ /\ route[arg[h]] # h
          /\ Goto(h, "closed") /\ res' = [res EXCEPT ![h] = "notOwned"]
          /\ UNCHANGED gate
    /\ UNCHANGED <<agentVars, route, row, cap, orphans, ownerVars, step, arg,
                   loadVars, todo, requests>>

\* The deadline passes while another transaction holds the gate; a
\* session/load may have no time left for its predecessor at all.
CloseGateTimeout(h) ==
    /\ pc[h] = "close"
    /\ gate[arg[h]] # None \/ step[h] = "load"
    /\ Goto(h, "closed") /\ res' = [res EXCEPT ![h] = "error"]
    /\ UNCHANGED <<agentVars, tableVars, ownerVars, step, arg, loadVars, todo,
                   requests>>

\* retire_on_close_failure
Destructive(h) == h \in fenced
                  /\ step[h] \in {"destroyed", "destroyedPrior", "abandon"}

\* The session is closed, or the agent has no session/close, or the close
\* failed and the caller retires the session all the same.  A close that
\* timed out may still have taken effect.
CloseRetires(h) ==
    /\ pc[h] = "closing"
    /\ open' \in {open, open \ {arg[h]}}
    /\ RetireExact(arg[h])
    /\ gate' = [gate EXCEPT ![arg[h]] = None]
    /\ Goto(h, "closed") /\ res' = [res EXCEPT ![h] = "closed"]
    /\ UNCHANGED <<made, orphans, ownerVars, step, arg, loadVars, todo, requests>>

\* Mutant: an error path that leaks the gate.
CloseFailsKeepsGate(h) ==
    /\ pc[h] = "closing"
    /\ Goto(h, "closed") /\ res' = [res EXCEPT ![h] = "error"]
    /\ UNCHANGED <<agentVars, tableVars, ownerVars, step, arg, loadVars, todo,
                   requests>>

\* The close failed or timed out: the route stays.  A destructive close
\* fails only when its time is up before session/close is sent.
CloseFails(h) ==
    /\ pc[h] = "closing"
    /\ open' \in {open, IF Destructive(h) THEN open ELSE open \ {arg[h]}}
    /\ gate' = [gate EXCEPT ![arg[h]] = None]
    /\ Goto(h, "closed") /\ res' = [res EXCEPT ![h] = "error"]
    /\ UNCHANGED <<made, route, row, cap, orphans, ownerVars, step, arg,
                   loadVars, todo, requests>>

\* The caller resumes.
Resumes(h, caller) == pc[h] = "closed" /\ step[h] = caller

-----------------------------------------------------------------------------
(* session/new *)

\* The predecessor is closed first.
NewSession(h) ==
    /\ CanStart(h) /\ Publish(h)
    /\ prior' = [prior EXCEPT ![h] = last[h]]
    /\ \/ /\ last[h] # None
          /\ CallClose(h, last[h], "new")
          /\ UNCHANGED pendingCap
       \/ /\ last[h] = None
          /\ pendingCap' = pendingCap \cup {h}
          /\ Goto(h, "newCall")
          /\ UNCHANGED closeVars
    /\ UNCHANGED <<agentVars, tableVars, conn, fenced, last, target, displaced,
                   how, todo>>

NewPrior(h) ==
    /\ Resumes(h, "new")
    /\ \/ /\ res[h] = "error" /\ FailAndReturn(h)
       \/ /\ res[h] # "error"
          /\ last' = [last EXCEPT ![h] = None]
          /\ pendingCap' = pendingCap \cup {h}
          /\ Goto(h, "newCall")
          /\ ForgetClose(h)
          /\ UNCHANGED <<conn, fenced, pending, loadVars>>
    /\ UNCHANGED <<agentVars, tableVars, todo, requests>>

\* The agent answers session/new with a fresh id: the capability is bound
\* and the route installed; then the helper owns the session, or, when it
\* has been fenced meanwhile, closes it again.
NewReply(h, s) ==
    /\ pc[h] = "newCall" /\ s \notin made
    /\ made' = made \cup {s} /\ open' = open \cup {s}
    /\ route' = [route EXCEPT ![s] = h]
    /\ cap' = [cap EXCEPT ![s] = IF h \in pendingCap THEN h ELSE @]
    /\ pendingCap' = pendingCap \ {h}
    /\ \/ /\ h \in fenced
          /\ CallClose(h, s, "abandon")
          /\ UNCHANGED <<row, last, pending, prior>>
       \/ /\ h \notin fenced
          /\ row' = row \cup {s}
          /\ Own(h, s)
          /\ Goto(h, "idle")
          /\ prior' = [prior EXCEPT ![h] = None]
          /\ UNCHANGED closeVars
    /\ UNCHANGED <<gate, orphans, conn, fenced, target, displaced, how, todo,
                   requests>>

\* The MCP endpoint is unavailable, or session/new fails or times out; when
\* it times out the agent may have created a session nobody will hear of.
NewFails(h) ==
    /\ pc[h] = "newCall"
    /\ \/ UNCHANGED agentVars
       \/ \E s \in Sessions \ made : made' = made \cup {s} /\ open' = open \cup {s}
    /\ FailAndReturn(h)
    /\ UNCHANGED <<tableVars, todo, requests>>

\* After the close of a session that was obtained too late.
Abandoned(h) ==
    /\ Resumes(h, "abandon")
    /\ FinishFailed(h)
    /\ ForgetLoad(h)
    /\ \/ /\ res[h] = "notOwned"
          /\ Goto(h, "unbound") /\ UNCHANGED closeVars
       \/ /\ res[h] # "notOwned"
          /\ Goto(h, "idle") /\ ForgetClose(h)
    /\ UNCHANGED <<agentVars, tableVars, todo, requests>>

\* retire_unbound_session_state
RetireUnbound(h) ==
    /\ pc[h] = "unbound" /\ gate[arg[h]] = None
    /\ IF route[arg[h]] = None THEN RetireExact(arg[h])
                               ELSE UNCHANGED <<route, cap, row>>
    /\ Goto(h, "idle") /\ ForgetClose(h)
    /\ UNCHANGED <<agentVars, gate, orphans, ownerVars, loadVars, todo, requests>>

-----------------------------------------------------------------------------
(* session/load *)

\* The master accepts any session of the agent's history.  The session view
\* of a helper asks for one that is not live elsewhere: on a live one it
\* focuses the pane.  Exclusive says whether helpers keep to that.
MayLoad(h, s) ==
    /\ s \in made
    /\ Exclusive => /\ route[s] \in {None, h}
                    /\ \A g \in Helpers \ {h} : target[g] # s

LoadSession(h, s) ==
    /\ MayLoad(h, s)
    /\ CanStart(h) /\ Publish(h)
    /\ target' = [target EXCEPT ![h] = s]
    /\ prior' = [prior EXCEPT ![h] = last[h]]
    /\ Goto(h, "swap")
    /\ UNCHANGED <<agentVars, tableVars, conn, fenced, pendingCap, last,
                   closeVars, displaced, how, todo>>

\* Once the target is loaded: a helper fenced meanwhile gives it back, any
\* other one closes its predecessor before it commits.
AfterLoad(h) ==
    \/ h \in fenced /\ CallClose(h, target[h], "destroyed")
    \/ h \notin fenced /\ Replaces(h) /\ CallClose(h, prior[h], "load")
    \/ h \notin fenced /\ ~Replaces(h) /\ Goto(h, "commit") /\ UNCHANGED closeVars

\* Mutant: the route is swapped without the session's lifecycle gate.
SwapUngated(h) ==
    /\ pc[h] = "swap"
    /\ displaced' = [displaced EXCEPT ![h] = route[target[h]]]
    /\ route' = [route EXCEPT ![target[h]] = h]
    /\ pendingCap' = pendingCap \cup {h}
    /\ Goto(h, "loadCall")
    /\ UNCHANGED <<agentVars, gate, row, cap, orphans, conn, fenced, pending,
                   last, closeVars, target, prior, how, todo, requests>>

\* Mutant: the orphan stays listed after it is bound again.
SwapKeepsOrphan(h) ==
    /\ pc[h] = "swap" /\ gate[target[h]] = None
    /\ displaced' = [displaced EXCEPT ![h] = route[target[h]]]
    /\ route' = [route EXCEPT ![target[h]] = h]
    /\ \/ /\ target[h] \in orphans
          /\ how' = [how EXCEPT ![h] = "rebound"]
          /\ AfterLoad(h)
          /\ UNCHANGED pendingCap
       \/ /\ target[h] \notin orphans
          /\ pendingCap' = pendingCap \cup {h}
          /\ Goto(h, "loadCall")
          /\ UNCHANGED <<how, closeVars>>
    /\ UNCHANGED <<agentVars, gate, row, cap, orphans, conn, fenced, pending,
                   last, target, prior, todo, requests>>

\* swap_session_route, before the agent is asked; an orphan is bound again
\* without asking.
Swap(h) ==
    /\ pc[h] = "swap" /\ gate[target[h]] = None
    /\ displaced' = [displaced EXCEPT ![h] = route[target[h]]]
    /\ route' = [route EXCEPT ![target[h]] = h]
    /\ orphans' = orphans \ {target[h]}
    /\ \/ /\ target[h] \in orphans
          /\ how' = [how EXCEPT ![h] = "rebound"]
          /\ AfterLoad(h)
          /\ UNCHANGED pendingCap
       \/ /\ target[h] \notin orphans
          /\ pendingCap' = pendingCap \cup {h}
          /\ Goto(h, "loadCall")
          /\ UNCHANGED <<how, closeVars>>
    /\ UNCHANGED <<agentVars, gate, row, cap, conn, fenced, pending, last,
                   target, prior, todo, requests>>

\* The agent loads the session, or answers that it has it loaded already, in
\* which case the new capability is cancelled.
LoadReply(h) ==
    /\ pc[h] = "loadCall"
    /\ \/ /\ how' = [how EXCEPT ![h] = "loaded"]
          /\ open' = open \cup {target[h]}
          /\ pendingCap' = IF h \in fenced THEN pendingCap \ {h} ELSE pendingCap
       \/ /\ target[h] \in open
          /\ how' = [how EXCEPT ![h] = "rebound"]
          /\ pendingCap' = pendingCap \ {h}
          /\ UNCHANGED open
    /\ AfterLoad(h)
    /\ UNCHANGED <<made, tableVars, conn, fenced, pending, last, target, prior,
                   displaced, todo, requests>>

\* The agent refuses or does not answer in time (it may still have loaded
\* the session), or the MCP endpoint is unavailable and it is not asked.
LoadFails(h) ==
    /\ pc[h] = "loadCall"
    /\ \/ /\ how' = [how EXCEPT ![h] = "failed"]
          /\ open' \in {open, open \cup {target[h]}}
       \/ /\ how' = [how EXCEPT ![h] = "refused"]
          /\ UNCHANGED open
    /\ FinishFailed(h)
    /\ Goto(h, "rollback")
    /\ UNCHANGED <<made, tableVars, closeVars, target, prior, displaced, todo,
                   requests>>

LoadPrior(h) ==
    /\ Resumes(h, "load")
    /\ ForgetClose(h)
    /\ \/ /\ res[h] = "error"
          /\ FinishFailed(h) /\ Goto(h, "rollback")
       \/ /\ res[h] # "error"
          /\ Goto(h, "commit") /\ UNCHANGED ownerVars
    /\ UNCHANGED <<agentVars, tableVars, loadVars, todo, requests>>

\* The helper was fenced while the agent loaded the session: both the target
\* and the predecessor are closed.
DestroyedTarget(h) ==
    /\ Resumes(h, "destroyed")
    /\ \/ /\ res[h] # "error" /\ Replaces(h)
          /\ CallClose(h, prior[h], "destroyedPrior")
          /\ UNCHANGED <<ownerVars, loadVars>>
       \/ /\ res[h] = "error" \/ ~Replaces(h)
          /\ FailAndReturn(h)
    /\ UNCHANGED <<agentVars, tableVars, todo, requests>>

DestroyedPrior(h) ==
    /\ Resumes(h, "destroyedPrior")
    /\ FailAndReturn(h)
    /\ UNCHANGED <<agentVars, tableVars, todo, requests>>

\* Mutant: the marker is not read again before the commit.
CommitUnfenced(h) ==
    /\ pc[h] = "commit"
    /\ row' = row \cup {target[h]}
    /\ cap' = [cap EXCEPT ![target[h]] = IF h \in pendingCap THEN h ELSE @]
    /\ pendingCap' = pendingCap \ {h}
    /\ Own(h, target[h])
    /\ Goto(h, "idle") /\ ForgetLoad(h) /\ UNCHANGED closeVars
    /\ UNCHANGED <<agentVars, route, gate, orphans, conn, fenced, todo, requests>>

\* The capability is bound and the row published; then the helper owns the
\* session, or, when it has been fenced meanwhile, gives it back.
Commit(h) ==
    /\ pc[h] = "commit"
    /\ row' = row \cup {target[h]}
    /\ pendingCap' = pendingCap \ {h}
    /\ \/ /\ h \in fenced
          /\ cap' = [cap EXCEPT ![target[h]] = IF h \in pendingCap THEN None ELSE @]
          /\ CallClose(h, target[h], "abandon")
          /\ UNCHANGED <<last, pending, loadVars>>
       \/ /\ h \notin fenced
          /\ cap' = [cap EXCEPT ![target[h]] = IF h \in pendingCap THEN h ELSE @]
          /\ Own(h, target[h])
          /\ Goto(h, "idle") /\ ForgetLoad(h) /\ UNCHANGED closeVars
    /\ UNCHANGED <<agentVars, route, gate, orphans, conn, fenced, todo, requests>>

\* Mutant: the rollback puts the old route back whoever has the session now.
RestoredBlindly(h) == [route EXCEPT ![target[h]] = displaced[h]]

\* What the route of the loaded session is put back to: nothing happens when
\* another helper has taken it meanwhile.
Restored(h) ==
    IF route[target[h]] = h THEN [route EXCEPT ![target[h]] = displaced[h]]
                            ELSE route

\* Mutant: the gate is released before the agent is told to close.
RollbackUngated(h) ==
    /\ pc[h] = "rollback" /\ gate[target[h]] = None
    /\ route' = Restored(h)
    /\ \/ /\ how[h] \in {"loaded", "failed"} /\ Replaces(h)
          /\ route'[target[h]] = None
          /\ Goto(h, "rollbackClose")
          /\ UNCHANGED loadVars
       \/ /\ Goto(h, "idle") /\ ForgetLoad(h)
    /\ UNCHANGED <<agentVars, gate, orphans, row, cap, ownerVars, closeVars,
                   todo, requests>>

\* rollback_and_maybe_close_loaded_target, rollback_orphan_rebind and
\* rollback_swapped_session_route.  A session left without an owner is
\* closed while the gate is still held, if the transaction had a predecessor
\* (else no time is reserved for it), the agent supports it and time is left;
\* one that the agent already had is listed as an orphan.
Rollback(h) ==
    /\ pc[h] = "rollback" /\ gate[target[h]] = None
    /\ route' = Restored(h)
    /\ orphans' = IF /\ how[h] = "rebound"
                     /\ route[target[h]] = h /\ displaced[h] = None
                  THEN orphans \cup {target[h]} ELSE orphans
    /\ \/ /\ how[h] \in {"loaded", "failed"} /\ Replaces(h)
          /\ route'[target[h]] = None
          /\ gate' = [gate EXCEPT ![target[h]] = h]
          /\ Goto(h, "rollbackClose")
          /\ UNCHANGED loadVars
       \/ /\ Goto(h, "idle") /\ ForgetLoad(h)
          /\ UNCHANGED gate
    /\ UNCHANGED <<agentVars, row, cap, ownerVars, closeVars, todo, requests>>

\* best_effort_close_loaded_target
RollbackClosed(h) ==
    /\ pc[h] = "rollbackClose"
    /\ open' \in {open, open \ {target[h]}}
    /\ gate' = [gate EXCEPT ![target[h]] = None]
    /\ Goto(h, "idle") /\ ForgetLoad(h)
    /\ UNCHANGED <<made, route, row, cap, orphans, ownerVars, closeVars, todo,
                   requests>>

-----------------------------------------------------------------------------
(* session/close *)

CloseSession(h, s) ==
    /\ s \in made
    /\ CanStart(h)
    /\ CallClose(h, s, "request")
    /\ UNCHANGED <<agentVars, tableVars, ownerVars, loadVars, todo>>

CloseReturns(h) ==
    /\ Resumes(h, "request")
    /\ last' = IF res[h] = "closed" THEN [last EXCEPT ![h] = None] ELSE last
    /\ Goto(h, "idle") /\ ForgetClose(h)
    /\ UNCHANGED <<agentVars, tableVars, conn, fenced, pending, pendingCap,
                   loadVars, todo, requests>>

-----------------------------------------------------------------------------
(* Disconnect and cleanup_disconnected_helper *)

\* The pipe closes and the helper is fenced.  A handler still running is
\* dropped by the connection's dispatch loop, and with it the gates it
\* holds, or runs on while the cleanup waits for the replacement gate.
Disconnect(h) ==
    /\ conn[h] = "up"
    /\ conn' = [conn EXCEPT ![h] = "lost"]
    /\ fenced' = fenced \cup {h}
    /\ \/ /\ pc[h] # "idle"
          /\ Goto(h, "idle") /\ ForgetClose(h) /\ ForgetLoad(h)
          /\ gate' = [s \in Sessions |-> IF gate[s] = h THEN None ELSE gate[s]]
       \/ UNCHANGED <<gate, pc, closeVars, loadVars>>
    /\ UNCHANGED <<agentVars, route, row, cap, orphans, pending, pendingCap,
                   last, todo, requests>>

Routed(h) == {s \in Sessions : route[s] = h}

\* The cleanup has the replacement gate.
Cleanup(h) ==
    /\ conn[h] = "lost" /\ pc[h] = "idle"
    /\ todo' = [todo EXCEPT ![h] = Routed(h)]
    /\ Goto(h, "cleanup")
    /\ UNCHANGED <<agentVars, tableVars, ownerVars, closeVars, loadVars, requests>>

CleanupNext(h) ==
    /\ pc[h] = "cleanup"
    /\ \E s \in todo[h] :
          /\ CallClose(h, s, "cleanup")
          /\ todo' = [todo EXCEPT ![h] = @ \ {s}]
    /\ UNCHANGED <<agentVars, tableVars, ownerVars, loadVars, requests>>

\* A failed close is only logged.
CleanupClosed(h) ==
    /\ Resumes(h, "cleanup")
    /\ Goto(h, "cleanup") /\ ForgetClose(h)
    /\ UNCHANGED <<agentVars, tableVars, ownerVars, loadVars, todo, requests>>

\* drop_sessions_for_helper lists what is left ...
CleanupDrop(h) ==
    /\ pc[h] = "cleanup" /\ todo[h] = {}
    /\ todo' = [todo EXCEPT ![h] = Routed(h)]
    /\ Goto(h, "drop")
    /\ UNCHANGED <<agentVars, tableVars, ownerVars, closeVars, loadVars, requests>>

\* ... and retires each under its gate if it is still the helper's.
Drop(h) ==
    /\ pc[h] = "drop"
    /\ \E s \in todo[h] :
          /\ gate[s] = None
          /\ IF route[s] = h THEN RetireExact(s) ELSE UNCHANGED <<route, cap, row>>
          /\ todo' = [todo EXCEPT ![h] = @ \ {s}]
    /\ UNCHANGED <<agentVars, gate, orphans, ownerVars, pc, closeVars, loadVars,
                   requests>>

\* Mutant: the pending capability is forgotten.
CleanupKeepsCapability(h) ==
    /\ pc[h] = "drop" /\ todo[h] = {}
    /\ conn' = [conn EXCEPT ![h] = "gone"]
    /\ fenced' = fenced \ {h} /\ pending' = pending \ {h}
    /\ last' = [last EXCEPT ![h] = None]
    /\ Goto(h, "gone")
    /\ UNCHANGED <<agentVars, tableVars, pendingCap, closeVars, loadVars, todo,
                   requests>>

\* consume_disconnected_helper_retirement_state
CleanupDone(h) ==
    /\ pc[h] = "drop" /\ todo[h] = {}
    /\ conn' = [conn EXCEPT ![h] = "gone"]
    /\ fenced' = fenced \ {h} /\ pending' = pending \ {h}
    /\ pendingCap' = pendingCap \ {h}
    /\ last' = [last EXCEPT ![h] = None]
    /\ Goto(h, "gone")
    /\ UNCHANGED <<agentVars, tableVars, closeVars, loadVars, todo, requests>>

-----------------------------------------------------------------------------

\* The steps of a helper's transaction or cleanup once it has begun: each
\* waits for a gate, whose holders wait only for a bounded RPC, or for an
\* RPC that is bounded by a timeout.
Work(h) ==
    \/ CloseGate(h) \/ CloseGateTimeout(h) \/ CloseRetires(h) \/ CloseFails(h)
    \/ NewPrior(h) \/ NewFails(h) \/ Abandoned(h) \/ RetireUnbound(h)
    \/ \E s \in Sessions : NewReply(h, s)
    \/ Swap(h) \/ LoadReply(h) \/ LoadFails(h) \/ LoadPrior(h)
    \/ DestroyedTarget(h) \/ DestroyedPrior(h) \/ Commit(h)
    \/ Rollback(h) \/ RollbackClosed(h) \/ CloseReturns(h)
    \/ Cleanup(h) \/ CleanupNext(h) \/ CleanupClosed(h) \/ CleanupDrop(h)
    \/ Drop(h) \/ CleanupDone(h)

\* The helper's task can run now: it waits neither for the agent nor for a
\* gate.  The runtime is single-threaded and the locks of the master state
\* are never held across an await, so a task that can run is not interrupted.
Running(h) ==
    \/ pc[h] \in {"closed", "commit", "cleanup"}
    \/ pc[h] \in {"close", "unbound"} /\ gate[arg[h]] = None
    \/ pc[h] \in {"swap", "rollback"} /\ gate[target[h]] = None
    \/ pc[h] = "drop" /\ (todo[h] = {} \/ \E s \in todo[h] : gate[s] = None)

Turn(h) == Running(h) \/ \A g \in Helpers : ~Running(g)

Request(h) ==
    \/ NewSession(h) \/ Refuse(h)
    \/ \E s \in Sessions : LoadSession(h, s) \/ CloseSession(h, s)

Next ==
    \E h \in Helpers :
        \/ Turn(h) /\ Work(h)
        \/ (\A g \in Helpers : ~Running(g)) /\ (Request(h) \/ Disconnect(h))

Spec == Init /\ [][Next]_vars

FairSpec == Spec /\ \A h \in Helpers : WF_vars(Turn(h) /\ Work(h))

-----------------------------------------------------------------------------
(* Properties *)

\* The assertion of close_and_retire_owned_session, "session route cannot
\* change while its lifecycle gate is held": when the agent answers the
\* close, the helper still owns the session.
RouteHeldWhileClosing ==
    \A h \in Helpers : pc[h] = "closing" => route[arg[h]] = h

\* Whoever's transaction or cleanup a step belongs to, it takes a session
\* from a helper only if it is that helper's own, or a session/load by the
\* helper that gets the session: a rollback or a cleanup that runs late
\* leaves the session with its present owner.
TakenByOwnerOrLoad ==
    \A s \in Sessions : \A g \in Helpers :
        (route[s] = g /\ route'[s] # g) =>
            \/ pc[g] \in {"closing", "rollback", "drop"}
               /\ <<pc[g], todo[g]>>' # <<pc[g], todo[g]>>
            \/ \E h \in Helpers : pc[h] = "swap" /\ route'[s] = h
LateCleanupHarmless == [][TakenByOwnerOrLoad]_vars

\* The agent closes a session only while nobody owns it or for the helper
\* that owns it: the safety check of a rollback cannot be overtaken by a
\* helper that binds the session again before the close is sent.
ClosesOwnOrOwnerless ==
    \A s \in open \ open' :
        route[s] = None \/ (pc[route[s]] = "closing" /\ arg[route[s]] = s)
ClosedForItsOwner == [][ClosesOwnOrOwnerless]_vars

\* Once fenced by a disconnect, a helper never becomes the owner of a session
\* by a commit, whatever was in flight and whatever was queued.
FencedGainsNothing == \A h \in fenced : last'[h] \in {last[h], None}
FencedNeverCommits == [][FencedGainsNothing]_vars

\* An orphan can be bound again without asking the agent: the agent holds
\* every session listed as an orphan.
OrphanIsOpen == orphans \subseteq open

\* When a helper's cleanup is over nothing is left of it: no route, no
\* transaction, no capability in preparation.
NothingOutlivesHelper ==
    \A h \in Helpers : conn[h] = "gone" =>
        /\ \A s \in Sessions : route[s] # h
        /\ h \notin pending \cup pendingCap \cup fenced
        /\ last[h] = None

\* The tables that describe a session agree: it has a live row in the registry,
\* or a capability, only while some helper owns it, and between transactions a
\* helper that is not fenced owns the session it last committed, also when the
\* close of its predecessor or the call after it failed.
TablesAgree ==
    /\ \A s \in Sessions : s \in row \/ cap[s] # None => route[s] # None
    /\ \A h \in Helpers :
          pc[h] \in {"idle", "swap", "loadCall", "newCall"} /\ last[h] # None
            /\ h \notin fenced
          => route[last[h]] = h /\ last[h] \in row

\* Every request is answered, and every disconnected helper is cleaned up.
TransactionsEnd ==
    \A h \in Helpers : pc[h] # "idle" ~> pc[h] \in {"idle", "gone"}
CleanupEnds ==
    \A h \in Helpers : conn[h] = "lost" ~> conn[h] = "gone"

=============================================================================
