---------------------------- MODULE TabRetirement ----------------------------
(***************************************************************************)
(* Tab retirement in wta-master (tools/wta/src/master/mod.rs).  Windows    *)
(* Terminal retires the agent sessions of a tab, or of all tabs, before it *)
(* tears their panes down, and goes on when the master reports the         *)
(* operation complete.  The master fences the tab's helper so that a       *)
(* session transaction that is in flight cannot commit, closes what the    *)
(* helper owns, and keeps the fence until that helper has disconnected.    *)
(* The same tables are changed by close-by-tab and reset requests, by a    *)
(* drag that gives a tab a new id, and by helpers that come and go.        *)
(*                                                                         *)
(* A step is what the code does between two points at which it waits: for  *)
(* a session's lifecycle gate, for the agent, or for the helper's          *)
(* transaction.  tab_ownership_gate is never held across such a wait.      *)
(* Session <<h, n>> is the one request number n of helper h created;       *)
(* session/load and the helper's own session/close are in SessionRouting.  *)
(***************************************************************************)
EXTENDS Naturals, FiniteSets

CONSTANTS
    Helpers,      \* helper connections
    Tabs,         \* stable tab ids
    TabOps,       \* retire_agent_sessions, scope "tabs", one tab each
    AllOps,       \* retire_agent_sessions, scope "all"
    CloseOps,     \* CloseTabSession requests
    ResetOps,     \* reset_tab_session events
    Renames,      \* TRUE if tabs are dragged to another window
    Lagging,      \* TRUE if a helper may learn of a rename after the master
    Overlap,      \* TRUE if a tab may have two owners, see Connect
    Cap,          \* OWNERLESS_RETIREMENT_TARGET_CAP
    MaxRequests,  \* bound: session/new requests a helper sends
    MaxOps,       \* bound: operations begun
    None          \* stands for an absent helper, tab or fence

Ops == TabOps \cup AllOps \cup CloseOps \cup ResetOps
Destructive == TabOps \cup AllOps

Fences == [phase : {"Fencing", "CompletedAwaitingDisconnect"}, ops : Nat,
           out : SUBSET Helpers]

ASSUME RetirementAssumption ==
    /\ Renames \in BOOLEAN /\ Lagging \in BOOLEAN /\ Overlap \in BOOLEAN
    /\ Cap \in Nat /\ MaxRequests \in Nat /\ MaxOps \in Nat
    /\ None \notin Helpers \cup Tabs \cup Ops \cup Fences
    /\ Helpers \cap Ops = {}
    /\ IsFiniteSet(Tabs) /\ IsFiniteSet(Ops)

\* A request is of one kind.
ASSUME KindsDistinct ==
    /\ TabOps \cap AllOps = {} /\ TabOps \cap CloseOps = {} /\ TabOps \cap ResetOps = {}
    /\ AllOps \cap CloseOps = {} /\ AllOps \cap ResetOps = {} /\ CloseOps \cap ResetOps = {}

Sessions == Helpers \X (1..MaxRequests)

VARIABLES
    conn,        \* the helper's pipe
    tabOf,       \* the tab the helper's pane is in
    home,        \* the tab the helper believes it is in
    dragged,     \* tab ids given up by a drag
    pend,        \* pending_session_helpers
    owner,       \* HelperRecoveryMeta.owner_tab_id
    last,        \* HelperRecoveryMeta.last_session_id, 0 if there is none
    closing,     \* closing_session_helpers
    destructive, \* destructive_session_helpers
    active,      \* active_retirement_helpers
    late,        \* helpers with a LogicalFallback in closing_session_results
    unresolved,  \* unresolved_owner_retirements: target sets ...
    denied,      \* ... and the helpers at DenyNextOwner
    pc,          \* where the helper's transaction or disconnect cleanup is
    work,        \* the session it is closing, 0 if none
    hard,        \* helpers whose late close is a destructive one
    requests,    \* session/new requests the helper has sent
    routed,      \* sessions in session_to_helper
    gate,        \* holder of the session's lifecycle gate
    fence,       \* tab_retirement_fences
    rekeys,      \* tab_retirement_rekeys
    allOps,      \* AllRetirementFence.active_operations
    allOut,      \* AllRetirementFence.outgoing_helpers
    status,      \* retirement_operations, and the other requests
    tab,         \* the tab a request names
    job,         \* how far the operation is with closing a session
    todo,        \* helpers the operation has still to force-clean
    done,        \* scope "all": processed_helpers
    deferred,    \* requests that found the helper's transaction pending
    ok,          \* operations without a LogicalFallback so far
    hit,         \* history: helpers in the tabs an operation retires
    closed       \* history: helpers a close or reset request found

paneVars == <<tabOf, home, dragged>>
metaVars == <<owner, last>>
markVars == <<closing, destructive, active, late>>
safeVars == <<unresolved, denied>>
txVars   == <<pc, work, hard, requests>>
sessVars == <<routed, gate>>
allVars  == <<allOps, allOut>>
opVars   == <<status, tab, job, todo, done, deferred, ok>>
histVars == <<hit, closed>>
vars == <<conn, paneVars, pend, metaVars, markVars, safeVars, txVars, sessVars, fence,
          rekeys, allVars, opVars, histVars>>

TypeOK ==
    /\ conn \in [Helpers -> {"absent", "up", "lost", "gone"}]
    /\ tabOf \in [Helpers -> Tabs \cup {None}] /\ home \in [Helpers -> Tabs \cup {None}]
    /\ dragged \subseteq Tabs
    /\ pend \in [Helpers -> Tabs \cup {None}]
    /\ owner \in [Helpers -> Tabs \cup {None}] /\ last \in [Helpers -> 0..MaxRequests]
    /\ closing \subseteq Helpers /\ destructive \subseteq Helpers
    /\ active \subseteq Helpers /\ late \subseteq Helpers
    /\ unresolved \in [Helpers -> SUBSET Tabs] /\ denied \subseteq Helpers
    /\ pc \in [Helpers -> {"idle", "priorGate", "priorAgent", "call", "lateGate",
                           "lateAgent", "cleanAgent"}]
    /\ work \in [Helpers -> 0..MaxRequests] /\ hard \subseteq Helpers
    /\ requests \in [Helpers -> 0..MaxRequests]
    /\ routed \subseteq Sessions /\ gate \in [Sessions -> Helpers \cup Ops \cup {None}]
    /\ fence \in [Tabs -> Fences \cup {None}]
    /\ rekeys \in [Tabs -> Tabs \cup {None}]
    /\ allOps \in Nat /\ allOut \subseteq Helpers
    /\ status \in [Ops -> {"none", "fenced", "running", "completed"}]
    /\ tab \in [Ops -> Tabs \cup {None}]
    /\ job \in [Ops -> [Sessions -> {"none", "restore", "gate", "agent"}]]
    /\ todo \in [Ops -> SUBSET Helpers] /\ done \in [Ops -> SUBSET Helpers]
    /\ deferred \subseteq Ops /\ ok \subseteq Ops
    /\ hit \in [Ops -> SUBSET Helpers] /\ closed \subseteq Helpers

Init ==
    /\ conn = [h \in Helpers |-> "absent"]
    /\ tabOf = [h \in Helpers |-> None] /\ home = tabOf /\ dragged = {}
    /\ pend = tabOf /\ owner = tabOf /\ last = [h \in Helpers |-> 0]
    /\ closing = {} /\ destructive = {} /\ active = {} /\ late = {}
    /\ unresolved = [h \in Helpers |-> {}] /\ denied = {}
    /\ pc = [h \in Helpers |-> "idle"] /\ work = last /\ hard = {} /\ requests = last
    /\ routed = {} /\ gate = [s \in Sessions |-> None]
    /\ fence = [t \in Tabs |-> None] /\ rekeys = fence
    /\ allOps = 0 /\ allOut = {}
    /\ status = [o \in Ops |-> "none"] /\ tab = [o \in Ops |-> None]
    /\ job = [o \in Ops |-> [s \in Sessions |-> "none"]]
    /\ todo = [o \in Ops |-> {}] /\ done = todo /\ deferred = {} /\ ok = {}
    /\ hit = todo /\ closed = {}

-----------------------------------------------------------------------------
(* The tables, as the operations read them. *)

Connected == {h \in Helpers : conn[h] \in {"up", "lost"}}
Routed(h) == {s \in routed : s[1] = h}
Doomed == UNION {hit[o] : o \in Ops}

\* The tab a helper has published as its owner.
Published(h) == IF pend[h] # None THEN pend[h] ELSE owner[h]

\* Mutant: aliases are not followed.
ResolveIgnoresDrag(t) == t

\* resolve_tab_retirement_id
ResolveIn(k, t) ==
    LET at[i \in 0..Cardinality(Tabs)] ==
            IF i = 0 THEN t
            ELSE IF k[at[i - 1]] = None THEN at[i - 1] ELSE k[at[i - 1]]
    IN  at[Cardinality(Tabs)]
Resolve(t) == ResolveIn(rekeys, t)

\* The helpers a tab id resolves to: recovery metadata first, then the
\* transactions in flight.
OwnersOf(t) ==
    LET recorded == {h \in Helpers : owner[h] = t}
    IN  IF recorded # {} THEN recorded ELSE {h \in Helpers : pend[h] = t}

\* OwnerlessRetirementSafety::record overflows to DenyNextOwner.
Overflows(h, t) == t \notin unresolved[h] /\ Cardinality(unresolved[h]) = Cap

\* Mutant: the targets of the safety record are not consulted.
RejectsOnlyDenied(h, t) == h \in denied

\* OwnerlessRetirementSafety::rejects
Rejects(h, t) == h \in denied \/ t \in unresolved[h]

Fencing(t) == fence[t] # None /\ fence[t].phase = "Fencing"

\* Mutant: a completed fence refuses the replacement helper too.
FencedOutForAll(h, t) == fence[t] # None

\* The fence of a tab refuses the helper.
FencedOut(h, t) == fence[t] # None /\ (Fencing(t) \/ h \in fence[t].out)

\* tab_retirement_fences.retain after h left the fences of the tabs ts.
FencesWithout(h, ts) ==
    [t \in Tabs |->
        IF fence[t] = None THEN None
        ELSE LET f == IF t \in ts THEN [fence[t] EXCEPT !.out = @ \ {h}] ELSE fence[t]
             IN  IF f.phase = "Fencing" \/ f.out # {} THEN f ELSE None]

\* WT events are handled one at a time; a reset is awaited by that loop.
EventLoopFree == \A o \in ResetOps : status[o] # "running"

Goto(h, where) == pc' = [pc EXCEPT ![h] = where]
Free(s) == [gate EXCEPT ![s] = None]
ForgetMeta(h) == /\ owner' = [owner EXCEPT ![h] = None]
                 /\ last' = [last EXCEPT ![h] = 0]

-----------------------------------------------------------------------------
(* Helpers connect, and request sessions. *)

\* register_connected_helper.  Windows Terminal starts a helper for a tab that
\* has none, or only helpers whose retirement it has seen complete.  With
\* Overlap the master may still be cleaning up after the tab's last helper.
Connect(h, t) ==
    /\ conn[h] = "absent" /\ t \notin dragged
    /\ \A g \in Helpers : tabOf[g] = t /\ conn[g] = "up" => g \in Doomed
    /\ Overlap \/ \A g \in Helpers : t \notin {owner[g], pend[g]}
    /\ \A o \in TabOps : status[o] \in {"fenced", "running"} => Resolve(tab[o]) # t
    /\ conn' = [conn EXCEPT ![h] = "up"]
    /\ tabOf' = [tabOf EXCEPT ![h] = t] /\ home' = [home EXCEPT ![h] = t]
    /\ IF allOps = 0 THEN UNCHANGED <<allOut, closing, destructive, active>>
       ELSE /\ allOut' = allOut \cup {h}
            /\ closing' = closing \cup {h} /\ destructive' = destructive \cup {h}
            /\ active' = active \cup {h}
    /\ hit' = [o \in Ops |-> IF o \in AllOps /\ status[o] = "running"
                             THEN hit[o] \cup {h} ELSE hit[o]]
    /\ UNCHANGED <<dragged, pend, metaVars, late, safeVars, txVars, sessVars, fence, rekeys,
                   allOps, opVars, closed>>

\* publish_pending_owner, then the part of session/new before its first wait.
NewSession(h) ==
    LET t == home[h]
        swept == FencesWithout(h, {u \in Tabs \ {t} : ~ Fencing(u)})
        fenced == swept[t] # None /\ FencedOut(h, t)
    IN  /\ conn[h] = "up" /\ pc[h] = "idle" /\ requests[h] < MaxRequests
        /\ requests' = [requests EXCEPT ![h] = @ + 1]
        /\ unresolved' = [unresolved EXCEPT ![h] = {}]
        /\ denied' = denied \ {h}
        /\ fence' = [swept EXCEPT ![t] = IF fenced THEN [swept[t] EXCEPT !.out = @ \cup {h}]
                                         ELSE None]
        /\ IF h \in closing \cup destructive \/ fenced \/ Rejects(h, t)
           THEN /\ closing' = closing \cup {h} /\ destructive' = destructive \cup {h}
                /\ UNCHANGED <<pend, owner, pc, work>>
           ELSE /\ pend' = [pend EXCEPT ![h] = t]
                /\ owner' = [owner EXCEPT ![h] = t]
                /\ Goto(h, IF last[h] = 0 THEN "call" ELSE "priorGate")
                /\ work' = [work EXCEPT ![h] = last[h]]
                /\ UNCHANGED <<closing, destructive>>
        /\ UNCHANGED <<conn, paneVars, last, active, late, hard, sessVars, rekeys, allVars,
                       opVars, histVars>>

\* finish_failed_pending_session
FinishFailed(h) ==
    /\ pend' = [pend EXCEPT ![h] = None]
    /\ closing' = IF h \in destructive THEN closing ELSE closing \ {h}
    /\ IF h \in closing THEN ForgetMeta(h) ELSE UNCHANGED <<owner, last>>
    /\ Goto(h, "idle")
    /\ work' = [work EXCEPT ![h] = 0]

\* The predecessor's recorded id is cleared once it is retired.
ForgetPrior(h) == last' = [last EXCEPT ![h] = IF @ = work[h] THEN 0 ELSE @]

\* session/new closes its predecessor: wait for the gate, check the route.
PriorGate(h) ==
    /\ pc[h] = "priorGate" /\ gate[<<h, work[h]>>] = None
    /\ IF <<h, work[h]>> \in routed
       THEN /\ gate' = [gate EXCEPT ![<<h, work[h]>>] = h]
            /\ Goto(h, "priorAgent")
            /\ UNCHANGED last
       ELSE /\ ForgetPrior(h)
            /\ Goto(h, "call")
            /\ UNCHANGED gate
    /\ UNCHANGED <<conn, paneVars, pend, owner, markVars, safeVars, work, hard, requests,
                   routed, fence, rekeys, allVars, opVars, histVars>>

\* The predecessor is closed.
PriorClosed(h) ==
    /\ pc[h] = "priorAgent"
    /\ routed' = routed \ {<<h, work[h]>>}
    /\ gate' = Free(<<h, work[h]>>)
    /\ ForgetPrior(h)
    /\ Goto(h, "call")
    /\ UNCHANGED <<conn, paneVars, pend, owner, markVars, safeVars, work, hard, requests,
                   fence, rekeys, allVars, opVars, histVars>>

\* The predecessor's close fails, or its gate is not free in time, or the
\* agent does not create the session.
NewFails(h) ==
    /\ \/ pc[h] = "priorGate" /\ gate[<<h, work[h]>>] # None /\ UNCHANGED gate
       \/ pc[h] = "priorAgent" /\ gate' = Free(<<h, work[h]>>)
       \/ pc[h] = "call" /\ UNCHANGED gate
    /\ FinishFailed(h)
    /\ UNCHANGED <<conn, paneVars, destructive, active, late, safeVars, hard, requests, routed,
                   fence, rekeys, allVars, opVars, histVars>>

\* Mutant: the markers are not read again before the commit.
MayCommitFenceOnly(h) == pend[h] # None => ~ FencedOut(h, pend[h])

\* commit_pending_session's check.
MayCommit(h) ==
    /\ h \notin closing \cup destructive
    /\ pend[h] # None => ~ FencedOut(h, pend[h])

\* The agent creates the session: its route is installed, and the transaction
\* commits, or goes on to close the session again.  Once the pipe is lost the
\* forwarder may be gone, and that close is an ordinary one.
NewReply(h) ==
    /\ pc[h] = "call"
    /\ routed' = routed \cup {<<h, requests[h]>>}
    /\ IF MayCommit(h)
       THEN /\ owner' = [owner EXCEPT ![h] = IF pend[h] = None THEN @ ELSE pend[h]]
            /\ last' = [last EXCEPT ![h] = requests[h]]
            /\ pend' = [pend EXCEPT ![h] = None]
            /\ Goto(h, "idle")
            /\ work' = [work EXCEPT ![h] = 0]
            /\ UNCHANGED hard
       ELSE /\ Goto(h, "lateGate")
            /\ work' = [work EXCEPT ![h] = requests[h]]
            /\ \/ h \in destructive /\ hard' = hard \cup {h}
               \/ (h \notin destructive \/ conn[h] = "lost") /\ hard' = hard \ {h}
            /\ UNCHANGED <<owner, last, pend>>
    /\ UNCHANGED <<conn, paneVars, markVars, safeVars, requests, gate, fence, rekeys, allVars,
                   opVars, histVars>>

\* close_session_for_destroyed_tab: wait for the gate, check the route.
LateGate(h) ==
    /\ pc[h] = "lateGate" /\ gate[<<h, work[h]>>] = None
    /\ IF <<h, work[h]>> \in routed
       THEN /\ gate' = [gate EXCEPT ![<<h, work[h]>>] = h]
            /\ Goto(h, "lateAgent")
            /\ UNCHANGED <<pend, closing, owner, last, work>>
       ELSE /\ FinishFailed(h)
            /\ UNCHANGED gate
    /\ UNCHANGED <<conn, paneVars, destructive, active, late, safeVars, hard, requests, routed,
                   fence, rekeys, allVars, opVars, histVars>>

\* ... its outcome.  A destructive close retires the route when the agent
\* refuses; a failed one leaves it, for a retirement or the disconnect.
LateClosed(h) ==
    /\ \/ pc[h] = "lateAgent" /\ gate' = Free(<<h, work[h]>>)
       \/ pc[h] = "lateGate" /\ gate[<<h, work[h]>>] # None /\ UNCHANGED gate
    /\ \E outcome \in IF pc[h] = "lateGate" THEN {"error"} ELSE {"closed", "logical", "error"} :
          /\ routed' = IF outcome = "error" THEN routed ELSE routed \ {<<h, work[h]>>}
          /\ late' = IF outcome # "closed" /\ h \in hard \cap active
                     THEN late \cup {h} ELSE late
    /\ FinishFailed(h)
    /\ UNCHANGED <<conn, paneVars, destructive, active, safeVars, hard, requests, fence,
                   rekeys, allVars, opVars, histVars>>

-----------------------------------------------------------------------------
(* A helper disconnects: cleanup_disconnected_helper. *)

\* Mutant: the dropped transaction leaks the gate it holds.
DisconnectLeaksGate(h) ==
    /\ conn[h] = "up"
    /\ conn' = [conn EXCEPT ![h] = "lost"]
    /\ closing' = closing \cup {h} /\ destructive' = destructive \cup {h}
    /\ Goto(h, "idle")
    /\ work' = [work EXCEPT ![h] = 0]
    /\ UNCHANGED <<paneVars, pend, metaVars, active, late, safeVars, hard, requests, sessVars,
                   fence, rekeys, allVars, opVars, histVars>>

\* Both markers are set; the transaction in flight is dropped with the gate it
\* holds, or runs on.
Disconnect(h) ==
    /\ conn[h] = "up"
    /\ conn' = [conn EXCEPT ![h] = "lost"]
    /\ closing' = closing \cup {h} /\ destructive' = destructive \cup {h}
    /\ \/ UNCHANGED <<pc, work, gate>>
       \/ /\ pc[h] # "idle"
          /\ Goto(h, "idle")
          /\ work' = [work EXCEPT ![h] = 0]
          /\ gate' = [s \in Sessions |-> IF gate[s] = h THEN None ELSE gate[s]]
    /\ UNCHANGED <<paneVars, pend, metaVars, active, late, safeVars, hard, requests, routed,
                   fence, rekeys, allVars, opVars, histVars>>

\* One owned session after the other is closed.  Where the agent does not
\* close it, drop_sessions_for_helper retires the route under the same gate.
CleanupGate(h) ==
    /\ conn[h] = "lost" /\ pc[h] = "idle"
    /\ \E s \in Routed(h) :
          /\ gate[s] = None
          /\ gate' = [gate EXCEPT ![s] = h]
          /\ work' = [work EXCEPT ![h] = s[2]]
    /\ Goto(h, "cleanAgent")
    /\ UNCHANGED <<conn, paneVars, pend, metaVars, markVars, safeVars, hard, requests, routed,
                   fence, rekeys, allVars, opVars, histVars>>

CleanupClosed(h) ==
    /\ pc[h] = "cleanAgent"
    /\ gate' = Free(<<h, work[h]>>)
    /\ routed' = routed \ {<<h, work[h]>>}
    /\ Goto(h, "idle")
    /\ work' = [work EXCEPT ![h] = 0]
    /\ UNCHANGED <<conn, paneVars, pend, metaVars, markVars, safeVars, hard, requests, fence,
                   rekeys, allVars, opVars, histVars>>

\* consume_disconnected_helper_retirement_state removes every trace.
Gone(h) ==
    /\ conn[h] = "lost" /\ pc[h] = "idle" /\ Routed(h) = {}
    /\ conn' = [conn EXCEPT ![h] = "gone"]
    /\ pend' = [pend EXCEPT ![h] = None]
    /\ closing' = closing \ {h} /\ destructive' = destructive \ {h}
    /\ active' = active \ {h} /\ late' = late \ {h}
    /\ unresolved' = [unresolved EXCEPT ![h] = {}] /\ denied' = denied \ {h}
    /\ fence' = FencesWithout(h, Tabs)
    /\ ForgetMeta(h)
    /\ UNCHANGED <<paneVars, txVars, sessVars, rekeys, allVars, opVars, histVars>>

-----------------------------------------------------------------------------
(* A drag gives a tab a new id: the tab_renamed event. *)

\* Owners, transactions, unresolved targets and the fence move to the new id;
\* the running operations of a moved fence find it through tab_retirement_rekeys.
\* The new id is a fresh GUID: nothing is known under it yet.
Rename(t, u) ==
    /\ Renames /\ EventLoopFree
    /\ \E h \in Helpers : tabOf[h] = t /\ conn[h] = "up"
    /\ u \notin dragged /\ \A h \in Helpers : tabOf[h] # u
    /\ \A o \in Ops : tab[o] # u
    /\ dragged' = dragged \cup {t}
    /\ tabOf' = [h \in Helpers |-> IF tabOf[h] = t THEN u ELSE tabOf[h]]
    /\ home' = IF Lagging THEN home ELSE [h \in Helpers |-> IF home[h] = t THEN u ELSE home[h]]
    /\ owner' = [h \in Helpers |-> IF owner[h] = t THEN u ELSE owner[h]]
    /\ pend' = [h \in Helpers |-> IF pend[h] = t THEN u ELSE pend[h]]
    /\ unresolved' = [h \in Helpers |-> IF t \in unresolved[h]
                                        THEN (unresolved[h] \ {t}) \cup {u} ELSE unresolved[h]]
    /\ fence' = [fence EXCEPT ![u] = fence[t], ![t] = None]
    /\ rekeys' = IF fence[t] = None \/ fence[t].ops = 0 THEN rekeys
                 ELSE [a \in Tabs |-> IF a = t \/ (rekeys[a] # None /\ Resolve(a) = t)
                                      THEN u ELSE rekeys[a]]
    /\ UNCHANGED <<conn, last, markVars, denied, txVars, sessVars, allVars, opVars, histVars>>

\* The helper handles the same event.
LearnRename(h) ==
    /\ conn[h] = "up" /\ home[h] # tabOf[h]
    /\ home' = [home EXCEPT ![h] = tabOf[h]]
    /\ UNCHANGED <<conn, tabOf, dragged, pend, metaVars, markVars, safeVars, txVars, sessVars,
                   fence, rekeys, allVars, opVars, histVars>>

-----------------------------------------------------------------------------
(* Retirement of one tab. *)

\* An operation that has not begun, within the bound.
MayBegin(o) ==
    status[o] = "none" /\ Cardinality({p \in Ops : status[p] # "none"}) < MaxOps

\* A new operation id (handle_retire_agent_sessions_event: one that is known
\* starts nothing), then begin_tab_retirement.
RetireTab(o, t) ==
    LET ownerless == {h \in Connected : Published(h) = None}
        full == {h \in ownerless : Overflows(h, t)}
        old == IF fence[t] = None THEN [phase |-> "Fencing", ops |-> 0, out |-> {}] ELSE fence[t]
        fenceWith(out) == [fence EXCEPT ![t] = [phase |-> "Fencing", ops |-> old.ops + 1,
                                                out |-> out]]
    IN  /\ o \in TabOps /\ MayBegin(o) /\ EventLoopFree /\ t \notin dragged
        /\ status' = [status EXCEPT ![o] = "fenced"]
        /\ tab' = [tab EXCEPT ![o] = t]
        /\ ok' = ok \cup {o}
        /\ denied' = denied \cup full
        /\ unresolved' = [h \in Helpers |->
                             IF h \in full THEN {}
                             ELSE IF h \in ownerless \ denied THEN unresolved[h] \cup {t}
                             ELSE unresolved[h]]
        /\ \/ /\ OwnersOf(t) = {}
              /\ fence' = fenceWith(old.out \cup {h \in Connected : Published(h) = t})
              /\ UNCHANGED <<closing, destructive, active, todo>>
           \/ \E h \in OwnersOf(t) :
                 /\ fence' = fenceWith({h})
                 /\ closing' = closing \cup {h} /\ destructive' = destructive \cup {h}
                 /\ active' = active \cup {h}
                 /\ todo' = [todo EXCEPT ![o] = {h}]
        /\ hit' = [hit EXCEPT ![o] = {h \in Connected : tabOf[h] = t}]
        /\ UNCHANGED <<conn, paneVars, pend, metaVars, late, txVars, sessVars, rekeys, allVars,
                       job, done, deferred, closed>>

\* The request is answered, or goes on to its next part.
Ended(o) == IF o \in Destructive THEN "running" ELSE "completed"

\* retire_tab_session up to its first wait: find the helper that owns the tab,
\* mark it, and find its session.
FindSession(o, t) ==
    /\ tab' = [tab EXCEPT ![o] = t]
    /\ \/ /\ OwnersOf(Resolve(t)) = {}
          /\ status' = [status EXCEPT ![o] = Ended(o)]
          /\ UNCHANGED <<metaVars, closing, job, deferred, closed>>
       \/ \E h \in OwnersOf(Resolve(t)) :
             LET live == IF owner[h] = Resolve(t) /\ last[h] # 0
                         THEN Routed(h) \cap {<<h, last[h]>>} ELSE Routed(h)
             IN  /\ closed' = IF o \in Destructive THEN closed ELSE closed \cup {h}
                 /\ deferred' = IF pend[h] # None THEN deferred \cup {o} ELSE deferred
                 /\ \/ /\ live = {}
                       /\ status' = [status EXCEPT ![o] = Ended(o)]
                       /\ IF o \notin Destructive /\ pend[h] = None /\ h \notin closing
                          THEN ForgetMeta(h) /\ UNCHANGED closing
                          ELSE closing' = closing \cup {h} /\ UNCHANGED metaVars
                       /\ UNCHANGED job
                    \/ \E s \in live :
                          /\ status' = [status EXCEPT ![o] = "running"]
                          /\ job' = [job EXCEPT ![o][s] = "gate"]
                          /\ closing' = closing \cup {h}
                          /\ UNCHANGED metaVars
    /\ UNCHANGED <<conn, paneVars, pend, destructive, active, late, safeVars, txVars, sessVars,
                   fence, rekeys, allVars, todo, done, ok, hit>>

\* retire_tab_session for a fenced tab, for close-by-tab, and for a reset.
RetireSession(o) == o \in TabOps /\ status[o] = "fenced" /\ FindSession(o, tab[o])
CloseTabSession(o, t) == o \in CloseOps /\ MayBegin(o) /\ FindSession(o, t)
ResetTabSession(o, t) ==
    o \in ResetOps /\ MayBegin(o) /\ EventLoopFree /\ FindSession(o, t)

-----------------------------------------------------------------------------
(* close_and_retire_owned_session, for every kind of request. *)

\* The close is over; nothing else keeps a close or reset request.
EndJob(o, s) ==
    /\ job' = [job EXCEPT ![o][s] = "none"]
    /\ status' = [status EXCEPT ![o] = Ended(o)]

\* Scope "all" first puts the captured route back if it is gone.
Restore(o, s) ==
    /\ job[o][s] = "restore" /\ gate[s] = None
    /\ routed' = routed \cup {s}
    /\ job' = [job EXCEPT ![o][s] = "gate"]
    /\ UNCHANGED <<conn, paneVars, pend, metaVars, markVars, safeVars, txVars, gate, fence,
                   rekeys, allVars, status, tab, todo, done, deferred, ok, histVars>>

\* The gate is free: close the session if the helper still owns it.
CloseGate(o, s) ==
    /\ job[o][s] = "gate" /\ gate[s] = None
    /\ IF s \in routed
       THEN /\ gate' = [gate EXCEPT ![s] = o]
            /\ job' = [job EXCEPT ![o][s] = "agent"]
            /\ UNCHANGED <<status, ok>>
       ELSE /\ EndJob(o, s)
            /\ ok' = ok \ (AllOps \cap {o})
            /\ UNCHANGED gate
    /\ UNCHANGED <<conn, paneVars, pend, metaVars, markVars, safeVars, txVars, routed, fence,
                   rekeys, allVars, tab, todo, done, deferred, histVars>>

\* The gate is not free before the deadline.
CloseTimesOut(o, s) ==
    /\ job[o][s] \in {"restore", "gate"} /\ gate[s] # None
    /\ EndJob(o, s)
    /\ ok' = ok \ {o}
    /\ UNCHANGED <<conn, paneVars, pend, metaVars, markVars, safeVars, txVars, sessVars, fence,
                   rekeys, allVars, tab, todo, done, deferred, histVars>>

\* The agent's answer, and what the caller forgets about the helper then.
CloseReturns(o, s) ==
    LET h == s[1]
    IN  /\ job[o][s] = "agent"
        /\ EndJob(o, s)
        /\ gate' = Free(s)
        /\ \E outcome \in {"closed", "logical", "error"} :
              /\ routed' = IF outcome = "error" THEN routed ELSE routed \ {s}
              /\ ok' = IF outcome = "closed" THEN ok ELSE ok \ {o}
              /\ IF outcome = "error" \/ o \in deferred \cup AllOps \cup CloseOps
                 THEN UNCHANGED <<pend, metaVars, closing>>
                 ELSE IF o \in TabOps
                 THEN /\ ForgetMeta(h)
                      /\ pend' = [pend EXCEPT ![h] = None]
                      /\ UNCHANGED closing
                 ELSE /\ closing' = closing \ {h}
                      /\ last' = [last EXCEPT ![h] = 0]
                      /\ UNCHANGED <<pend, owner>>
        /\ UNCHANGED <<conn, paneVars, destructive, active, late, safeVars, txVars, fence,
                       rekeys, allVars, tab, todo, done, deferred, histVars>>

-----------------------------------------------------------------------------
(* The end of an operation. *)

\* Mutant: the closes of the helper's sessions are not awaited.
JobsNotAwaited(o, h) == TRUE

\* The helper's sessions are closed: in scope "tabs" whoever's they were.
JobsEnded(o, h) ==
    \A s \in Sessions : o \in TabOps \/ s[1] = h => job[o][s] = "none"

\* Mutant: a transaction that has outlived the deadline is not reported.
CleanIgnoresPending(h) == h \notin late /\ Routed(h) = {}

\* Nothing is left for the forced cleanup: it reports no LogicalFallback.
Clean(h) == pend[h] = None /\ h \notin late /\ Routed(h) = {}

\* The helper's transaction has ended, or the deadline has; then
\* force_cleanup_retirement_helper.  A session whose gate stays held past the
\* deadline stops it half way.
ForceCleanup(o, h) ==
    LET mine == Routed(h) \cup {s \in {<<h, last[h]>>} : last[h] # 0}
        busy == {s \in mine : gate[s] # None}
    IN  /\ status[o] = "running" /\ h \in todo[o] /\ JobsEnded(o, h)
        /\ \/ /\ busy = {}
              /\ routed' = routed \ mine
              /\ pend' = [pend EXCEPT ![h] = None]
              /\ ForgetMeta(h)
              /\ unresolved' = [unresolved EXCEPT ![h] = {}] /\ denied' = denied \ {h}
           \/ /\ busy # {}
              /\ \E some \in SUBSET (mine \ busy) : routed' = routed \ some
              /\ UNCHANGED <<pend, metaVars, safeVars>>
        /\ ok' = IF Clean(h) /\ busy = {} THEN ok ELSE ok \ {o}
        /\ active' = active \ {h} /\ late' = late \ {h}
        /\ todo' = [todo EXCEPT ![o] = @ \ {h}]
        /\ done' = [done EXCEPT ![o] = @ \cup {h}]
        /\ UNCHANGED <<conn, paneVars, closing, destructive, txVars, gate, fence, rekeys,
                       allVars, status, tab, job, deferred, histVars>>

\* complete_tab_retirement, then record_retirement_completion.
CompleteTab(o) ==
    LET c == Resolve(tab[o])
        n == IF fence[c] = None \/ fence[c].ops = 0 THEN 0 ELSE fence[c].ops - 1
        f == [fence[c] EXCEPT !.ops = n,
                 !.phase = IF n = 0 THEN "CompletedAwaitingDisconnect" ELSE @]
    IN  /\ o \in TabOps /\ status[o] = "running" /\ todo[o] = {}
        /\ \A s \in Sessions : job[o][s] = "none"
        /\ fence' = IF fence[c] = None THEN fence
                    ELSE [fence EXCEPT ![c] = IF n = 0 /\ f.out = {} THEN None ELSE f]
        /\ rekeys' = IF n # 0 THEN rekeys
                     ELSE [a \in Tabs |-> IF rekeys[a] # None /\ Resolve(a) = c
                                          THEN None ELSE rekeys[a]]
        /\ status' = [status EXCEPT ![o] = "completed"]
        /\ UNCHANGED <<conn, paneVars, pend, metaVars, markVars, safeVars, txVars, sessVars,
                       allVars, tab, job, todo, done, deferred, ok, histVars>>

-----------------------------------------------------------------------------
(* Retirement of all tabs. *)

\* capture_helper_retirements
Capture(o, hs) ==
    /\ todo' = [todo EXCEPT ![o] = hs]
    /\ job' = [job EXCEPT ![o] = [s \in Sessions |-> IF s \in routed /\ s[1] \in hs
                                                     THEN "restore" ELSE "none"]]

\* begin_all_retirement
RetireAll(o) ==
    /\ o \in AllOps /\ MayBegin(o) /\ EventLoopFree
    /\ status' = [status EXCEPT ![o] = "running"]
    /\ ok' = ok \cup {o}
    /\ allOps' = allOps + 1
    /\ allOut' = allOut \cup Connected
    /\ closing' = closing \cup Connected
    /\ destructive' = destructive \cup Connected
    /\ active' = active \cup Connected
    /\ Capture(o, Connected)
    /\ hit' = [hit EXCEPT ![o] = Connected]
    /\ UNCHANGED <<conn, paneVars, pend, metaVars, late, safeVars, txVars, sessVars, fence,
                   rekeys, tab, done, deferred, closed>>

\* Mutant: the operation is counted off with every batch.
NextBatchCountsOff(o) ==
    /\ o \in AllOps /\ status[o] = "running" /\ todo[o] = {} /\ ~ (allOut \subseteq done[o])
    /\ Capture(o, allOut \ done[o])
    /\ allOps' = allOps - 1
    /\ UNCHANGED <<conn, paneVars, pend, metaVars, markVars, safeVars, txVars, sessVars, fence,
                   rekeys, allOut, status, tab, done, deferred, ok, histVars>>

\* finish_all_retirement_batch: helpers that connected meanwhile are next ...
NextBatch(o) ==
    /\ o \in AllOps /\ status[o] = "running" /\ todo[o] = {} /\ ~ (allOut \subseteq done[o])
    /\ Capture(o, allOut \ done[o])
    /\ UNCHANGED <<conn, paneVars, pend, metaVars, markVars, safeVars, txVars, sessVars, fence,
                   rekeys, allVars, status, tab, done, deferred, ok, histVars>>

\* Mutant: the fence over all tabs is not released.
FinishAllKeepsFence(o) ==
    /\ o \in AllOps /\ status[o] = "running" /\ todo[o] = {} /\ allOut \subseteq done[o]
    /\ status' = [status EXCEPT ![o] = "completed"]
    /\ UNCHANGED <<conn, paneVars, pend, metaVars, markVars, safeVars, txVars, sessVars, fence,
                   rekeys, allVars, tab, job, todo, done, deferred, ok, histVars>>

\* Mutant: the report waits for the helpers to disconnect, as the fences do.
FinishAllAwaitsDisconnect(o) ==
    /\ o \in AllOps /\ status[o] = "running" /\ todo[o] = {} /\ allOut \cap Connected = {}
    /\ allOps' = allOps - 1
    /\ allOut' = {}
    /\ status' = [status EXCEPT ![o] = "completed"]
    /\ UNCHANGED <<conn, paneVars, pend, metaVars, markVars, safeVars, txVars, sessVars, fence,
                   rekeys, tab, job, todo, done, deferred, ok, histVars>>

\* ... and without any the operation is complete.
FinishAll(o) ==
    /\ o \in AllOps /\ status[o] = "running" /\ todo[o] = {} /\ allOut \subseteq done[o]
    /\ allOps' = allOps - 1
    /\ allOut' = IF allOps = 1 THEN {} ELSE allOut
    /\ status' = [status EXCEPT ![o] = "completed"]
    /\ UNCHANGED <<conn, paneVars, pend, metaVars, markVars, safeVars, txVars, sessVars, fence,
                   rekeys, tab, job, todo, done, deferred, ok, histVars>>

-----------------------------------------------------------------------------

\* What the master does for a helper without being asked again.
HelperStep(h) ==
    \/ PriorGate(h) \/ PriorClosed(h) \/ NewReply(h) \/ NewFails(h)
    \/ LateGate(h) \/ LateClosed(h)
    \/ CleanupGate(h) \/ CleanupClosed(h) \/ Gone(h)

\* What it does for a request.
OpStep(o) ==
    \/ RetireSession(o) \/ CompleteTab(o) \/ NextBatch(o) \/ FinishAll(o)
    \/ \E s \in Sessions : Restore(o, s) \/ CloseGate(o, s) \/ CloseTimesOut(o, s)
                           \/ CloseReturns(o, s)
    \/ \E h \in Helpers : ForceCleanup(o, h)

Next ==
    \/ \E h \in Helpers :
          \/ \E t \in Tabs : Connect(h, t)
          \/ NewSession(h) \/ HelperStep(h) \/ Disconnect(h) \/ LearnRename(h)
    \/ \E o \in Ops :
          \/ \E t \in Tabs : RetireTab(o, t) \/ CloseTabSession(o, t) \/ ResetTabSession(o, t)
          \/ RetireAll(o) \/ OpStep(o)
    \/ \E t, u \in Tabs : Rename(t, u)

Spec == Init /\ [][Next]_vars

\* The runtime polls every task that can go on, and every wait for an agent or
\* for a gate held by one has a deadline.
Fairness == /\ \A h \in Helpers : WF_vars(HelperStep(h))
            /\ \A o \in Ops : WF_vars(OpStep(o))

FairSpec == Spec /\ Fairness

-----------------------------------------------------------------------------
(* Properties. *)

\* Retirement is final: from the moment the master fences a tab (or all tabs),
\* no helper whose pane is in it gets a session committed, whether its
\* session/new was in flight, it had published no owner yet, or it connected
\* during an operation on all tabs.
RetiredNeverCommits ==
    [][\A h \in Doomed : last'[h] \in {0, last[h]}]_vars

\* The report is true: when no operation that cleaned up after a helper reports
\* a failure, and none is still at it, the helper has no route and no
\* transaction left, then and later.
ReportIsTrue ==
    \A h \in Helpers :
        LET cleaned == {o \in Destructive : h \in done[o]}
        IN  /\ cleaned # {} /\ cleaned \subseteq ok /\ conn[h] = "up"
            /\ \A o \in Destructive : h \notin todo[o]
            => Routed(h) = {} /\ pend[h] = None

\* Once a helper is gone and no operation is still at it, no table names it:
\* no route was put back for it, no marker or fence waits for it.
GoneLeavesNothing ==
    \A h \in Helpers :
        conn[h] = "gone" /\ (\A o \in Destructive : h \notin todo[o]) =>
            /\ Routed(h) = {} /\ Published(h) = None
            /\ h \notin closing \cup destructive \cup active \cup late \cup denied
            /\ unresolved[h] = {}
            /\ \A t \in Tabs : fence[t] # None /\ ~ Fencing(t) => h \notin fence[t].out

\* Each running operation on a tab is counted by exactly the fence its tab id
\* now resolves to, even after a drag has moved it; a fence without operations
\* waits for a helper that is still connected; no alias outlives the operations
\* it was made for.
FencesBalanced ==
    /\ \A t \in Tabs : fence[t] # None =>
          /\ fence[t].ops = Cardinality({o \in TabOps : /\ status[o] \in {"fenced", "running"}
                                                        /\ Resolve(tab[o]) = t})
          /\ Fencing(t) <=> fence[t].ops > 0
          /\ ~ Fencing(t) => fence[t].out # {} /\ fence[t].out \subseteq Connected
    /\ \A o \in TabOps : status[o] \in {"fenced", "running"} => Fencing(Resolve(tab[o]))
    /\ \A t \in Tabs : rekeys[t] # None => Fencing(Resolve(t))

\* When no retirement is running the fence over all tabs is open, and no helper
\* is left in the set that collects late outcomes.
AllFenceReleased ==
    /\ allOps = Cardinality({o \in AllOps : status[o] = "running"})
    /\ allOps = 0 => allOut = {}
    /\ (\A o \in Destructive : status[o] \notin {"fenced", "running"}) => active = {}

\* Only the helpers of retired tabs are turned away: a helper whose tab was
\* never retired, nor closed or reset, is never marked for destruction while
\* its pipe is up.  In particular a replacement helper for a retired tab works.
ReplacementNotBlocked ==
    \A h \in Helpers : conn[h] = "up" /\ h \in closing \cup destructive =>
        h \in Doomed \cup closed

\* A reset gives the tab a clean slate: its helper can create the next session.
ResetKeepsPaneUsable ==
    \A h \in Helpers : conn[h] = "up" => h \notin destructive

\* Every operation and request ends, however helpers come and go.
OperationsEnd ==
    \A o \in Ops : status[o] \in {"fenced", "running"} ~> status[o] = "completed"

\* Every helper that disconnects is eventually forgotten, whatever holds the
\* gates of its sessions.
LostIsForgotten == \A h \in Helpers : conn[h] = "lost" ~> conn[h] = "gone"

=============================================================================
