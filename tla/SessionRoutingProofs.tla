------------------------- MODULE SessionRoutingProofs -------------------------
(***************************************************************************)
(* The safety of session routing, for every number of helpers, sessions    *)
(* and requests and whichever sessions the helpers load.  The inductive    *)
(* invariant RoutingInv says what holding a lifecycle gate means: the      *)
(* helper that closes a session holds its gate and owns its route, and the *)
(* one that closes an ownerless session during a rollback holds its gate   *)
(* while nobody has the route.                                             *)
(***************************************************************************)
EXTENDS SessionRouting, TLAPS

\* Every session the master works on is one the agent has created, so a
\* session/new, whose id is fresh, collides with none of them.
KnownSessions ==
    \A h \in Helpers :
        /\ pc[h] \in {"close", "closing", "closed", "unbound"} => arg[h] \in made
        /\ pc[h] \in {"swap", "loadCall", "commit", "rollback", "rollbackClose"} =>
              target[h] \in made
        /\ pc[h] \in {"close", "closing", "closed"} /\ step[h] = "load" =>
              target[h] \in made
        /\ last[h] \in made \cup {None} /\ prior[h] \in made \cup {None}
        /\ todo[h] \subseteq made

RoutedMade == \A s \in Sessions : route[s] # None => s \in made

\* The helper that awaits the answer to session/close holds the gate and
\* owns the session ...
ClosingHolds ==
    \A h \in Helpers : pc[h] = "closing" => gate[arg[h]] = h /\ route[arg[h]] = h

\* ... and the rollback that closes its target holds the gate of a session
\* that nobody owns.
RollbackHolds ==
    \A h \in Helpers :
        pc[h] = "rollbackClose" => gate[target[h]] = h /\ route[target[h]] = None

RoutingInv ==
    Types /\ KnownSessions /\ RoutedMade /\ ClosingHolds /\ RollbackHolds

USE RoutingAssumption
USE DEF agentVars, tableVars, ownerVars, closeVars, loadVars, Callers, Goto, CallClose,
        ForgetClose, ForgetLoad, RetireExact, Publish, FinishFailed, FailAndReturn, Own,
        CanStart, Resumes, Replaces, AfterLoad, Restored, Routed, Nobody, Unowned, MayLoad

\* Taking the gate is what makes the close exclusive.
LEMMA CloseGateInv ==
    ASSUME RoutingInv, NEW h \in Helpers, CloseGate(h)
    PROVE  RoutingInv'
<1>1. Types'
  BY SMTT(60) DEF RoutingInv, Types, CloseGate
<1>2. KnownSessions'
  BY DEF RoutingInv, KnownSessions, Types, CloseGate
<1>3. RoutedMade'
  BY DEF RoutingInv, RoutedMade, Types, CloseGate
<1>4. ClosingHolds'
  BY DEF RoutingInv, ClosingHolds, Types, KnownSessions, CloseGate
<1>5. RollbackHolds'
  BY DEF RoutingInv, RollbackHolds, Types, KnownSessions, CloseGate
<1>6. QED
  BY <1>1, <1>2, <1>3, <1>4, <1>5 DEF RoutingInv

\* A timed-out wait changes no shared state.
LEMMA CloseGateTimeoutInv ==
    ASSUME RoutingInv, NEW h \in Helpers, CloseGateTimeout(h)
    PROVE  RoutingInv'
<1>1. Types'
  BY DEF RoutingInv, Types, CloseGateTimeout
<1>2. KnownSessions'
  BY DEF RoutingInv, KnownSessions, Types, CloseGateTimeout
<1>3. RoutedMade'
  BY DEF RoutingInv, RoutedMade, Types, CloseGateTimeout
<1>4. ClosingHolds'
  BY DEF RoutingInv, ClosingHolds, Types, CloseGateTimeout
<1>5. RollbackHolds'
  BY DEF RoutingInv, RollbackHolds, Types, CloseGateTimeout
<1>6. QED
  BY <1>1, <1>2, <1>3, <1>4, <1>5 DEF RoutingInv

\* The closing helper removes its own route, under its gate.
LEMMA CloseRetiresInv ==
    ASSUME RoutingInv, NEW h \in Helpers, CloseRetires(h)
    PROVE  RoutingInv'
<1>1. Types'
  BY DEF RoutingInv, Types, CloseRetires
<1>2. KnownSessions'
  BY DEF RoutingInv, KnownSessions, Types, CloseRetires
<1>3. RoutedMade'
  BY DEF RoutingInv, RoutedMade, Types, CloseRetires
<1>4. ClosingHolds'
  BY DEF RoutingInv, ClosingHolds, Types, CloseRetires
<1>5. RollbackHolds'
  BY DEF RoutingInv, RollbackHolds, Types, ClosingHolds, CloseRetires
<1>6. QED
  BY <1>1, <1>2, <1>3, <1>4, <1>5 DEF RoutingInv

\* A failed close only releases its own gate.
LEMMA CloseFailsInv ==
    ASSUME RoutingInv, NEW h \in Helpers, CloseFails(h)
    PROVE  RoutingInv'
<1>1. Types'
  BY DEF RoutingInv, Types, CloseFails
<1>2. KnownSessions'
  BY DEF RoutingInv, KnownSessions, Types, CloseFails
<1>3. RoutedMade'
  BY DEF RoutingInv, RoutedMade, Types, CloseFails
<1>4. ClosingHolds'
  BY DEF RoutingInv, ClosingHolds, Types, CloseFails
<1>5. RollbackHolds'
  BY DEF RoutingInv, RollbackHolds, Types, ClosingHolds, CloseFails
<1>6. QED
  BY <1>1, <1>2, <1>3, <1>4, <1>5 DEF RoutingInv

\* session/new begins.
LEMMA NewSessionInv ==
    ASSUME RoutingInv, NEW h \in Helpers, NewSession(h)
    PROVE  RoutingInv'
<1>1. Types'
  BY DEF RoutingInv, Types, KnownSessions, NewSession
<1>2. KnownSessions'
  BY DEF RoutingInv, KnownSessions, Types, NewSession
<1>3. RoutedMade'
  BY DEF RoutingInv, RoutedMade, Types, NewSession
<1>4. ClosingHolds'
  BY DEF RoutingInv, ClosingHolds, Types, NewSession
<1>5. RollbackHolds'
  BY DEF RoutingInv, RollbackHolds, Types, NewSession
<1>6. QED
  BY <1>1, <1>2, <1>3, <1>4, <1>5 DEF RoutingInv

\* The predecessor's close returns to session/new.
LEMMA NewPriorInv ==
    ASSUME RoutingInv, NEW h \in Helpers, NewPrior(h)
    PROVE  RoutingInv'
<1>1. Types'
  <2>1. CASE FailAndReturn(h)
    BY <2>1 DEF RoutingInv, Types, KnownSessions, NewPrior
  <2>2. CASE res[h] # "error"
    BY ZenonT(90), <2>2 DEF RoutingInv, Types, KnownSessions, NewPrior
  <2>3. QED
    BY <2>1, <2>2 DEF RoutingInv, Types, KnownSessions, NewPrior
<1>2. KnownSessions'
  BY DEF RoutingInv, KnownSessions, Types, NewPrior
<1>3. RoutedMade'
  BY DEF RoutingInv, RoutedMade, Types, NewPrior
<1>4. ClosingHolds'
  BY DEF RoutingInv, ClosingHolds, Types, NewPrior
<1>5. RollbackHolds'
  BY DEF RoutingInv, RollbackHolds, Types, NewPrior
<1>6. QED
  BY <1>1, <1>2, <1>3, <1>4, <1>5 DEF RoutingInv

\* A fresh session has no gate holder and no route.
LEMMA NewReplyInv ==
    ASSUME RoutingInv, NEW h \in Helpers, NEW s \in Sessions, NewReply(h, s)
    PROVE  RoutingInv'
<1>1. Types'
  BY DEF RoutingInv, Types, KnownSessions, NewReply
<1>2. KnownSessions'
  BY DEF RoutingInv, KnownSessions, Types, NewReply
<1>3. RoutedMade'
  BY DEF RoutingInv, RoutedMade, Types, NewReply
<1>4. ClosingHolds'
  BY DEF RoutingInv, ClosingHolds, Types, KnownSessions, NewReply
<1>5. RollbackHolds'
  BY DEF RoutingInv, RollbackHolds, Types, KnownSessions, NewReply
<1>6. QED
  BY <1>1, <1>2, <1>3, <1>4, <1>5 DEF RoutingInv

\* A failed session/new leaves the table alone.
LEMMA NewFailsInv ==
    ASSUME RoutingInv, NEW h \in Helpers, NewFails(h)
    PROVE  RoutingInv'
<1>1. Types'
  BY DEF RoutingInv, Types, NewFails
<1>2. KnownSessions'
  BY DEF RoutingInv, KnownSessions, Types, NewFails
<1>3. RoutedMade'
  BY DEF RoutingInv, RoutedMade, Types, NewFails
<1>4. ClosingHolds'
  BY DEF RoutingInv, ClosingHolds, Types, NewFails
<1>5. RollbackHolds'
  BY DEF RoutingInv, RollbackHolds, Types, NewFails
<1>6. QED
  BY <1>1, <1>2, <1>3, <1>4, <1>5 DEF RoutingInv

\* A session obtained too late has been closed again.
LEMMA AbandonedInv ==
    ASSUME RoutingInv, NEW h \in Helpers, Abandoned(h)
    PROVE  RoutingInv'
<1>1. Types'
  BY DEF RoutingInv, Types, Abandoned
<1>2. KnownSessions'
  BY DEF RoutingInv, KnownSessions, Types, Abandoned
<1>3. RoutedMade'
  BY DEF RoutingInv, RoutedMade, Types, Abandoned
<1>4. ClosingHolds'
  BY DEF RoutingInv, ClosingHolds, Types, Abandoned
<1>5. RollbackHolds'
  BY DEF RoutingInv, RollbackHolds, Types, Abandoned
<1>6. QED
  BY <1>1, <1>2, <1>3, <1>4, <1>5 DEF RoutingInv

\* An ownerless session is retired under its gate.
LEMMA RetireUnboundInv ==
    ASSUME RoutingInv, NEW h \in Helpers, RetireUnbound(h)
    PROVE  RoutingInv'
<1>1. Types'
  BY DEF RoutingInv, Types, RetireUnbound
<1>2. KnownSessions'
  BY DEF RoutingInv, KnownSessions, Types, RetireUnbound
<1>3. RoutedMade'
  BY DEF RoutingInv, RoutedMade, Types, RetireUnbound
<1>4. ClosingHolds'
  BY DEF RoutingInv, ClosingHolds, Types, RetireUnbound
<1>5. RollbackHolds'
  BY DEF RoutingInv, RollbackHolds, Types, RetireUnbound
<1>6. QED
  BY <1>1, <1>2, <1>3, <1>4, <1>5 DEF RoutingInv

\* session/load begins.
LEMMA LoadSessionInv ==
    ASSUME RoutingInv, NEW h \in Helpers, NEW s \in Sessions, LoadSession(h, s)
    PROVE  RoutingInv'
<1>1. Types'
  BY DEF RoutingInv, Types, LoadSession
<1>2. KnownSessions'
  BY DEF RoutingInv, KnownSessions, Types, LoadSession
<1>3. RoutedMade'
  BY DEF RoutingInv, RoutedMade, Types, LoadSession
<1>4. ClosingHolds'
  BY DEF RoutingInv, ClosingHolds, Types, LoadSession
<1>5. RollbackHolds'
  BY DEF RoutingInv, RollbackHolds, Types, LoadSession
<1>6. QED
  BY <1>1, <1>2, <1>3, <1>4, <1>5 DEF RoutingInv

\* A route is swapped only while nobody holds the gate.
LEMMA SwapInv ==
    ASSUME RoutingInv, NEW h \in Helpers, Swap(h)
    PROVE  RoutingInv'
<1>1. Types'
  BY SMTT(60) DEF RoutingInv, Types, KnownSessions, Swap
<1>2. KnownSessions'
  BY DEF RoutingInv, KnownSessions, Types, Swap
<1>3. RoutedMade'
  BY DEF RoutingInv, RoutedMade, Types, KnownSessions, Swap
<1>4. ClosingHolds'
  BY DEF RoutingInv, ClosingHolds, Types, Swap
<1>5. RollbackHolds'
  BY DEF RoutingInv, RollbackHolds, Types, Swap
<1>6. QED
  BY <1>1, <1>2, <1>3, <1>4, <1>5 DEF RoutingInv

\* The target is loaded.
LEMMA LoadReplyInv ==
    ASSUME RoutingInv, NEW h \in Helpers, LoadReply(h)
    PROVE  RoutingInv'
<1>1. Types'
  <2>1. CASE h \in fenced
    BY SMTT(60), <2>1 DEF RoutingInv, Types, KnownSessions, LoadReply
  <2>2. CASE h \notin fenced /\ Replaces(h) /\ how'[h] = "loaded"
    BY SMTT(60), <2>2 DEF RoutingInv, Types, KnownSessions, LoadReply
  <2>3. CASE h \notin fenced /\ Replaces(h) /\ how'[h] # "loaded"
    BY <2>3 DEF RoutingInv, Types, KnownSessions, LoadReply
  <2>4. CASE h \notin fenced /\ ~Replaces(h)
    BY <2>4 DEF RoutingInv, Types, KnownSessions, LoadReply
  <2>5. QED
    BY <2>1, <2>2, <2>3, <2>4 DEF RoutingInv, Types, KnownSessions, LoadReply
<1>2. KnownSessions'
  BY DEF RoutingInv, KnownSessions, Types, LoadReply
<1>3. RoutedMade'
  BY DEF RoutingInv, RoutedMade, Types, LoadReply
<1>4. ClosingHolds'
  BY DEF RoutingInv, ClosingHolds, Types, LoadReply
<1>5. RollbackHolds'
  BY DEF RoutingInv, RollbackHolds, Types, LoadReply
<1>6. QED
  BY <1>1, <1>2, <1>3, <1>4, <1>5 DEF RoutingInv

\* The target is not loaded: the rollback follows.
LEMMA LoadFailsInv ==
    ASSUME RoutingInv, NEW h \in Helpers, LoadFails(h)
    PROVE  RoutingInv'
<1>1. Types'
  BY DEF RoutingInv, Types, KnownSessions, LoadFails
<1>2. KnownSessions'
  BY DEF RoutingInv, KnownSessions, Types, LoadFails
<1>3. RoutedMade'
  BY DEF RoutingInv, RoutedMade, Types, LoadFails
<1>4. ClosingHolds'
  BY DEF RoutingInv, ClosingHolds, Types, LoadFails
<1>5. RollbackHolds'
  BY DEF RoutingInv, RollbackHolds, Types, LoadFails
<1>6. QED
  BY <1>1, <1>2, <1>3, <1>4, <1>5 DEF RoutingInv

\* The predecessor's close returns to session/load.
LEMMA LoadPriorInv ==
    ASSUME RoutingInv, NEW h \in Helpers, LoadPrior(h)
    PROVE  RoutingInv'
<1>1. Types'
  BY DEF RoutingInv, Types, LoadPrior
<1>2. KnownSessions'
  BY DEF RoutingInv, KnownSessions, Types, LoadPrior
<1>3. RoutedMade'
  BY DEF RoutingInv, RoutedMade, Types, LoadPrior
<1>4. ClosingHolds'
  BY DEF RoutingInv, ClosingHolds, Types, LoadPrior
<1>5. RollbackHolds'
  BY DEF RoutingInv, RollbackHolds, Types, LoadPrior
<1>6. QED
  BY <1>1, <1>2, <1>3, <1>4, <1>5 DEF RoutingInv

\* The target of a fenced helper has been closed.
LEMMA DestroyedTargetInv ==
    ASSUME RoutingInv, NEW h \in Helpers, DestroyedTarget(h)
    PROVE  RoutingInv'
<1>1. Types'
  <2>1. CASE FailAndReturn(h)
    BY <2>1 DEF RoutingInv, Types, KnownSessions, DestroyedTarget
  <2>2. CASE CallClose(h, prior[h], "destroyedPrior") /\ prior[h] \in made
              /\ UNCHANGED <<ownerVars, loadVars>>
    BY <2>2 DEF RoutingInv, Types, KnownSessions, DestroyedTarget
  <2>3. QED
    BY <2>1, <2>2 DEF RoutingInv, Types, KnownSessions, DestroyedTarget
<1>2. KnownSessions'
  BY DEF RoutingInv, KnownSessions, Types, DestroyedTarget
<1>3. RoutedMade'
  BY DEF RoutingInv, RoutedMade, Types, DestroyedTarget
<1>4. ClosingHolds'
  BY DEF RoutingInv, ClosingHolds, Types, DestroyedTarget
<1>5. RollbackHolds'
  BY DEF RoutingInv, RollbackHolds, Types, DestroyedTarget
<1>6. QED
  BY <1>1, <1>2, <1>3, <1>4, <1>5 DEF RoutingInv

\* The predecessor of a fenced helper has been closed.
LEMMA DestroyedPriorInv ==
    ASSUME RoutingInv, NEW h \in Helpers, DestroyedPrior(h)
    PROVE  RoutingInv'
<1>1. Types'
  BY DEF RoutingInv, Types, DestroyedPrior
<1>2. KnownSessions'
  BY DEF RoutingInv, KnownSessions, Types, DestroyedPrior
<1>3. RoutedMade'
  BY DEF RoutingInv, RoutedMade, Types, DestroyedPrior
<1>4. ClosingHolds'
  BY DEF RoutingInv, ClosingHolds, Types, DestroyedPrior
<1>5. RollbackHolds'
  BY DEF RoutingInv, RollbackHolds, Types, DestroyedPrior
<1>6. QED
  BY <1>1, <1>2, <1>3, <1>4, <1>5 DEF RoutingInv

\* The commit changes neither routes nor gates.
LEMMA CommitInv ==
    ASSUME RoutingInv, NEW h \in Helpers, Commit(h)
    PROVE  RoutingInv'
<1>1. Types'
  <2>1. target[h] \in Sessions
    BY DEF RoutingInv, Types, KnownSessions, Commit
  <2>2. CASE h \in fenced
    BY SMTT(60), <2>2 DEF RoutingInv, Types, KnownSessions, Commit
  <2>3. CASE h \notin fenced
    <3>1. cap' \in [Sessions -> Helpers \cup {None}] /\ row' \in SUBSET Sessions
      BY SMTT(60), <2>1, <2>3 DEF RoutingInv, Types, Commit
    <3>2. /\ last' \in [Helpers -> Sessions \cup {None}]
          /\ pending' \in SUBSET Helpers /\ pendingCap' \in SUBSET Helpers
      BY <2>1, <2>3 DEF RoutingInv, Types, Commit
    <3>3. /\ target' \in [Helpers -> Sessions \cup {None}]
          /\ prior' \in [Helpers -> Sessions \cup {None}]
          /\ displaced' \in [Helpers -> Helpers \cup {None}]
      BY <2>3 DEF RoutingInv, Types, Commit
    <3>4. /\ how' \in [Helpers -> {"loaded", "rebound", "failed", "refused", None}]
          /\ pc' = [pc EXCEPT ![h] = "idle"]
      BY <2>3 DEF RoutingInv, Types, Commit
    <3>5. UNCHANGED <<agentVars, route, gate, orphans, conn, fenced, closeVars, todo, requests>>
      BY <2>3 DEF Commit
    <3>6. QED
      BY <3>1, <3>2, <3>3, <3>4, <3>5 DEF RoutingInv, Types
  <2>4. QED
    BY <2>2, <2>3
<1>2. KnownSessions'
  BY DEF RoutingInv, KnownSessions, Types, Commit
<1>3. RoutedMade'
  BY DEF RoutingInv, RoutedMade, Types, Commit
<1>4. ClosingHolds'
  BY DEF RoutingInv, ClosingHolds, Types, Commit
<1>5. RollbackHolds'
  BY DEF RoutingInv, RollbackHolds, Types, Commit
<1>6. QED
  BY <1>1, <1>2, <1>3, <1>4, <1>5 DEF RoutingInv

\* The rollback restores a route only while nobody holds the gate.
LEMMA RollbackInv ==
    ASSUME RoutingInv, NEW h \in Helpers, Rollback(h)
    PROVE  RoutingInv'
<1>1. Types'
  <2>1. CASE pc' = [pc EXCEPT ![h] = "rollbackClose"]
              /\ gate' = [gate EXCEPT ![target[h]] = h] /\ UNCHANGED loadVars
    BY <2>1 DEF RoutingInv, Types, KnownSessions, Rollback
  <2>2. CASE Goto(h, "idle") /\ ForgetLoad(h) /\ UNCHANGED gate
    BY <2>2 DEF RoutingInv, Types, KnownSessions, Rollback
  <2>3. QED
    BY <2>1, <2>2 DEF RoutingInv, Types, KnownSessions, Rollback
<1>2. KnownSessions'
  BY DEF RoutingInv, KnownSessions, Types, Rollback
<1>3. RoutedMade'
  BY DEF RoutingInv, RoutedMade, Types, Rollback
<1>4. ClosingHolds'
  BY DEF RoutingInv, ClosingHolds, Types, KnownSessions, Rollback
<1>5. RollbackHolds'
  BY DEF RoutingInv, RollbackHolds, Types, KnownSessions, Rollback
<1>6. QED
  BY <1>1, <1>2, <1>3, <1>4, <1>5 DEF RoutingInv

\* The rollback releases its own gate.
LEMMA RollbackClosedInv ==
    ASSUME RoutingInv, NEW h \in Helpers, RollbackClosed(h)
    PROVE  RoutingInv'
<1>1. Types'
  BY DEF RoutingInv, Types, RollbackClosed
<1>2. KnownSessions'
  BY DEF RoutingInv, KnownSessions, Types, RollbackClosed
<1>3. RoutedMade'
  BY DEF RoutingInv, RoutedMade, Types, RollbackClosed
<1>4. ClosingHolds'
  BY DEF RoutingInv, ClosingHolds, Types, RollbackHolds, RollbackClosed
<1>5. RollbackHolds'
  BY DEF RoutingInv, RollbackHolds, Types, RollbackClosed
<1>6. QED
  BY <1>1, <1>2, <1>3, <1>4, <1>5 DEF RoutingInv

\* session/close begins.
LEMMA CloseSessionInv ==
    ASSUME RoutingInv, NEW h \in Helpers, NEW s \in Sessions, CloseSession(h, s)
    PROVE  RoutingInv'
<1>1. Types'
  BY DEF RoutingInv, Types, CloseSession
<1>2. KnownSessions'
  BY DEF RoutingInv, KnownSessions, Types, CloseSession
<1>3. RoutedMade'
  BY DEF RoutingInv, RoutedMade, Types, CloseSession
<1>4. ClosingHolds'
  BY DEF RoutingInv, ClosingHolds, Types, CloseSession
<1>5. RollbackHolds'
  BY DEF RoutingInv, RollbackHolds, Types, CloseSession
<1>6. QED
  BY <1>1, <1>2, <1>3, <1>4, <1>5 DEF RoutingInv

\* session/close returns.
LEMMA CloseReturnsInv ==
    ASSUME RoutingInv, NEW h \in Helpers, CloseReturns(h)
    PROVE  RoutingInv'
<1>1. Types'
  BY DEF RoutingInv, Types, CloseReturns
<1>2. KnownSessions'
  BY DEF RoutingInv, KnownSessions, Types, CloseReturns
<1>3. RoutedMade'
  BY DEF RoutingInv, RoutedMade, Types, CloseReturns
<1>4. ClosingHolds'
  BY DEF RoutingInv, ClosingHolds, Types, CloseReturns
<1>5. RollbackHolds'
  BY DEF RoutingInv, RollbackHolds, Types, CloseReturns
<1>6. QED
  BY <1>1, <1>2, <1>3, <1>4, <1>5 DEF RoutingInv

\* A refused request changes nothing.
LEMMA RefuseInv ==
    ASSUME RoutingInv, NEW h \in Helpers, Refuse(h)
    PROVE  RoutingInv'
<1>1. Types'
  BY DEF RoutingInv, Types, Refuse
<1>2. KnownSessions'
  BY DEF RoutingInv, KnownSessions, Types, Refuse
<1>3. RoutedMade'
  BY DEF RoutingInv, RoutedMade, Types, Refuse
<1>4. ClosingHolds'
  BY DEF RoutingInv, ClosingHolds, Types, Refuse
<1>5. RollbackHolds'
  BY DEF RoutingInv, RollbackHolds, Types, Refuse
<1>6. QED
  BY <1>1, <1>2, <1>3, <1>4, <1>5 DEF RoutingInv

\* A dropped handler releases its own gates only.
LEMMA DisconnectInv ==
    ASSUME RoutingInv, NEW h \in Helpers, Disconnect(h)
    PROVE  RoutingInv'
<1>1. Types'
  <2>1. CASE pc[h] # "idle" /\ Goto(h, "idle") /\ ForgetClose(h) /\ ForgetLoad(h)
              /\ gate' = [s \in Sessions |-> IF gate[s] = h THEN None ELSE gate[s]]
    BY <2>1 DEF RoutingInv, Types, KnownSessions, Disconnect
  <2>2. CASE UNCHANGED <<gate, pc, closeVars, loadVars>>
    BY <2>2 DEF RoutingInv, Types, KnownSessions, Disconnect
  <2>3. QED
    BY <2>1, <2>2 DEF RoutingInv, Types, KnownSessions, Disconnect
<1>2. KnownSessions'
  BY DEF RoutingInv, KnownSessions, Types, Disconnect
<1>3. RoutedMade'
  BY DEF RoutingInv, RoutedMade, Types, Disconnect
<1>4. ClosingHolds'
  BY DEF RoutingInv, ClosingHolds, Types, KnownSessions, Disconnect
<1>5. RollbackHolds'
  BY DEF RoutingInv, RollbackHolds, Types, KnownSessions, Disconnect
<1>6. QED
  BY <1>1, <1>2, <1>3, <1>4, <1>5 DEF RoutingInv

\* The cleanup lists routes of sessions that exist.
LEMMA CleanupInv ==
    ASSUME RoutingInv, NEW h \in Helpers, Cleanup(h)
    PROVE  RoutingInv'
<1>1. Types'
  BY DEF RoutingInv, Types, Cleanup
<1>2. KnownSessions'
  BY DEF RoutingInv, KnownSessions, Types, RoutedMade, Cleanup
<1>3. RoutedMade'
  BY DEF RoutingInv, RoutedMade, Types, Cleanup
<1>4. ClosingHolds'
  BY DEF RoutingInv, ClosingHolds, Types, Cleanup
<1>5. RollbackHolds'
  BY DEF RoutingInv, RollbackHolds, Types, Cleanup
<1>6. QED
  BY <1>1, <1>2, <1>3, <1>4, <1>5 DEF RoutingInv

\* The cleanup closes the next session.
LEMMA CleanupNextInv ==
    ASSUME RoutingInv, NEW h \in Helpers, CleanupNext(h)
    PROVE  RoutingInv'
<1>1. Types'
  BY DEF RoutingInv, Types, CleanupNext
<1>2. KnownSessions'
  BY DEF RoutingInv, KnownSessions, Types, CleanupNext
<1>3. RoutedMade'
  BY DEF RoutingInv, RoutedMade, Types, CleanupNext
<1>4. ClosingHolds'
  BY DEF RoutingInv, ClosingHolds, Types, CleanupNext
<1>5. RollbackHolds'
  BY DEF RoutingInv, RollbackHolds, Types, CleanupNext
<1>6. QED
  BY <1>1, <1>2, <1>3, <1>4, <1>5 DEF RoutingInv

\* The close returns to the cleanup.
LEMMA CleanupClosedInv ==
    ASSUME RoutingInv, NEW h \in Helpers, CleanupClosed(h)
    PROVE  RoutingInv'
<1>1. Types'
  BY DEF RoutingInv, Types, CleanupClosed
<1>2. KnownSessions'
  BY DEF RoutingInv, KnownSessions, Types, CleanupClosed
<1>3. RoutedMade'
  BY DEF RoutingInv, RoutedMade, Types, CleanupClosed
<1>4. ClosingHolds'
  BY DEF RoutingInv, ClosingHolds, Types, CleanupClosed
<1>5. RollbackHolds'
  BY DEF RoutingInv, RollbackHolds, Types, CleanupClosed
<1>6. QED
  BY <1>1, <1>2, <1>3, <1>4, <1>5 DEF RoutingInv

\* What is left is listed again.
LEMMA CleanupDropInv ==
    ASSUME RoutingInv, NEW h \in Helpers, CleanupDrop(h)
    PROVE  RoutingInv'
<1>1. Types'
  BY DEF RoutingInv, Types, CleanupDrop
<1>2. KnownSessions'
  BY DEF RoutingInv, KnownSessions, Types, RoutedMade, CleanupDrop
<1>3. RoutedMade'
  BY DEF RoutingInv, RoutedMade, Types, CleanupDrop
<1>4. ClosingHolds'
  BY DEF RoutingInv, ClosingHolds, Types, CleanupDrop
<1>5. RollbackHolds'
  BY DEF RoutingInv, RollbackHolds, Types, CleanupDrop
<1>6. QED
  BY <1>1, <1>2, <1>3, <1>4, <1>5 DEF RoutingInv

\* A leftover route is removed only while nobody holds the gate.
LEMMA DropInv ==
    ASSUME RoutingInv, NEW h \in Helpers, Drop(h)
    PROVE  RoutingInv'
<1>1. Types'
  BY DEF RoutingInv, Types, Drop
<1>2. KnownSessions'
  BY DEF RoutingInv, KnownSessions, Types, Drop
<1>3. RoutedMade'
  BY DEF RoutingInv, RoutedMade, Types, Drop
<1>4. ClosingHolds'
  BY DEF RoutingInv, ClosingHolds, Types, KnownSessions, Drop
<1>5. RollbackHolds'
  BY DEF RoutingInv, RollbackHolds, Types, KnownSessions, Drop
<1>6. QED
  BY <1>1, <1>2, <1>3, <1>4, <1>5 DEF RoutingInv

\* The helper is forgotten.
LEMMA CleanupDoneInv ==
    ASSUME RoutingInv, NEW h \in Helpers, CleanupDone(h)
    PROVE  RoutingInv'
<1>1. Types'
  BY DEF RoutingInv, Types, CleanupDone
<1>2. KnownSessions'
  BY DEF RoutingInv, KnownSessions, Types, CleanupDone
<1>3. RoutedMade'
  BY DEF RoutingInv, RoutedMade, Types, CleanupDone
<1>4. ClosingHolds'
  BY DEF RoutingInv, ClosingHolds, Types, CleanupDone
<1>5. RollbackHolds'
  BY DEF RoutingInv, RollbackHolds, Types, CleanupDone
<1>6. QED
  BY <1>1, <1>2, <1>3, <1>4, <1>5 DEF RoutingInv

\* The initial state.
LEMMA InitRoutingInv == Init => RoutingInv
  BY DEF Init, RoutingInv, Types, KnownSessions, RoutedMade, ClosingHolds, RollbackHolds

\* Every step preserves the invariant; whose turn it is does not matter.
LEMMA NextRoutingInv == RoutingInv /\ [Next]_vars => RoutingInv'
<1>1. ASSUME RoutingInv, NEW h \in Helpers, Work(h) PROVE RoutingInv'
  BY <1>1, CloseGateInv, CloseGateTimeoutInv, CloseRetiresInv, CloseFailsInv, NewPriorInv,
     NewFailsInv, AbandonedInv, RetireUnboundInv, NewReplyInv, SwapInv, LoadReplyInv,
     LoadFailsInv, LoadPriorInv, DestroyedTargetInv, DestroyedPriorInv, CommitInv, RollbackInv,
     RollbackClosedInv, CloseReturnsInv, CleanupInv, CleanupNextInv, CleanupClosedInv,
     CleanupDropInv, DropInv, CleanupDoneInv DEF Work
<1>2. ASSUME RoutingInv, NEW h \in Helpers, Request(h) \/ Disconnect(h) PROVE RoutingInv'
  BY <1>2, NewSessionInv, RefuseInv, LoadSessionInv, CloseSessionInv, DisconnectInv DEF Request
<1>3. ASSUME RoutingInv, UNCHANGED vars PROVE RoutingInv'
  BY <1>3 DEF vars, RoutingInv, Types, KnownSessions, RoutedMade, ClosingHolds, RollbackHolds
<1>4. QED
  BY <1>1, <1>2, <1>3 DEF Next

\* RoutingInv holds throughout.
THEOREM RoutingInvariant == Spec => []RoutingInv
<1>1. QED
  BY InitRoutingInv, NextRoutingInv, PTL DEF Spec

\* The variables keep their types, and a close always knows its session.
THEOREM RoutingTypeCorrect == Spec => []TypeOK
<1>1. RoutingInv => TypeOK
  BY DEF RoutingInv, Types, KnownSessions, TypeOK
<1>2. QED
  BY <1>1, RoutingInvariant, PTL

\* The unreachable! of close_and_retire_owned_session is unreachable: the
\* route of a session cannot change while a close holds its lifecycle gate.
THEOREM RouteHeldAlways == Spec => []RouteHeldWhileClosing
<1>1. RoutingInv => RouteHeldWhileClosing
  BY DEF RoutingInv, ClosingHolds, RouteHeldWhileClosing
<1>2. QED
  BY <1>1, RoutingInvariant, PTL

\* The agent is told to close a session only for its owner, or while it has
\* none and the gate keeps every helper from taking it.
THEOREM ClosedForItsOwnerAlways == Spec => ClosedForItsOwner
<1> DEFINE Safe(s) == route[s] = None \/ (pc[route[s]] = "closing" /\ arg[route[s]] = s)
<1>1. ASSUME RoutingInv, [Next]_vars, NEW s \in open \ open' PROVE Safe(s)
  <2>1. ASSUME NEW h \in Helpers, CloseRetires(h) \/ CloseFails(h) PROVE Safe(s)
    BY <1>1, <2>1 DEF RoutingInv, Types, KnownSessions, ClosingHolds, CloseRetires, CloseFails
  <2>2. ASSUME NEW h \in Helpers, RollbackClosed(h) PROVE Safe(s)
    BY <1>1, <2>2 DEF RoutingInv, Types, KnownSessions, RollbackHolds, RollbackClosed
  <2>3. ASSUME NEW h \in Helpers, Work(h),
               ~(CloseRetires(h) \/ CloseFails(h) \/ RollbackClosed(h))
        PROVE  open \subseteq open'
    BY <2>3 DEF Work, CloseGate, CloseGateTimeout, NewPrior, NewFails, Abandoned, RetireUnbound,
       NewReply, Swap, LoadReply, LoadFails, LoadPrior, DestroyedTarget, DestroyedPrior, Commit,
       Rollback, CloseReturns, Cleanup, CleanupNext, CleanupClosed, CleanupDrop, Drop, CleanupDone
  <2>4. ASSUME NEW h \in Helpers, Request(h) \/ Disconnect(h) PROVE open \subseteq open'
    BY <2>4 DEF Request, NewSession, Refuse, LoadSession, CloseSession, Disconnect
  <2>5. CASE UNCHANGED vars
    BY <1>1, <2>5 DEF vars
  <2>6. QED
    BY <1>1, <2>1, <2>2, <2>3, <2>4, <2>5 DEF Next
<1>2. RoutingInv /\ [Next]_vars => ClosesOwnOrOwnerless
  BY <1>1 DEF ClosesOwnOrOwnerless
<1>3. QED
  BY <1>2, RoutingInvariant, PTL DEF Spec, ClosedForItsOwner

\* A session is taken from its owner only by the owner's own transaction or
\* cleanup, or by the session/load of the helper that gets it: late rollbacks
\* and cleanups of other helpers never take it.
THEOREM LateCleanupHarmlessAlways == Spec => LateCleanupHarmless
<1> DEFINE Fine(s, g) ==
       \/ pc[g] \in {"closing", "rollback", "drop"}
          /\ <<pc[g], todo[g]>>' # <<pc[g], todo[g]>>
       \/ \E h \in Helpers : pc[h] = "swap" /\ route'[s] = h
<1>1. ASSUME RoutingInv, [Next]_vars, NEW s \in Sessions, NEW g \in Helpers,
             route[s] = g, route'[s] # g
      PROVE  Fine(s, g)
  <2>1. ASSUME NEW h \in Helpers, CloseRetires(h) PROVE Fine(s, g)
    BY <1>1, <2>1 DEF RoutingInv, Types, KnownSessions, ClosingHolds, CloseRetires
  <2>2. ASSUME NEW h \in Helpers, NewReply(h, s) \/ \E t \in Sessions : NewReply(h, t)
        PROVE  Fine(s, g)
    BY <1>1, <2>2 DEF RoutingInv, Types, RoutedMade, NewReply
  <2>3. ASSUME NEW h \in Helpers, RetireUnbound(h) PROVE Fine(s, g)
    BY <1>1, <2>3 DEF RoutingInv, Types, KnownSessions, RetireUnbound
  <2>4. ASSUME NEW h \in Helpers, Swap(h) PROVE Fine(s, g)
    BY <1>1, <2>4 DEF RoutingInv, Types, KnownSessions, Swap
  <2>5. ASSUME NEW h \in Helpers, Rollback(h) PROVE Fine(s, g)
    BY <1>1, <2>5 DEF RoutingInv, Types, KnownSessions, Rollback
  <2>6. ASSUME NEW h \in Helpers, Drop(h) PROVE Fine(s, g)
    BY <1>1, <2>6 DEF RoutingInv, Types, KnownSessions, Drop
  <2>7. ASSUME NEW h \in Helpers, Work(h), UNCHANGED route PROVE Fine(s, g)
    BY <1>1, <2>7
  <2>8. ASSUME NEW h \in Helpers, Work(h),
               ~(CloseRetires(h) \/ RetireUnbound(h) \/ Swap(h) \/ Rollback(h) \/ Drop(h)),
               ~\E t \in Sessions : NewReply(h, t)
        PROVE  UNCHANGED route
    BY <2>8 DEF Work, CloseGate, CloseGateTimeout, CloseFails, NewPrior, NewFails, Abandoned,
       LoadReply, LoadFails, LoadPrior, DestroyedTarget, DestroyedPrior, Commit, RollbackClosed,
       CloseReturns, Cleanup, CleanupNext, CleanupClosed, CleanupDrop, CleanupDone
  <2>9. ASSUME NEW h \in Helpers, Request(h) \/ Disconnect(h) PROVE UNCHANGED route
    BY <2>9 DEF Request, NewSession, Refuse, LoadSession, CloseSession, Disconnect
  <2>10. CASE UNCHANGED vars
    BY <1>1, <2>10 DEF vars
  <2>11. QED
    BY <1>1, <2>1, <2>2, <2>3, <2>4, <2>5, <2>6, <2>7, <2>8, <2>9, <2>10 DEF Next
<1>2. RoutingInv /\ [Next]_vars => TakenByOwnerOrLoad
  BY <1>1 DEF TakenByOwnerOrLoad
<1>3. QED
  BY <1>2, RoutingInvariant, PTL DEF Spec, LateCleanupHarmless

\* A helper fenced by its disconnect never commits a session again.
THEOREM FencedNeverCommitsAlways == Spec => FencedNeverCommits
<1>1. ASSUME RoutingInv, [Next]_vars, NEW g \in fenced PROVE last'[g] \in {last[g], None}
  <2>1. g \in Helpers
    BY <1>1 DEF RoutingInv, Types
  <2>2. ASSUME NEW h \in Helpers, Work(h) PROVE last'[g] \in {last[g], None}
    BY <1>1, <2>1, <2>2 DEF RoutingInv, Types, Work, CloseGate, CloseGateTimeout, CloseRetires,
       CloseFails, NewPrior, NewReply, NewFails, Abandoned, RetireUnbound, Swap, LoadReply,
       LoadFails, LoadPrior, DestroyedTarget, DestroyedPrior, Commit, Rollback, RollbackClosed,
       CloseReturns, Cleanup, CleanupNext, CleanupClosed, CleanupDrop, Drop, CleanupDone
  <2>3. ASSUME NEW h \in Helpers, Request(h) \/ Disconnect(h) PROVE UNCHANGED last
    BY <2>3 DEF Request, NewSession, Refuse, LoadSession, CloseSession, Disconnect
  <2>4. CASE UNCHANGED vars
    BY <2>4 DEF vars
  <2>5. QED
    BY <1>1, <2>2, <2>3, <2>4 DEF Next
<1>2. RoutingInv /\ [Next]_vars => FencedGainsNothing
  BY <1>1 DEF FencedGainsNothing
<1>3. QED
  BY <1>2, RoutingInvariant, PTL DEF Spec, FencedNeverCommits

=============================================================================
