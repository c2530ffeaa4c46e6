----------------------- MODULE SessionOwnershipProofs -----------------------
(***************************************************************************)
(* Who owns a session, when helpers load only sessions that no other       *)
(* helper has (Exclusive): for every number of helpers, sessions and       *)
(* requests the tables that describe a session agree, a helper that is     *)
(* gone leaves nothing behind, and an orphan can be bound again.           *)
(*                                                                         *)
(* The argument: a session/load that has swapped the route owns its target *)
(* until it commits or rolls back (SwappedOwned), because no transaction   *)
(* of another helper works on the same session (TargetsApart); so a        *)
(* rollback gives the route back to the helper itself or to nobody, never  *)
(* to a helper that may have gone.  Exclusive is needed in one place,      *)
(* where a session/load begins.                                            *)
(***************************************************************************)
EXTENDS SessionRoutingProofs

InClose(h) == pc[h] \in {"close", "closing", "closed"}

\* The helper's session/load has put its route in place.
Swapped(h) == pc[h] \in {"loadCall", "commit", "rollback"} \/ (InClose(h) /\ step[h] = "load")

\* The markers follow the pipe, and what only a fenced helper does.
Lifecycle ==
    \A h \in Helpers :
        /\ conn[h] = "gone" <=> pc[h] = "gone"
        /\ h \in fenced <=> conn[h] = "lost"
        /\ pc[h] \in {"cleanup", "drop", "unbound"} => h \in fenced
        /\ InClose(h) /\ step[h] \in {"destroyed", "destroyedPrior", "abandon", "cleanup"} =>
              h \in fenced

\* What a transaction knows of the session it replaces.
Predecessor ==
    \A h \in Helpers :
        /\ InClose(h) /\ step[h] = "new" => arg[h] = last[h]
        /\ InClose(h) /\ step[h] = "load" => arg[h] = prior[h] /\ prior[h] # target[h]
        /\ pc[h] = "newCall" => last[h] = None
        /\ pc[h] = "swap" \/ Swapped(h) => h \in fenced \/ prior[h] = last[h]

\* A session that a helper loads belongs to nobody else and is loaded by nobody else.
TargetsApart ==
    \A h \in Helpers : target[h] # None =>
        /\ target[h] \in made
        /\ route[target[h]] \in {None, h}
        /\ \A g \in Helpers : target[g] = target[h] => g = h

\* After the swap the session is the helper's; before it, it was the helper's or
\* nobody's, and then it has neither row nor capability.
SwappedOwned ==
    \A h \in Helpers : Swapped(h) =>
        /\ target[h] # None
        /\ route[target[h]] = h /\ displaced[h] \in {None, h}
        /\ displaced[h] = None => target[h] \notin row /\ cap[target[h]] = None
        /\ pc[h] # "loadCall" /\ how[h] = "rebound" => target[h] \in open
        /\ h \in fenced \/ last[h] # target[h] \/ displaced[h] = h

\* An orphan belongs to nobody and is closed by nobody.
OrphansUnowned ==
    /\ \A s \in orphans : s \in open /\ route[s] = None
    /\ \A h \in Helpers : pc[h] = "rollbackClose" => target[h] # None /\ target[h] \notin orphans

\* A row or a capability belongs to a session with an owner.
LiveIsRouted == \A s \in Sessions : s \in row \/ cap[s] # None => route[s] # None

\* A helper owns what it last committed, unless it has just closed it.
CommittedOwned ==
    \A h \in Helpers :
        \/ h \in fenced \/ last[h] = None
        \/ pc[h] = "commit" \/ (pc[h] = "closed" /\ res[h] = "closed")
        \/ route[last[h]] = h /\ last[h] \in row

\* The cleanup has every route of its helper on its list, and leaves none.
CleanupComplete ==
    \A h \in Helpers :
        /\ pc[h] = "drop" => Routed(h) \subseteq todo[h]
        /\ conn[h] = "gone" =>
              Routed(h) = {} /\ h \notin pending \cup pendingCap /\ last[h] = None

Ownership ==
    /\ Lifecycle /\ Predecessor /\ TargetsApart /\ SwappedOwned /\ OrphansUnowned
    /\ LiveIsRouted /\ CommittedOwned /\ CleanupComplete

OwnershipInv == RoutingInv /\ Ownership

USE RoutingAssumption
USE DEF agentVars, tableVars, ownerVars, closeVars, loadVars, Callers, Goto, CallClose,
        ForgetClose, ForgetLoad, RetireExact, Publish, FinishFailed, FailAndReturn, Own,
        CanStart, Resumes, Replaces, AfterLoad, Restored, Routed, Nobody, Unowned, MayLoad,
        InClose, Swapped

\* Taking the gate of a session moves no route.
LEMMA CloseGateOwns ==
    ASSUME OwnershipInv, NEW h \in Helpers, CloseGate(h)
    PROVE  Ownership'
<1>1. Lifecycle'
  BY DEF OwnershipInv, Ownership, RoutingInv, Types, Lifecycle, CloseGate
<1>2. Predecessor'
  BY DEF OwnershipInv, Ownership, RoutingInv, Types, Predecessor, CloseGate
<1>3. TargetsApart'
  BY DEF OwnershipInv, Ownership, TargetsApart, CloseGate
<1>4. SwappedOwned'
  BY DEF OwnershipInv, Ownership, RoutingInv, Types, SwappedOwned, CloseGate
<1>5. OrphansUnowned'
  BY DEF OwnershipInv, Ownership, RoutingInv, Types, OrphansUnowned, CloseGate
<1>6. LiveIsRouted'
  BY DEF OwnershipInv, Ownership, LiveIsRouted, CloseGate
<1>7. CommittedOwned'
  BY DEF OwnershipInv, Ownership, RoutingInv, Types, CommittedOwned, CloseGate
<1>8. CleanupComplete'
  BY DEF OwnershipInv, Ownership, RoutingInv, Types, CleanupComplete, CloseGate
<1>9. QED
  BY <1>1, <1>2, <1>3, <1>4, <1>5, <1>6, <1>7, <1>8 DEF Ownership

\* A timed-out wait changes no shared state.
LEMMA CloseGateTimeoutOwns ==
    ASSUME OwnershipInv, NEW h \in Helpers, CloseGateTimeout(h)
    PROVE  Ownership'
<1>1. Lifecycle'
  BY DEF OwnershipInv, Ownership, Lifecycle, CloseGateTimeout
<1>2. Predecessor'
  BY DEF OwnershipInv, Ownership, Predecessor, CloseGateTimeout
<1>3. TargetsApart'
  BY DEF OwnershipInv, Ownership, TargetsApart, CloseGateTimeout
<1>4. SwappedOwned'
  BY DEF OwnershipInv, Ownership, SwappedOwned, CloseGateTimeout
<1>5. OrphansUnowned'
  BY DEF OwnershipInv, Ownership, OrphansUnowned, CloseGateTimeout
<1>6. LiveIsRouted'
  BY DEF OwnershipInv, Ownership, LiveIsRouted, CloseGateTimeout
<1>7. CommittedOwned'
  BY DEF OwnershipInv, Ownership, CommittedOwned, CloseGateTimeout
<1>8. CleanupComplete'
  BY DEF OwnershipInv, Ownership, CleanupComplete, CloseGateTimeout
<1>9. QED
  BY <1>1, <1>2, <1>3, <1>4, <1>5, <1>6, <1>7, <1>8 DEF Ownership

\* The owner of a session retires its route, its row and its capability together.
LEMMA CloseRetiresOwns ==
    ASSUME OwnershipInv, NEW h \in Helpers, CloseRetires(h)
    PROVE  Ownership'
<1>1. Lifecycle'
  BY DEF OwnershipInv, Ownership, Lifecycle, CloseRetires
<1>2. Predecessor'
  BY DEF OwnershipInv, Ownership, Predecessor, CloseRetires
<1>3. TargetsApart'
  BY DEF OwnershipInv, Ownership, TargetsApart, CloseRetires
<1>4. SwappedOwned'
  BY DEF OwnershipInv, Ownership, RoutingInv, Types, KnownSessions, RoutedMade, ClosingHolds,
     Lifecycle, Predecessor, TargetsApart, SwappedOwned, OrphansUnowned, LiveIsRouted,
     CommittedOwned, CloseRetires
<1>5. OrphansUnowned'
  BY DEF OwnershipInv, Ownership, RoutingInv, Types, KnownSessions, RoutedMade, ClosingHolds,
     RollbackHolds, TargetsApart, SwappedOwned, OrphansUnowned, CloseRetires
<1>6. LiveIsRouted'
  BY DEF OwnershipInv, Ownership, RoutingInv, Types, LiveIsRouted, CloseRetires
<1>7. CommittedOwned'
  BY DEF OwnershipInv, Ownership, RoutingInv, Types, KnownSessions, RoutedMade, ClosingHolds,
     Lifecycle, Predecessor, TargetsApart, SwappedOwned, CommittedOwned, CloseRetires
<1>8. CleanupComplete'
  BY DEF OwnershipInv, Ownership, CleanupComplete, CloseRetires
<1>9. QED
  BY <1>1, <1>2, <1>3, <1>4, <1>5, <1>6, <1>7, <1>8 DEF Ownership

\* The agent may have closed the owner's session, which is no orphan.
LEMMA CloseFailsOwns ==
    ASSUME OwnershipInv, NEW h \in Helpers, CloseFails(h)
    PROVE  Ownership'
<1>1. Lifecycle'
  BY DEF OwnershipInv, Ownership, Lifecycle, CloseFails
<1>2. Predecessor'
  BY DEF OwnershipInv, Ownership, Predecessor, CloseFails
<1>3. TargetsApart'
  BY DEF OwnershipInv, Ownership, TargetsApart, CloseFails
<1>4. SwappedOwned'
  BY DEF OwnershipInv, Ownership, RoutingInv, Types, KnownSessions, RoutedMade, ClosingHolds,
     Lifecycle, Predecessor, TargetsApart, SwappedOwned, OrphansUnowned, LiveIsRouted,
     CommittedOwned, CloseFails
<1>5. OrphansUnowned'
  BY DEF OwnershipInv, Ownership, RoutingInv, Types, KnownSessions, RoutedMade, ClosingHolds,
     RollbackHolds, TargetsApart, SwappedOwned, OrphansUnowned, CloseFails
<1>6. LiveIsRouted'
  BY DEF OwnershipInv, Ownership, LiveIsRouted, CloseFails
<1>7. CommittedOwned'
  BY DEF OwnershipInv, Ownership, CommittedOwned, CloseFails
<1>8. CleanupComplete'
  BY DEF OwnershipInv, Ownership, CleanupComplete, CloseFails
<1>9. QED
  BY <1>1, <1>2, <1>3, <1>4, <1>5, <1>6, <1>7, <1>8 DEF Ownership

\* session/new remembers the committed session as its predecessor.
LEMMA NewSessionOwns ==
    ASSUME OwnershipInv, NEW h \in Helpers, NewSession(h)
    PROVE  Ownership'
<1>1. Lifecycle'
  BY DEF OwnershipInv, Ownership, RoutingInv, Types, Lifecycle, NewSession
<1>2. Predecessor'
  BY DEF OwnershipInv, Ownership, RoutingInv, Types, Predecessor, NewSession
<1>3. TargetsApart'
  BY DEF OwnershipInv, Ownership, TargetsApart, NewSession
<1>4. SwappedOwned'
  BY DEF OwnershipInv, Ownership, RoutingInv, Types, SwappedOwned, NewSession
<1>5. OrphansUnowned'
  BY DEF OwnershipInv, Ownership, RoutingInv, Types, OrphansUnowned, NewSession
<1>6. LiveIsRouted'
  BY DEF OwnershipInv, Ownership, LiveIsRouted, NewSession
<1>7. CommittedOwned'
  BY DEF OwnershipInv, Ownership, RoutingInv, Types, CommittedOwned, NewSession
<1>8. CleanupComplete'
  BY DEF OwnershipInv, Ownership, RoutingInv, Types, CleanupComplete, NewSession
<1>9. QED
  BY <1>1, <1>2, <1>3, <1>4, <1>5, <1>6, <1>7, <1>8 DEF Ownership

\* The predecessor is gone and forgotten, or still owned.
LEMMA NewPriorOwns ==
    ASSUME OwnershipInv, NEW h \in Helpers, NewPrior(h)
    PROVE  Ownership'
<1>1. Lifecycle'
  BY DEF OwnershipInv, Ownership, RoutingInv, Types, Lifecycle, NewPrior
<1>2. Predecessor'
  BY DEF OwnershipInv, Ownership, RoutingInv, Types, Predecessor, NewPrior
<1>3. TargetsApart'
  BY DEF OwnershipInv, Ownership, RoutingInv, Types, TargetsApart, NewPrior
<1>4. SwappedOwned'
  BY DEF OwnershipInv, Ownership, RoutingInv, Types, SwappedOwned, NewPrior
<1>5. OrphansUnowned'
  BY DEF OwnershipInv, Ownership, RoutingInv, Types, OrphansUnowned, NewPrior
<1>6. LiveIsRouted'
  BY DEF OwnershipInv, Ownership, LiveIsRouted, NewPrior
<1>7. CommittedOwned'
  BY DEF OwnershipInv, Ownership, RoutingInv, Types, CommittedOwned, NewPrior
<1>8. CleanupComplete'
  BY DEF OwnershipInv, Ownership, RoutingInv, Types, KnownSessions, RoutedMade, ClosingHolds,
     Lifecycle, TargetsApart, SwappedOwned, CleanupComplete, NewPrior
<1>9. QED
  BY <1>1, <1>2, <1>3, <1>4, <1>5, <1>6, <1>7, <1>8 DEF Ownership

\* A fresh session collides with no target and no orphan.
LEMMA NewReplyOwns ==
    ASSUME OwnershipInv, NEW h \in Helpers, NEW s \in Sessions, NewReply(h, s)
    PROVE  Ownership'
<1>1. Lifecycle'
  BY DEF OwnershipInv, Ownership, RoutingInv, Types, Lifecycle, NewReply
<1>2. Predecessor'
  BY DEF OwnershipInv, Ownership, RoutingInv, Types, Predecessor, NewReply
<1>3. TargetsApart'
  BY DEF OwnershipInv, Ownership, TargetsApart, NewReply
<1>4. SwappedOwned'
  BY DEF OwnershipInv, Ownership, RoutingInv, Types, KnownSessions, SwappedOwned, NewReply
<1>5. OrphansUnowned'
  BY DEF OwnershipInv, Ownership, RoutingInv, Types, OrphansUnowned, NewReply
<1>6. LiveIsRouted'
  BY DEF OwnershipInv, Ownership, RoutingInv, Types, LiveIsRouted, NewReply
<1>7. CommittedOwned'
  BY DEF OwnershipInv, Ownership, RoutingInv, Types, KnownSessions, CommittedOwned, NewReply
<1>8. CleanupComplete'
  BY DEF OwnershipInv, Ownership, RoutingInv, Types, KnownSessions, RoutedMade, ClosingHolds,
     Lifecycle, TargetsApart, SwappedOwned, CleanupComplete, NewReply
<1>9. QED
  BY <1>1, <1>2, <1>3, <1>4, <1>5, <1>6, <1>7, <1>8 DEF Ownership

\* A failed session/new leaves the tables alone.
LEMMA NewFailsOwns ==
    ASSUME OwnershipInv, NEW h \in Helpers, NewFails(h)
    PROVE  Ownership'
<1>1. Lifecycle'
  BY DEF OwnershipInv, Ownership, Lifecycle, NewFails
<1>2. Predecessor'
  BY DEF OwnershipInv, Ownership, Predecessor, NewFails
<1>3. TargetsApart'
  BY DEF OwnershipInv, Ownership, TargetsApart, NewFails
<1>4. SwappedOwned'
  BY DEF OwnershipInv, Ownership, SwappedOwned, NewFails
<1>5. OrphansUnowned'
  BY DEF OwnershipInv, Ownership, OrphansUnowned, NewFails
<1>6. LiveIsRouted'
  BY DEF OwnershipInv, Ownership, LiveIsRouted, NewFails
<1>7. CommittedOwned'
  BY DEF OwnershipInv, Ownership, CommittedOwned, NewFails
<1>8. CleanupComplete'
  BY DEF OwnershipInv, Ownership, CleanupComplete, NewFails
<1>9. QED
  BY <1>1, <1>2, <1>3, <1>4, <1>5, <1>6, <1>7, <1>8 DEF Ownership

\* Only a fenced helper abandons a session.
LEMMA AbandonedOwns ==
    ASSUME OwnershipInv, NEW h \in Helpers, Abandoned(h)
    PROVE  Ownership'
<1>1. Lifecycle'
  BY DEF OwnershipInv, Ownership, RoutingInv, Types, Lifecycle, Abandoned
<1>2. Predecessor'
  BY DEF OwnershipInv, Ownership, RoutingInv, Types, Predecessor, Abandoned
<1>3. TargetsApart'
  BY DEF OwnershipInv, Ownership, TargetsApart, Abandoned
<1>4. SwappedOwned'
  BY DEF OwnershipInv, Ownership, RoutingInv, Types, SwappedOwned, Abandoned
<1>5. OrphansUnowned'
  BY DEF OwnershipInv, Ownership, RoutingInv, Types, OrphansUnowned, Abandoned
<1>6. LiveIsRouted'
  BY DEF OwnershipInv, Ownership, LiveIsRouted, Abandoned
<1>7. CommittedOwned'
  BY DEF OwnershipInv, Ownership, RoutingInv, Types, KnownSessions, RoutedMade, ClosingHolds,
     Lifecycle, Predecessor, TargetsApart, SwappedOwned, CommittedOwned, Abandoned
<1>8. CleanupComplete'
  BY DEF OwnershipInv, Ownership, RoutingInv, Types, CleanupComplete, Abandoned
<1>9. QED
  BY <1>1, <1>2, <1>3, <1>4, <1>5, <1>6, <1>7, <1>8 DEF Ownership

\* A session without an owner has nothing left to retire.
LEMMA RetireUnboundOwns ==
    ASSUME OwnershipInv, NEW h \in Helpers, RetireUnbound(h)
    PROVE  Ownership'
<1>1. Lifecycle'
  BY DEF OwnershipInv, Ownership, Lifecycle, RetireUnbound
<1>2. Predecessor'
  BY DEF OwnershipInv, Ownership, Predecessor, RetireUnbound
<1>3. TargetsApart'
  BY DEF OwnershipInv, Ownership, RoutingInv, Types, TargetsApart, RetireUnbound
<1>4. SwappedOwned'
  BY DEF OwnershipInv, Ownership, RoutingInv, Types, SwappedOwned, RetireUnbound
<1>5. OrphansUnowned'
  BY DEF OwnershipInv, Ownership, RoutingInv, Types, OrphansUnowned, RetireUnbound
<1>6. LiveIsRouted'
  BY DEF OwnershipInv, Ownership, RoutingInv, Types, LiveIsRouted, RetireUnbound
<1>7. CommittedOwned'
  BY DEF OwnershipInv, Ownership, RoutingInv, Types, CommittedOwned, RetireUnbound
<1>8. CleanupComplete'
  BY DEF OwnershipInv, Ownership, RoutingInv, Types, CleanupComplete, RetireUnbound
<1>9. QED
  BY <1>1, <1>2, <1>3, <1>4, <1>5, <1>6, <1>7, <1>8 DEF Ownership

\* The target belongs to nobody else.
LEMMA LoadSessionOwns ==
    ASSUME Exclusive, OwnershipInv, NEW h \in Helpers, NEW s \in Sessions, LoadSession(h, s)
    PROVE  Ownership'
<1>1. Lifecycle'
  BY DEF OwnershipInv, Ownership, Lifecycle, LoadSession
<1>2. Predecessor'
  BY DEF OwnershipInv, Ownership, RoutingInv, Types, Predecessor, LoadSession
<1>3. TargetsApart'
  BY DEF OwnershipInv, Ownership, TargetsApart, LoadSession
<1>4. SwappedOwned'
  BY DEF OwnershipInv, Ownership, SwappedOwned, LoadSession
<1>5. OrphansUnowned'
  BY DEF OwnershipInv, Ownership, OrphansUnowned, LoadSession
<1>6. LiveIsRouted'
  BY DEF OwnershipInv, Ownership, LiveIsRouted, LoadSession
<1>7. CommittedOwned'
  BY DEF OwnershipInv, Ownership, CommittedOwned, LoadSession
<1>8. CleanupComplete'
  BY DEF OwnershipInv, Ownership, CleanupComplete, LoadSession
<1>9. QED
  BY <1>1, <1>2, <1>3, <1>4, <1>5, <1>6, <1>7, <1>8 DEF Ownership

\* The route that is displaced is the helper's own, or none.
LEMMA SwapOwns ==
    ASSUME OwnershipInv, NEW h \in Helpers, Swap(h)
    PROVE  Ownership'
<1>1. Lifecycle'
  BY DEF OwnershipInv, Ownership, RoutingInv, Types, Lifecycle, Swap
<1>2. Predecessor'
  BY DEF OwnershipInv, Ownership, RoutingInv, Types, Predecessor, Swap
<1>3. TargetsApart'
  BY DEF OwnershipInv, Ownership, TargetsApart, Swap
<1>4. SwappedOwned'
  BY DEF OwnershipInv, Ownership, RoutingInv, Types, KnownSessions, RoutedMade, ClosingHolds,
     Lifecycle, Predecessor, TargetsApart, SwappedOwned, OrphansUnowned, LiveIsRouted,
     CommittedOwned, Swap
<1>5. OrphansUnowned'
  BY DEF OwnershipInv, Ownership, RoutingInv, Types, OrphansUnowned, Swap
<1>6. LiveIsRouted'
  BY DEF OwnershipInv, Ownership, LiveIsRouted, Swap
<1>7. CommittedOwned'
  BY DEF OwnershipInv, Ownership, RoutingInv, Types, KnownSessions, RoutedMade, ClosingHolds,
     Lifecycle, Predecessor, TargetsApart, SwappedOwned, CommittedOwned, Swap
<1>8. CleanupComplete'
  BY DEF OwnershipInv, Ownership, RoutingInv, Types, KnownSessions, RoutedMade, ClosingHolds,
     Lifecycle, TargetsApart, SwappedOwned, CleanupComplete, Swap
<1>9. QED
  BY <1>1, <1>2, <1>3, <1>4, <1>5, <1>6, <1>7, <1>8 DEF Ownership

\* A session the agent has already is open.
LEMMA LoadReplyOwns ==
    ASSUME OwnershipInv, NEW h \in Helpers, LoadReply(h)
    PROVE  Ownership'
<1>1. Lifecycle'
  BY DEF OwnershipInv, Ownership, RoutingInv, Types, Lifecycle, LoadReply
<1>2. Predecessor'
  BY DEF OwnershipInv, Ownership, RoutingInv, Types, Predecessor, LoadReply
<1>3. TargetsApart'
  BY DEF OwnershipInv, Ownership, TargetsApart, LoadReply
<1>4. SwappedOwned'
  BY DEF OwnershipInv, Ownership, RoutingInv, Types, SwappedOwned, LoadReply
<1>5. OrphansUnowned'
  BY DEF OwnershipInv, Ownership, RoutingInv, Types, OrphansUnowned, LoadReply
<1>6. LiveIsRouted'
  BY DEF OwnershipInv, Ownership, LiveIsRouted, LoadReply
<1>7. CommittedOwned'
  BY DEF OwnershipInv, Ownership, RoutingInv, Types, CommittedOwned, LoadReply
<1>8. CleanupComplete'
  BY DEF OwnershipInv, Ownership, RoutingInv, Types, CleanupComplete, LoadReply
<1>9. QED
  BY <1>1, <1>2, <1>3, <1>4, <1>5, <1>6, <1>7, <1>8 DEF Ownership

\* The rollback follows with the predecessor still owned.
LEMMA LoadFailsOwns ==
    ASSUME OwnershipInv, NEW h \in Helpers, LoadFails(h)
    PROVE  Ownership'
<1>1. Lifecycle'
  BY DEF OwnershipInv, Ownership, Lifecycle, LoadFails
<1>2. Predecessor'
  BY DEF OwnershipInv, Ownership, Predecessor, LoadFails
<1>3. TargetsApart'
  BY DEF OwnershipInv, Ownership, TargetsApart, LoadFails
<1>4. SwappedOwned'
  BY DEF OwnershipInv, Ownership, RoutingInv, Types, SwappedOwned, LoadFails
<1>5. OrphansUnowned'
  BY DEF OwnershipInv, Ownership, OrphansUnowned, LoadFails
<1>6. LiveIsRouted'
  BY DEF OwnershipInv, Ownership, LiveIsRouted, LoadFails
<1>7. CommittedOwned'
  BY DEF OwnershipInv, Ownership, CommittedOwned, LoadFails
<1>8. CleanupComplete'
  BY DEF OwnershipInv, Ownership, CleanupComplete, LoadFails
<1>9. QED
  BY <1>1, <1>2, <1>3, <1>4, <1>5, <1>6, <1>7, <1>8 DEF Ownership

\* The predecessor is closed, or the rollback follows with it still owned.
LEMMA LoadPriorOwns ==
    ASSUME OwnershipInv, NEW h \in Helpers, LoadPrior(h)
    PROVE  Ownership'
<1>1. Lifecycle'
  BY DEF OwnershipInv, Ownership, RoutingInv, Types, Lifecycle, LoadPrior
<1>2. Predecessor'
  BY DEF OwnershipInv, Ownership, RoutingInv, Types, Predecessor, LoadPrior
<1>3. TargetsApart'
  BY DEF OwnershipInv, Ownership, TargetsApart, LoadPrior
<1>4. SwappedOwned'
  BY DEF OwnershipInv, Ownership, RoutingInv, Types, SwappedOwned, LoadPrior
<1>5. OrphansUnowned'
  BY DEF OwnershipInv, Ownership, RoutingInv, Types, OrphansUnowned, LoadPrior
<1>6. LiveIsRouted'
  BY DEF OwnershipInv, Ownership, LiveIsRouted, LoadPrior
<1>7. CommittedOwned'
  BY DEF OwnershipInv, Ownership, RoutingInv, Types, CommittedOwned, LoadPrior
<1>8. CleanupComplete'
  BY DEF OwnershipInv, Ownership, RoutingInv, Types, CleanupComplete, LoadPrior
<1>9. QED
  BY <1>1, <1>2, <1>3, <1>4, <1>5, <1>6, <1>7, <1>8 DEF Ownership

\* Only a fenced helper gives its target back.
LEMMA DestroyedTargetOwns ==
    ASSUME OwnershipInv, NEW h \in Helpers, DestroyedTarget(h)
    PROVE  Ownership'
<1>1. Lifecycle'
  BY DEF OwnershipInv, Ownership, RoutingInv, Types, Lifecycle, DestroyedTarget
<1>2. Predecessor'
  BY DEF OwnershipInv, Ownership, RoutingInv, Types, Predecessor, DestroyedTarget
<1>3. TargetsApart'
  BY DEF OwnershipInv, Ownership, RoutingInv, Types, TargetsApart, DestroyedTarget
<1>4. SwappedOwned'
  BY DEF OwnershipInv, Ownership, RoutingInv, Types, SwappedOwned, DestroyedTarget
<1>5. OrphansUnowned'
  BY DEF OwnershipInv, Ownership, RoutingInv, Types, OrphansUnowned, DestroyedTarget
<1>6. LiveIsRouted'
  BY DEF OwnershipInv, Ownership, LiveIsRouted, DestroyedTarget
<1>7. CommittedOwned'
  BY DEF OwnershipInv, Ownership, RoutingInv, Types, KnownSessions, RoutedMade, ClosingHolds,
     Lifecycle, Predecessor, TargetsApart, SwappedOwned, CommittedOwned, DestroyedTarget
<1>8. CleanupComplete'
  BY DEF OwnershipInv, Ownership, RoutingInv, Types, CleanupComplete, DestroyedTarget
<1>9. QED
  BY <1>1, <1>2, <1>3, <1>4, <1>5, <1>6, <1>7, <1>8 DEF Ownership

\* Only a fenced helper closes both sessions.
LEMMA DestroyedPriorOwns ==
    ASSUME OwnershipInv, NEW h \in Helpers, DestroyedPrior(h)
    PROVE  Ownership'
<1>1. Lifecycle'
  BY DEF OwnershipInv, Ownership, Lifecycle, DestroyedPrior
<1>2. Predecessor'
  BY DEF OwnershipInv, Ownership, RoutingInv, Types, Predecessor, DestroyedPrior
<1>3. TargetsApart'
  BY DEF OwnershipInv, Ownership, TargetsApart, DestroyedPrior
<1>4. SwappedOwned'
  BY DEF OwnershipInv, Ownership, RoutingInv, Types, SwappedOwned, DestroyedPrior
<1>5. OrphansUnowned'
  BY DEF OwnershipInv, Ownership, OrphansUnowned, DestroyedPrior
<1>6. LiveIsRouted'
  BY DEF OwnershipInv, Ownership, LiveIsRouted, DestroyedPrior
<1>7. CommittedOwned'
  BY DEF OwnershipInv, Ownership, RoutingInv, Types, KnownSessions, RoutedMade, ClosingHolds,
     Lifecycle, Predecessor, TargetsApart, SwappedOwned, CommittedOwned, DestroyedPrior
<1>8. CleanupComplete'
  BY DEF OwnershipInv, Ownership, CleanupComplete, DestroyedPrior
<1>9. QED
  BY <1>1, <1>2, <1>3, <1>4, <1>5, <1>6, <1>7, <1>8 DEF Ownership

\* The target is owned when its row is published.
LEMMA CommitOwns ==
    ASSUME OwnershipInv, NEW h \in Helpers, Commit(h)
    PROVE  Ownership'
<1>1. Lifecycle'
  BY DEF OwnershipInv, Ownership, RoutingInv, Types, Lifecycle, Commit
<1>2. Predecessor'
  BY DEF OwnershipInv, Ownership, RoutingInv, Types, Predecessor, Commit
<1>3. TargetsApart'
  BY DEF OwnershipInv, Ownership, RoutingInv, Types, TargetsApart, Commit
<1>4. SwappedOwned'
  BY DEF OwnershipInv, Ownership, RoutingInv, Types, SwappedOwned, Commit
<1>5. OrphansUnowned'
  BY DEF OwnershipInv, Ownership, RoutingInv, Types, OrphansUnowned, Commit
<1>6. LiveIsRouted'
  BY DEF OwnershipInv, Ownership, RoutingInv, Types, KnownSessions, RoutedMade, ClosingHolds,
     SwappedOwned, LiveIsRouted, Commit
<1>7. CommittedOwned'
  BY DEF OwnershipInv, Ownership, RoutingInv, Types, KnownSessions, RoutedMade, ClosingHolds,
     Lifecycle, Predecessor, TargetsApart, SwappedOwned, CommittedOwned, Commit
<1>8. CleanupComplete'
  BY DEF OwnershipInv, Ownership, RoutingInv, Types, KnownSessions, RoutedMade, ClosingHolds,
     Lifecycle, TargetsApart, SwappedOwned, CleanupComplete, Commit
<1>9. QED
  BY <1>1, <1>2, <1>3, <1>4, <1>5, <1>6, <1>7, <1>8 DEF Ownership

\* The route goes back to the helper itself or to nobody; then the session has no row.
LEMMA RollbackOwns ==
    ASSUME OwnershipInv, NEW h \in Helpers, Rollback(h)
    PROVE  Ownership'
<1>1. Lifecycle'
  BY DEF OwnershipInv, Ownership, RoutingInv, Types, Lifecycle, Rollback
<1>2. Predecessor'
  BY DEF OwnershipInv, Ownership, RoutingInv, Types, Predecessor, Rollback
<1>3. TargetsApart'
  BY DEF OwnershipInv, Ownership, RoutingInv, Types, TargetsApart, Rollback
<1>4. SwappedOwned'
  BY DEF OwnershipInv, Ownership, RoutingInv, Types, SwappedOwned, Rollback
<1>5. OrphansUnowned'
  BY DEF OwnershipInv, Ownership, RoutingInv, Types, KnownSessions, RoutedMade, ClosingHolds,
     RollbackHolds, TargetsApart, SwappedOwned, OrphansUnowned, Rollback
<1>6. LiveIsRouted'
  BY DEF OwnershipInv, Ownership, RoutingInv, Types, KnownSessions, RoutedMade, ClosingHolds,
     SwappedOwned, LiveIsRouted, Rollback
<1>7. CommittedOwned'
  BY DEF OwnershipInv, Ownership, RoutingInv, Types, KnownSessions, RoutedMade, ClosingHolds,
     Lifecycle, Predecessor, TargetsApart, SwappedOwned, CommittedOwned, Rollback
<1>8. CleanupComplete'
  BY DEF OwnershipInv, Ownership, RoutingInv, Types, KnownSessions, RoutedMade, ClosingHolds,
     Lifecycle, TargetsApart, SwappedOwned, CleanupComplete, Rollback
<1>9. QED
  BY <1>1, <1>2, <1>3, <1>4, <1>5, <1>6, <1>7, <1>8 DEF Ownership

\* The session closed by a rollback is no orphan.
LEMMA RollbackClosedOwns ==
    ASSUME OwnershipInv, NEW h \in Helpers, RollbackClosed(h)
    PROVE  Ownership'
<1>1. Lifecycle'
  BY DEF OwnershipInv, Ownership, Lifecycle, RollbackClosed
<1>2. Predecessor'
  BY DEF OwnershipInv, Ownership, Predecessor, RollbackClosed
<1>3. TargetsApart'
  BY DEF OwnershipInv, Ownership, TargetsApart, RollbackClosed
<1>4. SwappedOwned'
  BY DEF OwnershipInv, Ownership, RoutingInv, Types, KnownSessions, RoutedMade, ClosingHolds,
     Lifecycle, Predecessor, TargetsApart, SwappedOwned, OrphansUnowned, LiveIsRouted,
     CommittedOwned, RollbackClosed
<1>5. OrphansUnowned'
  BY DEF OwnershipInv, Ownership, RoutingInv, Types, OrphansUnowned, RollbackClosed
<1>6. LiveIsRouted'
  BY DEF OwnershipInv, Ownership, LiveIsRouted, RollbackClosed
<1>7. CommittedOwned'
  BY DEF OwnershipInv, Ownership, CommittedOwned, RollbackClosed
<1>8. CleanupComplete'
  BY DEF OwnershipInv, Ownership, CleanupComplete, RollbackClosed
<1>9. QED
  BY <1>1, <1>2, <1>3, <1>4, <1>5, <1>6, <1>7, <1>8 DEF Ownership

\* session/close begins.
LEMMA CloseSessionOwns ==
    ASSUME OwnershipInv, NEW h \in Helpers, NEW s \in Sessions, CloseSession(h, s)
    PROVE  Ownership'
<1>1. Lifecycle'
  BY DEF OwnershipInv, Ownership, RoutingInv, Types, Lifecycle, CloseSession
<1>2. Predecessor'
  BY DEF OwnershipInv, Ownership, RoutingInv, Types, Predecessor, CloseSession
<1>3. TargetsApart'
  BY DEF OwnershipInv, Ownership, TargetsApart, CloseSession
<1>4. SwappedOwned'
  BY DEF OwnershipInv, Ownership, RoutingInv, Types, SwappedOwned, CloseSession
<1>5. OrphansUnowned'
  BY DEF OwnershipInv, Ownership, OrphansUnowned, CloseSession
<1>6. LiveIsRouted'
  BY DEF OwnershipInv, Ownership, LiveIsRouted, CloseSession
<1>7. CommittedOwned'
  BY DEF OwnershipInv, Ownership, CommittedOwned, CloseSession
<1>8. CleanupComplete'
  BY DEF OwnershipInv, Ownership, CleanupComplete, CloseSession
<1>9. QED
  BY <1>1, <1>2, <1>3, <1>4, <1>5, <1>6, <1>7, <1>8 DEF Ownership

\* A helper whose session is closed forgets what it committed.
LEMMA CloseReturnsOwns ==
    ASSUME OwnershipInv, NEW h \in Helpers, CloseReturns(h)
    PROVE  Ownership'
<1>1. Lifecycle'
  BY DEF OwnershipInv, Ownership, RoutingInv, Types, Lifecycle, CloseReturns
<1>2. Predecessor'
  BY DEF OwnershipInv, Ownership, RoutingInv, Types, Predecessor, CloseReturns
<1>3. TargetsApart'
  BY DEF OwnershipInv, Ownership, TargetsApart, CloseReturns
<1>4. SwappedOwned'
  BY DEF OwnershipInv, Ownership, RoutingInv, Types, SwappedOwned, CloseReturns
<1>5. OrphansUnowned'
  BY DEF OwnershipInv, Ownership, OrphansUnowned, CloseReturns
<1>6. LiveIsRouted'
  BY DEF OwnershipInv, Ownership, LiveIsRouted, CloseReturns
<1>7. CommittedOwned'
  BY DEF OwnershipInv, Ownership, RoutingInv, Types, CommittedOwned, CloseReturns
<1>8. CleanupComplete'
  BY DEF OwnershipInv, Ownership, CleanupComplete, CloseReturns
<1>9. QED
  BY <1>1, <1>2, <1>3, <1>4, <1>5, <1>6, <1>7, <1>8 DEF Ownership

\* A refused request changes nothing.
LEMMA RefuseOwns ==
    ASSUME OwnershipInv, NEW h \in Helpers, Refuse(h)
    PROVE  Ownership'
<1>1. Lifecycle'
  BY DEF OwnershipInv, Ownership, Lifecycle, Refuse
<1>2. Predecessor'
  BY DEF OwnershipInv, Ownership, Predecessor, Refuse
<1>3. TargetsApart'
  BY DEF OwnershipInv, Ownership, TargetsApart, Refuse
<1>4. SwappedOwned'
  BY DEF OwnershipInv, Ownership, SwappedOwned, Refuse
<1>5. OrphansUnowned'
  BY DEF OwnershipInv, Ownership, OrphansUnowned, Refuse
<1>6. LiveIsRouted'
  BY DEF OwnershipInv, Ownership, LiveIsRouted, Refuse
<1>7. CommittedOwned'
  BY DEF OwnershipInv, Ownership, CommittedOwned, Refuse
<1>8. CleanupComplete'
  BY DEF OwnershipInv, Ownership, CleanupComplete, Refuse
<1>9. QED
  BY <1>1, <1>2, <1>3, <1>4, <1>5, <1>6, <1>7, <1>8 DEF Ownership

\* A disconnect fences the helper and drops its transaction.
LEMMA DisconnectOwns ==
    ASSUME OwnershipInv, NEW h \in Helpers, Disconnect(h)
    PROVE  Ownership'
<1>1. Lifecycle'
  BY DEF OwnershipInv, Ownership, RoutingInv, Types, Lifecycle, Disconnect
<1>2. Predecessor'
  BY DEF OwnershipInv, Ownership, RoutingInv, Types, Predecessor, Disconnect
<1>3. TargetsApart'
  BY DEF OwnershipInv, Ownership, RoutingInv, Types, TargetsApart, Disconnect
<1>4. SwappedOwned'
  BY DEF OwnershipInv, Ownership, RoutingInv, Types, SwappedOwned, Disconnect
<1>5. OrphansUnowned'
  BY DEF OwnershipInv, Ownership, RoutingInv, Types, OrphansUnowned, Disconnect
<1>6. LiveIsRouted'
  BY DEF OwnershipInv, Ownership, LiveIsRouted, Disconnect
<1>7. CommittedOwned'
  BY DEF OwnershipInv, Ownership, RoutingInv, Types, CommittedOwned, Disconnect
<1>8. CleanupComplete'
  BY DEF OwnershipInv, Ownership, RoutingInv, Types, CleanupComplete, Disconnect
<1>9. QED
  BY <1>1, <1>2, <1>3, <1>4, <1>5, <1>6, <1>7, <1>8 DEF Ownership

\* The cleanup begins.
LEMMA CleanupOwns ==
    ASSUME OwnershipInv, NEW h \in Helpers, Cleanup(h)
    PROVE  Ownership'
<1>1. Lifecycle'
  BY DEF OwnershipInv, Ownership, Lifecycle, Cleanup
<1>2. Predecessor'
  BY DEF OwnershipInv, Ownership, Predecessor, Cleanup
<1>3. TargetsApart'
  BY DEF OwnershipInv, Ownership, TargetsApart, Cleanup
<1>4. SwappedOwned'
  BY DEF OwnershipInv, Ownership, SwappedOwned, Cleanup
<1>5. OrphansUnowned'
  BY DEF OwnershipInv, Ownership, OrphansUnowned, Cleanup
<1>6. LiveIsRouted'
  BY DEF OwnershipInv, Ownership, LiveIsRouted, Cleanup
<1>7. CommittedOwned'
  BY DEF OwnershipInv, Ownership, CommittedOwned, Cleanup
<1>8. CleanupComplete'
  BY DEF OwnershipInv, Ownership, CleanupComplete, Cleanup
<1>9. QED
  BY <1>1, <1>2, <1>3, <1>4, <1>5, <1>6, <1>7, <1>8 DEF Ownership

\* The cleanup closes the next session.
LEMMA CleanupNextOwns ==
    ASSUME OwnershipInv, NEW h \in Helpers, CleanupNext(h)
    PROVE  Ownership'
<1>1. Lifecycle'
  BY DEF OwnershipInv, Ownership, Lifecycle, CleanupNext
<1>2. Predecessor'
  BY DEF OwnershipInv, Ownership, RoutingInv, Types, Predecessor, CleanupNext
<1>3. TargetsApart'
  BY DEF OwnershipInv, Ownership, TargetsApart, CleanupNext
<1>4. SwappedOwned'
  BY DEF OwnershipInv, Ownership, RoutingInv, Types, SwappedOwned, CleanupNext
<1>5. OrphansUnowned'
  BY DEF OwnershipInv, Ownership, OrphansUnowned, CleanupNext
<1>6. LiveIsRouted'
  BY DEF OwnershipInv, Ownership, LiveIsRouted, CleanupNext
<1>7. CommittedOwned'
  BY DEF OwnershipInv, Ownership, CommittedOwned, CleanupNext
<1>8. CleanupComplete'
  BY DEF OwnershipInv, Ownership, CleanupComplete, CleanupNext
<1>9. QED
  BY <1>1, <1>2, <1>3, <1>4, <1>5, <1>6, <1>7, <1>8 DEF Ownership

\* The close returns to the cleanup.
LEMMA CleanupClosedOwns ==
    ASSUME OwnershipInv, NEW h \in Helpers, CleanupClosed(h)
    PROVE  Ownership'
<1>1. Lifecycle'
  BY DEF OwnershipInv, Ownership, Lifecycle, CleanupClosed
<1>2. Predecessor'
  BY DEF OwnershipInv, Ownership, RoutingInv, Types, Predecessor, CleanupClosed
<1>3. TargetsApart'
  BY DEF OwnershipInv, Ownership, TargetsApart, CleanupClosed
<1>4. SwappedOwned'
  BY DEF OwnershipInv, Ownership, RoutingInv, Types, SwappedOwned, CleanupClosed
<1>5. OrphansUnowned'
  BY DEF OwnershipInv, Ownership, OrphansUnowned, CleanupClosed
<1>6. LiveIsRouted'
  BY DEF OwnershipInv, Ownership, LiveIsRouted, CleanupClosed
<1>7. CommittedOwned'
  BY DEF OwnershipInv, Ownership, RoutingInv, Types, KnownSessions, RoutedMade, ClosingHolds,
     Lifecycle, Predecessor, TargetsApart, SwappedOwned, CommittedOwned, CleanupClosed
<1>8. CleanupComplete'
  BY DEF OwnershipInv, Ownership, CleanupComplete, CleanupClosed
<1>9. QED
  BY <1>1, <1>2, <1>3, <1>4, <1>5, <1>6, <1>7, <1>8 DEF Ownership

\* Every route the helper still has is listed.
LEMMA CleanupDropOwns ==
    ASSUME OwnershipInv, NEW h \in Helpers, CleanupDrop(h)
    PROVE  Ownership'
<1>1. Lifecycle'
  BY DEF OwnershipInv, Ownership, Lifecycle, CleanupDrop
<1>2. Predecessor'
  BY DEF OwnershipInv, Ownership, Predecessor, CleanupDrop
<1>3. TargetsApart'
  BY DEF OwnershipInv, Ownership, TargetsApart, CleanupDrop
<1>4. SwappedOwned'
  BY DEF OwnershipInv, Ownership, SwappedOwned, CleanupDrop
<1>5. OrphansUnowned'
  BY DEF OwnershipInv, Ownership, OrphansUnowned, CleanupDrop
<1>6. LiveIsRouted'
  BY DEF OwnershipInv, Ownership, LiveIsRouted, CleanupDrop
<1>7. CommittedOwned'
  BY DEF OwnershipInv, Ownership, CommittedOwned, CleanupDrop
<1>8. CleanupComplete'
  BY DEF OwnershipInv, Ownership, RoutingInv, Types, CleanupComplete, CleanupDrop
<1>9. QED
  BY <1>1, <1>2, <1>3, <1>4, <1>5, <1>6, <1>7, <1>8 DEF Ownership

\* A listed route is removed.
LEMMA DropOwns ==
    ASSUME OwnershipInv, NEW h \in Helpers, Drop(h)
    PROVE  Ownership'
<1>1. Lifecycle'
  BY DEF OwnershipInv, Ownership, Lifecycle, Drop
<1>2. Predecessor'
  BY DEF OwnershipInv, Ownership, Predecessor, Drop
<1>3. TargetsApart'
  BY DEF OwnershipInv, Ownership, RoutingInv, Types, TargetsApart, Drop
<1>4. SwappedOwned'
  BY DEF OwnershipInv, Ownership, RoutingInv, Types, SwappedOwned, Drop
<1>5. OrphansUnowned'
  BY DEF OwnershipInv, Ownership, RoutingInv, Types, OrphansUnowned, Drop
<1>6. LiveIsRouted'
  BY DEF OwnershipInv, Ownership, RoutingInv, Types, LiveIsRouted, Drop
<1>7. CommittedOwned'
  BY DEF OwnershipInv, Ownership, RoutingInv, Types, KnownSessions, RoutedMade, ClosingHolds,
     Lifecycle, Predecessor, TargetsApart, SwappedOwned, CommittedOwned, Drop
<1>8. CleanupComplete'
  BY DEF OwnershipInv, Ownership, RoutingInv, Types, CleanupComplete, Drop
<1>9. QED
  BY <1>1, <1>2, <1>3, <1>4, <1>5, <1>6, <1>7, <1>8 DEF Ownership

\* No route is left when the helper is forgotten.
LEMMA CleanupDoneOwns ==
    ASSUME OwnershipInv, NEW h \in Helpers, CleanupDone(h)
    PROVE  Ownership'
<1>1. Lifecycle'
  BY DEF OwnershipInv, Ownership, RoutingInv, Types, Lifecycle, CleanupDone
<1>2. Predecessor'
  BY DEF OwnershipInv, Ownership, Predecessor, CleanupDone
<1>3. TargetsApart'
  BY DEF OwnershipInv, Ownership, TargetsApart, CleanupDone
<1>4. SwappedOwned'
  BY DEF OwnershipInv, Ownership, SwappedOwned, CleanupDone
<1>5. OrphansUnowned'
  BY DEF OwnershipInv, Ownership, OrphansUnowned, CleanupDone
<1>6. LiveIsRouted'
  BY DEF OwnershipInv, Ownership, LiveIsRouted, CleanupDone
<1>7. CommittedOwned'
  BY DEF OwnershipInv, Ownership, RoutingInv, Types, CommittedOwned, CleanupDone
<1>8. CleanupComplete'
  BY DEF OwnershipInv, Ownership, RoutingInv, Types, CleanupComplete, CleanupDone
<1>9. QED
  BY <1>1, <1>2, <1>3, <1>4, <1>5, <1>6, <1>7, <1>8 DEF Ownership
-----------------------------------------------------------------------------

\* Initially no helper has begun anything.
LEMMA InitOwns == Init => Ownership
  BY DEF Init, Ownership, Lifecycle, Predecessor, TargetsApart, SwappedOwned, OrphansUnowned,
     LiveIsRouted, CommittedOwned, CleanupComplete

\* Every step preserves the invariant; whose turn it is does not matter.
LEMMA NextOwns ==
    ASSUME Exclusive, OwnershipInv, [Next]_vars
    PROVE  OwnershipInv'
<1>1. ASSUME NEW h \in Helpers, Work(h) PROVE Ownership'
  BY <1>1, CloseGateOwns, CloseGateTimeoutOwns, CloseRetiresOwns, CloseFailsOwns, NewPriorOwns,
     NewFailsOwns, AbandonedOwns, RetireUnboundOwns, NewReplyOwns, SwapOwns, LoadReplyOwns,
     LoadFailsOwns, LoadPriorOwns, DestroyedTargetOwns, DestroyedPriorOwns, CommitOwns,
     RollbackOwns, RollbackClosedOwns, CloseReturnsOwns, CleanupOwns, CleanupNextOwns,
     CleanupClosedOwns, CleanupDropOwns, DropOwns, CleanupDoneOwns DEF Work
<1>2. ASSUME NEW h \in Helpers, Request(h) \/ Disconnect(h) PROVE Ownership'
  BY <1>2, NewSessionOwns, RefuseOwns, LoadSessionOwns, CloseSessionOwns, DisconnectOwns
     DEF Request
<1>3. ASSUME UNCHANGED vars PROVE Ownership'
  BY <1>3 DEF vars, OwnershipInv, Ownership, Lifecycle, Predecessor, TargetsApart, SwappedOwned,
     OrphansUnowned, LiveIsRouted, CommittedOwned, CleanupComplete
<1>4. RoutingInv'
  BY NextRoutingInv DEF OwnershipInv
<1>5. QED
  BY <1>1, <1>2, <1>3, <1>4 DEF Next, OwnershipInv

\* OwnershipInv holds throughout, for helpers that keep to their own sessions.
THEOREM OwnershipInvariant == ASSUME Exclusive PROVE Spec => []OwnershipInv
<1>1. Init => OwnershipInv
  BY InitRoutingInv, InitOwns DEF OwnershipInv
<1>2. OwnershipInv /\ [Next]_vars => OwnershipInv'
  BY NextOwns
<1>3. QED
  BY <1>1, <1>2, PTL DEF Spec

\* The route table, the registry and the capabilities agree, and between
\* transactions a helper owns what it last committed, also after a failed close
\* of the predecessor, a failed load and its rollback.
THEOREM TablesAgreeAlways == ASSUME Exclusive PROVE Spec => []TablesAgree
<1>1. OwnershipInv => TablesAgree
  BY DEF OwnershipInv, Ownership, LiveIsRouted, CommittedOwned, TablesAgree
<1>2. QED
  BY <1>1, OwnershipInvariant, PTL

\* cleanup_disconnected_helper is complete: no route, no transaction and no
\* capability of a helper is left, and none is put back later.
THEOREM NothingOutlivesHelperAlways == ASSUME Exclusive PROVE Spec => []NothingOutlivesHelper
<1>1. OwnershipInv => NothingOutlivesHelper
  BY DEF OwnershipInv, Ownership, Lifecycle, CleanupComplete, NothingOutlivesHelper
<1>2. QED
  BY <1>1, OwnershipInvariant, PTL

\* A session listed as an orphan by a rollback is one the agent still holds, so
\* that the next session/load may bind it without asking the agent.
THEOREM OrphanIsOpenAlways == ASSUME Exclusive PROVE Spec => []OrphanIsOpen
<1>1. OwnershipInv => OrphanIsOpen
  BY DEF OwnershipInv, Ownership, OrphansUnowned, OrphanIsOpen
<1>2. QED
  BY <1>1, OwnershipInvariant, PTL

=============================================================================
