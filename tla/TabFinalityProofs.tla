------------------------- MODULE TabFinalityProofs --------------------------
(***************************************************************************)
(* Proofs about what the master owes the helpers of a tab.  Retirement is  *)
(* final, only helpers of retired tabs are turned away, nothing is left of *)
(* a helper that is gone, and what an operation reports is true.  Each     *)
(* needs more of Windows Terminal and of the helpers than the invariants   *)
(* of TabRetirementProofs; the hypotheses of the theorems say what.        *)
(***************************************************************************)
EXTENDS TabRetirementProofs

-----------------------------------------------------------------------------
(* The tabs that helpers publish. *)

\* A helper publishes the tab it is in.
Homes ==
    \A h \in Helpers :
        /\ home[h] = tabOf[h]
        /\ owner[h] \in {None, tabOf[h]} /\ pend[h] \in {None, tabOf[h]}

HomeInv == AllInv /\ Homes

-----------------------------------------------------------------------------
(* Retirement is final. *)

\* The helper cannot commit again, by whichever of the three records.
Retired(h) ==
    \/ conn[h] = "gone"
    \/ h \in destructive
    \/ Unpublished(h) /\ (h \in denied \/ tabOf[h] \in unresolved[h])

\* A transaction in flight has published its owner, or cannot commit.
InFlight == \A h \in Helpers : pc[h] # "idle" => pend[h] # None \/ h \in destructive

\* A helper that an operation cleans up, or closes a session of, is marked.
Captured ==
    /\ \A o \in Ops : \A h \in todo[o] : conn[h] = "gone" \/ h \in destructive
    /\ \A h \in allOut : conn[h] = "gone" \/ h \in destructive
    /\ \A o \in TabOps : \A s \in Sessions :
          job[o][s] # "none" => conn[s[1]] = "gone" \/ s[1] \in destructive

\* Of two helpers in one tab at least one owns nothing and is retired.
SoleOwner ==
    \A g, h \in Helpers : g # h /\ tabOf[g] = tabOf[h] /\ tabOf[g] # None =>
        \/ Unpublished(g) /\ Retired(g)
        \/ Unpublished(h) /\ Retired(h)

\* The helpers of the tabs that operations have retired cannot commit.
HitRetired == \A o \in Ops : \A h \in hit[o] : Retired(h)

Finality == InFlight /\ Captured /\ SoleOwner /\ HitRetired
FinalInv == HomeInv /\ Finality

-----------------------------------------------------------------------------
(* Only retired helpers are turned away. *)

\* The safety record never overflows, and names known tabs.
Unresolved ==
    /\ denied = {}
    /\ \A h \in Helpers : \A t \in unresolved[h] : Known(t)

\* A helper that a safety record or a fence refuses was in a retired tab.
RefusedDoomed ==
    /\ \A h \in Helpers : tabOf[h] \in unresolved[h] => h \in Doomed
    /\ \A t \in Tabs : fence[t] # None => fence[t].out \subseteq Doomed

Refusals == Unresolved /\ RefusedDoomed /\ ReplacementNotBlocked
RefusalInv == HomeInv /\ Refusals

-----------------------------------------------------------------------------
(* Nothing is left of a helper that is gone. *)

\* A helper that is gone is in no marker and no safety record.
GoneUnmarked ==
    \A h \in Helpers : conn[h] = "gone" =>
        h \notin closing \cup destructive \cup active \cup late \cup denied /\ unresolved[h] = {}

\* Whoever holds the gate of a session is at closing it.
GateHeld ==
    \A s \in Sessions :
        /\ gate[s] \in Helpers => /\ s = <<gate[s], work[gate[s]]>>
                                  /\ pc[gate[s]] \in {"priorAgent", "lateAgent", "cleanAgent"}
        /\ \A o \in Ops : gate[s] = o => job[o][s] = "agent"

\* An operation on a tab closes sessions of the helper it cleans up.
OwnTodo ==
    /\ \A o \in TabOps : status[o] = "fenced" =>
          \A h \in Helpers : tabOf[h] = Current(tab[o]) /\ ~ Unpublished(h) => h \in todo[o]
    /\ \A o \in TabOps : \A s \in Sessions : job[o][s] # "none" => s[1] \in todo[o]

\* A route belongs to a helper that is connected or has still to be cleaned up.
RouteKept ==
    \A s \in routed : s[1] \in Connected \/ \E o \in Destructive : s[1] \in todo[o]

Traces == GoneUnmarked /\ GateHeld /\ OwnTodo /\ RouteKept
TraceInv == FinalInv /\ Traces

-----------------------------------------------------------------------------
(* The report is true. *)

\* Only a retirement cleans up helpers, which it has marked, and only one of all
\* tabs puts routes back.
CleanedUp ==
    /\ \A o \in Ops : status[o] = "none" => done[o] = {}
    /\ \A o \in Ops : o \notin Destructive => todo[o] = {}
    /\ \A o \in Ops : \A h \in done[o] : conn[h] = "gone" \/ h \in destructive
    /\ \A o \in Ops : \A s \in Sessions : job[o][s] = "restore" => o \in AllOps

\* A helper whose pending record the close of its session will remove has none.
Undeferred ==
    \A o \in TabOps : \A s \in Sessions :
        job[o][s] # "none" /\ o \notin deferred => pend[s[1]] = None

\* An operation that cleaned up after the helper reports a failure.
Failed(h) == \E o \in Destructive : h \in done[o] /\ o \notin ok

\* A transaction is on record, so that the cleanup waits for it, or its loss is
\* reported.
Awaited == \A h \in Helpers : conn[h] = "up" /\ pc[h] # "idle" => pend[h] # None \/ Failed(h)

\* After a cleanup without a failure only a later retirement gives the helper a
\* route.
Reported ==
    \A h \in Helpers : conn[h] = "up" /\ (\E o \in Destructive : h \in done[o]) /\ ~ Failed(h) =>
        /\ pc[h] = "idle" /\ pend[h] = None
        /\ Routed(h) = {} \/ \E o \in Destructive : h \in todo[o]

Report == CleanedUp /\ Undeferred /\ Awaited /\ Reported
ReportInv == FinalInv /\ Report

-----------------------------------------------------------------------------
(* The tabs that helpers publish. *)

USE RetirementAssumption, KindsDistinct
USE DEF paneVars, metaVars, markVars, safeVars, txVars, sessVars, allVars, opVars, histVars, Goto,
        Free, ForgetMeta, FinishFailed, ForgetPrior, Ops, Destructive

\* Every step keeps helpers in the tabs they publish, when they learn of a drag
\* together with the master.
LEMMA NextHomes ==
    ASSUME ~ Lagging, HomeInv, [Next]_vars
    PROVE  Homes'
<1>1. ASSUME NEW h \in Helpers, NEW t \in Tabs, Connect(h, t) PROVE Homes'
  BY <1>1
  DEF HomeInv, AllInv, FenceInv, TypeInv, HelperTypes, TransactionTypes, Roster, Absent, Homes,
      Unpublished, Connect
<1>2. ASSUME NEW h \in Helpers, NewSession(h) PROVE Homes'
  BY <1>2 DEF HomeInv, AllInv, FenceInv, TypeInv, HelperTypes, Homes, NewSession
<1>3. ASSUME NEW h \in Helpers, PriorGate(h) PROVE Homes'
  BY <1>3 DEF HomeInv, Homes, PriorGate
<1>4. ASSUME NEW h \in Helpers, PriorClosed(h) PROVE Homes'
  BY <1>4 DEF HomeInv, Homes, PriorClosed
<1>5. ASSUME NEW h \in Helpers, NewFails(h) PROVE Homes'
  BY <1>5 DEF HomeInv, AllInv, FenceInv, TypeInv, HelperTypes, Homes, NewFails
<1>6. ASSUME NEW h \in Helpers, NewReply(h) PROVE Homes'
  BY <1>6 DEF HomeInv, AllInv, FenceInv, TypeInv, HelperTypes, Homes, NewReply
<1>7. ASSUME NEW h \in Helpers, LateGate(h) PROVE Homes'
  BY <1>7 DEF HomeInv, AllInv, FenceInv, TypeInv, HelperTypes, Homes, LateGate
<1>8. ASSUME NEW h \in Helpers, LateClosed(h) PROVE Homes'
  BY <1>8 DEF HomeInv, AllInv, FenceInv, TypeInv, HelperTypes, Homes, LateClosed
<1>9. ASSUME NEW h \in Helpers, Disconnect(h) PROVE Homes'
  BY <1>9 DEF HomeInv, Homes, Disconnect
<1>10. ASSUME NEW h \in Helpers, CleanupGate(h) PROVE Homes'
  BY <1>10 DEF HomeInv, Homes, CleanupGate
<1>11. ASSUME NEW h \in Helpers, CleanupClosed(h) PROVE Homes'
  BY <1>11 DEF HomeInv, Homes, CleanupClosed
<1>12. ASSUME NEW h \in Helpers, Gone(h) PROVE Homes'
  BY <1>12 DEF HomeInv, Homes, Gone
<1>13. ASSUME NEW t \in Tabs, NEW u \in Tabs, Rename(t, u) PROVE Homes'
  BY <1>13 DEF HomeInv, Homes, Rename
<1>14. ASSUME NEW h \in Helpers, LearnRename(h) PROVE Homes'
  BY <1>14 DEF HomeInv, Homes, LearnRename
<1>15. ASSUME NEW o \in Ops, NEW t \in Tabs, RetireTab(o, t) PROVE Homes'
  BY <1>15 DEF HomeInv, Homes, RetireTab, MayBegin
<1>16. ASSUME NEW o \in Ops, RetireSession(o) PROVE Homes'
  BY <1>16 DEF HomeInv, Homes, RetireSession, FindSession, Ended
<1>17. ASSUME NEW o \in Ops, NEW t \in Tabs, CloseTabSession(o, t) PROVE Homes'
  BY <1>17
  DEF HomeInv, AllInv, FenceInv, TypeInv, HelperTypes, Homes, CloseTabSession, FindSession, Ended,
      MayBegin
<1>18. ASSUME NEW o \in Ops, NEW t \in Tabs, ResetTabSession(o, t) PROVE Homes'
  BY <1>18
  DEF HomeInv, AllInv, FenceInv, TypeInv, HelperTypes, Homes, ResetTabSession, FindSession, Ended,
      MayBegin
<1>19. ASSUME NEW o \in Ops, NEW s \in Sessions, Restore(o, s) PROVE Homes'
  BY <1>19 DEF HomeInv, Homes, Restore
<1>20. ASSUME NEW o \in Ops, NEW s \in Sessions, CloseGate(o, s) PROVE Homes'
  BY <1>20 DEF HomeInv, Homes, CloseGate, EndJob, Ended
<1>21. ASSUME NEW o \in Ops, NEW s \in Sessions, CloseTimesOut(o, s) PROVE Homes'
  BY <1>21 DEF HomeInv, Homes, CloseTimesOut, EndJob, Ended
<1>22. ASSUME NEW o \in Ops, NEW s \in Sessions, CloseReturns(o, s) PROVE Homes'
  BY <1>22 DEF HomeInv, AllInv, FenceInv, TypeInv, HelperTypes, Homes, CloseReturns, EndJob, Ended
<1>23. ASSUME NEW o \in Ops, NEW h \in Helpers, ForceCleanup(o, h) PROVE Homes'
  BY <1>23 DEF HomeInv, AllInv, FenceInv, TypeInv, HelperTypes, Homes, ForceCleanup
<1>24. ASSUME NEW o \in Ops, CompleteTab(o) PROVE Homes'
  BY <1>24 DEF HomeInv, Homes, CompleteTab
<1>25. ASSUME NEW o \in Ops, RetireAll(o) PROVE Homes'
  BY <1>25 DEF HomeInv, Homes, RetireAll, MayBegin, Capture
<1>26. ASSUME NEW o \in Ops, NextBatch(o) PROVE Homes'
  BY <1>26 DEF HomeInv, Homes, NextBatch, Capture
<1>27. ASSUME NEW o \in Ops, FinishAll(o) PROVE Homes'
  BY <1>27 DEF HomeInv, Homes, FinishAll
<1>28. CASE UNCHANGED vars
  BY <1>28 DEF HomeInv, Homes, vars
<1>29. QED
  BY <1>1, <1>2, <1>3, <1>4, <1>5, <1>6, <1>7, <1>8, <1>9, <1>10, <1>11, <1>12, <1>13, <1>14,
     <1>15, <1>16, <1>17, <1>18, <1>19, <1>20, <1>21, <1>22, <1>23, <1>24, <1>25, <1>26, <1>27,
     <1>28
  DEF Next, HelperStep, OpStep

-----------------------------------------------------------------------------
(* Retirement is final. *)

\* The helpers that were in the tab of a new one own nothing and are retired.
LEMMA ConnectFinal ==
    ASSUME ~ Lagging, ~ Overlap, FinalInv, NEW h \in Helpers, NEW t \in Tabs, Connect(h, t)
    PROVE  Finality'

<1>1. InFlight' /\ Captured'
  BY DEF FinalInv, Finality, InFlight, Captured, Connect
<1>2. SoleOwner'
  <2>1. ASSUME NEW g \in Helpers, g # h
        PROVE  /\ tabOf'[g] = tabOf[g]
               /\ Unpublished(g) => Unpublished(g)'
               /\ Retired(g) => Retired(g)'
    BY <2>1
    DEF FinalInv, HomeInv, AllInv, FenceInv, TypeInv, HelperTypes, Retired, Unpublished, Connect
  <2>2. ASSUME NEW g \in Helpers, g # h, tabOf[g] = t PROVE Unpublished(g) /\ Retired(g)
    <3>1. Unpublished(g)
      BY <2>2 DEF FinalInv, HomeInv, Homes, Unpublished, Connect
    <3>2. CASE conn[g] = "up"
      <4>1. g \in Doomed
        BY <2>2, <3>2 DEF Connect
      <4>2. QED
        BY <3>1, <4>1 DEF FinalInv, Finality, HitRetired, Doomed
    <3>3. CASE conn[g] # "up"
      BY <2>2, <3>1, <3>3
      DEF FinalInv, HomeInv, AllInv, FenceInv, TypeInv, HelperTypes, Roster, Absent,
                        Leaving, Retired
    <3>4. QED
      BY <3>1, <3>2, <3>3
  <2>3. tabOf'[h] = t
    BY DEF FinalInv, HomeInv, AllInv, FenceInv, TypeInv, HelperTypes, Connect
  <2>4. QED
    BY <2>1, <2>2, <2>3 DEF FinalInv, Finality, SoleOwner
<1>3. HitRetired'
  <2>1. ASSUME NEW g \in Helpers, g # h, Retired(g) PROVE Retired(g)'
    BY <2>1
    DEF FinalInv, HomeInv, AllInv, FenceInv, TypeInv, HelperTypes, Retired, Unpublished, Connect
  <2>2. \A o \in AllOps : status[o] = "running" => h \in destructive'
    <3>1. ASSUME NEW o \in AllOps, status[o] = "running" PROVE allOps # 0
      <4>1. RunningAll \subseteq Ops /\ RunningAll # {}
        BY <3>1 DEF RunningAll
      <4>2. QED
        BY <4>1, Counting DEF FinalInv, HomeInv, AllInv, AllFence, Counted
    <3>2. QED
      BY <3>1 DEF Connect
  <2>3. \A o \in Ops : h \notin hit[o] /\ hit[o] \subseteq Helpers
    BY DEF FinalInv, HomeInv, AllInv, FenceInv, TypeInv, RequestTypes, Roster, Absent, Connect
  <2>4. \A o \in Ops : /\ hit'[o] \subseteq hit[o] \cup {h}
                       /\ h \in hit'[o] => o \in AllOps /\ status[o] = "running"
    BY <2>3 DEF Connect
  <2>5. QED
    <3> HIDE DEF Ops
    <3>1. h \in destructive' => Retired(h)'
      BY DEF Retired
    <3>2. QED
      BY <2>1, <2>2, <2>3, <2>4, <3>1 DEF FinalInv, Finality, HitRetired
<1>4. QED
  BY <1>1, <1>2, <1>3 DEF Finality

\* A helper that publishes an owner is not retired, or is marked for good.
LEMMA NewSessionFinal ==
    ASSUME ~ Lagging, ~ Overlap, FinalInv, NEW h \in Helpers, NewSession(h)
    PROVE  Finality'

<1>1. Captured' /\ SoleOwner' /\ HitRetired'
  BY DEF FinalInv, HomeInv, AllInv, FenceInv, TypeInv, HelperTypes, MarkTypes, TransactionTypes,
         RequestTypes, JobTypes, Roster, Absent, Leaving, Begun, Homes, Finality, InFlight,
         Captured, SoleOwner, HitRetired, NewSession, Rejects, Retired, Unpublished
<1>2. InFlight'
  <2>1. tabOf[h] # None /\ home[h] = tabOf[h]
    BY DEF FinalInv, HomeInv, Homes, AllInv, FenceInv, Roster, InTabs, NewSession
  <2>2. QED
    BY <2>1
    DEF FinalInv, HomeInv, AllInv, FenceInv, TypeInv, HelperTypes, TransactionTypes, Finality,
                InFlight, NewSession
<1>3. QED
  BY <1>1, <1>2 DEF Finality

\* Every helper in the tab of a retirement is marked or recorded: the one that

\* owns the tab by its owner, the others because they have published none.
LEMMA RetireTabFinal ==
    ASSUME ~ Lagging, ~ Overlap, FinalInv, NEW o \in Ops, NEW t \in Tabs, RetireTab(o, t)
    PROVE  Finality'

<1>1. InFlight' /\ Captured' /\ SoleOwner'
  BY DEF FinalInv, HomeInv, AllInv, FenceInv, TypeInv, HelperTypes, MarkTypes, TransactionTypes,
         RequestTypes, JobTypes, Finality, InFlight, Captured, SoleOwner, RetireTab, MayBegin,
         Retired, Unpublished
<1>2. HitRetired'
  <2>1. /\ hit' = [hit EXCEPT ![o] = {h \in Connected : tabOf[h] = t}]
        /\ UNCHANGED <<conn, tabOf, owner, pend>> /\ destructive \subseteq destructive'
    BY DEF RetireTab
  <2>2. ASSUME NEW h \in Helpers, Retired(h) PROVE Retired(h)'
    BY <2>2
    DEF FinalInv, HomeInv, AllInv, FenceInv, TypeInv, MarkTypes, Retired, Unpublished, RetireTab
  <2>3. ASSUME NEW h \in Connected, tabOf[h] = t PROVE Retired(h)'
    <3>1. CASE Unpublished(h)
      <4>1. Published(h) = None
        BY <3>1 DEF Published, Unpublished
      <4>2. h \in denied' \/ t \in unresolved'[h]
        BY <2>3, <4>1 DEF RetireTab, Connected
      <4>3. QED
        BY <2>1, <2>3, <3>1, <4>2 DEF Retired, Unpublished
    <3>2. CASE ~ Unpublished(h)
      <4>1. owner[h] = t \/ pend[h] = t
        BY <2>3, <3>2 DEF FinalInv, HomeInv, Homes, Unpublished, Connected
      <4>2. OwnersOf(t) # {}
        BY <4>1 DEF OwnersOf, Connected
      <4>3. PICK g \in OwnersOf(t) : destructive' = destructive \cup {g}
        BY <4>2 DEF RetireTab
      <4>4. g \in Helpers /\ ~ Unpublished(g) /\ tabOf[g] = t
        BY <4>3 DEF FinalInv, HomeInv, Homes, OwnersOf, Unpublished
      <4>5. g = h
        BY <2>3, <3>2, <4>4 DEF FinalInv, Finality, SoleOwner, Connected
      <4>6. QED
        BY <4>3, <4>5 DEF Retired
    <3>3. QED
      BY <3>1, <3>2
  <2>4. \A p \in Ops : hit'[p] \subseteq hit[p] \cup {h \in Connected : tabOf[h] = t}
    BY <2>1 DEF FinalInv, HomeInv, AllInv, FenceInv, TypeInv, RequestTypes
  <2>5. QED
    <3> HIDE DEF Ops
    <3>1. \A p \in Ops : hit[p] \subseteq Helpers
      BY DEF FinalInv, HomeInv, AllInv, FenceInv, TypeInv, RequestTypes
    <3>2. QED
      BY <2>2, <2>3, <2>4, <3>1 DEF FinalInv, Finality, HitRetired
<1>3. QED
  BY <1>1, <1>2 DEF Finality

\* The helpers whose session a retirement closes are marked.
LEMMA RetireSessionFinal ==
    ASSUME ~ Lagging, ~ Overlap, FinalInv, NEW o \in Ops, RetireSession(o)
    PROVE  Finality'

<1>1. InFlight' /\ SoleOwner' /\ HitRetired'
  BY DEF FinalInv, Finality, InFlight, SoleOwner, HitRetired, RetireSession, FindSession, Ended,
         Retired, Unpublished
<1>2. Captured'
  <2>1. \A x \in Tabs : Resolve(x) = Current(x) /\ Current(x) \in Tabs
    BY ResolveCurrent DEF FinalInv, HomeInv, AllInv, FenceInv, FenceRecords
  <2>2. tab[o] \in Tabs /\ o \in TabOps /\ Live(o)
    BY DEF FinalInv, HomeInv, AllInv, FenceInv, FenceRecords, Fenced, Live, RetireSession
  <2>3. ASSUME NEW h \in OwnersOf(Resolve(tab[o])) PROVE h \in destructive
    <3>1. h \in Helpers /\ ~ Unpublished(h) /\ tabOf[h] = Current(tab[o])
      BY <2>1, <2>2 DEF FinalInv, HomeInv, Homes, OwnersOf, Unpublished
    <3>2. h \in hit[o] /\ conn[h] # "gone"
      BY <2>2, <3>1 DEF FinalInv, HomeInv, AllInv, FenceInv, Roster, Leaving, FenceRecords, HitTabs
    <3>3. QED
      BY <3>1, <3>2 DEF FinalInv, Finality, HitRetired, Retired
  <2>4. \A s \in Sessions : job'[o][s] # "none" => job[o][s] # "none" \/ s[1] \in destructive
    BY <2>2, <2>3
    DEF FinalInv, HomeInv, AllInv, FenceInv, TypeInv, JobTypes, RetireSession, FindSession,
                      Routed
  <2>5. \A p \in TabOps \ {o} : job'[p] = job[p]
    BY DEF FinalInv, HomeInv, AllInv, FenceInv, TypeInv, JobTypes, RetireSession, FindSession
  <2>6. UNCHANGED <<conn, destructive, todo, allOut>>
    BY DEF RetireSession, FindSession
  <2>7. QED
    BY <2>2, <2>4, <2>5, <2>6 DEF FinalInv, Finality, Captured
<1>3. QED
  BY <1>1, <1>2 DEF Finality

\* A close-by-tab request takes no mark away.
LEMMA CloseTabSessionFinal ==
    ASSUME ~ Lagging, ~ Overlap, FinalInv, NEW o \in Ops, NEW t \in Tabs, CloseTabSession(o, t)
    PROVE  Finality'

<1>1. InFlight' /\ SoleOwner' /\ HitRetired'
  BY DEF FinalInv, HomeInv, AllInv, FenceInv, TypeInv, HelperTypes, MarkTypes, TransactionTypes,
         RequestTypes, JobTypes, Finality, InFlight, SoleOwner, HitRetired, CloseTabSession,
         FindSession, Ended, MayBegin, Retired, Unpublished
<1>2. Captured'
  <2>1. \A p \in TabOps : job'[p] = job[p]
    BY DEF FinalInv, HomeInv, AllInv, FenceInv, TypeInv, JobTypes, CloseTabSession, FindSession
  <2>2. UNCHANGED <<conn, destructive, todo, allOut>>
    BY DEF CloseTabSession, FindSession
  <2>3. QED
    BY <2>1, <2>2 DEF FinalInv, Finality, Captured
<1>3. QED
  BY <1>1, <1>2 DEF Finality

\* A reset takes no mark away.
LEMMA ResetTabSessionFinal ==
    ASSUME ~ Lagging, ~ Overlap, FinalInv, NEW o \in Ops, NEW t \in Tabs, ResetTabSession(o, t)
    PROVE  Finality'

<1>1. InFlight' /\ SoleOwner' /\ HitRetired'
  BY DEF FinalInv, HomeInv, AllInv, FenceInv, TypeInv, HelperTypes, MarkTypes, TransactionTypes,
         RequestTypes, JobTypes, Finality, InFlight, SoleOwner, HitRetired, ResetTabSession,
         FindSession, Ended, MayBegin, Retired, Unpublished
<1>2. Captured'
  <2>1. \A p \in TabOps : job'[p] = job[p]
    BY DEF FinalInv, HomeInv, AllInv, FenceInv, TypeInv, JobTypes, ResetTabSession, FindSession
  <2>2. UNCHANGED <<conn, destructive, todo, allOut>>
    BY DEF ResetTabSession, FindSession
  <2>3. QED
    BY <2>1, <2>2 DEF FinalInv, Finality, Captured
<1>3. QED
  BY <1>1, <1>2 DEF Finality

\* Every step keeps retirement final.
LEMMA NextFinal ==
    ASSUME ~ Lagging, ~ Overlap, FinalInv, [Next]_vars
    PROVE  Finality'
<1>1. ASSUME NEW h \in Helpers, NEW t \in Tabs, Connect(h, t) PROVE Finality'
  BY <1>1, ConnectFinal
<1>2. ASSUME NEW h \in Helpers, NewSession(h) PROVE Finality'
  BY <1>2, NewSessionFinal
<1>3. ASSUME NEW h \in Helpers, PriorGate(h) PROVE Finality'
  BY <1>3
  DEF FinalInv, HomeInv, AllInv, FenceInv, TypeInv, HelperTypes, MarkTypes, TransactionTypes,
      RequestTypes, JobTypes, Finality, InFlight, Captured, SoleOwner, HitRetired, PriorGate,
      Retired, Unpublished
<1>4. ASSUME NEW h \in Helpers, PriorClosed(h) PROVE Finality'
  BY <1>4
  DEF FinalInv, Finality, InFlight, Captured, SoleOwner, HitRetired, PriorClosed, Retired,
      Unpublished
<1>5. ASSUME NEW h \in Helpers, NewFails(h) PROVE Finality'
  BY <1>5
  DEF FinalInv, HomeInv, AllInv, FenceInv, TypeInv, HelperTypes, MarkTypes, TransactionTypes,
      RequestTypes, JobTypes, Finality, InFlight, Captured, SoleOwner, HitRetired, NewFails,
      Retired, Unpublished
<1>6. ASSUME NEW h \in Helpers, NewReply(h) PROVE Finality'
  BY <1>6
  DEF FinalInv, HomeInv, AllInv, FenceInv, TypeInv, HelperTypes, MarkTypes, TransactionTypes,
      RequestTypes, JobTypes, Finality, InFlight, Captured, SoleOwner, HitRetired, NewReply,
      MayCommit, Retired, Unpublished
<1>7. ASSUME NEW h \in Helpers, LateGate(h) PROVE Finality'
  BY <1>7
  DEF FinalInv, HomeInv, AllInv, FenceInv, TypeInv, HelperTypes, MarkTypes, TransactionTypes,
      RequestTypes, JobTypes, Finality, InFlight, Captured, SoleOwner, HitRetired, LateGate,
      Retired, Unpublished
<1>8. ASSUME NEW h \in Helpers, LateClosed(h) PROVE Finality'
  BY <1>8
  DEF FinalInv, HomeInv, AllInv, FenceInv, TypeInv, HelperTypes, MarkTypes, TransactionTypes,
      RequestTypes, JobTypes, Finality, InFlight, Captured, SoleOwner, HitRetired, LateClosed,
      Retired, Unpublished
<1>9. ASSUME NEW h \in Helpers, Disconnect(h) PROVE Finality'
  BY <1>9
  DEF FinalInv, HomeInv, AllInv, FenceInv, TypeInv, HelperTypes, MarkTypes, TransactionTypes,
      RequestTypes, JobTypes, Finality, InFlight, Captured, SoleOwner, HitRetired, Disconnect,
      Retired, Unpublished
<1>10. ASSUME NEW h \in Helpers, CleanupGate(h) PROVE Finality'
  BY <1>10
  DEF FinalInv, HomeInv, AllInv, FenceInv, TypeInv, HelperTypes, MarkTypes, TransactionTypes,
      RequestTypes, JobTypes, Roster, Leaving, Homes, Finality, InFlight, Captured, SoleOwner,
      HitRetired, CleanupGate, Retired, Unpublished
<1>11. ASSUME NEW h \in Helpers, CleanupClosed(h) PROVE Finality'
  BY <1>11
  DEF FinalInv, Finality, InFlight, Captured, SoleOwner, HitRetired, CleanupClosed, Retired,
      Unpublished
<1>12. ASSUME NEW h \in Helpers, Gone(h) PROVE Finality'
  BY <1>12
  DEF FinalInv, HomeInv, AllInv, FenceInv, TypeInv, HelperTypes, MarkTypes, TransactionTypes,
      RequestTypes, JobTypes, Finality, InFlight, Captured, SoleOwner, HitRetired, Gone, Retired,
      Unpublished
<1>13. ASSUME NEW t \in Tabs, NEW u \in Tabs, Rename(t, u) PROVE Finality'
  BY <1>13
  DEF FinalInv, HomeInv, AllInv, FenceInv, TypeInv, HelperTypes, MarkTypes, TransactionTypes,
      RequestTypes, JobTypes, Finality, InFlight, Captured, SoleOwner, HitRetired, Rename, Retired,
      Unpublished
<1>14. ASSUME NEW h \in Helpers, LearnRename(h) PROVE Finality'
  BY <1>14
  DEF FinalInv, Finality, InFlight, Captured, SoleOwner, HitRetired, LearnRename, Retired,
      Unpublished
<1>15. ASSUME NEW o \in Ops, NEW t \in Tabs, RetireTab(o, t) PROVE Finality'
  BY <1>15, RetireTabFinal
<1>16. ASSUME NEW o \in Ops, RetireSession(o) PROVE Finality'
  BY <1>16, RetireSessionFinal
<1>17. ASSUME NEW o \in Ops, NEW t \in Tabs, CloseTabSession(o, t) PROVE Finality'
  BY <1>17, CloseTabSessionFinal
<1>18. ASSUME NEW o \in Ops, NEW t \in Tabs, ResetTabSession(o, t) PROVE Finality'
  BY <1>18, ResetTabSessionFinal
<1>19. ASSUME NEW o \in Ops, NEW s \in Sessions, Restore(o, s) PROVE Finality'
  BY <1>19
  DEF FinalInv, Finality, InFlight, Captured, SoleOwner, HitRetired, Restore, Retired, Unpublished
<1>20. ASSUME NEW o \in Ops, NEW s \in Sessions, CloseGate(o, s) PROVE Finality'
  BY <1>20
  DEF FinalInv, HomeInv, AllInv, FenceInv, TypeInv, HelperTypes, MarkTypes, TransactionTypes,
      RequestTypes, JobTypes, Finality, InFlight, Captured, SoleOwner, HitRetired, CloseGate,
      EndJob, Ended, Retired, Unpublished
<1>21. ASSUME NEW o \in Ops, NEW s \in Sessions, CloseTimesOut(o, s) PROVE Finality'
  BY <1>21
  DEF FinalInv, Finality, InFlight, Captured, SoleOwner, HitRetired, CloseTimesOut, EndJob, Ended,
      Retired, Unpublished
<1>22. ASSUME NEW o \in Ops, NEW s \in Sessions, CloseReturns(o, s) PROVE Finality'
  BY <1>22
  DEF FinalInv, HomeInv, AllInv, FenceInv, TypeInv, HelperTypes, MarkTypes, TransactionTypes,
      RequestTypes, JobTypes, Roster, Leaving, Homes, Finality, InFlight, Captured, SoleOwner,
      HitRetired, CloseReturns, EndJob, Ended, Retired, Unpublished
<1>23. ASSUME NEW o \in Ops, NEW h \in Helpers, ForceCleanup(o, h) PROVE Finality'
  BY <1>23
  DEF FinalInv, HomeInv, AllInv, FenceInv, TypeInv, HelperTypes, MarkTypes, TransactionTypes,
      RequestTypes, JobTypes, Roster, Absent, Leaving, Begun, Homes, Finality, InFlight, Captured,
      SoleOwner, HitRetired, ForceCleanup, Retired, Unpublished
<1>24. ASSUME NEW o \in Ops, CompleteTab(o) PROVE Finality'
  BY <1>24
  DEF FinalInv, Finality, InFlight, Captured, SoleOwner, HitRetired, CompleteTab, Retired,
      Unpublished
<1>25. ASSUME NEW o \in Ops, RetireAll(o) PROVE Finality'
  BY <1>25
  DEF FinalInv, Finality, InFlight, Captured, SoleOwner, HitRetired, RetireAll, MayBegin, Capture,
      Connected, Retired, Unpublished
<1>26. ASSUME NEW o \in Ops, NextBatch(o) PROVE Finality'
  BY <1>26
  DEF FinalInv, Finality, InFlight, Captured, SoleOwner, HitRetired, NextBatch, Capture, Retired,
      Unpublished
<1>27. ASSUME NEW o \in Ops, FinishAll(o) PROVE Finality'
  BY <1>27
  DEF FinalInv, Finality, InFlight, Captured, SoleOwner, HitRetired, FinishAll, Retired,
      Unpublished
<1>28. CASE UNCHANGED vars
  BY <1>28
  DEF FinalInv, Finality, InFlight, Captured, SoleOwner, HitRetired, vars, Retired, Unpublished
<1>29. QED
  BY <1>1, <1>2, <1>3, <1>4, <1>5, <1>6, <1>7, <1>8, <1>9, <1>10, <1>11, <1>12, <1>13, <1>14,
     <1>15, <1>16, <1>17, <1>18, <1>19, <1>20, <1>21, <1>22, <1>23, <1>24, <1>25, <1>26, <1>27,
     <1>28
  DEF Next, HelperStep, OpStep

-----------------------------------------------------------------------------
(* Only retired helpers are turned away. *)

\* A helper that is refused by the fence of its own tab is one that an
\* operation on the tab retires.
LEMMA FencedIsDoomed ==
    ASSUME FenceInv, NEW h \in Helpers, conn[h] = "up", Fencing(tabOf[h])
    PROVE  h \in Doomed
<1>1. tabOf[h] \in Tabs
  BY DEF FenceInv, TypeInv, HelperTypes, Roster, InTabs
<1>2. Cardinality(OpsOn(tabOf[h])) > 0
  BY <1>1 DEF FenceInv, FenceRecords, Balanced, Fencing
<1>3. PICK o \in OpsOn(tabOf[h]) : TRUE
  <2>1. OpsOn(tabOf[h]) # {}
    BY <1>2, FS_EmptySet
  <2>2. QED
    BY <2>1
<1>4. h \in hit[o]
  BY <1>3 DEF FenceInv, FenceRecords, HitTabs, OpsOn
<1>5. QED
  BY <1>3, <1>4 DEF Doomed, OpsOn

\* With no more tabs than the safety record holds, it does not overflow.
LEMMA NoOverflow ==
    ASSUME TypeInv, Cardinality(Tabs) <= Cap, NEW h \in Helpers, NEW t \in Tabs
    PROVE  ~ Overflows(h, t)
<1> DEFINE U == unresolved[h]
<1>1. U \subseteq Tabs
  BY DEF TypeInv, MarkTypes
<1>2. IsFiniteSet(U) /\ IsFiniteSet(Tabs) /\ U \cup {t} \subseteq Tabs
  BY <1>1, FS_Subset
<1>3. /\ Cardinality(U) \in Nat /\ Cardinality(Tabs) \in Nat
      /\ Cardinality(U \cup {t}) <= Cardinality(Tabs)
  BY <1>2, FS_Subset, FS_CardinalityType
<1>4. t \notin U => Cardinality(U \cup {t}) = Cardinality(U) + 1
  BY <1>2, FS_AddElement
<1> HIDE DEF U
<1>5. t \notin U => Cardinality(U) # Cap
  BY <1>3, <1>4
<1>6. QED
  BY <1>5 DEF Overflows, U

\* The helpers that an operation on a tab marks or fences are in the tab.
LEMMA RetireTabHits ==
    ASSUME HomeInv, NEW o \in Ops, NEW t \in Tabs, RetireTab(o, t)
    PROVE  /\ Doomed \subseteq Doomed' /\ {h \in Connected : tabOf[h] = t} \subseteq Doomed'
           /\ OwnersOf(t) \subseteq {h \in Connected : tabOf[h] = t}
           /\ {h \in Connected : Published(h) = t} \subseteq {h \in Connected : tabOf[h] = t}
<1>1. hit[o] = {} /\ hit' = [hit EXCEPT ![o] = {h \in Connected : tabOf[h] = t}]
  BY DEF HomeInv, AllInv, FenceInv, Roster, Begun, RetireTab, MayBegin
<1>2. hit'[o] = {h \in Connected : tabOf[h] = t} /\ \A p \in Ops : hit[p] \subseteq hit'[p]
  BY <1>1 DEF HomeInv, AllInv, FenceInv, TypeInv, RequestTypes
<1>3. OwnersOf(t) \subseteq Connected
  BY OwnersConnected DEF HomeInv, AllInv
<1>4. \A h \in OwnersOf(t) : tabOf[h] = t
  BY DEF HomeInv, Homes, OwnersOf
<1>5. \A h \in Connected : Published(h) = t => tabOf[h] = t
  BY DEF HomeInv, Homes, Published, Connected
<1>6. QED
  BY <1>2, <1>3, <1>4, <1>5 DEF Doomed

\* A new helper is marked only by a retirement of all tabs.
LEMMA ConnectRefusals ==
    ASSUME ~ Lagging, Cardinality(Tabs) <= Cap, RefusalInv,
           NEW h \in Helpers, NEW t \in Tabs, Connect(h, t)
    PROVE  Refusals'

<1>1. Unresolved' /\ RefusedDoomed'
  BY DEF RefusalInv, HomeInv, AllInv, FenceInv, TypeInv, HelperTypes, MarkTypes, FenceTypes,
         RequestTypes, Roster, Absent, Begun, Homes, Refusals, Unresolved, RefusedDoomed, Known,
         Connect, Doomed
<1>2. ReplacementNotBlocked'
  <2>1. Doomed \subseteq Doomed' /\ closed' = closed
    BY DEF Doomed, Connect
  <2>2. \A g \in Helpers \ {h} : conn'[g] = conn[g]
    BY DEF RefusalInv, HomeInv, AllInv, FenceInv, TypeInv, HelperTypes, Connect
  <2>3. closing' \cup destructive' \subseteq closing \cup destructive \cup {h}
    BY DEF Connect
  <2>4. h \in closing' \cup destructive' => h \in Doomed'
    <3>1. h \in closing' \cup destructive' => allOps # 0
      BY DEF RefusalInv, HomeInv, AllInv, FenceInv, Roster, Absent, Connect
    <3>2. allOps # 0 => \E o \in AllOps : status[o] = "running"
      <4>1. allOps # 0 => RunningAll # {}
        BY FS_EmptySet DEF RefusalInv, HomeInv, AllInv, AllFence, Counted
      <4>2. QED
        BY <4>1 DEF RunningAll
    <3>3. ASSUME NEW o \in AllOps, status[o] = "running" PROVE h \in Doomed'
      BY <3>3 DEF Doomed, Connect
    <3>4. QED
      BY <3>1, <3>2, <3>3
  <2>5. QED
    BY <2>1, <2>2, <2>3, <2>4 DEF RefusalInv, Refusals, ReplacementNotBlocked
<1>3. QED
  BY <1>1, <1>2 DEF Refusals

\* A helper that is refused was in a retired tab.
LEMMA NewSessionRefusals ==
    ASSUME ~ Lagging, Cardinality(Tabs) <= Cap, RefusalInv, NEW h \in Helpers, NewSession(h)
    PROVE  Refusals'

<1>1. Unresolved'
  BY DEF RefusalInv, Refusals, Unresolved, Known, NewSession
<1>2. RefusedDoomed'
  <2>1. UNCHANGED <<tabOf, hit>> /\ Doomed' = Doomed
    BY DEF Doomed, NewSession
  <2>2. \A g \in Helpers : tabOf'[g] \in unresolved'[g] => g \in Doomed'
    BY <2>1 DEF RefusalInv, HomeInv, AllInv, FenceInv, TypeInv, MarkTypes, Refusals, RefusedDoomed,
                NewSession
  <2>3. \A x \in Tabs : fence'[x] # None => fence'[x].out \subseteq Doomed'
    <3>1. ASSUME NEW x \in Tabs, x = home[h], FencedOut(h, x) PROVE h \in Doomed
      <4>1. CASE Fencing(x)
        BY <3>1, <4>1, FencedIsDoomed DEF RefusalInv, HomeInv, Homes, AllInv, NewSession
      <4>2. CASE ~ Fencing(x)
        BY <3>1, <4>2 DEF RefusalInv, Refusals, RefusedDoomed, FencedOut
      <4>3. QED
        BY <4>1, <4>2
    <3>2. ASSUME NEW x \in Tabs, fence'[x] # None PROVE fence'[x].out \subseteq Doomed
      <4>1. /\ fence[x] # None /\ fence'[x].out \subseteq fence[x].out \cup {h}
            /\ h \in fence'[x].out => h \in fence[x].out \/ (x = home[h] /\ FencedOut(h, x))
        BY <3>2, NewSessionFence DEF RefusalInv, HomeInv, AllInv
      <4>2. fence[x].out \subseteq Doomed
        BY <4>1 DEF RefusalInv, Refusals, RefusedDoomed
      <4>3. QED
        BY <3>1, <4>1, <4>2
    <3>3. QED
      BY <2>1, <3>2
  <2>4. QED
    BY <2>2, <2>3 DEF RefusedDoomed
<1>3. ReplacementNotBlocked'
  <2>1. UNCHANGED <<conn, closed>> /\ Doomed' = Doomed /\ conn[h] = "up"
    BY DEF Doomed, NewSession
  <2>2. home[h] = tabOf[h] /\ home[h] \in Tabs
    BY DEF RefusalInv, HomeInv, Homes, AllInv, FenceInv, TypeInv, HelperTypes, Roster, InTabs,
           NewSession
  <2>3. FencedOut(h, home[h]) => h \in Doomed
    <3>1. Fencing(home[h]) => h \in Doomed
      BY <2>1, <2>2, FencedIsDoomed DEF RefusalInv, HomeInv, AllInv
    <3>2. FencedOut(h, home[h]) /\ ~ Fencing(home[h]) => h \in Doomed
      BY <2>2 DEF RefusalInv, Refusals, RefusedDoomed, FencedOut
    <3>3. QED
      BY <3>1, <3>2
  <2>4. Rejects(h, home[h]) => h \in Doomed
    BY <2>2 DEF RefusalInv, Refusals, Unresolved, RefusedDoomed, Rejects
  <2>5. \/ closing' = closing /\ destructive' = destructive
        \/ /\ closing' = closing \cup {h} /\ destructive' = destructive \cup {h}
           /\ h \in closing \cup destructive \/ FencedOut(h, home[h]) \/ Rejects(h, home[h])
    BY DEF NewSession
  <2>6. QED
    BY <2>1, <2>3, <2>4, <2>5 DEF RefusalInv, Refusals, ReplacementNotBlocked
<1>4. QED
  BY <1>1, <1>2, <1>3 DEF Refusals

\* A helper that is forgotten leaves the fences.
LEMMA GoneRefusals ==
    ASSUME ~ Lagging, Cardinality(Tabs) <= Cap, RefusalInv, NEW h \in Helpers, Gone(h)
    PROVE  Refusals'

<1>1. Unresolved' /\ ReplacementNotBlocked'
  BY DEF RefusalInv, Refusals, Unresolved, ReplacementNotBlocked, Known, Gone, Doomed
<1>2. RefusedDoomed'
  <2>1. UNCHANGED <<tabOf, hit>> /\ Doomed' = Doomed
    BY DEF Doomed, Gone
  <2>2. \A g \in Helpers : tabOf'[g] \in unresolved'[g] => g \in Doomed'
    BY <2>1
    DEF RefusalInv, HomeInv, AllInv, FenceInv, TypeInv, MarkTypes, Refusals, RefusedDoomed, Gone
  <2>3. \A x \in Tabs : fence'[x] # None => fence[x] # None /\ fence'[x].out \subseteq fence[x].out
    BY DEF RefusalInv, HomeInv, AllInv, FenceInv, TypeInv, FenceTypes, Fences, FencesWithout, Gone
  <2>4. QED
    BY <2>1, <2>2, <2>3 DEF RefusalInv, Refusals, RefusedDoomed
<1>3. QED
  BY <1>1, <1>2 DEF Refusals

\* A drag moves a fence to an id that no safety record names.
LEMMA RenameRefusals ==
    ASSUME ~ Lagging, Cardinality(Tabs) <= Cap, RefusalInv,
           NEW t \in Tabs, NEW u \in Tabs, Rename(t, u)
    PROVE  Refusals'

<1>1. Unresolved' /\ ReplacementNotBlocked'
  BY DEF RefusalInv, Refusals, Unresolved, ReplacementNotBlocked, Known, Rename, Doomed
<1>2. RefusedDoomed'
  <2>1. hit' = hit /\ Doomed' = Doomed
    BY DEF Doomed, Rename
  <2>2. ASSUME NEW h \in Helpers, tabOf'[h] \in unresolved'[h] PROVE tabOf[h] \in unresolved[h]
    <3>1. /\ tabOf'[h] = IF tabOf[h] = t THEN u ELSE tabOf[h]
          /\ unresolved'[h] = IF t \in unresolved[h] THEN (unresolved[h] \ {t}) \cup {u}
                              ELSE unresolved[h]
          /\ tabOf[h] # u
      BY DEF Rename
    <3>2. u \notin unresolved[h]
      BY DEF RefusalInv, Refusals, Unresolved, Known, Rename
    <3>3. QED
      BY <2>2, <3>1, <3>2
  <2>3. \A x \in Tabs : fence'[x] \in {None, fence[x], fence[t]}
    BY DEF RefusalInv, HomeInv, AllInv, FenceInv, TypeInv, FenceTypes, Rename
  <2>4. QED
    BY <2>1, <2>2, <2>3 DEF RefusalInv, Refusals, RefusedDoomed
<1>3. QED
  BY <1>1, <1>2 DEF Refusals

\* A retirement marks and records helpers of its own tab only.
LEMMA RetireTabRefusals ==
    ASSUME ~ Lagging, Cardinality(Tabs) <= Cap, RefusalInv,
           NEW o \in Ops, NEW t \in Tabs, RetireTab(o, t)
    PROVE  Refusals'

<1>1. Unresolved'
  <2>1. \A h \in Helpers : ~ Overflows(h, t)
    BY NoOverflow DEF RefusalInv, HomeInv, AllInv, FenceInv
  <2>2. denied' = {} /\ \A h \in Helpers : unresolved'[h] \subseteq unresolved[h] \cup {t}
    BY <2>1 DEF RefusalInv, Refusals, Unresolved, RetireTab, Connected
  <2>3. \A x \in Tabs : Known(x) => Known(x)'
    BY DEF RefusalInv, HomeInv, AllInv, FenceInv, TypeInv, RequestTypes, Roster, Begun, Known,
           RetireTab,
           MayBegin
  <2>4. Known(t)'
    BY DEF RefusalInv, HomeInv, AllInv, FenceInv, TypeInv, RequestTypes, Known, RetireTab
  <2>5. \A h \in Helpers : unresolved[h] \subseteq Tabs
    BY DEF RefusalInv, HomeInv, AllInv, FenceInv, TypeInv, MarkTypes
  <2>6. QED
    BY <2>2, <2>3, <2>4, <2>5 DEF RefusalInv, Refusals, Unresolved
<1>2. RefusedDoomed'
  <2>1. /\ Doomed \subseteq Doomed' /\ {h \in Connected : tabOf[h] = t} \subseteq Doomed'
        /\ OwnersOf(t) \subseteq {h \in Connected : tabOf[h] = t}
        /\ {h \in Connected : Published(h) = t} \subseteq {h \in Connected : tabOf[h] = t}
    BY RetireTabHits DEF RefusalInv
  <2>2. ASSUME NEW h \in Helpers, tabOf'[h] \in unresolved'[h] PROVE h \in Doomed'
    <3>1. tabOf'[h] = tabOf[h] /\ (tabOf[h] \in unresolved[h] \/ (h \in Connected /\ tabOf[h] = t))
      BY <2>2 DEF RefusalInv, HomeInv, AllInv, FenceInv, TypeInv, MarkTypes, RetireTab
    <3>2. QED
      BY <2>1, <3>1 DEF RefusalInv, Refusals, RefusedDoomed
  <2>3. ASSUME NEW x \in Tabs, fence'[x] # None PROVE fence'[x].out \subseteq Doomed'
    <3>1. CASE x # t
      <4>1. fence'[x] = fence[x]
        BY <3>1 DEF RefusalInv, HomeInv, AllInv, FenceInv, TypeInv, FenceTypes, RetireTab
      <4>2. QED
        BY <2>1, <2>3, <4>1 DEF RefusalInv, Refusals, RefusedDoomed
    <3>2. CASE x = t
      <4> DEFINE old == IF fence[t] = None THEN [phase |-> "Fencing", ops |-> 0, out |-> {}]
                        ELSE fence[t]
      <4>1. old.out \subseteq Doomed
        BY DEF RefusalInv, Refusals, RefusedDoomed
      <4>2. CASE OwnersOf(t) = {}
        <5>1. fence' = [fence EXCEPT ![t] = [phase |-> "Fencing", ops |-> old.ops + 1,
                          out |-> old.out \cup {h \in Connected : Published(h) = t}]]
          BY <4>2 DEF RetireTab
        <5> HIDE DEF old
        <5>2. fence'[t].out = old.out \cup {h \in Connected : Published(h) = t}
          BY <5>1 DEF RefusalInv, HomeInv, AllInv, FenceInv, TypeInv, FenceTypes
        <5>3. QED
          BY <2>1, <3>2, <4>1, <5>2
      <4>3. CASE OwnersOf(t) # {}
        <5>1. PICK h \in OwnersOf(t) :
                fence' = [fence EXCEPT ![t] = [phase |-> "Fencing", ops |-> old.ops + 1,
                                                      out |-> {h}]]
          BY <4>3 DEF RetireTab
        <5> HIDE DEF old
        <5>2. fence'[t].out = {h}
          BY <5>1 DEF RefusalInv, HomeInv, AllInv, FenceInv, TypeInv, FenceTypes
        <5>3. QED
          BY <2>1, <3>2, <5>1, <5>2
      <4>4. QED
        BY <4>2, <4>3
    <3>3. QED
      BY <3>1, <3>2
  <2>4. QED
    BY <2>2, <2>3 DEF RefusedDoomed
<1>3. ReplacementNotBlocked'
  <2>1. /\ Doomed \subseteq Doomed' /\ {h \in Connected : tabOf[h] = t} \subseteq Doomed'
        /\ OwnersOf(t) \subseteq {h \in Connected : tabOf[h] = t}
    BY RetireTabHits DEF RefusalInv
  <2>2. /\ UNCHANGED <<conn, closed>>
        /\ closing' \subseteq closing \cup OwnersOf(t)
        /\ destructive' \subseteq destructive \cup OwnersOf(t)
    BY DEF RetireTab
  <2>3. QED
    BY <2>1, <2>2 DEF RefusalInv, Refusals, ReplacementNotBlocked
<1>4. QED
  BY <1>1, <1>2, <1>3 DEF Refusals

\* The owners of a retired tab were in it when it was retired.
LEMMA RetireSessionRefusals ==
    ASSUME ~ Lagging, Cardinality(Tabs) <= Cap, RefusalInv, NEW o \in Ops, RetireSession(o)
    PROVE  Refusals'

<1>1. Unresolved' /\ RefusedDoomed'
  BY DEF RefusalInv, Refusals, Unresolved, RefusedDoomed, Known, RetireSession, FindSession, Ended,
         Doomed
<1>2. ReplacementNotBlocked'
  <2>1. \A x \in Tabs : Resolve(x) = Current(x) /\ Current(x) \in Tabs
    BY ResolveCurrent DEF RefusalInv, HomeInv, AllInv, FenceInv, FenceRecords
  <2>2. tab[o] \in Tabs /\ o \in TabOps /\ Live(o)
    BY DEF RefusalInv, HomeInv, AllInv, FenceInv, FenceRecords, Fenced, Live, RetireSession
  <2>3. ASSUME NEW h \in OwnersOf(Resolve(tab[o])) PROVE h \in Doomed
    <3>1. h \in Helpers /\ tabOf[h] = Current(tab[o]) /\ ~ Unpublished(h)
      BY <2>1, <2>2 DEF RefusalInv, HomeInv, Homes, OwnersOf, Unpublished
    <3>2. h \in hit[o]
      BY <2>2, <3>1
      DEF RefusalInv, HomeInv, AllInv, FenceInv, Roster, Leaving, FenceRecords, HitTabs
    <3>3. QED
      BY <3>2 DEF Doomed
  <2>4. closing' \subseteq closing \cup Doomed
    BY <2>2, <2>3 DEF RetireSession, FindSession
  <2>5. UNCHANGED <<conn, destructive, hit>> /\ closed' = closed /\ Doomed' = Doomed
    BY <2>2 DEF RetireSession, FindSession, Doomed
  <2>6. QED
    BY <2>4, <2>5 DEF RefusalInv, Refusals, ReplacementNotBlocked
<1>3. QED
  BY <1>1, <1>2 DEF Refusals

\* Every step turns away only helpers of retired tabs.
LEMMA NextRefusals ==
    ASSUME ~ Lagging, Cardinality(Tabs) <= Cap, RefusalInv, [Next]_vars
    PROVE  Refusals'
<1>1. ASSUME NEW h \in Helpers, NEW t \in Tabs, Connect(h, t) PROVE Refusals'
  BY <1>1, ConnectRefusals
<1>2. ASSUME NEW h \in Helpers, NewSession(h) PROVE Refusals'
  BY <1>2, NewSessionRefusals
<1>3. ASSUME NEW h \in Helpers, PriorGate(h) PROVE Refusals'
  BY <1>3
  DEF RefusalInv, Refusals, Unresolved, RefusedDoomed, ReplacementNotBlocked, Known, PriorGate,
      Doomed
<1>4. ASSUME NEW h \in Helpers, PriorClosed(h) PROVE Refusals'
  BY <1>4
  DEF RefusalInv, Refusals, Unresolved, RefusedDoomed, ReplacementNotBlocked, Known, PriorClosed,
      Doomed
<1>5. ASSUME NEW h \in Helpers, NewFails(h) PROVE Refusals'
  BY <1>5
  DEF RefusalInv, Refusals, Unresolved, RefusedDoomed, ReplacementNotBlocked, Known, NewFails,
      Doomed
<1>6. ASSUME NEW h \in Helpers, NewReply(h) PROVE Refusals'
  BY <1>6
  DEF RefusalInv, Refusals, Unresolved, RefusedDoomed, ReplacementNotBlocked, Known, NewReply,
      Doomed
<1>7. ASSUME NEW h \in Helpers, LateGate(h) PROVE Refusals'
  BY <1>7
  DEF RefusalInv, Refusals, Unresolved, RefusedDoomed, ReplacementNotBlocked, Known, LateGate,
      Doomed
<1>8. ASSUME NEW h \in Helpers, LateClosed(h) PROVE Refusals'
  BY <1>8
  DEF RefusalInv, Refusals, Unresolved, RefusedDoomed, ReplacementNotBlocked, Known, LateClosed,
      Doomed
<1>9. ASSUME NEW h \in Helpers, Disconnect(h) PROVE Refusals'
  BY <1>9
  DEF RefusalInv, HomeInv, AllInv, FenceInv, TypeInv, HelperTypes, MarkTypes, FenceTypes,
      RequestTypes, Refusals, Unresolved, RefusedDoomed, ReplacementNotBlocked, Known, Disconnect,
      Doomed
<1>10. ASSUME NEW h \in Helpers, CleanupGate(h) PROVE Refusals'
  BY <1>10
  DEF RefusalInv, Refusals, Unresolved, RefusedDoomed, ReplacementNotBlocked, Known, CleanupGate,
      Doomed
<1>11. ASSUME NEW h \in Helpers, CleanupClosed(h) PROVE Refusals'
  BY <1>11
  DEF RefusalInv, Refusals, Unresolved, RefusedDoomed, ReplacementNotBlocked, Known, CleanupClosed,
      Doomed
<1>12. ASSUME NEW h \in Helpers, Gone(h) PROVE Refusals'
  BY <1>12, GoneRefusals
<1>13. ASSUME NEW t \in Tabs, NEW u \in Tabs, Rename(t, u) PROVE Refusals'
  BY <1>13, RenameRefusals
<1>14. ASSUME NEW h \in Helpers, LearnRename(h) PROVE Refusals'
  BY <1>14
  DEF RefusalInv, Refusals, Unresolved, RefusedDoomed, ReplacementNotBlocked, Known, LearnRename,
      Doomed
<1>15. ASSUME NEW o \in Ops, NEW t \in Tabs, RetireTab(o, t) PROVE Refusals'
  BY <1>15, RetireTabRefusals
<1>16. ASSUME NEW o \in Ops, RetireSession(o) PROVE Refusals'
  BY <1>16, RetireSessionRefusals
<1>17. ASSUME NEW o \in Ops, NEW t \in Tabs, CloseTabSession(o, t) PROVE Refusals'
  BY <1>17
  DEF RefusalInv, HomeInv, AllInv, FenceInv, TypeInv, HelperTypes, MarkTypes, FenceTypes,
      RequestTypes, Roster, Absent, Begun, Refusals, Unresolved, RefusedDoomed,
      ReplacementNotBlocked, Known, CloseTabSession, FindSession, Ended, MayBegin, Doomed
<1>18. ASSUME NEW o \in Ops, NEW t \in Tabs, ResetTabSession(o, t) PROVE Refusals'
  BY <1>18
  DEF RefusalInv, HomeInv, AllInv, FenceInv, TypeInv, HelperTypes, MarkTypes, FenceTypes,
      RequestTypes, Roster, Absent, Begun, Refusals, Unresolved, RefusedDoomed,
      ReplacementNotBlocked, Known, ResetTabSession, FindSession, Ended, MayBegin, Doomed
<1>19. ASSUME NEW o \in Ops, NEW s \in Sessions, Restore(o, s) PROVE Refusals'
  BY <1>19
  DEF RefusalInv, Refusals, Unresolved, RefusedDoomed, ReplacementNotBlocked, Known, Restore,
      Doomed
<1>20. ASSUME NEW o \in Ops, NEW s \in Sessions, CloseGate(o, s) PROVE Refusals'
  BY <1>20
  DEF RefusalInv, Refusals, Unresolved, RefusedDoomed, ReplacementNotBlocked, Known, CloseGate,
      EndJob, Ended, Doomed
<1>21. ASSUME NEW o \in Ops, NEW s \in Sessions, CloseTimesOut(o, s) PROVE Refusals'
  BY <1>21
  DEF RefusalInv, Refusals, Unresolved, RefusedDoomed, ReplacementNotBlocked, Known, CloseTimesOut,
      EndJob, Ended, Doomed
<1>22. ASSUME NEW o \in Ops, NEW s \in Sessions, CloseReturns(o, s) PROVE Refusals'
  BY <1>22
  DEF RefusalInv, Refusals, Unresolved, RefusedDoomed, ReplacementNotBlocked, Known, CloseReturns,
      EndJob, Ended, Doomed
<1>23. ASSUME NEW o \in Ops, NEW h \in Helpers, ForceCleanup(o, h) PROVE Refusals'
  BY <1>23
  DEF RefusalInv, HomeInv, AllInv, FenceInv, TypeInv, HelperTypes, MarkTypes, FenceTypes,
      RequestTypes, Refusals, Unresolved, RefusedDoomed, ReplacementNotBlocked, Known,
      ForceCleanup, Routed, Doomed
<1>24. ASSUME NEW o \in Ops, CompleteTab(o) PROVE Refusals'
  BY <1>24
  DEF RefusalInv, Refusals, Unresolved, RefusedDoomed, ReplacementNotBlocked, Known, CompleteTab,
      Doomed
<1>25. ASSUME NEW o \in Ops, RetireAll(o) PROVE Refusals'
  BY <1>25
  DEF RefusalInv, HomeInv, AllInv, FenceInv, TypeInv, HelperTypes, MarkTypes, FenceTypes,
      RequestTypes, Roster, Absent, Begun, Homes, Refusals, Unresolved, RefusedDoomed,
      ReplacementNotBlocked, Known, RetireAll, MayBegin, Capture, Connected, Doomed
<1>26. ASSUME NEW o \in Ops, NextBatch(o) PROVE Refusals'
  BY <1>26
  DEF RefusalInv, Refusals, Unresolved, RefusedDoomed, ReplacementNotBlocked, Known, NextBatch,
      Capture, Doomed
<1>27. ASSUME NEW o \in Ops, FinishAll(o) PROVE Refusals'
  BY <1>27
  DEF RefusalInv, Refusals, Unresolved, RefusedDoomed, ReplacementNotBlocked, Known, FinishAll,
      Doomed
<1>28. CASE UNCHANGED vars
  BY <1>28
  DEF RefusalInv, Refusals, Unresolved, RefusedDoomed, ReplacementNotBlocked, vars, Doomed, Known
<1>29. QED
  BY <1>1, <1>2, <1>3, <1>4, <1>5, <1>6, <1>7, <1>8, <1>9, <1>10, <1>11, <1>12, <1>13, <1>14,
     <1>15, <1>16, <1>17, <1>18, <1>19, <1>20, <1>21, <1>22, <1>23, <1>24, <1>25, <1>26, <1>27,
     <1>28
  DEF Next, HelperStep, OpStep

-----------------------------------------------------------------------------
(* Nothing is left of a helper that is gone. *)

\* A step of one helper frees the gate it holds, or takes that of the session
\* it goes on to close.
LEMMA GateFrame ==
    ASSUME TraceInv, NEW h \in Helpers, job' = job,
           \A g \in Helpers \ {h} : pc'[g] = pc[g] /\ work'[g] = work[g],
           \A s \in Sessions :
              \/ gate'[s] = None
              \/ gate'[s] = gate[s] /\ gate[s] # h
              \/ /\ gate'[s] = h /\ s = <<h, work'[h]>>
                 /\ pc'[h] \in {"priorAgent", "lateAgent", "cleanAgent"}
    PROVE  GateHeld'
<1> SUFFICES ASSUME NEW s \in Sessions
             PROVE  /\ gate'[s] \in Helpers =>
                         /\ s = <<gate'[s], work'[gate'[s]]>>
                         /\ pc'[gate'[s]] \in {"priorAgent", "lateAgent", "cleanAgent"}
                    /\ \A o \in Ops : gate'[s] = o => job'[o][s] = "agent"
  BY DEF GateHeld
<1> HIDE DEF Sessions, Ops
<1>1. CASE gate'[s] = None
  BY <1>1 DEF Ops
<1>2. CASE gate'[s] = gate[s] /\ gate[s] # h
  BY <1>2 DEF TraceInv, Traces, GateHeld
<1>3. CASE /\ gate'[s] = h /\ s = <<h, work'[h]>>
           /\ pc'[h] \in {"priorAgent", "lateAgent", "cleanAgent"}
  BY <1>3 DEF Ops
<1>4. QED
  BY <1>1, <1>2, <1>3

\* A transaction begins with no gate and no route of its own.
LEMMA NewSessionTraces ==
    ASSUME ~ Lagging, ~ Overlap, CloseOps = {}, ResetOps = {}, TraceInv,
           NEW h \in Helpers, NewSession(h)
    PROVE  Traces'

<1>1. GoneUnmarked' /\ GateHeld' /\ RouteKept'
  BY DEF TraceInv, FinalInv, HomeInv, AllInv, FenceInv, TypeInv, HelperTypes, MarkTypes,
         TransactionTypes, SessionTypes, RequestTypes, JobTypes, Traces, GoneUnmarked, GateHeld,
         RouteKept, NewSession, Connected
<1>2. OwnTodo'
  <2>1. UNCHANGED <<tabOf, status, tab, todo, job, rekeys>>
    BY DEF NewSession
  <2>2. ASSUME NEW o \in TabOps, status[o] = "fenced", NEW g \in Helpers,
               tabOf[g] = Current(tab[o]), ~ Unpublished(g)'
        PROVE  ~ Unpublished(g)
    <3>1. CASE g # h
      BY <2>2, <3>1 DEF TraceInv, FinalInv, HomeInv, AllInv, FenceInv, TypeInv, HelperTypes,
                        Unpublished, NewSession
    <3>2. CASE g = h
      <4>1. Retired(h)
        BY <2>2, <3>2
        DEF TraceInv, FinalInv, HomeInv, AllInv, FenceInv, FenceRecords, HitTabs, Live,
                          Finality, HitRetired, NewSession
      <4>2. home[h] = tabOf[h] /\ conn[h] = "up"
        BY DEF TraceInv, FinalInv, HomeInv, Homes, NewSession
      <4>3. Unpublished(h) => pend' = pend /\ owner' = owner
        BY <4>1, <4>2 DEF Retired, Rejects, NewSession
      <4>4. QED
        BY <2>2, <3>2, <4>3 DEF Unpublished
    <3>3. QED
      BY <3>1, <3>2
  <2>3. QED
    BY <2>1, <2>2 DEF TraceInv, Traces, OwnTodo, Current
<1>3. QED
  BY <1>1, <1>2 DEF Traces

\* A transaction takes the gate of its predecessor, or goes on without.
LEMMA PriorGateTraces ==
    ASSUME ~ Lagging, ~ Overlap, CloseOps = {}, ResetOps = {}, TraceInv,
           NEW h \in Helpers, PriorGate(h)
    PROVE  Traces'

<1>1. GoneUnmarked' /\ OwnTodo' /\ RouteKept'
  BY DEF TraceInv, Traces, GoneUnmarked, OwnTodo, RouteKept, PriorGate, Current, Unpublished,
         Connected
<1>2. GateHeld'
  <2>1. \A s \in Sessions : gate[s] = h =>
          s = <<h, work[h]>> /\ pc[h] \in {"priorAgent", "lateAgent", "cleanAgent"}
    BY DEF TraceInv, Traces, GateHeld
  <2>2. job' = job /\ \A g \in Helpers \ {h} : pc'[g] = pc[g] /\ work'[g] = work[g]
    BY DEF TraceInv, FinalInv, HomeInv, AllInv, FenceInv, TypeInv, TransactionTypes, PriorGate
  <2>3. \A s \in Sessions :
          \/ gate'[s] = None
          \/ gate'[s] = gate[s] /\ gate[s] # h
          \/ /\ gate'[s] = h /\ s = <<h, work'[h]>>
             /\ pc'[h] \in {"priorAgent", "lateAgent", "cleanAgent"}
    BY <2>1
    DEF TraceInv, FinalInv, HomeInv, AllInv, FenceInv, TypeInv, SessionTypes, TransactionTypes,
        PriorGate
  <2>4. QED
    BY <2>2, <2>3, GateFrame
<1>3. QED
  BY <1>1, <1>2 DEF Traces

\* A failed session/new frees what it holds.
LEMMA NewFailsTraces ==
    ASSUME ~ Lagging, ~ Overlap, CloseOps = {}, ResetOps = {}, TraceInv,
           NEW h \in Helpers, NewFails(h)
    PROVE  Traces'

<1>1. GoneUnmarked' /\ OwnTodo' /\ RouteKept'
  BY DEF TraceInv, FinalInv, HomeInv, AllInv, FenceInv, TypeInv, HelperTypes, MarkTypes,
         TransactionTypes, SessionTypes, RequestTypes, JobTypes, Traces, GoneUnmarked, OwnTodo,
         RouteKept, NewFails, Current, Unpublished, Connected
<1>2. GateHeld'
  <2>1. \A s \in Sessions : gate[s] = h =>
          s = <<h, work[h]>> /\ pc[h] \in {"priorAgent", "lateAgent", "cleanAgent"}
    BY DEF TraceInv, Traces, GateHeld
  <2>2. job' = job /\ \A g \in Helpers \ {h} : pc'[g] = pc[g] /\ work'[g] = work[g]
    BY DEF TraceInv, FinalInv, HomeInv, AllInv, FenceInv, TypeInv, TransactionTypes, NewFails
  <2>3. \A s \in Sessions :
          \/ gate'[s] = None
          \/ gate'[s] = gate[s] /\ gate[s] # h
          \/ /\ gate'[s] = h /\ s = <<h, work'[h]>>
             /\ pc'[h] \in {"priorAgent", "lateAgent", "cleanAgent"}
    BY <2>1
    DEF TraceInv, FinalInv, HomeInv, AllInv, FenceInv, TypeInv, SessionTypes, TransactionTypes,
        NewFails
  <2>4. QED
    BY <2>2, <2>3, GateFrame
<1>3. QED
  BY <1>1, <1>2 DEF Traces

\* A session is committed for a connected helper.
LEMMA NewReplyTraces ==
    ASSUME ~ Lagging, ~ Overlap, CloseOps = {}, ResetOps = {}, TraceInv,
           NEW h \in Helpers, NewReply(h)
    PROVE  Traces'

<1>1. GoneUnmarked'
  BY DEF TraceInv, Traces, GoneUnmarked, NewReply
<1>2. GateHeld'
  BY DEF TraceInv, FinalInv, HomeInv, AllInv, FenceInv, TypeInv, HelperTypes, MarkTypes,
         TransactionTypes, SessionTypes, RequestTypes, JobTypes, Traces, GateHeld, NewReply
<1>3. OwnTodo'
  BY DEF TraceInv, FinalInv, HomeInv, AllInv, FenceInv, TypeInv, HelperTypes, MarkTypes,
         TransactionTypes, SessionTypes, RequestTypes, JobTypes, Traces, OwnTodo, Current,
         Unpublished, NewReply
<1>4. RouteKept'
  BY DEF TraceInv, FinalInv, HomeInv, AllInv, FenceInv, TypeInv, HelperTypes, MarkTypes,
         TransactionTypes, SessionTypes, RequestTypes, JobTypes, Roster, Absent, Leaving, Begun,
         Jobs, Traces, GateHeld, OwnTodo, RouteKept, Connected, Unpublished, NewReply
<1>5. QED
  BY <1>1, <1>2, <1>3, <1>4 DEF Traces

\* A late session is closed under its own gate.
LEMMA LateGateTraces ==
    ASSUME ~ Lagging, ~ Overlap, CloseOps = {}, ResetOps = {}, TraceInv,
           NEW h \in Helpers, LateGate(h)
    PROVE  Traces'

<1>1. GoneUnmarked' /\ OwnTodo' /\ RouteKept'
  BY DEF TraceInv, FinalInv, HomeInv, AllInv, FenceInv, TypeInv, HelperTypes, MarkTypes,
         TransactionTypes, SessionTypes, RequestTypes, JobTypes, Traces, GoneUnmarked, OwnTodo,
         RouteKept, LateGate, Current, Unpublished, Connected
<1>2. GateHeld'
  <2>1. \A s \in Sessions : gate[s] = h =>
          s = <<h, work[h]>> /\ pc[h] \in {"priorAgent", "lateAgent", "cleanAgent"}
    BY DEF TraceInv, Traces, GateHeld
  <2>2. job' = job /\ \A g \in Helpers \ {h} : pc'[g] = pc[g] /\ work'[g] = work[g]
    BY DEF TraceInv, FinalInv, HomeInv, AllInv, FenceInv, TypeInv, TransactionTypes, LateGate
  <2>3. \A s \in Sessions :
          \/ gate'[s] = None
          \/ gate'[s] = gate[s] /\ gate[s] # h
          \/ /\ gate'[s] = h /\ s = <<h, work'[h]>>
             /\ pc'[h] \in {"priorAgent", "lateAgent", "cleanAgent"}
    BY <2>1
    DEF TraceInv, FinalInv, HomeInv, AllInv, FenceInv, TypeInv, SessionTypes, TransactionTypes,
        LateGate
  <2>4. QED
    BY <2>2, <2>3, GateFrame
<1>3. QED
  BY <1>1, <1>2 DEF Traces

\* A late session that cannot be closed is routed for a connected helper.
LEMMA LateClosedTraces ==
    ASSUME ~ Lagging, ~ Overlap, CloseOps = {}, ResetOps = {}, TraceInv,
           NEW h \in Helpers, LateClosed(h)
    PROVE  Traces'

<1>1. GoneUnmarked' /\ OwnTodo' /\ RouteKept'
  BY DEF TraceInv, FinalInv, HomeInv, AllInv, FenceInv, TypeInv, HelperTypes, MarkTypes,
         TransactionTypes, SessionTypes, RequestTypes, JobTypes, Traces, GoneUnmarked, OwnTodo,
         RouteKept, LateClosed, Current, Unpublished, Connected
<1>2. GateHeld'
  <2>1. \A s \in Sessions : gate[s] = h =>
          s = <<h, work[h]>> /\ pc[h] \in {"priorAgent", "lateAgent", "cleanAgent"}
    BY DEF TraceInv, Traces, GateHeld
  <2>2. job' = job /\ \A g \in Helpers \ {h} : pc'[g] = pc[g] /\ work'[g] = work[g]
    BY DEF TraceInv, FinalInv, HomeInv, AllInv, FenceInv, TypeInv, TransactionTypes, LateClosed
  <2>3. \A s \in Sessions :
          \/ gate'[s] = None
          \/ gate'[s] = gate[s] /\ gate[s] # h
          \/ /\ gate'[s] = h /\ s = <<h, work'[h]>>
             /\ pc'[h] \in {"priorAgent", "lateAgent", "cleanAgent"}
    BY <2>1
    DEF TraceInv, FinalInv, HomeInv, AllInv, FenceInv, TypeInv, SessionTypes, TransactionTypes,
        LateClosed
  <2>4. QED
    BY <2>2, <2>3, GateFrame
<1>3. QED
  BY <1>1, <1>2 DEF Traces

\* Disconnect cleanup takes the gate of one session at a time.
LEMMA CleanupGateTraces ==
    ASSUME ~ Lagging, ~ Overlap, CloseOps = {}, ResetOps = {}, TraceInv,
           NEW h \in Helpers, CleanupGate(h)
    PROVE  Traces'

<1>1. GoneUnmarked' /\ OwnTodo' /\ RouteKept'
  BY DEF TraceInv, Traces, GoneUnmarked, OwnTodo, RouteKept, CleanupGate, Routed, Current,
         Unpublished, Connected
<1>2. GateHeld'
  <2>1. \A s \in Sessions : gate[s] = h =>
          s = <<h, work[h]>> /\ pc[h] \in {"priorAgent", "lateAgent", "cleanAgent"}
    BY DEF TraceInv, Traces, GateHeld
  <2>2. job' = job /\ \A g \in Helpers \ {h} : pc'[g] = pc[g] /\ work'[g] = work[g]
    BY DEF TraceInv, FinalInv, HomeInv, AllInv, FenceInv, TypeInv, TransactionTypes, CleanupGate
  <2>3. \A s \in Sessions :
          \/ gate'[s] = None
          \/ gate'[s] = gate[s] /\ gate[s] # h
          \/ /\ gate'[s] = h /\ s = <<h, work'[h]>>
             /\ pc'[h] \in {"priorAgent", "lateAgent", "cleanAgent"}
    BY <2>1
    DEF TraceInv, FinalInv, HomeInv, AllInv, FenceInv, TypeInv, SessionTypes, TransactionTypes,
        CleanupGate, Routed, Sessions
  <2>4. QED
    BY <2>2, <2>3, GateFrame
<1>3. QED
  BY <1>1, <1>2 DEF Traces

\* A drag moves the owners a retirement has to clean up with their tab.
LEMMA RenameTraces ==
    ASSUME ~ Lagging, ~ Overlap, CloseOps = {}, ResetOps = {}, TraceInv,
           NEW t \in Tabs, NEW u \in Tabs, Rename(t, u)
    PROVE  Traces'

<1>1. GoneUnmarked' /\ GateHeld' /\ RouteKept'
  BY DEF TraceInv, Traces, GoneUnmarked, GateHeld, RouteKept, Rename, Connected
<1>2. OwnTodo'
  <2>1. /\ UNCHANGED <<status, tab, todo, job>>
        /\ tabOf' = [h \in Helpers |-> IF tabOf[h] = t THEN u ELSE tabOf[h]]
        /\ \A h \in Helpers : tabOf[h] # u
        /\ \A h \in Helpers : Unpublished(h)' <=> Unpublished(h)
    BY DEF TraceInv, FinalInv, HomeInv, AllInv, FenceInv, TypeInv, HelperTypes, Unpublished, Rename
  <2>2. \A o \in TabOps : Live(o) =>
           (Current(tab[o]))' = IF Current(tab[o]) = t THEN u ELSE Current(tab[o])
    BY RenameMoves DEF TraceInv, FinalInv, HomeInv, AllInv
  <2>3. ASSUME NEW o \in TabOps, status[o] = "fenced", NEW h \in Helpers,
               tabOf'[h] = (Current(tab[o]))'
        PROVE  tabOf[h] = Current(tab[o])
    <3>1. Current(tab[o]) # u
      BY <2>3, RenameMoves DEF TraceInv, FinalInv, HomeInv, AllInv, Live
    <3>2. QED
      BY <2>1, <2>2, <2>3, <3>1 DEF Live
  <2>4. QED
    BY <2>1, <2>3 DEF TraceInv, Traces, OwnTodo
<1>3. QED
  BY <1>1, <1>2 DEF Traces

\* A retirement has to clean up every owner of its tab.
LEMMA RetireTabTraces ==
    ASSUME ~ Lagging, ~ Overlap, CloseOps = {}, ResetOps = {}, TraceInv,
           NEW o \in Ops, NEW t \in Tabs, RetireTab(o, t)
    PROVE  Traces'

<1>1. GateHeld'
  BY DEF TraceInv, Traces, GateHeld, RetireTab, MayBegin, Connected
<1>2. GoneUnmarked'
  <2>1. OwnersOf(t) \subseteq Connected
    BY OwnersConnected DEF TraceInv, FinalInv, HomeInv, AllInv
  <2>2. /\ UNCHANGED <<conn, late>> /\ closing' \subseteq closing \cup OwnersOf(t)
        /\ destructive' \subseteq destructive \cup OwnersOf(t)
        /\ active' \subseteq active \cup OwnersOf(t)
    BY DEF RetireTab
  <2>3. /\ denied' \subseteq denied \cup Connected
        /\ \A h \in Helpers \ Connected : unresolved'[h] = unresolved[h]
    BY DEF RetireTab
  <2>4. QED
    BY <2>1, <2>2, <2>3 DEF TraceInv, Traces, GoneUnmarked, Connected
<1>3. OwnTodo'
  <2>1. /\ UNCHANGED <<tabOf, owner, pend, job, rekeys>> /\ o \in TabOps /\ t \notin dragged
        /\ status[o] = "none" /\ status' = [status EXCEPT ![o] = "fenced"]
        /\ tab' = [tab EXCEPT ![o] = t]
    BY DEF RetireTab, MayBegin
  <2>2. \A p \in Ops \ {o} : status'[p] = status[p] /\ tab'[p] = tab[p] /\ todo'[p] = todo[p]
    BY DEF TraceInv, FinalInv, HomeInv, AllInv, FenceInv, TypeInv, RequestTypes, RetireTab
  <2>3. ASSUME NEW h \in Helpers, tabOf[h] = t, ~ Unpublished(h) PROVE h \in todo'[o]
    <3>1. owner[h] = t \/ pend[h] = t
      BY <2>3 DEF TraceInv, FinalInv, HomeInv, Homes, Unpublished
    <3>2. OwnersOf(t) # {}
      BY <3>1 DEF OwnersOf
    <3>3. PICK g \in OwnersOf(t) : todo' = [todo EXCEPT ![o] = {g}]
      BY <3>2 DEF RetireTab
    <3>4. g \in Helpers /\ ~ Unpublished(g) /\ tabOf[g] = t
      BY <3>3 DEF TraceInv, FinalInv, HomeInv, Homes, OwnersOf, Unpublished
    <3>5. g = h
      BY <2>3, <3>4 DEF TraceInv, FinalInv, Finality, SoleOwner
    <3>6. QED
      BY <3>3, <3>5 DEF TraceInv, FinalInv, HomeInv, AllInv, FenceInv, TypeInv, RequestTypes
  <2>4. Current(t) = t /\ \A s \in Sessions : job[o][s] = "none"
    BY <2>1
    DEF TraceInv, FinalInv, HomeInv, AllInv, FenceInv, Roster, Jobs, FenceRecords, Aliases, Current
  <2>5. tab'[o] = t
    BY <2>1 DEF TraceInv, FinalInv, HomeInv, AllInv, FenceInv, TypeInv, RequestTypes
  <2>6. QED
    BY <2>1, <2>2, <2>3, <2>4, <2>5 DEF TraceInv, Traces, OwnTodo, Current, Unpublished
<1>4. RouteKept'
  <2>1. \A p \in Ops : todo[p] \subseteq todo'[p]
    BY DEF TraceInv, FinalInv, HomeInv, AllInv, FenceInv, TypeInv, RequestTypes, Roster, Begun,
           RetireTab, MayBegin
  <2>2. UNCHANGED <<conn, routed>> /\ Connected' = Connected
    BY DEF RetireTab, Connected
  <2>3. QED
    BY <2>1, <2>2 DEF TraceInv, Traces, RouteKept
<1>5. QED
  BY <1>1, <1>2, <1>3, <1>4 DEF Traces

\* The session a retirement closes is that of an owner it has to clean up.
LEMMA RetireSessionTraces ==
    ASSUME ~ Lagging, ~ Overlap, CloseOps = {}, ResetOps = {}, TraceInv,
           NEW o \in Ops, RetireSession(o)
    PROVE  Traces'

<1>1. RouteKept'
  BY DEF TraceInv, Traces, RouteKept, Connected, RetireSession, FindSession, Ended
<1>2. GoneUnmarked'
  <2>1. tab[o] \in Tabs /\ Resolve(tab[o]) \in Tabs
    BY ResolveCurrent
    DEF TraceInv, FinalInv, HomeInv, AllInv, FenceInv, FenceRecords, Fenced, Live,
                          RetireSession
  <2>2. OwnersOf(Resolve(tab[o])) \subseteq Connected
    BY <2>1, OwnersConnected DEF TraceInv, FinalInv, HomeInv, AllInv
  <2>3. /\ UNCHANGED <<conn, destructive, active, late, denied, unresolved>>
        /\ closing' \subseteq closing \cup OwnersOf(Resolve(tab[o]))
    BY DEF RetireSession, FindSession
  <2>4. QED
    BY <2>2, <2>3 DEF TraceInv, Traces, GoneUnmarked, Connected
<1>3. GateHeld'
  <2>1. UNCHANGED <<gate, pc, work>> /\ status[o] = "fenced"
    BY DEF RetireSession, FindSession
  <2>2. \A s \in Sessions : job[o][s] = "none"
    BY <2>1 DEF TraceInv, FinalInv, HomeInv, AllInv, FenceInv, Roster, Jobs
  <2>3. \A p \in Ops \ {o} : job'[p] = job[p]
    BY DEF TraceInv, FinalInv, HomeInv, AllInv, FenceInv, TypeInv, JobTypes, RetireSession,
           FindSession
  <2>4. \A s \in Sessions : gate[s] # o
    BY <2>2 DEF TraceInv, Traces, GateHeld
  <2>5. QED
    <3> HIDE DEF Ops, Sessions
    <3>1. QED
      BY <2>1, <2>3, <2>4 DEF TraceInv, Traces, GateHeld
<1>4. OwnTodo'
  <2>1. \A x \in Tabs : Resolve(x) = Current(x) /\ Current(x) \in Tabs
    BY ResolveCurrent DEF TraceInv, FinalInv, HomeInv, AllInv, FenceInv, FenceRecords
  <2>2. /\ tab[o] \in Tabs /\ o \in TabOps /\ status[o] = "fenced"
        /\ UNCHANGED <<tabOf, pend, rekeys, todo>>
    BY DEF TraceInv, FinalInv, HomeInv, AllInv, FenceInv, FenceRecords, Fenced, Live,
           RetireSession,
           FindSession
  <2>3. ASSUME NEW h \in OwnersOf(Resolve(tab[o])) PROVE h \in todo[o]
    <3>1. h \in Helpers /\ ~ Unpublished(h) /\ tabOf[h] = Current(tab[o])
      BY <2>1, <2>2 DEF TraceInv, FinalInv, HomeInv, Homes, OwnersOf, Unpublished
    <3>2. QED
      BY <2>2, <3>1 DEF TraceInv, Traces, OwnTodo
  <2>4. \A s \in Sessions : job'[o][s] # "none" => job[o][s] # "none" \/ s[1] \in todo[o]
    BY <2>2, <2>3
    DEF TraceInv, FinalInv, HomeInv, AllInv, FenceInv, TypeInv, JobTypes, RetireSession,
                      FindSession, Routed
  <2>5. /\ tab' = [tab EXCEPT ![o] = tab[o]] /\ owner' = owner
        /\ \A p \in TabOps : status'[p] = "fenced" => status[p] = "fenced"
        /\ \A p \in TabOps \ {o} : job'[p] = job[p]
    BY <2>2 DEF TraceInv, FinalInv, HomeInv, AllInv, FenceInv, TypeInv, JobTypes, RequestTypes,
                RetireSession, FindSession, Ended
  <2>6. tab' = tab
    BY <2>5 DEF TraceInv, FinalInv, HomeInv, AllInv, FenceInv, TypeInv, RequestTypes
  <2>7. QED
    BY <2>2, <2>4, <2>5, <2>6 DEF TraceInv, Traces, OwnTodo, Current, Unpublished
<1>5. QED
  BY <1>1, <1>2, <1>3, <1>4 DEF Traces

\* An operation that takes a gate is at closing that session.
LEMMA CloseGateTraces ==
    ASSUME ~ Lagging, ~ Overlap, CloseOps = {}, ResetOps = {}, TraceInv,
           NEW o \in Ops, NEW s \in Sessions, CloseGate(o, s)
    PROVE  Traces'

<1>1. GoneUnmarked' /\ RouteKept'
  BY DEF TraceInv, Traces, GoneUnmarked, RouteKept, CloseGate, EndJob, Ended, Connected
<1>2. GateHeld'
  BY DEF TraceInv, FinalInv, HomeInv, AllInv, FenceInv, TypeInv, HelperTypes, MarkTypes,
         TransactionTypes, SessionTypes, RequestTypes, JobTypes, Traces, GateHeld, CloseGate,
         EndJob, Ended
<1>3. OwnTodo'
  <2>1. /\ UNCHANGED <<tabOf, pend, owner, rekeys, tab, todo>>
        /\ \A p \in TabOps : status'[p] = "fenced" => status[p] = "fenced"
    BY DEF TraceInv, FinalInv, HomeInv, AllInv, FenceInv, TypeInv, RequestTypes, CloseGate, EndJob,
           Ended
  <2>2. \A p \in TabOps : \A r \in Sessions : job'[p][r] # "none" => job[p][r] # "none"
    BY DEF TraceInv, FinalInv, HomeInv, AllInv, FenceInv, TypeInv, JobTypes, CloseGate, EndJob
  <2>3. QED
    BY <2>1, <2>2 DEF TraceInv, Traces, OwnTodo, Current, Unpublished
<1>4. QED
  BY <1>1, <1>2, <1>3 DEF Traces

\* Forced cleanup of a helper takes its routes, once no close of the operation

\* is under way.
LEMMA ForceCleanupTraces ==
    ASSUME ~ Lagging, ~ Overlap, CloseOps = {}, ResetOps = {}, TraceInv,
           NEW o \in Ops, NEW h \in Helpers, ForceCleanup(o, h)
    PROVE  Traces'

<1>1. GoneUnmarked' /\ GateHeld' /\ OwnTodo'
  BY DEF TraceInv, FinalInv, HomeInv, AllInv, FenceInv, TypeInv, HelperTypes, MarkTypes,
         TransactionTypes, SessionTypes, RequestTypes, JobTypes, Traces, GoneUnmarked, GateHeld,
         OwnTodo, ForceCleanup, JobsEnded, Routed, Current, Unpublished
<1>2. RouteKept'
  <2> DEFINE mine == Routed(h) \cup {s \in {<<h, last[h]>>} : last[h] # 0}
             busy == {s \in mine : gate[s] # None}
  <2>1. /\ conn' = conn /\ Connected' = Connected /\ routed' \subseteq routed
        /\ busy = {} => routed' = routed \ mine
        /\ todo' = [todo EXCEPT ![o] = @ \ {h}] /\ JobsEnded(o, h)
    BY DEF ForceCleanup, Connected
  <2>2. \A p \in Ops : \A g \in Helpers : g # h \/ p # o => (g \in todo[p] => g \in todo'[p])
    BY <2>1 DEF TraceInv, FinalInv, HomeInv, AllInv, FenceInv, TypeInv, RequestTypes
  <2>3. \A s \in routed : s \in Sessions /\ s[1] \in Helpers
    BY DEF TraceInv, FinalInv, HomeInv, AllInv, FenceInv, TypeInv, SessionTypes, Sessions
  <2>4. ASSUME NEW r \in busy, h \notin Connected, r \in Sessions
        PROVE  \E p \in Destructive : h \in todo'[p]
    <3>1. r[1] = h /\ gate[r] # None
      BY <2>4 DEF Routed
    <3>2. pc[h] = "idle"
      BY <2>4
      DEF TraceInv, FinalInv, HomeInv, AllInv, FenceInv, TypeInv, HelperTypes, Roster, Absent,
                  Leaving, Connected
    <3>3. gate[r] \notin Helpers
      BY <2>4, <3>1, <3>2 DEF TraceInv, Traces, GateHeld
    <3>4. gate[r] \in Ops /\ job[gate[r]][r] = "agent"
      BY <2>4, <3>1, <3>3 DEF TraceInv, FinalInv, HomeInv, AllInv, FenceInv, TypeInv, SessionTypes,
                              Traces, GateHeld
    <3>5. gate[r] \in Destructive /\ h \in todo[gate[r]]
      BY <2>4, <3>1, <3>4 DEF TraceInv, FinalInv, HomeInv, AllInv, FenceInv, Roster, Jobs, Traces,
                              OwnTodo
    <3>6. gate[r] # o
      BY <2>1, <2>4, <3>1, <3>4 DEF JobsEnded
    <3>7. QED
      BY <2>2, <3>5, <3>6
  <2>5. ASSUME NEW s \in routed', s[1] \notin Connected
        PROVE  \E p \in Destructive : s[1] \in todo'[p]
    <3>1. PICK p \in Destructive : s[1] \in todo[p]
      BY <2>1, <2>5 DEF TraceInv, Traces, RouteKept
    <3>2. CASE s[1] # h \/ p # o
      BY <2>1, <2>2, <2>3, <2>5, <3>1, <3>2
    <3>3. CASE s[1] = h
      <4>1. s \in mine /\ busy # {}
        BY <2>1, <2>5, <3>3 DEF Routed
      <4>2. PICK r \in busy : TRUE
        BY <4>1
      <4>3. r \in Sessions
        <5>1. r \in routed \/ (r = <<h, last[h]>> /\ last[h] # 0)
          BY <4>2 DEF Routed
        <5>2. last[h] # 0 => <<h, last[h]>> \in Sessions
          BY DEF TraceInv, FinalInv, HomeInv, AllInv, FenceInv, TypeInv, HelperTypes, Sessions
        <5>3. QED
          BY <2>3, <5>1, <5>2
      <4>4. QED
        BY <2>4, <2>5, <3>3, <4>2, <4>3
    <3>4. QED
      BY <3>2, <3>3
  <2>6. QED
    BY <2>1, <2>5 DEF RouteKept
<1>3. QED
  BY <1>1, <1>2 DEF Traces

\* An operation completes with nothing left to clean up.
LEMMA CompleteTabTraces ==
    ASSUME ~ Lagging, ~ Overlap, CloseOps = {}, ResetOps = {}, TraceInv,
           NEW o \in Ops, CompleteTab(o)
    PROVE  Traces'

<1>1. GoneUnmarked' /\ GateHeld' /\ RouteKept'
  BY DEF TraceInv, Traces, GoneUnmarked, GateHeld, RouteKept, CompleteTab, Connected
<1>2. OwnTodo'
  <2>1. /\ UNCHANGED <<tabOf, pend, owner, tab, todo, job>>
        /\ \A p \in TabOps : status'[p] = "fenced" => status[p] = "fenced"
    BY DEF TraceInv, FinalInv, HomeInv, AllInv, FenceInv, TypeInv, RequestTypes, CompleteTab
  <2>2. \A x \in Tabs : rekeys'[x] \in {None, rekeys[x]}
    BY DEF CompleteTab
  <2>3. ASSUME NEW p \in TabOps, status'[p] = "fenced", NEW h \in Helpers,
               tabOf[h] = (Current(tab[p]))'
        PROVE  tabOf[h] = Current(tab[p])
    <3>1. tab[p] \in Tabs
      BY <2>1, <2>3 DEF TraceInv, FinalInv, HomeInv, AllInv, FenceInv, FenceRecords, Fenced, Live
    <3>2. rekeys[tab[p]] # None => tabOf[h] # tab[p]
      BY <3>1
      DEF TraceInv, FinalInv, HomeInv, AllInv, FenceInv, Roster, InTabs, FenceRecords, Aliases
    <3>3. QED
      BY <2>1, <2>2, <2>3, <3>1, <3>2 DEF Current
  <2>4. QED
    BY <2>1, <2>3 DEF TraceInv, Traces, OwnTodo, Unpublished
<1>3. QED
  BY <1>1, <1>2 DEF Traces

\* A further batch adds helpers to clean up.
LEMMA NextBatchTraces ==
    ASSUME ~ Lagging, ~ Overlap, CloseOps = {}, ResetOps = {}, TraceInv,
           NEW o \in Ops, NextBatch(o)
    PROVE  Traces'

<1>1. GoneUnmarked' /\ OwnTodo' /\ RouteKept'
  BY DEF TraceInv, Traces, GoneUnmarked, OwnTodo, RouteKept, NextBatch, Capture, Current,
         Unpublished, Connected
<1>2. GateHeld'
  <2>1. UNCHANGED <<gate, pc, work>> /\ o \in AllOps /\ todo[o] = {}
    BY DEF NextBatch
  <2>2. \A s \in Sessions : gate[s] # o
    BY <2>1 DEF TraceInv, FinalInv, HomeInv, AllInv, FenceInv, Roster, Jobs, Traces, GateHeld
  <2>3. \A p \in Ops \ {o} : job'[p] = job[p]
    BY DEF TraceInv, FinalInv, HomeInv, AllInv, FenceInv, TypeInv, JobTypes, NextBatch, Capture
  <2>4. QED
    <3> HIDE DEF Ops, Sessions
    <3>1. QED
      BY <2>1, <2>2, <2>3 DEF TraceInv, Traces, GateHeld
<1>3. QED
  BY <1>1, <1>2 DEF Traces

\* Every step leaves routes only to helpers that are connected or still to be

\* cleaned up, when only Windows Terminal's retirements close sessions.
LEMMA NextTraces ==
    ASSUME ~ Lagging, ~ Overlap, CloseOps = {}, ResetOps = {}, TraceInv, [Next]_vars
    PROVE  Traces'
<1>1. ASSUME NEW h \in Helpers, NEW t \in Tabs, Connect(h, t) PROVE Traces'
  BY <1>1
  DEF TraceInv, FinalInv, HomeInv, AllInv, FenceInv, TypeInv, HelperTypes, MarkTypes,
      TransactionTypes, SessionTypes, RequestTypes, JobTypes, Roster, Absent, Leaving, Begun, Jobs,
      Traces, GoneUnmarked, GateHeld, OwnTodo, RouteKept, Connect, Current, Unpublished, Connected
<1>2. ASSUME NEW h \in Helpers, NewSession(h) PROVE Traces'
  BY <1>2, NewSessionTraces
<1>3. ASSUME NEW h \in Helpers, PriorGate(h) PROVE Traces'
  BY <1>3, PriorGateTraces
<1>4. ASSUME NEW h \in Helpers, PriorClosed(h) PROVE Traces'
  BY <1>4
  DEF TraceInv, FinalInv, HomeInv, AllInv, FenceInv, TypeInv, HelperTypes, MarkTypes,
      TransactionTypes, SessionTypes, RequestTypes, JobTypes, Traces, GoneUnmarked, GateHeld,
      OwnTodo, RouteKept, PriorClosed, Current, Unpublished, Connected
<1>5. ASSUME NEW h \in Helpers, NewFails(h) PROVE Traces'
  BY <1>5, NewFailsTraces
<1>6. ASSUME NEW h \in Helpers, NewReply(h) PROVE Traces'
  BY <1>6, NewReplyTraces
<1>7. ASSUME NEW h \in Helpers, LateGate(h) PROVE Traces'
  BY <1>7, LateGateTraces
<1>8. ASSUME NEW h \in Helpers, LateClosed(h) PROVE Traces'
  BY <1>8, LateClosedTraces
<1>9. ASSUME NEW h \in Helpers, Disconnect(h) PROVE Traces'
  BY <1>9
  DEF TraceInv, FinalInv, HomeInv, AllInv, FenceInv, TypeInv, HelperTypes, MarkTypes,
      TransactionTypes, SessionTypes, RequestTypes, JobTypes, Traces, GoneUnmarked, GateHeld,
      OwnTodo, RouteKept, Disconnect, Current, Unpublished, Connected
<1>10. ASSUME NEW h \in Helpers, CleanupGate(h) PROVE Traces'
  BY <1>10, CleanupGateTraces
<1>11. ASSUME NEW h \in Helpers, CleanupClosed(h) PROVE Traces'
  BY <1>11
  DEF TraceInv, FinalInv, HomeInv, AllInv, FenceInv, TypeInv, HelperTypes, MarkTypes,
      TransactionTypes, SessionTypes, RequestTypes, JobTypes, Traces, GoneUnmarked, GateHeld,
      OwnTodo, RouteKept, CleanupClosed, Current, Unpublished, Connected
<1>12. ASSUME NEW h \in Helpers, Gone(h) PROVE Traces'
  BY <1>12
  DEF TraceInv, FinalInv, HomeInv, AllInv, FenceInv, TypeInv, HelperTypes, MarkTypes,
      TransactionTypes, SessionTypes, RequestTypes, JobTypes, Traces, GoneUnmarked, GateHeld,
      OwnTodo, RouteKept, Gone, Routed, Current, Unpublished, Connected
<1>13. ASSUME NEW t \in Tabs, NEW u \in Tabs, Rename(t, u) PROVE Traces'
  BY <1>13, RenameTraces
<1>14. ASSUME NEW h \in Helpers, LearnRename(h) PROVE Traces'
  BY <1>14
  DEF TraceInv, Traces, GoneUnmarked, GateHeld, OwnTodo, RouteKept, LearnRename, Current,
      Unpublished, Connected
<1>15. ASSUME NEW o \in Ops, NEW t \in Tabs, RetireTab(o, t) PROVE Traces'
  BY <1>15, RetireTabTraces
<1>16. ASSUME NEW o \in Ops, RetireSession(o) PROVE Traces'
  BY <1>16, RetireSessionTraces
<1>17. ASSUME NEW o \in Ops, NEW t \in Tabs, CloseTabSession(o, t) PROVE Traces'
  BY <1>17
  DEF TraceInv, Traces, GoneUnmarked, GateHeld, OwnTodo, RouteKept, CloseTabSession, FindSession,
      Ended, MayBegin, Current, Unpublished, Connected
<1>18. ASSUME NEW o \in Ops, NEW t \in Tabs, ResetTabSession(o, t) PROVE Traces'
  BY <1>18
  DEF TraceInv, Traces, GoneUnmarked, GateHeld, OwnTodo, RouteKept, ResetTabSession, FindSession,
      Ended, MayBegin, Current, Unpublished, Connected
<1>19. ASSUME NEW o \in Ops, NEW s \in Sessions, Restore(o, s) PROVE Traces'
  BY <1>19
  DEF TraceInv, FinalInv, HomeInv, AllInv, FenceInv, TypeInv, HelperTypes, MarkTypes,
      TransactionTypes, SessionTypes, RequestTypes, JobTypes, Roster, Absent, Leaving, Begun, Jobs,
      Traces, GoneUnmarked, GateHeld, OwnTodo, RouteKept, Restore, Current, Unpublished, Connected
<1>20. ASSUME NEW o \in Ops, NEW s \in Sessions, CloseGate(o, s) PROVE Traces'
  BY <1>20, CloseGateTraces
<1>21. ASSUME NEW o \in Ops, NEW s \in Sessions, CloseTimesOut(o, s) PROVE Traces'
  BY <1>21
  DEF TraceInv, Traces, GoneUnmarked, GateHeld, OwnTodo, RouteKept, CloseTimesOut, EndJob, Ended,
      Current, Unpublished, Connected
<1>22. ASSUME NEW o \in Ops, NEW s \in Sessions, CloseReturns(o, s) PROVE Traces'
  BY <1>22
  DEF TraceInv, FinalInv, HomeInv, AllInv, FenceInv, TypeInv, HelperTypes, MarkTypes,
      TransactionTypes, SessionTypes, RequestTypes, JobTypes, Traces, GoneUnmarked, GateHeld,
      OwnTodo, RouteKept, CloseReturns, EndJob, Ended, Current, Unpublished, Connected
<1>23. ASSUME NEW o \in Ops, NEW h \in Helpers, ForceCleanup(o, h) PROVE Traces'
  BY <1>23, ForceCleanupTraces
<1>24. ASSUME NEW o \in Ops, CompleteTab(o) PROVE Traces'
  BY <1>24, CompleteTabTraces
<1>25. ASSUME NEW o \in Ops, RetireAll(o) PROVE Traces'
  BY <1>25
  DEF TraceInv, FinalInv, HomeInv, AllInv, FenceInv, TypeInv, HelperTypes, MarkTypes,
      TransactionTypes, SessionTypes, RequestTypes, JobTypes, Roster, Absent, Leaving, Begun, Jobs,
      Traces, GoneUnmarked, GateHeld, OwnTodo, RouteKept, RetireAll, MayBegin, Capture, Connected,
      Current, Unpublished
<1>26. ASSUME NEW o \in Ops, NextBatch(o) PROVE Traces'
  BY <1>26, NextBatchTraces
<1>27. ASSUME NEW o \in Ops, FinishAll(o) PROVE Traces'
  BY <1>27
  DEF TraceInv, Traces, GoneUnmarked, GateHeld, OwnTodo, RouteKept, FinishAll, Current,
      Unpublished, Connected
<1>28. CASE UNCHANGED vars
  BY <1>28
  DEF TraceInv, Traces, GoneUnmarked, GateHeld, OwnTodo, RouteKept, vars, Current, Unpublished,
      Connected
<1>29. QED
  BY <1>1, <1>2, <1>3, <1>4, <1>5, <1>6, <1>7, <1>8, <1>9, <1>10, <1>11, <1>12, <1>13, <1>14,
     <1>15, <1>16, <1>17, <1>18, <1>19, <1>20, <1>21, <1>22, <1>23, <1>24, <1>25, <1>26, <1>27,
     <1>28
  DEF Next, HelperStep, OpStep

-----------------------------------------------------------------------------
(* The report is true. *)

\* A step that leaves the lists of the operations alone, gives no marked helper
\* a transaction, and no route to one that has none.
Quiet ==
    /\ UNCHANGED <<todo, done>> /\ ok' \subseteq ok /\ deferred \subseteq deferred'
    /\ \A p \in Ops : status'[p] = "none" => status[p] = "none"
    /\ \A p \in Ops : \A r \in Sessions :
          /\ job'[p][r] = "restore" => job[p][r] = "restore"
          /\ p \in TabOps /\ job'[p][r] # "none" => job[p][r] # "none"
    /\ \A g \in Helpers :
          /\ conn'[g] # "gone" => conn[g] # "gone" /\ (g \in destructive => g \in destructive')
          /\ conn'[g] = "up" => conn[g] = "up"
          /\ conn'[g] = "up" /\ pc'[g] # "idle" =>
                pend'[g] # None \/ (pc[g] # "idle" /\ pend[g] = None)
          /\ (g \in destructive \/ conn[g] = "gone") /\ pend[g] = None => pend'[g] = None
          /\ conn'[g] = "up" /\ g \in destructive /\ pc[g] = "idle" =>
                pc'[g] = "idle" /\ Routed(g)' \subseteq Routed(g)

\* A session is named after the helper it was made for.
LEMMA SessionsOwned == \A s \in Sessions : s[1] \in Helpers
BY DEF Sessions

\* Such a step keeps what the reports rest on.
LEMMA QuietReport ==
    ASSUME ReportInv, Quiet
    PROVE  Report'
<1>1. \A o \in Ops : done[o] \subseteq Helpers
  BY DEF ReportInv, FinalInv, HomeInv, AllInv, FenceInv, TypeInv, RequestTypes
<1>2. \A g \in Helpers : Failed(g) => Failed(g)'
  BY DEF Quiet, Failed
<1>3. CleanedUp'
  BY <1>1 DEF ReportInv, Report, CleanedUp, Quiet
<1>4. Undeferred'
  <2>1. ASSUME NEW o \in TabOps, NEW s \in Sessions, job'[o][s] # "none", o \notin deferred'
        PROVE  pend'[s[1]] = None
    <3>1. s[1] \in Helpers /\ job[o][s] # "none" /\ o \notin deferred
      BY <2>1, SessionsOwned DEF Quiet
    <3>2. pend[s[1]] = None /\ (conn[s[1]] = "gone" \/ s[1] \in destructive)
      BY <3>1 DEF ReportInv, Report, Undeferred, FinalInv, Finality, Captured
    <3>3. QED
      BY <3>1, <3>2 DEF Quiet
  <2>2. QED
    BY <2>1 DEF Undeferred
<1>5. Awaited'
  BY <1>2 DEF ReportInv, Report, Awaited, Quiet
<1>6. Reported'
  <2>1. ASSUME NEW h \in Helpers, conn'[h] = "up", NEW o \in Destructive, h \in done'[o],
               ~ Failed(h)'
        PROVE  /\ pc'[h] = "idle" /\ pend'[h] = None
               /\ Routed(h)' = {} \/ \E p \in Destructive : h \in todo'[p]
    <3>1. h \in done[o] /\ conn[h] = "up" /\ ~ Failed(h) /\ todo' = todo
      BY <1>2, <2>1 DEF Quiet
    <3>2. h \in destructive
      BY <3>1 DEF ReportInv, Report, CleanedUp
    <3>3. /\ pc[h] = "idle" /\ pend[h] = None
          /\ Routed(h) = {} \/ \E p \in Destructive : h \in todo[p]
      BY <3>1 DEF ReportInv, Report, Reported
    <3>4. QED
      BY <2>1, <3>1, <3>2, <3>3 DEF Quiet
  <2>2. QED
    BY <2>1 DEF Reported
<1>7. QED
  BY <1>3, <1>4, <1>5, <1>6 DEF Report

\* The helper that connects is new to every operation.
LEMMA ConnectReport ==
    ASSUME ReportInv, NEW h \in Helpers, NEW t \in Tabs, Connect(h, t)
    PROVE  Report'
<1>1. /\ UNCHANGED <<pend, pc, routed, todo, done, ok, deferred, job, status>>
      /\ destructive \subseteq destructive' /\ conn[h] = "absent"
      /\ \A g \in Helpers \ {h} : conn'[g] = conn[g]
  BY DEF ReportInv, FinalInv, HomeInv, AllInv, FenceInv, TypeInv, HelperTypes, Connect
<1>2. pc[h] = "idle" /\ \A o \in Ops : h \notin done[o] /\ done[o] \subseteq Helpers
  BY <1>1 DEF ReportInv, FinalInv, HomeInv, AllInv, FenceInv, TypeInv, RequestTypes, Roster, Absent
<1>3. QED
  BY <1>1, <1>2 DEF ReportInv, Report, CleanedUp, Undeferred, Awaited, Reported, Failed, Routed

\* An operation that begins, or goes on to its next helpers, has cleaned up after
\* none of them.
LEMMA BeginReport ==
    ASSUME ReportInv, NEW o \in Destructive,
           UNCHANGED <<conn, pend, pc, routed, done, deferred>>,
           destructive \subseteq destructive',
           ok' = ok \/ (ok' = ok \cup {o} /\ status[o] = "none"),
           \A p \in Ops : status'[p] = "none" => status[p] = "none",
           todo[o] = {}, \A p \in Ops \ {o} : todo'[p] = todo[p],
           \A p \in Ops : \A s \in Sessions :
               job'[p][s] = job[p][s] \/ (p = o /\ o \in AllOps)
    PROVE  Report'
<1>1. \A g \in Helpers : Failed(g)' <=> Failed(g)
  BY DEF ReportInv, Report, CleanedUp, Failed
<1>2. \A p \in Ops : todo[p] \subseteq todo'[p]
  OBVIOUS
<1>3. CleanedUp'
  BY DEF ReportInv, Report, CleanedUp
<1>4. Undeferred'
  BY DEF ReportInv, Report, Undeferred
<1>5. Awaited' /\ Reported'
  BY <1>1, <1>2 DEF ReportInv, Report, Awaited, Reported, Routed
<1>6. QED
  BY <1>3, <1>4, <1>5 DEF Report

\* What looking up the session of a tab changes.
LEMMA FindSessionEffect ==
    ASSUME TypeInv, NEW o \in Ops, NEW t, FindSession(o, t)
    PROVE  /\ UNCHANGED <<conn, pend, pc, routed, destructive, todo, done, ok>>
           /\ deferred \subseteq deferred'
           /\ \A p \in Ops : status'[p] = "none" => status[p] = "none"
           /\ \A p \in Ops : \A s \in Sessions :
                 \/ job'[p][s] = job[p][s]
                 \/ /\ p = o /\ job'[p][s] = "gate"
                    /\ pend[s[1]] # None => o \in deferred'
<1>1. /\ UNCHANGED <<conn, pend, pc, routed, destructive, todo, done, ok>>
      /\ deferred \subseteq deferred'
      /\ \A p \in Ops : status'[p] = "none" => status[p] = "none"
  BY DEF TypeInv, RequestTypes, FindSession, Ended
<1>2. ASSUME NEW p \in Ops, NEW s \in Sessions, job'[p][s] # job[p][s]
      PROVE  /\ p = o /\ job'[p][s] = "gate"
             /\ pend[s[1]] # None => o \in deferred'
  <2>1. PICK h \in OwnersOf(Resolve(t)) :
            /\ deferred' = IF pend[h] # None THEN deferred \cup {o} ELSE deferred
            /\ \E r \in Routed(h) : job' = [job EXCEPT ![o][r] = "gate"]
    BY <1>2 DEF FindSession
  <2>2. PICK r \in Routed(h) : job' = [job EXCEPT ![o][r] = "gate"]
    BY <2>1
  <2>3. r \in Sessions /\ r[1] = h
    BY <2>2 DEF TypeInv, SessionTypes, Routed
  <2>4. p = o /\ s = r
    BY <1>2, <2>2, <2>3 DEF TypeInv, JobTypes
  <2>5. QED
    BY <2>1, <2>2, <2>3, <2>4 DEF TypeInv, JobTypes
<1>3. QED
  BY <1>1, <1>2

\* The close of a session, unless it is deferred, is for a helper that has no
\* transaction.
LEMMA RetireSessionReport ==
    ASSUME ReportInv, NEW o \in Ops, RetireSession(o)
    PROVE  Report'
<1>1. TypeInv /\ FindSession(o, tab[o])
  BY DEF ReportInv, FinalInv, HomeInv, AllInv, FenceInv, RetireSession
<1>2. QED
  <2> HIDE DEF Sessions
  <2>1. CleanedUp'
    BY <1>1, FindSessionEffect DEF ReportInv, Report, CleanedUp
  <2>2. Undeferred'
    BY <1>1, FindSessionEffect DEF ReportInv, Report, Undeferred
  <2>3. Awaited' /\ Reported'
    BY <1>1, FindSessionEffect DEF ReportInv, Report, Awaited, Reported, Failed, Routed
  <2>4. QED
    BY <2>1, <2>2, <2>3 DEF Report

\* A route is put back for a helper that the operation has still to clean up.
LEMMA RestoreReport ==
    ASSUME ReportInv, NEW o \in Ops, NEW s \in Sessions, Restore(o, s)
    PROVE  Report'
<1>1. /\ UNCHANGED <<conn, pc, pend, destructive, status, todo, done, ok, deferred>>
      /\ routed' = routed \cup {s} /\ s[1] \in todo[o] /\ o \in AllOps
  BY DEF ReportInv, FinalInv, HomeInv, AllInv, FenceInv, Roster, Jobs, Report, CleanedUp, Restore
<1>2. \A p \in Ops : \A r \in Sessions :
          /\ job'[p][r] = "restore" => job[p][r] = "restore"
          /\ job'[p][r] # "none" => job[p][r] # "none"
  BY DEF ReportInv, FinalInv, HomeInv, AllInv, FenceInv, TypeInv, JobTypes, Restore
<1>3. \A g \in Helpers : Routed(g)' = Routed(g) \/ g \in todo[o]
  BY <1>1 DEF Routed
<1>4. CleanedUp' /\ Undeferred'
  BY <1>1, <1>2 DEF ReportInv, Report, CleanedUp, Undeferred
<1>5. Awaited' /\ Reported'
  BY <1>1, <1>3 DEF ReportInv, Report, Awaited, Reported, Failed
<1>6. QED
  BY <1>4, <1>5 DEF Report

\* The forced cleanup reports a failure if it drops a transaction or a route;
\* otherwise the helper has none.
LEMMA ForceCleanupReport ==
    ASSUME ReportInv, NEW o \in Ops, NEW h \in Helpers, ForceCleanup(o, h)
    PROVE  Report'
<1>1. /\ UNCHANGED <<conn, pc, destructive, status, deferred, job>> /\ ok' \subseteq ok
      /\ routed' \subseteq routed /\ o \in Destructive /\ h \in todo[o]
      /\ done' = [done EXCEPT ![o] = @ \cup {h}] /\ todo' = [todo EXCEPT ![o] = @ \ {h}]
      /\ o \in ok' => pend[h] = None /\ Routed(h) = {}
  BY DEF ReportInv, Report, CleanedUp, ForceCleanup, Clean
<1>2. /\ \A p \in Ops : done[p] \subseteq done'[p] /\ done'[p] \subseteq done[p] \cup {h}
      /\ h \in done'[o] /\ status[o] # "none"
      /\ \A p \in Ops : todo'[p] \subseteq todo[p]
      /\ \A p \in Ops : \A g \in Helpers \ {h} : g \in todo'[p] <=> g \in todo[p]
      /\ \A p \in Ops : p # o => done'[p] = done[p]
  BY <1>1 DEF ReportInv, FinalInv, HomeInv, AllInv, FenceInv, TypeInv, RequestTypes, Roster, Begun
<1>3. \A g \in Helpers : (pend[g] = None => pend'[g] = None) /\ (g # h => pend'[g] = pend[g])
  BY DEF ReportInv, FinalInv, HomeInv, AllInv, FenceInv, TypeInv, HelperTypes, ForceCleanup
<1>4. \A g \in Helpers : Failed(g) => Failed(g)'
  BY <1>1, <1>2 DEF Failed
<1>5. CleanedUp'
  BY <1>1, <1>2 DEF ReportInv, FinalInv, Finality, Captured, Report, CleanedUp
<1>6. Undeferred'
  BY <1>1, <1>3, SessionsOwned DEF ReportInv, Report, Undeferred
<1>7. Awaited'
  BY <1>1, <1>2, <1>3, <1>4 DEF ReportInv, Report, Awaited, Failed
<1>8. Reported'
  <2>1. ASSUME ~ Failed(h)', conn[h] = "up"
        PROVE  pc[h] = "idle" /\ pend[h] = None /\ Routed(h) = {}
    BY <1>1, <1>2, <1>4, <2>1 DEF ReportInv, Report, Awaited, Failed
  <2>2. Routed(h)' \subseteq Routed(h)
    BY <1>1 DEF Routed
  <2>3. ASSUME NEW g \in Helpers, g # h, conn[g] = "up", \E p \in Destructive : g \in done'[p],
               ~ Failed(g)'
        PROVE  /\ pc[g] = "idle" /\ pend[g] = None
               /\ Routed(g)' = {} \/ \E p \in Destructive : g \in todo'[p]
    <3>1. Routed(g)' \subseteq Routed(g) /\ ~ Failed(g) /\ \E p \in Destructive : g \in done[p]
      BY <1>1, <1>2, <1>4, <2>3 DEF Routed
    <3>2. QED
      BY <1>2, <2>3, <3>1 DEF ReportInv, Report, Reported
  <2>4. QED
    BY <1>1, <1>3, <2>1, <2>2, <2>3 DEF Reported
<1>9. QED
  BY <1>5, <1>6, <1>7, <1>8 DEF Report

\* Every step keeps what the reports rest on.
LEMMA NextReport ==
    ASSUME ~ Lagging, ~ Overlap, ReportInv, [Next]_vars
    PROVE  Report'
<1>1. ASSUME NEW h \in Helpers, NEW t \in Tabs, Connect(h, t) PROVE Report'
  BY <1>1, ConnectReport
<1>2. ASSUME NEW h \in Helpers, NewSession(h) PROVE Report'
  <2>1. /\ UNCHANGED <<conn, routed, status, todo, done, ok, deferred, job>> /\ conn[h] = "up"
        /\ home[h] # None /\ destructive \subseteq destructive'
    BY <1>2 DEF ReportInv, FinalInv, HomeInv, AllInv, FenceInv, Homes, Roster, InTabs, NewSession
  <2>2. \A g \in Helpers : \/ pc'[g] = pc[g] /\ pend'[g] = pend[g]
                           \/ g = h /\ h \notin destructive /\ pend'[g] = home[h]
    BY <1>2
    DEF ReportInv, FinalInv, HomeInv, AllInv, FenceInv, TypeInv, HelperTypes, TransactionTypes,
        NewSession
  <2>3. Quiet
    BY <2>1, <2>2 DEF Quiet, Routed
  <2>4. QED
    BY <2>3, QuietReport
<1>3. ASSUME NEW h \in Helpers, PriorGate(h) PROVE Report'
  <2>1. Quiet
    BY <1>3
    DEF ReportInv, FinalInv, HomeInv, AllInv, FenceInv, TypeInv, TransactionTypes, Quiet, Routed,
        PriorGate
  <2>2. QED
    BY <2>1, QuietReport
<1>4. ASSUME NEW h \in Helpers, PriorClosed(h) PROVE Report'
  <2>1. Quiet
    BY <1>4
    DEF ReportInv, FinalInv, HomeInv, AllInv, FenceInv, TypeInv, TransactionTypes, Quiet, Routed,
        PriorClosed
  <2>2. QED
    BY <2>1, QuietReport
<1>5. ASSUME NEW h \in Helpers, NewFails(h) PROVE Report'
  <2>1. Quiet
    BY <1>5
    DEF ReportInv, FinalInv, HomeInv, AllInv, FenceInv, TypeInv, TransactionTypes, Quiet, Routed,
        NewFails
  <2>2. QED
    BY <2>1, QuietReport
<1>6. ASSUME NEW h \in Helpers, NewReply(h) PROVE Report'
  <2>1. Quiet
    BY <1>6
    DEF ReportInv, FinalInv, HomeInv, AllInv, FenceInv, TypeInv, HelperTypes, TransactionTypes,
        Quiet, Routed, NewReply, MayCommit
  <2>2. QED
    BY <2>1, QuietReport
<1>7. ASSUME NEW h \in Helpers, LateGate(h) PROVE Report'
  <2>1. Quiet
    BY <1>7
    DEF ReportInv, FinalInv, HomeInv, AllInv, FenceInv, TypeInv, HelperTypes, TransactionTypes,
        Quiet, Routed, LateGate
  <2>2. QED
    BY <2>1, QuietReport
<1>8. ASSUME NEW h \in Helpers, LateClosed(h) PROVE Report'
  <2>1. Quiet
    BY <1>8
    DEF ReportInv, FinalInv, HomeInv, AllInv, FenceInv, TypeInv, TransactionTypes, Quiet, Routed,
        LateClosed
  <2>2. QED
    BY <2>1, QuietReport
<1>9. ASSUME NEW h \in Helpers, Disconnect(h) PROVE Report'
  <2>1. Quiet
    BY <1>9
    DEF ReportInv, FinalInv, HomeInv, AllInv, FenceInv, TypeInv, TransactionTypes, Quiet, Routed,
        Disconnect
  <2>2. QED
    BY <2>1, QuietReport
<1>10. ASSUME NEW h \in Helpers, CleanupGate(h) PROVE Report'
  <2>1. Quiet
    BY <1>10 DEF Quiet, Routed, CleanupGate
  <2>2. QED
    BY <2>1, QuietReport
<1>11. ASSUME NEW h \in Helpers, CleanupClosed(h) PROVE Report'
  <2>1. Quiet
    BY <1>11 DEF Quiet, Routed, CleanupClosed
  <2>2. QED
    BY <2>1, QuietReport
<1>12. ASSUME NEW h \in Helpers, Gone(h) PROVE Report'
  <2>1. Quiet
    BY <1>12
    DEF ReportInv, FinalInv, HomeInv, AllInv, FenceInv, TypeInv, HelperTypes, Quiet, Routed, Gone
  <2>2. QED
    BY <2>1, QuietReport
<1>13. ASSUME NEW t \in Tabs, NEW u \in Tabs, Rename(t, u) PROVE Report'
  <2>1. Quiet
    BY <1>13 DEF Quiet, Routed, Rename
  <2>2. QED
    BY <2>1, QuietReport
<1>14. ASSUME NEW h \in Helpers, LearnRename(h) PROVE Report'
  <2>1. Quiet
    BY <1>14 DEF Quiet, Routed, LearnRename
  <2>2. QED
    BY <2>1, QuietReport
<1>15. ASSUME NEW o \in Ops, NEW t \in Tabs, RetireTab(o, t) PROVE Report'
  BY <1>15, BeginReport
  DEF ReportInv, FinalInv, HomeInv, AllInv, FenceInv, TypeInv, RequestTypes, JobTypes, Roster,
      Begun, RetireTab, MayBegin
<1>16. ASSUME NEW o \in Ops, RetireSession(o) PROVE Report'
  BY <1>16, RetireSessionReport
<1>17. ASSUME NEW o \in Ops, NEW t \in Tabs, CloseTabSession(o, t) PROVE Report'
  <2>1. FindSession(o, t) /\ o \notin TabOps
    BY <1>17 DEF CloseTabSession
  <2>2. Quiet
    BY <2>1, FindSessionEffect DEF ReportInv, FinalInv, HomeInv, AllInv, FenceInv, Quiet, Routed
  <2>3. QED
    BY <2>2, QuietReport
<1>18. ASSUME NEW o \in Ops, NEW t \in Tabs, ResetTabSession(o, t) PROVE Report'
  <2>1. FindSession(o, t) /\ o \notin TabOps
    BY <1>18 DEF ResetTabSession
  <2>2. Quiet
    BY <2>1, FindSessionEffect DEF ReportInv, FinalInv, HomeInv, AllInv, FenceInv, Quiet, Routed
  <2>3. QED
    BY <2>2, QuietReport
<1>19. ASSUME NEW o \in Ops, NEW s \in Sessions, Restore(o, s) PROVE Report'
  BY <1>19, RestoreReport
<1>20. ASSUME NEW o \in Ops, NEW s \in Sessions, CloseGate(o, s) PROVE Report'
  <2>1. Quiet
    BY <1>20
    DEF ReportInv, FinalInv, HomeInv, AllInv, FenceInv, TypeInv, RequestTypes, JobTypes, Quiet,
        Routed, CloseGate, EndJob, Ended
  <2>2. QED
    BY <2>1, QuietReport
<1>21. ASSUME NEW o \in Ops, NEW s \in Sessions, CloseTimesOut(o, s) PROVE Report'
  <2>1. Quiet
    BY <1>21 DEF Quiet, Routed, CloseTimesOut, EndJob, Ended
  <2>2. QED
    BY <2>1, QuietReport
<1>22. ASSUME NEW o \in Ops, NEW s \in Sessions, CloseReturns(o, s) PROVE Report'
  <2>1. /\ UNCHANGED <<conn, destructive, pc, todo, done, deferred>>
        /\ ok' \subseteq ok /\ routed' \subseteq routed
        /\ s[1] \in Helpers /\ job[o][s] = "agent"
    BY <1>22, SessionsOwned DEF CloseReturns
  <2>2. pend' = pend
    <3>1. pend' # pend => o \in TabOps \ deferred /\ pend' = [pend EXCEPT ![s[1]] = None]
      BY <1>22 DEF CloseReturns
    <3>2. o \in TabOps \ deferred => pend[s[1]] = None
      BY <1>22, <2>1 DEF ReportInv, Report, Undeferred
    <3>3. QED
      BY <2>1, <3>1, <3>2 DEF ReportInv, FinalInv, HomeInv, AllInv, FenceInv, TypeInv, HelperTypes
  <2>3. /\ \A p \in Ops : status'[p] = "none" => status[p] = "none"
        /\ \A p \in Ops : \A r \in Sessions : job'[p][r] \in {job[p][r], "none"}
    BY <1>22
    DEF ReportInv, FinalInv, HomeInv, AllInv, FenceInv, TypeInv, RequestTypes, JobTypes,
        CloseReturns, EndJob, Ended
  <2>4. Quiet
    BY <2>1, <2>2, <2>3 DEF Quiet, Routed
  <2>5. QED
    BY <2>4, QuietReport
<1>23. ASSUME NEW o \in Ops, NEW h \in Helpers, ForceCleanup(o, h) PROVE Report'
  BY <1>23, ForceCleanupReport
<1>24. ASSUME NEW o \in Ops, CompleteTab(o) PROVE Report'
  <2>1. Quiet
    BY <1>24 DEF Quiet, Routed, CompleteTab
  <2>2. QED
    BY <2>1, QuietReport
<1>25. ASSUME NEW o \in Ops, RetireAll(o) PROVE Report'
  BY <1>25, BeginReport
  DEF ReportInv, FinalInv, HomeInv, AllInv, FenceInv, TypeInv, RequestTypes, JobTypes, Roster,
      Begun, RetireAll, MayBegin, Capture
<1>26. ASSUME NEW o \in Ops, NextBatch(o) PROVE Report'
  BY <1>26, BeginReport
  DEF ReportInv, FinalInv, HomeInv, AllInv, FenceInv, TypeInv, RequestTypes, JobTypes, Roster,
      Begun, NextBatch, Capture
<1>27. ASSUME NEW o \in Ops, FinishAll(o) PROVE Report'
  <2>1. Quiet
    BY <1>27 DEF Quiet, Routed, FinishAll
  <2>2. QED
    BY <2>1, QuietReport
<1>28. CASE UNCHANGED vars
  BY <1>28, QuietReport DEF Quiet, Routed, vars
<1>29. QED
  BY <1>1, <1>2, <1>3, <1>4, <1>5, <1>6, <1>7, <1>8, <1>9, <1>10, <1>11, <1>12, <1>13, <1>14,
     <1>15, <1>16, <1>17, <1>18, <1>19, <1>20, <1>21, <1>22, <1>23, <1>24, <1>25, <1>26, <1>27,
     <1>28
  DEF Next, HelperStep, OpStep

-----------------------------------------------------------------------------
(* What holds throughout. *)

\* Initially no helper is connected and nothing is retired.
LEMMA InitFinality ==
    ASSUME Init
    PROVE  HomeInv /\ Finality /\ Refusals /\ Traces
<1>1. AllInv
  BY InitAllInv
<1>2. Homes
  BY DEF Init, Homes
<1>3. Finality
  BY DEF Init, Finality, InFlight, Captured, SoleOwner, HitRetired
<1>4. Refusals
  BY DEF Init, Refusals, Unresolved, RefusedDoomed, ReplacementNotBlocked
<1>5. Traces
  BY DEF Init, Traces, GoneUnmarked, GateHeld, OwnTodo, RouteKept, Live
<1>6. QED
  BY <1>1, <1>2, <1>3, <1>4, <1>5 DEF HomeInv

\* When a helper learns of a drag together with the master, it publishes the
\* tab it is in.
THEOREM HomesInvariant == ASSUME ~ Lagging PROVE Spec => []HomeInv
<1>1. Init => HomeInv
  BY InitFinality
<1>2. HomeInv /\ [Next]_vars => HomeInv'
  <2>1. HomeInv /\ [Next]_vars => AllInv'
    BY NextAllInv DEF HomeInv
  <2>2. HomeInv /\ [Next]_vars => Homes'
    BY NextHomes
  <2>3. QED
    BY <2>1, <2>2 DEF HomeInv
<1>3. QED
  BY <1>1, <1>2, PTL DEF Spec

\* The inductive invariant of finality: a helper that an operation has hit is
\* gone, is marked, or has published no owner and is refused the next one.
THEOREM FinalityInvariant == ASSUME ~ Lagging, ~ Overlap PROVE Spec => []FinalInv
<1>1. Init => FinalInv
  BY InitFinality DEF FinalInv
<1>2. FinalInv /\ [Next]_vars => FinalInv'
  <2>1. FinalInv /\ [Next]_vars => Finality'
    BY NextFinal
  <2>2. FinalInv /\ [Next]_vars => AllInv' /\ Homes'
    BY NextAllInv, NextHomes DEF FinalInv, HomeInv
  <2>3. QED
    BY <2>1, <2>2 DEF FinalInv, HomeInv
<1>3. QED
  BY <1>1, <1>2, PTL DEF Spec

\* A session is committed only by the reply to a session/new, and then for a
\* helper that no operation has hit.
LEMMA CommitsNotRetired ==
    ASSUME FinalInv, [Next]_vars, NEW h \in Doomed
    PROVE  last'[h] \in {0, last[h]}
<1>1. h \in Helpers /\ Retired(h)
  BY DEF Doomed, FinalInv, HomeInv, AllInv, FenceInv, TypeInv, RequestTypes, Finality, HitRetired
<1>2. last \in [Helpers -> 0..MaxRequests]
  BY DEF FinalInv, HomeInv, AllInv, FenceInv, TypeInv, HelperTypes
<1>3. ASSUME NEW g \in Helpers, NewReply(g) PROVE last'[h] \in {0, last[h]}
  <2>1. CASE g # h
    BY <1>1, <1>2, <1>3, <2>1 DEF NewReply
  <2>2. CASE g = h
    <3>1. pc[h] = "call"
      BY <1>3, <2>2 DEF NewReply
    <3>2. h \in destructive
      BY <1>1, <3>1 DEF FinalInv, Finality, InFlight, Retired, Unpublished, HomeInv, AllInv,
         FenceInv, Roster, Leaving
    <3>3. QED
      BY <1>1, <1>2, <1>3, <2>2, <3>2 DEF NewReply, MayCommit
  <2>3. QED
    BY <2>1, <2>2
<1>4. ASSUME NEW g \in Helpers,
             \/ NewSession(g) \/ PriorGate(g) \/ PriorClosed(g) \/ NewFails(g)
             \/ LateGate(g) \/ LateClosed(g) \/ Disconnect(g) \/ CleanupGate(g) \/ CleanupClosed(g)
             \/ Gone(g) \/ LearnRename(g) \/ \E t \in Tabs : Connect(g, t)
      PROVE  last'[h] \in {0, last[h]}
  BY <1>1, <1>2, <1>4 DEF NewSession, PriorGate, PriorClosed, NewFails, LateGate, LateClosed,
     Disconnect, CleanupGate, CleanupClosed, Gone, LearnRename, Connect
<1>5. ASSUME NEW o \in Ops,
             \/ RetireSession(o)
             \/ \E t \in Tabs : CloseTabSession(o, t) \/ ResetTabSession(o, t)
             \/ \E s \in Sessions : CloseReturns(o, s)
             \/ \E g \in Helpers : ForceCleanup(o, g)
      PROVE  last'[h] \in {0, last[h]}
  BY <1>1, <1>2, <1>5 DEF RetireSession, CloseTabSession, ResetTabSession, FindSession,
     CloseReturns, ForceCleanup
<1>6. ASSUME NEW o \in Ops,
             \/ \E t \in Tabs : RetireTab(o, t)
             \/ \E s \in Sessions : Restore(o, s) \/ CloseGate(o, s) \/ CloseTimesOut(o, s)
             \/ CompleteTab(o) \/ RetireAll(o) \/ NextBatch(o) \/ FinishAll(o)
      PROVE  last' = last
  BY <1>6 DEF RetireTab, Restore, CloseGate, CloseTimesOut, CompleteTab, RetireAll, NextBatch,
     FinishAll
<1>7. ASSUME NEW t \in Tabs, NEW u \in Tabs, Rename(t, u) PROVE last' = last
  BY <1>7 DEF Rename
<1>8. CASE UNCHANGED vars
  BY <1>8 DEF vars
<1>9. QED
  BY <1>3, <1>4, <1>5, <1>6, <1>7, <1>8 DEF Next, HelperStep, OpStep

\* Retirement is final: from the moment the master fences a tab, or all tabs, no
\* helper whose pane is in it gets a session committed.  Hypotheses: helpers
\* learn of drags together with the master, and Windows Terminal gives a tab to
\* a new helper once the master has forgotten the owners it had.
THEOREM RetiredNeverCommitsAlways ==
    ASSUME ~ Lagging, ~ Overlap PROVE Spec => RetiredNeverCommits
<1>1. FinalInv /\ [Next]_vars => [\A h \in Doomed : last'[h] \in {0, last[h]}]_vars
  BY CommitsNotRetired
<1>2. QED
  BY <1>1, FinalityInvariant, PTL DEF Spec, RetiredNeverCommits

\* Only the helpers of retired tabs are turned away.  Hypotheses: helpers learn
\* of drags together with the master, and the safety record has room for every
\* tab, since one that overflows refuses whatever owner comes next.
THEOREM ReplacementNotBlockedAlways ==
    ASSUME ~ Lagging, Cardinality(Tabs) <= Cap PROVE Spec => []ReplacementNotBlocked
<1>1. Init => RefusalInv
  BY InitFinality DEF RefusalInv
<1>2. RefusalInv /\ [Next]_vars => RefusalInv'
  <2>1. RefusalInv /\ [Next]_vars => Refusals'
    BY NextRefusals
  <2>2. RefusalInv /\ [Next]_vars => AllInv' /\ Homes'
    BY NextAllInv, NextHomes DEF RefusalInv, HomeInv
  <2>3. QED
    BY <2>1, <2>2 DEF RefusalInv, HomeInv
<1>3. RefusalInv => ReplacementNotBlocked
  BY DEF RefusalInv, Refusals
<1>4. QED
  BY <1>1, <1>2, <1>3, PTL DEF Spec

\* Nothing is left of a helper that is gone, once no operation is still at it.
\* Hypotheses: those of finality, and no close-by-tab or reset request, which
\* can hold the gate of a route while a retirement's forced cleanup passes it by.
THEOREM GoneLeavesNothingAlways ==
    ASSUME ~ Lagging, ~ Overlap, CloseOps = {}, ResetOps = {}
    PROVE  Spec => []GoneLeavesNothing
<1>1. Init => TraceInv
  BY InitFinality DEF TraceInv, FinalInv
<1>2. TraceInv /\ [Next]_vars => TraceInv'
  <2>1. TraceInv /\ [Next]_vars => Traces'
    BY NextTraces
  <2>2. TraceInv /\ [Next]_vars => AllInv' /\ Homes' /\ Finality'
    BY NextAllInv, NextHomes, NextFinal DEF TraceInv, FinalInv, HomeInv
  <2>3. QED
    BY <2>1, <2>2 DEF TraceInv, FinalInv, HomeInv
<1>3. TraceInv => GoneLeavesNothing
  <2> SUFFICES ASSUME TraceInv, NEW h \in Helpers, conn[h] = "gone",
                      \A o \in Destructive : h \notin todo[o]
               PROVE  /\ Routed(h) = {} /\ Published(h) = None
                      /\ h \notin closing \cup destructive \cup active \cup late \cup denied
                      /\ unresolved[h] = {}
                      /\ \A t \in Tabs : fence[t] # None /\ ~ Fencing(t) => h \notin fence[t].out
    BY DEF GoneLeavesNothing
  <2>1. Routed(h) = {}
    BY DEF TraceInv, Traces, RouteKept, Connected, Routed
  <2>2. Published(h) = None
    BY DEF TraceInv, FinalInv, HomeInv, AllInv, FenceInv, Roster, Leaving, Unpublished, Published
  <2>3. /\ h \notin closing \cup destructive \cup active \cup late \cup denied
        /\ unresolved[h] = {}
    BY DEF TraceInv, Traces, GoneUnmarked
  <2>4. \A t \in Tabs : fence[t] # None /\ ~ Fencing(t) => h \notin fence[t].out
    BY DEF TraceInv, FinalInv, HomeInv, AllInv, FenceInv, FenceRecords, Balanced, Connected
  <2>5. QED
    BY <2>1, <2>2, <2>3, <2>4
<1>4. QED
  BY <1>1, <1>2, <1>3, PTL DEF Spec

\* The report is true: once every operation that cleaned up after a helper is
\* reported without a failure and none is still at it, the helper has no route
\* and no transaction left, then and later.  The hypotheses are those of finality.
THEOREM ReportIsTrueAlways ==
    ASSUME ~ Lagging, ~ Overlap PROVE Spec => []ReportIsTrue
<1>1. Init => ReportInv
  <2>1. Init => Report
    BY DEF Init, Report, CleanedUp, Undeferred, Awaited, Reported
  <2>2. QED
    BY <2>1, InitFinality DEF ReportInv, FinalInv
<1>2. ReportInv /\ [Next]_vars => ReportInv'
  <2>1. ReportInv /\ [Next]_vars => Report'
    BY NextReport
  <2>2. ReportInv /\ [Next]_vars => AllInv' /\ Homes' /\ Finality'
    BY NextAllInv, NextHomes, NextFinal DEF ReportInv, FinalInv, HomeInv
  <2>3. QED
    BY <2>1, <2>2 DEF ReportInv, FinalInv, HomeInv
<1>3. ReportInv => ReportIsTrue
  BY DEF ReportInv, Report, Reported, Failed, ReportIsTrue
<1>4. QED
  BY <1>1, <1>2, <1>3, PTL DEF Spec

=============================================================================
