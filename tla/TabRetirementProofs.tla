------------------------ MODULE TabRetirementProofs -------------------------
(***************************************************************************)
(* Proofs about tab retirement, for any helpers, tabs and requests: the    *)
(* fence of a tab counts the operations on it wherever drags move it, and  *)
(* the fence over all tabs opens with its last operation.  The invariant   *)
(* is proved in layers, each of which uses those before it: the types, what*)
(* the tables say of helpers and requests, the fences of tabs, the fence   *)
(* over all tabs.                                                          *)
(***************************************************************************)
EXTENDS TabRetirement, FiniteSetTheorems, WellFoundedInduction, TLAPS

-----------------------------------------------------------------------------
(* What is kept about helpers and requests. *)

\* What an id stands for: aliases are never chained.
Current(t) == IF rekeys[t] = None THEN t ELSE rekeys[t]

\* The request has begun and has not ended.
Live(o) == status[o] \in {"fenced", "running"}
Unpublished(h) == owner[h] = None /\ pend[h] = None

\* TypeOK in parts but for the counter of the fence over all tabs, and that a
\* transaction belongs to a request.
HelperTypes ==
    /\ conn \in [Helpers -> {"absent", "up", "lost", "gone"}]
    /\ tabOf \in [Helpers -> Tabs \cup {None}] /\ home \in [Helpers -> Tabs \cup {None}]
    /\ dragged \subseteq Tabs
    /\ pend \in [Helpers -> Tabs \cup {None}]
    /\ owner \in [Helpers -> Tabs \cup {None}] /\ last \in [Helpers -> 0..MaxRequests]
MarkTypes ==
    /\ closing \subseteq Helpers /\ destructive \subseteq Helpers
    /\ active \subseteq Helpers /\ late \subseteq Helpers
    /\ unresolved \in [Helpers -> SUBSET Tabs] /\ denied \subseteq Helpers
    /\ allOut \subseteq Helpers
TransactionTypes ==
    /\ pc \in [Helpers -> {"idle", "priorGate", "priorAgent", "call", "lateGate",
                           "lateAgent", "cleanAgent"}]
    /\ work \in [Helpers -> 0..MaxRequests] /\ hard \subseteq Helpers
    /\ requests \in [Helpers -> 0..MaxRequests]
    /\ \A h \in Helpers : pc[h] \in {"priorGate", "priorAgent", "call"} => requests[h] # 0
SessionTypes == routed \subseteq Sessions /\ gate \in [Sessions -> Helpers \cup Ops \cup {None}]
FenceTypes == fence \in [Tabs -> Fences \cup {None}] /\ rekeys \in [Tabs -> Tabs \cup {None}]
RequestTypes ==
    /\ status \in [Ops -> {"none", "fenced", "running", "completed"}]
    /\ tab \in [Ops -> Tabs \cup {None}]
    /\ todo \in [Ops -> SUBSET Helpers] /\ done \in [Ops -> SUBSET Helpers]
    /\ deferred \subseteq Ops /\ ok \subseteq Ops
    /\ hit \in [Ops -> SUBSET Helpers] /\ closed \subseteq Helpers
JobTypes == job \in [Ops -> [Sessions -> {"none", "restore", "gate", "agent"}]]

TypeInv ==
    /\ HelperTypes /\ MarkTypes /\ TransactionTypes /\ SessionTypes /\ FenceTypes
    /\ RequestTypes /\ JobTypes

\* A helper that has not connected yet is in no table.
Absent ==
    \A h \in Helpers : conn[h] = "absent" =>
        /\ tabOf[h] = None /\ pc[h] = "idle" /\ Unpublished(h) /\ unresolved[h] = {}
        /\ h \notin closing \cup destructive \cup denied \cup active \cup allOut
        /\ \A o \in Ops : h \notin hit[o] \cup todo[o] \cup done[o]

\* One that has lost its pipe is marked, and one that is gone owns nothing.
Leaving ==
    \A h \in Helpers :
        /\ conn[h] = "lost" => h \in destructive
        /\ conn[h] = "gone" => Unpublished(h) /\ pc[h] = "idle"
        /\ pc[h] = "cleanAgent" => conn[h] = "lost"

\* A request that has not begun is in no table either.
Begun ==
    \A o \in Ops : status[o] = "none" => tab[o] = None /\ hit[o] = {} /\ todo[o] = {}

\* Only a running request closes sessions: on all tabs those of the helpers it
\* has still to clean up, otherwise a single one.
Jobs ==
    \A o \in Ops : \A s \in Sessions : job[o][s] # "none" =>
        /\ status[o] = "running"
        /\ o \in AllOps => s[1] \in todo[o]
        /\ o \notin AllOps => \A r \in Sessions : job[o][r] # "none" => r = s

\* A connected helper is in a tab, and no helper is in a tab that was given up.
InTabs ==
    \A h \in Helpers :
        /\ conn[h] # "absent" => tabOf[h] # None
        /\ tabOf[h] \notin dragged

Roster == Absent /\ Leaving /\ Begun /\ Jobs /\ InTabs

-----------------------------------------------------------------------------
(* The fences of tabs. *)

\* Only ids that were given up have aliases, never chained; an alias stands for
\* a tab that some helper is or was in.
Aliases ==
    \A a \in Tabs : rekeys[a] # None =>
        /\ a \in dragged /\ rekeys[rekeys[a]] = None
        /\ \E h \in Helpers : tabOf[h] = rekeys[a]

\* The operations on tab t that have not ended.
OpsOn(t) == {o \in TabOps : Live(o) /\ Current(tab[o]) = t}

\* The id of a fence is that of some helper's tab or of some request.
Known(t) == (\E h \in Helpers : tabOf[h] = t) \/ (\E o \in Ops : tab[o] = t)

\* A fence has a known id, counts the operations on its tab and holds back
\* connected helpers only.
Balanced ==
    \A t \in Tabs : fence[t] # None =>
        /\ Known(t)
        /\ fence[t].ops = Cardinality(OpsOn(t))
        /\ Fencing(t) <=> fence[t].ops > 0
        /\ fence[t].out \subseteq Connected
        /\ ~ Fencing(t) => fence[t].out # {}

\* An operation that has not ended has its fence, and so has each alias.
Fenced ==
    /\ \A o \in TabOps : Live(o) => tab[o] \in Tabs /\ Fencing(Current(tab[o]))
    /\ \A a \in Tabs : rekeys[a] # None => Fencing(rekeys[a])

\* While an operation is on a tab, every helper in it is one it retires.
HitTabs ==
    \A o \in TabOps : Live(o) =>
        \A h \in Helpers : tabOf[h] = Current(tab[o]) => conn[h] = "gone" \/ h \in hit[o]

FenceRecords == Aliases /\ Balanced /\ Fenced /\ HitTabs
FenceInv == TypeInv /\ Roster /\ FenceRecords

-----------------------------------------------------------------------------
(* The fence over all tabs. *)

RunningAll == {o \in AllOps : status[o] = "running"}

\* The fence counts the operations on all tabs that have not ended.
Counted ==
    /\ allOps = Cardinality(RunningAll) /\ (allOps = 0 => allOut = {})
    /\ \A o \in AllOps : status[o] # "fenced"

\* A helper whose late outcomes are collected is one that an operation has
\* still to clean up.
ActiveHeld ==
    \A h \in active : \E o \in Destructive :
        /\ Live(o)
        /\ h \in todo[o] \/ (o \in AllOps /\ h \in allOut \ done[o])

AllFence == Counted /\ ActiveHeld
AllInv == FenceInv /\ AllFence

-----------------------------------------------------------------------------
(* Aliases, and counting. *)

USE RetirementAssumption, KindsDistinct
USE DEF paneVars, metaVars, markVars, safeVars, txVars, sessVars, allVars, opVars, histVars, Goto,
        Free, ForgetMeta, FinishFailed, ForgetPrior, Ops, Destructive

\* A set of naturals has a least element.
LEMMA LeastElement ==
    ASSUME NEW T, T \subseteq Nat, T # {}
    PROVE  \E n \in T : \A m \in T : n <= m
<1>1. PICK n \in T : \A m \in T : ~ (<<m, n>> \in OpToRel(<, Nat))
  BY NatLessThanWellFounded, WFMin, Zenon
<1>2. \A m \in T : ~ (m < n)
  BY <1>1 DEF OpToRel
<1>3. QED
  BY <1>2

\* Aliases that are not chained are followed in one step.
LEMMA ResolveFlat ==
    ASSUME NEW k \in [Tabs -> Tabs \cup {None}],
           \A a \in Tabs : k[a] # None => k[k[a]] = None, NEW t \in Tabs
    PROVE  ResolveIn(k, t) = IF k[t] = None THEN t ELSE k[t]
<1> DEFINE N == Cardinality(Tabs)
           to == IF k[t] = None THEN t ELSE k[t]
           body(f) == [i \in 0..N |-> IF i = 0 THEN t
                         ELSE IF k[f[i - 1]] = None THEN f[i - 1] ELSE k[f[i - 1]]]
           g == [i \in 0..N |-> IF i = 0 THEN t ELSE to]
           at == CHOOSE f : f = body(f)
<1>1. N \in Nat /\ N # 0
  BY FS_CardinalityType, FS_EmptySet
<1>2. k[to] = None /\ to \in Tabs
  OBVIOUS
<1>3. body(g) = g
  <2>1. ASSUME NEW i \in 0..N, i # 0
        PROVE  (IF k[g[i - 1]] = None THEN g[i - 1] ELSE k[g[i - 1]]) = to
    <3>1. i - 1 \in 0..N
      BY <2>1, <1>1
    <3>2. g[i - 1] = IF i - 1 = 0 THEN t ELSE to
      BY <3>1
    <3>3. QED
      BY <1>2, <3>2
  <2>2. QED
    BY <2>1
<1>4. at = body(at)
  BY <1>3
<1>5. \A i \in 1..N : at[i] = to
  <2> DEFINE Bad == {i \in 1..N : at[i] # to}
  <2>1. SUFFICES ASSUME Bad # {} PROVE FALSE
    OBVIOUS
  <2>2. PICK i \in Bad : \A j \in Bad : i <= j
    <3>1. Bad \subseteq Nat
      BY <1>1
    <3>2. QED
      BY <2>1, <3>1, LeastElement
  <2>3. i \in 1..N /\ i - 1 \in 0..N /\ i \in Nat
    BY <1>1
  <2>4. at[i - 1] \in {t, to}
    <3>0. at[0] = t
      <4> HIDE DEF at
      <4>1. QED
        BY <1>1, <1>4
    <3>1. CASE i = 1
      BY <3>0, <3>1
    <3>2. CASE i # 1
      BY <2>2, <2>3, <3>2
    <3>3. QED
      BY <3>1, <3>2
  <2>5. at[i] = IF k[at[i - 1]] = None THEN at[i - 1] ELSE k[at[i - 1]]
    <3> HIDE DEF at
    <3>1. QED
      BY <1>4, <2>3
  <2>6. at[i] = to
    BY <1>2, <2>4, <2>5
  <2>7. QED
    BY <2>6
<1>6. at[N] = to
  BY <1>1, <1>5
<1>7. QED
  BY <1>6 DEF ResolveIn

\* resolve_tab_retirement_id finds the id a tab has now.
LEMMA ResolveCurrent ==
    ASSUME TypeInv, Aliases
    PROVE  \A x \in Tabs : Resolve(x) = Current(x) /\ Current(x) \in Tabs
<1> SUFFICES ASSUME NEW x \in Tabs PROVE Resolve(x) = Current(x) /\ Current(x) \in Tabs
  OBVIOUS
<1>1. ResolveIn(rekeys, x) = IF rekeys[x] = None THEN x ELSE rekeys[x]
  <2>1. rekeys \in [Tabs -> Tabs \cup {None}]
    BY DEF TypeInv, FenceTypes
  <2>2. \A a \in Tabs : rekeys[a] # None => rekeys[rekeys[a]] = None
    BY DEF Aliases
  <2>3. QED
    BY <2>1, <2>2, ResolveFlat
<1>2. QED
  BY <1>1 DEF Resolve, Current, TypeInv, FenceTypes

\* The helpers that a tab id resolves to are connected.
LEMMA OwnersConnected ==
    ASSUME FenceInv
    PROVE  \A x \in Tabs : OwnersOf(x) \subseteq Connected
  BY DEF FenceInv, TypeInv, HelperTypes, Roster, Absent, Leaving, OwnersOf, Connected, Unpublished

\* Counting requests.
LEMMA Counting ==
    ASSUME NEW X, X \subseteq Ops
    PROVE  /\ Cardinality(X) \in Nat
           /\ Cardinality(X) = 0 <=> X = {}
           /\ \A o \in Ops \ X : Cardinality(X \cup {o}) = Cardinality(X) + 1
           /\ \A o \in X : Cardinality(X \ {o}) = Cardinality(X) - 1
<1> HIDE DEF Ops
<1>1. IsFiniteSet(X)
  BY FS_Subset
<1>2. QED
  BY <1>1, FS_CardinalityType, FS_EmptySet, FS_AddElement, FS_RemoveElement

-----------------------------------------------------------------------------
(* The types. *)

\* Publishing an owner keeps the fences of the tabs well formed.
LEMMA NewSessionType ==
    ASSUME TypeInv, NEW h \in Helpers, NewSession(h)
    PROVE  TypeInv'

<1>1. HelperTypes' /\ MarkTypes' /\ SessionTypes' /\ RequestTypes' /\ JobTypes'
  BY DEF TypeInv, HelperTypes, MarkTypes, SessionTypes, RequestTypes, JobTypes, NewSession,
         FencesWithout, Fences, FencedOut, Fencing
<1>2. TransactionTypes'
  BY DEF TypeInv, HelperTypes, TransactionTypes, NewSession, FencesWithout, Fences, FencedOut,
         Fencing
<1>3. FenceTypes'
  <2> DEFINE t == home[h]
             swept == FencesWithout(h, {u \in Tabs \ {t} : ~ Fencing(u)})
             fenced == swept[t] # None /\ FencedOut(h, t)
  <2>1. ASSUME NEW f \in Fences, NEW out \in SUBSET Helpers PROVE [f EXCEPT !.out = out] \in Fences
    BY DEF Fences
  <2>2. ASSUME NEW f \in Fences PROVE f.out \in SUBSET Helpers
    BY DEF Fences
  <2>3. swept \in [Tabs -> Fences \cup {None}]
    BY <2>1, <2>2 DEF TypeInv, FenceTypes, FencesWithout
  <2> DEFINE new == IF fenced THEN [swept[t] EXCEPT !.out = @ \cup {h}] ELSE None
  <2>4. rekeys' = rekeys /\ fence' = [swept EXCEPT ![t] = new]
    BY DEF NewSession
  <2>5. t \in Tabs => new \in Fences \cup {None}
    <3>1. ASSUME t \in Tabs, fenced PROVE swept[t] \in Fences
      BY <2>3, <3>1
    <3>2. ASSUME t \in Tabs, fenced PROVE [swept[t] EXCEPT !.out = @ \cup {h}] \in Fences
      BY <3>1, <3>2, <2>1, <2>2
    <3>3. QED
      BY <3>2
  <2> HIDE DEF swept, new
  <2>6. QED
    BY <2>3, <2>4, <2>5 DEF TypeInv, FenceTypes
<1>4. QED
  BY <1>1, <1>2, <1>3 DEF TypeInv

\* Waiting for the gate of the predecessor keeps the types.
LEMMA PriorGateType ==
    ASSUME TypeInv, NEW h \in Helpers, PriorGate(h)
    PROVE  TypeInv'

<1>1. MarkTypes' /\ FenceTypes' /\ RequestTypes' /\ JobTypes'
  BY DEF TypeInv, MarkTypes, FenceTypes, RequestTypes, JobTypes, PriorGate
<1>2. HelperTypes'
  BY DEF TypeInv, HelperTypes, PriorGate
<1>3. TransactionTypes'
  BY DEF TypeInv, TransactionTypes, PriorGate
<1>4. SessionTypes'
  BY DEF TypeInv, SessionTypes, PriorGate
<1>5. QED
  BY <1>1, <1>2, <1>3, <1>4 DEF TypeInv

\* The close of the predecessor keeps the types.
LEMMA PriorClosedType ==
    ASSUME TypeInv, NEW h \in Helpers, PriorClosed(h)
    PROVE  TypeInv'

<1>1. MarkTypes' /\ FenceTypes' /\ RequestTypes' /\ JobTypes'
  BY DEF TypeInv, MarkTypes, FenceTypes, RequestTypes, JobTypes, PriorClosed
<1>2. HelperTypes'
  BY DEF TypeInv, HelperTypes, PriorClosed
<1>3. TransactionTypes'
  BY DEF TypeInv, TransactionTypes, PriorClosed
<1>4. SessionTypes'
  BY DEF TypeInv, SessionTypes, PriorClosed
<1>5. QED
  BY <1>1, <1>2, <1>3, <1>4 DEF TypeInv

\* A failed session/new keeps the types.
LEMMA NewFailsType ==
    ASSUME TypeInv, NEW h \in Helpers, NewFails(h)
    PROVE  TypeInv'

<1>1. FenceTypes' /\ RequestTypes' /\ JobTypes'
  BY DEF TypeInv, FenceTypes, RequestTypes, JobTypes, NewFails
<1>2. HelperTypes'
  BY DEF TypeInv, HelperTypes, NewFails
<1>3. MarkTypes'
  BY DEF TypeInv, MarkTypes, NewFails
<1>4. TransactionTypes'
  BY DEF TypeInv, TransactionTypes, NewFails
<1>5. SessionTypes'
  BY DEF TypeInv, SessionTypes, NewFails
<1>6. QED
  BY <1>1, <1>2, <1>3, <1>4, <1>5 DEF TypeInv

\* The session a helper commits is that of its own request.
LEMMA NewReplyType ==
    ASSUME TypeInv, NEW h \in Helpers, NewReply(h)
    PROVE  TypeInv'

<1>1. MarkTypes' /\ FenceTypes' /\ RequestTypes' /\ JobTypes'
  BY DEF TypeInv, MarkTypes, FenceTypes, RequestTypes, JobTypes, NewReply, Sessions
<1>2. HelperTypes'
  BY DEF TypeInv, HelperTypes, TransactionTypes, NewReply, Sessions
<1>3. TransactionTypes'
  BY DEF TypeInv, TransactionTypes, NewReply, Sessions
<1>4. SessionTypes'
  BY DEF TypeInv, HelperTypes, TransactionTypes, SessionTypes, NewReply, Sessions
<1>5. QED
  BY <1>1, <1>2, <1>3, <1>4 DEF TypeInv

\* Waiting for the gate of a late session keeps the types.
LEMMA LateGateType ==
    ASSUME TypeInv, NEW h \in Helpers, LateGate(h)
    PROVE  TypeInv'

<1>1. FenceTypes' /\ RequestTypes' /\ JobTypes'
  BY DEF TypeInv, FenceTypes, RequestTypes, JobTypes, LateGate
<1>2. HelperTypes'
  BY DEF TypeInv, HelperTypes, LateGate
<1>3. MarkTypes'
  BY DEF TypeInv, MarkTypes, LateGate
<1>4. TransactionTypes'
  BY DEF TypeInv, TransactionTypes, LateGate
<1>5. SessionTypes'
  BY DEF TypeInv, SessionTypes, LateGate
<1>6. QED
  BY <1>1, <1>2, <1>3, <1>4, <1>5 DEF TypeInv

\* The close of a late session keeps the types.
LEMMA LateClosedType ==
    ASSUME TypeInv, NEW h \in Helpers, LateClosed(h)
    PROVE  TypeInv'

<1>1. FenceTypes' /\ RequestTypes' /\ JobTypes'
  BY DEF TypeInv, FenceTypes, RequestTypes, JobTypes, LateClosed
<1>2. HelperTypes'
  BY DEF TypeInv, HelperTypes, LateClosed
<1>3. MarkTypes'
  BY DEF TypeInv, MarkTypes, LateClosed
<1>4. TransactionTypes'
  BY DEF TypeInv, TransactionTypes, LateClosed
<1>5. SessionTypes'
  BY DEF TypeInv, SessionTypes, LateClosed
<1>6. QED
  BY <1>1, <1>2, <1>3, <1>4, <1>5 DEF TypeInv

\* A close during disconnect cleanup keeps the types.
LEMMA CleanupClosedType ==
    ASSUME TypeInv, NEW h \in Helpers, CleanupClosed(h)
    PROVE  TypeInv'

<1>1. HelperTypes' /\ MarkTypes' /\ FenceTypes' /\ RequestTypes' /\ JobTypes'
  BY DEF TypeInv, HelperTypes, MarkTypes, FenceTypes, RequestTypes, JobTypes, CleanupClosed
<1>2. TransactionTypes'
  BY DEF TypeInv, TransactionTypes, CleanupClosed
<1>3. SessionTypes'
  BY DEF TypeInv, SessionTypes, CleanupClosed
<1>4. QED
  BY <1>1, <1>2, <1>3 DEF TypeInv

\* A retirement makes a well-formed fence, new or one operation larger.
LEMMA RetireTabType ==
    ASSUME TypeInv, NEW o \in Ops, NEW t \in Tabs, RetireTab(o, t)
    PROVE  TypeInv'

<1>1. HelperTypes' /\ TransactionTypes' /\ SessionTypes' /\ JobTypes'
  BY DEF TypeInv, HelperTypes, TransactionTypes, SessionTypes, JobTypes, RetireTab, MayBegin,
         Fences, Connected, Published, OwnersOf
<1>2. MarkTypes'
  BY DEF TypeInv, MarkTypes, RetireTab, MayBegin, Fences, Connected, Published, OwnersOf
<1>3. FenceTypes'
  BY DEF TypeInv, FenceTypes, RetireTab, MayBegin, Fences, Connected, Published, OwnersOf
<1>4. RequestTypes'
  BY DEF TypeInv, RequestTypes, RetireTab, MayBegin, Fences, Connected, Published, OwnersOf
<1>5. QED
  BY <1>1, <1>2, <1>3, <1>4 DEF TypeInv

\* Finding the session of a retired tab keeps the types.
LEMMA RetireSessionType ==
    ASSUME TypeInv, NEW o \in Ops, RetireSession(o)
    PROVE  TypeInv'

<1>1. TransactionTypes' /\ SessionTypes' /\ FenceTypes'
  BY DEF TypeInv, TransactionTypes, SessionTypes, FenceTypes, RetireSession, FindSession, Ended,
         OwnersOf, Routed
<1>2. HelperTypes'
  BY DEF TypeInv, HelperTypes, RetireSession, FindSession, Ended, OwnersOf, Routed
<1>3. MarkTypes'
  BY DEF TypeInv, MarkTypes, RetireSession, FindSession, Ended, OwnersOf, Routed
<1>4. RequestTypes'
  BY DEF TypeInv, RequestTypes, RetireSession, FindSession, Ended, OwnersOf, Routed
<1>5. JobTypes'
  BY DEF TypeInv, JobTypes, RetireSession, FindSession, Ended, OwnersOf, Routed
<1>6. QED
  BY <1>1, <1>2, <1>3, <1>4, <1>5 DEF TypeInv

\* Finding the session a close-by-tab request names keeps the types.
LEMMA CloseTabSessionType ==
    ASSUME TypeInv, NEW o \in Ops, NEW t \in Tabs, CloseTabSession(o, t)
    PROVE  TypeInv'

<1>1. TransactionTypes' /\ SessionTypes' /\ FenceTypes'
  BY DEF TypeInv, TransactionTypes, SessionTypes, FenceTypes, CloseTabSession, FindSession, Ended,
         MayBegin, OwnersOf, Routed
<1>2. HelperTypes'
  BY DEF TypeInv, HelperTypes, CloseTabSession, FindSession, Ended, MayBegin, OwnersOf, Routed
<1>3. MarkTypes'
  BY DEF TypeInv, MarkTypes, CloseTabSession, FindSession, Ended, MayBegin, OwnersOf, Routed
<1>4. RequestTypes'
  BY DEF TypeInv, RequestTypes, CloseTabSession, FindSession, Ended, MayBegin, OwnersOf, Routed
<1>5. JobTypes'
  BY DEF TypeInv, JobTypes, CloseTabSession, FindSession, Ended, MayBegin, OwnersOf, Routed
<1>6. QED
  BY <1>1, <1>2, <1>3, <1>4, <1>5 DEF TypeInv

\* Finding the session a reset names keeps the types.
LEMMA ResetTabSessionType ==
    ASSUME TypeInv, NEW o \in Ops, NEW t \in Tabs, ResetTabSession(o, t)
    PROVE  TypeInv'

<1>1. TransactionTypes' /\ SessionTypes' /\ FenceTypes'
  BY DEF TypeInv, TransactionTypes, SessionTypes, FenceTypes, ResetTabSession, FindSession, Ended,
         MayBegin, OwnersOf, Routed
<1>2. HelperTypes'
  BY DEF TypeInv, HelperTypes, ResetTabSession, FindSession, Ended, MayBegin, OwnersOf, Routed
<1>3. MarkTypes'
  BY DEF TypeInv, MarkTypes, ResetTabSession, FindSession, Ended, MayBegin, OwnersOf, Routed
<1>4. RequestTypes'
  BY DEF TypeInv, RequestTypes, ResetTabSession, FindSession, Ended, MayBegin, OwnersOf, Routed
<1>5. JobTypes'
  BY DEF TypeInv, JobTypes, ResetTabSession, FindSession, Ended, MayBegin, OwnersOf, Routed
<1>6. QED
  BY <1>1, <1>2, <1>3, <1>4, <1>5 DEF TypeInv

\* An operation at the gate of a session keeps the types.
LEMMA CloseGateType ==
    ASSUME TypeInv, NEW o \in Ops, NEW s \in Sessions, CloseGate(o, s)
    PROVE  TypeInv'

<1>1. HelperTypes' /\ MarkTypes' /\ TransactionTypes' /\ FenceTypes'
  BY DEF TypeInv, HelperTypes, MarkTypes, TransactionTypes, FenceTypes, CloseGate, EndJob, Ended
<1>2. SessionTypes'
  BY DEF TypeInv, SessionTypes, CloseGate, EndJob, Ended
<1>3. RequestTypes'
  BY DEF TypeInv, RequestTypes, CloseGate, EndJob, Ended
<1>4. JobTypes'
  BY DEF TypeInv, JobTypes, CloseGate, EndJob, Ended
<1>5. QED
  BY <1>1, <1>2, <1>3, <1>4 DEF TypeInv

\* The agent's answer to a close keeps the types.
LEMMA CloseReturnsType ==
    ASSUME TypeInv, NEW o \in Ops, NEW s \in Sessions, CloseReturns(o, s)
    PROVE  TypeInv'

<1>1. TransactionTypes' /\ FenceTypes'
  BY DEF TypeInv, TransactionTypes, FenceTypes, CloseReturns, EndJob, Ended
<1>2. HelperTypes'
  BY DEF TypeInv, HelperTypes, CloseReturns, EndJob, Ended
<1>3. MarkTypes'
  BY DEF TypeInv, MarkTypes, CloseReturns, EndJob, Ended
<1>4. SessionTypes'
  BY DEF TypeInv, SessionTypes, CloseReturns, EndJob, Ended
<1>5. RequestTypes'
  BY DEF TypeInv, RequestTypes, CloseReturns, EndJob, Ended
<1>6. JobTypes'
  BY DEF TypeInv, JobTypes, CloseReturns, EndJob, Ended
<1>7. QED
  BY <1>1, <1>2, <1>3, <1>4, <1>5, <1>6 DEF TypeInv

\* Forced cleanup keeps the types.
LEMMA ForceCleanupType ==
    ASSUME TypeInv, NEW o \in Ops, NEW h \in Helpers, ForceCleanup(o, h)
    PROVE  TypeInv'

<1>1. TransactionTypes' /\ FenceTypes' /\ JobTypes'
  BY DEF TypeInv, TransactionTypes, FenceTypes, JobTypes, ForceCleanup, Routed
<1>2. HelperTypes'
  BY DEF TypeInv, HelperTypes, ForceCleanup, Routed
<1>3. MarkTypes'
  BY DEF TypeInv, MarkTypes, ForceCleanup, Routed
<1>4. SessionTypes'
  BY DEF TypeInv, SessionTypes, ForceCleanup, Routed
<1>5. RequestTypes'
  BY DEF TypeInv, RequestTypes, ForceCleanup, Routed
<1>6. QED
  BY <1>1, <1>2, <1>3, <1>4, <1>5 DEF TypeInv

\* Completing an operation leaves a well-formed fence, or none.
LEMMA CompleteTabType ==
    ASSUME TypeInv, NEW o \in Ops, CompleteTab(o)
    PROVE  TypeInv'

<1>1. HelperTypes' /\ MarkTypes' /\ TransactionTypes' /\ SessionTypes' /\ RequestTypes' /\ JobTypes'
  BY DEF TypeInv, HelperTypes, MarkTypes, TransactionTypes, SessionTypes, RequestTypes, JobTypes,
         CompleteTab, Fences
<1>2. FenceTypes'
  <2> DEFINE c == Resolve(tab[o])
             n == IF fence[c] = None \/ fence[c].ops = 0 THEN 0 ELSE fence[c].ops - 1
  <2>1. ASSUME NEW f \in Fences, NEW m \in Nat
        PROVE  [f EXCEPT !.ops = m, !.phase = IF m = 0 THEN "CompletedAwaitingDisconnect" ELSE @]
                 \in Fences
    BY DEF Fences
  <2>2. ASSUME c \in Tabs, fence[c] # None PROVE fence[c] \in Fences /\ n \in Nat
    BY <2>2 DEF TypeInv, FenceTypes, Fences
  <2>3. fence' \in [Tabs -> Fences \cup {None}]
    <3>1. CASE c \in Tabs /\ fence[c] # None
      BY <3>1, <2>1, <2>2 DEF TypeInv, FenceTypes, CompleteTab
    <3>2. CASE ~ (c \in Tabs /\ fence[c] # None)
      BY <3>2 DEF TypeInv, FenceTypes, CompleteTab
    <3>3. QED
      BY <3>1, <3>2
  <2>4. QED
    BY <2>3 DEF TypeInv, FenceTypes, CompleteTab
<1>3. QED
  BY <1>1, <1>2 DEF TypeInv

\* Every step keeps the types.
LEMMA NextType ==
    ASSUME TypeInv, [Next]_vars
    PROVE  TypeInv'
<1>1. ASSUME NEW h \in Helpers, NEW t \in Tabs, Connect(h, t) PROVE TypeInv'
  BY <1>1
  DEF TypeInv, HelperTypes, MarkTypes, TransactionTypes, SessionTypes, FenceTypes, RequestTypes,
      JobTypes, Connect
<1>2. ASSUME NEW h \in Helpers, NewSession(h) PROVE TypeInv'
  BY <1>2, NewSessionType
<1>3. ASSUME NEW h \in Helpers, PriorGate(h) PROVE TypeInv'
  BY <1>3, PriorGateType
<1>4. ASSUME NEW h \in Helpers, PriorClosed(h) PROVE TypeInv'
  BY <1>4, PriorClosedType
<1>5. ASSUME NEW h \in Helpers, NewFails(h) PROVE TypeInv'
  BY <1>5, NewFailsType
<1>6. ASSUME NEW h \in Helpers, NewReply(h) PROVE TypeInv'
  BY <1>6, NewReplyType
<1>7. ASSUME NEW h \in Helpers, LateGate(h) PROVE TypeInv'
  BY <1>7, LateGateType
<1>8. ASSUME NEW h \in Helpers, LateClosed(h) PROVE TypeInv'
  BY <1>8, LateClosedType
<1>9. ASSUME NEW h \in Helpers, Disconnect(h) PROVE TypeInv'
  BY <1>9
  DEF TypeInv, HelperTypes, MarkTypes, TransactionTypes, SessionTypes, FenceTypes, RequestTypes,
      JobTypes, Disconnect
<1>10. ASSUME NEW h \in Helpers, CleanupGate(h) PROVE TypeInv'
  BY <1>10
  DEF TypeInv, HelperTypes, MarkTypes, TransactionTypes, SessionTypes, FenceTypes, RequestTypes,
      JobTypes, CleanupGate, Routed, Sessions
<1>11. ASSUME NEW h \in Helpers, CleanupClosed(h) PROVE TypeInv'
  BY <1>11, CleanupClosedType
<1>12. ASSUME NEW h \in Helpers, Gone(h) PROVE TypeInv'
  BY <1>12
  DEF TypeInv, HelperTypes, MarkTypes, TransactionTypes, SessionTypes, FenceTypes, RequestTypes,
      JobTypes, Gone, FencesWithout, Fences
<1>13. ASSUME NEW t \in Tabs, NEW u \in Tabs, Rename(t, u) PROVE TypeInv'
  BY <1>13
  DEF TypeInv, HelperTypes, MarkTypes, TransactionTypes, SessionTypes, FenceTypes, RequestTypes,
      JobTypes, Rename
<1>14. ASSUME NEW h \in Helpers, LearnRename(h) PROVE TypeInv'
  BY <1>14
  DEF TypeInv, HelperTypes, MarkTypes, TransactionTypes, SessionTypes, FenceTypes, RequestTypes,
      JobTypes, LearnRename
<1>15. ASSUME NEW o \in Ops, NEW t \in Tabs, RetireTab(o, t) PROVE TypeInv'
  BY <1>15, RetireTabType
<1>16. ASSUME NEW o \in Ops, RetireSession(o) PROVE TypeInv'
  BY <1>16, RetireSessionType
<1>17. ASSUME NEW o \in Ops, NEW t \in Tabs, CloseTabSession(o, t) PROVE TypeInv'
  BY <1>17, CloseTabSessionType
<1>18. ASSUME NEW o \in Ops, NEW t \in Tabs, ResetTabSession(o, t) PROVE TypeInv'
  BY <1>18, ResetTabSessionType
<1>19. ASSUME NEW o \in Ops, NEW s \in Sessions, Restore(o, s) PROVE TypeInv'
  BY <1>19
  DEF TypeInv, HelperTypes, MarkTypes, TransactionTypes, SessionTypes, FenceTypes, RequestTypes,
      JobTypes, Restore
<1>20. ASSUME NEW o \in Ops, NEW s \in Sessions, CloseGate(o, s) PROVE TypeInv'
  BY <1>20, CloseGateType
<1>21. ASSUME NEW o \in Ops, NEW s \in Sessions, CloseTimesOut(o, s) PROVE TypeInv'
  BY <1>21
  DEF TypeInv, HelperTypes, MarkTypes, TransactionTypes, SessionTypes, FenceTypes, RequestTypes,
      JobTypes, CloseTimesOut, EndJob, Ended
<1>22. ASSUME NEW o \in Ops, NEW s \in Sessions, CloseReturns(o, s) PROVE TypeInv'
  BY <1>22, CloseReturnsType
<1>23. ASSUME NEW o \in Ops, NEW h \in Helpers, ForceCleanup(o, h) PROVE TypeInv'
  BY <1>23, ForceCleanupType
<1>24. ASSUME NEW o \in Ops, CompleteTab(o) PROVE TypeInv'
  BY <1>24, CompleteTabType
<1>25. ASSUME NEW o \in Ops, RetireAll(o) PROVE TypeInv'
  BY <1>25
  DEF TypeInv, HelperTypes, MarkTypes, TransactionTypes, SessionTypes, FenceTypes, RequestTypes,
      JobTypes, RetireAll, MayBegin, Capture, Connected
<1>26. ASSUME NEW o \in Ops, NextBatch(o) PROVE TypeInv'
  BY <1>26
  DEF TypeInv, HelperTypes, MarkTypes, TransactionTypes, SessionTypes, FenceTypes, RequestTypes,
      JobTypes, NextBatch, Capture
<1>27. ASSUME NEW o \in Ops, FinishAll(o) PROVE TypeInv'
  BY <1>27
  DEF TypeInv, HelperTypes, MarkTypes, TransactionTypes, SessionTypes, FenceTypes, RequestTypes,
      JobTypes, FinishAll
<1>28. CASE UNCHANGED vars
  BY <1>28
  DEF TypeInv, HelperTypes, MarkTypes, TransactionTypes, SessionTypes, FenceTypes, RequestTypes,
      JobTypes, vars
<1>29. QED
  BY <1>1, <1>2, <1>3, <1>4, <1>5, <1>6, <1>7, <1>8, <1>9, <1>10, <1>11, <1>12, <1>13, <1>14,
     <1>15, <1>16, <1>17, <1>18, <1>19, <1>20, <1>21, <1>22, <1>23, <1>24, <1>25, <1>26, <1>27,
     <1>28
  DEF Next, HelperStep, OpStep

-----------------------------------------------------------------------------
(* Helpers and requests. *)

\* The owners of a retired tab are connected helpers.
LEMMA RetireSessionRoster ==
    ASSUME FenceInv, NEW o \in Ops, RetireSession(o)
    PROVE  Roster'
<1>0. \A x \in Tabs : Resolve(x) = Current(x) /\ Current(x) \in Tabs
  BY ResolveCurrent DEF FenceInv, FenceRecords

<1>1. Leaving' /\ InTabs'
  BY DEF FenceInv, Roster, Leaving, InTabs, Unpublished, RetireSession, FindSession, Ended,
         OwnersOf
<1>2. Absent'
  <2>1. tab[o] \in Tabs
    BY DEF FenceInv, FenceRecords, Fenced, Live, RetireSession
  <2>2. closing' \subseteq closing \cup Connected
    BY <1>0, <2>1, OwnersConnected DEF RetireSession, FindSession
  <2>3. owner' \in {owner} \cup {[owner EXCEPT ![h] = None] : h \in Helpers}
    BY <1>0, <2>1, OwnersConnected DEF RetireSession, FindSession, Connected
  <2>4. QED
    BY <2>2, <2>3
    DEF FenceInv, TypeInv, HelperTypes, Roster, Absent, Unpublished, Connected, RetireSession,
        FindSession
<1>3. Begun'
  BY DEF FenceInv, TypeInv, HelperTypes, RequestTypes, Roster, Begun, RetireSession, FindSession,
         Ended, OwnersOf
<1>4. Jobs'
  BY DEF FenceInv, TypeInv, HelperTypes, MarkTypes, TransactionTypes, FenceTypes, RequestTypes,
         JobTypes, Roster, Absent, Begun, Jobs, FenceRecords, Unpublished, Connected, Routed,
         RetireSession, FindSession, Ended, OwnersOf
<1>5. QED
  BY <1>1, <1>2, <1>3, <1>4 DEF Roster

\* The owners a close-by-tab request finds are connected helpers.
LEMMA CloseTabSessionRoster ==
    ASSUME FenceInv, NEW o \in Ops, NEW t \in Tabs, CloseTabSession(o, t)
    PROVE  Roster'
<1>0. \A x \in Tabs : Resolve(x) = Current(x) /\ Current(x) \in Tabs
  BY ResolveCurrent DEF FenceInv, FenceRecords

<1>1. Leaving' /\ Begun' /\ Jobs' /\ InTabs'
  BY DEF FenceInv, TypeInv, HelperTypes, MarkTypes, TransactionTypes, FenceTypes, RequestTypes,
         JobTypes, Roster, Absent, Leaving, Begun, Jobs, InTabs, FenceRecords, Unpublished,
         CloseTabSession, FindSession, Ended, MayBegin, OwnersOf, Connected, Routed
<1>2. Absent'
  <2>1. t \in Tabs
    BY DEF FenceInv, FenceRecords, Fenced, Live, CloseTabSession
  <2>2. closing' \subseteq closing \cup Connected
    BY <1>0, <2>1, OwnersConnected DEF CloseTabSession, FindSession
  <2>3. owner' \in {owner} \cup {[owner EXCEPT ![h] = None] : h \in Helpers}
    BY <1>0, <2>1, OwnersConnected DEF CloseTabSession, FindSession, Connected
  <2>4. QED
    BY <2>2, <2>3
    DEF FenceInv, TypeInv, HelperTypes, Roster, Absent, Unpublished, Connected, CloseTabSession,
        FindSession
<1>3. QED
  BY <1>1, <1>2 DEF Roster

\* The owners a reset finds are connected helpers.
LEMMA ResetTabSessionRoster ==
    ASSUME FenceInv, NEW o \in Ops, NEW t \in Tabs, ResetTabSession(o, t)
    PROVE  Roster'
<1>0. \A x \in Tabs : Resolve(x) = Current(x) /\ Current(x) \in Tabs
  BY ResolveCurrent DEF FenceInv, FenceRecords

<1>1. Leaving' /\ Begun' /\ Jobs' /\ InTabs'
  BY DEF FenceInv, TypeInv, HelperTypes, MarkTypes, TransactionTypes, FenceTypes, RequestTypes,
         JobTypes, Roster, Absent, Leaving, Begun, Jobs, InTabs, FenceRecords, Unpublished,
         ResetTabSession, FindSession, Ended, MayBegin, OwnersOf, Connected, Routed
<1>2. Absent'
  <2>1. t \in Tabs
    BY DEF FenceInv, FenceRecords, Fenced, Live, ResetTabSession
  <2>2. closing' \subseteq closing \cup Connected
    BY <1>0, <2>1, OwnersConnected DEF ResetTabSession, FindSession
  <2>3. owner' \in {owner} \cup {[owner EXCEPT ![h] = None] : h \in Helpers}
    BY <1>0, <2>1, OwnersConnected DEF ResetTabSession, FindSession, Connected
  <2>4. QED
    BY <2>2, <2>3
    DEF FenceInv, TypeInv, HelperTypes, Roster, Absent, Unpublished, Connected, ResetTabSession,
        FindSession
<1>3. QED
  BY <1>1, <1>2 DEF Roster

\* At the gate of a session an operation goes on with that session only.
LEMMA CloseGateRoster ==
    ASSUME FenceInv, NEW o \in Ops, NEW s \in Sessions, CloseGate(o, s)
    PROVE  Roster'

<1>1. Absent' /\ Leaving' /\ Begun' /\ InTabs'
  BY DEF FenceInv, TypeInv, HelperTypes, RequestTypes, Roster, Absent, Leaving, Begun, InTabs,
         Unpublished, CloseGate, EndJob, Ended
<1>2. Jobs'
  <2>1. job' = [job EXCEPT ![o][s] = job'[o][s]]
    BY DEF CloseGate, EndJob, FenceInv, TypeInv, JobTypes
  <2>2. CASE s \in routed
    BY <2>1, <2>2 DEF FenceInv, TypeInv, JobTypes, Roster, Jobs, CloseGate
  <2>3. CASE s \notin routed
    BY <2>3 DEF FenceInv, TypeInv, JobTypes, RequestTypes, Roster, Jobs, CloseGate, EndJob, Ended
  <2>4. QED
    BY <2>2, <2>3
<1>3. QED
  BY <1>1, <1>2 DEF Roster

\* Forced cleanup ends an operation's work on a helper that has none left.
LEMMA ForceCleanupRoster ==
    ASSUME FenceInv, NEW o \in Ops, NEW h \in Helpers, ForceCleanup(o, h)
    PROVE  Roster'

<1>1. Absent' /\ Leaving' /\ Begun' /\ InTabs'
  BY DEF FenceInv, TypeInv, HelperTypes, MarkTypes, FenceTypes, RequestTypes, Roster, Absent,
         Leaving, Begun, InTabs, FenceRecords, Unpublished, ForceCleanup
<1>2. Jobs'
  BY DEF FenceInv, TypeInv, JobTypes, RequestTypes, Roster, Jobs, ForceCleanup, JobsEnded
<1>3. QED
  BY <1>1, <1>2 DEF Roster

\* Every step keeps what is known of helpers and requests.
LEMMA NextRoster ==
    ASSUME FenceInv, [Next]_vars
    PROVE  Roster'
<1>1. ASSUME NEW h \in Helpers, NEW t \in Tabs, Connect(h, t) PROVE Roster'
  BY <1>1
  DEF FenceInv, TypeInv, HelperTypes, RequestTypes, Roster, Absent, Leaving, Begun, Jobs, InTabs,
      Unpublished, Connect
<1>2. ASSUME NEW h \in Helpers, NewSession(h) PROVE Roster'
  BY <1>2
  DEF FenceInv, TypeInv, HelperTypes, MarkTypes, TransactionTypes, FenceTypes, RequestTypes,
      JobTypes, Roster, Absent, Leaving, Begun, Jobs, InTabs, FenceRecords, Unpublished, Connected,
      Routed, NewSession
<1>3. ASSUME NEW h \in Helpers, PriorGate(h) PROVE Roster'
  BY <1>3
  DEF FenceInv, TypeInv, HelperTypes, MarkTypes, TransactionTypes, FenceTypes, RequestTypes,
      JobTypes, Roster, Absent, Leaving, Begun, Jobs, InTabs, FenceRecords, Unpublished, Connected,
      Routed, PriorGate
<1>4. ASSUME NEW h \in Helpers, PriorClosed(h) PROVE Roster'
  BY <1>4 DEF FenceInv, Roster, Absent, Leaving, Begun, Jobs, InTabs, Unpublished, PriorClosed
<1>5. ASSUME NEW h \in Helpers, NewFails(h) PROVE Roster'
  BY <1>5
  DEF FenceInv, TypeInv, HelperTypes, RequestTypes, Roster, Absent, Leaving, Begun, Jobs, InTabs,
      Unpublished, NewFails
<1>6. ASSUME NEW h \in Helpers, NewReply(h) PROVE Roster'
  BY <1>6
  DEF FenceInv, TypeInv, HelperTypes, MarkTypes, TransactionTypes, FenceTypes, RequestTypes,
      JobTypes, Roster, Absent, Leaving, Begun, Jobs, InTabs, FenceRecords, Unpublished, Connected,
      Routed, NewReply
<1>7. ASSUME NEW h \in Helpers, LateGate(h) PROVE Roster'
  BY <1>7
  DEF FenceInv, TypeInv, HelperTypes, MarkTypes, TransactionTypes, FenceTypes, RequestTypes,
      JobTypes, Roster, Absent, Leaving, Begun, Jobs, InTabs, FenceRecords, Unpublished, Connected,
      Routed, LateGate
<1>8. ASSUME NEW h \in Helpers, LateClosed(h) PROVE Roster'
  BY <1>8
  DEF FenceInv, TypeInv, HelperTypes, RequestTypes, Roster, Absent, Leaving, Begun, Jobs, InTabs,
      Unpublished, LateClosed
<1>9. ASSUME NEW h \in Helpers, Disconnect(h) PROVE Roster'
  BY <1>9
  DEF FenceInv, TypeInv, HelperTypes, MarkTypes, TransactionTypes, FenceTypes, RequestTypes,
      JobTypes, Roster, Absent, Leaving, Begun, Jobs, InTabs, FenceRecords, Unpublished, Connected,
      Routed, Disconnect
<1>10. ASSUME NEW h \in Helpers, CleanupGate(h) PROVE Roster'
  BY <1>10 DEF FenceInv, Roster, Absent, Leaving, Begun, Jobs, InTabs, Unpublished, CleanupGate
<1>11. ASSUME NEW h \in Helpers, CleanupClosed(h) PROVE Roster'
  BY <1>11 DEF FenceInv, Roster, Absent, Leaving, Begun, Jobs, InTabs, Unpublished, CleanupClosed
<1>12. ASSUME NEW h \in Helpers, Gone(h) PROVE Roster'
  BY <1>12
  DEF FenceInv, TypeInv, HelperTypes, RequestTypes, Roster, Absent, Leaving, Begun, Jobs, InTabs,
      Unpublished, Gone
<1>13. ASSUME NEW t \in Tabs, NEW u \in Tabs, Rename(t, u) PROVE Roster'
  BY <1>13 DEF FenceInv, Roster, Absent, Leaving, Begun, Jobs, InTabs, Unpublished, Rename
<1>14. ASSUME NEW h \in Helpers, LearnRename(h) PROVE Roster'
  BY <1>14 DEF FenceInv, Roster, Absent, Leaving, Begun, Jobs, InTabs, Unpublished, LearnRename
<1>15. ASSUME NEW o \in Ops, NEW t \in Tabs, RetireTab(o, t) PROVE Roster'
  BY <1>15
  DEF FenceInv, TypeInv, HelperTypes, MarkTypes, TransactionTypes, FenceTypes, RequestTypes,
      JobTypes, Roster, Absent, Leaving, Begun, Jobs, InTabs, FenceRecords, Unpublished, Connected,
      Routed, RetireTab, MayBegin, OwnersOf
<1>16. ASSUME NEW o \in Ops, RetireSession(o) PROVE Roster'
  BY <1>16, RetireSessionRoster
<1>17. ASSUME NEW o \in Ops, NEW t \in Tabs, CloseTabSession(o, t) PROVE Roster'
  BY <1>17, CloseTabSessionRoster
<1>18. ASSUME NEW o \in Ops, NEW t \in Tabs, ResetTabSession(o, t) PROVE Roster'
  BY <1>18, ResetTabSessionRoster
<1>19. ASSUME NEW o \in Ops, NEW s \in Sessions, Restore(o, s) PROVE Roster'
  BY <1>19 DEF FenceInv, Roster, Absent, Leaving, Begun, Jobs, InTabs, Unpublished, Restore
<1>20. ASSUME NEW o \in Ops, NEW s \in Sessions, CloseGate(o, s) PROVE Roster'
  BY <1>20, CloseGateRoster
<1>21. ASSUME NEW o \in Ops, NEW s \in Sessions, CloseTimesOut(o, s) PROVE Roster'
  BY <1>21
  DEF FenceInv, TypeInv, HelperTypes, MarkTypes, TransactionTypes, FenceTypes, RequestTypes,
      JobTypes, Roster, Absent, Leaving, Begun, Jobs, InTabs, FenceRecords, Unpublished,
      CloseTimesOut, EndJob, Ended, Connected, Routed
<1>22. ASSUME NEW o \in Ops, NEW s \in Sessions, CloseReturns(o, s) PROVE Roster'
  BY <1>22
  DEF FenceInv, TypeInv, HelperTypes, MarkTypes, TransactionTypes, FenceTypes, RequestTypes,
      JobTypes, Roster, Absent, Leaving, Begun, Jobs, InTabs, FenceRecords, Unpublished,
      CloseReturns, EndJob, Ended, Connected, Routed
<1>23. ASSUME NEW o \in Ops, NEW h \in Helpers, ForceCleanup(o, h) PROVE Roster'
  BY <1>23, ForceCleanupRoster
<1>24. ASSUME NEW o \in Ops, CompleteTab(o) PROVE Roster'
  BY <1>24 DEF FenceInv, Roster, Absent, Leaving, Begun, Jobs, InTabs, Unpublished, CompleteTab
<1>25. ASSUME NEW o \in Ops, RetireAll(o) PROVE Roster'
  BY <1>25
  DEF FenceInv, TypeInv, HelperTypes, MarkTypes, TransactionTypes, FenceTypes, RequestTypes,
      JobTypes, Roster, Absent, Leaving, Begun, Jobs, InTabs, FenceRecords, Unpublished, Connected,
      Routed, RetireAll, MayBegin, Capture
<1>26. ASSUME NEW o \in Ops, NextBatch(o) PROVE Roster'
  BY <1>26
  DEF FenceInv, TypeInv, HelperTypes, RequestTypes, Roster, Absent, Leaving, Begun, Jobs, InTabs,
      Unpublished, NextBatch, Capture
<1>27. ASSUME NEW o \in Ops, FinishAll(o) PROVE Roster'
  BY <1>27 DEF FenceInv, Roster, Absent, Leaving, Begun, Jobs, InTabs, Unpublished, FinishAll
<1>28. CASE UNCHANGED vars
  BY <1>28 DEF FenceInv, Roster, Absent, Leaving, Begun, Jobs, InTabs, vars, Unpublished
<1>29. QED
  BY <1>1, <1>2, <1>3, <1>4, <1>5, <1>6, <1>7, <1>8, <1>9, <1>10, <1>11, <1>12, <1>13, <1>14,
     <1>15, <1>16, <1>17, <1>18, <1>19, <1>20, <1>21, <1>22, <1>23, <1>24, <1>25, <1>26, <1>27,
     <1>28
  DEF Next, HelperStep, OpStep

-----------------------------------------------------------------------------
(* The fences of tabs. *)

\* The fences after a helper has published its owner: the helper is added where
\* it is refused, and leaves the completed fences of other tabs.
LEMMA NewSessionFence ==
    ASSUME FenceInv, NEW h \in Helpers, NewSession(h)
    PROVE  \A x \in Tabs :
             /\ Fencing(x)' <=> Fencing(x)
             /\ fence'[x] # None =>
                   /\ fence[x] # None
                   /\ fence'[x].ops = fence[x].ops /\ fence'[x].out \subseteq fence[x].out \cup {h}
                   /\ ~ Fencing(x) => fence'[x].out # {}
                   /\ h \in fence'[x].out => h \in fence[x].out \/ (x = home[h] /\ FencedOut(h, x))
<1> DEFINE t == home[h]
           swept == FencesWithout(h, {u \in Tabs \ {t} : ~ Fencing(u)})
           fenced == swept[t] # None /\ FencedOut(h, t)
<1>1. \A x \in Tabs \ {t} :
        /\ Fencing(x) => swept[x] = fence[x]
        /\ swept[x] # None => /\ fence[x] # None /\ swept[x].phase = fence[x].phase
                              /\ swept[x].ops = fence[x].ops
                              /\ swept[x].out \subseteq fence[x].out
                              /\ ~ Fencing(x) => swept[x].out # {}
  BY DEF FenceInv, TypeInv, FenceTypes, Fences, FencesWithout, Fencing
<1>2. t \in Tabs => /\ swept[t] \in {None, fence[t]}
                    /\ swept[t] # None => swept[t] = fence[t] /\ fence[t] \in Fences
                    /\ Fencing(t) => fenced
  BY DEF FenceInv, TypeInv, FenceTypes, Fences, FencesWithout, Fencing, FencedOut
<1>3. \A x \in Tabs : fence'[x] = IF x # t THEN swept[x]
                                  ELSE IF fenced THEN [fence[x] EXCEPT !.out = @ \cup {h}] ELSE None
  <2>1. fence' = [swept EXCEPT ![t] = IF fenced THEN [swept[t] EXCEPT !.out = @ \cup {h}] ELSE None]
    BY DEF NewSession
  <2>2. DOMAIN swept = Tabs
    BY DEF FencesWithout
  <2> HIDE DEF swept
  <2>3. QED
    BY <1>2, <2>1, <2>2
<1>4. \A x \in Tabs : Fencing(x)' <=> Fencing(x)
  <2>1. ASSUME NEW x \in Tabs, x # t PROVE Fencing(x)' <=> Fencing(x)
    <3> HIDE DEF swept
    <3>1. QED
      BY <1>1, <1>3, <2>1 DEF Fencing
  <2>2. ASSUME NEW x \in Tabs, x = t PROVE Fencing(x)' <=> Fencing(x)
    <3>1. CASE fenced
      <4>1. fence'[x] = [fence[x] EXCEPT !.out = @ \cup {h}] /\ fence[x] \in Fences
        BY <1>2, <1>3, <2>2, <3>1
      <4>2. fence'[x] # None /\ fence'[x].phase = fence[x].phase /\ fence[x] # None
        <5> HIDE DEF fenced, swept
        <5>1. QED
          BY <4>1 DEF Fences
      <4>3. QED
        BY <4>2 DEF Fencing
    <3>2. CASE ~ fenced
      <4>1. ~ Fencing(x) /\ fence'[x] = None
        BY <1>2, <1>3, <2>2, <3>2
      <4>2. QED
        BY <4>1 DEF Fencing
    <3>3. QED
      BY <3>1, <3>2
  <2>3. QED
    BY <2>1, <2>2
<1>5. \A x \in Tabs : fence'[x] # None =>
        /\ fence[x] # None
        /\ fence'[x].ops = fence[x].ops /\ fence'[x].out \subseteq fence[x].out \cup {h}
        /\ ~ Fencing(x) => fence'[x].out # {}
        /\ h \in fence'[x].out => h \in fence[x].out \/ (x = t /\ FencedOut(h, x))
  <2>1. ASSUME NEW x \in Tabs, x # t, fence'[x] # None
        PROVE  /\ fence[x] # None
               /\ fence'[x].ops = fence[x].ops /\ fence'[x].out \subseteq fence[x].out
               /\ ~ Fencing(x) => fence'[x].out # {}
    <3> HIDE DEF swept
    <3>1. QED
      BY <1>1, <1>3, <2>1
  <2>2. ASSUME t \in Tabs, fence'[t] # None
        PROVE  /\ fence[t] # None
               /\ fence'[t].ops = fence[t].ops /\ fence'[t].out = fence[t].out \cup {h}
               /\ FencedOut(h, t)
    <3>1. fence'[t] = [fence[t] EXCEPT !.out = @ \cup {h}] /\ fence[t] \in Fences /\ FencedOut(h, t)
      BY <1>2, <1>3, <2>2
    <3> HIDE DEF swept
    <3>2. QED
      BY <3>1 DEF Fences
  <2>3. QED
    BY <2>1, <2>2
<1>6. QED
  BY <1>4, <1>5

\* A drag gives the operations on a tab its new id.
LEMMA RenameMoves ==
    ASSUME FenceInv, NEW t \in Tabs, NEW u \in Tabs, Rename(t, u)
    PROVE  /\ t # u /\ rekeys[u] = None /\ fence[u] = None /\ \A x \in Tabs : rekeys[x] # u
           /\ \A x \in Tabs : rekeys'[x] =
                IF x = t THEN IF fence[t] = None \/ fence[t].ops = 0 THEN None ELSE u
                ELSE IF rekeys[x] = t THEN u ELSE rekeys[x]
           /\ \A p \in TabOps : Live(p) =>
                /\ tab[p] \in Tabs /\ Current(tab[p]) # u
                /\ (Current(tab[p]))' = IF Current(tab[p]) = t THEN u ELSE Current(tab[p])
<1>0. \A x \in Tabs : Resolve(x) = Current(x) /\ Current(x) \in Tabs
  BY ResolveCurrent DEF FenceInv, FenceRecords
<1>1. /\ UNCHANGED <<status, tab>> /\ u \notin dragged
      /\ (\A h \in Helpers : tabOf[h] # u) /\ (\A p \in Ops : tab[p] # u)
      /\ \E h \in Helpers : tabOf[h] = t
  BY DEF Rename
<1>2. t # u /\ rekeys[u] = None /\ t \notin dragged /\ rekeys[t] = None
  BY <1>1 DEF FenceInv, TypeInv, FenceTypes, Roster, InTabs, FenceRecords, Aliases
<1>3. fence[u] = None
  BY <1>1 DEF FenceInv, FenceRecords, Balanced, Known
<1>4. \A x \in Tabs : rekeys[x] # u
  BY <1>1 DEF FenceInv, FenceRecords, Aliases
\* An id that stands for t is renamed only while operations are on t; without
\* any, no other id stands for t.
<1>5. \A x \in Tabs : rekeys'[x] =
        IF x = t THEN IF fence[t] = None \/ fence[t].ops = 0 THEN None ELSE u
        ELSE IF rekeys[x] = t THEN u ELSE rekeys[x]
  <2>1. \A x \in Tabs : rekeys[x] = t => fence[t] # None /\ fence[t].ops # 0
    <3>1. ASSUME NEW x \in Tabs, rekeys[x] = t PROVE Fencing(t)
      BY <3>1 DEF FenceInv, FenceRecords, Fenced
    <3>2. Fencing(t) => fence[t] # None /\ fence[t].ops > 0
      BY DEF FenceInv, FenceRecords, Balanced, Fencing
    <3>3. QED
      BY <3>1, <3>2
  <2>2. \A x \in Tabs : rekeys[x] # None => Resolve(x) = rekeys[x]
    BY <1>0 DEF Current
  <2>3. rekeys' = IF fence[t] = None \/ fence[t].ops = 0 THEN rekeys
                  ELSE [a \in Tabs |-> IF a = t \/ (rekeys[a] # None /\ Resolve(a) = t)
                                       THEN u ELSE rekeys[a]]
    BY DEF Rename
  <2>4. QED
    BY <1>2, <2>1, <2>2, <2>3
<1>6. \A p \in TabOps : Live(p) =>
        /\ tab[p] \in Tabs /\ Current(tab[p]) # u
        /\ (Current(tab[p]))' = IF Current(tab[p]) = t THEN u ELSE Current(tab[p])
  <2>1. ASSUME NEW p \in TabOps, Live(p)
        PROVE  tab[p] \in Tabs /\ tab[p] # u /\ Current(tab[p]) # u /\ Fencing(Current(tab[p]))
    BY <1>1, <1>4, <2>1 DEF FenceInv, FenceRecords, Fenced, Current
  <2>2. Fencing(t) => fence[t] # None /\ fence[t].ops # 0
    <3>1. fence[t] # None => (Fencing(t) <=> fence[t].ops > 0)
      BY DEF FenceInv, FenceRecords, Balanced
    <3>2. QED
      BY <3>1 DEF Fencing
  <2>3. QED
    BY <1>1, <1>2, <1>5, <2>1, <2>2 DEF Current
<1>7. QED
  BY <1>2, <1>3, <1>4, <1>5, <1>6

\* A step that leaves the tabs, the fences and the operations on tabs alone.
FencesKept ==
    /\ UNCHANGED <<tabOf, dragged, fence, rekeys>>
    /\ Connected' = Connected
    /\ \A h \in Helpers : conn[h] = "gone" => conn'[h] = "gone"
    /\ \A o \in Ops : tab[o] # None => tab'[o] = tab[o]
    /\ \A o \in TabOps : hit'[o] = hit[o] /\ (Live(o)' <=> Live(o))

\* It leaves what is known of the fences alone.
LEMMA FenceFrame ==
    ASSUME FenceInv, FencesKept
    PROVE  FenceRecords'
<1> USE DEF FencesKept
<1>1. \A o \in TabOps : Live(o) => tab'[o] = tab[o] /\ tab[o] \in Tabs
  BY DEF FenceInv, FenceRecords, Fenced
<1>2. Aliases'
  BY DEF FenceInv, FenceRecords, Aliases
<1>3. Balanced'
  <2>1. \A t \in Tabs : OpsOn(t)' = OpsOn(t)
    BY <1>1 DEF OpsOn, Current
  <2>2. \A t \in Tabs : Known(t) => Known(t)'
    BY DEF Known
  <2>3. \A t \in Tabs : Fencing(t)' <=> Fencing(t)
    BY DEF Fencing
  <2> HIDE DEF Ops
  <2>4. QED
    BY <2>1, <2>2, <2>3 DEF FenceInv, FenceRecords, Balanced
<1>4. Fenced'
  BY <1>1 DEF FenceInv, FenceRecords, Fenced, Fencing, Current
<1>5. HitTabs'
  BY <1>1 DEF FenceInv, FenceRecords, HitTabs, Current
<1>6. QED
  BY <1>2, <1>3, <1>4, <1>5 DEF FenceRecords

\* No operation is on the tab of a helper that connects.
LEMMA ConnectFences ==
    ASSUME FenceInv, NEW h \in Helpers, NEW t \in Tabs, Connect(h, t)
    PROVE  FenceRecords'
<1>0. \A x \in Tabs : Resolve(x) = Current(x) /\ Current(x) \in Tabs
  BY ResolveCurrent DEF FenceInv, FenceRecords
<1>1. UNCHANGED <<dragged, fence, rekeys, status, tab>> /\ \A p \in TabOps : hit'[p] = hit[p]
  BY DEF Connect
<1>2. \A g \in Helpers : tabOf[g] # None => tabOf'[g] = tabOf[g] /\ conn'[g] = conn[g]
  BY DEF FenceInv, TypeInv, HelperTypes, Roster, Absent, Connect
<1>3. Connected \subseteq Connected'
  BY DEF FenceInv, TypeInv, HelperTypes, Connected, Connect
<1>4. Aliases'
  BY <1>1, <1>2 DEF FenceInv, TypeInv, FenceTypes, FenceRecords, Aliases
<1>5. Balanced'
  <2>1. \A x \in Tabs : OpsOn(x)' = OpsOn(x) /\ (Fencing(x)' <=> Fencing(x))
    BY <1>1 DEF OpsOn, Live, Current, Fencing
  <2>2. \A x \in Tabs : Known(x) => Known(x)'
    BY <1>1, <1>2 DEF Known
  <2>3. QED
    BY <1>1, <1>3, <2>1, <2>2 DEF FenceInv, FenceRecords, Balanced
<1>6. Fenced'
  BY <1>1 DEF FenceInv, FenceRecords, Fenced, Fencing, Current, Live
<1>7. HitTabs'
  <2>1. \A p \in TabOps : Live(p) => Current(tab[p]) # t /\ Current(tab[p]) \in Tabs
    BY <1>0 DEF FenceInv, FenceRecords, Fenced, Live, Connect
  <2>2. tabOf'[h] = t
    BY DEF FenceInv, TypeInv, HelperTypes, Connect
  <2>3. \A g \in Helpers \ {h} : tabOf'[g] = tabOf[g] /\ conn'[g] = conn[g]
    BY DEF FenceInv, TypeInv, HelperTypes, Connect
  <2>4. QED
    BY <1>1, <2>1, <2>2, <2>3 DEF FenceInv, FenceRecords, HitTabs, Live, Current
<1>8. QED
  BY <1>4, <1>5, <1>6, <1>7 DEF FenceRecords

\* Publishing an owner sweeps completed fences only.
LEMMA NewSessionFences ==
    ASSUME FenceInv, NEW h \in Helpers, NewSession(h)
    PROVE  FenceRecords'
<1>0. \A x \in Tabs : Resolve(x) = Current(x) /\ Current(x) \in Tabs
  BY ResolveCurrent DEF FenceInv, FenceRecords
<1>1. UNCHANGED <<conn, tabOf, dragged, rekeys, status, tab, hit>> /\ h \in Connected
  BY DEF Connected, NewSession
<1>2. Aliases'
  BY <1>1 DEF FenceInv, FenceRecords, Aliases
<1>3. Balanced'
  <2>1. \A x \in Tabs : OpsOn(x)' = OpsOn(x) /\ (Known(x)' <=> Known(x))
    BY <1>1 DEF OpsOn, Live, Current, Known
  <2>2. Connected' = Connected
    BY <1>1 DEF Connected
  <2>3. QED
    BY <1>1, <2>1, <2>2, NewSessionFence DEF FenceInv, FenceRecords, Balanced
<1>4. Fenced'
  BY <1>0, <1>1, NewSessionFence DEF FenceInv, FenceRecords, Fenced, Current, Live
<1>5. HitTabs'
  BY <1>1 DEF FenceInv, FenceRecords, HitTabs, Current, Live
<1>6. QED
  BY <1>2, <1>3, <1>4, <1>5 DEF FenceRecords

\* A helper that is forgotten leaves the fences that waited for it.
LEMMA GoneFences ==
    ASSUME FenceInv, NEW h \in Helpers, Gone(h)
    PROVE  FenceRecords'
<1>0. \A x \in Tabs : Resolve(x) = Current(x) /\ Current(x) \in Tabs
  BY ResolveCurrent DEF FenceInv, FenceRecords
<1>1. UNCHANGED <<tabOf, dragged, rekeys, status, tab, hit>>
  BY DEF Gone
<1>2. /\ Connected' = Connected \ {h}
      /\ \A g \in Helpers : conn[g] = "gone" => conn'[g] = "gone"
  BY DEF FenceInv, TypeInv, HelperTypes, Connected, Gone
<1>3. \A x \in Tabs : Fencing(x)' <=> Fencing(x)
  BY DEF FenceInv, TypeInv, FenceTypes, Fences, FencesWithout, Fencing, Gone
<1>4. \A x \in Tabs : fence'[x] # None =>
        /\ fence[x] # None
        /\ fence'[x].ops = fence[x].ops /\ fence'[x].out = fence[x].out \ {h}
        /\ ~ Fencing(x) => fence'[x].out # {}
  BY DEF FenceInv, TypeInv, FenceTypes, Fences, FencesWithout, Fencing, Gone
<1>5. Aliases'
  BY <1>1 DEF FenceInv, FenceRecords, Aliases
<1>6. Balanced'
  <2>1. \A x \in Tabs : OpsOn(x)' = OpsOn(x) /\ (Known(x)' <=> Known(x))
    BY <1>1 DEF OpsOn, Live, Current, Known
  <2>2. QED
    BY <1>2, <1>3, <1>4, <2>1 DEF FenceInv, FenceRecords, Balanced
<1>7. Fenced'
  BY <1>1, <1>3, <1>0 DEF FenceInv, FenceRecords, Fenced, Current, Live
<1>8. HitTabs'
  BY <1>1, <1>2 DEF FenceInv, FenceRecords, HitTabs, Current, Live
<1>9. QED
  BY <1>5, <1>6, <1>7, <1>8 DEF FenceRecords

\* A drag moves the fence, its operations and their aliases to the new id.
LEMMA RenameFences ==
    ASSUME FenceInv, NEW t \in Tabs, NEW u \in Tabs, Rename(t, u)
    PROVE  FenceRecords'
<1>0. \A x \in Tabs : Resolve(x) = Current(x) /\ Current(x) \in Tabs
  BY ResolveCurrent DEF FenceInv, FenceRecords
<1>1. /\ UNCHANGED <<conn, status, tab, hit>> /\ dragged' = dragged \cup {t} /\ u \notin dragged
      /\ (\A h \in Helpers : tabOf[h] # u) /\ (\A p \in Ops : tab[p] # u)
      /\ \E h \in Helpers : tabOf[h] = t
      /\ tabOf' = [h \in Helpers |-> IF tabOf[h] = t THEN u ELSE tabOf[h]]
      /\ fence' = [fence EXCEPT ![u] = fence[t], ![t] = None]
  BY DEF Rename
<1>2. t # u /\ rekeys[u] = None /\ fence[u] = None /\ \A x \in Tabs : rekeys[x] # u
  BY RenameMoves
<1>3. \A x \in Tabs : rekeys'[x] =
        IF x = t THEN IF fence[t] = None \/ fence[t].ops = 0 THEN None ELSE u
        ELSE IF rekeys[x] = t THEN u ELSE rekeys[x]
  BY RenameMoves
<1>4. \A p \in TabOps : Live(p) =>
        /\ tab[p] \in Tabs /\ Current(tab[p]) # u
        /\ (Current(tab[p]))' = IF Current(tab[p]) = t THEN u ELSE Current(tab[p])
  BY RenameMoves
<1>5. \A x \in Tabs : /\ Fencing(x)' <=> (x = u /\ Fencing(t)) \/ (x \notin {t, u} /\ Fencing(x))
                      /\ fence'[x] # None => x # t /\ (x = u => fence'[x] = fence[t])
                                             /\ (x # u => fence'[x] = fence[x])
  BY <1>1, <1>2 DEF FenceInv, TypeInv, FenceTypes, Fencing
<1>6. Aliases'
  <2>1. ASSUME NEW a \in Tabs, rekeys'[a] # None
        PROVE  /\ a \in dragged' /\ rekeys'[rekeys'[a]] = None
               /\ \E h \in Helpers : tabOf'[h] = rekeys'[a]
    <3>1. CASE rekeys'[a] = u
      <4>1. a \in dragged'
        BY <1>1, <1>2, <1>3, <3>1 DEF FenceInv, FenceRecords, Aliases
      <4>2. rekeys'[u] = None
        BY <1>2, <1>3
      <4>3. QED
        BY <1>1, <3>1, <4>1, <4>2
    <3>2. CASE rekeys'[a] # u
      <4>1. rekeys'[a] = rekeys[a] /\ rekeys[a] # t /\ rekeys[a] # None
        BY <1>3, <2>1, <3>2
      <4>2. a \in dragged /\ rekeys[rekeys[a]] = None /\ rekeys[a] \in Tabs
        BY <4>1 DEF FenceInv, TypeInv, FenceTypes, FenceRecords, Aliases
      <4>3. PICK h \in Helpers : tabOf[h] = rekeys[a]
        BY <4>1 DEF FenceInv, FenceRecords, Aliases
      <4>4. rekeys'[rekeys[a]] = None
        BY <1>3, <4>1, <4>2
      <4>5. tabOf'[h] = rekeys[a]
        BY <1>1, <4>1, <4>3
      <4>6. QED
        BY <1>1, <4>1, <4>2, <4>4, <4>5
    <3>3. QED
      BY <3>1, <3>2
  <2>2. QED
    BY <2>1 DEF Aliases
<1>7. OpsOn(u)' = OpsOn(t) /\ \A x \in Tabs \ {t, u} : OpsOn(x)' = OpsOn(x)
  <2>1. \A p \in TabOps : Live(p)' <=> Live(p)
    BY <1>1 DEF Live
  <2>2. QED
    BY <1>2, <1>4, <2>1 DEF OpsOn
<1>8. Balanced'
  <2>1. Known(u)' /\ \A x \in Tabs \ {t, u} : Known(x) => Known(x)'
    BY <1>1 DEF Known
  <2>2. Connected' = Connected
    BY <1>1 DEF Connected
  <2>3. ASSUME NEW x \in Tabs, fence'[x] # None
        PROVE  /\ Known(x)'
               /\ fence'[x].ops = Cardinality(OpsOn(x)')
               /\ Fencing(x)' <=> fence'[x].ops > 0
               /\ fence'[x].out \subseteq Connected'
               /\ ~ Fencing(x)' => fence'[x].out # {}
    <3>1. CASE x = u
      <4>1. fence'[x] = fence[t] /\ (Fencing(x)' <=> Fencing(t)) /\ fence[t] # None
        BY <1>5, <2>3, <3>1
      <4>2. OpsOn(x)' = OpsOn(t) /\ Known(x)'
        BY <1>7, <2>1, <3>1
      <4>3. QED
        BY <2>2, <4>1, <4>2 DEF FenceInv, FenceRecords, Balanced
    <3>2. CASE x # u
      <4>1. x # t /\ fence'[x] = fence[x] /\ (Fencing(x)' <=> Fencing(x))
        BY <1>5, <2>3, <3>2
      <4>2. OpsOn(x)' = OpsOn(x) /\ (Known(x) => Known(x)')
        BY <1>7, <2>1, <3>2, <4>1
      <4>3. QED
        BY <2>2, <2>3, <4>1, <4>2 DEF FenceInv, FenceRecords, Balanced
    <3>3. QED
      BY <3>1, <3>2
  <2>4. QED
    BY <2>3 DEF Balanced
<1>9. Fenced'
  <2>1. ASSUME NEW p \in TabOps, Live(p) PROVE tab'[p] \in Tabs /\ Fencing(Current(tab[p]))'
    <3>1. Fencing(Current(tab[p])) /\ Current(tab[p]) \in Tabs
      BY <1>0, <2>1 DEF FenceInv, FenceRecords, Fenced
    <3>2. QED
      BY <1>1, <1>2, <1>5, <1>4, <2>1, <3>1
  <2>2. ASSUME NEW a \in Tabs, rekeys'[a] # None PROVE Fencing(rekeys[a])'
    <3>1. rekeys'[a] \in Tabs
      BY <1>3, <2>2 DEF FenceInv, TypeInv, FenceTypes
    <3>2. Fencing(t) <=> fence[t] # None /\ fence[t].ops # 0
      BY DEF FenceInv, TypeInv, FenceTypes, Fences, FenceRecords, Balanced, Fencing
    <3>3. rekeys[a] # None => Fencing(rekeys[a])
      BY DEF FenceInv, FenceRecords, Fenced
    <3>4. rekeys'[a] = u => Fencing(t)
      BY <1>2, <1>3, <2>2, <3>2, <3>3
    <3>5. rekeys'[a] # u => Fencing(rekeys'[a]) /\ rekeys'[a] # t
      BY <1>2, <1>3, <2>2, <3>3
    <3>6. QED
      BY <1>2, <1>5, <3>1, <3>4, <3>5
  <2>3. \A p \in TabOps : Live(p)' <=> Live(p)
    BY <1>1 DEF Live
  <2>4. QED
    BY <2>1, <2>2, <2>3 DEF Fenced
<1>10. HitTabs'
  <2>1. ASSUME NEW p \in TabOps, Live(p), NEW h \in Helpers, tabOf'[h] = (Current(tab[p]))'
        PROVE  tabOf[h] = Current(tab[p])
    BY <1>1, <1>2, <1>4, <2>1
  <2>2. \A p \in TabOps : Live(p)' <=> Live(p)
    BY <1>1 DEF Live
  <2>3. QED
    BY <1>1, <2>1, <2>2 DEF FenceInv, FenceRecords, HitTabs
<1>11. QED
  BY <1>6, <1>8, <1>9, <1>10 DEF FenceRecords

\* A retirement counts itself in the fence of its tab.
LEMMA RetireTabFences ==
    ASSUME FenceInv, NEW o \in Ops, NEW t \in Tabs, RetireTab(o, t)
    PROVE  FenceRecords'
<1>0. \A x \in Tabs : Resolve(x) = Current(x) /\ Current(x) \in Tabs
  BY ResolveCurrent DEF FenceInv, FenceRecords
<1>1. UNCHANGED <<conn, tabOf, dragged, rekeys>> /\ o \in TabOps /\ t \notin dragged
  BY DEF RetireTab
<1>2. /\ status[o] = "none" /\ status' = [status EXCEPT ![o] = "fenced"]
      /\ tab[o] = None /\ tab' = [tab EXCEPT ![o] = t]
      /\ hit' = [hit EXCEPT ![o] = {h \in Connected : tabOf[h] = t}]
  BY DEF FenceInv, Roster, Begun, RetireTab, MayBegin
<1>3. Current(t) = t
  BY <1>1 DEF FenceInv, FenceRecords, Aliases, Current
<1>4. /\ Live(o)' /\ ~ Live(o) /\ tab'[o] = t
      /\ \A p \in Ops \ {o} : (Live(p)' <=> Live(p)) /\ tab'[p] = tab[p] /\ hit'[p] = hit[p]
  BY <1>2 DEF FenceInv, TypeInv, RequestTypes, Live
<1>5. OpsOn(t)' = OpsOn(t) \cup {o} /\ o \notin OpsOn(t)
  BY <1>1, <1>3, <1>4 DEF OpsOn, Current
<1>6. \A x \in Tabs \ {t} : OpsOn(x)' = OpsOn(x)
  BY <1>1, <1>3, <1>4 DEF OpsOn, Current
<1>7. PICK n \in Nat, out \in SUBSET Helpers :
        /\ fence' = [fence EXCEPT ![t] = [phase |-> "Fencing", ops |-> n + 1, out |-> out]]
        /\ n = (IF fence[t] = None THEN 0 ELSE fence[t].ops)
        /\ out \subseteq Connected
  <2> DEFINE old == IF fence[t] = None THEN [phase |-> "Fencing", ops |-> 0, out |-> {}]
                    ELSE fence[t]
  <2>1. old.ops \in Nat /\ old.ops = (IF fence[t] = None THEN 0 ELSE fence[t].ops)
    BY DEF FenceInv, TypeInv, FenceTypes, Fences
  <2>2. old.out \subseteq Connected
    BY DEF FenceInv, FenceRecords, Balanced
  <2>3. OwnersOf(t) \subseteq Connected /\ Connected \subseteq Helpers
    BY OwnersConnected DEF Connected
  <2>4. \E out \in SUBSET Connected :
          fence' = [fence EXCEPT ![t] = [phase |-> "Fencing", ops |-> old.ops + 1, out |-> out]]
    <3>1. CASE OwnersOf(t) = {}
      <4>1. fence' = [fence EXCEPT ![t] = [phase |-> "Fencing", ops |-> old.ops + 1,
                        out |-> old.out \cup {h \in Connected : Published(h) = t}]]
        BY <3>1 DEF RetireTab
      <4>2. QED
        BY <2>2, <4>1
    <3>2. CASE OwnersOf(t) # {}
      <4>1. \E h \in OwnersOf(t) :
              fence' = [fence EXCEPT ![t] = [phase |-> "Fencing", ops |-> old.ops + 1, out |-> {h}]]
        BY <3>2 DEF RetireTab
      <4>2. QED
        BY <2>3, <4>1
    <3>3. QED
      BY <3>1, <3>2
  <2> HIDE DEF old
  <2>5. QED
    BY <2>1, <2>3, <2>4
<1>8. /\ Fencing(t)' /\ fence'[t] # None
      /\ fence'[t].ops = n + 1 /\ fence'[t].out = out
      /\ \A x \in Tabs \ {t} : fence'[x] = fence[x] /\ (Fencing(x)' <=> Fencing(x))
  <2>1. [phase |-> "Fencing", ops |-> n + 1, out |-> out] \in Fences
    BY <1>7 DEF Fences
  <2>2. QED
    BY <1>7, <2>1 DEF FenceInv, TypeInv, FenceTypes, Fencing
<1>9. Aliases'
  BY <1>1 DEF FenceInv, FenceRecords, Aliases
<1>10. Balanced'
  <2>1. ASSUME NEW x \in Tabs \ {t}, fence'[x] # None
        PROVE  /\ Known(x)'
               /\ fence'[x].ops = Cardinality(OpsOn(x)')
               /\ Fencing(x)' <=> fence'[x].ops > 0
               /\ fence'[x].out \subseteq Connected'
               /\ ~ Fencing(x)' => fence'[x].out # {}
    <3>1. Known(x) => Known(x)'
      BY <1>1, <1>2, <1>4 DEF Known
    <3>2. Connected' = Connected
      BY <1>1 DEF Connected
    <3>3. QED
      BY <1>6, <1>8, <2>1, <3>1, <3>2 DEF FenceInv, FenceRecords, Balanced
  <2>2. /\ Known(t)'
        /\ fence'[t].ops = Cardinality(OpsOn(t)')
        /\ fence'[t].ops > 0
        /\ fence'[t].out \subseteq Connected'
    <3>1. n = Cardinality(OpsOn(t))
      <4>1. CASE fence[t] # None
        BY <1>7, <4>1 DEF FenceInv, FenceRecords, Balanced
      <4>2. CASE fence[t] = None
        <5>1. OpsOn(t) = {}
          BY <4>2 DEF FenceInv, FenceRecords, Fenced, Fencing, OpsOn
        <5>2. QED
          BY <1>7, <4>2, <5>1, FS_EmptySet
      <4>3. QED
        BY <4>1, <4>2
    <3>2. Cardinality(OpsOn(t) \cup {o}) = Cardinality(OpsOn(t)) + 1
      <4>1. OpsOn(t) \subseteq Ops
        BY DEF OpsOn
      <4>2. QED
        BY <1>5, <4>1, Counting
    <3>3. Known(t)'
      BY <1>4 DEF Known
    <3>4. Connected' = Connected
      BY <1>1 DEF Connected
    <3>5. QED
      BY <1>5, <1>7, <1>8, <3>1, <3>2, <3>3, <3>4
  <2>3. QED
    BY <2>1, <2>2, <1>8 DEF Balanced
<1>11. Fenced'
  <2>1. \A x \in Tabs : Fencing(x) => Fencing(x)'
    BY <1>8
  <2>2. \A x \in Tabs : Current(x)' = Current(x)
    BY <1>1 DEF Current
  <2>3. \A p \in TabOps : Live(p)' => tab'[p] \in Tabs /\ Fencing(Current(tab[p]))'
    <3>1. ASSUME NEW p \in TabOps, Live(p)', p # o
          PROVE  tab'[p] \in Tabs /\ Fencing(Current(tab[p]))'
      <4>1. tab[p] \in Tabs /\ Fencing(Current(tab[p])) /\ tab'[p] = tab[p]
        BY <1>4, <3>1 DEF FenceInv, FenceRecords, Fenced
      <4>2. Current(tab[p]) \in Tabs
        BY <1>0, <4>1
      <4>3. QED
        BY <2>1, <2>2, <4>1, <4>2, <1>1 DEF Current
    <3>2. Fencing(Current(tab[o]))'
      BY <1>1, <1>3, <1>4, <1>8 DEF Current
    <3>3. QED
      BY <3>1, <3>2, <1>4
  <2>4. QED
    BY <1>0, <1>1, <2>1, <2>3 DEF FenceInv, TypeInv, FenceTypes, FenceRecords, Fenced
<1>12. HitTabs'
  <2>1. \A h \in Helpers : tabOf[h] = t => conn[h] = "gone" \/ h \in hit'[o]
    BY <1>2 DEF FenceInv, TypeInv, HelperTypes, RequestTypes, Roster, Absent, Connected
  <2>2. QED
    BY <1>1, <1>3, <1>4, <2>1 DEF FenceInv, FenceRecords, HitTabs, Current
<1>13. QED
  BY <1>9, <1>10, <1>11, <1>12 DEF FenceRecords

\* An operation leaves the fence that its tab id resolves to, which goes on while

\* others count on it or refused helpers are connected.
LEMMA CompleteTabFences ==
    ASSUME FenceInv, NEW o \in Ops, CompleteTab(o)
    PROVE  FenceRecords'
<1> DEFINE c == Current(tab[o])
           n == fence[c].ops - 1
<1>0. \A x \in Tabs : Resolve(x) = Current(x) /\ Current(x) \in Tabs
  BY ResolveCurrent DEF FenceInv, FenceRecords
<1>1. /\ UNCHANGED <<conn, tabOf, dragged, tab, hit>>
      /\ o \in TabOps /\ status[o] = "running" /\ status' = [status EXCEPT ![o] = "completed"]
  BY DEF CompleteTab
<1>2. tab[o] \in Tabs /\ c \in Tabs /\ Resolve(tab[o]) = c /\ Fencing(c)
  BY <1>0, <1>1 DEF FenceInv, FenceRecords, Fenced, Live
<1>3. /\ fence[c] # None /\ fence[c] \in Fences /\ fence[c].ops = Cardinality(OpsOn(c))
      /\ fence[c].ops > 0 /\ fence[c].out \subseteq Connected
  BY <1>2 DEF FenceInv, TypeInv, FenceTypes, FenceRecords, Balanced, Fencing
<1>4. n \in Nat
  BY <1>3 DEF Fences
<1>5. /\ \A p \in TabOps \ {o} : Live(p)' <=> Live(p)
      /\ Live(o) /\ ~ Live(o)'
  BY <1>1 DEF FenceInv, TypeInv, RequestTypes, Live
<1>6. \A x \in Tabs : rekeys'[x] = IF n = 0 /\ rekeys[x] = c THEN None ELSE rekeys[x]
  <2>1. \A x \in Tabs : rekeys[x] # None => Resolve(x) = rekeys[x]
    BY <1>0 DEF Current
  <2>2. rekeys' = IF n # 0 THEN rekeys
                  ELSE [a \in Tabs |-> IF rekeys[a] # None /\ Resolve(a) = c
                                       THEN None ELSE rekeys[a]]
    <3>1. fence[c].ops # 0
      BY <1>3
    <3>2. QED
      BY <1>2, <1>3, <3>1 DEF CompleteTab
  <2>3. QED
    BY <1>2, <2>1, <2>2
<1>7. n = 0 => OpsOn(c) = {o}
  <2>1. o \in OpsOn(c) /\ OpsOn(c) \subseteq Ops
    BY <1>1, <1>5 DEF OpsOn
  <2>2. n = 0 => OpsOn(c) \ {o} = {}
    <3>1. Cardinality(OpsOn(c) \ {o}) = Cardinality(OpsOn(c)) - 1
      BY <2>1, Counting
    <3>2. OpsOn(c) \ {o} \subseteq Ops
      BY <2>1
    <3>3. QED
      BY <1>3, <3>1, <3>2, Counting
  <2>3. QED
    BY <2>1, <2>2
<1>8. \A p \in TabOps : Live(p)' => Live(p) /\ p # o /\ (Current(tab[p]))' = Current(tab[p])
  <2>1. ASSUME NEW p \in TabOps, Live(p)' PROVE Live(p) /\ p # o /\ tab[p] \in Tabs
    BY <1>5, <2>1 DEF FenceInv, FenceRecords, Fenced
  <2>2. ASSUME NEW p \in TabOps, Live(p)' PROVE n = 0 => Current(tab[p]) # c
    BY <1>7, <2>1, <2>2 DEF OpsOn
  <2>3. QED
    BY <1>1, <1>6, <2>1, <2>2 DEF Current
<1>9. OpsOn(c) \ {o} = {p \in TabOps : Live(p)' /\ (Current(tab[p]))' = c}
  BY <1>5, <1>8 DEF OpsOn
<1>10. \A x \in Tabs : x # c => OpsOn(x)' = OpsOn(x)
  BY <1>5, <1>8 DEF OpsOn
<1>11. /\ \A x \in Tabs \ {c} : fence'[x] = fence[x]
       /\ fence'[c] # None => /\ fence'[c].ops = n /\ fence'[c].out = fence[c].out
                              /\ n = 0 => fence[c].out # {}
                              /\ fence'[c].phase = "Fencing" <=> n # 0
       /\ fence'[c] = None => n = 0
  <2> DEFINE f == [fence[c] EXCEPT !.ops = n,
                     !.phase = IF n = 0 THEN "CompletedAwaitingDisconnect" ELSE @]
  <2>1. fence' = [fence EXCEPT ![c] = IF n = 0 /\ f.out = {} THEN None ELSE f]
    <3>1. fence[c].ops # 0
      BY <1>3
    <3>2. QED
      BY <1>2, <1>3, <3>1 DEF CompleteTab
  <2>2. /\ f \in Fences /\ f.ops = n /\ f.out = fence[c].out
        /\ f.phase = "Fencing" <=> n # 0
    <3>1. fence[c].phase = "Fencing"
      BY <1>2 DEF Fencing
    <3>2. QED
      BY <1>3, <1>4, <3>1 DEF Fences
  <2> HIDE DEF f, c, n
  <2>3. QED
    BY <1>2, <2>1, <2>2 DEF FenceInv, TypeInv, FenceTypes
<1>12. Aliases'
  <2>1. ASSUME NEW a \in Tabs, rekeys'[a] # None
        PROVE  /\ a \in dragged' /\ rekeys'[rekeys'[a]] = None
               /\ \E h \in Helpers : tabOf'[h] = rekeys'[a]
    <3>1. rekeys'[a] = rekeys[a] /\ rekeys[a] \in Tabs
      BY <1>6, <2>1 DEF FenceInv, TypeInv, FenceTypes
    <3> HIDE DEF n, c
    <3>2. QED
      BY <1>1, <1>6, <2>1, <3>1 DEF FenceInv, FenceRecords, Aliases
  <2>2. QED
    BY <2>1 DEF Aliases
<1>13. Balanced'
  <2>1. \A x \in Tabs : Known(x)' <=> Known(x)
    BY <1>1 DEF Known
  <2>2. Connected' = Connected
    BY <1>1 DEF Connected
  <2>3. ASSUME NEW x \in Tabs, x # c, fence'[x] # None
        PROVE  /\ Known(x)'
               /\ fence'[x].ops = Cardinality(OpsOn(x)')
               /\ Fencing(x)' <=> fence'[x].ops > 0
               /\ fence'[x].out \subseteq Connected'
               /\ ~ Fencing(x)' => fence'[x].out # {}
    <3>1. fence'[x] = fence[x] /\ OpsOn(x)' = OpsOn(x)
      BY <1>10, <1>11, <2>3
    <3>2. QED
      BY <2>1, <2>2, <2>3, <3>1 DEF FenceInv, FenceRecords, Balanced, Fencing
  <2>4. ASSUME NEW x \in Tabs, x = c, fence'[x] # None
        PROVE  /\ Known(x)'
               /\ fence'[x].ops = Cardinality(OpsOn(x)')
               /\ Fencing(x)' <=> fence'[x].ops > 0
               /\ fence'[x].out \subseteq Connected'
               /\ ~ Fencing(x)' => fence'[x].out # {}
    <3>1. OpsOn(x)' = OpsOn(x) \ {o}
      BY <1>9, <2>4 DEF OpsOn
    <3>2. Cardinality(OpsOn(x) \ {o}) = n
      <4>1. o \in OpsOn(x) /\ OpsOn(x) \subseteq Ops
        BY <1>1, <1>5, <2>4 DEF OpsOn
      <4>2. QED
        BY <1>3, <2>4, <4>1, Counting
    <3>3. fence'[x].ops = n /\ fence'[x].out = fence[x].out /\ (Fencing(x)' <=> n > 0)
      <4> HIDE DEF c, n
      <4>1. fence'[x].ops = n /\ fence'[x].out = fence[x].out
        BY <1>11, <2>4
      <4>2. fence'[x].phase = "Fencing" <=> n # 0
        BY <1>11, <2>4
      <4>3. QED
        BY <1>4, <2>4, <4>1, <4>2 DEF Fencing
    <3>4. Known(x)
      BY <1>2, <1>3, <2>4 DEF FenceInv, FenceRecords, Balanced
    <3>5. ~ Fencing(x)' => fence[x].out # {}
      <4> HIDE DEF c, n
      <4>1. QED
        BY <1>4, <1>11, <2>4, <3>3
    <3>6. QED
      BY <1>3, <2>1, <2>2, <2>4, <3>1, <3>2, <3>3, <3>4, <3>5
  <2>5. QED
    BY <2>3, <2>4 DEF Balanced
<1>14. \A x \in Tabs : Fencing(x) /\ (x = c => n # 0) => Fencing(x)'
  BY <1>11 DEF Fencing
<1>15. Fenced'
  <2>1. ASSUME NEW p \in TabOps, Live(p)' PROVE tab'[p] \in Tabs /\ Fencing(Current(tab[p]))'
    <3>1. tab[p] \in Tabs /\ Fencing(Current(tab[p])) /\ Current(tab[p]) \in Tabs
      BY <1>0, <1>8, <2>1 DEF FenceInv, FenceRecords, Fenced
    <3>2. Current(tab[p]) = c => n # 0
      BY <1>7, <1>8, <2>1 DEF OpsOn
    <3> HIDE DEF c, n
    <3>3. QED
      BY <1>1, <1>8, <1>14, <2>1, <3>1, <3>2
  <2>2. ASSUME NEW a \in Tabs, rekeys'[a] # None PROVE Fencing(rekeys[a])'
    <3>1. rekeys'[a] = rekeys[a] /\ rekeys[a] \in Tabs /\ (rekeys[a] = c => n # 0)
      BY <1>6, <2>2 DEF FenceInv, TypeInv, FenceTypes
    <3>2. Fencing(rekeys[a])
      BY <2>2, <3>1 DEF FenceInv, FenceRecords, Fenced
    <3> HIDE DEF c, n
    <3>3. QED
      BY <1>14, <3>1, <3>2
  <2>3. QED
    BY <2>1, <2>2 DEF Fenced
<1>16. HitTabs'
  BY <1>1, <1>8 DEF FenceInv, FenceRecords, HitTabs
<1>17. QED
  BY <1>12, <1>13, <1>15, <1>16 DEF FenceRecords

\* Every step keeps what is known of the fences of tabs.
LEMMA NextFences ==
    ASSUME FenceInv, [Next]_vars
    PROVE  FenceRecords'
<1>1. ASSUME NEW h \in Helpers, NEW t \in Tabs, Connect(h, t) PROVE FenceRecords'
  BY <1>1, ConnectFences
<1>2. ASSUME NEW h \in Helpers, NewSession(h) PROVE FenceRecords'
  BY <1>2, NewSessionFences
<1>3. ASSUME NEW h \in Helpers, PriorGate(h) PROVE FencesKept
  BY <1>3 DEF FencesKept, Connected, Live, PriorGate
<1>4. ASSUME NEW h \in Helpers, PriorClosed(h) PROVE FencesKept
  BY <1>4 DEF FencesKept, Connected, Live, PriorClosed
<1>5. ASSUME NEW h \in Helpers, NewFails(h) PROVE FencesKept
  BY <1>5 DEF FencesKept, Connected, Live, NewFails
<1>6. ASSUME NEW h \in Helpers, NewReply(h) PROVE FencesKept
  BY <1>6 DEF FencesKept, Connected, Live, NewReply
<1>7. ASSUME NEW h \in Helpers, LateGate(h) PROVE FencesKept
  BY <1>7 DEF FencesKept, Connected, Live, LateGate
<1>8. ASSUME NEW h \in Helpers, LateClosed(h) PROVE FencesKept
  BY <1>8 DEF FencesKept, Connected, Live, LateClosed
<1>9. ASSUME NEW h \in Helpers, Disconnect(h) PROVE FencesKept
  BY <1>9 DEF FenceInv, TypeInv, HelperTypes, FencesKept, Connected, Live, Disconnect
<1>10. ASSUME NEW h \in Helpers, CleanupGate(h) PROVE FencesKept
  BY <1>10 DEF FencesKept, Connected, Live, CleanupGate
<1>11. ASSUME NEW h \in Helpers, CleanupClosed(h) PROVE FencesKept
  BY <1>11 DEF FencesKept, Connected, Live, CleanupClosed
<1>12. ASSUME NEW h \in Helpers, Gone(h) PROVE FenceRecords'
  BY <1>12, GoneFences
<1>13. ASSUME NEW t \in Tabs, NEW u \in Tabs, Rename(t, u) PROVE FenceRecords'
  BY <1>13, RenameFences
<1>14. ASSUME NEW h \in Helpers, LearnRename(h) PROVE FencesKept
  BY <1>14 DEF FencesKept, Connected, Live, LearnRename
<1>15. ASSUME NEW o \in Ops, NEW t \in Tabs, RetireTab(o, t) PROVE FenceRecords'
  BY <1>15, RetireTabFences
<1>16. ASSUME NEW o \in Ops, RetireSession(o) PROVE FencesKept
  BY <1>16
  DEF FenceInv, TypeInv, RequestTypes, Roster, Begun, FencesKept, Connected, Live, RetireSession,
      FindSession, Ended
<1>17. ASSUME NEW o \in Ops, NEW t \in Tabs, CloseTabSession(o, t) PROVE FencesKept
  BY <1>17
  DEF FenceInv, TypeInv, RequestTypes, Roster, Begun, FencesKept, Connected, Live, CloseTabSession,
      FindSession, Ended, MayBegin
<1>18. ASSUME NEW o \in Ops, NEW t \in Tabs, ResetTabSession(o, t) PROVE FencesKept
  BY <1>18
  DEF FenceInv, TypeInv, RequestTypes, Roster, Begun, FencesKept, Connected, Live, ResetTabSession,
      FindSession, Ended, MayBegin
<1>19. ASSUME NEW o \in Ops, NEW s \in Sessions, Restore(o, s) PROVE FencesKept
  BY <1>19 DEF FencesKept, Connected, Live, Restore
<1>20. ASSUME NEW o \in Ops, NEW s \in Sessions, CloseGate(o, s) PROVE FencesKept
  BY <1>20
  DEF FenceInv, TypeInv, RequestTypes, JobTypes, Roster, Jobs, FencesKept, Connected, Live,
      CloseGate, EndJob, Ended
<1>21. ASSUME NEW o \in Ops, NEW s \in Sessions, CloseTimesOut(o, s) PROVE FencesKept
  BY <1>21
  DEF FenceInv, TypeInv, RequestTypes, JobTypes, Roster, Jobs, FencesKept, Connected, Live,
      CloseTimesOut, EndJob, Ended
<1>22. ASSUME NEW o \in Ops, NEW s \in Sessions, CloseReturns(o, s) PROVE FencesKept
  BY <1>22
  DEF FenceInv, TypeInv, RequestTypes, JobTypes, Roster, Jobs, FencesKept, Connected, Live,
      CloseReturns, EndJob, Ended
<1>23. ASSUME NEW o \in Ops, NEW h \in Helpers, ForceCleanup(o, h) PROVE FencesKept
  BY <1>23 DEF FencesKept, Connected, Live, ForceCleanup
<1>24. ASSUME NEW o \in Ops, CompleteTab(o) PROVE FenceRecords'
  BY <1>24, CompleteTabFences
<1>25. ASSUME NEW o \in Ops, RetireAll(o) PROVE FencesKept
  BY <1>25
  DEF FenceInv, TypeInv, RequestTypes, FencesKept, Connected, Live, RetireAll, MayBegin, Capture
<1>26. ASSUME NEW o \in Ops, NextBatch(o) PROVE FencesKept
  BY <1>26 DEF FencesKept, Connected, Live, NextBatch, Capture
<1>27. ASSUME NEW o \in Ops, FinishAll(o) PROVE FencesKept
  BY <1>27 DEF FenceInv, TypeInv, RequestTypes, FencesKept, Connected, Live, FinishAll
<1>28. ASSUME UNCHANGED vars PROVE FencesKept
  BY <1>28 DEF FencesKept, Connected, Live, vars
<1>29. QED
  BY <1>1, <1>2, <1>3, <1>4, <1>5, <1>6, <1>7, <1>8, <1>9, <1>10, <1>11, <1>12, <1>13, <1>14,
     <1>15, <1>16, <1>17, <1>18, <1>19, <1>20, <1>21, <1>22, <1>23, <1>24, <1>25, <1>26, <1>27,
     <1>28, FenceFrame
  DEF Next, HelperStep, OpStep

-----------------------------------------------------------------------------
(* The fence over all tabs. *)

\* A helper that connects during a retirement of all tabs is held by it.
LEMMA ConnectAll ==
    ASSUME AllInv, NEW h \in Helpers, NEW t \in Tabs, Connect(h, t)
    PROVE  AllFence'

<1>1. Counted'
  <2>1. /\ RunningAll' = RunningAll /\ allOps' = allOps /\ (allOps = 0 => allOut' = allOut)
        /\ status' = status
    BY DEF RunningAll, Connect
  <2>2. QED
    BY <2>1 DEF AllInv, AllFence, Counted
<1>2. ActiveHeld'
  <2>1. /\ UNCHANGED <<status, todo, done>> /\ allOut \subseteq allOut'
        /\ \A o \in Destructive : Live(o)' <=> Live(o)
    BY DEF Connect, Live
  <2>2. ASSUME NEW g \in active' \ active
        PROVE  \E o \in Destructive : Live(o)' /\ o \in AllOps /\ g \in allOut' \ done'[o]
    <3>1. allOps # 0 /\ g = h /\ g \in allOut' /\ conn[g] = "absent"
      BY <2>2 DEF Connect
    <3>2. PICK o \in AllOps : status[o] = "running"
      <4>1. RunningAll # {}
        BY <3>1, FS_EmptySet DEF AllInv, AllFence, Counted
      <4>2. QED
        BY <4>1 DEF RunningAll
    <3>3. g \notin done[o]
      BY <3>1 DEF AllInv, FenceInv, Roster, Absent
    <3>4. QED
      BY <2>1, <3>1, <3>2, <3>3 DEF Live
  <2>3. QED
    BY <2>1, <2>2 DEF AllInv, AllFence, ActiveHeld
<1>3. QED
  BY <1>1, <1>2 DEF AllFence

\* The helpers a retirement marks are ones it has to clean up.
LEMMA RetireTabAll ==
    ASSUME AllInv, NEW o \in Ops, NEW t \in Tabs, RetireTab(o, t)
    PROVE  AllFence'

<1>1. ActiveHeld'
  BY DEF AllInv, FenceInv, TypeInv, RequestTypes, AllFence, ActiveHeld, Live, RetireTab, MayBegin
<1>2. Counted'
  <2>1. allOps' = allOps /\ allOut' = allOut
    BY DEF RetireTab
  <2>2. \A p \in AllOps : status'[p] = status[p]
    BY DEF AllInv, FenceInv, TypeInv, RequestTypes, AllFence, Counted, RetireTab
  <2>3. RunningAll' = RunningAll
    BY <2>2 DEF RunningAll
  <2>4. QED
    BY <2>1, <2>2, <2>3 DEF AllInv, AllFence, Counted
<1>3. QED
  BY <1>1, <1>2 DEF AllFence

\* A helper without a session stays held until forced cleanup.
LEMMA RetireSessionAll ==
    ASSUME AllInv, NEW o \in Ops, RetireSession(o)
    PROVE  AllFence'

<1>1. ActiveHeld'
  BY DEF AllInv, FenceInv, TypeInv, RequestTypes, AllFence, ActiveHeld, Live, RetireSession,
         FindSession, Ended
<1>2. Counted'
  <2>1. allOps' = allOps /\ allOut' = allOut
    BY DEF RetireSession, FindSession
  <2>2. \A p \in AllOps : status'[p] = status[p]
    BY DEF AllInv, FenceInv, TypeInv, RequestTypes, FindSession, Ended, AllFence, Counted,
         RetireSession
  <2>3. RunningAll' = RunningAll
    BY <2>2 DEF RunningAll
  <2>4. QED
    BY <2>1, <2>2, <2>3 DEF AllInv, AllFence, Counted
<1>3. QED
  BY <1>1, <1>2 DEF AllFence

\* A close-by-tab request releases no helper.
LEMMA CloseTabSessionAll ==
    ASSUME AllInv, NEW o \in Ops, NEW t \in Tabs, CloseTabSession(o, t)
    PROVE  AllFence'

<1>1. ActiveHeld'
  BY DEF AllInv, FenceInv, TypeInv, RequestTypes, AllFence, ActiveHeld, Live, CloseTabSession,
         FindSession, Ended, MayBegin
<1>2. Counted'
  <2>1. allOps' = allOps /\ allOut' = allOut
    BY DEF CloseTabSession, FindSession
  <2>2. \A p \in AllOps : status'[p] = status[p]
    BY DEF AllInv, FenceInv, TypeInv, RequestTypes, FindSession, Ended, AllFence, Counted,
         CloseTabSession
  <2>3. RunningAll' = RunningAll
    BY <2>2 DEF RunningAll
  <2>4. QED
    BY <2>1, <2>2, <2>3 DEF AllInv, AllFence, Counted
<1>3. QED
  BY <1>1, <1>2 DEF AllFence

\* A reset releases no helper.
LEMMA ResetTabSessionAll ==
    ASSUME AllInv, NEW o \in Ops, NEW t \in Tabs, ResetTabSession(o, t)
    PROVE  AllFence'

<1>1. ActiveHeld'
  BY DEF AllInv, FenceInv, TypeInv, RequestTypes, AllFence, ActiveHeld, Live, ResetTabSession,
         FindSession, Ended, MayBegin
<1>2. Counted'
  <2>1. allOps' = allOps /\ allOut' = allOut
    BY DEF ResetTabSession, FindSession
  <2>2. \A p \in AllOps : status'[p] = status[p]
    BY DEF AllInv, FenceInv, TypeInv, RequestTypes, FindSession, Ended, AllFence, Counted,
         ResetTabSession
  <2>3. RunningAll' = RunningAll
    BY <2>2 DEF RunningAll
  <2>4. QED
    BY <2>1, <2>2, <2>3 DEF AllInv, AllFence, Counted
<1>3. QED
  BY <1>1, <1>2 DEF AllFence

\* Waiting for a gate releases no helper.
LEMMA CloseGateAll ==
    ASSUME AllInv, NEW o \in Ops, NEW s \in Sessions, CloseGate(o, s)
    PROVE  AllFence'

<1>1. ActiveHeld'
  BY DEF AllInv, FenceInv, TypeInv, RequestTypes, AllFence, ActiveHeld, Live, CloseGate, EndJob,
         Ended
<1>2. Counted'
  <2>1. allOps' = allOps /\ allOut' = allOut
    BY DEF CloseGate
  <2>2. \A p \in AllOps : status'[p] = status[p]
    BY DEF AllInv, FenceInv, TypeInv, RequestTypes, Roster, Jobs, EndJob, Ended, AllFence,
         Counted, CloseGate
  <2>3. RunningAll' = RunningAll
    BY <2>2 DEF RunningAll
  <2>4. QED
    BY <2>1, <2>2, <2>3 DEF AllInv, AllFence, Counted
<1>3. QED
  BY <1>1, <1>2 DEF AllFence

\* A timeout at a gate releases no helper.
LEMMA CloseTimesOutAll ==
    ASSUME AllInv, NEW o \in Ops, NEW s \in Sessions, CloseTimesOut(o, s)
    PROVE  AllFence'

<1>1. ActiveHeld'
  BY DEF AllInv, AllFence, ActiveHeld, Live, CloseTimesOut, EndJob, Ended
<1>2. Counted'
  <2>1. allOps' = allOps /\ allOut' = allOut
    BY DEF CloseTimesOut
  <2>2. \A p \in AllOps : status'[p] = status[p]
    BY DEF AllInv, FenceInv, TypeInv, RequestTypes, Roster, Jobs, EndJob, Ended, AllFence,
         Counted, CloseTimesOut
  <2>3. RunningAll' = RunningAll
    BY <2>2 DEF RunningAll
  <2>4. QED
    BY <2>1, <2>2, <2>3 DEF AllInv, AllFence, Counted
<1>3. QED
  BY <1>1, <1>2 DEF AllFence

\* The agent's answer releases no helper.
LEMMA CloseReturnsAll ==
    ASSUME AllInv, NEW o \in Ops, NEW s \in Sessions, CloseReturns(o, s)
    PROVE  AllFence'

<1>1. ActiveHeld'
  BY DEF AllInv, AllFence, ActiveHeld, Live, CloseReturns, EndJob, Ended
<1>2. Counted'
  <2>1. allOps' = allOps /\ allOut' = allOut
    BY DEF CloseReturns
  <2>2. \A p \in AllOps : status'[p] = status[p]
    BY DEF AllInv, FenceInv, TypeInv, RequestTypes, Roster, Jobs, EndJob, Ended, AllFence,
         Counted, CloseReturns
  <2>3. RunningAll' = RunningAll
    BY <2>2 DEF RunningAll
  <2>4. QED
    BY <2>1, <2>2, <2>3 DEF AllInv, AllFence, Counted
<1>3. QED
  BY <1>1, <1>2 DEF AllFence

\* The helpers of a completed operation have been released, or others hold them.
LEMMA CompleteTabAll ==
    ASSUME AllInv, NEW o \in Ops, CompleteTab(o)
    PROVE  AllFence'

<1>1. ActiveHeld'
  BY DEF AllInv, AllFence, ActiveHeld, Live, CompleteTab
<1>2. Counted'
  <2>1. allOps' = allOps /\ allOut' = allOut
    BY DEF CompleteTab
  <2>2. \A p \in AllOps : status'[p] = status[p]
    BY DEF AllInv, FenceInv, TypeInv, RequestTypes, AllFence, Counted, CompleteTab
  <2>3. RunningAll' = RunningAll
    BY <2>2 DEF RunningAll
  <2>4. QED
    BY <2>1, <2>2, <2>3 DEF AllInv, AllFence, Counted
<1>3. QED
  BY <1>1, <1>2 DEF AllFence

\* A retirement of all tabs is counted, and holds the helpers it captures.
LEMMA RetireAllAll ==
    ASSUME AllInv, NEW o \in Ops, RetireAll(o)
    PROVE  AllFence'

<1>1. ActiveHeld'
  BY DEF AllInv, FenceInv, TypeInv, RequestTypes, AllFence, ActiveHeld, Live, RetireAll, MayBegin,
         Capture
<1>2. Counted'
  <2>1. RunningAll' = RunningAll \cup {o} /\ o \notin RunningAll /\ allOps' = allOps + 1
    BY DEF AllInv, FenceInv, TypeInv, RequestTypes, RunningAll, RetireAll, MayBegin
  <2>2. RunningAll \subseteq Ops
    BY DEF RunningAll
  <2>3. /\ Cardinality(RunningAll) \in Nat
        /\ Cardinality(RunningAll \cup {o}) = Cardinality(RunningAll) + 1
    BY <2>1, <2>2, Counting
  <2>4. \A p \in AllOps : status'[p] # "fenced"
    BY DEF AllInv, FenceInv, TypeInv, RequestTypes, AllFence, Counted, RetireAll
  <2>5. QED
    BY <2>1, <2>3, <2>4 DEF AllInv, AllFence, Counted
<1>3. QED
  BY <1>1, <1>2 DEF AllFence

\* The last retirement of all tabs to end opens the fence.
LEMMA FinishAllAll ==
    ASSUME AllInv, NEW o \in Ops, FinishAll(o)
    PROVE  AllFence'

<1>1. Counted'
  <2>1. /\ RunningAll' = RunningAll \ {o} /\ o \in RunningAll /\ allOps' = allOps - 1
        /\ allOut' = IF allOps = 1 THEN {} ELSE allOut
    BY DEF AllInv, FenceInv, TypeInv, RequestTypes, RunningAll, FinishAll
  <2>2. RunningAll \subseteq Ops
    BY DEF RunningAll
  <2>3. /\ Cardinality(RunningAll) \in Nat
        /\ Cardinality(RunningAll \ {o}) = Cardinality(RunningAll) - 1
    BY <2>1, <2>2, Counting
  <2>4. \A p \in AllOps : status'[p] # "fenced"
    BY DEF AllInv, FenceInv, TypeInv, RequestTypes, AllFence, Counted, FinishAll
  <2>5. QED
    BY <2>1, <2>3, <2>4 DEF AllInv, AllFence, Counted
<1>2. ActiveHeld'
  <2>1. /\ UNCHANGED <<active, todo, done>> /\ o \in AllOps /\ status[o] = "running" /\ todo[o] = {}
        /\ allOut \subseteq done[o] /\ allOut' = IF allOps = 1 THEN {} ELSE allOut
    BY DEF FinishAll
  <2>2. \A p \in Ops \ {o} : Live(p)' <=> Live(p)
    BY DEF AllInv, FenceInv, TypeInv, RequestTypes, FinishAll, Live
  <2>3. ASSUME NEW p \in AllOps \ {o}, Live(p) PROVE allOps # 1
    <3>1. p \in RunningAll \ {o} /\ o \in RunningAll /\ RunningAll \subseteq Ops
      <4>1. status[p] # "fenced"
        BY <2>3 DEF AllInv, AllFence, Counted
      <4>2. QED
        BY <2>1, <2>3, <4>1 DEF RunningAll, Live
    <3>2. Cardinality(RunningAll \ {o}) # 0
      <4>1. RunningAll \ {o} \subseteq Ops
        BY <3>1
      <4>2. QED
        BY <3>1, <4>1, Counting
    <3>3. Cardinality(RunningAll \ {o}) = Cardinality(RunningAll) - 1
      BY <3>1, Counting
    <3>4. QED
      BY <3>2, <3>3 DEF AllInv, AllFence, Counted
  <2>4. QED
    BY <2>1, <2>2, <2>3 DEF AllInv, AllFence, ActiveHeld
<1>3. QED
  BY <1>1, <1>2 DEF AllFence

\* Every step keeps what is known of the fence over all tabs.
LEMMA NextAll ==
    ASSUME AllInv, [Next]_vars
    PROVE  AllFence'
<1>1. ASSUME NEW h \in Helpers, NEW t \in Tabs, Connect(h, t) PROVE AllFence'
  BY <1>1, ConnectAll
<1>2. ASSUME NEW h \in Helpers, NewSession(h) PROVE AllFence'
  BY <1>2 DEF AllInv, AllFence, Counted, ActiveHeld, RunningAll, NewSession, Live
<1>3. ASSUME NEW h \in Helpers, PriorGate(h) PROVE AllFence'
  BY <1>3 DEF AllInv, AllFence, Counted, ActiveHeld, RunningAll, PriorGate, Live
<1>4. ASSUME NEW h \in Helpers, PriorClosed(h) PROVE AllFence'
  BY <1>4 DEF AllInv, AllFence, Counted, ActiveHeld, RunningAll, PriorClosed, Live
<1>5. ASSUME NEW h \in Helpers, NewFails(h) PROVE AllFence'
  BY <1>5 DEF AllInv, AllFence, Counted, ActiveHeld, RunningAll, NewFails, Live
<1>6. ASSUME NEW h \in Helpers, NewReply(h) PROVE AllFence'
  BY <1>6 DEF AllInv, AllFence, Counted, ActiveHeld, RunningAll, NewReply, Live
<1>7. ASSUME NEW h \in Helpers, LateGate(h) PROVE AllFence'
  BY <1>7 DEF AllInv, AllFence, Counted, ActiveHeld, RunningAll, LateGate, Live
<1>8. ASSUME NEW h \in Helpers, LateClosed(h) PROVE AllFence'
  BY <1>8 DEF AllInv, AllFence, Counted, ActiveHeld, RunningAll, LateClosed, Live
<1>9. ASSUME NEW h \in Helpers, Disconnect(h) PROVE AllFence'
  BY <1>9 DEF AllInv, AllFence, Counted, ActiveHeld, RunningAll, Disconnect, Live
<1>10. ASSUME NEW h \in Helpers, CleanupGate(h) PROVE AllFence'
  BY <1>10 DEF AllInv, AllFence, Counted, ActiveHeld, RunningAll, CleanupGate, Live
<1>11. ASSUME NEW h \in Helpers, CleanupClosed(h) PROVE AllFence'
  BY <1>11 DEF AllInv, AllFence, Counted, ActiveHeld, RunningAll, CleanupClosed, Live
<1>12. ASSUME NEW h \in Helpers, Gone(h) PROVE AllFence'
  BY <1>12 DEF AllInv, AllFence, Counted, ActiveHeld, RunningAll, Gone, Live
<1>13. ASSUME NEW t \in Tabs, NEW u \in Tabs, Rename(t, u) PROVE AllFence'
  BY <1>13 DEF AllInv, AllFence, Counted, ActiveHeld, RunningAll, Rename, Live
<1>14. ASSUME NEW h \in Helpers, LearnRename(h) PROVE AllFence'
  BY <1>14 DEF AllInv, AllFence, Counted, ActiveHeld, RunningAll, LearnRename, Live
<1>15. ASSUME NEW o \in Ops, NEW t \in Tabs, RetireTab(o, t) PROVE AllFence'
  BY <1>15, RetireTabAll
<1>16. ASSUME NEW o \in Ops, RetireSession(o) PROVE AllFence'
  BY <1>16, RetireSessionAll
<1>17. ASSUME NEW o \in Ops, NEW t \in Tabs, CloseTabSession(o, t) PROVE AllFence'
  BY <1>17, CloseTabSessionAll
<1>18. ASSUME NEW o \in Ops, NEW t \in Tabs, ResetTabSession(o, t) PROVE AllFence'
  BY <1>18, ResetTabSessionAll
<1>19. ASSUME NEW o \in Ops, NEW s \in Sessions, Restore(o, s) PROVE AllFence'
  BY <1>19 DEF AllInv, AllFence, Counted, ActiveHeld, RunningAll, Restore, Live
<1>20. ASSUME NEW o \in Ops, NEW s \in Sessions, CloseGate(o, s) PROVE AllFence'
  BY <1>20, CloseGateAll
<1>21. ASSUME NEW o \in Ops, NEW s \in Sessions, CloseTimesOut(o, s) PROVE AllFence'
  BY <1>21, CloseTimesOutAll
<1>22. ASSUME NEW o \in Ops, NEW s \in Sessions, CloseReturns(o, s) PROVE AllFence'
  BY <1>22, CloseReturnsAll
<1>23. ASSUME NEW o \in Ops, NEW h \in Helpers, ForceCleanup(o, h) PROVE AllFence'
  BY <1>23 DEF AllInv, AllFence, Counted, ActiveHeld, RunningAll, ForceCleanup, Live
<1>24. ASSUME NEW o \in Ops, CompleteTab(o) PROVE AllFence'
  BY <1>24, CompleteTabAll
<1>25. ASSUME NEW o \in Ops, RetireAll(o) PROVE AllFence'
  BY <1>25, RetireAllAll
<1>26. ASSUME NEW o \in Ops, NextBatch(o) PROVE AllFence'
  BY <1>26 DEF AllInv, AllFence, Counted, ActiveHeld, RunningAll, NextBatch, Capture, Live
<1>27. ASSUME NEW o \in Ops, FinishAll(o) PROVE AllFence'
  BY <1>27, FinishAllAll
<1>28. CASE UNCHANGED vars
  BY <1>28 DEF AllInv, AllFence, Counted, ActiveHeld, vars, RunningAll, Live
<1>29. QED
  BY <1>1, <1>2, <1>3, <1>4, <1>5, <1>6, <1>7, <1>8, <1>9, <1>10, <1>11, <1>12, <1>13, <1>14,
     <1>15, <1>16, <1>17, <1>18, <1>19, <1>20, <1>21, <1>22, <1>23, <1>24, <1>25, <1>26, <1>27,
     <1>28
  DEF Next, HelperStep, OpStep

-----------------------------------------------------------------------------
(* What holds throughout, whatever requests come and whenever helpers leave. *)

\* Initially there is no helper, no request and no fence.
LEMMA InitAllInv == Init => AllInv
<1> SUFFICES ASSUME Init PROVE AllInv
  OBVIOUS
<1>1. TypeInv
  BY DEF Init, TypeInv, HelperTypes, MarkTypes, TransactionTypes, SessionTypes, FenceTypes,
     RequestTypes, JobTypes
<1>2. Roster
  BY DEF Init, Roster, Absent, Leaving, Begun, Jobs, InTabs, Unpublished
<1>3. FenceRecords
  BY DEF Init, FenceRecords, Aliases, Balanced, Fenced, HitTabs, Live
<1>4. Counted
  <2>1. RunningAll = {} /\ allOps = 0 /\ allOut = {} /\ \A o \in AllOps : status[o] # "fenced"
    BY DEF Init, RunningAll
  <2>2. QED
    BY <2>1, FS_EmptySet DEF Counted
<1>5. ActiveHeld
  BY DEF Init, ActiveHeld
<1>6. QED
  BY <1>1, <1>2, <1>3, <1>4, <1>5 DEF AllInv, FenceInv, AllFence

\* Every step preserves the invariant.
LEMMA NextAllInv ==
    ASSUME AllInv, [Next]_vars
    PROVE  AllInv'
<1>1. FenceInv /\ TypeInv
  BY DEF AllInv, FenceInv
<1>2. TypeInv'
  BY <1>1, NextType
<1>3. Roster' /\ FenceRecords'
  BY <1>1, NextRoster, NextFences
<1>4. AllFence'
  BY NextAll
<1>5. QED
  BY <1>2, <1>3, <1>4 DEF AllInv, FenceInv

\* The tables of tab retirement stay consistent: what they say of helpers and
\* requests, of the fences of tabs and of the fence over all tabs.
THEOREM RetirementInvariant == Spec => []AllInv
<1>1. AllInv /\ [Next]_vars => AllInv'
  BY NextAllInv
<1>2. QED
  BY <1>1, InitAllInv, PTL DEF Spec

\* Tab retirement is type correct; the counter of the fence over all tabs does
\* not underflow, because it counts the operations that are running.
THEOREM RetirementTypeCorrect == Spec => []TypeOK
<1>1. AllInv => TypeOK
  <2> SUFFICES ASSUME AllInv PROVE TypeOK
    OBVIOUS
  <2>1. allOps \in Nat
    <3>1. RunningAll \subseteq Ops /\ allOps = Cardinality(RunningAll)
      BY DEF AllInv, AllFence, Counted, RunningAll
    <3>2. QED
      BY <3>1, Counting
  <2>2. QED
    BY <2>1 DEF AllInv, FenceInv, TypeInv, HelperTypes, MarkTypes, TransactionTypes,
       SessionTypes, FenceTypes, RequestTypes, JobTypes, TypeOK
<1>2. QED
  BY <1>1, RetirementInvariant, PTL

\* complete_tab_retirement takes its operation from the fence that
\* begin_tab_retirement counted it in, wherever drags have moved it: a fence
\* counts the operations on its tab, it is there as long as one is, and without
\* any it waits for a helper that is still connected.
THEOREM FencesBalancedAlways == Spec => []FencesBalanced
<1>1. AllInv => FencesBalanced
  <2> SUFFICES ASSUME AllInv PROVE FencesBalanced
    OBVIOUS
  <2>1. \A x \in Tabs : Resolve(x) = Current(x) /\ Current(x) \in Tabs
    BY ResolveCurrent DEF AllInv, FenceInv, FenceRecords
  <2>2. \A o \in TabOps : status[o] \in {"fenced", "running"} =>
           tab[o] \in Tabs /\ Fencing(Current(tab[o]))
    BY DEF AllInv, FenceInv, FenceRecords, Fenced, Live
  <2>3. \A t \in Tabs : fence[t] # None =>
          /\ fence[t].ops = Cardinality({o \in TabOps : /\ status[o] \in {"fenced", "running"}
                                                        /\ Resolve(tab[o]) = t})
          /\ Fencing(t) <=> fence[t].ops > 0
          /\ ~ Fencing(t) => fence[t].out # {} /\ fence[t].out \subseteq Connected
    <3>1. \A t \in Tabs : OpsOn(t) = {o \in TabOps : /\ status[o] \in {"fenced", "running"}
                                                     /\ Resolve(tab[o]) = t}
      BY <2>1, <2>2 DEF OpsOn, Live
    <3>2. QED
      BY <3>1 DEF AllInv, FenceInv, FenceRecords, Balanced
  <2>4. \A o \in TabOps : status[o] \in {"fenced", "running"} => Fencing(Resolve(tab[o]))
    BY <2>1, <2>2
  <2>5. \A t \in Tabs : rekeys[t] # None => Fencing(Resolve(t))
    BY <2>1 DEF AllInv, FenceInv, FenceRecords, Fenced, Current
  <2>6. QED
    BY <2>3, <2>4, <2>5 DEF FencesBalanced
<1>2. QED
  BY <1>1, RetirementInvariant, PTL

\* The fence over all tabs opens with the end of the last operation that counts
\* on it, and no helper stays in the set that collects late outcomes.
THEOREM AllFenceReleasedAlways == Spec => []AllFenceReleased
<1>1. AllInv => AllFenceReleased
  BY DEF AllInv, AllFence, Counted, ActiveHeld, RunningAll, Live, AllFenceReleased
<1>2. QED
  BY <1>1, RetirementInvariant, PTL

=============================================================================
