-------------------------- MODULE AgentPoolProofs --------------------------
(***************************************************************************)
(* The safety of the agent pool, for every number of helpers, keys,        *)
(* generations and processes.  The inductive invariant PoolInv ties each   *)
(* actor's control state to the shared objects it holds: the OnceCell's    *)
(* permit and the admission lease exclude rival initializers, publication  *)
(* excludes a second process of a generation, and retirement marks every   *)
(* generation whose process failed before a waiter can reuse it.           *)
(***************************************************************************)
EXTENDS AgentPool, TLAPS

\* A handler past the top of its loop works on a generation of its own key.
HandlerCell ==
    \A h \in Helpers :
        /\ pc[h] \in Acquiring \cup {"ready", "closing"} => want[h] \in Keys
        /\ pc[h] \in (Acquiring \ {"enter"}) \cup {"ready", "closing"} =>
              cell[h] \in Cells /\ cellKey[cell[h]] = want[h]

\* The pool files a generation under the key it was created for.
PoolKeys == \A k \in Keys : pool[k] # None => cellKey[pool[k]] = k

\* An initializer holds the permit of a generation nothing is published in.
PermitHeld ==
    \A h \in Helpers : pc[h] \in Initializing =>
        permit[cell[h]] = h /\ published[cell[h]] = None

\* The handler that starts a process holds its target's admission lease ...
HandlerLease ==
    \A h \in Helpers : pc[h] \in {"begin", "start", "init"} => lease[Target(h)] = h

\* ... and so does a reaper that did not time out waiting for it.
ReaperLease == \A i \in Insts : reaper[i] = "leased" => lease[TargetOf(i)] = i

\* A started process belongs to a generation of a key.
ProcessCell ==
    \A i \in Insts :
        /\ proc[i] = "none" <=> instCell[i] = None
        /\ instCell[i] # None => KeyOf(i) \in Keys

\* The reaper's progress matches what is known of its process.
ReaperMatches ==
    \A i \in Insts :
        /\ reaper[i] = "none" => proc[i] \in {"none", "starting", "dead", "unconfirmed"}
        /\ reaper[i] = "watch" => proc[i] \in {"running", "stopping"}
        /\ reaper[i] \in {"leased", "unleased"} => proc[i] = "stopping"
        /\ reaper[i] \in {"retire", "remove", "done"} =>
              proc[i] \in {"dead", "unconfirmed", "leaked"}

\* Exactly the processes with a reaper were published, each in its own cell.
Published ==
    /\ \A c \in Cells : published[c] # None =>
          instCell[published[c]] = c /\ reaper[published[c]] # "none"
    /\ \A i \in Insts : reaper[i] # "none" => published[instCell[i]] = i

\* A handler in initialize owns the process it started.
InitOwns ==
    \A h \in Helpers : pc[h] = "init" =>
        agent[h] \in Insts /\ proc[agent[h]] = "starting" /\ instCell[agent[h]] = cell[h]

\* An admitted start works on the current generation of an unquarantined target.
StartAdmitted ==
    \A h \in Helpers : pc[h] \in {"start", "init"} =>
        IsCurrent(want[h], cell[h]) /\ Target(h) \notin quarantined

\* Before it starts a process, the initializer's generation has none.
StartAlone ==
    \A h \in Helpers : pc[h] \in {"admit", "begin", "start"} =>
        \A i \in Insts : instCell[i] # cell[h]

\* A starting process has a handler that awaits its initialize.
StartingOwned ==
    \A i \in Insts : proc[i] = "starting" =>
        \E h \in Helpers : pc[h] = "init" /\ agent[h] = i

\* An unretired, unpublished generation with a process is still starting it.
FailedIsRetired ==
    \A i \in Insts :
        ( /\ instCell[i] # None
          /\ instCell[i] \notin retired
          /\ published[instCell[i]] = None ) => proc[i] = "starting"

\* A running agent, and a stopping warm one, is its key's pool entry.
Pooled ==
    \A i \in Insts :
        proc[i] = "running" \/ (proc[i] = "stopping" /\ KeyOf(i) \in WarmKeys) =>
            IsCurrent(KeyOf(i), instCell[i])

\* Unconfirmed cleanups are quarantined.
Quarantined == \A i \in Insts : proc[i] = "unconfirmed" => TargetOf(i) \in quarantined

\* What a handler knows of the agent it obtained.
HandlerAgent ==
    \A h \in Helpers :
        /\ pc[h] = "verify" => published[cell[h]] # None
        /\ pc[h] \in {"bind", "ready"} =>
              agent[h] \in Insts /\ published[cell[h]] = agent[h]
        /\ pc[h] = "closing" => agent[h] \in Insts
        /\ pc[h] = "ready" => h \in bound[agent[h]]

PoolInv ==
    /\ TypeOK
    /\ HandlerCell /\ PoolKeys /\ PermitHeld /\ HandlerLease /\ ReaperLease
    /\ ProcessCell /\ ReaperMatches /\ Published /\ InitOwns /\ StartAdmitted /\ StartAlone
    /\ StartingOwned /\ FailedIsRetired /\ Pooled
    /\ Quarantined /\ HandlerAgent
    /\ OneProcessPerGeneration /\ OneProcessPerKey

USE PoolAssumption, HoldersDistinct
USE DEF poolVars, procVars, admitVars, helperVars, Goto, Release, RemoveIfCurrent, Target,
        TargetOf, KeyOf, IsCurrent, Acquiring, Initializing, WarmKeys, Occupying,
        FreshCell, FreshInst

\* Resolving a request leaves the shared state alone.
LEMMA InitializeInv ==
    ASSUME PoolInv, NEW h \in Helpers, NEW k \in Keys, Initialize(h, k)
    PROVE  PoolInv'
<1>1. TypeOK'
  BY DEF PoolInv, TypeOK, Initialize
<1>2. HandlerCell'
  BY DEF PoolInv, HandlerCell, TypeOK, Initialize
<1>3. PermitHeld'
  BY DEF PoolInv, PermitHeld, TypeOK, HandlerCell, InitOwns, Published, Initialize
<1>4. HandlerLease'
  BY DEF PoolInv, HandlerLease, TypeOK, HandlerCell, ReaperLease, Initialize
<1>5. InitOwns'
  BY DEF PoolInv, InitOwns, TypeOK, PermitHeld, HandlerCell, ReaperMatches, Published,
      Initialize
<1>6. StartAdmitted'
  BY DEF PoolInv, StartAdmitted, TypeOK, HandlerCell, PoolKeys, PermitHeld,
      HandlerLease, ReaperLease, ProcessCell, Published, Initialize
<1>7. StartAlone'
  BY DEF PoolInv, StartAlone, TypeOK, HandlerCell, PermitHeld, InitOwns, StartingOwned,
      FailedIsRetired, Initialize
<1>8. StartingOwned'
  BY DEF PoolInv, StartingOwned, TypeOK, InitOwns, ReaperMatches, Initialize
<1>9. HandlerAgent'
  BY DEF PoolInv, HandlerAgent, TypeOK, InitOwns, HandlerCell, PermitHeld, Initialize
<1>10.
      PoolKeys' /\ ReaperLease' /\ ProcessCell' /\ ReaperMatches' /\ Published'
      /\ FailedIsRetired' /\ Pooled' /\ Quarantined' /\ OneProcessPerGeneration'
      /\ OneProcessPerKey'
  BY DEF PoolInv, PoolKeys, ReaperLease, ProcessCell, ReaperMatches, Published,
      FailedIsRetired, Pooled, Quarantined, OneProcessPerGeneration, OneProcessPerKey,
      Initialize
<1>11. QED
  BY <1>1, <1>2, <1>3, <1>4, <1>5, <1>6, <1>7, <1>8, <1>9, <1>10 DEF PoolInv

\* A user retry only resets the attempt budget.
LEMMA InitializeRetryInv ==
    ASSUME PoolInv, NEW h \in Helpers, NEW k \in Keys, InitializeRetry(h, k)
    PROVE  PoolInv'
<1>1. TypeOK'
  BY DEF PoolInv, TypeOK, InitializeRetry
<1>2. HandlerCell'
  BY DEF PoolInv, HandlerCell, TypeOK, InitializeRetry
<1>3. PermitHeld'
  BY DEF PoolInv, PermitHeld, TypeOK, HandlerCell, InitOwns, Published, InitializeRetry
<1>4. HandlerLease'
  BY DEF PoolInv, HandlerLease, TypeOK, HandlerCell, ReaperLease, InitializeRetry
<1>5. InitOwns'
  BY DEF PoolInv, InitOwns, TypeOK, PermitHeld, HandlerCell, ReaperMatches, Published,
      InitializeRetry
<1>6. StartAdmitted'
  BY DEF PoolInv, StartAdmitted, TypeOK, HandlerCell, PoolKeys, PermitHeld,
      HandlerLease, ReaperLease, ProcessCell, Published, InitializeRetry
<1>7. StartAlone'
  BY DEF PoolInv, StartAlone, TypeOK, HandlerCell, PermitHeld, InitOwns, StartingOwned,
      FailedIsRetired, InitializeRetry
<1>8. StartingOwned'
  BY DEF PoolInv, StartingOwned, TypeOK, InitOwns, ReaperMatches, InitializeRetry
<1>9. HandlerAgent'
  BY DEF PoolInv, HandlerAgent, TypeOK, InitOwns, HandlerCell, PermitHeld,
      InitializeRetry
<1>10.
      PoolKeys' /\ ReaperLease' /\ ProcessCell' /\ ReaperMatches' /\ Published'
      /\ FailedIsRetired' /\ Pooled' /\ Quarantined' /\ OneProcessPerGeneration'
      /\ OneProcessPerKey'
  BY DEF PoolInv, PoolKeys, ReaperLease, ProcessCell, ReaperMatches, Published,
      FailedIsRetired, Pooled, Quarantined, OneProcessPerGeneration, OneProcessPerKey,
      InitializeRetry
<1>11. QED
  BY <1>1, <1>2, <1>3, <1>4, <1>5, <1>6, <1>7, <1>8, <1>9, <1>10 DEF PoolInv

\* Joining or replacing a generation: the replaced one is retired.
LEMMA EnterInv ==
    ASSUME PoolInv, NEW h \in Helpers, Enter(h)
    PROVE  PoolInv'
<1>1. want[h] \in Keys /\ cell' \in [Helpers -> Cells \cup {None}] /\ cell'[h] \in Cells
  BY DEF PoolInv, TypeOK, HandlerCell, Enter
<1>2. /\ pc[h] = "enter" /\ pc' = [pc EXCEPT ![h] = "once"]
      /\ cell' = [cell EXCEPT ![h] = cell'[h]]
      /\ pool' = [pool EXCEPT ![want[h]] = cell'[h]]
      /\ cellKey' = [cellKey EXCEPT ![cell'[h]] = want[h]]
      /\ pool[want[h]] = cell'[h] \/ cellKey[cell'[h]] = None
      /\ pool[want[h]] = cell'[h] \/ pool[want[h]] = None \/ pool[want[h]] \in retired
  BY <1>1 DEF PoolInv, TypeOK, PoolKeys, Enter
<1>3. UNCHANGED <<retired, published, permit, procVars, admitVars, want, agent, requests>>
  BY DEF Enter
<1>4. \A i \in Insts : instCell[i] # None => KeyOf(i)' = KeyOf(i)
  BY <1>1, <1>2, <1>3 DEF PoolInv, TypeOK, PoolKeys, ProcessCell
<1>5. TypeOK'
  BY <1>1, <1>2, <1>3, <1>4 DEF PoolInv, TypeOK
<1>6. HandlerCell'
  <2>1. \A g \in Helpers : g # h => cell'[g] = cell[g] /\ pc'[g] = pc[g]
    BY <1>2 DEF PoolInv, TypeOK
  <2>2. \A c \in Cells : cellKey[c] # None => cellKey'[c] = cellKey[c]
    BY <1>1, <1>2 DEF PoolInv, TypeOK, PoolKeys
  <2>3. pc'[h] = "once" /\ cellKey'[cell'[h]] = want[h]
    BY <1>1, <1>2 DEF PoolInv, TypeOK
  <2>4. \A g \in Helpers : pc[g] \in Acquiring \cup {"ready", "closing"} =>
           want[g] \in Keys /\ want[g] # None
    BY DEF PoolInv, HandlerCell
  <2>5. ASSUME NEW g \in Helpers, g # h,
               pc[g] \in (Acquiring \ {"enter"}) \cup {"ready", "closing"}
        PROVE  cell'[g] \in Cells /\ cellKey'[cell'[g]] = want[g]
    <3>1. cell[g] \in Cells /\ cellKey[cell[g]] = want[g] /\ want[g] # None
      BY <2>4, <2>5 DEF PoolInv, HandlerCell
    <3>2. QED
      BY <2>1, <2>2, <2>5, <3>1
  <2>6. want' = want
    BY <1>3
  <2>7. QED
    BY <1>1, <2>1, <2>3, <2>4, <2>5, <2>6 DEF HandlerCell
<1>7. PoolKeys'
  BY <1>1, <1>2, <1>3, <1>4 DEF PoolInv, PoolKeys, TypeOK, HandlerCell
<1>8. PermitHeld'
  BY <1>1, <1>2, <1>3, <1>4 DEF PoolInv, PermitHeld, TypeOK, HandlerCell, InitOwns,
      Published
<1>9. HandlerLease'
  BY <1>1, <1>2, <1>3, <1>4 DEF PoolInv, HandlerLease, TypeOK, HandlerCell, ReaperLease
<1>10. ReaperLease'
  BY <1>1, <1>2, <1>3, <1>4 DEF PoolInv, ReaperLease, ReaperMatches, ProcessCell
<1>11. ProcessCell'
  BY <1>1, <1>2, <1>3, <1>4 DEF PoolInv, ProcessCell, TypeOK, InitOwns
<1>12. InitOwns'
  BY <1>1, <1>2, <1>3, <1>4 DEF PoolInv, InitOwns, TypeOK, PermitHeld, HandlerCell,
      ReaperMatches, Published
<1>13. StartAdmitted'
  BY <1>1, <1>2, <1>3, <1>4 DEF PoolInv, StartAdmitted, TypeOK, HandlerCell, PoolKeys,
      PermitHeld, HandlerLease, ReaperLease, ProcessCell, Published
<1>14. StartAlone'
  BY <1>1, <1>2, <1>3, <1>4 DEF PoolInv, StartAlone, TypeOK, HandlerCell, PermitHeld,
      InitOwns, StartingOwned, FailedIsRetired
<1>15. StartingOwned'
  BY <1>1, <1>2, <1>3, <1>4 DEF PoolInv, StartingOwned, TypeOK
<1>16. Pooled'
  BY <1>1, <1>2, <1>3, <1>4 DEF PoolInv, Pooled, TypeOK, PoolKeys, ProcessCell
<1>17. Quarantined'
  BY <1>1, <1>2, <1>3, <1>4 DEF PoolInv, Quarantined, ProcessCell
<1>18. HandlerAgent'
  BY <1>1, <1>2, <1>3, <1>4 DEF PoolInv, HandlerAgent, TypeOK, InitOwns, HandlerCell,
      PermitHeld
<1>19. OneProcessPerKey'
  BY <1>1, <1>2, <1>3, <1>4 DEF PoolInv, OneProcessPerKey, TypeOK
<1>20. ReaperMatches' /\ Published' /\ FailedIsRetired' /\ OneProcessPerGeneration'
  BY DEF PoolInv, ReaperMatches, Published, FailedIsRetired, OneProcessPerGeneration,
      Enter
<1>21. QED
  BY <1>5, <1>6, <1>7, <1>8, <1>9, <1>10, <1>11, <1>12, <1>13, <1>14, <1>15,
      <1>16, <1>17, <1>18, <1>19, <1>20 DEF PoolInv

\* A permit is won only on a current generation, which has no process yet.
LEMMA OnceInv ==
    ASSUME PoolInv, NEW h \in Helpers, Once(h)
    PROVE  PoolInv'
<1>1. want[h] \in Keys /\ cell[h] \in Cells /\ cellKey[cell[h]] = want[h]
  BY DEF PoolInv, TypeOK, HandlerCell, HandlerAgent, ProcessCell, ReaperMatches,
      Published, InitOwns, Once
<1>2. TypeOK'
  BY <1>1 DEF PoolInv, TypeOK, Once
<1>3. HandlerCell'
  BY <1>1 DEF PoolInv, HandlerCell, TypeOK, Once
<1>4. PermitHeld'
  BY <1>1 DEF PoolInv, PermitHeld, TypeOK, HandlerCell, InitOwns, Published, Once
<1>5. HandlerLease'
  BY <1>1 DEF PoolInv, HandlerLease, TypeOK, HandlerCell, ReaperLease, Once
<1>6. InitOwns'
  BY <1>1 DEF PoolInv, InitOwns, TypeOK, PermitHeld, HandlerCell, ReaperMatches,
      Published, Once
<1>7. StartAdmitted'
  BY <1>1 DEF PoolInv, StartAdmitted, TypeOK, HandlerCell, PoolKeys, PermitHeld,
      HandlerLease, ReaperLease, ProcessCell, Published, Once
<1>8. StartAlone'
  BY <1>1 DEF PoolInv, StartAlone, TypeOK, HandlerCell, PermitHeld, InitOwns,
      StartingOwned, FailedIsRetired, Once
<1>9. StartingOwned'
  BY <1>1 DEF PoolInv, StartingOwned, TypeOK, InitOwns, ReaperMatches, Once
<1>10. HandlerAgent'
  BY <1>1 DEF PoolInv, HandlerAgent, TypeOK, InitOwns, HandlerCell, PermitHeld, Once
<1>11.
      PoolKeys' /\ ReaperLease' /\ ProcessCell' /\ ReaperMatches' /\ Published'
      /\ FailedIsRetired' /\ Pooled' /\ Quarantined' /\ OneProcessPerGeneration'
      /\ OneProcessPerKey'
  BY DEF PoolInv, PoolKeys, ReaperLease, ProcessCell, ReaperMatches, Published,
      FailedIsRetired, Pooled, Quarantined, OneProcessPerGeneration, OneProcessPerKey,
      Once
<1>12. QED
  BY <1>2, <1>3, <1>4, <1>5, <1>6, <1>7, <1>8, <1>9, <1>10, <1>11 DEF PoolInv

\* Taking the lease excludes every other starter and reaper of the target.
LEMMA AdmitInv ==
    ASSUME PoolInv, NEW h \in Helpers, Admit(h)
    PROVE  PoolInv'
<1>1. want[h] \in Keys /\ cell[h] \in Cells /\ cellKey[cell[h]] = want[h]
  BY DEF PoolInv, TypeOK, HandlerCell, HandlerAgent, ProcessCell, ReaperMatches,
      Published, InitOwns, Admit
<1>2. TypeOK'
  BY <1>1 DEF PoolInv, TypeOK, Admit
<1>3. HandlerCell'
  BY <1>1 DEF PoolInv, HandlerCell, TypeOK, Admit
<1>4. PermitHeld'
  BY <1>1 DEF PoolInv, PermitHeld, TypeOK, HandlerCell, InitOwns, Published, Admit
<1>5. HandlerLease'
  BY <1>1 DEF PoolInv, HandlerLease, TypeOK, HandlerCell, ReaperLease, Admit
<1>6. ReaperLease'
  BY <1>1 DEF PoolInv, ReaperLease, TypeOK, HandlerLease, HandlerCell, ProcessCell,
      ReaperMatches, Admit
<1>7. InitOwns'
  BY <1>1 DEF PoolInv, InitOwns, TypeOK, PermitHeld, HandlerCell, ReaperMatches,
      Published, Admit
<1>8. StartAdmitted'
  BY <1>1 DEF PoolInv, StartAdmitted, TypeOK, HandlerCell, PoolKeys, PermitHeld,
      HandlerLease, ReaperLease, ProcessCell, Published, Admit
<1>9. StartAlone'
  BY <1>1 DEF PoolInv, StartAlone, TypeOK, HandlerCell, PermitHeld, InitOwns,
      StartingOwned, FailedIsRetired, Admit
<1>10. StartingOwned'
  BY <1>1 DEF PoolInv, StartingOwned, TypeOK, InitOwns, ReaperMatches, Admit
<1>11. HandlerAgent'
  BY <1>1 DEF PoolInv, HandlerAgent, TypeOK, InitOwns, HandlerCell, PermitHeld, Admit
<1>12.
      PoolKeys' /\ ProcessCell' /\ ReaperMatches' /\ Published' /\ FailedIsRetired'
      /\ Pooled' /\ Quarantined' /\ OneProcessPerGeneration' /\ OneProcessPerKey'
  BY DEF PoolInv, PoolKeys, ProcessCell, ReaperMatches, Published, FailedIsRetired,
      Pooled, Quarantined, OneProcessPerGeneration, OneProcessPerKey, Admit
<1>13. QED
  BY <1>2, <1>3, <1>4, <1>5, <1>6, <1>7, <1>8, <1>9, <1>10, <1>11, <1>12 DEF PoolInv

\* A timed-out initializer retires only its own generation.
LEMMA AdmitTimeoutInv ==
    ASSUME PoolInv, NEW h \in Helpers, AdmitTimeout(h)
    PROVE  PoolInv'
<1>1. want[h] \in Keys /\ cell[h] \in Cells /\ cellKey[cell[h]] = want[h]
  BY DEF PoolInv, TypeOK, HandlerCell, HandlerAgent, ProcessCell, ReaperMatches,
      Published, InitOwns, AdmitTimeout
<1>2. TypeOK'
  BY <1>1 DEF PoolInv, TypeOK, AdmitTimeout
<1>3. HandlerCell'
  BY <1>1 DEF PoolInv, HandlerCell, TypeOK, AdmitTimeout
<1>4. PermitHeld'
  BY <1>1 DEF PoolInv, PermitHeld, TypeOK, HandlerCell, InitOwns, Published,
      AdmitTimeout
<1>5. HandlerLease'
  BY <1>1 DEF PoolInv, HandlerLease, TypeOK, HandlerCell, ReaperLease, AdmitTimeout
<1>6. InitOwns'
  BY <1>1 DEF PoolInv, InitOwns, TypeOK, PermitHeld, HandlerCell, ReaperMatches,
      Published, AdmitTimeout
<1>7. StartAdmitted'
  BY <1>1 DEF PoolInv, StartAdmitted, TypeOK, HandlerCell, PoolKeys, PermitHeld,
      HandlerLease, ReaperLease, ProcessCell, Published, AdmitTimeout
<1>8. StartAlone'
  BY <1>1 DEF PoolInv, StartAlone, TypeOK, HandlerCell, PermitHeld, InitOwns,
      StartingOwned, FailedIsRetired, AdmitTimeout
<1>9. StartingOwned'
  BY <1>1 DEF PoolInv, StartingOwned, TypeOK, InitOwns, ReaperMatches, AdmitTimeout
<1>10. FailedIsRetired'
  BY <1>1 DEF PoolInv, FailedIsRetired, TypeOK, InitOwns, HandlerCell, ReaperMatches,
      Published, AdmitTimeout
<1>11. Pooled'
  BY <1>1 DEF PoolInv, Pooled, TypeOK, HandlerCell, PoolKeys, PermitHeld, ProcessCell,
      Published, ReaperMatches, InitOwns, StartAdmitted, HandlerAgent, AdmitTimeout
<1>12. HandlerAgent'
  BY <1>1 DEF PoolInv, HandlerAgent, TypeOK, InitOwns, HandlerCell, PermitHeld,
      AdmitTimeout
<1>13.
      PoolKeys' /\ ReaperLease' /\ ProcessCell' /\ ReaperMatches' /\ Published'
      /\ Quarantined' /\ OneProcessPerGeneration' /\ OneProcessPerKey'
  BY DEF PoolInv, PoolKeys, ReaperLease, ProcessCell, ReaperMatches, Published,
      Quarantined, OneProcessPerGeneration, OneProcessPerKey, AdmitTimeout
<1>14. QED
  BY <1>2, <1>3, <1>4, <1>5, <1>6, <1>7, <1>8, <1>9, <1>10, <1>11, <1>12,
      <1>13 DEF PoolInv

\* A start is admitted on a current generation of an unquarantined target.
LEMMA BeginInv ==
    ASSUME PoolInv, NEW h \in Helpers, Begin(h)
    PROVE  PoolInv'
<1>1. want[h] \in Keys /\ cell[h] \in Cells /\ cellKey[cell[h]] = want[h]
  BY DEF PoolInv, TypeOK, HandlerCell, HandlerAgent, ProcessCell, ReaperMatches,
      Published, InitOwns, Begin
<1>2. TypeOK'
  BY <1>1 DEF PoolInv, TypeOK, Begin
<1>3. HandlerCell'
  BY <1>1 DEF PoolInv, HandlerCell, TypeOK, Begin
<1>4. PermitHeld'
  BY <1>1 DEF PoolInv, PermitHeld, TypeOK, HandlerCell, InitOwns, Published, Begin
<1>5. HandlerLease'
  BY <1>1 DEF PoolInv, HandlerLease, TypeOK, HandlerCell, ReaperLease, Begin
<1>6. ReaperLease'
  BY <1>1 DEF PoolInv, ReaperLease, TypeOK, HandlerLease, HandlerCell, ProcessCell,
      ReaperMatches, Begin
<1>7. InitOwns'
  BY <1>1 DEF PoolInv, InitOwns, TypeOK, PermitHeld, HandlerCell, ReaperMatches,
      Published, Begin
<1>8. StartAdmitted'
  BY <1>1 DEF PoolInv, StartAdmitted, TypeOK, HandlerCell, PoolKeys, PermitHeld,
      HandlerLease, ReaperLease, ProcessCell, Published, Begin
<1>9. StartAlone'
  BY <1>1 DEF PoolInv, StartAlone, TypeOK, HandlerCell, PermitHeld, InitOwns,
      StartingOwned, FailedIsRetired, Begin
<1>10. StartingOwned'
  BY <1>1 DEF PoolInv, StartingOwned, TypeOK, InitOwns, ReaperMatches, Begin
<1>11. FailedIsRetired'
  BY <1>1 DEF PoolInv, FailedIsRetired, TypeOK, InitOwns, HandlerCell, ReaperMatches,
      Published, Begin
<1>12. Pooled'
  BY <1>1 DEF PoolInv, Pooled, TypeOK, HandlerCell, PoolKeys, PermitHeld, ProcessCell,
      Published, ReaperMatches, InitOwns, StartAdmitted, HandlerAgent, Begin
<1>13. HandlerAgent'
  BY <1>1 DEF PoolInv, HandlerAgent, TypeOK, InitOwns, HandlerCell, PermitHeld, Begin
<1>14.
      PoolKeys' /\ ProcessCell' /\ ReaperMatches' /\ Published' /\ Quarantined'
      /\ OneProcessPerGeneration' /\ OneProcessPerKey'
  BY DEF PoolInv, PoolKeys, ProcessCell, ReaperMatches, Published, Quarantined,
      OneProcessPerGeneration, OneProcessPerKey, Begin
<1>15. QED
  BY <1>2, <1>3, <1>4, <1>5, <1>6, <1>7, <1>8, <1>9, <1>10, <1>11, <1>12,
      <1>13, <1>14 DEF PoolInv

\* The new process is alone in its generation and in its key.
LEMMA SpawnInv ==
    ASSUME PoolInv, NEW h \in Helpers, Spawn(h)
    PROVE  PoolInv'
<1>1. want[h] \in Keys /\ cell[h] \in Cells /\ cellKey[cell[h]] = want[h]
  BY DEF PoolInv, HandlerCell, Spawn
<1>2. PICK i \in Insts :
        /\ proc[i] = "none"
        /\ proc' = [proc EXCEPT ![i] = "starting"]
        /\ instCell' = [instCell EXCEPT ![i] = cell[h]]
        /\ agent' = [agent EXCEPT ![h] = i]
  BY DEF Spawn
<1>3. /\ pc[h] = "start" /\ pc' = [pc EXCEPT ![h] = "init"]
      /\ UNCHANGED <<poolVars, bound, reaper, admitVars, want, cell, requests>>
  BY DEF Spawn
<1>4. TypeOK'
  BY <1>1, <1>2, <1>3 DEF PoolInv, TypeOK
<1>5. HandlerCell'
  BY <1>1, <1>2, <1>3 DEF PoolInv, HandlerCell, TypeOK
<1>6. PermitHeld'
  BY <1>1, <1>2, <1>3 DEF PoolInv, PermitHeld, TypeOK, HandlerCell, InitOwns, Published
<1>7. HandlerLease'
  BY <1>1, <1>2, <1>3 DEF PoolInv, HandlerLease, TypeOK, HandlerCell, ReaperLease
<1>8. ReaperLease'
  BY <1>1, <1>2, <1>3 DEF PoolInv, ReaperLease, TypeOK, HandlerLease, HandlerCell,
      ProcessCell, ReaperMatches
<1>9. ProcessCell'
  BY ZenonT(90), <1>1, <1>2, <1>3 DEF PoolInv, ProcessCell, TypeOK, InitOwns
<1>10. ReaperMatches'
  BY <1>1, <1>2, <1>3 DEF PoolInv, ReaperMatches, TypeOK, InitOwns
<1>11. Published'
  BY <1>1, <1>2, <1>3 DEF PoolInv, Published, TypeOK, InitOwns, PermitHeld, ProcessCell,
      HandlerCell, ReaperMatches
<1>12. InitOwns'
  BY <1>1, <1>2, <1>3 DEF PoolInv, InitOwns, TypeOK, PermitHeld, HandlerCell,
      ReaperMatches, Published
<1>13. StartAdmitted'
  BY <1>1, <1>2, <1>3 DEF PoolInv, StartAdmitted, TypeOK, HandlerCell, PoolKeys,
      PermitHeld, HandlerLease, ReaperLease, ProcessCell, Published
<1>14. StartAlone'
  BY <1>1, <1>2, <1>3 DEF PoolInv, StartAlone, TypeOK, HandlerCell, PermitHeld,
      InitOwns, StartingOwned, FailedIsRetired
<1>15. StartingOwned'
  BY <1>1, <1>2, <1>3 DEF PoolInv, StartingOwned, TypeOK, InitOwns, ReaperMatches
<1>16. FailedIsRetired'
  BY <1>1, <1>2, <1>3 DEF PoolInv, FailedIsRetired, TypeOK, InitOwns, HandlerCell,
      ReaperMatches, Published
<1>17. Pooled'
  BY <1>1, <1>2, <1>3 DEF PoolInv, Pooled, TypeOK, HandlerCell, PoolKeys, PermitHeld,
      ProcessCell, Published, ReaperMatches, InitOwns, StartAdmitted, HandlerAgent
<1>18. Quarantined'
  BY <1>1, <1>2, <1>3 DEF PoolInv, Quarantined, TypeOK, HandlerCell, ProcessCell,
      InitOwns
<1>19. HandlerAgent'
  BY <1>1, <1>2, <1>3 DEF PoolInv, HandlerAgent, TypeOK, InitOwns, HandlerCell,
      PermitHeld
<1>20. OneProcessPerGeneration'
  BY <1>1, <1>2, <1>3 DEF PoolInv, OneProcessPerGeneration, TypeOK, StartAlone
<1>21. OneProcessPerKey'
  BY <1>1, <1>2, <1>3 DEF PoolInv, OneProcessPerKey, TypeOK, HandlerCell, ProcessCell,
      InitOwns, StartAdmitted, StartAlone, StartingOwned, Pooled, Quarantined
<1>22. PoolKeys'
  BY DEF PoolInv, PoolKeys, Spawn
<1>23. QED
  BY <1>4, <1>5, <1>6, <1>7, <1>8, <1>9, <1>10, <1>11, <1>12, <1>13, <1>14,
      <1>15, <1>16, <1>17, <1>18, <1>19, <1>20, <1>21, <1>22 DEF PoolInv

\* A failed launch retires its own generation.
LEMMA SpawnFailsInv ==
    ASSUME PoolInv, NEW h \in Helpers, SpawnFails(h)
    PROVE  PoolInv'
<1>1. want[h] \in Keys /\ cell[h] \in Cells /\ cellKey[cell[h]] = want[h]
  BY DEF PoolInv, TypeOK, HandlerCell, HandlerAgent, ProcessCell, ReaperMatches,
      Published, InitOwns, SpawnFails
<1>2. TypeOK'
  BY <1>1 DEF PoolInv, TypeOK, SpawnFails
<1>3. HandlerCell'
  BY <1>1 DEF PoolInv, HandlerCell, TypeOK, SpawnFails
<1>4. PermitHeld'
  BY <1>1 DEF PoolInv, PermitHeld, TypeOK, HandlerCell, InitOwns, Published, SpawnFails
<1>5. HandlerLease'
  BY <1>1 DEF PoolInv, HandlerLease, TypeOK, HandlerCell, ReaperLease, SpawnFails
<1>6. ReaperLease'
  BY <1>1 DEF PoolInv, ReaperLease, TypeOK, HandlerLease, HandlerCell, SpawnFails
<1>7. InitOwns'
  BY <1>1 DEF PoolInv, InitOwns, TypeOK, PermitHeld, HandlerCell, ReaperMatches,
      Published, SpawnFails
<1>8. StartAdmitted'
  BY <1>1 DEF PoolInv, StartAdmitted, TypeOK, HandlerCell, PoolKeys, PermitHeld,
      HandlerLease, ReaperLease, ProcessCell, Published, SpawnFails
<1>9. StartAlone'
  BY <1>1 DEF PoolInv, StartAlone, TypeOK, HandlerCell, PermitHeld, InitOwns,
      StartingOwned, FailedIsRetired, SpawnFails
<1>10. StartingOwned'
  BY <1>1 DEF PoolInv, StartingOwned, TypeOK, InitOwns, ReaperMatches, SpawnFails
<1>11. FailedIsRetired'
  BY <1>1 DEF PoolInv, FailedIsRetired, TypeOK, InitOwns, HandlerCell, ReaperMatches,
      Published, SpawnFails
<1>12. Pooled'
  BY <1>1 DEF PoolInv, Pooled, TypeOK, HandlerCell, PoolKeys, PermitHeld, ProcessCell,
      Published, ReaperMatches, InitOwns, StartAdmitted, HandlerAgent, SpawnFails
<1>13. HandlerAgent'
  BY <1>1 DEF PoolInv, HandlerAgent, TypeOK, InitOwns, HandlerCell, PermitHeld,
      SpawnFails
<1>14.
      PoolKeys' /\ ProcessCell' /\ ReaperMatches' /\ Published' /\ Quarantined'
      /\ OneProcessPerGeneration' /\ OneProcessPerKey'
  BY DEF PoolInv, PoolKeys, ProcessCell, ReaperMatches, Published, Quarantined,
      OneProcessPerGeneration, OneProcessPerKey, SpawnFails
<1>15. QED
  BY <1>2, <1>3, <1>4, <1>5, <1>6, <1>7, <1>8, <1>9, <1>10, <1>11, <1>12,
      <1>13, <1>14 DEF PoolInv

\* Publication turns the starting process into the pooled agent.
LEMMA InitSucceedsInv ==
    ASSUME PoolInv, NEW h \in Helpers, InitSucceeds(h)
    PROVE  PoolInv'
<1>1. want[h] \in Keys /\ cell[h] \in Cells /\ agent[h] \in Insts
  BY DEF PoolInv, TypeOK, HandlerCell, HandlerAgent, ProcessCell, ReaperMatches,
      Published, InitOwns, InitSucceeds
<1>2. TypeOK'
  BY <1>1 DEF PoolInv, TypeOK, InitSucceeds
<1>3. HandlerCell'
  BY <1>1 DEF PoolInv, HandlerCell, TypeOK, InitSucceeds
<1>4. PermitHeld'
  BY <1>1 DEF PoolInv, PermitHeld, TypeOK, HandlerCell, InitOwns, Published,
      InitSucceeds
<1>5. HandlerLease'
  BY <1>1 DEF PoolInv, HandlerLease, TypeOK, HandlerCell, ReaperLease, InitSucceeds
<1>6. ReaperLease'
  BY <1>1 DEF PoolInv, ReaperLease, TypeOK, HandlerLease, HandlerCell, ProcessCell,
      ReaperMatches, InitSucceeds
<1>7. ProcessCell'
  BY <1>1 DEF PoolInv, ProcessCell, TypeOK, InitOwns, InitSucceeds
<1>8. ReaperMatches'
  BY <1>1 DEF PoolInv, ReaperMatches, TypeOK, InitOwns, InitSucceeds
<1>9. Published'
  BY <1>1 DEF PoolInv, Published, TypeOK, InitOwns, PermitHeld, ProcessCell,
      HandlerCell, ReaperMatches, InitSucceeds
<1>10. InitOwns'
  BY <1>1 DEF PoolInv, InitOwns, TypeOK, PermitHeld, HandlerCell, ReaperMatches,
      Published, InitSucceeds
<1>11. StartAdmitted'
  BY <1>1 DEF PoolInv, StartAdmitted, TypeOK, HandlerCell, PoolKeys, PermitHeld,
      HandlerLease, ReaperLease, ProcessCell, Published, InitSucceeds
<1>12. StartAlone'
  BY <1>1 DEF PoolInv, StartAlone, TypeOK, HandlerCell, PermitHeld, InitOwns,
      StartingOwned, FailedIsRetired, InitSucceeds
<1>13. StartingOwned'
  BY <1>1 DEF PoolInv, StartingOwned, TypeOK, InitOwns, ReaperMatches, InitSucceeds
<1>14. FailedIsRetired'
  BY <1>1 DEF PoolInv, FailedIsRetired, TypeOK, InitOwns, HandlerCell, ReaperMatches,
      Published, InitSucceeds
<1>15. Pooled'
  BY <1>1 DEF PoolInv, Pooled, TypeOK, HandlerCell, PoolKeys, PermitHeld, ProcessCell,
      Published, ReaperMatches, InitOwns, StartAdmitted, HandlerAgent, InitSucceeds
<1>16. Quarantined'
  BY <1>1 DEF PoolInv, Quarantined, TypeOK, HandlerCell, ProcessCell, InitOwns,
      InitSucceeds
<1>17. HandlerAgent'
  BY <1>1 DEF PoolInv, HandlerAgent, TypeOK, InitOwns, HandlerCell, PermitHeld,
      InitSucceeds
<1>18. OneProcessPerKey'
  BY <1>1 DEF PoolInv, OneProcessPerKey, TypeOK, InitOwns, InitSucceeds
<1>19. PoolKeys' /\ OneProcessPerGeneration'
  BY DEF PoolInv, PoolKeys, OneProcessPerGeneration, InitSucceeds
<1>20. QED
  BY <1>2, <1>3, <1>4, <1>5, <1>6, <1>7, <1>8, <1>9, <1>10, <1>11, <1>12,
      <1>13, <1>14, <1>15, <1>16, <1>17, <1>18, <1>19 DEF PoolInv

\* A failed initialize retires its generation before the permit is free.
LEMMA InitFailsInv ==
    ASSUME PoolInv, NEW h \in Helpers, InitFails(h)
    PROVE  PoolInv'
<1>1. want[h] \in Keys /\ cell[h] \in Cells /\ agent[h] \in Insts
  BY DEF PoolInv, TypeOK, HandlerCell, HandlerAgent, ProcessCell, ReaperMatches,
      Published, InitOwns, InitFails
<1>2. TypeOK'
  <2>1. Target(h) \in Admissions
    BY <1>1
  <2>2. proc' \in [Insts -> {"none", "starting", "running", "stopping", "dead",
                            "unconfirmed", "leaked"}]
    BY <1>1 DEF PoolInv, TypeOK, InitFails
  <2>3. quarantined' \in SUBSET Admissions /\ retired' \in SUBSET Cells
    BY <1>1, <2>1 DEF PoolInv, TypeOK, InitFails
  <2>4. QED
    BY <1>1, <2>1, <2>2, <2>3 DEF PoolInv, TypeOK, InitFails
<1>3. HandlerCell'
  BY <1>1 DEF PoolInv, HandlerCell, TypeOK, InitFails
<1>4. PermitHeld'
  BY <1>1 DEF PoolInv, PermitHeld, TypeOK, HandlerCell, InitOwns, Published, InitFails
<1>5. HandlerLease'
  BY <1>1 DEF PoolInv, HandlerLease, TypeOK, HandlerCell, ReaperLease, InitFails
<1>6. ReaperLease'
  BY <1>1 DEF PoolInv, ReaperLease, TypeOK, HandlerLease, HandlerCell, ProcessCell,
      ReaperMatches, InitFails
<1>7. ProcessCell'
  BY <1>1 DEF PoolInv, ProcessCell, TypeOK, InitOwns, InitFails
<1>8. ReaperMatches'
  BY <1>1 DEF PoolInv, ReaperMatches, TypeOK, InitOwns, InitFails
<1>9. InitOwns'
  <2>1. \A g \in Helpers : pc[g] = "init" /\ g # h => agent[g] # agent[h]
    BY DEF PoolInv, InitOwns, PermitHeld, InitFails
  <2>2. \A j \in Insts : j # agent[h] => proc'[j] = proc[j]
    BY DEF PoolInv, TypeOK, InitFails
  <2>3. QED
    BY ZenonT(90), <2>1, <2>2 DEF PoolInv, InitOwns, TypeOK, InitFails
<1>10. StartAdmitted'
  BY <1>1 DEF PoolInv, StartAdmitted, TypeOK, HandlerCell, PoolKeys, PermitHeld,
      HandlerLease, ReaperLease, ProcessCell, Published, InitFails
<1>11. StartAlone'
  BY <1>1 DEF PoolInv, StartAlone, TypeOK, HandlerCell, PermitHeld, InitOwns,
      StartingOwned, FailedIsRetired, InitFails
<1>12. StartingOwned'
  BY <1>1 DEF PoolInv, StartingOwned, TypeOK, InitOwns, ReaperMatches, InitFails
<1>13. FailedIsRetired'
  BY <1>1 DEF PoolInv, FailedIsRetired, TypeOK, InitOwns, HandlerCell, ReaperMatches,
      Published, InitFails
<1>14. Pooled'
  BY <1>1 DEF PoolInv, Pooled, TypeOK, HandlerCell, PoolKeys, PermitHeld, ProcessCell,
      Published, ReaperMatches, InitOwns, StartAdmitted, HandlerAgent, InitFails
<1>15. Quarantined'
  BY <1>1 DEF PoolInv, Quarantined, TypeOK, HandlerCell, ProcessCell, InitOwns,
      InitFails
<1>16. HandlerAgent'
  BY <1>1 DEF PoolInv, HandlerAgent, TypeOK, InitOwns, HandlerCell, PermitHeld,
      InitFails
<1>17. OneProcessPerKey'
  BY <1>1 DEF PoolInv, OneProcessPerKey, TypeOK, InitOwns, InitFails
<1>18. PoolKeys' /\ Published' /\ OneProcessPerGeneration'
  BY DEF PoolInv, PoolKeys, Published, OneProcessPerGeneration, InitFails
<1>19. QED
  BY <1>2, <1>3, <1>4, <1>5, <1>6, <1>7, <1>8, <1>9, <1>10, <1>11, <1>12,
      <1>13, <1>14, <1>15, <1>16, <1>17, <1>18 DEF PoolInv

\* The failed initializer removes only its own generation.
LEMMA UnwindInv ==
    ASSUME PoolInv, NEW h \in Helpers, Unwind(h)
    PROVE  PoolInv'
<1>1. want[h] \in Keys /\ cell[h] \in Cells /\ cellKey[cell[h]] = want[h]
  BY DEF PoolInv, TypeOK, HandlerCell, HandlerAgent, ProcessCell, ReaperMatches,
      Published, InitOwns, Unwind
<1>2. TypeOK'
  BY <1>1 DEF PoolInv, TypeOK, Unwind
<1>3. HandlerCell'
  BY <1>1 DEF PoolInv, HandlerCell, TypeOK, Unwind
<1>4. PoolKeys'
  BY <1>1 DEF PoolInv, PoolKeys, TypeOK, HandlerCell, Unwind
<1>5. PermitHeld'
  BY <1>1 DEF PoolInv, PermitHeld, TypeOK, HandlerCell, InitOwns, Published, Unwind
<1>6. HandlerLease'
  BY <1>1 DEF PoolInv, HandlerLease, TypeOK, HandlerCell, ReaperLease, Unwind
<1>7. ReaperLease'
  BY <1>1 DEF PoolInv, ReaperLease, TypeOK, HandlerLease, HandlerCell, ProcessCell,
      ReaperMatches, Unwind
<1>8. InitOwns'
  BY <1>1 DEF PoolInv, InitOwns, TypeOK, PermitHeld, HandlerCell, ReaperMatches,
      Published, Unwind
<1>9. StartAdmitted'
  BY <1>1 DEF PoolInv, StartAdmitted, TypeOK, HandlerCell, PoolKeys, PermitHeld,
      HandlerLease, ReaperLease, ProcessCell, Published, Unwind
<1>10. StartAlone'
  BY <1>1 DEF PoolInv, StartAlone, TypeOK, HandlerCell, PermitHeld, InitOwns,
      StartingOwned, FailedIsRetired, Unwind
<1>11. StartingOwned'
  BY <1>1 DEF PoolInv, StartingOwned, TypeOK, InitOwns, ReaperMatches, Unwind
<1>12. Pooled'
  BY <1>1 DEF PoolInv, Pooled, TypeOK, HandlerCell, PoolKeys, PermitHeld, ProcessCell,
      Published, ReaperMatches, InitOwns, StartAdmitted, HandlerAgent, Unwind
<1>13. HandlerAgent'
  BY <1>1 DEF PoolInv, HandlerAgent, TypeOK, InitOwns, HandlerCell, PermitHeld, Unwind
<1>14.
      ProcessCell' /\ ReaperMatches' /\ Published' /\ FailedIsRetired' /\ Quarantined'
      /\ OneProcessPerGeneration' /\ OneProcessPerKey'
  BY DEF PoolInv, ProcessCell, ReaperMatches, Published, FailedIsRetired, Quarantined,
      OneProcessPerGeneration, OneProcessPerKey, Unwind
<1>15. QED
  BY <1>2, <1>3, <1>4, <1>5, <1>6, <1>7, <1>8, <1>9, <1>10, <1>11, <1>12,
      <1>13, <1>14 DEF PoolInv

\* A verified agent is the pool's; a running agent is never shut down here.
LEMMA VerifyInv ==
    ASSUME PoolInv, NEW h \in Helpers, Verify(h)
    PROVE  PoolInv'
<1>1. want[h] \in Keys /\ cell[h] \in Cells /\ cellKey[cell[h]] = want[h]
  BY DEF PoolInv, HandlerCell, Verify
<1>2. published[cell[h]] \in Insts
  BY ZenonT(90), <1>1 DEF PoolInv, TypeOK, HandlerAgent, Verify
<1>3. TypeOK'
  BY <1>1, <1>2 DEF PoolInv, TypeOK, Verify
<1>4. HandlerCell'
  BY <1>1, <1>2 DEF PoolInv, HandlerCell, TypeOK, Verify
<1>5. PermitHeld'
  BY <1>1, <1>2 DEF PoolInv, PermitHeld, TypeOK, HandlerCell, InitOwns, Published,
      Verify
<1>6. HandlerLease'
  BY <1>1, <1>2 DEF PoolInv, HandlerLease, TypeOK, HandlerCell, ReaperLease, Verify
<1>7. ProcessCell'
  BY <1>1, <1>2 DEF PoolInv, ProcessCell, TypeOK, InitOwns, Verify
<1>8. ReaperMatches'
  BY <1>1, <1>2 DEF PoolInv, ReaperMatches, TypeOK, InitOwns, Verify
<1>9. InitOwns'
  <2>1. \A j \in Insts : proc[j] = "starting" => proc'[j] = "starting"
    BY <1>1, <1>2 DEF PoolInv, TypeOK, Verify
  <2>2. \A g \in Helpers : pc'[g] = "init" => pc[g] = "init" /\ agent'[g] = agent[g]
    BY DEF PoolInv, TypeOK, Verify
  <2>3. UNCHANGED <<instCell, cell>>
    BY DEF Verify
  <2>4. QED
    BY <2>1, <2>2, <2>3 DEF PoolInv, InitOwns
<1>10. StartAdmitted'
  BY <1>1, <1>2 DEF PoolInv, StartAdmitted, TypeOK, HandlerCell, PoolKeys, PermitHeld,
      HandlerLease, ReaperLease, ProcessCell, Published, Verify
<1>11. StartAlone'
  BY <1>1, <1>2 DEF PoolInv, StartAlone, TypeOK, HandlerCell, PermitHeld, InitOwns,
      StartingOwned, FailedIsRetired, Verify
<1>12. StartingOwned'
  BY <1>1, <1>2 DEF PoolInv, StartingOwned, TypeOK, InitOwns, ReaperMatches, Verify
<1>13. FailedIsRetired'
  BY <1>1, <1>2 DEF PoolInv, FailedIsRetired, TypeOK, InitOwns, HandlerCell,
      ReaperMatches, Published, Verify
<1>14. Pooled'
  BY <1>1, <1>2 DEF PoolInv, Pooled, TypeOK, HandlerCell, PoolKeys, PermitHeld,
      ProcessCell, Published, ReaperMatches, InitOwns, StartAdmitted, HandlerAgent,
      Verify
<1>15. Quarantined'
  BY <1>1, <1>2 DEF PoolInv, Quarantined, TypeOK, HandlerCell, ProcessCell, InitOwns,
      Verify
<1>16. HandlerAgent'
  BY <1>1, <1>2 DEF PoolInv, HandlerAgent, TypeOK, InitOwns, HandlerCell, PermitHeld,
      Verify
<1>17. OneProcessPerKey'
  BY <1>1, <1>2 DEF PoolInv, OneProcessPerKey, TypeOK, Verify
<1>18. PoolKeys' /\ ReaperLease' /\ Published' /\ OneProcessPerGeneration'
  BY DEF PoolInv, PoolKeys, ReaperLease, Published, OneProcessPerGeneration, Verify
<1>19. QED
  BY <1>3, <1>4, <1>5, <1>6, <1>7, <1>8, <1>9, <1>10, <1>11, <1>12, <1>13,
      <1>14, <1>15, <1>16, <1>17, <1>18 DEF PoolInv

\* Binding records the helper in the agent the pool publishes.
LEMMA BindInv ==
    ASSUME PoolInv, NEW h \in Helpers, Bind(h)
    PROVE  PoolInv'
<1>1. want[h] \in Keys /\ cell[h] \in Cells /\ agent[h] \in Insts
  BY DEF PoolInv, TypeOK, HandlerCell, HandlerAgent, ProcessCell, ReaperMatches,
      Published, InitOwns, Bind
<1>2. TypeOK'
  BY <1>1 DEF PoolInv, TypeOK, Bind
<1>3. HandlerCell'
  BY <1>1 DEF PoolInv, HandlerCell, TypeOK, Bind
<1>4. PermitHeld'
  BY <1>1 DEF PoolInv, PermitHeld, TypeOK, HandlerCell, InitOwns, Published, Bind
<1>5. HandlerLease'
  BY <1>1 DEF PoolInv, HandlerLease, TypeOK, HandlerCell, ReaperLease, Bind
<1>6. InitOwns'
  BY <1>1 DEF PoolInv, InitOwns, TypeOK, PermitHeld, HandlerCell, ReaperMatches,
      Published, Bind
<1>7. StartAdmitted'
  BY <1>1 DEF PoolInv, StartAdmitted, TypeOK, HandlerCell, PoolKeys, PermitHeld,
      HandlerLease, ReaperLease, ProcessCell, Published, Bind
<1>8. StartAlone'
  BY <1>1 DEF PoolInv, StartAlone, TypeOK, HandlerCell, PermitHeld, InitOwns,
      StartingOwned, FailedIsRetired, Bind
<1>9. StartingOwned'
  BY <1>1 DEF PoolInv, StartingOwned, TypeOK, InitOwns, ReaperMatches, Bind
<1>10. HandlerAgent'
  BY <1>1 DEF PoolInv, HandlerAgent, TypeOK, InitOwns, HandlerCell, PermitHeld, Bind
<1>11.
      PoolKeys' /\ ReaperLease' /\ ProcessCell' /\ ReaperMatches' /\ Published'
      /\ FailedIsRetired' /\ Pooled' /\ Quarantined' /\ OneProcessPerGeneration'
      /\ OneProcessPerKey'
  BY DEF PoolInv, PoolKeys, ReaperLease, ProcessCell, ReaperMatches, Published,
      FailedIsRetired, Pooled, Quarantined, OneProcessPerGeneration, OneProcessPerKey,
      Bind
<1>12. QED
  BY <1>2, <1>3, <1>4, <1>5, <1>6, <1>7, <1>8, <1>9, <1>10, <1>11 DEF PoolInv

\* A dropped handler retires what it was initializing.
LEMMA CancelInv ==
    ASSUME PoolInv, NEW h \in Helpers, Cancel(h)
    PROVE  PoolInv'
<1>1. pc[h] \in Initializing => want[h] \in Keys /\ cell[h] \in Cells
  BY DEF PoolInv, HandlerCell
<1>2. pc[h] = "init" => agent[h] \in Insts
  BY DEF PoolInv, InitOwns
<1>3. TypeOK'
  <2>0. retired' \in SUBSET Cells
    <3>1. retired' = retired \/ (cell[h] \in Cells /\ retired' = retired \cup {cell[h]})
      BY <1>1 DEF Cancel
    <3>2. QED
      BY <3>1 DEF PoolInv, TypeOK
  <2>1. permit' \in [Cells -> Helpers \cup {None}]
    BY <1>1 DEF PoolInv, TypeOK, Cancel
  <2>2. lease' \in [Admissions -> Helpers \cup Insts \cup {None}]
    BY <1>1 DEF PoolInv, TypeOK, Cancel
  <2>3. proc' \in [Insts -> {"none", "starting", "running", "stopping", "dead",
                            "unconfirmed", "leaked"}]
    BY <1>2 DEF PoolInv, TypeOK, Cancel
  <2>4. QED
    BY <2>0, <2>1, <2>2, <2>3 DEF PoolInv, TypeOK, Cancel
<1>4. HandlerCell'
  BY <1>1, <1>2 DEF PoolInv, HandlerCell, TypeOK, Cancel
<1>5. PermitHeld'
  BY <1>1, <1>2 DEF PoolInv, PermitHeld, TypeOK, HandlerCell, InitOwns, Published,
      Cancel
<1>6. HandlerLease'
  BY <1>1, <1>2 DEF PoolInv, HandlerLease, TypeOK, HandlerCell, ReaperLease, Cancel
<1>7. ReaperLease'
  BY <1>1, <1>2 DEF PoolInv, ReaperLease, TypeOK, HandlerLease, HandlerCell,
      ProcessCell, ReaperMatches, Cancel
<1>8. ProcessCell'
  BY <1>1, <1>2 DEF PoolInv, ProcessCell, TypeOK, InitOwns, Cancel
<1>9. ReaperMatches'
  BY <1>1, <1>2 DEF PoolInv, ReaperMatches, TypeOK, InitOwns, Cancel
<1>10. InitOwns'
  BY <1>1, <1>2 DEF PoolInv, InitOwns, TypeOK, PermitHeld, HandlerCell, ReaperMatches,
      Published, Cancel
<1>11. StartAdmitted'
  BY <1>1, <1>2 DEF PoolInv, StartAdmitted, TypeOK, HandlerCell, PoolKeys, PermitHeld,
      HandlerLease, ReaperLease, ProcessCell, Published, Cancel
<1>12. StartAlone'
  BY <1>1, <1>2 DEF PoolInv, StartAlone, TypeOK, HandlerCell, PermitHeld, InitOwns,
      StartingOwned, FailedIsRetired, Cancel
<1>13. StartingOwned'
  BY <1>1, <1>2 DEF PoolInv, StartingOwned, TypeOK, InitOwns, ReaperMatches, Cancel
<1>14. FailedIsRetired'
  BY <1>1, <1>2 DEF PoolInv, FailedIsRetired, TypeOK, InitOwns, HandlerCell,
      ReaperMatches, Published, Cancel
<1>15. Pooled'
  BY <1>1, <1>2 DEF PoolInv, Pooled, TypeOK, PermitHeld, Published, ReaperMatches,
      Cancel
<1>16. Quarantined'
  BY <1>1, <1>2 DEF PoolInv, Quarantined, TypeOK, HandlerCell, ProcessCell, InitOwns,
      Cancel
<1>17. HandlerAgent'
  BY <1>1, <1>2 DEF PoolInv, HandlerAgent, TypeOK, InitOwns, HandlerCell, PermitHeld,
      Cancel
<1>18. OneProcessPerKey'
  BY <1>1, <1>2 DEF PoolInv, OneProcessPerKey, TypeOK, Cancel
<1>19. PoolKeys' /\ Published' /\ OneProcessPerGeneration'
  BY DEF PoolInv, PoolKeys, Published, OneProcessPerGeneration, Cancel
<1>20. QED
  BY <1>3, <1>4, <1>5, <1>6, <1>7, <1>8, <1>9, <1>10, <1>11, <1>12, <1>13,
      <1>14, <1>15, <1>16, <1>17, <1>18, <1>19 DEF PoolInv

\* A departing helper leaves bound_helpers.
LEMMA DisconnectInv ==
    ASSUME PoolInv, NEW h \in Helpers, Disconnect(h)
    PROVE  PoolInv'
<1>1. want[h] \in Keys /\ cell[h] \in Cells /\ agent[h] \in Insts
  BY DEF PoolInv, TypeOK, HandlerCell, HandlerAgent, ProcessCell, ReaperMatches,
      Published, InitOwns, Disconnect
<1>2. TypeOK'
  BY <1>1 DEF PoolInv, TypeOK, Disconnect
<1>3. HandlerCell'
  BY <1>1 DEF PoolInv, HandlerCell, TypeOK, Disconnect
<1>4. PermitHeld'
  BY <1>1 DEF PoolInv, PermitHeld, TypeOK, HandlerCell, InitOwns, Published, Disconnect
<1>5. HandlerLease'
  BY <1>1 DEF PoolInv, HandlerLease, TypeOK, HandlerCell, ReaperLease, Disconnect
<1>6. InitOwns'
  BY <1>1 DEF PoolInv, InitOwns, TypeOK, PermitHeld, HandlerCell, ReaperMatches,
      Published, Disconnect
<1>7. StartAdmitted'
  BY <1>1 DEF PoolInv, StartAdmitted, TypeOK, HandlerCell, PoolKeys, PermitHeld,
      HandlerLease, ReaperLease, ProcessCell, Published, Disconnect
<1>8. StartAlone'
  BY <1>1 DEF PoolInv, StartAlone, TypeOK, HandlerCell, PermitHeld, InitOwns,
      StartingOwned, FailedIsRetired, Disconnect
<1>9. StartingOwned'
  BY <1>1 DEF PoolInv, StartingOwned, TypeOK, InitOwns, ReaperMatches, Disconnect
<1>10. HandlerAgent'
  BY <1>1 DEF PoolInv, HandlerAgent, TypeOK, InitOwns, HandlerCell, PermitHeld,
      Disconnect
<1>11.
      PoolKeys' /\ ReaperLease' /\ ProcessCell' /\ ReaperMatches' /\ Published'
      /\ FailedIsRetired' /\ Pooled' /\ Quarantined' /\ OneProcessPerGeneration'
      /\ OneProcessPerKey'
  BY DEF PoolInv, PoolKeys, ReaperLease, ProcessCell, ReaperMatches, Published,
      FailedIsRetired, Pooled, Quarantined, OneProcessPerGeneration, OneProcessPerKey,
      Disconnect
<1>12. QED
  BY <1>2, <1>3, <1>4, <1>5, <1>6, <1>7, <1>8, <1>9, <1>10, <1>11 DEF PoolInv

\* The last helper of a model-scoped agent withdraws and stops it.
LEMMA RetireUnboundInv ==
    ASSUME PoolInv, NEW h \in Helpers, RetireUnbound(h)
    PROVE  PoolInv'
<1>1. want[h] \in Keys /\ cell[h] \in Cells /\ agent[h] \in Insts
  BY DEF PoolInv, TypeOK, HandlerCell, HandlerAgent, ProcessCell, ReaperMatches,
      Published, InitOwns, RetireUnbound
<1>2. TypeOK'
  BY <1>1 DEF PoolInv, TypeOK, RetireUnbound
<1>3. HandlerCell'
  BY <1>1 DEF PoolInv, HandlerCell, TypeOK, RetireUnbound
<1>4. PoolKeys'
  BY <1>1 DEF PoolInv, PoolKeys, TypeOK, HandlerCell, RetireUnbound
<1>5. PermitHeld'
  BY <1>1 DEF PoolInv, PermitHeld, TypeOK, HandlerCell, InitOwns, Published,
      RetireUnbound
<1>6. HandlerLease'
  BY <1>1 DEF PoolInv, HandlerLease, TypeOK, HandlerCell, ReaperLease, RetireUnbound
<1>7. ProcessCell'
  BY <1>1 DEF PoolInv, ProcessCell, TypeOK, InitOwns, RetireUnbound
<1>8. ReaperMatches'
  BY <1>1 DEF PoolInv, ReaperMatches, TypeOK, InitOwns, RetireUnbound
<1>9. InitOwns'
  <2>1. \A j \in Insts : proc[j] = "starting" => proc'[j] = "starting"
    BY <1>1 DEF PoolInv, TypeOK, RetireUnbound
  <2>2. QED
    BY ZenonT(90), <2>1 DEF PoolInv, InitOwns, TypeOK, RetireUnbound
<1>10. StartAdmitted'
  BY <1>1 DEF PoolInv, StartAdmitted, TypeOK, HandlerCell, PoolKeys, PermitHeld,
      HandlerLease, ReaperLease, ProcessCell, Published, RetireUnbound
<1>11. StartAlone'
  BY <1>1 DEF PoolInv, StartAlone, TypeOK, HandlerCell, PermitHeld, InitOwns,
      StartingOwned, FailedIsRetired, RetireUnbound
<1>12. StartingOwned'
  BY <1>1 DEF PoolInv, StartingOwned, TypeOK, InitOwns, ReaperMatches, RetireUnbound
<1>13. FailedIsRetired'
  BY <1>1 DEF PoolInv, FailedIsRetired, TypeOK, InitOwns, HandlerCell, ReaperMatches,
      Published, RetireUnbound
<1>14. Pooled'
  BY <1>1 DEF PoolInv, Pooled, TypeOK, HandlerCell, PoolKeys, PermitHeld, ProcessCell,
      Published, ReaperMatches, InitOwns, StartAdmitted, HandlerAgent, RetireUnbound
<1>15. Quarantined'
  BY <1>1 DEF PoolInv, Quarantined, TypeOK, HandlerCell, ProcessCell, InitOwns,
      RetireUnbound
<1>16. HandlerAgent'
  BY <1>1 DEF PoolInv, HandlerAgent, TypeOK, InitOwns, HandlerCell, PermitHeld,
      RetireUnbound
<1>17. OneProcessPerKey'
  BY <1>1 DEF PoolInv, OneProcessPerKey, TypeOK, RetireUnbound
<1>18. ReaperLease' /\ Published' /\ OneProcessPerGeneration'
  BY DEF PoolInv, ReaperLease, Published, OneProcessPerGeneration, RetireUnbound
<1>19. QED
  BY <1>2, <1>3, <1>4, <1>5, <1>6, <1>7, <1>8, <1>9, <1>10, <1>11, <1>12,
      <1>13, <1>14, <1>15, <1>16, <1>17, <1>18 DEF PoolInv

\* A warm process that stops is still the pool's entry.
LEMMA ExitInv ==
    ASSUME PoolInv, NEW i \in Insts, Exit(i)
    PROVE  PoolInv'
<1>1. instCell[i] \in Cells /\ KeyOf(i) \in Keys /\ TargetOf(i) \in Admissions
  BY DEF PoolInv, TypeOK, ProcessCell, ReaperMatches, Exit
<1>2. TypeOK'
  BY <1>1 DEF PoolInv, TypeOK, Exit
<1>3. ProcessCell'
  BY <1>1 DEF PoolInv, ProcessCell, TypeOK, InitOwns, Exit
<1>4. ReaperMatches'
  BY <1>1 DEF PoolInv, ReaperMatches, TypeOK, InitOwns, Exit
<1>5. InitOwns'
  BY <1>1 DEF PoolInv, InitOwns, TypeOK, PermitHeld, HandlerCell, ReaperMatches,
      Published, Exit
<1>6. StartingOwned'
  BY <1>1 DEF PoolInv, StartingOwned, TypeOK, InitOwns, ReaperMatches, Exit
<1>7. FailedIsRetired'
  BY <1>1 DEF PoolInv, FailedIsRetired, TypeOK, InitOwns, HandlerCell, ReaperMatches,
      Published, Exit
<1>8. Pooled'
  BY <1>1 DEF PoolInv, Pooled, TypeOK, Exit
<1>9. Quarantined'
  BY <1>1 DEF PoolInv, Quarantined, TypeOK, HandlerCell, ProcessCell, InitOwns, Exit
<1>10. OneProcessPerKey'
  BY <1>1 DEF PoolInv, OneProcessPerKey, TypeOK, HandlerCell, ProcessCell, InitOwns,
      StartAdmitted, StartAlone, StartingOwned, Pooled, Quarantined, Exit
<1>11.
      HandlerCell' /\ PoolKeys' /\ PermitHeld' /\ HandlerLease' /\ ReaperLease'
      /\ Published' /\ StartAdmitted' /\ StartAlone' /\ HandlerAgent'
      /\ OneProcessPerGeneration'
  BY DEF PoolInv, HandlerCell, PoolKeys, PermitHeld, HandlerLease, ReaperLease,
      Published, StartAdmitted, StartAlone, HandlerAgent, OneProcessPerGeneration, Exit
<1>12. QED
  BY <1>2, <1>3, <1>4, <1>5, <1>6, <1>7, <1>8, <1>9, <1>10, <1>11 DEF PoolInv

\* The reaper leases the target or goes on without the lease.
LEMMA ReapLeaseInv ==
    ASSUME PoolInv, NEW i \in Insts, ReapLease(i)
    PROVE  PoolInv'
<1>1. instCell[i] \in Cells /\ KeyOf(i) \in Keys /\ TargetOf(i) \in Admissions
  BY DEF PoolInv, TypeOK, ProcessCell, ReaperMatches, ReapLease
<1>2. TypeOK'
  BY <1>1 DEF PoolInv, TypeOK, ReapLease
<1>3. HandlerLease'
  BY <1>1 DEF PoolInv, HandlerLease, TypeOK, HandlerCell, ReaperLease, ReapLease
<1>4. ReaperLease'
  BY <1>1 DEF PoolInv, ReaperLease, TypeOK, HandlerLease, HandlerCell, ProcessCell,
      ReaperMatches, ReapLease
<1>5. ReaperMatches'
  BY <1>1 DEF PoolInv, ReaperMatches, TypeOK, InitOwns, ReapLease
<1>6. Published'
  BY <1>1 DEF PoolInv, Published, TypeOK, ReapLease
<1>7.
      HandlerCell' /\ PoolKeys' /\ PermitHeld' /\ ProcessCell' /\ InitOwns'
      /\ StartAdmitted' /\ StartAlone' /\ StartingOwned' /\ FailedIsRetired' /\ Pooled'
      /\ Quarantined' /\ HandlerAgent' /\ OneProcessPerGeneration' /\ OneProcessPerKey'
  BY DEF PoolInv, HandlerCell, PoolKeys, PermitHeld, ProcessCell, InitOwns,
      StartAdmitted, StartAlone, StartingOwned, FailedIsRetired, Pooled, Quarantined,
      HandlerAgent, OneProcessPerGeneration, OneProcessPerKey, ReapLease
<1>8. QED
  BY <1>2, <1>3, <1>4, <1>5, <1>6, <1>7 DEF PoolInv

\* Cleanup ends as dead, quarantined or (without a lease) leaked.
LEMMA ReapTerminateInv ==
    ASSUME PoolInv, NEW i \in Insts, ReapTerminate(i)
    PROVE  PoolInv'
<1>1. instCell[i] \in Cells /\ KeyOf(i) \in Keys /\ TargetOf(i) \in Admissions
  BY DEF PoolInv, TypeOK, ProcessCell, ReaperMatches, ReapTerminate
<1>2. TypeOK'
  BY <1>1 DEF PoolInv, TypeOK, ReapTerminate
<1>3. HandlerLease'
  BY <1>1 DEF PoolInv, HandlerLease, TypeOK, HandlerCell, ReaperLease, ReapTerminate
<1>4. ReaperLease'
  BY <1>1 DEF PoolInv, ReaperLease, TypeOK, HandlerLease, HandlerCell, ProcessCell,
      ReaperMatches, ReapTerminate
<1>5. ProcessCell'
  BY <1>1 DEF PoolInv, ProcessCell, TypeOK, ReaperMatches, ReapTerminate
<1>6. ReaperMatches'
  BY <1>1 DEF PoolInv, ReaperMatches, TypeOK, InitOwns, ReapTerminate
<1>7. Published'
  BY <1>1 DEF PoolInv, Published, TypeOK, InitOwns, PermitHeld, ProcessCell,
      HandlerCell, ReaperMatches, ReapTerminate
<1>8. InitOwns'
  BY <1>1 DEF PoolInv, InitOwns, TypeOK, ReaperMatches, ReapTerminate
<1>9. StartAdmitted'
  BY <1>1 DEF PoolInv, StartAdmitted, TypeOK, HandlerCell, PoolKeys, PermitHeld,
      HandlerLease, ReaperLease, ProcessCell, Published, ReapTerminate
<1>10. StartingOwned'
  BY <1>1 DEF PoolInv, StartingOwned, TypeOK, InitOwns, ReaperMatches, ReapTerminate
<1>11. FailedIsRetired'
  BY <1>1 DEF PoolInv, FailedIsRetired, TypeOK, InitOwns, HandlerCell, ReaperMatches,
      Published, ReapTerminate
<1>12. Pooled'
  BY <1>1 DEF PoolInv, Pooled, TypeOK, HandlerCell, PoolKeys, PermitHeld, ProcessCell,
      Published, ReaperMatches, InitOwns, StartAdmitted, HandlerAgent, ReapTerminate
<1>13. Quarantined'
  BY <1>1 DEF PoolInv, Quarantined, TypeOK, HandlerCell, ProcessCell, InitOwns,
      ReapTerminate
<1>14. OneProcessPerKey'
  BY <1>1 DEF PoolInv, OneProcessPerKey, TypeOK, ReaperMatches, ReapTerminate
<1>15.
      HandlerCell' /\ PoolKeys' /\ PermitHeld' /\ StartAlone' /\ HandlerAgent'
      /\ OneProcessPerGeneration'
  BY DEF PoolInv, HandlerCell, PoolKeys, PermitHeld, StartAlone, HandlerAgent,
      OneProcessPerGeneration, ReapTerminate
<1>16. QED
  BY <1>2, <1>3, <1>4, <1>5, <1>6, <1>7, <1>8, <1>9, <1>10, <1>11, <1>12,
      <1>13, <1>14, <1>15 DEF PoolInv

\* The reaper retires only the generation its process was published in.
LEMMA ReapRetireInv ==
    ASSUME PoolInv, NEW i \in Insts, ReapRetire(i)
    PROVE  PoolInv'
<1>1. instCell[i] \in Cells /\ KeyOf(i) \in Keys /\ TargetOf(i) \in Admissions
  BY DEF PoolInv, TypeOK, ProcessCell, ReaperMatches, ReapRetire
<1>2. TypeOK'
  BY <1>1 DEF PoolInv, TypeOK, ReapRetire
<1>3. ReaperLease'
  BY <1>1 DEF PoolInv, ReaperLease, TypeOK, HandlerLease, ProcessCell, ReapRetire
<1>4. ReaperMatches'
  BY <1>1 DEF PoolInv, ReaperMatches, TypeOK, InitOwns, ReapRetire
<1>5. Published'
  BY <1>1 DEF PoolInv, Published, TypeOK, InitOwns, PermitHeld, ProcessCell,
      HandlerCell, ReaperMatches, ReapRetire
<1>6. StartAdmitted'
  BY <1>1 DEF PoolInv, StartAdmitted, TypeOK, HandlerCell, PoolKeys, PermitHeld,
      HandlerLease, ReaperLease, ProcessCell, Published, ReapRetire
<1>7. FailedIsRetired'
  BY <1>1 DEF PoolInv, FailedIsRetired, TypeOK, InitOwns, HandlerCell, ReaperMatches,
      Published, ReapRetire
<1>8. Pooled'
  BY <1>1 DEF PoolInv, Pooled, TypeOK, HandlerCell, PoolKeys, PermitHeld, ProcessCell,
      Published, ReaperMatches, InitOwns, StartAdmitted, HandlerAgent, ReapRetire
<1>9.
      HandlerCell' /\ PoolKeys' /\ PermitHeld' /\ HandlerLease' /\ ProcessCell'
      /\ InitOwns' /\ StartAlone' /\ StartingOwned' /\ Quarantined' /\ HandlerAgent'
      /\ OneProcessPerGeneration' /\ OneProcessPerKey'
  BY DEF PoolInv, HandlerCell, PoolKeys, PermitHeld, HandlerLease, ProcessCell,
      InitOwns, StartAlone, StartingOwned, Quarantined, HandlerAgent,
      OneProcessPerGeneration, OneProcessPerKey, ReapRetire
<1>10. QED
  BY <1>2, <1>3, <1>4, <1>5, <1>6, <1>7, <1>8, <1>9 DEF PoolInv

\* The reaper removes only its own generation.
LEMMA ReapRemoveInv ==
    ASSUME PoolInv, NEW i \in Insts, ReapRemove(i)
    PROVE  PoolInv'
<1>1. instCell[i] # None
  BY DEF PoolInv, ProcessCell, ReaperMatches, ReapRemove
<1>2. instCell[i] \in Cells /\ KeyOf(i) \in Keys
  BY <1>1 DEF PoolInv, TypeOK, ProcessCell
<1>3. TypeOK'
  BY <1>1, <1>2 DEF PoolInv, TypeOK, ReapRemove
<1>4. PoolKeys'
  BY <1>1, <1>2 DEF PoolInv, PoolKeys, TypeOK, HandlerCell, ReapRemove
<1>5. ReaperLease'
  BY <1>1, <1>2 DEF PoolInv, ReaperLease, TypeOK, HandlerLease, ProcessCell, ReapRemove
<1>6. ReaperMatches'
  BY <1>1, <1>2 DEF PoolInv, ReaperMatches, TypeOK, InitOwns, ReapRemove
<1>7. Published'
  BY <1>1, <1>2 DEF PoolInv, Published, TypeOK, InitOwns, PermitHeld, ProcessCell,
      HandlerCell, ReaperMatches, ReapRemove
<1>8. StartAdmitted'
  BY <1>1, <1>2 DEF PoolInv, StartAdmitted, TypeOK, HandlerCell, PoolKeys, PermitHeld,
      HandlerLease, ReaperLease, ProcessCell, Published, ReapRemove
<1>9. Pooled'
  BY <1>1, <1>2 DEF PoolInv, Pooled, TypeOK, HandlerCell, PoolKeys, PermitHeld,
      ProcessCell, Published, ReaperMatches, InitOwns, StartAdmitted, HandlerAgent,
      ReapRemove
<1>10.
      HandlerCell' /\ PermitHeld' /\ HandlerLease' /\ ProcessCell' /\ InitOwns'
      /\ StartAlone' /\ StartingOwned' /\ FailedIsRetired' /\ Quarantined'
      /\ HandlerAgent' /\ OneProcessPerGeneration' /\ OneProcessPerKey'
  BY DEF PoolInv, HandlerCell, PermitHeld, HandlerLease, ProcessCell, InitOwns,
      StartAlone, StartingOwned, FailedIsRetired, Quarantined, HandlerAgent,
      OneProcessPerGeneration, OneProcessPerKey, ReapRemove
<1>11. QED
  BY <1>3, <1>4, <1>5, <1>6, <1>7, <1>8, <1>9, <1>10 DEF PoolInv

-----------------------------------------------------------------------------
\* The empty pool satisfies the invariant.
LEMMA InitPoolInv == Init => PoolInv
  BY DEF Init, PoolInv, TypeOK, HandlerCell, PoolKeys, PermitHeld, HandlerLease, ReaperLease,
         ProcessCell, ReaperMatches, Published, InitOwns, StartAdmitted, StartAlone,
         StartingOwned, FailedIsRetired, Pooled, Quarantined, HandlerAgent,
         OneProcessPerGeneration, OneProcessPerKey

\* Stuttering preserves the invariant.
LEMMA StutterInv == PoolInv /\ UNCHANGED vars => PoolInv'
  BY DEF vars, PoolInv, TypeOK, HandlerCell, PoolKeys, PermitHeld, HandlerLease, ReaperLease,
         ProcessCell, ReaperMatches, Published, InitOwns, StartAdmitted, StartAlone,
         StartingOwned, FailedIsRetired, Pooled, Quarantined, HandlerAgent,
         OneProcessPerGeneration, OneProcessPerKey

\* Every step of a helper's handler, of its connection or of a reaper
\* preserves the invariant.
LEMMA NextInv == PoolInv /\ [Next]_vars => PoolInv'
<1>1. SUFFICES ASSUME PoolInv, [Next]_vars PROVE PoolInv'
  OBVIOUS
<1>2. ASSUME NEW h \in Helpers, NEW k \in Keys, Initialize(h, k) \/ InitializeRetry(h, k)
      PROVE  PoolInv'
  BY <1>1, <1>2, InitializeInv, InitializeRetryInv
<1>3. ASSUME NEW h \in Helpers, HelperStep(h) PROVE PoolInv'
  BY <1>1, <1>3, EnterInv, OnceInv, AdmitInv, AdmitTimeoutInv, BeginInv, SpawnInv,
     SpawnFailsInv, InitSucceedsInv, InitFailsInv, UnwindInv, VerifyInv, BindInv,
     RetireUnboundInv DEF HelperStep
<1>4. ASSUME NEW h \in Helpers, Cancel(h) \/ Disconnect(h) PROVE PoolInv'
  BY <1>1, <1>4, CancelInv, DisconnectInv
<1>5. ASSUME NEW i \in Insts, Exit(i) \/ ReaperStep(i) PROVE PoolInv'
  BY <1>1, <1>5, ExitInv, ReapLeaseInv, ReapTerminateInv, ReapRetireInv, ReapRemoveInv
  DEF ReaperStep
<1>6. QED
  BY <1>1, <1>2, <1>3, <1>4, <1>5, StutterInv DEF Next

\* PoolInv holds throughout.
THEOREM PoolInvariant == Spec => []PoolInv
<1>1. Init => PoolInv
  BY InitPoolInv
<1>2. PoolInv /\ [Next]_vars => PoolInv'
  BY NextInv
<1>3. QED
  BY <1>1, <1>2, PTL DEF Spec

\* The variables keep their types.
THEOREM TypeCorrect == Spec => []TypeOK
<1>1. PoolInv => TypeOK
  BY DEF PoolInv
<1>2. QED
  BY <1>1, PoolInvariant, PTL

\* No agent CLI runs outside the pool, whatever order initializers, waiters,
\* cancellations, exits and reapers run in.
THEOREM RunningIsPooledAlways == Spec => []RunningIsPooled
<1>1. PoolInv => RunningIsPooled
  BY DEF PoolInv, RunningIsPooled, Pooled, Published, ReaperMatches
<1>2. QED
  BY <1>1, PoolInvariant, PTL

\* A replacement process of a key starts only once the previous one is
\* confirmed gone (warm agents) or told to stop (model-scoped agents).
THEOREM OneProcessPerKeyAlways == Spec => []OneProcessPerKey
<1>1. PoolInv => OneProcessPerKey
  BY DEF PoolInv
<1>2. QED
  BY <1>1, PoolInvariant, PTL

\* A pool generation never starts a second process.
THEOREM OneProcessPerGenerationAlways == Spec => []OneProcessPerGeneration
<1>1. PoolInv => OneProcessPerGeneration
  BY DEF PoolInv
<1>2. QED
  BY <1>1, PoolInvariant, PTL

\* The agent of a connected helper keeps its pool entry while it runs: a
\* departing helper, a failed initializer or the reaper of an older process
\* never withdraws it.
THEOREM InUseAgentKeptAlways == Spec => InUseAgentKept
<1>1. ASSUME PoolInv, [Next]_vars PROVE KeepsInUse
  <2>1. SUFFICES ASSUME NEW g \in Helpers, pc[g] = "ready", proc[agent[g]] = "running"
                 PROVE  pool'[want[g]] = pool[want[g]]
    BY DEF KeepsInUse
  <2>2. /\ agent[g] \in Insts /\ g \in bound[agent[g]] /\ want[g] \in Keys
        /\ cell[g] \in Cells /\ published[cell[g]] = agent[g] /\ cellKey[cell[g]] = want[g]
    BY <1>1, <2>1 DEF PoolInv, HandlerAgent, HandlerCell
  <2>3. instCell[agent[g]] = cell[g]
    BY ZenonT(90), <1>1, <2>2 DEF PoolInv, Published
  <2>4. pool[want[g]] = cell[g] /\ cell[g] \notin retired
    BY <1>1, <2>1, <2>2, <2>3 DEF PoolInv, Pooled
  <2>5. ASSUME NEW h \in Helpers, Enter(h) PROVE pool'[want[g]] = pool[want[g]]
    BY <1>1, <2>2, <2>4, <2>5 DEF PoolInv, TypeOK, HandlerCell, Enter
  <2>6. ASSUME NEW h \in Helpers, Unwind(h) PROVE pool'[want[g]] = pool[want[g]]
    <3>1. cell[h] # cell[g]
      BY <1>1, <2>2, <2>6 DEF PoolInv, PermitHeld, Unwind
    <3>2. QED
      BY <1>1, <2>2, <2>4, <2>6, <3>1 DEF PoolInv, TypeOK, Unwind
  <2>7. ASSUME NEW h \in Helpers, RetireUnbound(h) PROVE pool'[want[g]] = pool[want[g]]
    BY <1>1, <2>2, <2>4, <2>7 DEF PoolInv, TypeOK, RetireUnbound
  <2>8. ASSUME NEW i \in Insts, ReapRemove(i) PROVE pool'[want[g]] = pool[want[g]]
    <3>1. instCell[i] # cell[g]
      BY <1>1, <2>1, <2>2, <2>8 DEF PoolInv, Published, ReaperMatches, ReapRemove
    <3>2. QED
      BY <1>1, <2>2, <2>4, <2>8, <3>1 DEF PoolInv, TypeOK, ReapRemove
  <2>9. CASE UNCHANGED pool
    BY <2>9
  <2>10. ASSUME NEW h \in Helpers,
                \/ \E k \in Keys : Initialize(h, k) \/ InitializeRetry(h, k)
                \/ Once(h) \/ Admit(h) \/ AdmitTimeout(h) \/ Begin(h) \/ Spawn(h)
                \/ SpawnFails(h) \/ InitSucceeds(h) \/ InitFails(h) \/ Verify(h) \/ Bind(h)
                \/ Cancel(h) \/ Disconnect(h)
         PROVE  UNCHANGED pool
    BY <2>10 DEF Initialize, InitializeRetry, Once, Admit, AdmitTimeout, Begin, Spawn, SpawnFails,
              InitSucceeds, InitFails, Verify, Bind, Cancel, Disconnect
  <2>11. ASSUME NEW i \in Insts, Exit(i) \/ ReapLease(i) \/ ReapTerminate(i) \/ ReapRetire(i)
         PROVE  UNCHANGED pool
    BY <2>11 DEF Exit, ReapLease, ReapTerminate, ReapRetire
  <2>12. CASE UNCHANGED vars
    BY <2>12 DEF vars
  <2>13. QED
    BY <1>1, <2>5, <2>6, <2>7, <2>8, <2>9, <2>10, <2>11, <2>12 DEF Next, HelperStep, ReaperStep
<1>2. QED
  BY <1>1, PoolInvariant, PTL DEF Spec, InUseAgentKept


=============================================================================
