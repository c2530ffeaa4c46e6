------------------------------ MODULE AgentPool ------------------------------
(***************************************************************************)
(* The agent-CLI pool of wta-master (tools/wta/src/master/mod.rs) together *)
(* with startup admission (tools/wta/src/agent_lifecycle.rs).              *)
(*                                                                         *)
(* The pool maps an agent command key to a generation: a OnceCell that     *)
(* holds at most one initialized agent CLI.  A helper's `initialize`       *)
(* request loops over the current generation until it owns an agent the    *)
(* pool still publishes; the helper that wins the OnceCell's permit starts *)
(* the process under a per-target admission lease.  Each initialized       *)
(* process has a reaper task that cleans it up and retires its generation. *)
(* A step below is what the code does between two points at which another  *)
(* task of the (single-threaded) runtime may run.                          *)
(***************************************************************************)
EXTENDS Naturals

CONSTANTS
    Helpers,       \* helper connections
    Keys,          \* agent command keys, the index of the pool
    ModelKeys,     \* the keys with the "model:" lifecycle prefix
    Admissions,    \* startup admission targets
    AdmissionOf,   \* the admission target of a key
    Cells,         \* pool generations, numbered in order of creation
    Insts,         \* agent CLI processes, numbered in order of creation
    MaxAttempts,   \* MAX_STARTUP_ATTEMPTS
    MaxRequests,   \* bound: initialize requests a helper sends
    None           \* stands for an absent key, cell, process or holder

ASSUME PoolAssumption ==
    /\ ModelKeys \subseteq Keys
    /\ AdmissionOf \in [Keys -> Admissions]
    /\ Cells \subseteq Nat /\ Insts \subseteq Nat
    /\ MaxAttempts \in Nat \ {0} /\ MaxRequests \in Nat
    /\ None \notin Helpers \cup Keys \cup Cells \cup Insts

ASSUME HoldersDistinct == Helpers \cap Insts = {}

VARIABLES
    pool,        \* MasterStateInner.agents
    cellKey,     \* the key a generation was created for
    retired,     \* retired_agent_cells
    published,   \* the OnceCell's value
    permit,      \* the OnceCell's initialization permit
    proc,        \* what is known of each process
    instCell,    \* the generation a process was started in
    bound,       \* AgentCli.bound_helpers
    reaper,      \* where the process's reaper task is
    lease,       \* holder of the admission target's StartupState mutex
    attempts,    \* StartupState.attempts
    quarantined, \* targets whose StartupState.cleanup_failed is set
    pc,          \* where the helper's request handler is
    want,        \* the key the helper's request resolved to
    cell,        \* the generation the helper captured
    agent,       \* the process the helper started or obtained
    requests     \* initialize requests the helper has sent

poolVars   == <<pool, cellKey, retired, published, permit>>
procVars   == <<proc, instCell, bound, reaper>>
admitVars  == <<lease, attempts, quarantined>>
helperVars == <<pc, want, cell, agent, requests>>
vars == <<poolVars, procVars, admitVars, helperVars>>

WarmKeys == Keys \ ModelKeys

\* Where a handler can be inside acquire_and_bind_agent.
Acquiring == {"enter", "once", "admit", "begin", "start", "init", "unwind",
              "verify", "bind"}
\* ... and holding the OnceCell's permit.
Initializing == {"admit", "begin", "start", "init", "unwind"}

TypeOK ==
    /\ pool \in [Keys -> Cells \cup {None}]
    /\ cellKey \in [Cells -> Keys \cup {None}]
    /\ retired \in SUBSET Cells
    /\ published \in [Cells -> Insts \cup {None}]
    /\ permit \in [Cells -> Helpers \cup {None}]
    /\ proc \in [Insts -> {"none", "starting", "running", "stopping", "dead",
                           "unconfirmed", "leaked"}]
    /\ instCell \in [Insts -> Cells \cup {None}]
    /\ bound \in [Insts -> SUBSET Helpers]
    /\ reaper \in [Insts -> {"none", "watch", "leased", "unleased", "retire",
                             "remove", "done"}]
    /\ lease \in [Admissions -> Helpers \cup Insts \cup {None}]
    /\ attempts \in [Admissions -> 0..MaxAttempts]
    /\ quarantined \in SUBSET Admissions
    /\ pc \in [Helpers -> Acquiring \cup {"connected", "ready", "closing", "gone"}]
    /\ want \in [Helpers -> Keys \cup {None}]
    /\ cell \in [Helpers -> Cells \cup {None}]
    /\ agent \in [Helpers -> Insts \cup {None}]
    /\ requests \in [Helpers -> 0..MaxRequests]

Init ==
    /\ pool = [k \in Keys |-> None]
    /\ cellKey = [c \in Cells |-> None]
    /\ retired = {}
    /\ published = [c \in Cells |-> None]
    /\ permit = [c \in Cells |-> None]
    /\ proc = [i \in Insts |-> "none"]
    /\ instCell = [i \in Insts |-> None]
    /\ bound = [i \in Insts |-> {}]
    /\ reaper = [i \in Insts |-> "none"]
    /\ lease = [a \in Admissions |-> None]
    /\ attempts = [a \in Admissions |-> 0]
    /\ quarantined = {}
    /\ pc = [h \in Helpers |-> "connected"]
    /\ want = [h \in Helpers |-> None]
    /\ cell = [h \in Helpers |-> None]
    /\ agent = [h \in Helpers |-> None]
    /\ requests = [h \in Helpers |-> 0]

-----------------------------------------------------------------------------
(* Helpers of the code. *)

FreshCell(c) == /\ cellKey[c] = None
                /\ \A d \in Cells : cellKey[d] = None => c <= d

FreshInst(i) == /\ proc[i] = "none"
                /\ \A j \in Insts : proc[j] = "none" => i <= j

\* Mutant: the generation check forgotten.
IsCurrentUnchecked(k, c) == TRUE

\* agent_cell_is_current
IsCurrent(k, c) == c \notin retired /\ pool[k] = c

\* The target whose StartupState the helper's request is admitted under.
Target(h) == AdmissionOf[want[h]]

\* The key and target of a process.
KeyOf(i) == cellKey[instCell[i]]
TargetOf(i) == AdmissionOf[KeyOf(i)]

\* Mutant: removes whatever generation the key has now.
RemoveUnconditionally(k, c) == pool' = [pool EXCEPT ![k] = None]

\* remove_agent_cell_if_current
RemoveIfCurrent(k, c) ==
    pool' = IF pool[k] = c THEN [pool EXCEPT ![k] = None] ELSE pool

\* Dropping a StartupLease.
Release(a, holder) == IF lease[a] = holder THEN [lease EXCEPT ![a] = None] ELSE lease

Goto(h, label) == pc' = [pc EXCEPT ![h] = label]

-----------------------------------------------------------------------------
(* The helper's initialize request. *)

\* HelperHandler::initialize resolves the request to a pool key.
Initialize(h, k) ==
    /\ pc[h] = "connected"
    /\ requests[h] < MaxRequests
    /\ requests' = [requests EXCEPT ![h] = @ + 1]
    /\ want' = [want EXCEPT ![h] = k]
    /\ Goto(h, "enter")
    /\ UNCHANGED <<poolVars, procVars, admitVars, cell, agent>>

\* The same request with the user's "retry" intent: StartupRegistry::retry
\* resets the attempt budget first, unless cleanup is quarantined.
InitializeRetry(h, k) ==
    /\ pc[h] = "connected"
    /\ requests[h] < MaxRequests
    /\ lease[AdmissionOf[k]] = None
    /\ requests' = [requests EXCEPT ![h] = @ + 1]
    /\ IF AdmissionOf[k] \in quarantined
       THEN UNCHANGED <<attempts, want, pc>>
       ELSE /\ attempts' = [attempts EXCEPT ![AdmissionOf[k]] = 0]
            /\ want' = [want EXCEPT ![h] = k]
            /\ Goto(h, "enter")
    /\ UNCHANGED <<poolVars, procVars, lease, quarantined, cell, agent>>

\* The top of acquire_agent_from_pool_with_admission's loop: join the current
\* generation, or replace a missing or retired one.
Enter(h) ==
    /\ pc[h] = "enter"
    /\ \/ /\ pool[want[h]] # None
          /\ pool[want[h]] \notin retired
          /\ cell' = [cell EXCEPT ![h] = pool[want[h]]]
          /\ UNCHANGED <<pool, cellKey>>
       \/ /\ pool[want[h]] = None \/ pool[want[h]] \in retired
          /\ \E c \in Cells :
                /\ FreshCell(c)
                /\ cell' = [cell EXCEPT ![h] = c]
                /\ pool' = [pool EXCEPT ![want[h]] = c]
                /\ cellKey' = [cellKey EXCEPT ![c] = want[h]]
    /\ Goto(h, "once")
    /\ UNCHANGED <<retired, published, permit, procVars, admitVars, want, agent, requests>>

\* get_or_try_init: read the published agent, or win the permit and check that
\* the captured generation is still the pool's.
Once(h) ==
    /\ pc[h] = "once"
    /\ \/ /\ published[cell[h]] # None
          /\ Goto(h, "verify")
          /\ UNCHANGED permit
       \/ /\ published[cell[h]] = None
          /\ permit[cell[h]] = None
          /\ IF IsCurrent(want[h], cell[h])
             THEN /\ permit' = [permit EXCEPT ![cell[h]] = h]
                  /\ Goto(h, "admit")
             ELSE /\ Goto(h, "enter")
                  /\ UNCHANGED permit
    /\ UNCHANGED <<pool, cellKey, retired, published, procVars, admitVars,
                   want, cell, agent, requests>>

\* StartupRegistry::lock
Admit(h) ==
    /\ pc[h] = "admit"
    /\ lease[Target(h)] = None
    /\ lease' = [lease EXCEPT ![Target(h)] = h]
    /\ Goto(h, "begin")
    /\ UNCHANGED <<poolVars, procVars, attempts, quarantined, want, cell, agent, requests>>

\* ADMISSION_TIMEOUT: the armed AgentInitializationRetirement guard retires
\* the generation, the request fails.
AdmitTimeout(h) ==
    /\ pc[h] = "admit"
    /\ lease[Target(h)] # None
    /\ retired' = retired \cup {cell[h]}
    /\ permit' = [permit EXCEPT ![cell[h]] = None]
    /\ Goto(h, "connected")
    /\ UNCHANGED <<pool, cellKey, published, procVars, admitVars, want, cell, agent, requests>>

\* The second currency check and StartupLease::begin.
Begin(h) ==
    /\ pc[h] = "begin"
    /\ IF ~ IsCurrent(want[h], cell[h])
       THEN /\ retired' = retired \cup {cell[h]}
            /\ permit' = [permit EXCEPT ![cell[h]] = None]
            /\ lease' = [lease EXCEPT ![Target(h)] = None]
            /\ Goto(h, "enter")
            /\ UNCHANGED attempts
       ELSE \/ /\ Target(h) \in quarantined \/ attempts[Target(h)] >= MaxAttempts
               /\ retired' = retired \cup {cell[h]}
               /\ Goto(h, "unwind")
               /\ UNCHANGED <<permit, lease, attempts>>
            \/ /\ Target(h) \notin quarantined /\ attempts[Target(h)] < MaxAttempts
               /\ attempts' = [attempts EXCEPT ![Target(h)] = @ + 1]
               /\ Goto(h, "start")
               /\ UNCHANGED <<retired, permit, lease>>
    /\ UNCHANGED <<pool, cellKey, published, procVars, quarantined, want, cell, agent, requests>>

\* spawn_one_agent: preparation and process creation succeed.
Spawn(h) ==
    /\ pc[h] = "start"
    /\ \E i \in Insts :
          /\ FreshInst(i)
          /\ proc' = [proc EXCEPT ![i] = "starting"]
          /\ instCell' = [instCell EXCEPT ![i] = cell[h]]
          /\ agent' = [agent EXCEPT ![h] = i]
    /\ Goto(h, "init")
    /\ UNCHANGED <<poolVars, bound, reaper, admitVars, want, cell, requests>>

\* spawn_one_agent: preparation or process creation fails, no process exists.
SpawnFails(h) ==
    /\ pc[h] = "start"
    /\ lease' = [lease EXCEPT ![Target(h)] = None]
    /\ retired' = retired \cup {cell[h]}
    /\ Goto(h, "unwind")
    /\ UNCHANGED <<pool, cellKey, published, permit, procVars, attempts, quarantined,
                   want, cell, agent, requests>>

\* The ACP initialize round trip succeeds: the reaper is installed and the
\* OnceCell publishes the agent.
InitSucceeds(h) ==
    /\ pc[h] = "init"
    /\ proc' = [proc EXCEPT ![agent[h]] = "running"]
    /\ reaper' = [reaper EXCEPT ![agent[h]] = "watch"]
    /\ published' = [published EXCEPT ![cell[h]] = agent[h]]
    /\ permit' = [permit EXCEPT ![cell[h]] = None]
    /\ attempts' = [attempts EXCEPT ![Target(h)] = 0]
    /\ lease' = [lease EXCEPT ![Target(h)] = None]
    /\ Goto(h, "verify")
    /\ UNCHANGED <<pool, cellKey, retired, instCell, bound, quarantined, want, cell, agent, requests>>

\* initialize fails or times out; the process tree is terminated before the
\* error is reported, and StartupLease::failed quarantines the target when
\* that termination is not confirmed.
InitFails(h) ==
    /\ pc[h] = "init"
    /\ \/ /\ proc' = [proc EXCEPT ![agent[h]] = "dead"]
          /\ UNCHANGED quarantined
       \/ /\ proc' = [proc EXCEPT ![agent[h]] = "unconfirmed"]
          /\ quarantined' = quarantined \cup {Target(h)}
    /\ lease' = [lease EXCEPT ![Target(h)] = None]
    /\ retired' = retired \cup {cell[h]}
    /\ Goto(h, "unwind")
    /\ UNCHANGED <<pool, cellKey, published, permit, instCell, bound, reaper, attempts,
                   want, cell, agent, requests>>

\* Mutant: the permit is not given back.
UnwindKeepsPermit(h) ==
    /\ pc[h] = "unwind"
    /\ RemoveIfCurrent(want[h], cell[h])
    /\ lease' = Release(Target(h), h)
    /\ agent' = [agent EXCEPT ![h] = None]
    /\ Goto(h, "connected")
    /\ UNCHANGED <<cellKey, retired, published, permit, procVars, attempts, quarantined,
                   want, cell, requests>>

\* The failed initializer drops its generation, the request fails.
Unwind(h) ==
    /\ pc[h] = "unwind"
    /\ RemoveIfCurrent(want[h], cell[h])
    /\ permit' = [permit EXCEPT ![cell[h]] = None]
    /\ lease' = Release(Target(h), h)
    /\ agent' = [agent EXCEPT ![h] = None]
    /\ Goto(h, "connected")
    /\ UNCHANGED <<cellKey, retired, published, procVars, attempts, quarantined, want, cell, requests>>

\* After get_or_try_init: return the agent while the pool still owns its
\* generation, else shut it down and join the next generation.
Verify(h) ==
    /\ pc[h] = "verify"
    /\ LET i == published[cell[h]]
       IN  IF IsCurrent(want[h], cell[h])
           THEN /\ agent' = [agent EXCEPT ![h] = i]
                /\ Goto(h, "bind")
                /\ UNCHANGED proc
           ELSE /\ proc' = [proc EXCEPT ![i] = IF @ = "running" THEN "stopping" ELSE @]
                /\ agent' = [agent EXCEPT ![h] = None]
                /\ Goto(h, "enter")
    /\ UNCHANGED <<poolVars, instCell, bound, reaper, admitVars, want, cell, requests>>

\* bind_helper_to_agent inside acquire_and_bind_agent's loop.
Bind(h) ==
    /\ pc[h] = "bind"
    /\ IF pool[want[h]] # None /\ published[pool[want[h]]] = agent[h]
       THEN /\ bound' = [bound EXCEPT ![agent[h]] = @ \cup {h}]
            /\ Goto(h, "ready")
            /\ UNCHANGED agent
       ELSE /\ agent' = [agent EXCEPT ![h] = None]
            /\ Goto(h, "enter")
            /\ UNCHANGED bound
    /\ UNCHANGED <<poolVars, proc, instCell, reaper, admitVars, want, cell, requests>>

-----------------------------------------------------------------------------
(* The helper's connection ends. *)

\* The pipe closes during the request: the handler's future is dropped with
\* everything it owns - the armed retirement guard, the permit, the lease and
\* the child's kill-on-close job.
Cancel(h) ==
    /\ pc[h] \in Acquiring \cup {"connected"}
    /\ IF pc[h] \in Initializing
       THEN /\ retired' = retired \cup {cell[h]}
            /\ permit' = [permit EXCEPT ![cell[h]] = None]
            /\ lease' = Release(Target(h), h)
       ELSE UNCHANGED <<retired, permit, lease>>
    /\ proc' = IF pc[h] = "init" THEN [proc EXCEPT ![agent[h]] = "dead"] ELSE proc
    /\ agent' = [agent EXCEPT ![h] = None]
    /\ Goto(h, "gone")
    /\ UNCHANGED <<pool, cellKey, published, instCell, bound, reaper, attempts, quarantined,
                   want, cell, requests>>

\* serve_helper: a bound helper disconnects and leaves bound_helpers.
Disconnect(h) ==
    /\ pc[h] = "ready"
    /\ bound' = [bound EXCEPT ![agent[h]] = @ \ {h}]
    /\ Goto(h, "closing")
    /\ UNCHANGED <<poolVars, proc, instCell, reaper, admitVars, want, cell, agent, requests>>

\* Mutant: bound_helpers not consulted.
RetireIgnoringBound(h) ==
    /\ pc[h] = "closing"
    /\ IF want[h] \in ModelKeys /\ pool[want[h]] # None /\ published[pool[want[h]]] = agent[h]
       THEN /\ pool' = [pool EXCEPT ![want[h]] = None]
            /\ proc' = [proc EXCEPT ![agent[h]] = IF @ = "running" THEN "stopping" ELSE @]
       ELSE UNCHANGED <<pool, proc>>
    /\ agent' = [agent EXCEPT ![h] = None]
    /\ Goto(h, "gone")
    /\ UNCHANGED <<cellKey, retired, published, permit, instCell, bound, reaper, admitVars,
                   want, cell, requests>>

\* Mutant: the withdrawn process is not shut down.
RetireWithoutShutdown(h) ==
    /\ pc[h] = "closing"
    /\ IF /\ want[h] \in ModelKeys /\ pool[want[h]] # None
          /\ published[pool[want[h]]] = agent[h] /\ bound[agent[h]] = {}
       THEN pool' = [pool EXCEPT ![want[h]] = None]
       ELSE UNCHANGED pool
    /\ agent' = [agent EXCEPT ![h] = None]
    /\ Goto(h, "gone")
    /\ UNCHANGED <<cellKey, retired, published, permit, procVars, admitVars, want, cell, requests>>

\* retire_unbound_model_agent, after the helper's session cleanup.
RetireUnbound(h) ==
    /\ pc[h] = "closing"
    /\ LET i == agent[h]
           k == want[h]
       IN  IF /\ k \in ModelKeys
              /\ pool[k] # None /\ published[pool[k]] = i
              /\ bound[i] = {}
           THEN /\ pool' = [pool EXCEPT ![k] = None]
                /\ proc' = [proc EXCEPT ![i] = IF @ = "running" THEN "stopping" ELSE @]
           ELSE UNCHANGED <<pool, proc>>
    /\ agent' = [agent EXCEPT ![h] = None]
    /\ Goto(h, "gone")
    /\ UNCHANGED <<cellKey, retired, published, permit, instCell, bound, reaper, admitVars,
                   want, cell, requests>>

-----------------------------------------------------------------------------
(* The process and its reaper. *)

\* The process exits, or its ACP I/O loop ends and requests its stop.
Exit(i) ==
    /\ proc[i] = "running"
    /\ proc' = [proc EXCEPT ![i] = "stopping"]
    /\ UNCHANGED <<poolVars, instCell, bound, reaper, admitVars, helperVars>>

\* wait_for_agent_exit: the reaper takes the admission lease, or goes on
\* without it when ADMISSION_TIMEOUT expires.
ReapLease(i) ==
    /\ reaper[i] = "watch"
    /\ proc[i] = "stopping"
    /\ IF lease[TargetOf(i)] = None
       THEN /\ lease' = [lease EXCEPT ![TargetOf(i)] = i]
            /\ reaper' = [reaper EXCEPT ![i] = "leased"]
       ELSE /\ reaper' = [reaper EXCEPT ![i] = "unleased"]
            /\ UNCHANGED lease
    /\ UNCHANGED <<poolVars, proc, instCell, bound, attempts, quarantined, helperVars>>

\* wait_for_agent_exit: terminate the process tree.  Only a leased reaper
\* can quarantine the target of an unconfirmed cleanup.
ReapTerminate(i) ==
    /\ reaper[i] \in {"leased", "unleased"}
    /\ \/ /\ proc' = [proc EXCEPT ![i] = "dead"]
          /\ UNCHANGED quarantined
       \/ /\ reaper[i] = "leased"
          /\ proc' = [proc EXCEPT ![i] = "unconfirmed"]
          /\ quarantined' = quarantined \cup {TargetOf(i)}
       \/ /\ reaper[i] = "unleased"
          /\ proc' = [proc EXCEPT ![i] = "leaked"]
          /\ UNCHANGED quarantined
    /\ lease' = Release(TargetOf(i), i)
    /\ reaper' = [reaper EXCEPT ![i] = "retire"]
    /\ UNCHANGED <<poolVars, instCell, bound, attempts, helperVars>>

\* reap_agent: mark the generation retired before the first await.
ReapRetire(i) ==
    /\ reaper[i] = "retire"
    /\ retired' = IF published[instCell[i]] \in {None, i}
                  THEN retired \cup {instCell[i]} ELSE retired
    /\ reaper' = [reaper EXCEPT ![i] = "remove"]
    /\ UNCHANGED <<pool, cellKey, published, permit, proc, instCell, bound, admitVars, helperVars>>

\* Mutant: the pool entry stays.
ReapKeepsEntry(i) ==
    /\ reaper[i] = "remove"
    /\ reaper' = [reaper EXCEPT ![i] = "done"]
    /\ UNCHANGED <<poolVars, proc, instCell, bound, admitVars, helperVars>>

\* reap_agent: drop the pool entry if it is still this generation.
ReapRemove(i) ==
    /\ reaper[i] = "remove"
    /\ IF published[instCell[i]] \in {None, i}
       THEN RemoveIfCurrent(KeyOf(i), instCell[i])
       ELSE UNCHANGED pool
    /\ reaper' = [reaper EXCEPT ![i] = "done"]
    /\ UNCHANGED <<cellKey, retired, published, permit, proc, instCell, bound, admitVars, helperVars>>

-----------------------------------------------------------------------------
HelperStep(h) ==
    \/ Enter(h) \/ Once(h) \/ Admit(h) \/ AdmitTimeout(h) \/ Begin(h)
    \/ Spawn(h) \/ SpawnFails(h) \/ InitSucceeds(h) \/ InitFails(h) \/ Unwind(h)
    \/ Verify(h) \/ Bind(h) \/ RetireUnbound(h)

ReaperStep(i) == ReapLease(i) \/ ReapTerminate(i) \/ ReapRetire(i) \/ ReapRemove(i)

Next ==
    \/ \E h \in Helpers :
          \/ \E k \in Keys : Initialize(h, k) \/ InitializeRetry(h, k)
          \/ HelperStep(h)
          \/ Cancel(h)
          \/ Disconnect(h)
    \/ \E i \in Insts : Exit(i) \/ ReaperStep(i)

Spec == Init /\ [][Next]_vars

\* Handlers and reapers are tasks of one runtime that polls every woken task;
\* every wait is bounded (admission, initialize and cleanup all time out) and
\* the OnceCell hands its permit out in FIFO order.
Fairness ==
    /\ \A h \in Helpers : WF_vars(HelperStep(h)) /\ SF_vars(Once(h))
    /\ \A i \in Insts : WF_vars(ReaperStep(i))

FairSpec == Spec /\ Fairness

-----------------------------------------------------------------------------
(* Properties. *)

\* No provider runs outside the pool: a process that completed initialize and
\* was not asked to stop is the agent its key's current, unretired generation
\* publishes ("Do not leave an untracked provider running outside the pool").
RunningIsPooled ==
    \A i \in Insts : proc[i] = "running" =>
        /\ IsCurrent(KeyOf(i), instCell[i])
        /\ published[instCell[i]] = i

\* The process states in which a process keeps its key occupied: a warm
\* agent until its cleanup is confirmed, a model-scoped one until its stop.
Occupying(k) == IF k \in ModelKeys
                THEN {"starting", "running"}
                ELSE {"starting", "running", "stopping", "unconfirmed"}

\* A key never has two processes at once: a replacement starts only after the
\* previous process tree of the key is confirmed gone, and never when that
\* cleanup was left unconfirmed.
OneProcessPerKey ==
    \A i, j \in Insts :
        ( /\ instCell[i] # None /\ instCell[j] # None
          /\ KeyOf(i) = KeyOf(j)
          /\ proc[i] \in Occupying(KeyOf(i)) /\ proc[j] \in Occupying(KeyOf(j)) )
        => i = j

\* A generation starts at most one process, whatever order failures,
\* cancellations and OnceCell waiters come in.
OneProcessPerGeneration ==
    \A i, j \in Insts : instCell[i] # None /\ instCell[i] = instCell[j] => i = j

\* A step that leaves the pool entry of every running, bound agent in place.
KeepsInUse ==
    \A h \in Helpers : (pc[h] = "ready" /\ proc[agent[h]] = "running")
                       => pool'[want[h]] = pool[want[h]]

\* A running agent that a connected helper is bound to keeps its pool entry:
\* the last-helper retirement of another connection never takes it away.
InUseAgentKept == [][KeepsInUse]_vars

\* Every initialize request ends: bound to an agent, failed, or cut off by
\* its own disconnect.  Nobody waits forever for the OnceCell or the lease.
InitializeCompletes ==
    \A h \in Helpers : pc[h] \in Acquiring ~> pc[h] \in {"connected", "ready", "gone"}

\* A stopped agent eventually leaves the pool, so that its key is served again.
StoppedAgentLeavesPool ==
    \A i \in Insts : proc[i] = "stopping" ~> \A k \in Keys : pool[k] # instCell[i]

=============================================================================
