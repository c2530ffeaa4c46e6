# A TLA+ model of Intelligent Terminal's agent runtime

Intelligent Terminal is Windows Terminal with agent panes. This directory holds
specifications of the part that is its own and that is concurrent: the runtime
that shares agent processes and agent sessions between panes, from the supervision
of that runtime inside Windows Terminal down to the turn of one prompt. They were
written from the source (`tools/wta/src/`, `src/cascadia/TerminalApp/`), are
model-checked with TLC on small instances, and their safety, the refinement of PromptFlight
included, is proved with TLAPS for every value of the constants (section 9 names the
hypotheses of the few theorems that have one).

## 1. The system

```
 Windows Terminal (C++)            wta (Rust)
 +------------------------+   pipe   +-----------------------------+  stdio/ACP
 | SharedWta --spawns-----|--------> | wta-master                  |<-----------> agent CLI
 | AgentPaneContent       |          |  pool, admission, routes,   |<-----------> agent CLI
 |   one helper per pane  |          |  registry, capabilities     |
 | TerminalProtocol (COM) |          +-----------------------------+
 +------------------------+               ^ named pipe, ACP   ^ MCP over HTTP
        ^ wtcli                           |                   |
        +---------------------------- wta-helper        (calls of the agent's tools)
```

Windows Terminal starts one `wta-master` and, for each agent pane, one
`wta-helper`. A helper is an ACP client of the master; the master is an ACP client
of the agent CLIs. The master runs in a single-threaded tokio `LocalSet`: its
tasks interleave only at awaits that really wait (for a lock that is held, for the
agent, for a timer).

### Components

| Component | State | Operations | What is hard | Correct when |
|---|---|---|---|---|
| Agent pool and admission (`master/mod.rs`, `agent_lifecycle.rs`) | pool of `OnceCell` generations, retired cells, bound helpers, leases, attempts, quarantine, processes and reapers | `initialize`, retry, spawn, bind, disconnect, exit, reap | initializers of one key race; the initializing helper disconnects; a reaper runs after its successor started; cleanup not confirmed; lease timeouts | one process per key and generation, none outside the pool, none taken from a bound helper, every request ends |
| Session routing (`master/mod.rs`) | route table, lifecycle gates, live rows, capabilities, orphans, fences, each helper's last session | `session/new`, `session/load`, `session/close`, rollback, disconnect cleanup | routes are installed before the agent answers; closes and rollbacks run late; disconnects fall between two steps; agents without `session/close` | a close is for the owner only, late cleanups take nothing from a new owner, a fenced helper commits nothing, tables agree |
| Tab retirement (`master/mod.rs`) | fences by tab, aliases of renamed tabs, the fence over all tabs, operations by id, owners, markers, safety records of helpers without an owner | retire tab, retire all, close and reset by tab, rename, forced cleanup, complete | helpers that register during a retirement, drags, transactions in flight, overlapping operations, failed closes | a retired tab's helpers commit nothing; a replacement is not blocked; the report is true |
| Session MCP (`master/session_mcp.rs`) | tokens by session and agent instance | prepare, bind, cancel, remove, authorize | bind after removal | a token is valid only while its session is |
| Notifications (`master/mod.rs`) | channel of each route, pending usage, drop counters | `session_notification`, usage delivery | full channel, route replaced while waiting | usage is not lost or given to the wrong helper |
| Registry and reducer (`session_registry.rs`, `agent_sessions.rs`) | rows with status and location | hook, watcher and ACP events, upsert, remove | events out of order and from several sources | an ended session does not come back to life |
| History (`master/mod.rs`, `master/history.rs`) | refresh state, backoff, retry epochs | discovery, refresh, retry | agent replaced during a listing | stale listings are dropped |
| Turn lifecycle (`app_turn.rs`, `app/turn_state.rs`, `app/prompt_queue.rs`, `app/autofix.rs`, `protocol/acp/client.rs`) | turn, queue, active prompt, bottom bar; prompt tasks, tab binding, two channels | enter, dispatch, chunk, end, cancel, error, reset, reconnect | output names the session and not the prompt; completions of an old turn or session; events that are stale when handled | one prompt at a time for a tab; output goes to its own turn; the queue goes on, in order |
| Action proposals (`agent_tools/action_proposal/`, `coordinator.rs`) | pending proposals | propose, answer, expire | answer racing expiry | each is answered once |
| SharedWta (`TerminalApp/SharedWta.cpp`) | process, job and wait handles, generations, armed recovery, cached command line, policy flags, lease counts | ensure, acquire, release, restart, enable, shut down, exit callback | Windows ends processes asynchronously; callbacks run after their wait was unregistered; a start fails halfway | one master, held in its job; bounded recovery; its death is noticed |
| Restart of the agent stack (`TerminalPage.cpp`, `RetirementCoordinator` in `SharedWta.cpp`) | operations by id and by request, bounded history; each page's pending, queued and running work | request, join, complete, time out, claim, finish | windows handle one request at very different times; continuations nest; windows close | one restart for each request, none lost, no operation left behind |
| COM server (`TerminalProtocolComServer.cpp`) | subscribers and queues | subscribe, publish | subscriber leaves during fan-out | events in order, no lost unsubscribe |
| Process spawning, hook installer, CLI, UI, settings, terminal core, console host | - | - | operating-system calls, rendering, file edits, or code inherited from upstream | not modelled |

`PROJECT.json` lists each with its status, and under `hazards` the lines at which
things can go wrong.

## 2. AgentPool: one process per agent

**State.** `pool` (`MasterStateInner::agents`) maps a key to a *generation*, a member
of `Cells`: a `OnceCell` is never reused, so each has one key (`cellKey`), may be
listed in `retired_agent_cells` (`retired`), has at most one initializer (`permit`)
and may hold an agent (`published`). A process `i \in Insts` is `starting`,
`running`, `stopping` (exited or told to stop, not yet cleaned up), `dead`, or its
end is not certain: `unconfirmed` when that was recorded, `leaked` when it was not.
`lease`, `attempts` and `quarantined` are the `StartupRegistry`. Each helper has a
program counter.

**Actions and code.**

| Action | Code |
|---|---|
| `Initialize`, `InitializeRetry` | `HelperHandler::initialize`, `StartupRegistry::retry` |
| `Enter`, `Once`, `Admit`, `AdmitTimeout`, `Begin`, `Unwind`, `Verify` | the loop of `acquire_agent_from_pool_with_admission`, one action for each stretch between waits |
| `Spawn`, `SpawnFails`, `InitSucceeds`, `InitFails` | `spawn_one_agent` and what its caller does with the result |
| `Bind` | `bind_helper_to_agent` in `acquire_and_bind_agent` |
| `Cancel` | the handler's future is dropped; `AgentInitializationRetirement::drop` |
| `Disconnect`, `RetireUnbound` | the end of `serve_helper`, `retire_unbound_model_agent` |
| `Exit`, `ReapLease`, `ReapTerminate`, `ReapRetire`, `ReapRemove` | I/O task, `wait_for_agent_exit`, `reap_agent` |

The rest of `spawn_one_agent` after the agent's answer is one step: its locks are
never contended at an await. Warm keys have an admission target of their own; the
model-scoped generations of one launch configuration share theirs (`AdmissionOf`).

**Properties.** `RunningIsPooled`, `OneProcessPerKey`, `OneProcessPerGeneration`,
`InUseAgentKept`, and under fairness `InitializeCompletes` and
`StoppedAgentLeavesPool`. For a warm key a second process may not start before the
first one's end is confirmed, and never after it was left unconfirmed. For a
model-scoped key the code promises less, and so does `OneProcessPerKey`
(`Occupying`): the departing helper withdraws the entry first, and the old process
may still be stopping when the next one starts.

## 3. SessionRouting: who owns a session

**State.** `route` (`session_to_helper`), `gate` (the session's lifecycle gate),
`row` (live registry rows), `cap` (capabilities), `orphans` (`orphaned_sessions`);
for each helper its connection, the fence, `pending`, `pendingCap`
(`pending_session_mcp`) and `last` (`HelperRecoveryMeta::last_session_id`); and what
the agent knows: `made`, its history, and `open`, what it holds in memory. A helper's
transactions are serialized by its replacement gate, on which its cleanup waits too,
so one program counter for each helper is enough. `close_and_retire_owned_session`
is a subroutine: `step` is its caller, `arg` its session, `res` its result.

**Interleaving.** A task that can run goes on to its next real wait (`Running`,
`Turn`): a step of another helper falls between two steps only where the first one
waits for the agent or for a gate. Requests and disconnects arrive when nothing can
run.

**Failures.** The agent may refuse, fail or time out at any call; a timed-out
`session/new`, `session/load` or `session/close` may still have taken effect. A
disconnect may drop the handler that is running (with the gates it holds) or let it
run on, fenced. The closing and destructive markers are set together here and are
one set (`fenced`); a tab retirement sets them apart, in TabRetirement.

**Actions and code.** `NewSession`, `NewPrior`, `NewReply`, `NewFails`, `Abandoned`,
`RetireUnbound`: `new_session`. `LoadSession`, `Swap`, `LoadReply`, `LoadFails`,
`LoadPrior`, `DestroyedTarget`, `DestroyedPrior`, `Commit`, `Rollback`,
`RollbackClosed`: `load_session_with_timeout` and its rollbacks. `CloseSession`,
`CloseReturns`: `close_session`. `CloseGate`, `CloseGateTimeout`, `CloseRetires`,
`CloseFails`: the close. `Disconnect`, `Cleanup`, `CleanupNext`, `CleanupClosed`,
`CleanupDrop`, `Drop`, `CleanupDone`: `cleanup_disconnected_helper`.

**Exclusive.** The master lets a helper load any session, also one that another
helper owns; the helpers' session view focuses the pane of a live one instead. The
constant says whether helpers keep to that. The gate properties hold either way, and
so are stated, checked and proved for both; the agreement of the tables
(`TablesAgree`, `OrphanIsOpen`, `NothingOutlivesHelper`) is checked and proved where
they do, since a session that is taken away leaves its former owner's record behind.

**Left out.** Several agents (routes are then qualified by the agent instance, and
different instances share nothing), agent death (AgentPool), tab owners and fences
(TabRetirement), pending usage, telemetry. The errors of `resolved_agent` and `forwarder_for_route`
cannot happen after `initialize`.

**Known exception.** When helpers take sessions from each other, the rollback of a
failed `session/load` puts the displaced route back even if the helper it belongs to
has been cleaned up in the meantime (`mod.rs:979`): a route of a helper that is gone
remains until the session is loaded again, although
`doc/specs/agent-failure-handling.md:230` says that a disconnect retires the routes.
`NothingOutlivesHelper` is therefore checked and proved under `Exclusive`.

## 4. TabRetirement: taking a tab down

**State.** `pend` and `owner` are what a helper has published about its tab
(`pending_session_helpers`, `HelperRecoveryMeta`); `closing`, `destructive`, `active`,
`late` the marker sets; `unresolved` and `denied` the safety records of helpers that
were connected, without an owner, when a tab was retired (at most `Cap` targets, then
the helper is denied outright); `fence`, `rekeys`, `allOps`, `allOut` the fences, the
aliases that a drag leaves behind, and the fence over all tabs; `routed` and `gate` the
sessions. An operation has a `status`, the helpers it has still to clean (`todo`) and
has cleaned (`done`), and a `job` for each session it closes. `hit` and `closed` are
history: the helpers whose pane is in a tab that was retired, closed or reset.

**Actions and code.** `NewSession`, `PriorGate`, `PriorClosed`, `NewReply`, `NewFails`,
`LateGate`, `LateClosed`: `new_session` with `publish_pending_owner` and the commit check.
`RetireTab`, `RetireSession`, `ForceCleanup`, `CompleteTab`: the scope "tabs" of
`retire_agent_sessions`. `RetireAll`, `NextBatch`, `FinishAll`: the scope "all".
`CloseTabSession`, `ResetTabSession` and the shared `CloseGate`, `CloseTimesOut`,
`CloseReturns`, `Restore`: the closes. `Rename`, `LearnRename`: a drag, of which the
helper may learn late. `Connect`, `Disconnect`, `CleanupGate`, `CleanupClosed`, `Gone`:
helpers come and go; a failed close and the dropping of the sessions that follows it are
one step.

**Assumptions.** The agent stays in the pool. `orphaned_tabs` is empty: no code outside
the tests fills it. A drag gives a tab a fresh id. `session/load` and a helper's own
`session/close` are in SessionRouting.

**Known exceptions.** (1) `Overlap = TRUE` lets a replacement helper connect to a tab
while the master still cleans up after its predecessor; `begin_tab_retirement`
(`mod.rs:9468`) then binds only one of the two owners, and the other may commit a session
afterwards, contrary to the comment at `mod.rs:10476`. The runs set it to FALSE.
(2) With `Lagging = TRUE` a helper publishes the id its tab had before a drag; it is
allowed only in the liveness run. Both appear as hypotheses of the theorems about what a
retirement is final for (section 9). (3) A close-by-tab that holds the gate while a
retirement of all tabs times out on it lets the retirement restore the route of a helper
that has gone; the two kinds of operation are not combined in a run of
`GoneLeavesNothing`, and its theorem is about instances without closes and resets.

## 5. PromptTurn and PromptFlight: one prompt at a time

`PromptFlight` is the abstract specification of a tab's queue: a request is new, waits,
runs, is over, and never goes back; one runs at a time; the user's own start in the order
of acceptance. `PromptTurn` is the code: the App handles one event at a time and then
dispatches the front of the queue; the ACP client runs a task for each prompt; events go
back over a channel. `KeepsFlightPromise` is the refinement: `Status` maps a request to
the abstract states by whether it is in the queue, in the channel or in a task.

Client and App are tasks of one single-threaded `LocalSet` each, so a step is what runs
between two awaits. `HandleEvent` covers the App's handlers (`On...`, one for each event);
`Enter...`, `CommandFails`, `ExecuteFromDetected`, `Stop`, `Clear`, `ResumePending`,
`DiscardPending`, `RecallLast`, `ResetTabSession`, `DismissCard`, `ExecuteCard` what the
user and the shell do; `ReceivePrompt`, `DropSession` and the `TaskStep` actions the
client; `TransportEnds`, `TransportRetired`, `Reconnect` the connection.

**Properties.** `OutputIsItsOwn`: since output does not name its prompt, it is only the
order of events that keeps it with its turn. `TurnIsServed`: whatever holds the queue back
has something still to come that ends it; it is the safety form of "every turn ends", and
exempts the two races of a reset that `ResetRaced` describes. In the first the reset is handled
before the App learns the session that was created for the running prompt (the finding below).
In the second it is handled before the App learns the startup session of a new connection: the
client has dropped that session, but the App takes it for the tab's, so a prompt submitted with
it runs in another session and its end does not match; the history variable `overtaken` holds
such sessions. `ResumableWasAsked`: a session that the agent was never asked anything in is not
offered for resumption, where an overtaken session counts as asked, since the App
believes that the prompt went to it.

**Left out.** Permission and clarification requests, session load and `/new`, tab rename,
several shell panes, errors other than protocol and transport errors, cancellation answers
of an agent as errors, the echo of the user's text, a dispatch to the coordinator that
fails. The evidence of an autofix request is captured within the event that enters it; the
agent's stragglers arrive within the 50 ms drain; the master's refusal of `session/new` for
a retired tab appears as the reset case. Branches that compare generations of the transport
are unreachable in one run loop and are not in the model.

## 6. SharedWta: one master

Every method holds `_mtx`, so a call is one step; it is written as an operator from a state
record to the set of its possible results, because a start can fail at five places and a
process can end in the middle of a call. What interleaves is Windows: a process may exit
at any time, a job that is closed kills asynchronously ("dying"), and a wait that was
unregistered may still have its callback queued. `m` holds the fields; handles are the
generation they belong to. `unasked` and `stopped` are ghosts.

`OneMaster` exempts masters that `_StopLocked` let go of: `SetEnabled(false)` waits three
seconds and then drops the handle without confirming the exit, so that
`SetEnabled(true)` and a pane can start a master while the first one is still dying.
A master whose wait could not be registered runs unwatched, by design; `DeathIsNoticed`
speaks of the others. Left out: the construction of command line and environment, and the
bookkeeping classes used by one page only.

## 7. RestartBarrier: restarting together

Each call of `RetirementCoordinator` takes its lock once and is one operator; a page is
overtaken between any two of them. `stack` holds the continuations that a page runs, nested
because the next operation can begin before the previous continuation is released.
`Users(o)` are the pages that wait for an operation or run its continuation.
`attempts` and `lapsed` are ghosts: `RestartedOnce` exempts a request whose retirement timed
out, for which a later page may register again by design (unit test
`TimedOutRestartRetirementKeepsRestartClaimableAcrossPages`), and one that has fallen out of
the history (64 entries in the code, one in the run), also when it is the release of a closing
page that drops it; that last case takes more requests than the run has, and the proof found it.
Left out: the settings change that
restarts the master with other arguments, the agent picker, and the closing and recreation of
panes.

## 8. Runs

| Run | Instance | States | Shows |
|---|---|---|---|
| `pool` | 2 helpers, 2 model-scoped keys of one launch target, 1 request each, fair | 298 482 | one process per key and generation, no agent taken from its user, requests end, stopped agents leave the pool |
| `routing_exclusive` | 2 helpers, 1 stored and 1 new session, 3 requests each | 572 458 | the tables agree and nothing outlives a helper |
| `routing_shared` | the same with `Exclusive = FALSE`, 2 requests each | 458 427 | the gate protects the present owner |
| `routing_live` | 1 request each, fair | 9 237 | transactions and cleanups end |
| `retire_tab` | 2 helpers, 2 tab ids, any 2 of retirement, close and reset, drags | 903 909 | fences balance, a retired helper never commits, the report is true |
| `retire_all` | 2 helpers, 2 overlapping retirements of all tabs | 542 744 | late helpers are covered, the fence is released, nothing stays behind |
| `retire_live` | 1 helper, a tab and an all retirement, late drags, fair | 156 409 | every operation and cleanup ends |
| `turn` | 3 requests, at most 1 of each kind (2 automatic), 2 interventions | 1 281 639 | the four properties above and the refinement of PromptFlight |
| `shared` | 2 panes, 2 command lines, 3 generations, 4 calls, fair | 60 482 | one master, owned, recovered once, noticed |
| `barrier` | 2 windows, 2 requests, 2 calls, fair | 74 988 | one restart for a request, none lost |
| `retire_reset`, `turn_reset` | 1 helper; 1 prompt | - | the findings |

Deadlock is not checked: requests are bounded and a system whose helpers have all
left may stop.

**Bounds.** Two helpers (or windows) are one that acts and one that interferes; the
hazards are about pairs. *Pool:* `MaxAttempts = 2` (3 in the code) is the least with a failed
attempt inside the budget; cells and processes are spent, not reused: `Cells = 1..8` is not
exhausted before `Insts = 1..2`, the fewest processes that can collide. *Routing:* two
sessions are one in the agent's history and one that `session/new` creates, so that a helper
can replace either by the other; three requests let it obtain, replace and release one.
*Retirement:* two tab ids are a tab before and after a drag; two operations can overlap;
`Cap = 2` (32) can be exceeded only when `Tabs` is larger, and is then a refusal like any
other. *Turn:* `QueueCap = 2` is reached with one request running; one chunk and three
sessions let output, a reset and a reconnection fall between any two steps. *Shared:* three
generations are a master, its recovery and a restart. *Barrier:* a history of one is pruned
by the second request. Helpers are symmetric in the safety runs. For the properties that are
proved the bounds do not matter.

**Fairness.** Handlers, reapers and operations are tasks of one runtime that polls every
task that was woken, and each wait is bounded: admission, initialize, cleanup and the calls
to the agent time out, and the holder of a lifecycle gate waits only for such a call. So weak
fairness is assumed of each helper's, reaper's and operation's steps. A tokio semaphore is
first-in first-out, so a waiter of a `OnceCell` cannot be passed for ever: strong fairness of
`Once`. Windows finishes a termination and runs a queued callback; a UI thread runs what is
dispatched to it, and the 17 s timer of a retirement fires: weak fairness of those. Nothing
is assumed of requests, disconnects, exits, or of the master answering a retirement.

**Findings.** Two runs are meant to fail; `PROJECT.json` quotes the sentences they
contradict. `retire_reset`: a reset whose close fails leaves the helper marked, and its next
`session/new` is refused for good. `turn_reset`: a reset handled before the session of the
running prompt is attached makes the App ignore that prompt's end, and the turn stays in
`Cancelling` until the transport is retired.

## 9. Proofs

Assumptions: `PoolAssumption`, `HoldersDistinct`, `RoutingAssumption`, `RetirementAssumption`,
`KindsDistinct`, `PromptTurnAssumption`, `SharedWtaAssumption` and `BarrierAssumption`, each in
the module that declares the constants: sets are disjoint from `None` and from each other, a request is of one kind, bounds
are natural numbers (the history of the barrier holds at least one entry), and what is counted is
finite: panes, tabs, operations and windows. Nothing else is finite or bounded.

**AgentPoolProofs.** `PoolInv` strengthens the properties with who holds what: an
initializer past `Once` holds its generation's permit, one past `Admit` the target's
lease too (`PermitHeld`, `HandlerLease`, `ReaperLease`), so that two processes of a
target cannot start at once (`StartAlone`); a generation that started a process which
is not published is in the hands of its initializer or is retired (`InitOwns`,
`FailedIsRetired`); an unconfirmed end is quarantined (`Quarantined`); a running
process is published by the current generation of its key (`Pooled`). Each action
has a lemma, with a step for every conjunct it can disturb. From it: `TypeCorrect`,
`RunningIsPooledAlways`, `OneProcessPerKeyAlways`, `OneProcessPerGenerationAlways` and
the action property `InUseAgentKeptAlways`.

**SessionRoutingProofs.** `RoutingInv` says what the lifecycle gate means: a helper
that waits for `session/close` holds the gate and owns the route (`ClosingHolds`); a
rollback that closes its target holds the gate while nobody owns it
(`RollbackHolds`). Because `session/new` installs a route whose id is fresh, the
invariant also needs that every session the master works on is known to the agent
(`KnownSessions`, `RoutedMade`). From it: `RouteHeldAlways` (the `unreachable!` of the
code), `ClosedForItsOwnerAlways`, `LateCleanupHarmlessAlways`,
`FencedNeverCommitsAlways` and `RoutingTypeCorrect`.

**SessionOwnershipProofs.** Under `Exclusive`. `Ownership` adds to `RoutingInv` who owns what. A
`session/load` that has swapped the route owns its target until it commits or rolls back
(`SwappedOwned`), because no other transaction works on that target (`TargetsApart`); what a
transaction replaces is its own (`Predecessor`); a committed session is routed to the helper that
remembers it (`CommittedOwned`), a live row has a route (`LiveIsRouted`), an orphan has no owner
(`OrphansUnowned`), and a cleanup works off everything its helper had (`CleanupComplete`).
`Exclusive` is used in one place, where a `session/load` begins. From it: `TablesAgreeAlways`,
`NothingOutlivesHelperAlways` and `OrphanIsOpenAlways`.

**TabRetirementProofs.** The invariant has three layers. `Roster` says where a helper and an operation
can be: absent, leaving, begun, with jobs for sessions, in a known tab. `FenceRecords` says what the fences and
aliases are: aliases never chain, so the current name of a tab is one step away, and a fence's count
is the number of operations that stand for the tab or for an alias of it (`Balanced`). `AllFence`
counts the operations that hold the fence over all tabs. `Resolve` is a recursive function, and
induction is out of the prover's reach; what it returns is shown by a least counterexample instead.
From it, with no hypothesis on the constants: `RetirementTypeCorrect`, `FencesBalancedAlways` and
`AllFenceReleasedAlways`.

**TabFinalityProofs.** What a retirement is final for. `Homes`: without a lagging drag a helper's
published tab is its tab. `Finality` (without overlap either): a transaction in flight has published
its tab or is marked (`InFlight`), whom an operation has still to clean is marked (`Captured`), of two
helpers in one tab one owns nothing and is retired (`SoleOwner`), and so the helpers of a retired tab
cannot commit (`HitRetired`); from it `RetiredNeverCommitsAlways`. `Refusals`: a helper is refused only
for a tab that was retired; from it `ReplacementNotBlockedAlways`, where there are no more tabs than
`Cap`, since a safety record that overflows refuses whatever owner comes next. `Traces`, without closes
and resets: a helper that is gone is unmarked (`GoneUnmarked`), whoever holds a gate is at closing its
session (`GateHeld`), for its own operation's helpers only (`OwnTodo`), and a route belongs to a helper
that is connected or has still to be cleaned up (`RouteKept`); from it `GoneLeavesNothingAlways`.
`Report`, under the hypotheses of finality: a transaction is on record, so that the cleanup waits for
it, unless an operation that reports a failure dropped it (`Awaited`); no operation removes the record
of one in flight (`Undeferred`); after a cleanup without a failure the helper has no transaction, and
only a later retirement, which has then still to clean up after it, puts a route back (`Reported`);
from it `ReportIsTrueAlways`. `Quiet` is what most steps are for this invariant.

**SharedWtaProofs.** Because a call is a set of results, the invariant is stated of a state
record, `Sound(s, st)`, where `st` are the generations that were let go: a running master is
held with its job (`RunHeld`), the cache is what it was started with (`CacheTrue`), a callback is
queued only for a process that has exited (`QueuedIsDead`) and only that of the master that is
held can claim the object (`WaitOwned`), and of the processes that were not let go at most one is
alive, the one that is held unless starting is suppressed (`OneAlive`). Each helper has a lemma:
`CleanupSound` moves the old generation into `st`, `RestartServed` takes it out again because its
exit was awaited, `SpawnServed` needs `OneAlive` to see that no rival is alive. `SupervisionInv`
adds the policy flags, the counts of the leases (`Counted`, with the cardinality theorems) and
that recovery is armed only if none has happened (`Recovery`). From it: `OneMasterAlways`,
`RunningIsOwnedAlways`, `CachedIsLaunchedAlways`, `RecoveryIsBoundedAlways`,
`CallbackHarmsNobodyAlways`, `LeasesCountedAlways` and `SupervisionTypeCorrect`.

**RestartBarrierProofs.** First, what each call under the lock returns (`EraseResult`, `UpdateResult`,
`FinalizeResult`, `CompleteResult`, `ReleaseResult`, `RecalledResult`, `RegisterResult`): it leaves
the two indexes of the coordinator and its history in agreement (`Coherent`: `Indexed`, `Listed`,
`Settled`). Then the pages: each fits what the coordinator knows of it (`Fits`), an operation counts the pages that
use it (`Counts`), a page takes requests
up in order and begins none twice (`Ordered`), so that it joins an operation once, and a request that
was restarted has its operation claimed unless it lapsed (`Claimed`). `StepJoined` relates one call of
the coordinator to one page's step; `LeaveJoined`, `BeginJoined`, `ContinueJoined` and `DoneJoined`
apply it. From it: `OperationsAccountedAlways`, `RestartedOnceAlways` and `BarrierTypeCorrect`, for any
finite set of windows and any number of requests.

**PromptTurnProofs.** An operation of the App is a composition of operators on its record, so the
invariant is stated of a record `a` and the events `e` it has still to handle; `IInv` is that for
`app` and `events`, with the client's types. The queue holds each request once, the user's own in
the order of entry and before the automatic ones (`QueueOK`); a request that waits has left no
trace (`FreshOK`); the turn, the App's active prompt and the cancelled requests agree (`TurnOK`);
whatever is under way, in the channel, in a task or among the events, belongs to the current turn,
and a prompt's last event is its last (`FlightOK`); the loss of a connection is told in order and
leaves only cancelled tasks (`TransportOK`); a task works in, and an event tells of, a session that
the App knows, will be told of or has given up (`TaskOK`, `EventOK`); tab and client agree on the
session but for what is on the way between them (`SessionOK`); the end of a turn is still to come
(`ServedOK`). The last four are needed because the App accepts an event by its session: without
them an end could be ignored, or be taken for a conversation in a session that replaced its own.
`Core`, `Trims`, `Cancels`, `Rests`, `Advances`, `Finishes` and `Launches` are the kinds of change
the App's operators make; each is shown once to keep the invariant, and each operator is shown to be
of its kind. An action of the App then proceeds (`Proceeds`), one of the client serves (`Serves`),
and both are steps of PromptFlight. `Kept`, the filtered queue, is a recursive function; what it
returns is again shown by a least counterexample. From it, for any number of requests, sessions,
chunks and operations: `PromptTypeCorrect`, `OutputIsItsOwnAlways`, `TurnIsServedAlways`,
`ResumableWasAskedAlways` and the refinement `KeepsFlightPromiseAlways`.

The type invariants of AgentPool, SessionRouting and SharedWta are proved and not part of a run; those
of TabRetirement, PromptTurn and RestartBarrier are proved and checked. Every safety invariant and
the refinement that a run checks has a theorem. Only model-checked: the liveness properties
(fairness and ENABLED are beyond the prover).

## 10. Not modelled

- *Notifications and usage backpressure*: delivery is best effort; the one rule, that usage is
  kept when a channel is full, needs a model of its own (hazard at `mod.rs:2519`).
- *History discovery*, *session registry and reducer*, *session watchers*: caches filled from
  listings and events. SessionRouting keeps which sessions have a live row, and no more.
- *MCP tokens and the HTTP endpoint*, *the proposal channel*: request and response; what they
  change in a session or a turn is modelled there.
- *Process creation, jobs, pipes and their security*: operating-system calls, modelled by their
  outcomes.
- *The rest of the COM server, panes, settings and user interface; hook installer; command line*:
  rendering, file edits and sequential code.
- *Terminal core, console host, parser, renderer*: inherited from upstream Windows Terminal and
  by far the larger part of the repository; not this program's own logic.

## 11. Plan

1. Notifications: a helper's channel, pending usage and route replacement.
2. The session registry's reducer over hook, watcher and ACP events.
3. Composition of TabRetirement with RestartBarrier: the report of a retirement as the event the
   pages wait for.

## 12. Running

`tlc -config AgentPool.cfg MCAgentPool`, and likewise each configuration with the `MC` module
its name begins with (`TabRetirement_all.cfg` with `MCTabRetirement`); `tlapm AgentPoolProofs.tla`,
and likewise SessionRoutingProofs, SessionOwnershipProofs, TabRetirementProofs, TabFinalityProofs,
SharedWtaProofs, RestartBarrierProofs and PromptTurnProofs. The longest run takes about two minutes,
PromptTurnProofs about six and each other proof module up to three.
