----------------------------- MODULE SharedWta -----------------------------
(***************************************************************************)
(* The supervision of the wta-master process inside Windows Terminal       *)
(* (src/src/cascadia/TerminalApp/SharedWta.cpp).  One SharedWta object     *)
(* starts the master lazily, watches it, replaces it once when it dies     *)
(* unexpectedly, restarts it on request and stops it when policy or        *)
(* process exit says so.  Every method runs under _mtx, so a call is one   *)
(* step.  What interleaves with the calls is Windows: processes that exit  *)
(* at any time, job termination that is asynchronous, and the thread-pool  *)
(* callback of a wait, which may run long after its wait was unregistered. *)
(***************************************************************************)
EXTENDS Naturals, FiniteSets

CONSTANTS
    Panes,   \* owners of leases: agent panes and kept tab groups
    Args,    \* command lines (wta path, arguments and environment)
    NoArgs,  \* nothing is cached
    MaxGen,  \* bound: generations reserved
    MaxOps   \* bound: calls made by windows and policy

ASSUME SharedWtaAssumption ==
    /\ NoArgs \notin Args
    /\ IsFiniteSet(Panes)
    /\ MaxGen \in Nat /\ MaxOps \in Nat

Gens == 1..MaxGen

VARIABLES
    m,       \* the fields of SharedWta, see TypeOfMaster
    live,    \* the master process started in a generation, as Windows sees it
    wait,    \* the thread-pool wait on that process
    launch,  \* the command line it was started with
    lease,   \* the SharedWtaLease of a pane
    calls,   \* calls made so far
    unasked, \* masters started since one was last asked for
    stopped  \* generations whose master _StopLocked let go

\* m.process, m.job and m.waitHandle hold the generation of the process they
\* belong to, 0 for an invalid handle.  _pid and _masterGeneration change
\* together with _process.
TypeOfMaster ==
    [process : 0..MaxGen, job : 0..MaxGen, waitHandle : 0..MaxGen,
     nextGen : 0..MaxGen, waitGen : 0..MaxGen, armed : 0..MaxGen,
     cached : Args \cup {NoArgs},
     requested : BOOLEAN, enabled : BOOLEAN, shuttingDown : BOOLEAN,
     suppressed : BOOLEAN, refCount : Nat, activeRefCount : Nat]

\* "dying": termination was requested and has not finished.
TypeOK ==
    /\ m \in TypeOfMaster
    /\ live \in [Gens -> {"none", "running", "dying", "exited"}]
    /\ wait \in [Gens -> {"none", "registered", "queued"}]
    /\ launch \in [Gens -> Args \cup {NoArgs}]
    /\ lease \in [Panes -> {"none", "active", "retiring"}]
    /\ calls \in 0..MaxOps
    /\ unasked \in Nat
    /\ stopped \subseteq Gens

vars == <<m, live, wait, launch, lease, calls, unasked, stopped>>

\* What one locked call works on; a call is a set of possible results.
State == [m |-> m, live |-> live, wait |-> wait, launch |-> launch, ok |-> TRUE]

Become(s) ==
    /\ m' = s.m
    /\ live' = s.live
    /\ wait' = s.wait
    /\ launch' = s.launch

Failed(s) == [s EXCEPT !.ok = FALSE]

---------------------------------------------------------------------------
(* Windows *)

\* The process of generation g ends; a registered wait fires.
Ended(s, g) ==
    [s EXCEPT !.live[g] = "exited",
              !.wait[g] = IF @ = "registered" THEN "queued" ELSE @]

Alive(s, g) == g # 0 /\ s.live[g] \in {"running", "dying"}

\* Closing the last handle of a KILL_ON_JOB_CLOSE job asks for termination.
CloseJob(s) ==
    [s EXCEPT !.m.job = 0,
              !.live = [g \in Gens |-> IF g = s.m.job /\ s.live[g] = "running"
                                       THEN "dying" ELSE s.live[g]]]

\* UnregisterWaitEx(_, nullptr) does not wait for a callback that is queued.
Unregister(s) ==
    [s EXCEPT !.m.waitHandle = 0,
              !.wait = [g \in Gens |-> IF g = s.m.waitHandle /\ s.wait[g] = "registered"
                                       THEN "none" ELSE s.wait[g]]]

\* A master crashes or is killed, or its termination finishes.
Exit(g) ==
    /\ Alive(State, g)
    /\ Become(Ended(State, g))
    /\ UNCHANGED <<lease, calls, unasked, stopped>>

---------------------------------------------------------------------------
(* The locked helpers *)

\* The process may end between the close of its job and the unregistration.
CleanupLocked(s) ==
    LET killed == CloseJob(s)
    IN  {[Unregister(k) EXCEPT !.m.process = 0, !.m.waitGen = 0, !.m.armed = 0] :
            k \in {killed} \cup {Ended(killed, g) : g \in {p \in {s.m.process} : Alive(s, p)}}}

\* Mutant: the first command line stays cached.
StartedKeepsCache(s, args, arm, watched) ==
    LET g == s.m.nextGen
    IN  [s EXCEPT !.ok = TRUE, !.live[g] = "running", !.launch[g] = args,
                  !.wait[g] = IF watched THEN "registered" ELSE "none",
                  !.m.process = g, !.m.job = g, !.m.requested = TRUE,
                  !.m.cached = IF @ = NoArgs THEN args ELSE @,
                  !.m.waitHandle = IF watched THEN g ELSE 0,
                  !.m.waitGen = IF watched THEN g ELSE 0,
                  !.m.armed = IF watched /\ arm THEN g ELSE 0]

\* Mutant: the wait is registered under a generation nobody can claim.
StartedUnclaimable(s, args, arm, watched) ==
    LET g == s.m.nextGen
    IN  [s EXCEPT !.ok = TRUE, !.live[g] = "running", !.launch[g] = args,
                  !.wait[g] = IF watched THEN "registered" ELSE "none",
                  !.m.process = g, !.m.job = g, !.m.requested = TRUE, !.m.cached = args,
                  !.m.waitHandle = IF watched THEN g ELSE 0,
                  !.m.waitGen = 0,
                  !.m.armed = IF watched /\ arm THEN g ELSE 0]

\* The master of the generation just reserved runs and is published.  Without
\* a wait it runs unwatched and unarmed.
Started(s, args, arm, watched) ==
    LET g == s.m.nextGen
    IN  [s EXCEPT !.ok = TRUE, !.live[g] = "running", !.launch[g] = args,
                  !.wait[g] = IF watched THEN "registered" ELSE "none",
                  !.m = [@ EXCEPT !.process = g, !.job = g, !.requested = TRUE, !.cached = args,
                                  !.waitHandle = IF watched THEN g ELSE 0,
                                  !.waitGen = IF watched THEN g ELSE 0,
                                  !.armed = IF watched /\ arm THEN g ELSE 0]]

\* The child could not be resumed: its wait is unregistered, which does not
\* stop a callback that is queued, before it is terminated.
Unresumed(s) ==
    {[s EXCEPT !.m.waitGen = 0, !.wait[s.m.nextGen] = f] : f \in {"none", "queued"}}

\* A generation is reserved before anything is started.  A child that cannot
\* be put into a job or resumed is terminated before it runs.
SpawnLocked(s, args, arm) ==
    LET g == s.m.nextGen + 1
        reserved == [s EXCEPT !.m.nextGen = g]
        killed == [reserved EXCEPT !.live[g] = "exited"]
    IN  {Failed(s)} \cup
        (IF g \notin Gens THEN {}
         ELSE {Failed(r) : r \in {reserved, killed} \cup Unresumed(killed)}
              \cup {Started(reserved, args, arm, watched) : watched \in BOOLEAN})

\* Mutant: shutdown forgotten.
BarredNotByShutdown(s) == ~s.m.enabled \/ s.m.suppressed

\* Nothing may be started.
Barred(s) == ~s.m.enabled \/ s.m.shuttingDown \/ s.m.suppressed

\* Mutant: polling starts a service that was given up.
EnsureStartedWhenPolled(s, args, explicitRetry) ==
    IF Barred(s) THEN {Failed(s)}
    ELSE IF s.m.process # 0 THEN {[s EXCEPT !.m.requested = TRUE]}
    ELSE SpawnLocked(s, args, TRUE)

EnsureStartedLocked(s, args, explicitRetry) ==
    IF Barred(s) THEN {Failed(s)}
    ELSE IF s.m.process # 0 THEN {[s EXCEPT !.m.requested = TRUE]}
    ELSE IF s.m.requested /\ ~explicitRetry THEN {Failed(s)}
    ELSE SpawnLocked(s, args, TRUE)

\* The master gets three seconds to clean up; the process handle is dropped
\* whether it exited or not.  An exception closes the job and keeps the rest.
StopLocked(s) ==
    LET retired == [s EXCEPT !.m.armed = 0]
        waited == {retired} \cup {Ended(retired, g) : g \in {p \in {s.m.process} : Alive(s, p)}}
    IN  {CloseJob(retired)} \cup UNION {CleanupLocked(w) : w \in waited}

\* A replacement is started only when the old process is known to have
\* exited, by itself or by force; otherwise nothing is ever started again.
EnsureProcessExitedBeforeRestart(s, g) ==
    {Failed(s)} \cup {IF Alive(s, g) THEN Ended(s, g) ELSE s}

\* Mutant: the replacement does not wait for the old master.
RestartAtOnce(s, args) ==
    UNION {SpawnLocked(k, args, TRUE) : k \in CleanupLocked(s)}

RestartLocked(s, args) ==
    UNION {IF e.ok THEN SpawnLocked(e, args, TRUE)
                   ELSE {[e EXCEPT !.m.suppressed = TRUE]} :
           e \in UNION {EnsureProcessExitedBeforeRestart(c, s.m.process) : c \in CleanupLocked(s)}}

---------------------------------------------------------------------------
(* The calls of windows and policy *)

Call == calls < MaxOps /\ calls' = calls + 1

\* r is the result of a call: a new master is the one that was asked for.
Asked(r) ==
    /\ Become(r)
    /\ unasked' = IF r.m.process \notin {0, m.process} THEN 0 ELSE unasked

\* r is the result of a step that nobody asked to start a master.
Unasked(r) ==
    /\ Become(r)
    /\ unasked' = IF r.m.process \notin {0, m.process} THEN unasked + 1 ELSE unasked

\* Status polling by a window.
EnsureStarted(args) ==
    /\ Call
    /\ \E r \in EnsureStartedLocked(State, args, FALSE) :
          IF m.requested THEN Unasked(r) ELSE Asked(r)
    /\ UNCHANGED <<lease, stopped>>

AcquireLeaseLocked(s) ==
    [s EXCEPT !.m.refCount = @ + 1, !.m.activeRefCount = @ + 1]

AcquirePane(p, args) ==
    /\ Call
    /\ lease[p] = "none"
    /\ \E r \in EnsureStartedLocked(State, args, TRUE) :
          /\ Asked(IF r.ok THEN AcquireLeaseLocked(r) ELSE r)
          /\ lease' = IF r.ok THEN [lease EXCEPT ![p] = "active"] ELSE lease
    /\ UNCHANGED stopped

\* A kept tab group without panes demands the service as well.
AcquireKeepRunningLease(p) ==
    /\ Call
    /\ lease[p] = "none"
    /\ m.requested /\ m.enabled /\ ~m.shuttingDown
    /\ Become(AcquireLeaseLocked(State))
    /\ lease' = [lease EXCEPT ![p] = "active"]
    /\ UNCHANGED <<unasked, stopped>>

ReleaseLease(s, active) ==
    [s EXCEPT !.m.refCount = @ - 1,
              !.m.activeRefCount = IF active THEN @ - 1 ELSE @]

\* Rollback of a creation, and the end of the grace period of a retired
\* lease: the reference goes, and the demand if it is still there.
Reset(p) ==
    /\ lease[p] # "none"
    /\ Become(ReleaseLease(State, lease[p] = "active"))
    /\ lease' = [lease EXCEPT ![p] = "none"]
    /\ UNCHANGED <<calls, unasked, stopped>>

\* The demand goes at once, the reference stays for the grace period; when
\* the coroutine that waits cannot be started the reference goes too.
Retire(p) ==
    /\ lease[p] = "active"
    /\ LET retiring == [State EXCEPT !.m.activeRefCount = @ - 1]
       IN  \/ /\ Become(retiring)
              /\ lease' = [lease EXCEPT ![p] = "retiring"]
           \/ /\ Become(ReleaseLease(retiring, FALSE))
              /\ lease' = [lease EXCEPT ![p] = "none"]
    /\ UNCHANGED <<calls, unasked, stopped>>

LetGo == stopped' = stopped \cup ({m.process} \ {0})

SetEnabled(enabled) ==
    /\ Call
    /\ LET s == [State EXCEPT !.m.enabled = enabled]
       IN  IF enabled
           THEN Become(s) /\ UNCHANGED stopped
           ELSE /\ \E r \in StopLocked([s EXCEPT !.m.requested = FALSE]) : Become(r)
                /\ LetGo
    /\ UNCHANGED <<lease, unasked>>

Shutdown ==
    /\ Call
    /\ \E r \in StopLocked([State EXCEPT !.m.shuttingDown = TRUE, !.m.requested = FALSE]) :
          Become(r)
    /\ LetGo
    /\ UNCHANGED <<lease, unasked>>

\* Restart(): the cached command line again, also for a master that is gone.
RestartCached(s) ==
    IF Barred(s) \/ s.m.cached = NoArgs THEN {Failed(s)}
    ELSE IF s.m.process = 0 THEN SpawnLocked(s, s.m.cached, TRUE)
    ELSE RestartLocked(s, s.m.cached)

\* Restart(args): the master keeps running if it has these arguments already,
\* and is not started if nobody has asked for the service.
RestartWith(s, args) ==
    IF Barred(s) THEN {Failed(s)}
    ELSE IF s.m.process = 0
         THEN IF s.m.requested THEN SpawnLocked(s, args, TRUE) ELSE {s}
    ELSE IF s.m.cached = args THEN {s}
    ELSE RestartLocked(s, args)

\* The page that claimed a /restart (module RestartBarrier).
Restart ==
    /\ Call
    /\ \E r \in RestartCached(State) : Asked(r)
    /\ UNCHANGED <<lease, stopped>>

\* A window applies new settings.
Reconfigure(args) ==
    /\ Call
    /\ \E r \in RestartWith(State, args) : Asked(r)
    /\ UNCHANGED <<lease, stopped>>

---------------------------------------------------------------------------
(* The wait callback *)

\* Mutant: the callback takes whatever master there is now for its own.
ClaimAny(s, g) == s.m.waitGen # 0

\* The callback of generation g may touch the object.
Claim(s, g) == g = s.m.waitGen

ShouldRespawn(s, g) ==
    /\ g = s.m.armed
    /\ s.m.requested /\ ~Barred(s) /\ s.m.cached # NoArgs

OnProcessExitedOutcomes(s, g) ==
    LET claimed == [s EXCEPT !.m.waitGen = 0]
        cleared == [Unregister(CloseJob(claimed)) EXCEPT
                       !.m.process = 0, !.m.armed = IF @ = g THEN 0 ELSE @]
    IN  IF ~Claim(s, g) THEN {s}
        ELSE IF s.m.process = 0 THEN {[claimed EXCEPT !.m.armed = 0]}
        ELSE IF ShouldRespawn(s, g) THEN SpawnLocked(cleared, s.m.cached, FALSE)
        ELSE {cleared}

OnProcessExited(g) ==
    /\ wait[g] = "queued"
    /\ \E r \in OnProcessExitedOutcomes([State EXCEPT !.wait[g] = "none"], g) : Unasked(r)
    /\ UNCHANGED <<lease, calls, stopped>>

---------------------------------------------------------------------------

Init ==
    /\ m = [process |-> 0, job |-> 0, waitHandle |-> 0, nextGen |-> 0, waitGen |-> 0,
            armed |-> 0, cached |-> NoArgs, requested |-> FALSE, enabled |-> TRUE,
            shuttingDown |-> FALSE, suppressed |-> FALSE, refCount |-> 0, activeRefCount |-> 0]
    /\ live = [g \in Gens |-> "none"]
    /\ wait = [g \in Gens |-> "none"]
    /\ launch = [g \in Gens |-> NoArgs]
    /\ lease = [p \in Panes |-> "none"]
    /\ calls = 0 /\ unasked = 0 /\ stopped = {}

Next ==
    \/ \E g \in Gens : Exit(g) \/ OnProcessExited(g)
    \/ \E a \in Args : EnsureStarted(a) \/ Reconfigure(a)
    \/ \E p \in Panes : Reset(p) \/ Retire(p) \/ AcquireKeepRunningLease(p)
    \/ \E p \in Panes, a \in Args : AcquirePane(p, a)
    \/ \E e \in BOOLEAN : SetEnabled(e)
    \/ Restart \/ Shutdown

Spec == Init /\ [][Next]_vars

\* Windows finishes a termination and runs a queued callback.
FairSpec ==
    /\ Spec
    /\ \A g \in Gens : /\ WF_vars(live[g] = "dying" /\ Exit(g))
                       /\ WF_vars(OnProcessExited(g))

---------------------------------------------------------------------------
(* Properties *)

\* Two masters never compete for the stable pipe name: a restart or a recovery
\* starts a replacement only after the old process is known to have exited.
\* The exception are masters that _StopLocked let go of after its deadline,
\* when policy enables the service again before they are gone.
OneMaster ==
    \A g, h \in Gens \ stopped : Alive(State, g) /\ Alive(State, h) => g = h

\* A master that runs is the one the object holds, in a job, so that it goes
\* when the object lets go of it; none runs while policy disables the service
\* or after shutdown, whatever callbacks and recoveries were pending.
RunningIsOwned ==
    \A g \in Gens : live[g] = "running" =>
        m.process = g /\ m.job = g /\ m.enabled /\ ~m.shuttingDown

\* The shortcut of Restart(args) is right: what is cached is what the master
\* that is held was started with, also after failed spawns and recoveries.
CachedIsLaunched == m.process # 0 => m.cached = launch[m.process]

\* A master that keeps dying is replaced once and then left alone, although
\* windows keep polling: only a pane, a restart or new settings start another.
RecoveryIsBounded == unasked <= 1

\* Every lease is counted once while it is held, and as active demand until
\* it is retired, whichever way it ends: neither count can go below zero.
LeasesCounted ==
    /\ m.refCount = Cardinality({p \in Panes : lease[p] # "none"})
    /\ m.activeRefCount = Cardinality({p \in Panes : lease[p] = "active"})

\* A callback that runs late, after its master was replaced, does no harm to
\* the replacement: no callback ends a master that runs.
CallbackHarmsNobody ==
    [][(\E g \in Gens : OnProcessExited(g)) =>
          \A h \in Gens : live[h] = "running" => live'[h] = "running"]_vars

\* The death of a master that is watched does not go unnoticed: the object
\* eventually lets go of it, so that polling and panes see the truth.
DeathIsNoticed ==
    \A g \in Gens :
        (m.process = g /\ m.waitHandle = g /\ live[g] = "exited") ~> (m.process # g)
=============================================================================
