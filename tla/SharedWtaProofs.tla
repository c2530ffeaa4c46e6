-------------------------- MODULE SharedWtaProofs --------------------------
(***************************************************************************)
(* The safety of the supervision of wta-master, for every number of panes, *)
(* command lines, generations and calls.  A call of SharedWta is a set of  *)
(* possible results, so the proof is about states: each locked helper has  *)
(* a lemma that says what its results have in common, and Sound(s, st) is  *)
(* what every call keeps.  SupervisionInv adds to it the policy flags, the *)
(* counts of the leases and the budget of recoveries.                      *)
(***************************************************************************)
EXTENDS SharedWta, FiniteSetTheorems, TLAPS

\* What one locked call works on.
StateType ==
    [m : TypeOfMaster,
     live : [Gens -> {"none", "running", "dying", "exited"}],
     wait : [Gens -> {"none", "registered", "queued"}],
     launch : [Gens -> Args \cup {NoArgs}],
     ok : BOOLEAN]

---------------------------------------------------------------------------
(* What the helpers return *)

\* Closing the job ends only the process in it.
LEMMA CloseJobType ==
    ASSUME NEW s \in StateType
    PROVE  /\ CloseJob(s) \in StateType
           /\ CloseJob(s).m = [s.m EXCEPT !.job = 0]
           /\ CloseJob(s).wait = s.wait
           /\ CloseJob(s).launch = s.launch
           /\ CloseJob(s).ok = s.ok
           /\ \A g \in Gens : CloseJob(s).live[g] =
                 IF g = s.m.job /\ s.live[g] = "running" THEN "dying" ELSE s.live[g]
<1> DEFINE lv == [g \in Gens |-> IF g = s.m.job /\ s.live[g] = "running" THEN "dying" ELSE s.live[g]]
<1>1. s.m \in TypeOfMaster /\ s.live \in [Gens -> {"none", "running", "dying", "exited"}]
  BY DEF StateType
<1>2. [s.m EXCEPT !.job = 0] \in TypeOfMaster
  BY <1>1, SharedWtaAssumption DEF TypeOfMaster
<1>3. lv \in [Gens -> {"none", "running", "dying", "exited"}]
  BY <1>1
<1>4. CloseJob(s) = [s EXCEPT !.m = [s.m EXCEPT !.job = 0], !.live = lv]
  BY DEF CloseJob, StateType
<1> HIDE DEF lv
<1>5. CloseJob(s) \in StateType /\ CloseJob(s).live = lv
  BY <1>2, <1>3, <1>4 DEF StateType
<1> QED
  BY <1>4, <1>5 DEF StateType, lv

\* Unregistering a wait queues no callback and ends no process.
LEMMA UnregisterType ==
    ASSUME NEW s \in StateType
    PROVE  /\ Unregister(s) \in StateType
           /\ Unregister(s).m = [s.m EXCEPT !.waitHandle = 0]
           /\ Unregister(s).live = s.live
           /\ Unregister(s).launch = s.launch
           /\ Unregister(s).ok = s.ok
           /\ \A g \in Gens : Unregister(s).wait[g] \in {s.wait[g], "none"}
<1> DEFINE wt == [g \in Gens |-> IF g = s.m.waitHandle /\ s.wait[g] = "registered"
                                 THEN "none" ELSE s.wait[g]]
<1>1. s.m \in TypeOfMaster /\ s.wait \in [Gens -> {"none", "registered", "queued"}]
  BY DEF StateType
<1>2. [s.m EXCEPT !.waitHandle = 0] \in TypeOfMaster
  BY <1>1, SharedWtaAssumption DEF TypeOfMaster
<1>3. wt \in [Gens -> {"none", "registered", "queued"}]
  BY <1>1
<1>4. Unregister(s) = [s EXCEPT !.m = [s.m EXCEPT !.waitHandle = 0], !.wait = wt]
  BY DEF Unregister, StateType
<1> HIDE DEF wt
<1>5. Unregister(s) \in StateType /\ Unregister(s).wait = wt
  BY <1>2, <1>3, <1>4 DEF StateType
<1> QED
  BY <1>4, <1>5 DEF StateType, wt

\* The end of a process queues only its own callback.
LEMMA EndedType ==
    ASSUME NEW s \in StateType, NEW g \in Gens
    PROVE  /\ Ended(s, g) \in StateType
           /\ Ended(s, g).m = s.m
           /\ Ended(s, g).launch = s.launch
           /\ Ended(s, g).ok = s.ok
           /\ \A h \in Gens : Ended(s, g).live[h] = IF h = g THEN "exited" ELSE s.live[h]
           /\ \A h \in Gens : Ended(s, g).wait[h] =
                 IF h = g /\ s.wait[h] = "registered" THEN "queued" ELSE s.wait[h]
BY DEF Ended, StateType

\* The mutable part of a state that failed is what it was.
LEMMA FailedType ==
    ASSUME NEW s \in StateType
    PROVE  /\ Failed(s) \in StateType
           /\ Failed(s).m = s.m /\ Failed(s).live = s.live
           /\ Failed(s).wait = s.wait /\ Failed(s).launch = s.launch
           /\ Failed(s).ok = FALSE
BY DEF Failed, StateType

---------------------------------------------------------------------------
(* What holds of a state, whichever call is under way *)

\* A master that runs is the one that is held, and in the job that is held.
RunHeld(s) == \A g \in Gens : s.live[g] = "running" => s.m.process = g /\ s.m.job = g
\* The master that is held was started with what is cached.
CacheTrue(s) ==
    /\ s.m.process # 0 => s.m.cached = s.launch[s.m.process]
    /\ s.m.process <= s.m.nextGen
\* A callback is queued only for a process that has exited.
QueuedIsDead(s) == \A g \in Gens : s.wait[g] = "queued" => s.live[g] = "exited"
\* Only the callback of the master that is held can claim the object.
WaitOwned(s) == s.m.waitGen # 0 => s.m.process = s.m.waitGen
\* Of the generations that _StopLocked has not let go of, at most one has a
\* process, and it is the one that is held unless nothing is started any more.
OneAlive(s, st) ==
    /\ \A g, h \in Gens \ st : Alive(s, g) /\ Alive(s, h) => g = h
    /\ ~s.m.suppressed => \A g \in Gens \ st : Alive(s, g) => g = s.m.process

Sound(s, st) ==
    /\ s \in StateType
    /\ RunHeld(s) /\ CacheTrue(s) /\ QueuedIsDead(s) /\ WaitOwned(s) /\ OneAlive(s, st)

\* Nothing runs against policy; a call that stops the service breaks this for
\* a moment, so it is not part of Sound.
Permitted(s) == \A g \in Gens : s.live[g] = "running" => s.m.enabled /\ ~s.m.shuttingDown

\* From s to r nothing was started.
Calms(s, r) ==
    /\ \A g \in Gens : Alive(r, g) => Alive(s, g)
    /\ \A g \in Gens : r.live[g] = "running" => s.live[g] = "running"
    /\ \A g \in Gens : s.live[g] = "exited" => r.live[g] = "exited"
    /\ \A g \in Gens : r.wait[g] = "queued" => s.wait[g] = "queued" \/ r.live[g] = "exited"

LEMMA CleanupOutcome ==
    ASSUME NEW s \in StateType, NEW r \in CleanupLocked(s)
    PROVE  /\ r \in StateType
           /\ r.m = [s.m EXCEPT !.job = 0, !.waitHandle = 0, !.process = 0,
                                !.waitGen = 0, !.armed = 0]
           /\ r.launch = s.launch
           /\ r.ok = s.ok
           /\ Calms(s, r)
           /\ \A g \in Gens : r.live[g] = "running" => g # s.m.job
<1> DEFINE killed == CloseJob(s)
           Closed(x) == /\ x \in StateType
                        /\ x.m = [s.m EXCEPT !.job = 0]
                        /\ x.launch = s.launch /\ x.ok = s.ok
                        /\ Calms(s, x)
                        /\ \A g \in Gens : x.live[g] = "running" => g # s.m.job
<1>1. PICK k \in {killed} \cup {Ended(killed, g) : g \in {p \in {s.m.process} : Alive(s, p)}} :
        r = [Unregister(k) EXCEPT !.m.process = 0, !.m.waitGen = 0, !.m.armed = 0]
  BY DEF CleanupLocked
<1>2. Closed(killed)
  BY CloseJobType DEF Calms, Alive
<1> HIDE DEF killed
<1>3. Closed(k)
  <2>1. CASE k = killed BY <2>1, <1>2
  <2>2. ASSUME NEW g \in {p \in {s.m.process} : Alive(s, p)}, k = Ended(killed, g)
        PROVE  Closed(k)
    <3>1. g \in Gens
      BY <2>2, SharedWtaAssumption DEF Alive, StateType, TypeOfMaster, Gens
    <3>2. /\ k \in StateType /\ k.m = killed.m /\ k.launch = killed.launch /\ k.ok = killed.ok
          /\ \A h \in Gens : k.live[h] = IF h = g THEN "exited" ELSE killed.live[h]
          /\ \A h \in Gens : k.wait[h] =
                 IF h = g /\ killed.wait[h] = "registered" THEN "queued" ELSE killed.wait[h]
      BY <2>2, <3>1, <1>2, EndedType
    <3>3. Calms(s, k)
      BY <3>2, <1>2 DEF Calms, Alive
    <3> QED BY <3>2, <3>3, <1>2
  <2> QED BY <1>1, <2>1, <2>2
<1>4. Unregister(k) \in StateType /\ Unregister(k).m = [k.m EXCEPT !.waitHandle = 0]
      /\ Unregister(k).live = k.live /\ Unregister(k).launch = k.launch
      /\ Unregister(k).ok = k.ok
      /\ \A g \in Gens : Unregister(k).wait[g] \in {k.wait[g], "none"}
  BY <1>3, UnregisterType
<1> DEFINE u == Unregister(k)
<1> HIDE DEF u
<1>5. r = [u EXCEPT !.m = [u.m EXCEPT !.process = 0, !.waitGen = 0, !.armed = 0]]
  BY <1>1, <1>4 DEF StateType, u
<1>6. [u.m EXCEPT !.process = 0, !.waitGen = 0, !.armed = 0] \in TypeOfMaster
      /\ [u.m EXCEPT !.process = 0, !.waitGen = 0, !.armed = 0]
           = [s.m EXCEPT !.job = 0, !.waitHandle = 0, !.process = 0, !.waitGen = 0, !.armed = 0]
  BY <1>3, <1>4, SharedWtaAssumption DEF StateType, TypeOfMaster, u
<1>7. r \in StateType /\ r.live = k.live /\ r.launch = s.launch /\ r.ok = s.ok
      /\ r.wait = u.wait /\ r.m = [u.m EXCEPT !.process = 0, !.waitGen = 0, !.armed = 0]
  BY <1>3, <1>4, <1>5, <1>6 DEF StateType, u
<1>8. Calms(s, r)
  BY <1>3, <1>4, <1>7 DEF Calms, Alive, u
<1> QED
  BY <1>3, <1>6, <1>7, <1>8

\* _CleanupLocked lets go of a master that may still be dying.
LEMMA CleanupSound ==
    ASSUME NEW s, NEW st, Sound(s, st), NEW r \in CleanupLocked(s)
    PROVE  Sound(r, st \cup {s.m.process}) /\ \A g \in Gens : r.live[g] # "running"
<1>1. s \in StateType BY DEF Sound
<1>2. /\ r \in StateType /\ r.launch = s.launch /\ Calms(s, r)
      /\ r.m = [s.m EXCEPT !.job = 0, !.waitHandle = 0, !.process = 0, !.waitGen = 0, !.armed = 0]
      /\ \A g \in Gens : r.live[g] = "running" => g # s.m.job
  BY <1>1, CleanupOutcome
<1>3. /\ r.m.process = 0 /\ r.m.waitGen = 0 /\ r.m.nextGen = s.m.nextGen
      /\ r.m.suppressed = s.m.suppressed /\ s.m.nextGen \in 0..MaxGen
  BY <1>1, <1>2 DEF StateType, TypeOfMaster
<1>4. \A g \in Gens : r.live[g] # "running"
  BY <1>2 DEF Sound, RunHeld, Calms
<1>5. CacheTrue(r) /\ WaitOwned(r)
  BY <1>3, SharedWtaAssumption DEF CacheTrue, WaitOwned
<1>6. QueuedIsDead(r)
  BY <1>2 DEF Calms, QueuedIsDead, Sound
<1>7. OneAlive(r, st \cup {s.m.process})
  <2>1. \A g \in Gens : Alive(r, g) => Alive(s, g) BY <1>2 DEF Calms
  <2> QED BY <2>1, <1>3 DEF OneAlive, Sound
<1> QED BY <1>2, <1>4, <1>5, <1>6, <1>7 DEF Sound, RunHeld

\* A start that failed: a generation may be used up, and nothing else changed.
NotStarted(s, r) ==
    /\ Calms(s, r) /\ r.launch = s.launch
    /\ r.m = [s.m EXCEPT !.nextGen = r.m.nextGen, !.waitGen = r.m.waitGen]
    /\ r.m.nextGen >= s.m.nextGen /\ r.m.waitGen \in {0, s.m.waitGen}

\* A start that succeeded, with a wait or without.
WasStarted(s, r, args, arm, watched) ==
    LET g == s.m.nextGen + 1
    IN  /\ g \in Gens
        /\ r.m = [s.m EXCEPT !.nextGen = g, !.process = g, !.job = g,
                             !.requested = TRUE, !.cached = args,
                             !.waitHandle = IF watched THEN g ELSE 0,
                             !.waitGen = IF watched THEN g ELSE 0,
                             !.armed = IF watched /\ arm THEN g ELSE 0]
        /\ r.live = [s.live EXCEPT ![g] = "running"]
        /\ r.wait = [s.wait EXCEPT ![g] = IF watched THEN "registered" ELSE "none"]
        /\ r.launch = [s.launch EXCEPT ![g] = args]

\* _SpawnLocked starts a master or changes nothing that matters.
LEMMA SpawnOutcome ==
    ASSUME NEW s \in StateType, NEW args \in Args, NEW arm \in BOOLEAN,
           NEW r \in SpawnLocked(s, args, arm)
    PROVE  /\ r \in StateType
           /\ NotStarted(s, r) \/ \E watched \in BOOLEAN : WasStarted(s, r, args, arm, watched)
<1> DEFINE g == s.m.nextGen + 1
           reserved == [s EXCEPT !.m.nextGen = g]
           killed == [reserved EXCEPT !.live[g] = "exited"]
<1>0. s.m \in TypeOfMaster BY DEF StateType
<1>1. CASE r = Failed(s)
  <2>1. s.m.nextGen \in 0..MaxGen /\ s.m = [s.m EXCEPT !.nextGen = s.m.nextGen, !.waitGen = s.m.waitGen]
    BY <1>0 DEF TypeOfMaster
  <2>2. r \in StateType /\ r.m = s.m /\ r.live = s.live /\ r.wait = s.wait /\ r.launch = s.launch
    BY <1>1, FailedType
  <2> QED BY <2>1, <2>2, SharedWtaAssumption DEF NotStarted, Calms, Alive
<1>2. CASE g \in Gens /\ r # Failed(s)
  <2>1. \/ \E f \in {reserved, killed} \cup Unresumed(killed) : r = Failed(f)
        \/ \E watched \in BOOLEAN : r = Started(reserved, args, arm, watched)
    BY <1>2 DEF SpawnLocked
  <2>2. [s.m EXCEPT !.nextGen = g] \in TypeOfMaster
    BY <1>0, <1>2, SharedWtaAssumption DEF TypeOfMaster, Gens
  <2>3. /\ reserved \in StateType /\ reserved.m = [s.m EXCEPT !.nextGen = g]
        /\ reserved.live = s.live /\ reserved.wait = s.wait /\ reserved.launch = s.launch
    BY <2>2 DEF StateType
  <2>4. /\ killed \in StateType /\ killed.m = reserved.m
        /\ killed.live = [s.live EXCEPT ![g] = "exited"]
        /\ killed.wait = s.wait /\ killed.launch = s.launch
    BY <2>3, <1>2 DEF StateType
  <2>5. g > s.m.nextGen /\ reserved.m.nextGen = g /\ reserved.m.waitGen = s.m.waitGen
    BY <1>0, <2>3, SharedWtaAssumption DEF TypeOfMaster
  <2> HIDE DEF killed, reserved
  <2>6. ASSUME NEW f \in {reserved, killed} \cup Unresumed(killed), r = Failed(f)
        PROVE  r \in StateType /\ NotStarted(s, r)
    <3>1. /\ f \in StateType /\ f.launch = s.launch
          /\ f.m = [s.m EXCEPT !.nextGen = f.m.nextGen, !.waitGen = f.m.waitGen]
          /\ f.m.nextGen = g /\ f.m.waitGen \in {0, s.m.waitGen}
          /\ \/ f.live = s.live /\ f.wait = s.wait
             \/ /\ f.live = [s.live EXCEPT ![g] = "exited"]
                /\ \A h \in Gens \ {g} : f.wait[h] = s.wait[h]
      <4>1. CASE f = reserved
        BY <4>1, <2>3, <2>5, <1>0 DEF TypeOfMaster
      <4>2. CASE f = killed
        BY <4>2, <2>3, <2>4, <2>5, <1>0 DEF TypeOfMaster
      <4>3. CASE f \in Unresumed(killed)
        <5>1. PICK x \in {"none", "queued"} :
                f = [killed EXCEPT !.m.waitGen = 0, !.wait[killed.m.nextGen] = x]
          BY <4>3 DEF Unresumed
        <5>2. killed.m.nextGen = g BY <2>4, <2>5
        <5>3. [killed.m EXCEPT !.waitGen = 0] \in TypeOfMaster
          BY <2>4, SharedWtaAssumption DEF StateType, TypeOfMaster
        <5>4. /\ f \in StateType /\ f.launch = killed.launch
              /\ f.m = [killed.m EXCEPT !.waitGen = 0] /\ f.live = killed.live
              /\ f.wait = [killed.wait EXCEPT ![g] = x]
          BY <5>1, <5>2, <5>3, <2>4, <1>2 DEF StateType
        <5>5. \A h \in Gens \ {g} : f.wait[h] = s.wait[h]
          BY <5>4, <2>4 DEF StateType
        <5>6. /\ f.m = [s.m EXCEPT !.nextGen = g, !.waitGen = 0]
              /\ f.m.nextGen = g /\ f.m.waitGen = 0
          BY <5>4, <2>3, <2>4, <1>0 DEF TypeOfMaster
        <5> QED BY <5>4, <5>5, <5>6, <2>4
      <4> QED BY <4>1, <4>2, <4>3
    <3>2. r \in StateType /\ r.m = f.m /\ r.live = f.live /\ r.wait = f.wait /\ r.launch = f.launch
      BY <3>1, <2>6, FailedType
    <3>3. Calms(s, r)
      BY <3>1, <3>2 DEF Calms, Alive, StateType
    <3>4. g >= s.m.nextGen
      BY <1>0, SharedWtaAssumption DEF TypeOfMaster
    <3> QED BY <3>1, <3>2, <3>3, <3>4 DEF NotStarted
  <2>7. ASSUME NEW watched \in BOOLEAN, r = Started(reserved, args, arm, watched)
        PROVE  r \in StateType /\ WasStarted(s, r, args, arm, watched)
    <3> DEFINE mm == [reserved.m EXCEPT !.process = g, !.job = g,
                             !.requested = TRUE, !.cached = args,
                             !.waitHandle = IF watched THEN g ELSE 0,
                             !.waitGen = IF watched THEN g ELSE 0,
                             !.armed = IF watched /\ arm THEN g ELSE 0]
    <3>1. mm \in TypeOfMaster
      <4>1. /\ g \in 0..MaxGen /\ (IF watched THEN g ELSE 0) \in 0..MaxGen
            /\ (IF watched /\ arm THEN g ELSE 0) \in 0..MaxGen
        BY <1>2, SharedWtaAssumption DEF Gens
      <4>2. reserved.m \in TypeOfMaster
        BY <2>3 DEF StateType
      <4> HIDE DEF g
      <4> QED BY <4>1, <4>2 DEF TypeOfMaster
    <3>2. r = [reserved EXCEPT !.ok = TRUE, !.live[g] = "running", !.launch[g] = args,
                  !.wait[g] = IF watched THEN "registered" ELSE "none", !.m = mm]
      BY <2>7, <2>3, <2>5 DEF Started, StateType
    <3>3. mm = [s.m EXCEPT !.nextGen = g, !.process = g, !.job = g,
                             !.requested = TRUE, !.cached = args,
                             !.waitHandle = IF watched THEN g ELSE 0,
                             !.waitGen = IF watched THEN g ELSE 0,
                             !.armed = IF watched /\ arm THEN g ELSE 0]
      BY <2>3, <1>0 DEF TypeOfMaster
    <3> HIDE DEF mm
    <3>4. /\ r \in StateType /\ r.m = mm
          /\ r.live = [s.live EXCEPT ![g] = "running"]
          /\ r.wait = [s.wait EXCEPT ![g] = IF watched THEN "registered" ELSE "none"]
          /\ r.launch = [s.launch EXCEPT ![g] = args]
      BY <3>1, <3>2, <2>3, <1>2 DEF StateType
    <3> QED BY <3>3, <3>4, <1>2 DEF WasStarted
  <2> QED BY <2>1, <2>6, <2>7
<1> QED BY <1>1, <1>2 DEF SpawnLocked

---------------------------------------------------------------------------
(* What a call does to a sound state *)

\* Calls other than those for leases leave the counts alone.
SameLeases(s, r) ==
    r.m.refCount = s.m.refCount /\ r.m.activeRefCount = s.m.activeRefCount

\* A call leaves the object sound, and arms recovery only for a master that it
\* started.
Served(s, r, st) ==
    /\ Sound(r, st) /\ Permitted(r) /\ SameLeases(s, r)
    /\ \/ r.m.process \in {0, s.m.process} /\ r.m.armed \in {0, s.m.armed}
       \/ r.m.process > s.m.nextGen

\* A start is safe when no master is held and nothing bars it: OneAlive then
\* says that no process competes with the new one.
LEMMA SpawnServed ==
    ASSUME NEW s, NEW st, Sound(s, st), s.m.process = 0, ~Barred(s),
           NEW args \in Args, NEW arm \in BOOLEAN, NEW r \in SpawnLocked(s, args, arm)
    PROVE  Served(s, r, st) /\ (arm \/ r.m.armed \in {0, s.m.armed})
<1>1. s \in StateType /\ s.m \in TypeOfMaster BY DEF Sound, StateType
<1>2. /\ r \in StateType
      /\ NotStarted(s, r) \/ \E watched \in BOOLEAN : WasStarted(s, r, args, arm, watched)
  BY <1>1, SpawnOutcome
<1>3. s.m.enabled /\ ~s.m.shuttingDown /\ ~s.m.suppressed
  BY DEF Barred
<1>4. s.m.waitGen = 0 BY DEF Sound, WaitOwned
<1>5. \A g \in Gens : s.live[g] # "running"
  BY DEF Sound, RunHeld, Gens
<1>6. \A g \in Gens \ st : ~Alive(s, g)
  BY <1>3 DEF Sound, OneAlive, Gens
<1>7. CASE NotStarted(s, r)
  <2>1. /\ r.m.process = 0 /\ r.m.waitGen = 0 /\ r.m.nextGen >= s.m.nextGen
        /\ r.m.suppressed = FALSE /\ r.m.armed = s.m.armed /\ SameLeases(s, r)
    BY <1>1, <1>3, <1>4, <1>7 DEF NotStarted, TypeOfMaster, SameLeases
  <2>2. \A g \in Gens : r.live[g] # "running"
    BY <1>5, <1>7 DEF NotStarted, Calms
  <2>3. \A g \in Gens \ st : ~Alive(r, g)
    BY <1>6, <1>7 DEF NotStarted, Calms
  <2>4. r.m.process <= r.m.nextGen
    BY <1>2, <2>1, SharedWtaAssumption DEF StateType, TypeOfMaster
  <2>5. QueuedIsDead(r)
    BY <1>7 DEF NotStarted, Calms, QueuedIsDead, Sound
  <2> QED
    BY <1>2, <2>1, <2>2, <2>3, <2>4, <2>5
    DEF Served, Sound, Permitted, RunHeld, CacheTrue, WaitOwned, OneAlive
<1>8. ASSUME NEW watched \in BOOLEAN, WasStarted(s, r, args, arm, watched)
      PROVE  Served(s, r, st) /\ (arm \/ r.m.armed \in {0, s.m.armed})
  <2> DEFINE g == s.m.nextGen + 1
  <2>1. /\ r.m.process = g /\ r.m.job = g /\ r.m.nextGen = g /\ r.m.cached = args
        /\ r.m.waitGen \in {0, g} /\ r.m.armed = (IF watched /\ arm THEN g ELSE 0)
        /\ r.m.enabled = s.m.enabled /\ r.m.shuttingDown = s.m.shuttingDown
        /\ SameLeases(s, r)
    BY <1>1, <1>8 DEF WasStarted, TypeOfMaster, SameLeases
  <2>2. g \in Gens /\ g > s.m.nextGen /\ g <= g
    BY <1>1, <1>8, SharedWtaAssumption DEF WasStarted, TypeOfMaster, Gens
  <2>3. /\ r.live = [s.live EXCEPT ![g] = "running"]
        /\ r.wait = [s.wait EXCEPT ![g] = IF watched THEN "registered" ELSE "none"]
        /\ r.launch = [s.launch EXCEPT ![g] = args]
    BY <1>8 DEF WasStarted
  <2> HIDE DEF g
  <2>4. \A h \in Gens : r.live[h] = IF h = g THEN "running" ELSE s.live[h]
    BY <1>1, <2>3 DEF StateType
  <2>5. \A h \in Gens : r.live[h] = "running" <=> h = g
    BY <2>2, <2>4, <1>5
  <2>6. \A h \in Gens \ st : Alive(r, h) => h = g
    BY <2>4, <1>6 DEF Alive
  <2>7. QueuedIsDead(r)
    BY <2>3, <2>4, <1>1 DEF QueuedIsDead, StateType, Sound
  <2>8. CacheTrue(r)
    BY <2>1, <2>2, <2>3, <1>1 DEF CacheTrue, StateType
  <2> QED
    BY <1>2, <1>3, <2>1, <2>2, <2>5, <2>6, <2>7, <2>8
    DEF Served, Sound, Permitted, RunHeld, WaitOwned, OneAlive
<1> QED BY <1>2, <1>7, <1>8

\* A process may end at any time.
LEMMA EndedSound ==
    ASSUME NEW s, NEW st, Sound(s, st), NEW g \in Gens
    PROVE  Sound(Ended(s, g), st) /\ Calms(s, Ended(s, g))
<1>1. s \in StateType BY DEF Sound
<1> DEFINE r == Ended(s, g)
<1>2. /\ r \in StateType /\ r.m = s.m /\ r.launch = s.launch
      /\ \A h \in Gens : r.live[h] = IF h = g THEN "exited" ELSE s.live[h]
      /\ \A h \in Gens : r.wait[h] =
            IF h = g /\ s.wait[h] = "registered" THEN "queued" ELSE s.wait[h]
  BY <1>1, EndedType
<1> HIDE DEF r
<1>3. Calms(s, r) BY <1>2 DEF Calms, Alive
<1>4. RunHeld(r) /\ CacheTrue(r) /\ QueuedIsDead(r) /\ WaitOwned(r)
  BY <1>2 DEF Sound, RunHeld, CacheTrue, QueuedIsDead, WaitOwned
<1>5. OneAlive(r, st)
  BY <1>2, <1>3 DEF Sound, OneAlive, Calms
<1> QED BY <1>2, <1>3, <1>4, <1>5 DEF Sound, r

\* _StopLocked: nothing runs afterwards; the master it let go of, which may
\* not have exited yet, is no longer counted.
LEMMA StopSound ==
    ASSUME NEW s, NEW st, Sound(s, st), NEW r \in StopLocked(s)
    PROVE  /\ Sound(r, st \cup {s.m.process}) /\ \A g \in Gens : r.live[g] # "running"
           /\ SameLeases(s, r) /\ r.m.armed = 0
<1> DEFINE retired == [s EXCEPT !.m.armed = 0]
           dead == {p \in {s.m.process} : Alive(s, p)}
<1>1. s \in StateType /\ s.m \in TypeOfMaster BY DEF Sound, StateType
<1>2. [s.m EXCEPT !.armed = 0] \in TypeOfMaster
  BY <1>1, SharedWtaAssumption DEF TypeOfMaster
<1>3. /\ retired \in StateType /\ retired.m = [s.m EXCEPT !.armed = 0]
      /\ retired.live = s.live /\ retired.wait = s.wait /\ retired.launch = s.launch
  BY <1>1, <1>2 DEF StateType
<1>4. r = CloseJob(retired)
      \/ \E w \in {retired} \cup {Ended(retired, g) : g \in dead} : r \in CleanupLocked(w)
  BY DEF StopLocked
<1>5. dead \subseteq Gens
  BY <1>1, SharedWtaAssumption DEF Alive, TypeOfMaster, Gens
<1> HIDE DEF retired, dead
<1>6. /\ retired.m.process = s.m.process /\ retired.m.job = s.m.job
      /\ retired.m.cached = s.m.cached /\ retired.m.nextGen = s.m.nextGen
      /\ retired.m.waitGen = s.m.waitGen /\ retired.m.suppressed = s.m.suppressed
      /\ retired.m.armed = 0 /\ SameLeases(s, retired)
  BY <1>1, <1>3 DEF TypeOfMaster, SameLeases
<1>7. Sound(retired, st)
  BY <1>3, <1>6
  DEF Sound, RunHeld, CacheTrue, QueuedIsDead, WaitOwned, OneAlive, Alive
<1>8. CASE r = CloseJob(retired)
  <2>1. /\ r \in StateType /\ r.m = [retired.m EXCEPT !.job = 0]
        /\ r.wait = retired.wait /\ r.launch = retired.launch
        /\ \A g \in Gens : r.live[g] =
              IF g = retired.m.job /\ retired.live[g] = "running" THEN "dying" ELSE retired.live[g]
    BY <1>3, <1>8, CloseJobType
  <2>2. /\ r.m.process = s.m.process /\ r.m.cached = s.m.cached /\ r.m.nextGen = s.m.nextGen
        /\ r.m.waitGen = s.m.waitGen /\ r.m.suppressed = s.m.suppressed
        /\ r.m.armed = 0 /\ SameLeases(s, r)
    BY <1>3, <1>6, <2>1 DEF StateType, TypeOfMaster, SameLeases
  <2>3. \A g \in Gens : r.live[g] # "running"
    BY <1>7, <2>1 DEF Sound, RunHeld
  <2>4. QueuedIsDead(r)
    BY <1>7, <2>1 DEF Sound, QueuedIsDead
  <2>5. \A g \in Gens : Alive(r, g) => Alive(s, g)
    BY <1>3, <2>1 DEF Alive
  <2>6. OneAlive(r, st \cup {s.m.process})
    BY <2>2, <2>5 DEF Sound, OneAlive
  <2> QED
    BY <1>3, <2>1, <2>2, <2>3, <2>4, <2>6 DEF Sound, RunHeld, CacheTrue, WaitOwned
<1>9. ASSUME NEW w \in {retired} \cup {Ended(retired, g) : g \in dead}, r \in CleanupLocked(w)
      PROVE  /\ Sound(r, st \cup {s.m.process}) /\ \A g \in Gens : r.live[g] # "running"
             /\ SameLeases(s, r) /\ r.m.armed = 0
  <2>1. Sound(w, st) /\ w.m = retired.m
    <3>1. CASE w = retired BY <3>1, <1>7
    <3>2. ASSUME NEW g \in dead, w = Ended(retired, g)
          PROVE  Sound(w, st) /\ w.m = retired.m
      BY <3>2, <1>3, <1>5, <1>7, EndedSound, EndedType
    <3> QED BY <1>9, <3>1, <3>2
  <2>2. w \in StateType BY <2>1 DEF Sound
  <2>3. Sound(r, st \cup {s.m.process}) /\ \A g \in Gens : r.live[g] # "running"
    BY <1>6, <1>9, <2>1, CleanupSound
  <2>4. r.m = [w.m EXCEPT !.job = 0, !.waitHandle = 0, !.process = 0, !.waitGen = 0, !.armed = 0]
    BY <1>9, <2>2, CleanupOutcome
  <2>5. SameLeases(s, r) /\ r.m.armed = 0
    BY <2>1, <2>2, <2>4, <1>6 DEF StateType, TypeOfMaster, SameLeases
  <2> QED BY <2>3, <2>5
<1> QED BY <1>4, <1>8, <1>9

\* A restart starts a replacement only for a master that is known to be gone.
LEMMA RestartServed ==
    ASSUME NEW s, NEW st, Sound(s, st), s.ok, ~Barred(s), NEW args \in Args,
           NEW r \in RestartLocked(s, args)
    PROVE  Served(s, r, st)
<1> DEFINE p == s.m.process
<1>1. s \in StateType /\ s.m \in TypeOfMaster BY DEF Sound, StateType
<1>2. PICK c \in CleanupLocked(s) : \E e \in EnsureProcessExitedBeforeRestart(c, p) :
        r \in (IF e.ok THEN SpawnLocked(e, args, TRUE) ELSE {[e EXCEPT !.m.suppressed = TRUE]})
  BY DEF RestartLocked
<1>3. PICK e \in EnsureProcessExitedBeforeRestart(c, p) :
        r \in (IF e.ok THEN SpawnLocked(e, args, TRUE) ELSE {[e EXCEPT !.m.suppressed = TRUE]})
  BY <1>2
<1>4. /\ c \in StateType /\ c.launch = s.launch /\ c.ok = s.ok /\ Calms(s, c)
      /\ c.m = [s.m EXCEPT !.job = 0, !.waitHandle = 0, !.process = 0, !.waitGen = 0, !.armed = 0]
  BY <1>1, CleanupOutcome
<1>5. Sound(c, st \cup {p}) /\ \A g \in Gens : c.live[g] # "running"
  BY CleanupSound
<1>6. /\ c.m.process = 0 /\ c.m.armed = 0 /\ c.m.nextGen = s.m.nextGen
      /\ c.m.enabled = s.m.enabled /\ c.m.shuttingDown = s.m.shuttingDown
      /\ c.m.suppressed = s.m.suppressed /\ SameLeases(s, c)
  BY <1>1, <1>4 DEF TypeOfMaster, SameLeases
<1>7. CASE e.ok
  <2>1. e = (IF Alive(c, p) THEN Ended(c, p) ELSE c)
    BY <1>3, <1>4, <1>7, FailedType DEF EnsureProcessExitedBeforeRestart
  <2>2. Sound(e, st \cup {p}) /\ e.m = c.m /\ ~Alive(e, p)
    <3>1. CASE ~Alive(c, p) BY <2>1, <3>1, <1>5
    <3>2. CASE Alive(c, p)
      <4>1. p \in Gens
        BY <1>1, <3>2, SharedWtaAssumption DEF Alive, TypeOfMaster, Gens
      <4>2. Sound(e, st \cup {p}) /\ e.m = c.m
        BY <2>1, <3>2, <4>1, <1>4, <1>5, EndedSound, EndedType
      <4>3. e.live[p] = "exited"
        BY <2>1, <3>2, <4>1, <1>4, EndedType
      <4> QED BY <4>2, <4>3 DEF Alive
    <3> QED BY <3>1, <3>2
  <2>3. Sound(e, st)
    BY <2>2 DEF Sound, OneAlive
  <2>4. e.m.process = 0 /\ ~Barred(e)
    BY <1>6, <2>2 DEF Barred
  <2>5. r \in SpawnLocked(e, args, TRUE) BY <1>3, <1>7
  <2>6. Served(e, r, st) BY <2>3, <2>4, <2>5, SpawnServed
  <2> QED BY <2>2, <2>6, <1>6 DEF Served, SameLeases
<1>8. CASE ~e.ok
  <2>1. e \in StateType /\ e.m = c.m /\ e.live = c.live /\ e.wait = c.wait /\ e.launch = c.launch
    <3>1. CASE e = Failed(c) BY <3>1, <1>4, FailedType
    <3>2. CASE e = (IF Alive(c, p) THEN Ended(c, p) ELSE c)
      <4>1. p \in Gens \/ ~Alive(c, p)
        BY <1>1, SharedWtaAssumption DEF Alive, TypeOfMaster, Gens
      <4>2. e.ok = s.ok
        BY <3>2, <4>1, <1>4, EndedType
      <4> QED BY <4>2, <1>8
    <3> QED BY <3>1, <3>2, <1>3 DEF EnsureProcessExitedBeforeRestart
  <2>2. r = [e EXCEPT !.m.suppressed = TRUE] BY <1>3, <1>8
  <2>3. [e.m EXCEPT !.suppressed = TRUE] \in TypeOfMaster
    BY <2>1 DEF StateType, TypeOfMaster
  <2>4. /\ r \in StateType /\ r.m = [e.m EXCEPT !.suppressed = TRUE]
        /\ r.live = c.live /\ r.wait = c.wait /\ r.launch = c.launch
    BY <2>1, <2>2, <2>3 DEF StateType
  <2>5. /\ r.m.process = 0 /\ r.m.armed = 0 /\ r.m.suppressed /\ r.m.nextGen = c.m.nextGen
        /\ r.m.waitGen = c.m.waitGen /\ SameLeases(s, r)
    BY <1>6, <2>1, <2>4 DEF StateType, TypeOfMaster, SameLeases
  <2>6. OneAlive(r, st)
    <3>1. \A g \in Gens : Alive(r, g) => Alive(s, g) BY <2>4, <1>4 DEF Calms, Alive
    <3> QED BY <3>1, <2>5 DEF Sound, OneAlive
  <2>7. RunHeld(r) /\ CacheTrue(r) /\ QueuedIsDead(r) /\ WaitOwned(r) /\ Permitted(r)
    BY <1>5, <1>6, <2>4, <2>5
    DEF Sound, RunHeld, CacheTrue, QueuedIsDead, WaitOwned, Permitted
  <2> QED BY <2>4, <2>5, <2>6, <2>7 DEF Served, Sound
<1> QED BY <1>7, <1>8

\* A state is served by doing nothing, or by remembering the request.
LEMMA IdleServed ==
    ASSUME NEW s, NEW st, Sound(s, st), Permitted(s), NEW b \in BOOLEAN
    PROVE  /\ Served(s, s, st) /\ Served(s, Failed(s), st)
           /\ Served(s, [s EXCEPT !.m.requested = b], st)
<1>1. s \in StateType /\ s.m \in TypeOfMaster BY DEF Sound, StateType
<1>2. ASSUME NEW r \in StateType, r.live = s.live, r.wait = s.wait, r.launch = s.launch,
             r.m = s.m \/ r.m = [s.m EXCEPT !.requested = b]
      PROVE  Served(s, r, st)
  <2>1. /\ r.m.process = s.m.process /\ r.m.job = s.m.job /\ r.m.cached = s.m.cached
        /\ r.m.nextGen = s.m.nextGen /\ r.m.waitGen = s.m.waitGen /\ r.m.armed = s.m.armed
        /\ r.m.suppressed = s.m.suppressed /\ r.m.enabled = s.m.enabled
        /\ r.m.shuttingDown = s.m.shuttingDown /\ SameLeases(s, r)
    BY <1>1, <1>2 DEF TypeOfMaster, SameLeases
  <2> QED
    BY <1>2, <2>1 DEF Served, Sound, Permitted, RunHeld, CacheTrue, QueuedIsDead,
                      WaitOwned, OneAlive, Alive
<1>3. Served(s, s, st) BY <1>1, <1>2
<1>4. Served(s, Failed(s), st) BY <1>1, <1>2, FailedType
<1>5. [s.m EXCEPT !.requested = b] \in TypeOfMaster BY <1>1 DEF TypeOfMaster
<1> DEFINE q == [s EXCEPT !.m.requested = b]
<1>6. /\ q \in StateType /\ q.live = s.live /\ q.wait = s.wait /\ q.launch = s.launch
      /\ q.m = [s.m EXCEPT !.requested = b]
  BY <1>1, <1>5 DEF StateType
<1> HIDE DEF q
<1>7. Served(s, q, st) BY <1>2, <1>6
<1> QED BY <1>3, <1>4, <1>7 DEF q

LEMMA EnsureServed ==
    ASSUME NEW s, NEW st, Sound(s, st), Permitted(s), NEW args \in Args,
           NEW explicitRetry \in BOOLEAN, NEW r \in EnsureStartedLocked(s, args, explicitRetry)
    PROVE  /\ Served(s, r, st)
           /\ s.m.requested /\ ~explicitRetry => r.m.process = s.m.process
<1>1. s \in StateType /\ s.m \in TypeOfMaster BY DEF Sound, StateType
<1>2. CASE Barred(s)
  BY <1>1, <1>2, IdleServed, FailedType DEF EnsureStartedLocked
<1>3. CASE ~Barred(s) /\ s.m.process # 0
  <2>1. r = [s EXCEPT !.m.requested = TRUE] BY <1>3 DEF EnsureStartedLocked
  <2>2. r.m.process = s.m.process BY <1>1, <2>1 DEF StateType, TypeOfMaster
  <2> QED BY <2>1, <2>2, IdleServed
<1>4. CASE ~Barred(s) /\ s.m.process = 0 /\ s.m.requested /\ ~explicitRetry
  BY <1>1, <1>4, IdleServed, FailedType DEF EnsureStartedLocked
<1>5. CASE ~Barred(s) /\ s.m.process = 0 /\ ~(s.m.requested /\ ~explicitRetry)
  BY <1>5, SpawnServed DEF EnsureStartedLocked
<1> QED BY <1>2, <1>3, <1>4, <1>5

LEMMA RestartCachedServed ==
    ASSUME NEW s, NEW st, Sound(s, st), s.ok, Permitted(s), NEW r \in RestartCached(s)
    PROVE  Served(s, r, st)
<1>1. CASE Barred(s) \/ s.m.cached = NoArgs
  BY <1>1, IdleServed DEF RestartCached
<1>2. CASE ~(Barred(s) \/ s.m.cached = NoArgs)
  <2>1. s.m.cached \in Args BY <1>2 DEF Sound, StateType, TypeOfMaster
  <2> QED BY <1>2, <2>1, SpawnServed, RestartServed DEF RestartCached
<1> QED BY <1>1, <1>2

LEMMA RestartWithServed ==
    ASSUME NEW s, NEW st, Sound(s, st), s.ok, Permitted(s), NEW args \in Args,
           NEW r \in RestartWith(s, args)
    PROVE  Served(s, r, st)
BY IdleServed, SpawnServed, RestartServed DEF RestartWith

\* The callback of a master that has exited touches only its own generation.
LEMMA ExitedServed ==
    ASSUME NEW s, NEW st, Sound(s, st), Permitted(s), NEW g \in Gens, s.live[g] = "exited",
           NEW r \in OnProcessExitedOutcomes(s, g)
    PROVE  /\ Served(s, r, st)
           /\ r.m.process \notin {0, s.m.process} => s.m.armed = g /\ r.m.armed = 0
           /\ \A h \in Gens : s.live[h] = "running" => r.live[h] = "running"
<1>1. s \in StateType /\ s.m \in TypeOfMaster BY DEF Sound, StateType
<1>2. CASE ~Claim(s, g)
  BY <1>2, IdleServed DEF OnProcessExitedOutcomes
<1>3. CASE Claim(s, g)
  <2>1. s.m.waitGen = g /\ g # 0 /\ s.m.process = g
    BY <1>3, SharedWtaAssumption DEF Claim, Sound, WaitOwned, Gens
  <2>2. \A h \in Gens : s.live[h] # "running"
    BY <2>1 DEF Sound, RunHeld
  <2> DEFINE claimed == [s EXCEPT !.m.waitGen = 0]
             cleared == [Unregister(CloseJob(claimed)) EXCEPT
                           !.m.process = 0, !.m.armed = IF @ = g THEN 0 ELSE @]
  <2>3. r = cleared \/ (ShouldRespawn(s, g) /\ r \in SpawnLocked(cleared, s.m.cached, FALSE))
    BY <1>3, <2>1 DEF OnProcessExitedOutcomes
  <2>4. [s.m EXCEPT !.waitGen = 0] \in TypeOfMaster
    BY <1>1, SharedWtaAssumption DEF TypeOfMaster
  <2>5. /\ claimed \in StateType /\ claimed.m = [s.m EXCEPT !.waitGen = 0]
        /\ claimed.live = s.live /\ claimed.wait = s.wait /\ claimed.launch = s.launch
    BY <1>1, <2>4 DEF StateType
  <2> HIDE DEF claimed
  <2> DEFINE j == CloseJob(claimed)
             u == Unregister(j)
  <2>6. /\ j \in StateType /\ j.m = [claimed.m EXCEPT !.job = 0]
        /\ j.wait = s.wait /\ j.launch = s.launch
        /\ \A h \in Gens : j.live[h] = s.live[h]
    <3>1. /\ j \in StateType /\ j.m = [claimed.m EXCEPT !.job = 0]
          /\ j.wait = claimed.wait /\ j.launch = claimed.launch
          /\ \A h \in Gens : j.live[h] =
                IF h = claimed.m.job /\ claimed.live[h] = "running"
                THEN "dying" ELSE claimed.live[h]
      BY <2>5, CloseJobType
    <3> HIDE DEF j
    <3> QED BY <2>2, <2>5, <3>1
  <2> HIDE DEF j
  <2>7. /\ u \in StateType /\ u.m = [j.m EXCEPT !.waitHandle = 0]
        /\ u.live = j.live /\ u.launch = s.launch
        /\ \A h \in Gens : u.wait[h] \in {s.wait[h], "none"}
    BY <2>6, UnregisterType
  <2> HIDE DEF u
  <2>8. cleared = [u EXCEPT !.m = [u.m EXCEPT !.process = 0, !.armed = IF @ = g THEN 0 ELSE @]]
    BY <2>7 DEF u, j, StateType
  <2>9. [u.m EXCEPT !.process = 0, !.armed = IF @ = g THEN 0 ELSE @] \in TypeOfMaster
    BY <2>7, SharedWtaAssumption DEF StateType, TypeOfMaster
  <2>10. /\ cleared \in StateType
         /\ cleared.m = [u.m EXCEPT !.process = 0, !.armed = IF @ = g THEN 0 ELSE @]
         /\ cleared.live = u.live /\ cleared.wait = u.wait /\ cleared.launch = s.launch
    BY <2>7, <2>8, <2>9 DEF StateType
  <2> HIDE DEF cleared
  <2>11. /\ cleared.m.process = 0 /\ cleared.m.waitGen = 0
         /\ cleared.m.armed = (IF s.m.armed = g THEN 0 ELSE s.m.armed)
         /\ cleared.m.nextGen = s.m.nextGen /\ cleared.m.suppressed = s.m.suppressed
         /\ cleared.m.enabled = s.m.enabled /\ cleared.m.shuttingDown = s.m.shuttingDown
         /\ SameLeases(s, cleared)
    BY <1>1, <2>5, <2>6, <2>7, <2>10 DEF TypeOfMaster, SameLeases
  <2>12. \A h \in Gens : cleared.live[h] = s.live[h]
    BY <2>6, <2>7, <2>10
  <2>13. RunHeld(cleared) /\ Permitted(cleared) /\ WaitOwned(cleared)
    BY <2>2, <2>11, <2>12 DEF RunHeld, Permitted, WaitOwned
  <2>14. CacheTrue(cleared)
    BY <1>1, <2>11, SharedWtaAssumption DEF CacheTrue, TypeOfMaster
  <2>15. QueuedIsDead(cleared)
    BY <2>7, <2>10, <2>12 DEF QueuedIsDead, Sound
  <2>16. OneAlive(cleared, st)
    BY <2>1, <2>11, <2>12 DEF OneAlive, Sound, Alive
  <2>17. Served(s, cleared, st) /\ Sound(cleared, st)
    BY <2>10, <2>11, <2>13, <2>14, <2>15, <2>16 DEF Served, Sound
  <2>18. CASE r = cleared
    BY <2>2, <2>11, <2>17, <2>18
  <2>19. CASE ShouldRespawn(s, g) /\ r \in SpawnLocked(cleared, s.m.cached, FALSE)
    <3>1. s.m.armed = g /\ ~Barred(cleared) /\ s.m.cached \in Args
      BY <1>1, <2>11, <2>19 DEF ShouldRespawn, Barred, TypeOfMaster
    <3>2. Served(cleared, r, st) /\ r.m.armed \in {0, cleared.m.armed}
      BY <2>11, <2>17, <2>19, <3>1, SpawnServed
    <3> QED BY <2>2, <2>11, <3>1, <3>2 DEF Served, SameLeases
  <2> QED BY <2>3, <2>18, <2>19
<1> QED BY <1>2, <1>3

---------------------------------------------------------------------------
(* Leases *)

LeaseStates == {"none", "active", "retiring"}

\* Holding(f, V): the panes whose lease is in one of the states V.
Holding(f, V) == {p \in Panes : f[p] \in V}

LEMMA HoldingCount ==
    ASSUME NEW V, NEW f, NEW k, NEW p \in Panes, \A q \in Panes \ {p} : k[q] = f[q]
    PROVE  /\ Cardinality(Holding(f, V)) \in Nat
           /\ Cardinality(Holding(k, V)) \in Nat
           /\ Cardinality(Holding(k, V)) - Cardinality(Holding(f, V))
                = IF f[p] \in V THEN IF k[p] \in V THEN 0 ELSE -1
                                ELSE IF k[p] \in V THEN 1 ELSE 0
<1> DEFINE H == Holding(f, V)
           K == Holding(k, V)
<1>1. IsFiniteSet(H) /\ IsFiniteSet(K)
  BY FS_Subset, SharedWtaAssumption DEF Holding
<1>2. Cardinality(H) \in Nat /\ Cardinality(K) \in Nat
  BY <1>1, FS_CardinalityType
<1>3. ASSUME f[p] \in V <=> k[p] \in V PROVE K = H
  BY <1>3 DEF Holding
<1>4. ASSUME f[p] \notin V, k[p] \in V PROVE Cardinality(K) = Cardinality(H) + 1
  <2>1. K = H \cup {p} /\ p \notin H BY <1>4 DEF Holding
  <2> QED BY <1>1, <2>1, FS_AddElement
<1>5. ASSUME f[p] \in V, k[p] \notin V PROVE Cardinality(K) = Cardinality(H) - 1
  <2>1. K = H \ {p} /\ p \in H BY <1>5 DEF Holding
  <2> QED BY <1>1, <2>1, FS_RemoveElement
<1> HIDE DEF H, K
<1>6. Cardinality(K) - Cardinality(H) = IF f[p] \in V THEN IF k[p] \in V THEN 0 ELSE -1
                                                      ELSE IF k[p] \in V THEN 1 ELSE 0
  BY <1>2, <1>3, <1>4, <1>5
<1> QED BY <1>2, <1>6 DEF H, K

\* LeasesCounted in terms of Holding.
Counted(f, x) ==
    /\ x.refCount = Cardinality(Holding(f, {"active", "retiring"}))
    /\ x.activeRefCount = Cardinality(Holding(f, {"active"}))

LEMMA CountedIsLeasesCounted ==
    ASSUME lease \in [Panes -> LeaseStates]
    PROVE  LeasesCounted <=> Counted(lease, m)
<1>1. {p \in Panes : lease[p] # "none"} = Holding(lease, {"active", "retiring"})
  BY DEF Holding, LeaseStates
<1>2. {p \in Panes : lease[p] = "active"} = Holding(lease, {"active"})
  BY DEF Holding
<1> QED BY <1>1, <1>2 DEF LeasesCounted, Counted

---------------------------------------------------------------------------
(* The inductive invariant *)

\* A recovery may still be due only when none has happened since a master was
\* last asked for.
Recovery == unasked \in Nat /\ unasked <= 1 /\ (m.armed # 0 => unasked = 0)

SupervisionInv ==
    /\ Sound(State, stopped) /\ Permitted(State) /\ stopped \subseteq Gens
    /\ lease \in [Panes -> LeaseStates] /\ Counted(lease, m)
    /\ calls \in 0..MaxOps
    /\ Recovery

LEMMA BecomeSound ==
    ASSUME NEW r, NEW st, Sound(r, st), Permitted(r), Become(r)
    PROVE  Sound(State', st) /\ Permitted(State') /\ m' = r.m
<1>1. /\ State' = [m |-> r.m, live |-> r.live, wait |-> r.wait, launch |-> r.launch, ok |-> TRUE]
      /\ m' = r.m
  BY DEF Become, State
<1> DEFINE n == [m |-> r.m, live |-> r.live, wait |-> r.wait, launch |-> r.launch, ok |-> TRUE]
<1>2. /\ n \in StateType /\ n.m = r.m /\ n.live = r.live /\ n.wait = r.wait /\ n.launch = r.launch
  BY DEF Sound, StateType
<1> HIDE DEF n
<1>3. Sound(n, st) /\ Permitted(n)
  BY <1>2 DEF Sound, Permitted, RunHeld, CacheTrue, QueuedIsDead, WaitOwned, OneAlive, Alive
<1> QED BY <1>1, <1>3 DEF n

LEMMA StateFields ==
    /\ State.m = m /\ State.live = live /\ State.wait = wait
    /\ State.launch = launch /\ State.ok
BY DEF State

\* The result of a served call that left the leases alone.
LEMMA AskedKeeps ==
    ASSUME SupervisionInv, NEW r, Served(State, r, stopped), Asked(r), UNCHANGED <<lease, stopped>>
    PROVE  /\ Sound(State', stopped') /\ Permitted(State') /\ stopped' \subseteq Gens
           /\ lease' \in [Panes -> LeaseStates] /\ Counted(lease', m')
           /\ Recovery'
<1>1. Sound(State', stopped) /\ Permitted(State') /\ m' = r.m
  BY BecomeSound DEF Served, Asked
<1>2. Counted(lease', m')
  BY <1>1, StateFields DEF SupervisionInv, Counted, Served, SameLeases
<1>3. m.process \in 0..MaxGen /\ m.nextGen \in 0..MaxGen /\ m.process <= m.nextGen
  BY StateFields DEF SupervisionInv, Sound, StateType, TypeOfMaster, CacheTrue
<1>4. \/ r.m.process \in {0, m.process} /\ r.m.armed \in {0, m.armed}
      \/ r.m.process > m.nextGen
  BY StateFields DEF Served
<1>5. r.m.process \in 0..MaxGen
  BY DEF Served, Sound, StateType, TypeOfMaster
<1>6. \/ r.m.process \in {0, m.process} /\ r.m.armed \in {0, m.armed}
      \/ r.m.process \notin {0, m.process}
  BY <1>3, <1>4, <1>5, SharedWtaAssumption
<1>7. Recovery'
  BY <1>1, <1>6 DEF Recovery, Asked, SupervisionInv
<1> QED BY <1>1, <1>2, <1>7 DEF SupervisionInv

\* Nothing but the counts of the leases changes.
WithRefs(s, a, b) == [s EXCEPT !.m = [s.m EXCEPT !.refCount = a, !.activeRefCount = b]]

LEMMA RefsOnly ==
    ASSUME NEW s, NEW st, Sound(s, st), Permitted(s), NEW a \in Nat, NEW b \in Nat
    PROVE  LET r == WithRefs(s, a, b)
           IN  /\ Sound(r, st) /\ Permitted(r) /\ r.m.refCount = a /\ r.m.activeRefCount = b
               /\ r.m.armed = s.m.armed /\ r.m.process = s.m.process
<1> DEFINE r == WithRefs(s, a, b)
<1>1. s \in StateType /\ s.m \in TypeOfMaster BY DEF Sound, StateType
<1>2. [s.m EXCEPT !.refCount = a, !.activeRefCount = b] \in TypeOfMaster
  BY <1>1 DEF TypeOfMaster
<1>3. /\ r \in StateType /\ r.m = [s.m EXCEPT !.refCount = a, !.activeRefCount = b]
      /\ r.live = s.live /\ r.wait = s.wait /\ r.launch = s.launch
  BY <1>1, <1>2 DEF StateType, WithRefs
<1> HIDE DEF r
<1>4. /\ r.m.process = s.m.process /\ r.m.job = s.m.job /\ r.m.cached = s.m.cached
      /\ r.m.nextGen = s.m.nextGen /\ r.m.waitGen = s.m.waitGen /\ r.m.armed = s.m.armed
      /\ r.m.suppressed = s.m.suppressed /\ r.m.enabled = s.m.enabled
      /\ r.m.shuttingDown = s.m.shuttingDown /\ r.m.refCount = a /\ r.m.activeRefCount = b
  BY <1>1, <1>3 DEF TypeOfMaster
<1> QED
  BY <1>3, <1>4
  DEF Sound, Permitted, RunHeld, CacheTrue, QueuedIsDead, WaitOwned, OneAlive, Alive, r

LEMMA AcquireRefs ==
    ASSUME NEW s \in StateType
    PROVE  AcquireLeaseLocked(s) = WithRefs(s, s.m.refCount + 1, s.m.activeRefCount + 1)
BY DEF AcquireLeaseLocked, StateType, TypeOfMaster, WithRefs

LEMMA ReleaseRefs ==
    ASSUME NEW s \in StateType, NEW active \in BOOLEAN
    PROVE  ReleaseLease(s, active) =
             WithRefs(s, s.m.refCount - 1,
                      IF active THEN s.m.activeRefCount - 1 ELSE s.m.activeRefCount)
BY DEF ReleaseLease, StateType, TypeOfMaster, WithRefs

\* The counts a and b follow the change of pane p's lease from f to k.
Delta(before, after) == IF before THEN IF after THEN 0 ELSE -1 ELSE IF after THEN 1 ELSE 0
Follows(f, k, p, x, a, b) ==
    /\ \A q \in Panes \ {p} : k[q] = f[q]
    /\ a = x.refCount + Delta(f[p] # "none", k[p] # "none")
    /\ b = x.activeRefCount + Delta(f[p] = "active", k[p] = "active")

LEMMA CountsFollow ==
    ASSUME NEW f \in [Panes -> LeaseStates], NEW k \in [Panes -> LeaseStates],
           NEW p \in Panes, NEW x, Counted(f, x), NEW a, NEW b, Follows(f, k, p, x, a, b)
    PROVE  /\ a = Cardinality(Holding(k, {"active", "retiring"})) /\ a \in Nat
           /\ b = Cardinality(Holding(k, {"active"})) /\ b \in Nat
<1>1. \A q \in Panes \ {p} : k[q] = f[q] BY DEF Follows
<1>2. ASSUME NEW V
      PROVE  /\ Cardinality(Holding(f, V)) \in Nat
             /\ Cardinality(Holding(k, V)) \in Nat
             /\ Cardinality(Holding(k, V)) =
                  Cardinality(Holding(f, V)) + Delta(f[p] \in V, k[p] \in V)
  BY <1>1, HoldingCount DEF Delta
<1>3. /\ f[p] \in {"active", "retiring"} <=> f[p] # "none"
      /\ k[p] \in {"active", "retiring"} <=> k[p] # "none"
  BY DEF LeaseStates
<1>4. a = Cardinality(Holding(k, {"active", "retiring"})) /\ a \in Nat
  <2> DEFINE V == {"active", "retiring"}
  <2>1. x.refCount = Cardinality(Holding(f, V)) BY DEF Counted
  <2>2. a = x.refCount + Delta(f[p] \in V, k[p] \in V) BY <1>3 DEF Follows, Delta
  <2> HIDE DEF V
  <2>3. a = Cardinality(Holding(k, V)) /\ a \in Nat BY <1>2, <2>1, <2>2
  <2> QED BY <2>3 DEF V
<1>5. b = Cardinality(Holding(k, {"active"})) /\ b \in Nat
  <2> DEFINE V == {"active"}
  <2>1. x.activeRefCount = Cardinality(Holding(f, V)) BY DEF Counted
  <2>2. b = x.activeRefCount + Delta(f[p] \in V, k[p] \in V) BY DEF Follows, Delta
  <2> HIDE DEF V
  <2>3. b = Cardinality(Holding(k, V)) /\ b \in Nat BY <1>2, <2>1, <2>2
  <2> QED BY <2>3 DEF V
<1> QED BY <1>4, <1>5

\* A lease changes hands together with the counts.
LEMMA LeaseStep ==
    ASSUME SupervisionInv, NEW p \in Panes, lease' \in [Panes -> LeaseStates], UNCHANGED stopped,
           NEW s, Sound(s, stopped), Permitted(s), NEW a, NEW b,
           Follows(lease, lease', p, m, a, b), Become(WithRefs(s, a, b))
    PROVE  /\ Sound(State', stopped') /\ Permitted(State') /\ stopped' \subseteq Gens
           /\ lease' \in [Panes -> LeaseStates] /\ Counted(lease', m')
           /\ m'.armed = s.m.armed /\ m'.process = s.m.process
<1>1. lease \in [Panes -> LeaseStates] /\ Counted(lease, m)
  BY DEF SupervisionInv
<1>2. /\ a = Cardinality(Holding(lease', {"active", "retiring"})) /\ a \in Nat
      /\ b = Cardinality(Holding(lease', {"active"})) /\ b \in Nat
  BY <1>1, CountsFollow
<1> DEFINE r == WithRefs(s, a, b)
<1>3. /\ Sound(r, stopped) /\ Permitted(r) /\ r.m.refCount = a /\ r.m.activeRefCount = b
      /\ r.m.armed = s.m.armed /\ r.m.process = s.m.process
  <2>1. a \in Nat /\ b \in Nat BY <1>2
  <2> QED BY <2>1, RefsOnly
<1>4. Sound(State', stopped) /\ Permitted(State') /\ m' = r.m
  BY <1>3, BecomeSound
<1>5. Counted(lease', m')
  BY <1>2, <1>3, <1>4 DEF Counted
<1> QED BY <1>3, <1>4, <1>5 DEF SupervisionInv

---------------------------------------------------------------------------
(* The actions *)

LEMMA StateSound ==
    ASSUME SupervisionInv
    PROVE  /\ Sound(State, stopped) /\ Permitted(State)
           /\ State \in StateType /\ m \in TypeOfMaster
           /\ m.process \in 0..MaxGen /\ m.process <= m.nextGen
BY StateFields DEF SupervisionInv, Sound, StateType, TypeOfMaster, CacheTrue

LEMMA ExitKeeps ==
    ASSUME SupervisionInv, NEW g \in Gens, Exit(g)
    PROVE  SupervisionInv'
<1> DEFINE r == Ended(State, g)
<1>1. Sound(r, stopped) /\ Calms(State, r) /\ r.m = m
  BY StateSound, StateFields, EndedSound, EndedType
<1>2. Become(r) BY DEF Exit
<1> HIDE DEF r
<1>3. Permitted(r)
  BY <1>1, StateSound, StateFields DEF Permitted, Calms
<1>4. Sound(State', stopped) /\ Permitted(State') /\ m' = m
  BY <1>1, <1>2, <1>3, BecomeSound
<1>5. UNCHANGED <<lease, calls, unasked, stopped>> BY DEF Exit
<1> QED BY <1>4, <1>5 DEF SupervisionInv, Counted, Recovery

LEMMA OnProcessExitedKeeps ==
    ASSUME SupervisionInv, NEW g \in Gens, OnProcessExited(g)
    PROVE  SupervisionInv' /\ \A h \in Gens : live[h] = "running" => live'[h] = "running"
<1> DEFINE s == [State EXCEPT !.wait[g] = "none"]
<1>1. PICK r \in OnProcessExitedOutcomes(s, g) : Unasked(r)
  BY DEF OnProcessExited
<1>2. UNCHANGED <<lease, calls, stopped>> /\ wait[g] = "queued"
  BY DEF OnProcessExited
<1>3. /\ s \in StateType /\ s.m = m /\ s.live = live /\ s.launch = launch
      /\ \A h \in Gens : s.wait[h] = IF h = g THEN "none" ELSE wait[h]
  BY StateSound, StateFields DEF StateType
<1> HIDE DEF s
<1>4. live[g] = "exited"
  BY <1>2, StateSound, StateFields DEF Sound, QueuedIsDead
<1>5. Sound(s, stopped) /\ Permitted(s)
  BY <1>3, StateSound, StateFields
  DEF Sound, Permitted, RunHeld, CacheTrue, QueuedIsDead, WaitOwned, OneAlive, Alive
<1>6. /\ Served(s, r, stopped)
      /\ r.m.process \notin {0, m.process} => m.armed = g /\ r.m.armed = 0
      /\ \A h \in Gens : live[h] = "running" => r.live[h] = "running"
  BY <1>3, <1>4, <1>5, ExitedServed
<1>7. Sound(State', stopped) /\ Permitted(State') /\ m' = r.m /\ live' = r.live
  BY <1>1, <1>6, BecomeSound DEF Served, Unasked, Become
<1>8. Counted(lease', m')
  BY <1>2, <1>3, <1>6, <1>7 DEF SupervisionInv, Counted, Served, SameLeases
<1>9. r.m.process \notin {0, m.process} \/ r.m.armed \in {0, m.armed}
  <2>1. r.m.process \in 0..MaxGen
    BY <1>6 DEF Served, Sound, StateType, TypeOfMaster
  <2>2. m.nextGen \in 0..MaxGen
    BY StateSound DEF TypeOfMaster
  <2> QED BY <1>3, <1>6, <2>1, <2>2, StateSound, SharedWtaAssumption DEF Served
<1>10. Recovery'
  <2>1. g # 0 BY SharedWtaAssumption DEF Gens
  <2> QED BY <1>1, <1>6, <1>7, <1>9, <2>1 DEF Recovery, SupervisionInv, Unasked
<1> QED BY <1>2, <1>6, <1>7, <1>8, <1>10 DEF SupervisionInv

\* The bound on calls is respected.
LEMMA CallKeeps ==
    ASSUME SupervisionInv, Call
    PROVE  calls' \in 0..MaxOps
BY SharedWtaAssumption DEF SupervisionInv, Call

LEMMA EnsureStartedKeeps ==
    ASSUME SupervisionInv, NEW args \in Args, EnsureStarted(args)
    PROVE  SupervisionInv'
<1>1. PICK r \in EnsureStartedLocked(State, args, FALSE) :
        IF m.requested THEN Unasked(r) ELSE Asked(r)
  BY DEF EnsureStarted
<1>2. UNCHANGED <<lease, stopped>> /\ calls' \in 0..MaxOps
  BY CallKeeps DEF EnsureStarted
<1>3. Served(State, r, stopped) /\ (m.requested => r.m.process = m.process)
  BY StateSound, StateFields, EnsureServed
<1>4. Asked(r)
  BY <1>1, <1>3 DEF Asked, Unasked
<1> QED BY <1>2, <1>3, <1>4, AskedKeeps DEF SupervisionInv

LEMMA RestartKeeps ==
    ASSUME SupervisionInv, Restart
    PROVE  SupervisionInv'
<1>1. PICK r \in RestartCached(State) : Asked(r) BY DEF Restart
<1>2. UNCHANGED <<lease, stopped>> /\ calls' \in 0..MaxOps BY CallKeeps DEF Restart
<1>3. Served(State, r, stopped) BY StateSound, StateFields, RestartCachedServed
<1> QED BY <1>1, <1>2, <1>3, AskedKeeps DEF SupervisionInv

LEMMA ReconfigureKeeps ==
    ASSUME SupervisionInv, NEW args \in Args, Reconfigure(args)
    PROVE  SupervisionInv'
<1>1. PICK r \in RestartWith(State, args) : Asked(r) BY DEF Reconfigure
<1>2. UNCHANGED <<lease, stopped>> /\ calls' \in 0..MaxOps BY CallKeeps DEF Reconfigure
<1>3. Served(State, r, stopped) BY StateSound, StateFields, RestartWithServed
<1> QED BY <1>1, <1>2, <1>3, AskedKeeps DEF SupervisionInv

LEMMA AcquirePaneKeeps ==
    ASSUME SupervisionInv, NEW p \in Panes, NEW args \in Args, AcquirePane(p, args)
    PROVE  SupervisionInv'
<1>1. PICK r \in EnsureStartedLocked(State, args, TRUE) :
        /\ Asked(IF r.ok THEN AcquireLeaseLocked(r) ELSE r)
        /\ lease' = IF r.ok THEN [lease EXCEPT ![p] = "active"] ELSE lease
  BY DEF AcquirePane
<1>2. lease[p] = "none" /\ UNCHANGED stopped /\ calls' \in 0..MaxOps
  BY CallKeeps DEF AcquirePane
<1>3. Served(State, r, stopped) BY StateSound, EnsureServed
<1>4. CASE ~r.ok
  BY <1>1, <1>2, <1>3, <1>4, AskedKeeps DEF SupervisionInv
<1>5. CASE r.ok
  <2>1. r \in StateType /\ Sound(r, stopped) /\ Permitted(r) BY <1>3 DEF Served, Sound
  <2> DEFINE a == m.refCount + 1
             b == m.activeRefCount + 1
  <2>2. AcquireLeaseLocked(r) = WithRefs(r, a, b)
    BY <1>3, <2>1, AcquireRefs, StateFields DEF Served, SameLeases
  <2>3. lease \in [Panes -> LeaseStates] /\ lease' = [lease EXCEPT ![p] = "active"]
    BY <1>1, <1>5 DEF SupervisionInv
  <2>4. lease' \in [Panes -> LeaseStates]
    BY <2>3 DEF LeaseStates
  <2>5. Follows(lease, lease', p, m, a, b)
    BY <1>2, <2>3 DEF Follows, Delta
  <2> HIDE DEF a, b
  <2>6. Become(WithRefs(r, a, b)) /\ Asked(WithRefs(r, a, b))
    BY <1>1, <1>5, <2>2 DEF Asked
  <2>7. /\ Sound(State', stopped') /\ Permitted(State') /\ stopped' \subseteq Gens
        /\ Counted(lease', m') /\ m'.armed = r.m.armed /\ m'.process = r.m.process
    BY <1>2, <2>1, <2>4, <2>5, <2>6, LeaseStep
  <2>8. unasked' = IF r.m.process \notin {0, m.process} THEN 0 ELSE unasked
    BY <2>6, <2>7 DEF Asked, Become
  <2>9. \/ r.m.process \in {0, m.process} /\ r.m.armed \in {0, m.armed}
        \/ r.m.process \notin {0, m.process}
    <3>1. r.m.process \in 0..MaxGen /\ m.nextGen \in 0..MaxGen
      BY <2>1, StateSound DEF StateType, TypeOfMaster
    <3> QED BY <1>3, <3>1, StateSound, StateFields, SharedWtaAssumption DEF Served
  <2>10. Recovery'
    BY <2>7, <2>8, <2>9 DEF Recovery, SupervisionInv
  <2> QED BY <1>2, <2>4, <2>7, <2>10 DEF SupervisionInv
<1> QED BY <1>4, <1>5

LEMMA AcquireKeepRunningLeaseKeeps ==
    ASSUME SupervisionInv, NEW p \in Panes, AcquireKeepRunningLease(p)
    PROVE  SupervisionInv'
<1> DEFINE a == m.refCount + 1
           b == m.activeRefCount + 1
<1>1. /\ lease[p] = "none" /\ lease' = [lease EXCEPT ![p] = "active"]
      /\ UNCHANGED <<unasked, stopped>> /\ calls' \in 0..MaxOps
      /\ Become(AcquireLeaseLocked(State))
  BY CallKeeps DEF AcquireKeepRunningLease
<1>2. AcquireLeaseLocked(State) = WithRefs(State, a, b)
  BY StateSound, StateFields, AcquireRefs
<1>3. lease' \in [Panes -> LeaseStates] /\ Follows(lease, lease', p, m, a, b)
  BY <1>1 DEF SupervisionInv, LeaseStates, Follows, Delta
<1> HIDE DEF a, b
<1>4. Become(WithRefs(State, a, b)) /\ UNCHANGED stopped
  BY <1>1, <1>2
<1>5. /\ Sound(State', stopped') /\ Permitted(State') /\ stopped' \subseteq Gens
      /\ Counted(lease', m') /\ m'.armed = m.armed
  BY <1>3, <1>4, StateSound, StateFields, LeaseStep
<1> QED BY <1>1, <1>3, <1>5 DEF SupervisionInv, Recovery

LEMMA ResetKeeps ==
    ASSUME SupervisionInv, NEW p \in Panes, Reset(p)
    PROVE  SupervisionInv'
<1> DEFINE a == m.refCount - 1
           b == IF lease[p] = "active" THEN m.activeRefCount - 1 ELSE m.activeRefCount
<1>1. /\ lease[p] # "none" /\ lease' = [lease EXCEPT ![p] = "none"]
      /\ UNCHANGED <<calls, unasked, stopped>>
      /\ Become(ReleaseLease(State, lease[p] = "active"))
  BY DEF Reset
<1>2. ReleaseLease(State, lease[p] = "active") = WithRefs(State, a, b)
  BY StateSound, StateFields, ReleaseRefs
<1>3. lease' \in [Panes -> LeaseStates] /\ Follows(lease, lease', p, m, a, b)
  <2>1. m.refCount \in Nat /\ m.activeRefCount \in Nat BY StateSound DEF TypeOfMaster
  <2> QED BY <1>1, <2>1 DEF SupervisionInv, LeaseStates, Follows, Delta
<1> HIDE DEF a, b
<1>4. Become(WithRefs(State, a, b)) /\ UNCHANGED stopped
  BY <1>1, <1>2
<1>5. /\ Sound(State', stopped') /\ Permitted(State') /\ stopped' \subseteq Gens
      /\ Counted(lease', m') /\ m'.armed = m.armed
  BY <1>3, <1>4, StateSound, StateFields, LeaseStep
<1> QED BY <1>1, <1>3, <1>5 DEF SupervisionInv, Recovery

LEMMA RetireKeeps ==
    ASSUME SupervisionInv, NEW p \in Panes, Retire(p)
    PROVE  SupervisionInv'
<1> DEFINE b == m.activeRefCount - 1
           retiring == [State EXCEPT !.m.activeRefCount = @ - 1]
<1>0. m.refCount \in Nat /\ m.activeRefCount \in Nat BY StateSound DEF TypeOfMaster
<1>1. lease[p] = "active" /\ UNCHANGED <<calls, unasked, stopped>>
  BY DEF Retire
<1>2. \/ Become(retiring) /\ lease' = [lease EXCEPT ![p] = "retiring"]
      \/ Become(ReleaseLease(retiring, FALSE)) /\ lease' = [lease EXCEPT ![p] = "none"]
  BY DEF Retire
<1>3. retiring = WithRefs(State, m.refCount, b)
  BY StateSound, StateFields DEF WithRefs, StateType, TypeOfMaster
<1>4. ReleaseLease(retiring, FALSE) = WithRefs(State, m.refCount - 1, b)
  BY StateSound, StateFields DEF ReleaseLease, WithRefs, StateType, TypeOfMaster
<1>5. \E a : /\ Become(WithRefs(State, a, b))
             /\ lease' \in [Panes -> LeaseStates] /\ Follows(lease, lease', p, m, a, b)
  <2>1. CASE Become(retiring) /\ lease' = [lease EXCEPT ![p] = "retiring"]
    <3>1. lease' \in [Panes -> LeaseStates] /\ Follows(lease, lease', p, m, m.refCount, b)
      BY <1>0, <1>1, <2>1 DEF SupervisionInv, LeaseStates, Follows, Delta
    <3> QED BY <1>3, <2>1, <3>1
  <2>2. CASE Become(ReleaseLease(retiring, FALSE)) /\ lease' = [lease EXCEPT ![p] = "none"]
    <3>1. lease' \in [Panes -> LeaseStates] /\ Follows(lease, lease', p, m, m.refCount - 1, b)
      BY <1>0, <1>1, <2>2 DEF SupervisionInv, LeaseStates, Follows, Delta
    <3> QED BY <1>4, <2>2, <3>1
  <2> QED BY <1>2, <2>1, <2>2
<1> HIDE DEF b
<1>6. /\ Sound(State', stopped') /\ Permitted(State') /\ stopped' \subseteq Gens
      /\ lease' \in [Panes -> LeaseStates] /\ Counted(lease', m') /\ m'.armed = m.armed
  BY <1>1, <1>5, StateSound, StateFields, LeaseStep
<1> QED BY <1>1, <1>6 DEF SupervisionInv, Recovery

\* Stopping the service, for either reason.
LEMMA StopKeeps ==
    ASSUME SupervisionInv, NEW s, Sound(s, stopped), SameLeases(State, s),
           s.m.process = m.process, NEW r \in StopLocked(s), Become(r), LetGo,
           UNCHANGED <<lease, unasked>>, calls' \in 0..MaxOps
    PROVE  SupervisionInv'
<1>1. /\ Sound(r, stopped \cup {m.process}) /\ \A g \in Gens : r.live[g] # "running"
      /\ SameLeases(s, r) /\ r.m.armed = 0
  BY StopSound
<1>2. Permitted(r) BY <1>1 DEF Permitted
<1>3. Sound(State', stopped \cup {m.process}) /\ Permitted(State') /\ m' = r.m
  BY <1>1, <1>2, BecomeSound
<1>4. stopped' \subseteq Gens /\ Gens \ stopped' = Gens \ (stopped \cup {m.process})
  <2>1. 0 \notin Gens /\ (m.process \in Gens \/ m.process = 0)
    BY StateSound, SharedWtaAssumption DEF Gens
  <2>2. stopped' = stopped \cup ({m.process} \ {0}) /\ stopped \subseteq Gens
    BY DEF LetGo, SupervisionInv
  <2>3. Gens \ stopped' = Gens \ (stopped \cup {m.process})
    BY <2>1, <2>2
  <2> QED BY <2>1, <2>2, <2>3
<1>5. Sound(State', stopped')
  BY <1>3, <1>4 DEF Sound, OneAlive
<1>6. Counted(lease', m')
  BY <1>1, <1>3, StateFields DEF SupervisionInv, Counted, SameLeases
<1> QED BY <1>1, <1>3, <1>4, <1>5, <1>6 DEF SupervisionInv, Recovery

\* The flags change and nothing else.
LEMMA PolicyOnly ==
    ASSUME NEW s, NEW st, Sound(s, st), NEW n \in TypeOfMaster,
           n.process = s.m.process, n.job = s.m.job, n.cached = s.m.cached,
           n.nextGen = s.m.nextGen, n.waitGen = s.m.waitGen, n.suppressed = s.m.suppressed
    PROVE  Sound([s EXCEPT !.m = n], st)
<1> DEFINE r == [s EXCEPT !.m = n]
<1>1. r \in StateType /\ r.m = n /\ r.live = s.live /\ r.wait = s.wait /\ r.launch = s.launch
  BY DEF Sound, StateType
<1> HIDE DEF r
<1>2. Sound(r, st)
  BY <1>1 DEF Sound, RunHeld, CacheTrue, QueuedIsDead, WaitOwned, OneAlive, Alive
<1> QED BY <1>2 DEF r

LEMMA SetEnabledKeeps ==
    ASSUME SupervisionInv, NEW enabled \in BOOLEAN, SetEnabled(enabled)
    PROVE  SupervisionInv'
<1>0. State \in StateType /\ State.m = m /\ m \in TypeOfMaster BY StateSound, StateFields
<1>1. UNCHANGED <<lease, unasked>> /\ calls' \in 0..MaxOps
  BY CallKeeps DEF SetEnabled
<1>2. CASE enabled
  <2> DEFINE n == [m EXCEPT !.enabled = TRUE]
             r == [State EXCEPT !.m = n]
  <2>1. Become(r) /\ UNCHANGED stopped
    <3>1. Become([State EXCEPT !.m.enabled = TRUE]) /\ UNCHANGED stopped
      BY <1>2 DEF SetEnabled
    <3>2. [State EXCEPT !.m.enabled = TRUE] = r BY <1>0 DEF StateType
    <3> QED BY <3>1, <3>2
  <2>2. /\ n \in TypeOfMaster /\ n.process = m.process /\ n.job = m.job /\ n.cached = m.cached
        /\ n.nextGen = m.nextGen /\ n.waitGen = m.waitGen /\ n.suppressed = m.suppressed
        /\ n.armed = m.armed /\ n.refCount = m.refCount /\ n.activeRefCount = m.activeRefCount
        /\ n.enabled /\ n.shuttingDown = m.shuttingDown
    BY <1>0 DEF TypeOfMaster
  <2> HIDE DEF n
  <2>3. Sound(r, stopped) BY <1>0, <2>2, StateSound, PolicyOnly
  <2>4. r.m = n /\ r.live = live BY <1>0, StateFields DEF StateType
  <2>5. Permitted(r) BY <2>2, <2>4, StateSound, StateFields DEF Permitted
  <2> HIDE DEF r
  <2>6. Sound(State', stopped) /\ Permitted(State') /\ m' = n
    BY <2>1, <2>3, <2>4, <2>5, BecomeSound
  <2> QED BY <1>1, <2>1, <2>2, <2>6 DEF SupervisionInv, Counted, Recovery
<1>3. CASE ~enabled
  <2> DEFINE n == [m EXCEPT !.enabled = FALSE, !.requested = FALSE]
             s == [State EXCEPT !.m = n]
  <2>1. LetGo /\ \E r \in StopLocked(s) : Become(r)
    <3>1. [[State EXCEPT !.m.enabled = FALSE] EXCEPT !.m.requested = FALSE] = s
      BY <1>0 DEF StateType
    <3> QED BY <1>3, <3>1 DEF SetEnabled
  <2>2. /\ n \in TypeOfMaster /\ n.process = m.process /\ n.job = m.job /\ n.cached = m.cached
        /\ n.nextGen = m.nextGen /\ n.waitGen = m.waitGen /\ n.suppressed = m.suppressed
        /\ n.refCount = m.refCount /\ n.activeRefCount = m.activeRefCount
    BY <1>0 DEF TypeOfMaster
  <2> HIDE DEF n
  <2>3. Sound(s, stopped) BY <1>0, <2>2, StateSound, PolicyOnly
  <2>4. s.m = n BY <1>0 DEF StateType
  <2> HIDE DEF s
  <2>5. SameLeases(State, s) /\ s.m.process = m.process BY <1>0, <2>2, <2>4 DEF SameLeases
  <2> QED BY <1>1, <2>1, <2>3, <2>5, StopKeeps
<1> QED BY <1>2, <1>3

LEMMA ShutdownKeeps ==
    ASSUME SupervisionInv, Shutdown
    PROVE  SupervisionInv'
<1>0. State \in StateType /\ State.m = m /\ m \in TypeOfMaster BY StateSound, StateFields
<1> DEFINE n == [m EXCEPT !.shuttingDown = TRUE, !.requested = FALSE]
           s == [State EXCEPT !.m = n]
<1>1. /\ UNCHANGED <<lease, unasked>> /\ calls' \in 0..MaxOps
      /\ LetGo /\ \E r \in StopLocked(s) : Become(r)
  <2>1. [State EXCEPT !.m.shuttingDown = TRUE, !.m.requested = FALSE] = s
    BY <1>0 DEF StateType
  <2> QED BY <2>1, CallKeeps DEF Shutdown
<1>2. /\ n \in TypeOfMaster /\ n.process = m.process /\ n.job = m.job /\ n.cached = m.cached
      /\ n.nextGen = m.nextGen /\ n.waitGen = m.waitGen /\ n.suppressed = m.suppressed
      /\ n.refCount = m.refCount /\ n.activeRefCount = m.activeRefCount
  BY <1>0 DEF TypeOfMaster
<1> HIDE DEF n
<1>3. Sound(s, stopped) BY <1>0, <1>2, StateSound, PolicyOnly
<1>4. s.m = n BY <1>0 DEF StateType
<1> HIDE DEF s
<1>5. SameLeases(State, s) /\ s.m.process = m.process BY <1>0, <1>2, <1>4 DEF SameLeases
<1> QED BY <1>1, <1>3, <1>5, StopKeeps

---------------------------------------------------------------------------
(* Theorems *)

LEMMA InitInv == Init => SupervisionInv
<1> SUFFICES ASSUME Init PROVE SupervisionInv OBVIOUS
<1>1. m \in TypeOfMaster
  BY SharedWtaAssumption DEF Init, TypeOfMaster
<1>2. State \in StateType
  BY <1>1 DEF Init, State, StateType
<1>3. Sound(State, stopped) /\ Permitted(State)
  BY <1>2, StateFields, SharedWtaAssumption
  DEF Init, Sound, Permitted, RunHeld, CacheTrue, QueuedIsDead, WaitOwned, OneAlive, Alive, Gens
<1>4. lease \in [Panes -> LeaseStates] /\ Counted(lease, m)
  <2>1. Holding(lease, {"active", "retiring"}) = {} /\ Holding(lease, {"active"}) = {}
    BY DEF Init, Holding
  <2> QED BY <2>1, FS_EmptySet DEF Init, Counted, LeaseStates
<1> QED BY <1>3, <1>4, SharedWtaAssumption DEF Init, SupervisionInv, Recovery

LEMMA NextInv == SupervisionInv /\ [Next]_vars => SupervisionInv'
<1> SUFFICES ASSUME SupervisionInv, [Next]_vars PROVE SupervisionInv' OBVIOUS
<1>1. CASE UNCHANGED vars
  BY <1>1 DEF vars, SupervisionInv, State, Counted, Recovery
<1>2. ASSUME NEW g \in Gens, Exit(g) \/ OnProcessExited(g) PROVE SupervisionInv'
  BY <1>2, ExitKeeps, OnProcessExitedKeeps
<1>3. ASSUME NEW a \in Args, EnsureStarted(a) \/ Reconfigure(a) PROVE SupervisionInv'
  BY <1>3, EnsureStartedKeeps, ReconfigureKeeps
<1>4. ASSUME NEW p \in Panes, Reset(p) \/ Retire(p) \/ AcquireKeepRunningLease(p)
      PROVE  SupervisionInv'
  BY <1>4, ResetKeeps, RetireKeeps, AcquireKeepRunningLeaseKeeps
<1>5. ASSUME NEW p \in Panes, NEW a \in Args, AcquirePane(p, a) PROVE SupervisionInv'
  BY <1>5, AcquirePaneKeeps
<1>6. ASSUME NEW e \in BOOLEAN, SetEnabled(e) PROVE SupervisionInv'
  BY <1>6, SetEnabledKeeps
<1>7. CASE Restart \/ Shutdown
  BY <1>7, RestartKeeps, ShutdownKeeps
<1> QED BY <1>1, <1>2, <1>3, <1>4, <1>5, <1>6, <1>7 DEF Next

\* The inductive invariant holds in every state of the supervision of
\* wta-master, whatever windows, policy and Windows itself do.
THEOREM SupervisionInvariant == Spec => []SupervisionInv
BY InitInv, NextInv, PTL DEF Spec

LEMMA InvProperties ==
    SupervisionInv => /\ TypeOK /\ LeasesCounted
                      /\ OneMaster /\ RunningIsOwned /\ CachedIsLaunched /\ RecoveryIsBounded
<1> SUFFICES ASSUME SupervisionInv
             PROVE  /\ TypeOK /\ LeasesCounted
                    /\ OneMaster /\ RunningIsOwned /\ CachedIsLaunched /\ RecoveryIsBounded
  OBVIOUS
<1>1. TypeOK
  BY StateFields DEF SupervisionInv, Sound, StateType, Recovery, TypeOK, LeaseStates
<1>2. LeasesCounted
  BY CountedIsLeasesCounted DEF SupervisionInv
<1>3. OneMaster
  BY DEF SupervisionInv, Sound, OneAlive, OneMaster
<1>4. RunningIsOwned
  BY StateFields DEF SupervisionInv, Sound, RunHeld, Permitted, RunningIsOwned
<1>5. CachedIsLaunched
  BY StateFields DEF SupervisionInv, Sound, CacheTrue, CachedIsLaunched
<1>6. RecoveryIsBounded
  BY DEF SupervisionInv, Recovery, RecoveryIsBounded
<1> QED BY <1>1, <1>2, <1>3, <1>4, <1>5, <1>6

\* The fields of SharedWta keep their types; in particular the reference
\* counts never go below zero.
THEOREM SupervisionTypeCorrect == Spec => []TypeOK
BY SupervisionInvariant, InvProperties, PTL

\* The reference counts are exactly the leases held and the leases active,
\* through acquisition, rollback, retirement and the end of the grace period.
THEOREM LeasesCountedAlways == Spec => []LeasesCounted
BY SupervisionInvariant, InvProperties, PTL

\* A restart or a recovery never starts a master beside one that was not
\* stopped by policy or shutdown.
THEOREM OneMasterAlways == Spec => []OneMaster
BY SupervisionInvariant, InvProperties, PTL

\* No failed start, restart, recovery or late callback leaves a master running
\* that the object does not hold, or one that policy or shutdown forbids.
THEOREM RunningIsOwnedAlways == Spec => []RunningIsOwned
BY SupervisionInvariant, InvProperties, PTL

\* The command line cached for recovery and for the comparison in Restart(args)
\* is the one the present master was started with.
THEOREM CachedIsLaunchedAlways == Spec => []CachedIsLaunched
BY SupervisionInvariant, InvProperties, PTL

\* The callback replaces a master that dies at most once before somebody asks
\* for one again.
THEOREM RecoveryIsBoundedAlways == Spec => []RecoveryIsBounded
BY SupervisionInvariant, InvProperties, PTL

\* A wait callback, however late, ends no master that runs.
THEOREM CallbackHarmsNobodyAlways == Spec => CallbackHarmsNobody
<1>1. SupervisionInv /\ [Next]_vars =>
        [(\E g \in Gens : OnProcessExited(g)) =>
            \A h \in Gens : live[h] = "running" => live'[h] = "running"]_vars
  BY OnProcessExitedKeeps
<1> QED BY <1>1, SupervisionInvariant, PTL DEF Spec, CallbackHarmsNobody
=============================================================================
