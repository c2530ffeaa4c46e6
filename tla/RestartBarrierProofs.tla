------------------------ MODULE RestartBarrierProofs ------------------------
(***************************************************************************)
(* The restart barrier, for every number of windows, requests and          *)
(* operations.  The coordinator is first described by itself: what each of *)
(* its locked calls returns (EraseResult to RegisterResult).  Then the     *)
(* pages beside it: StepJoined says what a call and the step of one page   *)
(* must have to do with each other so that the counts stay right, and that *)
(* no other page notices.  Each action is an application of it.            *)
(***************************************************************************)
EXTENDS RestartBarrier, FiniteSetTheorems, SequenceTheorems, TLAPS

-----------------------------------------------------------------------------
(* The coordinator. *)

\* Functions from some of D to R.
Tables(D, R) == UNION {[X -> R] : X \in SUBSET D}

Coordinators ==
    [next : 0..MaxOperations, operations : Tables(Operations, Retirement),
     byRequest : Tables(Requests, Operations), history : Seq(Operations)]

\* Operations are numbered as they begin, and an operation of a request and the
\* request find each other.
Indexed(k) ==
    /\ \A o \in DOMAIN k.operations :
          /\ o <= k.next
          /\ k.operations[o].request # 0 =>
                /\ k.operations[o].request \in DOMAIN k.byRequest
                /\ k.byRequest[k.operations[o].request] = o
    /\ \A r \in DOMAIN k.byRequest :
          /\ k.byRequest[r] \in DOMAIN k.operations
          /\ k.operations[k.byRequest[r]].request = r

\* The history lists, once each, the operations that are recorded in it.
Listed(k) ==
    /\ Len(k.history) <= HistoryLimit
    /\ \A i \in 1..Len(k.history) :
          /\ k.history[i] \in DOMAIN k.operations
          /\ k.operations[k.history[i]].recorded
          /\ \A j \in 1..Len(k.history) : k.history[i] = k.history[j] => i = j
    /\ \A o \in DOMAIN k.operations : k.operations[o].recorded =>
          \E i \in 1..Len(k.history) : k.history[i] = o

\* An operation that is recorded needs nobody any more; one that is claimed is
\* complete.
Sane(op) ==
    /\ op.recorded => op.count = 0 /\ op.completed /\ ~ op.expire
    /\ op.claimed => op.completed

\* An operation that nobody needs is recorded.
Settled(op) == Sane(op) /\ (op.count = 0 => op.recorded)

Coherent(k) ==
    /\ k \in Coordinators /\ Indexed(k) /\ Listed(k)
    /\ \A o \in DOMAIN k.operations : Settled(k.operations[o])

-----------------------------------------------------------------------------
(* The pages, here P, beside coordinator k. *)

Pages == [open : BOOLEAN, busy : BOOLEAN, reconcile : BOOLEAN,
          pending : {0} \cup Operations, queued : {0} \cup Requests, stack : Seq(Frames)]

\* A page waits for one operation at a time, and not while it still runs the
\* continuation of another.
Shaped(pg) ==
    /\ pg.pending # 0 => pg.busy
    /\ \A i \in 1..Len(pg.stack) :
          /\ pg.stack[i].phase # "release" => i = 1 /\ pg.busy /\ pg.pending = 0
          /\ pg.stack[i].phase = "claim" => pg.stack[i].request # 0
          /\ pg.stack[i].op # pg.pending
          /\ \A j \in 1..Len(pg.stack) : pg.stack[i].op = pg.stack[j].op => i = j

\* Only an operation without a request may be forgotten while a page runs its
\* continuation; what it continues is complete.
Backed(pg, k) ==
    /\ pg.pending # 0 => pg.pending \in DOMAIN k.operations
    /\ \A i \in 1..Len(pg.stack) :
          /\ pg.stack[i].op <= k.next
          /\ pg.stack[i].request # 0 => pg.stack[i].op \in DOMAIN k.operations
          /\ pg.stack[i].op \in DOMAIN k.operations =>
                /\ k.operations[pg.stack[i].op].completed
                /\ k.operations[pg.stack[i].op].request = pg.stack[i].request

Fits(pg, k) == pg \in Pages /\ Shaped(pg) /\ Backed(pg, k)

Uses(pg, o) == pg.pending = o \/ \E i \in 1..Len(pg.stack) : pg.stack[i].op = o
UsersIn(P, o) == {w \in Windows : Uses(P[w], o)}

\* The coordinator counts the pages that use an operation; only one uses an
\* operation without a request.
Counts(k, P) ==
    \A o \in DOMAIN k.operations :
        /\ k.operations[o].count = Cardinality(UsersIn(P, o))
        /\ k.operations[o].request = 0 =>
              \A v, w \in UsersIn(P, o) : v = w

\* The requests a page has begun with.
Begun(pg, k) ==
    {pg.stack[i].request : i \in 1..Len(pg.stack)}
        \cup (IF pg.pending = 0 THEN {} ELSE {k.operations[pg.pending].request})

Messages == [kind : {"restart"}, id : Requests] \cup [kind : {"retired"}, id : Operations]

\* Requests reach a page in the order of their numbers and are taken up in that
\* order: none is begun twice.
Ordered(pg, k, in, n) ==
    /\ in \in Seq(Messages)
    /\ pg.queued # 0 => pg.busy
    /\ pg.queued <= n /\ \A r \in Begun(pg, k) : r <= n /\ (pg.queued # 0 => r < pg.queued)
    /\ \A i \in 1..Len(in) : in[i].kind = "restart" =>
          /\ in[i].id <= n /\ pg.queued < in[i].id /\ \A r \in Begun(pg, k) : r < in[i].id
          /\ \A j \in 1..Len(in) : in[j].kind = "restart" /\ i < j => in[i].id < in[j].id

Joined(k, P) ==
    /\ Coherent(k)
    /\ P \in [Windows -> Pages] /\ \A w \in Windows : Fits(P[w], k)
    /\ Counts(k, P)

\* A request that was restarted for has its operation claimed, unless it has
\* lapsed; an operation that will be forgotten has.
Claimed ==
    /\ attempts \in [Requests -> Nat] /\ lapsed \subseteq Requests
    /\ \A o \in DOMAIN c.operations :
          c.operations[o].expire /\ c.operations[o].request # 0 => c.operations[o].request \in lapsed
    /\ \A r \in Requests \ lapsed : attempts[r] # 0 =>
          /\ attempts[r] = 1
          /\ \E o \in DOMAIN c.operations : c.operations[o].request = r /\ c.operations[o].claimed

BarrierInv ==
    /\ Joined(c, page)
    /\ inbox \in [Windows -> Seq(Messages)]
    /\ \A w \in Windows : Ordered(page[w], c, inbox[w], issued)
    /\ Claimed
    /\ published \subseteq Operations /\ calls \in 0..MaxCalls /\ issued \in 0..MaxRequests

-----------------------------------------------------------------------------
(* The calls of the coordinator. *)

USE BarrierAssumption

\* What a table is.
LEMMA TableIs ==
    ASSUME NEW D, NEW R, NEW f
    PROVE  f \in Tables(D, R) <=>
             /\ f = [x \in DOMAIN f |-> f[x]] /\ DOMAIN f \subseteq D
             /\ \A x \in DOMAIN f : f[x] \in R
  BY DEF Tables

\* _EraseLocked takes an operation and its request from their tables.
LEMMA EraseResult ==
    ASSUME NEW k \in Coordinators, Indexed(k), NEW o \in DOMAIN k.operations
    PROVE  LET e == EraseLocked(k, o)
           IN  /\ e \in Coordinators /\ Indexed(e)
               /\ e.next = k.next /\ e.history = k.history
               /\ DOMAIN e.operations = DOMAIN k.operations \ {o}
               /\ \A p \in DOMAIN e.operations : e.operations[p] = k.operations[p]
<1> DEFINE e == EraseLocked(k, o)
           r == k.operations[o].request
           b == IF r \in DOMAIN k.byRequest /\ k.byRequest[r] = o THEN Without(k.byRequest, r)
                ELSE k.byRequest
           ops == Without(k.operations, o)
<1>1. /\ k.operations \in Tables(Operations, Retirement) /\ k.next \in 0..MaxOperations
      /\ k.byRequest \in Tables(Requests, Operations) /\ k.history \in Seq(Operations)
      /\ k = [next |-> k.next, operations |-> k.operations, byRequest |-> k.byRequest,
              history |-> k.history]
  BY DEF Coordinators
<1>2. e = [next |-> k.next, operations |-> ops, byRequest |-> b, history |-> k.history]
  BY <1>1 DEF EraseLocked
<1>3. /\ DOMAIN ops = DOMAIN k.operations \ {o} /\ \A p \in DOMAIN ops : ops[p] = k.operations[p]
      /\ ops \in Tables(Operations, Retirement)
  BY <1>1, TableIs DEF Without
<1>4. /\ DOMAIN b = IF r \in DOMAIN k.byRequest /\ k.byRequest[r] = o
                    THEN DOMAIN k.byRequest \ {r} ELSE DOMAIN k.byRequest
      /\ \A q \in DOMAIN b : b[q] = k.byRequest[q]
      /\ b \in Tables(Requests, Operations)
  BY <1>1, TableIs DEF Without
<1>5. e \in Coordinators
  BY <1>1, <1>2, <1>3, <1>4 DEF Coordinators
<1>6. Indexed(e)
  <2> HIDE DEF b, ops
  <2>1. \A p \in DOMAIN ops : ops[p].request # 0 =>
           ops[p].request \in DOMAIN b /\ b[ops[p].request] = p
    BY <1>3, <1>4 DEF Indexed
  <2>2. \A q \in DOMAIN b : b[q] \in DOMAIN ops /\ ops[b[q]].request = q
    BY <1>3, <1>4 DEF Indexed
  <2>3. \A p \in DOMAIN ops : p <= k.next
    BY <1>3 DEF Indexed
  <2>4. e.next = k.next /\ e.operations = ops /\ e.byRequest = b
    BY <1>2
  <2> HIDE DEF e
  <2>5. QED
    BY <2>1, <2>2, <2>3, <2>4 DEF Indexed
<1>7. QED
  BY <1>2, <1>3, <1>5, <1>6

\* Two records of an operation that differ at most in the history.
Agree(a, b) ==
    /\ a.completed = b.completed /\ a.expire = b.expire /\ a.claimed = b.claimed
    /\ a.count = b.count /\ a.request = b.request

\* The fields of a record of the coordinator.
LEMMA CoordinatorIs ==
    ASSUME NEW k \in Coordinators
    PROVE  /\ k.next \in 0..MaxOperations /\ k.history \in Seq(Operations)
           /\ k.operations = [o \in DOMAIN k.operations |-> k.operations[o]]
           /\ DOMAIN k.operations \subseteq Operations
           /\ \A o \in DOMAIN k.operations : k.operations[o] \in Retirement
           /\ DOMAIN k.byRequest \subseteq Requests
           /\ \A r \in DOMAIN k.byRequest : k.byRequest[r] \in Operations
           /\ k = [next |-> k.next, operations |-> k.operations, byRequest |-> k.byRequest,
                   history |-> k.history]
  BY TableIs DEF Coordinators

\* A call that changes the record of one operation, and the history.
LEMMA UpdateResult ==
    ASSUME NEW k \in Coordinators, Indexed(k), NEW o \in DOMAIN k.operations,
           NEW op \in Retirement, op.request = k.operations[o].request, NEW h \in Seq(Operations),
           NEW e, e = [next |-> k.next, operations |-> [k.operations EXCEPT ![o] = op],
                       byRequest |-> k.byRequest, history |-> h]
    PROVE  /\ e \in Coordinators /\ Indexed(e) /\ e.next = k.next /\ e.history = h
           /\ DOMAIN e.operations = DOMAIN k.operations /\ e.byRequest = k.byRequest
           /\ \A p \in DOMAIN k.operations :
                 e.operations[p] = IF p = o THEN op ELSE k.operations[p]
<1> DEFINE ops == [k.operations EXCEPT ![o] = op]
<1>1. /\ k.next \in 0..MaxOperations /\ k.operations \in Tables(Operations, Retirement)
      /\ k.byRequest \in Tables(Requests, Operations)
  BY DEF Coordinators
<1>2. e = [next |-> k.next, operations |-> ops, byRequest |-> k.byRequest, history |-> h]
  OBVIOUS
<1>3. /\ DOMAIN ops = DOMAIN k.operations /\ ops \in Tables(Operations, Retirement)
      /\ \A p \in DOMAIN k.operations : ops[p] = IF p = o THEN op ELSE k.operations[p]
  BY <1>1, TableIs
<1>4. e \in Coordinators
  BY <1>1, <1>2, <1>3 DEF Coordinators
<1> HIDE DEF ops
<1>5. e.operations = ops /\ e.byRequest = k.byRequest /\ e.next = k.next /\ e.history = h
  BY ONLY <1>2
<1>6. Indexed(e)
  <2>1. \A p \in DOMAIN k.operations : ops[p].request = k.operations[p].request
    BY <1>3
  <2>2. QED
    BY <1>3, <1>5, <2>1 DEF Indexed
<1>7. QED
  BY <1>3, <1>4, <1>5, <1>6

\* _FinalizeCompletedLocked records an operation that nobody needs, and forgets
\* it if it is to expire; recording it may push another one out of the history.
LEMMA FinalizeResult ==
    ASSUME NEW k \in Coordinators, Indexed(k), Listed(k), NEW o \in DOMAIN k.operations,
           \A p \in DOMAIN k.operations : Sane(k.operations[p]),
           \A p \in DOMAIN k.operations \ {o} : Settled(k.operations[p]),
           k.operations[o].count = 0 => k.operations[o].completed
    PROVE  LET e == FinalizeCompletedLocked(k, o)
           IN  /\ Coherent(e) /\ e.next = k.next
               /\ DOMAIN e.operations \subseteq DOMAIN k.operations
               /\ \A p \in DOMAIN e.operations : Agree(e.operations[p], k.operations[p])
               /\ \A p \in DOMAIN k.operations \ DOMAIN e.operations :
                     /\ k.operations[p].count = 0
                     /\ IF p = o THEN k.operations[p].expire ELSE Len(k.history) = HistoryLimit
<1> DEFINE op == k.operations[o]
           e == FinalizeCompletedLocked(k, o)
<1>0. op \in Retirement /\ op.completed \in BOOLEAN /\ op.expire \in BOOLEAN /\ op.recorded \in BOOLEAN
  BY CoordinatorIs DEF Retirement
<1>1. CASE ~ op.completed \/ op.count # 0 \/ (~ op.expire /\ op.recorded)
  <2>1. e = k
    BY <1>1 DEF FinalizeCompletedLocked
  <2>2. Coherent(k)
    BY <1>1 DEF Coherent, Settled, Sane
  <2>3. QED
    BY <2>1, <2>2 DEF Agree
<1>2. CASE op.completed /\ op.count = 0 /\ op.expire
  <2> HIDE DEF op
  <2>1. e = EraseLocked(k, o)
    BY <1>2 DEF FinalizeCompletedLocked, op
  <2>2. /\ e \in Coordinators /\ Indexed(e) /\ e.next = k.next /\ e.history = k.history
        /\ DOMAIN e.operations = DOMAIN k.operations \ {o}
        /\ \A p \in DOMAIN e.operations : e.operations[p] = k.operations[p]
    BY <2>1, EraseResult
  <2>3. ~ k.operations[o].recorded
    BY <1>2 DEF Sane, op
  <2> HIDE DEF e
  <2>4. Coherent(e)
    BY <2>2, <2>3 DEF Coherent, Listed
  <2>5. QED
    BY <1>2, <2>2, <2>4 DEF Agree, op, e
<1>3. CASE op.completed /\ op.count = 0 /\ ~ op.expire /\ ~ op.recorded
  <2> DEFINE new == [op EXCEPT !.recorded = TRUE]
             h == Append(k.history, o)
             g == [next |-> k.next, operations |-> [k.operations EXCEPT ![o] = new],
                   byRequest |-> k.byRequest, history |-> h]
  <2>1. e = PruneCompletedLocked(g)
    <3>1. ASSUME NEW x, x = [k EXCEPT !.operations[o].recorded = TRUE, !.history = Append(@, o)]
          PROVE  x = g
      BY <3>1 DEF Coordinators
    <3>2. QED
      BY <1>3, <3>1 DEF FinalizeCompletedLocked
  <2>2. /\ new \in Retirement /\ new.request = op.request /\ Agree(new, op) /\ new.recorded
        /\ Settled(new)
    BY <1>0, <1>3 DEF Retirement, Agree, Settled, Sane
  <2>3. /\ k.history \in Seq(Operations) /\ o \in Operations /\ Len(k.history) \in Nat
        /\ h \in Seq(Operations) /\ Len(h) = Len(k.history) + 1 /\ h[Len(h)] = o
        /\ \A i \in 1..Len(k.history) : h[i] = k.history[i]
    <3>1. k.history \in Seq(Operations) /\ o \in Operations
      BY CoordinatorIs
    <3>2. QED
      BY <3>1, AppendProperties, LenProperties
  <2> HIDE DEF new, h, op
  <2>4. /\ g \in Coordinators /\ Indexed(g) /\ g.next = k.next /\ g.history = h
        /\ DOMAIN g.operations = DOMAIN k.operations
        /\ \A p \in DOMAIN k.operations :
              g.operations[p] = IF p = o THEN new ELSE k.operations[p]
    <3> HIDE DEF g
    <3>1. g = [next |-> k.next, operations |-> [k.operations EXCEPT ![o] = new],
               byRequest |-> k.byRequest, history |-> h]
      BY DEF g
    <3>2. new \in Retirement /\ new.request = k.operations[o].request /\ h \in Seq(Operations)
      BY <2>2, <2>3 DEF op
    <3>3. QED
      BY <3>1, <3>2, UpdateResult
  <2>5. /\ \A p \in DOMAIN k.operations : Settled(g.operations[p])
        /\ \A p \in DOMAIN k.operations : Agree(g.operations[p], k.operations[p])
    BY <2>2, <2>4 DEF op, Agree
  <2>6. \A i, j \in 1..Len(h) : h[i] = h[j] => i = j
    <3>1. \A i \in 1..Len(k.history) : k.history[i] # o
      BY <1>3 DEF Listed, op
    <3>2. QED
      BY <2>3, <3>1 DEF Listed
  <2>7. /\ \A i \in 1..Len(h) : h[i] \in DOMAIN g.operations /\ g.operations[h[i]].recorded
        /\ \A p \in DOMAIN g.operations : g.operations[p].recorded =>
              \E i \in 1..Len(h) : h[i] = p
    <3> HIDE DEF g
    <3>1. \A i \in 1..Len(h) : h[i] \in DOMAIN k.operations /\ (h[i] = o \/ k.operations[h[i]].recorded)
      <4>1. \A i \in 1..Len(h) : i \in 1..Len(k.history) \/ i = Len(h)
        BY <2>3
      <4>2. QED
        BY <2>3, <4>1 DEF Listed
    <3>2. ASSUME NEW p \in DOMAIN k.operations, p = o \/ k.operations[p].recorded
          PROVE  \E i \in 1..Len(h) : h[i] = p
      BY <2>3, <3>2 DEF Listed
    <3>3. QED
      BY <2>2, <2>4, <3>1, <3>2
  <2>8. CASE Len(h) <= HistoryLimit
    <3>1. e = g
      BY <2>1, <2>3, <2>4, <2>8 DEF PruneCompletedLocked
    <3> HIDE DEF g, e
    <3>2. Coherent(g)
      BY <2>4, <2>5, <2>6, <2>7, <2>8 DEF Coherent, Listed
    <3>3. QED
      BY <2>4, <2>5, <3>1, <3>2 DEF e
  <2>9. CASE Len(h) > HistoryLimit
    <3> DEFINE q == h[1]
               t == Tail(h)
               x == [g EXCEPT !.history = t]
    <3>1. /\ h # <<>> /\ Head(h) = q /\ Len(h) = HistoryLimit + 1
          /\ t \in Seq(Operations) /\ Len(t) = HistoryLimit
          /\ \A i \in 1..HistoryLimit : t[i] = h[i + 1]
      BY <2>3, <2>9, HeadTailProperties, EmptySeq DEF Listed
    <3>2. e = EraseLocked(x, q)
      <4>1. Head(g.history) = q /\ Tail(g.history) = t /\ Len(g.history) > HistoryLimit
        BY <2>4, <2>9, <3>1
      <4> HIDE DEF g, t, q
      <4>2. PruneCompletedLocked(g) = EraseLocked([g EXCEPT !.history = Tail(g.history)], Head(g.history))
        BY <4>1 DEF PruneCompletedLocked
      <4>3. QED
        BY <2>1, <4>1, <4>2
    <3> HIDE DEF g, t, q, e
    <3>3. /\ x \in Coordinators /\ Indexed(x) /\ x.next = g.next /\ x.history = t
          /\ x.operations = g.operations
      BY <2>4, <3>1 DEF Coordinators, Indexed
    <3>4. q \in DOMAIN g.operations /\ q # o
      BY <2>3, <2>6, <2>7, <3>1 DEF q
    <3> HIDE DEF x
    <3>5. /\ e \in Coordinators /\ Indexed(e) /\ e.next = g.next /\ e.history = t
          /\ DOMAIN e.operations = DOMAIN g.operations \ {q}
          /\ \A p \in DOMAIN e.operations : e.operations[p] = g.operations[p]
      BY <3>2, <3>3, <3>4, EraseResult
    <3>6. Listed(e)
      <4>1. \A i \in 1..Len(t) :
               /\ t[i] \in DOMAIN e.operations /\ e.operations[t[i]].recorded
               /\ \A j \in 1..Len(t) : t[i] = t[j] => i = j
        <5>1. ASSUME NEW i \in 1..Len(t) PROVE i + 1 \in 1..Len(h) /\ t[i] = h[i + 1] /\ t[i] # q
          <6>1. i + 1 \in 1..Len(h) /\ 1 \in 1..Len(h) /\ i + 1 # 1 /\ t[i] = h[i + 1]
            BY <3>1
          <6>2. QED
            BY <2>6, <6>1 DEF q
        <5>2. QED
          BY <2>6, <2>7, <3>5, <5>1
      <4>2. ASSUME NEW p \in DOMAIN e.operations, e.operations[p].recorded
            PROVE  \E i \in 1..Len(t) : t[i] = p
        <5>1. PICK i \in 1..Len(h) : h[i] = p
          BY <2>7, <3>5, <4>2
        <5>2. i # 1
          BY <3>5, <4>2, <5>1 DEF q
        <5>3. i - 1 \in 1..Len(t) /\ t[i - 1] = h[i]
          BY <3>1, <5>2
        <5>4. QED
          BY <5>1, <5>3
      <4>3. QED
        BY <3>1, <3>5, <4>1, <4>2 DEF Listed
    <3>7. Coherent(e)
      BY <2>4, <2>5, <3>5, <3>6 DEF Coherent
    <3>8. k.operations[q].count = 0 /\ Len(k.history) = HistoryLimit
      <4>1. g.operations[q].count = 0
        <5>1. g.operations[q].recorded
          BY <2>7, <3>1 DEF q
        <5>2. QED
          BY <2>4, <2>5, <3>4, <5>1 DEF Settled, Sane
      <4>2. QED
        BY <2>3, <2>4, <3>1, <3>4, <4>1
    <3>9. QED
      BY <2>4, <2>5, <3>4, <3>5, <3>7, <3>8 DEF e
  <2>10. QED
    BY <2>3, <2>8, <2>9
<1>4. QED
  BY <1>0, <1>1, <1>2, <1>3

\* Complete sets the flags of an operation and leaves all else alone: whoever
\* still needs the operation keeps it, and otherwise it is in the history.
LEMMA CompleteResult ==
    ASSUME NEW k, Coherent(k), NEW o, NEW late \in BOOLEAN,
           o \in DOMAIN k.operations /\ late => k.operations[o].count # 0
    PROVE  LET e == Complete(k, o, late)
           IN  /\ Coherent(e) /\ e.next = k.next /\ e.byRequest = k.byRequest
               /\ DOMAIN e.operations = DOMAIN k.operations
               /\ \A p \in DOMAIN k.operations :
                     /\ e.operations[p].count = k.operations[p].count
                     /\ e.operations[p].request = k.operations[p].request
                     /\ e.operations[p].claimed = k.operations[p].claimed
                     /\ e.operations[p].completed <=> k.operations[p].completed \/ p = o
                     /\ e.operations[p].expire <=> k.operations[p].expire \/ (p = o /\ late)
<1> DEFINE e == Complete(k, o, late)
<1>0. k \in Coordinators /\ Indexed(k) /\ Listed(k)
  BY DEF Coherent
<1>1. CASE o \notin DOMAIN k.operations
  <2>1. e = k
    BY <1>1 DEF Complete
  <2>2. \A p \in DOMAIN k.operations : k.operations[p] \in Retirement
    BY <1>0, CoordinatorIs
  <2>3. QED
    BY <1>1, <2>1, <2>2 DEF Retirement
<1>2. CASE o \in DOMAIN k.operations
  <2> DEFINE op == k.operations[o]
             new == [op EXCEPT !.completed = TRUE, !.expire = @ \/ late]
             h == k.history
             g == [next |-> k.next, operations |-> [k.operations EXCEPT ![o] = new],
                   byRequest |-> k.byRequest, history |-> h]
  <2>0. op \in Retirement /\ Settled(op) /\ op.expire \in BOOLEAN /\ h \in Seq(Operations)
    BY <1>0, <1>2, CoordinatorIs DEF Coherent, Retirement
  <2>1. /\ new \in Retirement /\ new.request = op.request /\ new.count = op.count
        /\ new.claimed = op.claimed /\ new.recorded = op.recorded /\ new.completed
        /\ new.expire <=> op.expire \/ late
    BY <2>0 DEF Retirement
  <2>2. e = FinalizeCompletedLocked(g, o)
    <3>1. ASSUME NEW x,
                 x = [k EXCEPT !.operations[o].completed = TRUE, !.operations[o].expire = @ \/ late]
          PROVE  x = g
      BY <1>0, <3>1 DEF Coordinators
    <3>2. QED
      BY <1>2, <3>1 DEF Complete
  <2>3. late => op.count # 0
    BY <1>2
  <2> HIDE DEF new, op, h
  <2>4. /\ g \in Coordinators /\ Indexed(g) /\ g.next = k.next /\ g.history = h
        /\ DOMAIN g.operations = DOMAIN k.operations /\ g.byRequest = k.byRequest
        /\ \A p \in DOMAIN k.operations :
              g.operations[p] = IF p = o THEN new ELSE k.operations[p]
    <3> HIDE DEF g
    <3>1. g = [next |-> k.next, operations |-> [k.operations EXCEPT ![o] = new],
               byRequest |-> k.byRequest, history |-> h]
      BY DEF g
    <3>2. new \in Retirement /\ new.request = k.operations[o].request /\ h \in Seq(Operations)
      BY <2>0, <2>1 DEF op
    <3>3. QED
      BY <1>0, <1>2, <3>1, <3>2, UpdateResult
  <2> HIDE DEF g
  <2>5. g.operations[o].count # 0 \/ (~ g.operations[o].expire /\ g.operations[o].recorded)
    BY <1>2, <2>0, <2>1, <2>3, <2>4 DEF Settled, Sane
  <2>6. e = g
    BY <2>2, <2>5 DEF FinalizeCompletedLocked
  <2>7. Settled(new)
    BY <2>0, <2>1, <2>3 DEF Settled, Sane
  <2>8. Listed(g)
    BY <1>0, <1>2, <2>1, <2>4 DEF Listed, op, h
  <2>9. Coherent(g)
    BY <2>4, <2>7, <2>8 DEF Coherent
  <2>10. \A p \in DOMAIN k.operations : k.operations[p] \in Retirement
    BY <1>0, CoordinatorIs
  <2>11. QED
    BY <1>2, <2>1, <2>4, <2>6, <2>9, <2>10 DEF op, Retirement
<1>3. QED
  BY <1>1, <1>2

\* ReleaseContinuation counts a page off; without any left an operation that is
\* not complete is forgotten, and another one is recorded or expires.
LEMMA ReleaseResult ==
    ASSUME NEW k, Coherent(k), NEW o \in DOMAIN k.operations, k.operations[o].count # 0
    PROVE  LET e == ReleaseContinuation(k, o)
           IN  /\ Coherent(e) /\ e.next = k.next
               /\ DOMAIN e.operations \subseteq DOMAIN k.operations
               /\ \A p \in DOMAIN e.operations :
                     /\ e.operations[p].completed = k.operations[p].completed
                     /\ e.operations[p].expire = k.operations[p].expire
                     /\ e.operations[p].claimed = k.operations[p].claimed
                     /\ e.operations[p].request = k.operations[p].request
                     /\ e.operations[p].count =
                           IF p = o THEN k.operations[p].count - 1 ELSE k.operations[p].count
               /\ \A p \in DOMAIN k.operations \ DOMAIN e.operations :
                     IF p = o
                     THEN /\ k.operations[p].count = 1
                          /\ k.operations[p].expire \/ ~ k.operations[p].completed
                     ELSE k.operations[p].count = 0 /\ Len(k.history) = HistoryLimit
<1> DEFINE e == ReleaseContinuation(k, o)
           op == k.operations[o]
           left == op.count - 1
           new == [op EXCEPT !.count = left]
           h == k.history
           g == [next |-> k.next, operations |-> [k.operations EXCEPT ![o] = new],
                 byRequest |-> k.byRequest, history |-> h]
<1>1. k \in Coordinators /\ Indexed(k) /\ Listed(k)
  BY DEF Coherent
<1>2. /\ op \in Retirement /\ Settled(op) /\ h \in Seq(Operations) /\ ~ op.recorded
      /\ op.completed \in BOOLEAN
  BY <1>1, CoordinatorIs DEF Coherent, Retirement, Settled, Sane
<1>3. /\ new \in Retirement /\ new.request = op.request /\ new.count = left /\ left \in Nat
      /\ new.claimed = op.claimed /\ new.recorded = op.recorded /\ new.completed = op.completed
      /\ new.expire = op.expire
  BY <1>2 DEF Retirement
<1>4. e = IF left = 0 /\ ~ op.completed THEN EraseLocked(g, o) ELSE FinalizeCompletedLocked(g, o)
  <2>1. ASSUME NEW x, x = [k EXCEPT !.operations[o].count = left] PROVE x = g
    BY <1>1, <2>1 DEF Coordinators
  <2> HIDE DEF g
  <2>2. QED
    BY <2>1 DEF ReleaseContinuation
<1> HIDE DEF new, op, h, left
<1>5. /\ g \in Coordinators /\ Indexed(g) /\ g.next = k.next /\ g.history = h
      /\ DOMAIN g.operations = DOMAIN k.operations
      /\ \A p \in DOMAIN k.operations :
            g.operations[p] = IF p = o THEN new ELSE k.operations[p]
  <2> HIDE DEF g
  <2>1. g = [next |-> k.next, operations |-> [k.operations EXCEPT ![o] = new],
             byRequest |-> k.byRequest, history |-> h]
    BY DEF g
  <2>2. new \in Retirement /\ new.request = k.operations[o].request /\ h \in Seq(Operations)
    BY <1>2, <1>3 DEF op
  <2>3. QED
    BY <1>1, <2>1, <2>2, UpdateResult
<1> HIDE DEF g
<1>6. Listed(g)
  BY <1>1, <1>3, <1>5 DEF Listed, op, h
<1>7. /\ \A p \in DOMAIN g.operations : Sane(g.operations[p])
      /\ \A p \in DOMAIN g.operations \ {o} : Settled(g.operations[p])
  BY <1>2, <1>3, <1>5 DEF Coherent, Settled, Sane
<1>8. CASE left = 0 /\ ~ op.completed
  <2>1. e = EraseLocked(g, o)
    BY <1>4, <1>8
  <2>2. /\ e \in Coordinators /\ Indexed(e) /\ e.next = g.next /\ e.history = g.history
        /\ DOMAIN e.operations = DOMAIN g.operations \ {o}
        /\ \A p \in DOMAIN e.operations : e.operations[p] = g.operations[p]
    BY <1>5, <2>1, EraseResult
  <2> HIDE DEF e
  <2>3. Listed(e)
    BY <1>2, <1>3, <1>5, <1>6, <2>2 DEF Listed
  <2>4. Coherent(e)
    BY <1>7, <2>2, <2>3 DEF Coherent
  <2>5. k.operations[o].count = 1
    BY <1>2, <1>8 DEF left, op, Retirement
  <2>6. QED
    BY <1>5, <1>8, <2>2, <2>4, <2>5 DEF e, op
<1>9. CASE left # 0 \/ op.completed
  <2>1. e = FinalizeCompletedLocked(g, o)
    BY <1>4, <1>9
  <2>2. g.operations[o].count = 0 => g.operations[o].completed
    BY <1>3, <1>5, <1>9
  <2>3. /\ Coherent(e) /\ e.next = g.next
        /\ DOMAIN e.operations \subseteq DOMAIN g.operations
        /\ \A p \in DOMAIN e.operations : Agree(e.operations[p], g.operations[p])
        /\ \A p \in DOMAIN g.operations \ DOMAIN e.operations :
              /\ g.operations[p].count = 0
              /\ IF p = o THEN g.operations[p].expire ELSE Len(g.history) = HistoryLimit
    BY <1>5, <1>6, <1>7, <2>1, <2>2, FinalizeResult
  <2> HIDE DEF e
  <2>4. \A p \in DOMAIN k.operations :
           /\ g.operations[p].completed = k.operations[p].completed
           /\ g.operations[p].expire = k.operations[p].expire
           /\ g.operations[p].claimed = k.operations[p].claimed
           /\ g.operations[p].request = k.operations[p].request
           /\ g.operations[p].count =
                 IF p = o THEN k.operations[p].count - 1 ELSE k.operations[p].count
    BY <1>3, <1>5 DEF op, left
  <2>5. k.operations[o].count - 1 = 0 => k.operations[o].count = 1
    BY <1>2 DEF op, Retirement
  <2>6. \A p \in DOMAIN e.operations :
           /\ p \in DOMAIN k.operations
           /\ e.operations[p].completed = k.operations[p].completed
           /\ e.operations[p].expire = k.operations[p].expire
           /\ e.operations[p].claimed = k.operations[p].claimed
           /\ e.operations[p].request = k.operations[p].request
           /\ e.operations[p].count =
                 IF p = o THEN k.operations[p].count - 1 ELSE k.operations[p].count
    BY <1>5, <2>3, <2>4 DEF Agree
  <2>7. ASSUME NEW p \in DOMAIN k.operations \ DOMAIN e.operations
        PROVE  IF p = o
               THEN k.operations[p].count = 1 /\ k.operations[p].expire
               ELSE k.operations[p].count = 0 /\ Len(k.history) = HistoryLimit
    <3>1. /\ p \in DOMAIN g.operations \ DOMAIN e.operations /\ g.operations[p].count = 0
          /\ IF p = o THEN g.operations[p].expire ELSE Len(k.history) = HistoryLimit
      BY <1>5, <2>3 DEF h
    <3>2. CASE p = o
      BY <2>4, <2>5, <3>1, <3>2
    <3>3. CASE p # o
      BY <2>4, <3>1, <3>3
    <3>4. QED
      BY <3>2, <3>3
  <2>8. QED
    BY <1>5, <2>3, <2>6, <2>7 DEF e
<1>10. QED
  BY <1>8, <1>9

\* The history without one of its operations.
LEMMA RecalledResult ==
    ASSUME NEW s \in Seq(Operations), NEW n \in 1..Len(s),
           \A i, j \in 1..Len(s) : s[i] = s[j] => i = j
    PROVE  LET t == Recalled(s, s[n])
           IN  /\ t \in Seq(Operations) /\ Len(t) = Len(s) - 1
               /\ \A i \in 1..Len(t) :
                     /\ t[i] # s[n] /\ \E j \in 1..Len(s) : t[i] = s[j]
                     /\ \A j \in 1..Len(t) : t[i] = t[j] => i = j
               /\ \A j \in 1..Len(s) : j # n => \E i \in 1..Len(t) : t[i] = s[j]
<1> DEFINE m == Len(s) - 1
           t == [j \in 1..m |-> IF j < n THEN s[j] ELSE s[j + 1]]
<1>1. Len(s) \in Nat /\ m \in Nat /\ \A i \in 1..Len(s) : s[i] \in Operations
  BY LenProperties, ElementOfSeq
<1>2. n = CHOOSE i \in 1..Len(s) : s[i] = s[n]
  OBVIOUS
<1>3. Recalled(s, s[n]) = t
  <2> DEFINE i == CHOOSE i \in 1..Len(s) : s[i] = s[n]
  <2>1. Recalled(s, s[n]) = [j \in 1..Len(s) - 1 |-> IF j < i THEN s[j] ELSE s[j + 1]]
    BY DEF Recalled
  <2>2. i = n
    BY <1>2
  <2> HIDE DEF i
  <2>3. QED
    BY <2>1, <2>2
<1>4. \A j \in 1..m : t[j] \in Operations
  BY <1>1
<1>5. t \in Seq(Operations) /\ Len(t) = m /\ DOMAIN t = 1..m
  <2>1. t \in [1..m -> Operations]
    BY <1>4
  <2> HIDE DEF t, m
  <2>2. t \in Seq(Operations) /\ DOMAIN t = 1..m
    BY <1>1, <2>1, IsASeq
  <2>3. Len(t) = m
    BY <1>1, <2>2, LenProperties
  <2>4. QED
    BY <2>2, <2>3
<1>6. ASSUME NEW i \in 1..m
      PROVE  LET j == IF i < n THEN i ELSE i + 1
             IN  j \in 1..Len(s) /\ j # n /\ t[i] = s[j]
  BY <1>1, <1>6
<1>7. ASSUME NEW j \in 1..Len(s), j # n
      PROVE  \E i \in 1..m : t[i] = s[j]
  <2>1. CASE j < n
    <3>1. j \in 1..m /\ t[j] = s[j]
      BY <1>1, <2>1
    <3>2. QED
      BY <3>1
  <2>2. CASE j > n
    <3>1. j - 1 \in 1..m /\ t[j - 1] = s[j]
      BY <1>1, <2>2
    <3>2. QED
      BY <3>1
  <2>3. QED
    BY <1>1, <1>7, <2>1, <2>2
<1> HIDE DEF t
<1>8. ASSUME NEW i \in 1..m, NEW j \in 1..m, t[i] = t[j]
      PROVE  i = j
  <2> DEFINE x == IF i < n THEN i ELSE i + 1
             y == IF j < n THEN j ELSE j + 1
  <2>1. x \in 1..Len(s) /\ y \in 1..Len(s) /\ t[i] = s[x] /\ t[j] = s[y]
    BY <1>6
  <2>2. x = y
    BY <1>8, <2>1
  <2>3. QED
    BY <1>1, <2>2
<1>9. ASSUME NEW i \in 1..m
      PROVE  t[i] # s[n] /\ \E j \in 1..Len(s) : t[i] = s[j]
  <2> DEFINE j == IF i < n THEN i ELSE i + 1
  <2>1. j \in 1..Len(s) /\ j # n /\ t[i] = s[j]
    BY <1>6
  <2> HIDE DEF j
  <2>2. QED
    BY <2>1
<1>10. QED
  BY <1>3, <1>5, <1>7, <1>8, <1>9

\* A page joins an operation: it is the one of the request, or a new one.
LEMMA RegisterResult ==
    ASSUME NEW k, Coherent(k), NEW r \in {0} \cup Requests, Register(k, r).id \in Operations
    PROVE  LET reg == Register(k, r)
               e == reg.c
               o == reg.id
           IN  /\ Coherent(e) /\ k.next <= e.next /\ o \in DOMAIN e.operations
               /\ DOMAIN e.operations = DOMAIN k.operations \cup {o}
               /\ e.operations[o].request = r
               /\ reg.completed \in BOOLEAN /\ e.operations[o].completed = reg.completed
               /\ \A p \in DOMAIN k.operations :
                     /\ e.operations[p].completed = k.operations[p].completed
                     /\ e.operations[p].expire = k.operations[p].expire
                     /\ e.operations[p].claimed = k.operations[p].claimed
                     /\ e.operations[p].request = k.operations[p].request
                     /\ e.operations[p].count =
                           IF p = o THEN k.operations[p].count + 1 ELSE k.operations[p].count
               /\ o \in DOMAIN k.operations => r # 0 /\ k.operations[o].request = r
               /\ o \notin DOMAIN k.operations =>
                     o = k.next + 1 /\ e.operations[o].count = 1 /\ ~ e.operations[o].expire
<1> DEFINE reg == Register(k, r)
           e == reg.c
           o == reg.id
<1>1. /\ k \in Coordinators /\ Indexed(k) /\ Listed(k)
      /\ \A p \in DOMAIN k.operations : Settled(k.operations[p])
  BY DEF Coherent
<1>0. /\ k.next \in Nat /\ k.history \in Seq(Operations) /\ Len(k.history) \in Nat
      /\ DOMAIN k.operations \subseteq Operations /\ DOMAIN k.byRequest \subseteq Requests
      /\ \A p \in DOMAIN k.operations : k.operations[p] \in Retirement
  <2>1. k \in Coordinators
    BY <1>1
  <2>2. k.next \in 0..MaxOperations /\ k.history \in Seq(Operations)
    BY <2>1, CoordinatorIs
  <2>3. k.next \in Nat /\ Len(k.history) \in Nat
    BY <2>2, LenProperties
  <2>4. QED
    BY <2>1, <2>2, <2>3, CoordinatorIs
<1>2. CASE r \in DOMAIN k.byRequest
  <2> DEFINE p == k.byRequest[r]
             op == k.operations[p]
             new == [op EXCEPT !.recorded = FALSE, !.count = @ + 1]
             h == IF op.recorded THEN Recalled(k.history, p) ELSE k.history
             g == [next |-> k.next, operations |-> [k.operations EXCEPT ![p] = new],
                   byRequest |-> k.byRequest, history |-> h]
  <2>1. p \in DOMAIN k.operations /\ op.request = r /\ r # 0
    BY <1>0, <1>1, <1>2 DEF Indexed, Requests
  <2>2. op \in Retirement /\ Settled(op) /\ k.history \in Seq(Operations)
    BY <1>0, <1>1, <2>1
  <2>3. /\ new \in Retirement /\ new.request = r /\ new.count = op.count + 1 /\ ~ new.recorded
        /\ new.claimed = op.claimed /\ new.completed = op.completed /\ new.expire = op.expire
    <3> HIDE DEF op
    <3>1. op \in Retirement /\ op.request = r
      BY <2>1, <2>2
    <3>2. op.count \in Nat /\ op.count + 1 \in Nat
      BY <3>1 DEF Retirement
    <3>3. new \in Retirement
      BY <3>1, <3>2 DEF Retirement
    <3>4. QED
      BY <3>1, <3>3 DEF Retirement
  <2>4. o = p /\ reg.completed = op.completed /\ e = g
    <3>1. ASSUME NEW x, x = [k EXCEPT !.operations[p].recorded = FALSE,
                                      !.operations[p].count = @ + 1,
                                      !.history = IF op.recorded THEN Recalled(@, p) ELSE @]
          PROVE  x = g
      BY <1>1, <3>1 DEF Coordinators
    <3>2. /\ reg.id = p /\ reg.completed = op.completed
          /\ reg.c = [k EXCEPT !.operations[p].recorded = FALSE,
                               !.operations[p].count = @ + 1,
                               !.history = IF op.recorded THEN Recalled(@, p) ELSE @]
      BY <1>2, <2>1 DEF Register
    <3>3. QED
      BY <3>1, <3>2
  <2>5. /\ h \in Seq(Operations) /\ Len(h) <= HistoryLimit
        /\ \A i \in 1..Len(h) :
              /\ h[i] # p /\ \E j \in 1..Len(k.history) : h[i] = k.history[j]
              /\ \A j \in 1..Len(h) : h[i] = h[j] => i = j
        /\ \A j \in 1..Len(k.history) : k.history[j] # p => \E i \in 1..Len(h) : h[i] = k.history[j]
    <3>1. CASE op.recorded
      <4>1. PICK n \in 1..Len(k.history) : k.history[n] = p
        BY <1>1, <2>1, <3>1 DEF Listed
      <4>2. \A i, j \in 1..Len(k.history) : k.history[i] = k.history[j] => i = j
        BY <1>1 DEF Listed
      <4>3. h = Recalled(k.history, k.history[n])
        BY <3>1, <4>1
      <4> HIDE DEF h, p, op
      <4>4. /\ h \in Seq(Operations) /\ Len(h) = Len(k.history) - 1
            /\ \A i \in 1..Len(h) :
                  /\ h[i] # k.history[n] /\ \E j \in 1..Len(k.history) : h[i] = k.history[j]
                  /\ \A j \in 1..Len(h) : h[i] = h[j] => i = j
            /\ \A j \in 1..Len(k.history) : j # n => \E i \in 1..Len(h) : h[i] = k.history[j]
        <5> DEFINE s == k.history
        <5>1. s \in Seq(Operations) /\ n \in 1..Len(s) /\ h = Recalled(s, s[n])
          BY <2>2, <4>3
        <5>2. \A i, j \in 1..Len(s) : s[i] = s[j] => i = j
          BY <4>2
        <5> HIDE DEF s
        <5>3. /\ h \in Seq(Operations) /\ Len(h) = Len(s) - 1
              /\ \A i \in 1..Len(h) :
                    /\ h[i] # s[n] /\ \E j \in 1..Len(s) : h[i] = s[j]
                    /\ \A j \in 1..Len(h) : h[i] = h[j] => i = j
              /\ \A j \in 1..Len(s) : j # n => \E i \in 1..Len(h) : h[i] = s[j]
          <6> DEFINE t == Recalled(s, s[n])
          <6>1. /\ t \in Seq(Operations) /\ Len(t) = Len(s) - 1
                /\ \A i \in 1..Len(t) :
                      /\ t[i] # s[n] /\ \E j \in 1..Len(s) : t[i] = s[j]
                      /\ \A j \in 1..Len(t) : t[i] = t[j] => i = j
                /\ \A j \in 1..Len(s) : j # n => \E i \in 1..Len(t) : t[i] = s[j]
            BY <5>1, <5>2, RecalledResult
          <6> HIDE DEF t
          <6>2. h = t
            BY <5>1 DEF t
          <6>3. QED
            BY <6>1, <6>2
        <5>4. QED
          BY <5>3 DEF s
      <4>5. Len(h) <= HistoryLimit
        BY <1>0, <1>1, <4>4 DEF Listed
      <4>6. QED
        BY <4>1, <4>4, <4>5
    <3>2. CASE ~ op.recorded
      <4>1. h = k.history
        BY <3>2
      <4>2. QED
        BY <1>1, <2>1, <2>2, <3>2, <4>1 DEF Listed
    <3>3. QED
      BY <3>1, <3>2
  <2> HIDE DEF new, op, h, p
  <2>6. /\ g \in Coordinators /\ Indexed(g) /\ g.next = k.next /\ g.history = h
        /\ DOMAIN g.operations = DOMAIN k.operations
        /\ \A q \in DOMAIN k.operations :
              g.operations[q] = IF q = p THEN new ELSE k.operations[q]
    <3> HIDE DEF g
    <3>1. g = [next |-> k.next, operations |-> [k.operations EXCEPT ![p] = new],
               byRequest |-> k.byRequest, history |-> h]
      BY DEF g
    <3>2. new.request = k.operations[p].request
      BY <2>1, <2>3 DEF op
    <3>3. QED
      BY <1>1, <2>1, <2>3, <2>5, <3>1, <3>2, UpdateResult
  <2> HIDE DEF g
  <2>7. Listed(g)
    <3>1. \A i \in 1..Len(h) : h[i] \in DOMAIN k.operations /\ k.operations[h[i]].recorded /\ h[i] # p
      <4>1. \A j \in 1..Len(k.history) :
               k.history[j] \in DOMAIN k.operations /\ k.operations[k.history[j]].recorded
        BY <1>1 DEF Listed
      <4>2. QED
        BY <2>5, <4>1
    <3>2. ASSUME NEW q \in DOMAIN k.operations, k.operations[q].recorded, q # p
          PROVE  \E i \in 1..Len(h) : h[i] = q
      <4>1. PICK j \in 1..Len(k.history) : k.history[j] = q
        BY <1>1, <3>2 DEF Listed
      <4>2. QED
        BY <2>5, <3>2, <4>1
    <3>3. QED
      BY <2>3, <2>5, <2>6, <3>1, <3>2 DEF Listed
  <2>8. Settled(new)
    BY <2>2, <2>3 DEF Settled, Sane, Retirement
  <2>9. Coherent(g)
    BY <1>1, <2>6, <2>7, <2>8 DEF Coherent
  <2>10. op.completed \in BOOLEAN /\ k.next \in Nat
    BY <1>0, <2>2 DEF Retirement
  <2> HIDE DEF e, o, reg
  <2>11. \A q \in DOMAIN k.operations :
            /\ g.operations[q].completed = k.operations[q].completed
            /\ g.operations[q].expire = k.operations[q].expire
            /\ g.operations[q].claimed = k.operations[q].claimed
            /\ g.operations[q].request = k.operations[q].request
            /\ g.operations[q].count =
                  IF q = p THEN k.operations[q].count + 1 ELSE k.operations[q].count
    BY <2>1, <2>3, <2>6 DEF op
  <2>12. k.next <= g.next /\ g.operations[p].request = r /\ g.operations[p].completed = op.completed
    BY <2>1, <2>3, <2>6, <2>10
  <2>13. QED
    BY <2>1, <2>4, <2>6, <2>9, <2>10, <2>11, <2>12 DEF e, o, reg, op
<1>3. CASE r \notin DOMAIN k.byRequest
  <2> DEFINE p == k.next + 1
             new == [completed |-> FALSE, expire |-> FALSE, recorded |-> FALSE,
                     claimed |-> FALSE, count |-> 1, request |-> r]
             ops == With(k.operations, p, new)
             b == IF r = 0 THEN k.byRequest ELSE With(k.byRequest, r, p)
             g == [next |-> p, operations |-> ops, byRequest |-> b, history |-> k.history]
  <2>1. /\ k.next \in Nat /\ k.history \in Seq(Operations) /\ k.operations \in Tables(Operations, Retirement)
        /\ k.byRequest \in Tables(Requests, Operations)
    BY <1>1 DEF Coordinators
  <2>2. o = p /\ reg.completed = FALSE /\ e = g
    <3>1. ASSUME NEW x, x = [k EXCEPT !.next = p, !.operations = With(@, p, new),
                                      !.byRequest = IF r = 0 THEN @ ELSE With(@, r, p)]
          PROVE  x = g
      BY <1>1, <3>1 DEF Coordinators
    <3>2. /\ reg.id = p /\ reg.completed = FALSE
          /\ reg.c = [k EXCEPT !.next = p, !.operations = With(@, p, new),
                               !.byRequest = IF r = 0 THEN @ ELSE With(@, r, p)]
      BY <1>3 DEF Register
    <3>3. QED
      BY <3>1, <3>2
  <2>3. p \in Operations /\ p \notin DOMAIN k.operations /\ p \in 0..MaxOperations
    <3>1. p \in Operations
      BY <2>2
    <3>2. \A q \in DOMAIN k.operations : q <= k.next /\ q \in Nat
      BY <1>0, <1>1 DEF Indexed, Operations
    <3>3. QED
      BY <2>1, <3>1, <3>2 DEF Operations
  <2>4. new \in Retirement /\ Settled(new)
    BY DEF Retirement, Settled, Sane
  <2>5. /\ DOMAIN ops = DOMAIN k.operations \cup {p} /\ ops[p] = new
        /\ \A q \in DOMAIN k.operations : ops[q] = k.operations[q]
        /\ ops \in Tables(Operations, Retirement)
    <3> HIDE DEF p, new
    <3>1. /\ DOMAIN ops = DOMAIN k.operations \cup {p} /\ ops[p] = new
          /\ \A q \in DOMAIN k.operations : ops[q] = k.operations[q]
      BY <2>3 DEF With
    <3>2. ops = [x \in DOMAIN ops |-> ops[x]]
      BY DEF With
    <3> HIDE DEF ops
    <3>3. ops \in Tables(Operations, Retirement)
      BY <2>1, <2>3, <2>4, <3>1, <3>2, TableIs
    <3>4. QED
      BY <3>1, <3>3
  <2>6. /\ DOMAIN b = IF r = 0 THEN DOMAIN k.byRequest ELSE DOMAIN k.byRequest \cup {r}
        /\ r # 0 => b[r] = p
        /\ \A q \in DOMAIN k.byRequest : b[q] = k.byRequest[q]
        /\ b \in Tables(Requests, Operations)
    <3> HIDE DEF p
    <3>1. CASE r = 0
      BY <2>1, <3>1
    <3>2. CASE r # 0
      <4>1. /\ DOMAIN b = DOMAIN k.byRequest \cup {r} /\ b[r] = p
            /\ \A q \in DOMAIN k.byRequest : b[q] = k.byRequest[q]
        BY <1>3, <3>2 DEF With
      <4>2. b = [x \in DOMAIN b |-> b[x]]
        BY <3>2 DEF With
      <4> HIDE DEF b
      <4>3. b \in Tables(Requests, Operations)
        BY <2>1, <2>3, <3>2, <4>1, <4>2, TableIs
      <4>4. QED
        BY <3>2, <4>1, <4>3
    <3>3. QED
      BY <3>1, <3>2
  <2>7. new.request = r /\ ~ new.recorded /\ ~ new.completed /\ ~ new.expire /\ new.count = 1
    OBVIOUS
  <2> HIDE DEF new, ops, b
  <2>8. g \in Coordinators
    BY <2>1, <2>3, <2>5, <2>6 DEF Coordinators
  <2>9. g.next = p /\ g.operations = ops /\ g.byRequest = b /\ g.history = k.history
    OBVIOUS
  <2> HIDE DEF g
  <2>10. Indexed(g)
    <3>1. \A q \in DOMAIN ops : q <= p
      <4>1. \A q \in DOMAIN k.operations : q <= k.next /\ q \in Nat
        BY <1>0, <1>1 DEF Indexed, Operations
      <4>2. QED
        BY <2>1, <2>5, <4>1
    <3> HIDE DEF p
    <3>2. \A q \in DOMAIN ops : ops[q].request # 0 =>
             ops[q].request \in DOMAIN b /\ b[ops[q].request] = q
      BY <1>1, <2>5, <2>6, <2>7 DEF Indexed
    <3>3. \A q \in DOMAIN b : b[q] \in DOMAIN ops /\ ops[b[q]].request = q
      BY <1>1, <2>5, <2>6, <2>7 DEF Indexed
    <3>4. QED
      BY <2>9, <3>1, <3>2, <3>3 DEF Indexed
  <2>11. Listed(g)
    BY <1>1, <2>3, <2>5, <2>7, <2>9 DEF Listed
  <2>12. Coherent(g)
    BY <1>1, <2>4, <2>5, <2>8, <2>9, <2>10, <2>11 DEF Coherent
  <2>13. k.next <= g.next
    BY <2>1, <2>9
  <2> HIDE DEF e, o, reg
  <2>14. \A q \in DOMAIN k.operations : g.operations[q] = k.operations[q] /\ q # p
    BY <2>3, <2>5, <2>9
  <2>15. /\ DOMAIN g.operations = DOMAIN k.operations \cup {p} /\ g.operations[p].request = r
         /\ g.operations[p].completed = FALSE /\ g.operations[p].count = 1 /\ ~ g.operations[p].expire
    BY <2>5, <2>7, <2>9 DEF new
  <2> HIDE DEF p
  <2>16. QED
    BY <2>2, <2>3, <2>12, <2>13, <2>14, <2>15 DEF e, o, reg, p
<1>4. QED
  BY <1>2, <1>3

-----------------------------------------------------------------------------
(* The pages. *)

\* Coordinator e is k some calls later: operations keep their requests and stay
\* complete, and those that begin have a new number.
Later(e, k) ==
    /\ k.next <= e.next
    /\ \A o \in DOMAIN k.operations \cap DOMAIN e.operations :
          /\ e.operations[o].request = k.operations[o].request
          /\ k.operations[o].completed => e.operations[o].completed
    /\ \A o \in DOMAIN e.operations \ DOMAIN k.operations : ~ (o <= k.next)

\* Operations have numbers from 1.
LEMMA NumbersAre ==
    ASSUME NEW k \in Coordinators
    PROVE  k.next \in Nat /\ \A o \in DOMAIN k.operations : o \in Operations /\ o \in Nat /\ o # 0
<1>1. k.next \in 0..MaxOperations /\ DOMAIN k.operations \subseteq Operations
  BY CoordinatorIs
<1>2. QED
  BY <1>1 DEF Operations

\* The fields of a page.
LEMMA PageIs ==
    ASSUME NEW pg \in Pages
    PROVE  /\ pg.open \in BOOLEAN /\ pg.busy \in BOOLEAN /\ pg.reconcile \in BOOLEAN
           /\ pg.pending \in {0} \cup Operations /\ pg.queued \in {0} \cup Requests
           /\ pg.stack \in Seq(Frames) /\ Len(pg.stack) \in Nat
           /\ \A i \in 1..Len(pg.stack) :
                 /\ pg.stack[i] \in Frames /\ pg.stack[i].op \in Operations
                 /\ pg.stack[i].request \in {0} \cup Requests
<1>1. /\ pg.open \in BOOLEAN /\ pg.busy \in BOOLEAN /\ pg.reconcile \in BOOLEAN
      /\ pg.pending \in {0} \cup Operations /\ pg.queued \in {0} \cup Requests
      /\ pg.stack \in Seq(Frames)
  BY DEF Pages
<1>2. Len(pg.stack) \in Nat /\ \A i \in 1..Len(pg.stack) : pg.stack[i] \in Frames
  BY <1>1, LenProperties, ElementOfSeq
<1>3. \A f \in Frames : f.op \in Operations /\ f.request \in {0} \cup Requests
  BY DEF Frames
<1>4. QED
  BY <1>1, <1>2, <1>3

\* A page fits a later coordinator that keeps what the page relies on.
LEMMA FitsKept ==
    ASSUME NEW k, k \in Coordinators, NEW e, e \in Coordinators, Later(e, k),
           NEW pg, Fits(pg, k),
           \A o \in DOMAIN k.operations :
              pg.pending = o \/ (Uses(pg, o) /\ k.operations[o].request # 0) =>
                 o \in DOMAIN e.operations
    PROVE  Fits(pg, e) /\ Begun(pg, e) = Begun(pg, k)
<1>1. pg \in Pages /\ Shaped(pg) /\ Backed(pg, k)
  BY DEF Fits
<1>2. k.next \in Nat /\ e.next \in Nat /\ k.next <= e.next
  BY NumbersAre DEF Later
<1>3. \A i \in 1..Len(pg.stack) : pg.stack[i].op \in Nat
  BY <1>1, PageIs DEF Operations
<1>4. pg.pending # 0 =>
        /\ pg.pending \in DOMAIN e.operations
        /\ e.operations[pg.pending].request = k.operations[pg.pending].request
  BY <1>1 DEF Backed, Later
<1>5. ASSUME NEW i \in 1..Len(pg.stack)
      PROVE  /\ pg.stack[i].op <= e.next
             /\ pg.stack[i].request # 0 => pg.stack[i].op \in DOMAIN e.operations
             /\ pg.stack[i].op \in DOMAIN e.operations =>
                   /\ e.operations[pg.stack[i].op].completed
                   /\ e.operations[pg.stack[i].op].request = pg.stack[i].request
  <2> DEFINE f == pg.stack[i]
  <2>1. /\ f.op <= k.next /\ (f.request # 0 => f.op \in DOMAIN k.operations)
        /\ f.op \in DOMAIN k.operations =>
              k.operations[f.op].completed /\ k.operations[f.op].request = f.request
    BY <1>1 DEF Backed
  <2>2. Uses(pg, f.op)
    BY DEF Uses
  <2>3. f.op \in Nat
    BY <1>3
  <2> HIDE DEF f
  <2>4. f.op <= e.next
    BY <1>2, <2>1, <2>3
  <2>5. f.request # 0 => f.op \in DOMAIN e.operations
    BY <2>1, <2>2
  <2>6. f.op \in DOMAIN e.operations => f.op \in DOMAIN k.operations
    BY <2>1 DEF Later
  <2>7. QED
    BY <2>1, <2>4, <2>5, <2>6 DEF Later, f
<1>6. Backed(pg, e)
  BY <1>4, <1>5 DEF Backed
<1>7. Begun(pg, e) = Begun(pg, k)
  BY <1>4 DEF Begun
<1>8. QED
  BY <1>1, <1>6, <1>7 DEF Fits

\* A step of page w, which becomes pg, with the call that takes k to e.  Nobody
\* else loses an operation, and the call counts what the page begins and ends.
LEMMA StepJoined ==
    ASSUME NEW k, NEW P, Joined(k, P), NEW w \in Windows, NEW e, Coherent(e), Later(e, k),
           NEW pg, Fits(pg, e),
           \A o \in DOMAIN k.operations \ DOMAIN e.operations :
              \A v \in Windows \ {w} : ~ Uses(P[v], o),
           \A o \in DOMAIN k.operations \cap DOMAIN e.operations :
              e.operations[o].count = IF Uses(pg, o) /\ ~ Uses(P[w], o)
                                      THEN k.operations[o].count + 1
                                      ELSE IF Uses(P[w], o) /\ ~ Uses(pg, o)
                                      THEN k.operations[o].count - 1
                                      ELSE k.operations[o].count,
           \A o \in DOMAIN k.operations \cap DOMAIN e.operations :
              k.operations[o].request = 0 /\ Uses(pg, o) => Uses(P[w], o),
           \A o \in DOMAIN e.operations \ DOMAIN k.operations :
              e.operations[o].count = 1 /\ Uses(pg, o)
    PROVE  /\ Joined(e, [P EXCEPT ![w] = pg])
           /\ \A v \in Windows \ {w} : Begun(P[v], e) = Begun(P[v], k)
<1> DEFINE Q == [P EXCEPT ![w] = pg]
<1>1. /\ Coherent(k) /\ k \in Coordinators /\ e \in Coordinators /\ pg \in Pages
      /\ P \in [Windows -> Pages] /\ (\A v \in Windows : Fits(P[v], k)) /\ Counts(k, P)
  BY DEF Joined, Coherent, Fits
<1>2. Q \in [Windows -> Pages] /\ Q[w] = pg /\ \A v \in Windows \ {w} : Q[v] = P[v]
  BY <1>1
<1> HIDE DEF Q
<1>3. ASSUME NEW v \in Windows \ {w}
      PROVE  Fits(P[v], e) /\ Begun(P[v], e) = Begun(P[v], k)
  <2>1. ASSUME NEW o \in DOMAIN k.operations,
               P[v].pending = o \/ (Uses(P[v], o) /\ k.operations[o].request # 0)
        PROVE  o \in DOMAIN e.operations
    BY <2>1 DEF Uses
  <2>2. Fits(P[v], k)
    BY <1>1
  <2>3. QED
    BY <1>1, <2>1, <2>2, FitsKept
<1>4. \A v \in Windows : Fits(Q[v], e)
  BY <1>2, <1>3
<1>5. ASSUME NEW o \in DOMAIN e.operations
      PROVE  /\ e.operations[o].count = Cardinality(UsersIn(Q, o))
             /\ e.operations[o].request = 0 => \A u, v \in UsersIn(Q, o) : u = v
  <2>1. /\ IsFiniteSet(UsersIn(P, o)) /\ IsFiniteSet(UsersIn(Q, o))
        /\ \A v \in Windows : v \in UsersIn(P, o) <=> Uses(P[v], o)
        /\ \A v \in Windows : v \in UsersIn(Q, o) <=> Uses(Q[v], o)
        /\ UsersIn(P, o) \subseteq Windows /\ UsersIn(Q, o) \subseteq Windows
    <3>1. UsersIn(P, o) \subseteq Windows /\ UsersIn(Q, o) \subseteq Windows
      BY DEF UsersIn
    <3>2. QED
      BY <3>1, FS_Subset DEF BarrierAssumption, UsersIn
  <2>2. CASE o \in DOMAIN k.operations
    <3>1. /\ k.operations[o].count = Cardinality(UsersIn(P, o))
          /\ k.operations[o].request = 0 => \A u, v \in UsersIn(P, o) : u = v
          /\ e.operations[o].request = k.operations[o].request
      BY <1>1, <2>2 DEF Counts, Later
    <3>2. Cardinality(UsersIn(P, o)) \in Nat
      BY <2>1, FS_CardinalityType
    <3>3. CASE Uses(pg, o) /\ ~ Uses(P[w], o)
      <4>1. UsersIn(Q, o) = UsersIn(P, o) \cup {w} /\ w \notin UsersIn(P, o)
        BY <1>2, <2>1, <3>3
      <4>2. Cardinality(UsersIn(Q, o)) = Cardinality(UsersIn(P, o)) + 1
        BY <2>1, <4>1, FS_AddElement
      <4>3. e.operations[o].request # 0
        BY <2>2, <3>1, <3>3
      <4>4. QED
        BY <2>2, <3>1, <3>3, <4>2, <4>3
    <3>4. CASE Uses(P[w], o) /\ ~ Uses(pg, o)
      <4>1. UsersIn(Q, o) = UsersIn(P, o) \ {w} /\ w \in UsersIn(P, o)
        BY <1>2, <2>1, <3>4
      <4>2. Cardinality(UsersIn(Q, o)) = Cardinality(UsersIn(P, o)) - 1
        BY <2>1, <4>1, FS_RemoveElement
      <4>3. QED
        BY <2>2, <3>1, <3>4, <4>1, <4>2
    <3>5. CASE Uses(P[w], o) <=> Uses(pg, o)
      <4>1. UsersIn(Q, o) = UsersIn(P, o)
        BY <1>2, <2>1, <3>5
      <4>2. QED
        BY <2>2, <3>1, <3>5, <4>1
    <3>6. QED
      BY <3>3, <3>4, <3>5
  <2>3. CASE o \notin DOMAIN k.operations
    <3>1. e.operations[o].count = 1 /\ Uses(pg, o)
      BY <2>3
    <3>2. ~ (o <= k.next) /\ o # 0
      BY <1>1, <2>3, NumbersAre DEF Later
    <3>3. ASSUME NEW v \in Windows \ {w} PROVE ~ Uses(P[v], o)
      BY <1>1, <2>3, <3>2 DEF Fits, Backed, Uses
    <3>4. UsersIn(Q, o) = {w}
      BY <1>2, <2>1, <3>1, <3>3
    <3>5. QED
      BY <3>1, <3>4, FS_Singleton
  <2>4. QED
    BY <2>2, <2>3
<1>6. Counts(e, Q)
  BY <1>5 DEF Counts
<1>7. QED
  BY <1>2, <1>3, <1>4, <1>6 DEF Joined, Q

\* A page that has nothing left to do but to release begins the continuation f
\* of an operation that is complete.
LEMMA PushResult ==
    ASSUME NEW k, k \in Coordinators, NEW pg, Fits(pg, k), pg.busy, pg.pending = 0,
           \A i \in 1..Len(pg.stack) : pg.stack[i].phase = "release",
           NEW f \in Frames, f.phase = "claim" => f.request # 0,
           f.op \in DOMAIN k.operations, k.operations[f.op].completed, f.op <= k.next,
           k.operations[f.op].request = f.request, ~ Uses(pg, f.op)
    PROVE  LET q == Push(pg, f)
           IN  /\ Fits(q, k) /\ q.queued = pg.queued /\ q.open = pg.open
               /\ Begun(q, k) = Begun(pg, k) \cup {f.request}
               /\ \A o \in Operations : Uses(q, o) <=> Uses(pg, o) \/ o = f.op
<1> DEFINE s == pg.stack
           t == <<f>> \o s
           q == [pg EXCEPT !.stack = t]
<1>1. pg \in Pages /\ Shaped(pg) /\ Backed(pg, k)
  BY DEF Fits
<1>2. /\ s \in Seq(Frames) /\ Len(s) \in Nat /\ \A i \in 1..Len(s) : s[i].op \in Operations
      /\ pg.queued \in {0} \cup Requests
  BY <1>1, PageIs
<1>3. /\ t \in Seq(Frames) /\ Len(t) = Len(s) + 1 /\ t[1] = f
      /\ \A i \in 1..Len(s) : t[i + 1] = s[i]
  <2> HIDE DEF s
  <2>1. /\ <<f>> \in Seq(Frames) /\ Len(<<f>>) = 1 /\ <<f>>[1] = f
    OBVIOUS
  <2>2. t \in Seq(Frames) /\ Len(t) = 1 + Len(s)
    BY <1>2, <2>1, ConcatProperties
  <2>3. \A i \in 1..Len(t) : t[i] = IF i <= 1 THEN <<f>>[i] ELSE s[i - 1]
    BY <1>2, <2>1, ConcatProperties
  <2> HIDE DEF t
  <2>4. QED
    BY <1>2, <2>1, <2>2, <2>3
<1>4. \A i \in 1..Len(t) : (t[i] = f /\ i = 1) \/ (i - 1 \in 1..Len(s) /\ t[i] = s[i - 1] /\ i # 1)
  <2> HIDE DEF t, s
  <2>1. ASSUME NEW i \in 1..Len(t), i # 1
        PROVE  i - 1 \in 1..Len(s) /\ t[i] = s[i - 1]
    <3>1. i - 1 \in 1..Len(s) /\ (i - 1) + 1 = i
      BY <1>2, <1>3, <2>1
    <3>2. QED
      BY <1>3, <3>1
  <2>2. QED
    BY <1>3, <2>1
<1>5. /\ q \in Pages /\ q.stack = t /\ q.pending = 0 /\ q.busy /\ q.queued = pg.queued
      /\ q.open = pg.open
  BY <1>1, <1>3 DEF Pages
<1>6. \A i \in 1..Len(s) : s[i].op # f.op /\ s[i].phase = "release"
  BY DEF Uses
<1>7. /\ \A i \in 1..Len(s) : s[i].op # 0 /\ \A j \in 1..Len(s) : s[i].op = s[j].op => i = j
      /\ \A i \in 1..Len(s) :
            /\ s[i].op <= k.next /\ (s[i].request # 0 => s[i].op \in DOMAIN k.operations)
            /\ s[i].op \in DOMAIN k.operations =>
                  k.operations[s[i].op].completed /\ k.operations[s[i].op].request = s[i].request
  BY <1>1 DEF Shaped, Backed
<1>8. f.op \in Operations /\ f.op # 0
  BY DEF Frames, Operations
<1> HIDE DEF q, t, s
<1>11. /\ \A i \in 1..Len(t) : t[i] = f \/ \E j \in 1..Len(s) : t[i] = s[j]
       /\ \A j \in 1..Len(s) : \E i \in 1..Len(t) : t[i] = s[j]
       /\ \E i \in 1..Len(t) : t[i] = f
  <2>1. 1 \in 1..Len(t) /\ \A i \in 1..Len(s) : i + 1 \in 1..Len(t)
    BY <1>2, <1>3
  <2>2. QED
    BY <1>3, <1>4, <2>1
<1>9. Shaped(q)
  <2>1. \A i \in 1..Len(t) :
           /\ t[i].phase # "release" => i = 1
           /\ t[i].phase = "claim" => t[i].request # 0
           /\ t[i].op # 0
    BY <1>4, <1>6, <1>7, <1>8
  <2>2. ASSUME NEW i \in 1..Len(t), NEW j \in 1..Len(t), t[i].op = t[j].op
        PROVE  i = j
    <3>1. CASE i = 1
      BY <1>4, <1>6, <2>2, <3>1
    <3>2. CASE i # 1
      <4>1. i - 1 \in 1..Len(s) /\ t[i] = s[i - 1] /\ j # 1
        BY <1>3, <1>4, <1>6, <2>2, <3>2
      <4>2. j - 1 \in 1..Len(s) /\ t[j] = s[j - 1]
        BY <1>4, <4>1
      <4>3. i - 1 = j - 1
        BY <1>7, <2>2, <4>1, <4>2
      <4>4. QED
        BY <4>3
    <3>3. QED
      BY <3>1, <3>2
  <2>3. QED
    BY <1>5, <2>1, <2>2 DEF Shaped
<1>10. Backed(q, k)
  <2>1. ASSUME NEW i \in 1..Len(t)
        PROVE  /\ t[i].op <= k.next /\ (t[i].request # 0 => t[i].op \in DOMAIN k.operations)
               /\ t[i].op \in DOMAIN k.operations =>
                     k.operations[t[i].op].completed /\ k.operations[t[i].op].request = t[i].request
    BY <1>7, <1>11
  <2>2. QED
    BY <1>5, <2>1 DEF Backed
<1>12. Begun(q, k) = Begun(pg, k) \cup {f.request}
  <2>1. {t[i].request : i \in 1..Len(t)} = {s[i].request : i \in 1..Len(s)} \cup {f.request}
    BY <1>11
  <2>2. Begun(q, k) = {t[i].request : i \in 1..Len(t)}
    BY <1>5 DEF Begun
  <2>3. Begun(pg, k) = {s[i].request : i \in 1..Len(s)}
    BY DEF Begun, s
  <2>4. QED
    BY ONLY <2>1, <2>2, <2>3
<1>13. \A o \in Operations : Uses(q, o) <=> Uses(pg, o) \/ o = f.op
  <2>1. \A o : (\E i \in 1..Len(t) : t[i].op = o) <=> o = f.op \/ (\E i \in 1..Len(s) : s[i].op = o)
    BY <1>11
  <2>2. QED
    BY <1>5, <2>1 DEF Uses, s
<1>14. Push(pg, f) = q
  BY DEF Push, q, t, s
<1>15. QED
  BY <1>5, <1>9, <1>10, <1>12, <1>13, <1>14 DEF Fits

\* A page that has nothing left to do but to release waits for operation o.
LEMMA WaitResult ==
    ASSUME NEW k, k \in Coordinators, NEW pg, Fits(pg, k), pg.busy, pg.pending = 0,
           \A i \in 1..Len(pg.stack) : pg.stack[i].phase = "release",
           NEW o \in DOMAIN k.operations, ~ Uses(pg, o)
    PROVE  LET q == [pg EXCEPT !.pending = o]
           IN  /\ Fits(q, k) /\ q.queued = pg.queued /\ q.open = pg.open
               /\ Begun(q, k) = Begun(pg, k) \cup {k.operations[o].request}
               /\ \A p \in Operations : Uses(q, p) <=> Uses(pg, p) \/ p = o
<1> DEFINE q == [pg EXCEPT !.pending = o]
<1>1. pg \in Pages /\ Shaped(pg) /\ Backed(pg, k)
  BY DEF Fits
<1>2. o \in Operations /\ o # 0
  BY NumbersAre
<1>3. /\ q \in Pages /\ q.stack = pg.stack /\ q.pending = o /\ q.busy /\ q.queued = pg.queued
      /\ q.open = pg.open
  BY <1>1, <1>2 DEF Pages
<1> HIDE DEF q
<1>4. Shaped(q)
  BY <1>1, <1>3 DEF Shaped, Uses
<1>5. Backed(q, k)
  BY <1>1, <1>3 DEF Backed
<1>6. Begun(q, k) = Begun(pg, k) \cup {k.operations[o].request}
  <2> DEFINE s == {pg.stack[i].request : i \in 1..Len(pg.stack)}
  <2>1. Begun(pg, k) = s
    BY DEF Begun
  <2>2. Begun(q, k) = s \cup {k.operations[o].request}
    BY <1>2, <1>3 DEF Begun
  <2> HIDE DEF s
  <2>3. QED
    BY <2>1, <2>2
<1>7. \A p \in Operations : Uses(q, p) <=> Uses(pg, p) \/ p = o
  <2>1. \A p \in Operations : p # 0
    BY DEF Operations
  <2>2. QED
    BY <1>3, <2>1 DEF Uses
<1>8. QED
  BY <1>3, <1>4, <1>5, <1>6, <1>7 DEF Fits, q

\* Coordinator e, beside the lapsed requests L, still tells what k tells of
\* claimed operations, and only an operation of L is to expire anew.
Remembers(e, k, L) ==
    /\ \A o \in DOMAIN e.operations : e.operations[o].expire /\ e.operations[o].request # 0 =>
          \/ e.operations[o].request \in L
          \/ /\ o \in DOMAIN k.operations /\ k.operations[o].expire
             /\ k.operations[o].request = e.operations[o].request
    /\ \A o \in DOMAIN k.operations : k.operations[o].claimed /\ k.operations[o].request # 0 =>
          \/ k.operations[o].request \in L
          \/ /\ o \in DOMAIN e.operations /\ e.operations[o].claimed
             /\ e.operations[o].request = k.operations[o].request

\* _BeginAgentSessionRetirement by page w, whose state pg has nothing left to do
\* but to release, beside coordinator k, for a request it has not begun yet.
LEMMA BeginJoined ==
    ASSUME NEW k, NEW w \in Windows, NEW pg, page \in [Windows -> Pages],
           Joined(k, [page EXCEPT ![w] = pg]), pg.busy, pg.pending = 0,
           \A i \in 1..Len(pg.stack) : pg.stack[i].phase = "release",
           NEW r \in {0} \cup Requests, r # 0 => r \notin Begun(pg, k),
           published \subseteq Operations, BeginRetirement(w, pg, k, r)
    PROVE  /\ Joined(c', page') /\ published' \subseteq Operations
           /\ page'[w].queued = pg.queued /\ Begun(page'[w], c') = Begun(pg, k) \cup {r}
           /\ \A v \in Windows \ {w} :
                 page'[v] = page[v] /\ Begun(page'[v], c') = Begun(page[v], k)
           /\ \A L : Remembers(c', k, L)
<1> DEFINE P == [page EXCEPT ![w] = pg]
           reg == Register(k, r)
           o == reg.id
           q == IF reg.completed THEN Push(pg, Frame(o, r)) ELSE [pg EXCEPT !.pending = o]
<1>1. /\ Coherent(k) /\ k \in Coordinators /\ Fits(pg, k) /\ P[w] = pg
      /\ \A v \in Windows \ {w} : P[v] = page[v]
      /\ Counts(k, P) /\ pg \in Pages /\ Indexed(k)
  <2>1. P[w] = pg /\ \A v \in Windows \ {w} : P[v] = page[v]
    OBVIOUS
  <2>2. Coherent(k) /\ Fits(P[w], k) /\ Counts(k, P)
    BY DEF Joined
  <2>3. QED
    BY <2>1, <2>2 DEF Coherent, Fits
<1>2. /\ o \in Operations /\ c' = reg.c /\ page' = [page EXCEPT ![w] = q]
      /\ published' \subseteq Operations
  BY DEF BeginRetirement
<1> HIDE DEF reg, o, P
<1>3. /\ Coherent(c') /\ k.next <= c'.next /\ o \in DOMAIN c'.operations
      /\ DOMAIN c'.operations = DOMAIN k.operations \cup {o}
      /\ c'.operations[o].request = r
      /\ reg.completed \in BOOLEAN /\ c'.operations[o].completed = reg.completed
      /\ \A p \in DOMAIN k.operations :
            /\ c'.operations[p].completed = k.operations[p].completed
            /\ c'.operations[p].expire = k.operations[p].expire
            /\ c'.operations[p].claimed = k.operations[p].claimed
            /\ c'.operations[p].request = k.operations[p].request
            /\ c'.operations[p].count =
                  IF p = o THEN k.operations[p].count + 1 ELSE k.operations[p].count
      /\ o \in DOMAIN k.operations => r # 0 /\ k.operations[o].request = r
      /\ o \notin DOMAIN k.operations =>
            o = k.next + 1 /\ c'.operations[o].count = 1 /\ ~ c'.operations[o].expire
  <2>1. Register(k, r).id \in Operations
    BY <1>2 DEF o, reg
  <2>2. c' = Register(k, r).c /\ o = Register(k, r).id /\ reg = Register(k, r)
    BY <1>2 DEF o, reg
  <2>3. QED
    BY <1>1, <2>1, <2>2, RegisterResult
<1>4. c' \in Coordinators /\ Later(c', k)
  <2>1. c' \in Coordinators
    BY <1>3 DEF Coherent
  <2>2. k.next \in Nat
    BY <1>1, NumbersAre
  <2>3. \A p \in DOMAIN c'.operations \ DOMAIN k.operations : ~ (p <= k.next)
    BY <1>3, <2>2
  <2>4. QED
    BY <1>3, <2>1, <2>3 DEF Later
<1>5. ~ Uses(pg, o)
  <2>1. o # 0
    BY <1>2 DEF Operations
  <2>2. ASSUME NEW i \in 1..Len(pg.stack), pg.stack[i].op = o
        PROVE  FALSE
    <3>1. CASE o \in DOMAIN k.operations
      <4>1. pg.stack[i].request = r /\ r # 0
        BY <1>1, <1>3, <2>2, <3>1 DEF Fits, Backed
      <4>2. r \in Begun(pg, k)
        BY <4>1 DEF Begun
      <4>3. QED
        BY <4>1, <4>2
    <3>2. CASE o \notin DOMAIN k.operations
      <4>1. o <= k.next /\ o = k.next + 1 /\ k.next \in Nat
        BY <1>1, <1>3, <2>2, <3>2, NumbersAre DEF Fits, Backed
      <4>2. QED
        BY <4>1
    <3>3. QED
      BY <3>1, <3>2
  <2>3. QED
    BY <2>1, <2>2 DEF Uses
<1>6. Fits(pg, c') /\ Begun(pg, c') = Begun(pg, k)
  <2>1. \A p \in DOMAIN k.operations : p \in DOMAIN c'.operations
    BY <1>3
  <2>2. QED
    BY <1>1, <1>4, <2>1, FitsKept
<1>7. /\ Fits(q, c') /\ q.queued = pg.queued /\ Begun(q, c') = Begun(pg, k) \cup {r}
      /\ \A p \in Operations : Uses(q, p) <=> Uses(pg, p) \/ p = o
  <2>1. CASE reg.completed
    <3> DEFINE f == Frame(o, r)
    <3>1. f \in Frames /\ f.op = o /\ f.request = r /\ (f.phase = "claim" => r # 0)
      BY <1>2 DEF Frame, Frames
    <3>2. q = Push(pg, f)
      BY <2>1
    <3>3. c'.operations[o].completed /\ o <= c'.next
      BY <1>3, <2>1 DEF Coherent, Indexed
    <3> HIDE DEF f, q
    <3>4. /\ Fits(Push(pg, f), c') /\ Push(pg, f).queued = pg.queued
          /\ Begun(Push(pg, f), c') = Begun(pg, c') \cup {f.request}
          /\ \A p \in Operations : Uses(Push(pg, f), p) <=> Uses(pg, p) \/ p = f.op
      BY <1>3, <1>4, <1>5, <1>6, <3>1, <3>3, PushResult
    <3>5. QED
      BY <1>6, <3>1, <3>2, <3>4
  <2>2. CASE ~ reg.completed
    <3>1. q = [pg EXCEPT !.pending = o]
      BY <2>2
    <3> DEFINE x == [pg EXCEPT !.pending = o]
    <3>2. /\ Fits(x, c') /\ x.queued = pg.queued
          /\ Begun(x, c') = Begun(pg, c') \cup {c'.operations[o].request}
          /\ \A p \in Operations : Uses(x, p) <=> Uses(pg, p) \/ p = o
      BY <1>3, <1>4, <1>5, <1>6, WaitResult
    <3> HIDE DEF x, q
    <3>3. q = x
      BY <3>1 DEF x
    <3>4. QED
      BY <1>3, <1>6, <3>2, <3>3
  <2>3. QED
    BY <1>3, <2>1, <2>2
<1> HIDE DEF q
<1>8. page' = [P EXCEPT ![w] = q]
  BY <1>2 DEF P
<1>9. \A p \in DOMAIN c'.operations : p \in Operations
  BY <1>4, NumbersAre
<1>10. /\ Joined(c', page')
       /\ \A v \in Windows \ {w} : Begun(P[v], c') = Begun(P[v], k)
  <2>1. \A p \in DOMAIN k.operations \cap DOMAIN c'.operations :
           c'.operations[p].count = IF Uses(q, p) /\ ~ Uses(P[w], p)
                                    THEN k.operations[p].count + 1
                                    ELSE IF Uses(P[w], p) /\ ~ Uses(q, p)
                                    THEN k.operations[p].count - 1
                                    ELSE k.operations[p].count
    BY <1>1, <1>3, <1>5, <1>7, <1>9
  <2>2. \A p \in DOMAIN k.operations \cap DOMAIN c'.operations :
           k.operations[p].request = 0 /\ Uses(q, p) => Uses(P[w], p)
    BY <1>1, <1>3, <1>5, <1>7, <1>9
  <2>3. \A p \in DOMAIN c'.operations \ DOMAIN k.operations :
           c'.operations[p].count = 1 /\ Uses(q, p)
    BY <1>3, <1>7, <1>9
  <2>4. \A p \in DOMAIN k.operations \ DOMAIN c'.operations :
           \A v \in Windows \ {w} : ~ Uses(P[v], p)
    BY <1>3
  <2>5. Joined(k, P)
    BY DEF P
  <2>6. Coherent(c') /\ Later(c', k) /\ Fits(q, c')
    BY <1>3, <1>4, <1>7
  <2>7. /\ Joined(c', [P EXCEPT ![w] = q])
        /\ \A v \in Windows \ {w} : Begun(P[v], c') = Begun(P[v], k)
    BY <2>1, <2>2, <2>3, <2>4, <2>5, <2>6, StepJoined
  <2>8. QED
    BY <1>8, <2>7
<1>11. \A L : Remembers(c', k, L)
  BY <1>3 DEF Remembers
<1>12. page'[w] = q /\ \A v \in Windows \ {w} : page'[v] = page[v] /\ P[v] = page[v]
  BY <1>1, <1>2
<1>13. QED
  BY <1>2, <1>7, <1>10, <1>11, <1>12

-----------------------------------------------------------------------------
(* The steps of a page. *)

\* An operation that a page uses is counted; with a count of one nobody else
\* uses it.
LEMMA UsedIsCounted ==
    ASSUME NEW k, NEW P, Joined(k, P), NEW w \in Windows, NEW o \in DOMAIN k.operations,
           Uses(P[w], o)
    PROVE  /\ k.operations[o].count # 0
           /\ k.operations[o].count = 1 => \A v \in Windows \ {w} : ~ Uses(P[v], o)
           /\ k.operations[o].request = 0 => \A v \in Windows \ {w} : ~ Uses(P[v], o)
<1>1. /\ UsersIn(P, o) \subseteq Windows /\ w \in UsersIn(P, o)
      /\ \A v \in Windows : v \in UsersIn(P, o) <=> Uses(P[v], o)
  BY DEF UsersIn
<1>2. IsFiniteSet(UsersIn(P, o))
  BY <1>1, FS_Subset DEF BarrierAssumption
<1>3. /\ k.operations[o].count = Cardinality(UsersIn(P, o))
      /\ k.operations[o].request = 0 => \A u, v \in UsersIn(P, o) : u = v
  BY DEF Joined, Counts
<1>4. Cardinality(UsersIn(P, o)) # 0
  BY <1>1, <1>2, FS_EmptySet
<1>5. ASSUME Cardinality(UsersIn(P, o)) = 1, NEW v \in Windows \ {w} PROVE ~ Uses(P[v], o)
  <2>1. PICK x : UsersIn(P, o) = {x}
    BY <1>2, <1>5, FS_Singleton
  <2>2. QED
    BY <1>1, <2>1
<1>6. QED
  BY <1>1, <1>3, <1>4, <1>5

\* Requests have one operation each.
LEMMA OneOperation ==
    ASSUME NEW k, Indexed(k), NEW o \in DOMAIN k.operations, NEW p \in DOMAIN k.operations,
           k.operations[o].request = k.operations[p].request, k.operations[o].request # 0
    PROVE  o = p
  BY DEF Indexed

\* Page w, which becomes pg, leaves operation o: ReleaseContinuation.  What the
\* coordinator forgets with it is not claimed, or lapsed.
LEMMA LeaveJoined ==
    ASSUME NEW k, NEW P, Joined(k, P), NEW w \in Windows, NEW pg, Fits(pg, k),
           NEW o \in {0} \cup Operations, o \in DOMAIN k.operations => Uses(P[w], o),
           \A p \in Operations : Uses(pg, p) <=> Uses(P[w], p) /\ p # o
    PROVE  LET e == ReleaseContinuation(k, o)
           IN  /\ Joined(e, [P EXCEPT ![w] = pg]) /\ Begun(pg, e) = Begun(pg, k)
               /\ \A v \in Windows \ {w} : Begun(P[v], e) = Begun(P[v], k)
               /\ Evicted(k, e) \subseteq Requests
               /\ \A L : (\A p \in DOMAIN k.operations :
                            k.operations[p].expire /\ k.operations[p].request # 0 =>
                               k.operations[p].request \in L)
                        => Remembers(e, k, L \cup Evicted(k, e))
<1> DEFINE e == ReleaseContinuation(k, o)
<1> HIDE DEF e
<1>1. Coherent(k) /\ k \in Coordinators /\ Indexed(k) /\ P \in [Windows -> Pages]
  BY DEF Joined, Coherent
<1>2. \A p \in DOMAIN k.operations : p \in Operations /\ k.operations[p] \in Retirement
  BY <1>1, NumbersAre, CoordinatorIs
<1>3. Evicted(k, e) \subseteq Requests
  <2>1. DOMAIN k.byRequest \subseteq Requests
    BY <1>1, CoordinatorIs
  <2>2. QED
    BY <2>1 DEF Evicted
<1>4. CASE o \notin DOMAIN k.operations
  <2>1. e = k
    BY <1>4 DEF ReleaseContinuation, e
  <2>2. Later(e, k)
    BY <1>1, <2>1, NumbersAre DEF Later
  <2>3. \A p \in DOMAIN k.operations : Uses(pg, p) <=> Uses(P[w], p)
    BY <1>2, <1>4
  <2>4. /\ \A p \in DOMAIN k.operations \ DOMAIN e.operations :
              \A v \in Windows \ {w} : ~ Uses(P[v], p)
        /\ \A p \in DOMAIN e.operations \ DOMAIN k.operations :
              e.operations[p].count = 1 /\ Uses(pg, p)
    BY <2>1
  <2>5. \A p \in DOMAIN k.operations \cap DOMAIN e.operations :
           e.operations[p].count = IF Uses(pg, p) /\ ~ Uses(P[w], p)
                                   THEN k.operations[p].count + 1
                                   ELSE IF Uses(P[w], p) /\ ~ Uses(pg, p)
                                   THEN k.operations[p].count - 1
                                   ELSE k.operations[p].count
    BY <2>1, <2>3
  <2>6. \A p \in DOMAIN k.operations \cap DOMAIN e.operations :
           k.operations[p].request = 0 /\ Uses(pg, p) => Uses(P[w], p)
    BY <2>3
  <2>7. Coherent(e) /\ Fits(pg, e) /\ Begun(pg, e) = Begun(pg, k)
    BY <1>1, <2>1
  <2>8. /\ Joined(e, [P EXCEPT ![w] = pg])
        /\ \A v \in Windows \ {w} : Begun(P[v], e) = Begun(P[v], k)
    BY <2>2, <2>4, <2>5, <2>6, <2>7, StepJoined
  <2>9. \A M : Remembers(e, k, M)
    BY <2>1 DEF Remembers
  <2>10. QED
    BY <1>3, <2>7, <2>8, <2>9 DEF e
<1>5. CASE o \in DOMAIN k.operations
  <2>1. /\ k.operations[o].count # 0
        /\ k.operations[o].count = 1 => \A v \in Windows \ {w} : ~ Uses(P[v], o)
    BY <1>5, UsedIsCounted
  <2>2. /\ Coherent(e) /\ e.next = k.next
        /\ DOMAIN e.operations \subseteq DOMAIN k.operations
        /\ \A p \in DOMAIN e.operations :
              /\ e.operations[p].completed = k.operations[p].completed
              /\ e.operations[p].expire = k.operations[p].expire
              /\ e.operations[p].claimed = k.operations[p].claimed
              /\ e.operations[p].request = k.operations[p].request
              /\ e.operations[p].count =
                    IF p = o THEN k.operations[p].count - 1 ELSE k.operations[p].count
        /\ \A p \in DOMAIN k.operations \ DOMAIN e.operations :
              IF p = o
              THEN /\ k.operations[p].count = 1
                   /\ k.operations[p].expire \/ ~ k.operations[p].completed
              ELSE k.operations[p].count = 0 /\ Len(k.history) = HistoryLimit
    BY <1>1, <1>5, <2>1, ReleaseResult DEF e
  <2>3. e \in Coordinators /\ Later(e, k)
    BY <1>1, <2>2, NumbersAre DEF Later, Coherent
  <2>4. ASSUME NEW p \in DOMAIN k.operations, NEW v \in Windows, Uses(P[v], p), p # o
        PROVE  p \in DOMAIN e.operations
    <3>1. k.operations[p].count # 0
      BY <2>4, UsedIsCounted
    <3>2. QED
      BY <2>2, <2>4, <3>1
  <2>5. Fits(pg, e) /\ Begun(pg, e) = Begun(pg, k)
    <3>1. ASSUME NEW p \in DOMAIN k.operations, pg.pending = p \/ Uses(pg, p)
          PROVE  p \in DOMAIN e.operations
      <4>1. Uses(P[w], p) /\ p # o
        BY <1>2, <3>1 DEF Uses
      <4>2. QED
        BY <2>4, <4>1
    <3>2. \A p \in DOMAIN k.operations :
             pg.pending = p \/ (Uses(pg, p) /\ k.operations[p].request # 0) => p \in DOMAIN e.operations
      BY <3>1
    <3>3. QED
      BY <1>1, <2>3, <3>2, FitsKept
  <2>6. \A p \in DOMAIN k.operations \ DOMAIN e.operations :
           \A v \in Windows \ {w} : ~ Uses(P[v], p)
    BY <2>1, <2>2, <2>4
  <2>7. \A p \in DOMAIN k.operations \cap DOMAIN e.operations :
           e.operations[p].count = IF Uses(pg, p) /\ ~ Uses(P[w], p)
                                   THEN k.operations[p].count + 1
                                   ELSE IF Uses(P[w], p) /\ ~ Uses(pg, p)
                                   THEN k.operations[p].count - 1
                                   ELSE k.operations[p].count
    BY <1>2, <1>5, <2>2
  <2>8. \A p \in DOMAIN k.operations \cap DOMAIN e.operations :
           k.operations[p].request = 0 /\ Uses(pg, p) => Uses(P[w], p)
    BY <1>2
  <2>9. \A p \in DOMAIN e.operations \ DOMAIN k.operations :
           e.operations[p].count = 1 /\ Uses(pg, p)
    BY <2>2
  <2>10. /\ Joined(e, [P EXCEPT ![w] = pg])
         /\ \A v \in Windows \ {w} : Begun(P[v], e) = Begun(P[v], k)
    BY <2>2, <2>3, <2>5, <2>6, <2>7, <2>8, <2>9, StepJoined
  <2>11. ASSUME NEW p \in DOMAIN k.operations \ DOMAIN e.operations,
                k.operations[p].claimed, k.operations[p].request # 0
         PROVE  k.operations[p].expire \/ k.operations[p].request \in Evicted(k, e)
    <3>1. CASE p = o
      <4>1. k.operations[p].completed
        BY <1>1, <2>11 DEF Coherent, Settled, Sane
      <4>2. QED
        BY <2>2, <2>11, <3>1, <4>1
    <3>2. CASE p # o
      <4> DEFINE r == k.operations[p].request
      <4>1. Len(k.history) = HistoryLimit
        BY <2>2, <3>2
      <4>2. r \in DOMAIN k.byRequest
        BY <1>1, <2>11 DEF Indexed
      <4>3. r \notin DOMAIN e.byRequest
        <5>1. SUFFICES ASSUME r \in DOMAIN e.byRequest PROVE FALSE
          OBVIOUS
        <5>2. PICK q \in DOMAIN e.operations : e.operations[q].request = r
          BY <2>2, <5>1 DEF Coherent, Indexed
        <5>3. q \in DOMAIN k.operations /\ k.operations[q].request = r
          BY <2>2, <5>2
        <5>4. q = p
          BY <1>1, <2>11, <5>3, OneOperation
        <5>5. QED
          BY <2>11, <5>2, <5>4
      <4>4. QED
        BY <4>1, <4>2, <4>3 DEF Evicted
    <3>3. QED
      BY <3>1, <3>2
  <2>12. ASSUME NEW L, \A p \in DOMAIN k.operations :
                   k.operations[p].expire /\ k.operations[p].request # 0 => k.operations[p].request \in L
         PROVE  Remembers(e, k, L \cup Evicted(k, e))
    <3>1. \A p \in DOMAIN e.operations : e.operations[p].expire /\ e.operations[p].request # 0 =>
             p \in DOMAIN k.operations /\ k.operations[p].expire
             /\ k.operations[p].request = e.operations[p].request
      BY <2>2
    <3>2. \A p \in DOMAIN k.operations : k.operations[p].claimed /\ k.operations[p].request # 0 =>
             \/ k.operations[p].request \in L \cup Evicted(k, e)
             \/ /\ p \in DOMAIN e.operations /\ e.operations[p].claimed
                /\ e.operations[p].request = k.operations[p].request
      BY <2>2, <2>11, <2>12
    <3>3. QED
      BY <3>1, <3>2 DEF Remembers
  <2>13. QED
    BY <1>3, <2>5, <2>10, <2>12 DEF e
<1>6. QED
  BY <1>4, <1>5 DEF e

\* A page whose first continuation goes on to phase ph; the rest is the same
\* but for what it has postponed, and for its being busy.
LEMMA AdvanceResult ==
    ASSUME NEW k, NEW pg, Fits(pg, k), pg.stack # <<>>,
           NEW ph \in {"finish", "release"}, pg.stack[1].phase # "release",
           NEW q \in Pages, q.stack = Advance(pg, ph).stack, q.pending = pg.pending,
           ph = "finish" => q.busy
    PROVE  /\ Fits(q, k) /\ Begun(q, k) = Begun(pg, k) /\ pg.pending = 0
           /\ \A o : Uses(q, o) <=> Uses(pg, o)
           /\ ph = "release" => \A i \in 1..Len(q.stack) : q.stack[i].phase = "release"
<1>1. pg \in Pages /\ Shaped(pg) /\ Backed(pg, k)
  BY DEF Fits
<1> DEFINE s == pg.stack
           t == [s EXCEPT ![1].phase = ph]
<1>2. s \in Seq(Frames) /\ Len(s) \in Nat /\ 1 \in 1..Len(s) /\ DOMAIN s = 1..Len(s)
  BY <1>1, PageIs, EmptySeq, LenProperties
<1>3. q.stack = t
  <2>1. Advance(pg, ph).stack = t
    BY <1>1 DEF Advance, Pages
  <2>2. QED
    BY <2>1
<1>4. /\ Len(t) = Len(s)
      /\ \A i \in 1..Len(s) :
            /\ t[i].op = s[i].op /\ t[i].request = s[i].request
            /\ t[i].phase = IF i = 1 THEN ph ELSE s[i].phase
  <2> HIDE DEF s
  <2>1. \A i \in 1..Len(s) : s[i] \in Frames
    BY <1>2, ElementOfSeq
  <2>2. \A i \in 1..Len(s) : t[i] = IF i = 1 THEN [s[1] EXCEPT !.phase = ph] ELSE s[i]
    BY <1>2
  <2>3. s[1] \in Frames
    BY <1>2, <2>1
  <2>4. /\ [s[1] EXCEPT !.phase = ph].op = s[1].op /\ [s[1] EXCEPT !.phase = ph].request = s[1].request
        /\ [s[1] EXCEPT !.phase = ph].phase = ph
    BY <2>3 DEF Frames
  <2>5. Len(t) = Len(s)
    BY <1>2
  <2>6. QED
    BY <2>2, <2>4, <2>5
<1>5. pg.pending = 0 /\ pg.busy /\ \A i \in 1..Len(s) : i # 1 => s[i].phase = "release"
  BY <1>1, <1>2 DEF Shaped
<1>6. /\ \A i \in 1..Len(s) : s[i].op # pg.pending
                              /\ \A j \in 1..Len(s) : s[i].op = s[j].op => i = j
      /\ \A i \in 1..Len(s) :
            /\ s[i].op <= k.next /\ (s[i].request # 0 => s[i].op \in DOMAIN k.operations)
            /\ s[i].op \in DOMAIN k.operations =>
                  k.operations[s[i].op].completed /\ k.operations[s[i].op].request = s[i].request
  BY <1>1 DEF Shaped, Backed
<1> HIDE DEF t, s
<1>7. Shaped(q)
  BY <1>2, <1>3, <1>4, <1>5, <1>6 DEF Shaped
<1>8. Backed(q, k)
  BY <1>3, <1>4, <1>5, <1>6 DEF Backed
<1>9. Begun(q, k) = Begun(pg, k)
  <2>1. {t[i].request : i \in 1..Len(t)} = {s[i].request : i \in 1..Len(s)}
    BY <1>4
  <2>2. Begun(q, k) = {t[i].request : i \in 1..Len(t)}
    BY <1>3, <1>5 DEF Begun
  <2>3. Begun(pg, k) = {s[i].request : i \in 1..Len(s)}
    BY <1>5 DEF Begun, s
  <2>4. QED
    BY ONLY <2>1, <2>2, <2>3
<1>10. \A o : Uses(q, o) <=> Uses(pg, o)
  <2>1. \A o : (\E i \in 1..Len(t) : t[i].op = o) <=> (\E i \in 1..Len(s) : s[i].op = o)
    BY <1>4
  <2>2. QED
    BY <1>3, <2>1 DEF Uses, s
<1>11. ph = "release" => \A i \in 1..Len(q.stack) : q.stack[i].phase = "release"
  BY <1>3, <1>4, <1>5
<1>12. QED
  BY <1>5, <1>7, <1>8, <1>9, <1>10, <1>11 DEF Fits

\* A page whose first continuation has ended.
LEMMA TailResult ==
    ASSUME NEW k, NEW pg, Fits(pg, k), pg.stack # <<>>, pg.stack[1].phase = "release"
    PROVE  LET q == [pg EXCEPT !.stack = Tail(@)]
           IN  /\ Fits(q, k) /\ Begun(q, k) \subseteq Begun(pg, k)
               /\ q.queued = pg.queued /\ q.busy = pg.busy
               /\ \A o : Uses(q, o) <=> Uses(pg, o) /\ o # pg.stack[1].op
<1> DEFINE s == pg.stack
           t == Tail(s)
           q == [pg EXCEPT !.stack = t]
<1>1. pg \in Pages /\ Shaped(pg) /\ Backed(pg, k)
  BY DEF Fits
<1>2. s \in Seq(Frames) /\ Len(s) \in Nat /\ 1 \in 1..Len(s) /\ Len(s) # 0
  BY <1>1, PageIs, EmptySeq, LenProperties
<1>3. /\ t \in Seq(Frames) /\ Len(t) = Len(s) - 1 /\ Len(t) \in Nat
      /\ \A i \in 1..Len(t) : t[i] = s[i + 1] /\ i + 1 \in 1..Len(s) /\ i + 1 # 1
  <2> HIDE DEF s
  <2>1. t \in Seq(Frames) /\ Len(t) = Len(s) - 1 /\ \A i \in 1..Len(t) : t[i] = s[i + 1]
    BY <1>2, HeadTailProperties, EmptySeq
  <2> HIDE DEF t
  <2>2. QED
    BY <1>2, <2>1
<1>4. \A i \in 1..Len(s) : i # 1 => \E j \in 1..Len(t) : t[j] = s[i]
  <2> HIDE DEF s, t
  <2>1. ASSUME NEW i \in 1..Len(s), i # 1 PROVE \E j \in 1..Len(t) : t[j] = s[i]
    <3>1. i - 1 \in 1..Len(t) /\ (i - 1) + 1 = i
      BY <1>2, <1>3, <2>1
    <3>2. QED
      BY <1>3, <3>1
  <2>2. QED
    BY <2>1
<1>5. /\ q \in Pages /\ q.stack = t /\ q.pending = pg.pending /\ q.busy = pg.busy
      /\ q.queued = pg.queued
  BY <1>1, <1>3 DEF Pages
<1>6. /\ \A i \in 1..Len(s) :
            /\ s[i].phase # "release" => i = 1
            /\ s[i].phase = "claim" => s[i].request # 0
            /\ s[i].op # pg.pending
            /\ \A j \in 1..Len(s) : s[i].op = s[j].op => i = j
      /\ \A i \in 1..Len(s) :
            /\ s[i].op <= k.next /\ (s[i].request # 0 => s[i].op \in DOMAIN k.operations)
            /\ s[i].op \in DOMAIN k.operations =>
                  k.operations[s[i].op].completed /\ k.operations[s[i].op].request = s[i].request
      /\ pg.pending # 0 => pg.busy /\ pg.pending \in DOMAIN k.operations
  BY <1>1 DEF Shaped, Backed
<1> HIDE DEF q, t, s
<1>7. Shaped(q)
  <2>1. ASSUME NEW i \in 1..Len(t), NEW j \in 1..Len(t), t[i].op = t[j].op PROVE i = j
    <3>1. i + 1 = j + 1
      BY <1>3, <1>6, <2>1
    <3>2. QED
      BY <3>1
  <2>2. \A i \in 1..Len(t) :
           t[i].phase = "release" /\ t[i].phase # "claim" /\ t[i].op # pg.pending
    BY <1>3, <1>6
  <2>3. QED
    BY <1>5, <1>6, <2>1, <2>2 DEF Shaped
<1>8. Backed(q, k)
  <2>1. \A i \in 1..Len(t) : \E j \in 1..Len(s) : t[i] = s[j]
    BY <1>3
  <2>2. QED
    BY <1>5, <1>6, <2>1 DEF Backed
<1>9. Begun(q, k) \subseteq Begun(pg, k)
  <2>1. \A i \in 1..Len(t) : \E j \in 1..Len(s) : t[i] = s[j]
    BY <1>3
  <2>2. {t[i].request : i \in 1..Len(t)} \subseteq {s[i].request : i \in 1..Len(s)}
    BY <2>1
  <2> DEFINE waits == IF pg.pending = 0 THEN {} ELSE {k.operations[pg.pending].request}
  <2>3. Begun(q, k) = {t[i].request : i \in 1..Len(t)} \cup waits
    BY <1>5 DEF Begun
  <2>4. Begun(pg, k) = {s[i].request : i \in 1..Len(s)} \cup waits
    BY DEF Begun, s
  <2> HIDE DEF waits
  <2>5. QED
    BY ONLY <2>2, <2>3, <2>4
<1>10. \A o : Uses(q, o) <=> Uses(pg, o) /\ o # s[1].op
  <2>1. \A o : (\E i \in 1..Len(t) : t[i].op = o)
               <=> o # s[1].op /\ (\E i \in 1..Len(s) : s[i].op = o)
    <3>1. \A i \in 1..Len(t) : t[i].op # s[1].op /\ \E j \in 1..Len(s) : s[j].op = t[i].op
      BY <1>2, <1>3, <1>6
    <3>2. QED
      BY <1>4, <3>1
  <2>2. pg.pending # s[1].op
    BY <1>2, <1>6
  <2>3. QED
    BY <1>5, <2>1, <2>2 DEF Uses, s
<1>11. QED
  BY <1>5, <1>7, <1>8, <1>9, <1>10 DEF Fits, q, t, s

\* A page without continuations.
LEMMA IdleResult ==
    ASSUME NEW k, NEW pg, Fits(pg, k), pg.stack = <<>>
    PROVE  /\ pg \in Pages /\ \A i \in 1..Len(pg.stack) : pg.stack[i].phase = "release"
           /\ \A o : Uses(pg, o) <=> o = pg.pending
           /\ Begun(pg, k) = IF pg.pending = 0 THEN {} ELSE {k.operations[pg.pending].request}
           /\ pg.pending # 0 => pg.busy /\ pg.pending \in DOMAIN k.operations
           /\ \A q \in Pages : q.stack = <<>> /\ q.pending = 0 =>
                 Fits(q, k) /\ Begun(q, k) = {} /\ \A o \in Operations : ~ Uses(q, o)
<1>1. pg \in Pages /\ Shaped(pg) /\ Backed(pg, k)
  BY DEF Fits
<1>2. Len(pg.stack) = 0 /\ 1..Len(pg.stack) = {}
  OBVIOUS
<1>3. \A o : Uses(pg, o) <=> o = pg.pending
  BY <1>2 DEF Uses
<1>4. {pg.stack[i].request : i \in 1..Len(pg.stack)} = {}
  BY <1>2
<1>5. Begun(pg, k) = IF pg.pending = 0 THEN {} ELSE {k.operations[pg.pending].request}
  BY <1>4 DEF Begun
<1>6. ASSUME NEW q \in Pages, q.stack = <<>>, q.pending = 0
      PROVE  Fits(q, k) /\ Begun(q, k) = {} /\ \A o \in Operations : ~ Uses(q, o)
  <2>1. 1..Len(q.stack) = {}
    BY <1>6
  <2>2. Shaped(q) /\ Backed(q, k)
    BY <1>6, <2>1 DEF Shaped, Backed
  <2>3. {q.stack[i].request : i \in 1..Len(q.stack)} = {}
    BY <2>1
  <2>4. \A o \in Operations : ~ Uses(q, o)
    BY <1>6, <2>1 DEF Uses, Operations
  <2>5. QED
    BY <1>6, <2>2, <2>3, <2>4 DEF Fits, Begun
<1>7. QED
  BY <1>1, <1>2, <1>3, <1>5, <1>6 DEF Shaped, Backed

\* A page changes without beginning or ending anything.
LEMMA StayJoined ==
    ASSUME NEW k, NEW P, Joined(k, P), NEW w \in Windows, NEW pg, Fits(pg, k),
           \A o \in Operations : Uses(pg, o) <=> Uses(P[w], o)
    PROVE  Joined(k, [P EXCEPT ![w] = pg])
<1>1. Coherent(k) /\ k \in Coordinators
  BY DEF Joined, Coherent
<1>2. Later(k, k) /\ \A o \in DOMAIN k.operations : Uses(pg, o) <=> Uses(P[w], o)
  BY <1>1, NumbersAre DEF Later
<1>3. \A o \in DOMAIN k.operations \cap DOMAIN k.operations :
         k.operations[o].count = IF Uses(pg, o) /\ ~ Uses(P[w], o)
                                 THEN k.operations[o].count + 1
                                 ELSE IF Uses(P[w], o) /\ ~ Uses(pg, o)
                                 THEN k.operations[o].count - 1
                                 ELSE k.operations[o].count
  BY <1>2
<1>4. QED
  BY <1>1, <1>2, <1>3, StepJoined

\* The claimed operations stay known.
LEMMA ClaimedKept ==
    ASSUME Claimed, Remembers(c', c, lapsed'), lapsed \subseteq lapsed', lapsed' \subseteq Requests,
           attempts' = attempts
    PROVE  Claimed'
<1>1. ASSUME NEW o \in DOMAIN c'.operations, c'.operations[o].expire, c'.operations[o].request # 0
      PROVE  c'.operations[o].request \in lapsed'
  BY <1>1 DEF Claimed, Remembers
<1>2. ASSUME NEW r \in Requests \ lapsed', attempts[r] # 0
      PROVE  /\ attempts[r] = 1
             /\ \E o \in DOMAIN c'.operations : c'.operations[o].request = r /\ c'.operations[o].claimed
  <2>1. r \in Requests \ lapsed /\ r # 0
    BY DEF Requests
  <2>2. PICK o \in DOMAIN c.operations : c.operations[o].request = r /\ c.operations[o].claimed
    BY <1>2, <2>1 DEF Claimed
  <2>3. o \in DOMAIN c'.operations /\ c'.operations[o].claimed /\ c'.operations[o].request = r
    BY <1>2, <2>1, <2>2 DEF Remembers
  <2>4. QED
    BY <1>2, <2>1, <2>3 DEF Claimed
<1>3. QED
  BY <1>1, <1>2 DEF Claimed

\* What a step of window w has to keep.
LEMMA WindowStep ==
    ASSUME BarrierInv, NEW w \in Windows, Joined(c', page'), Claimed',
           \A v \in Windows \ {w} :
              /\ page'[v] = page[v] /\ inbox'[v] = inbox[v]
              /\ Begun(page'[v], c') = Begun(page[v], c),
           inbox' \in [Windows -> Seq(Messages)],
           Ordered(page'[w], c', inbox'[w], issued),
           published' \subseteq Operations, calls' \in 0..MaxCalls, issued' = issued
    PROVE  BarrierInv'
<1>1. ASSUME NEW v \in Windows PROVE Ordered(page'[v], c', inbox'[v], issued')
  <2>1. CASE v = w
    BY <2>1
  <2>2. CASE v # w
    <3>1. Ordered(page[v], c, inbox[v], issued)
      BY DEF BarrierInv
    <3>2. page'[v] = page[v] /\ inbox'[v] = inbox[v] /\ Begun(page'[v], c') = Begun(page[v], c)
      BY <2>2
    <3>3. QED
      BY <3>1, <3>2 DEF Ordered
  <2>3. QED
    BY <2>1, <2>2
<1>2. issued' \in 0..MaxRequests
  BY DEF BarrierInv
<1>3. QED
  BY <1>1, <1>2 DEF BarrierInv

\* The facts of the invariant about window w.
LEMMA WindowIs ==
    ASSUME BarrierInv, NEW w \in Windows
    PROVE  /\ Joined(c, page) /\ Coherent(c) /\ c \in Coordinators /\ Indexed(c)
           /\ page \in [Windows -> Pages] /\ Fits(page[w], c) /\ page[w] \in Pages
           /\ inbox \in [Windows -> Seq(Messages)] /\ inbox[w] \in Seq(Messages)
           /\ Ordered(page[w], c, inbox[w], issued) /\ Claimed
           /\ published \subseteq Operations /\ calls \in 0..MaxCalls /\ issued \in 0..MaxRequests
           /\ issued \in Nat /\ lapsed \subseteq Requests
<1>1. Joined(c, page) /\ issued \in 0..MaxRequests
  BY DEF BarrierInv
<1>2. Coherent(c) /\ Fits(page[w], c) /\ page \in [Windows -> Pages]
  BY <1>1 DEF Joined
<1>3. c \in Coordinators /\ Indexed(c)
  BY <1>2 DEF Coherent
<1>4. QED
  BY <1>1, <1>2, <1>3 DEF BarrierInv, Claimed

\* The first message for a page, and those after it.
LEMMA OrderedTail ==
    ASSUME NEW pg, NEW k, NEW in, NEW n, Ordered(pg, k, in, n), in # <<>>
    PROVE  LET h == Head(in)
               t == Tail(in)
           IN  /\ h \in Messages /\ t \in Seq(Messages)
               /\ h.kind = "restart" =>
                     /\ h.id \in Requests /\ h.id <= n /\ pg.queued < h.id
                     /\ \A r \in Begun(pg, k) : r < h.id
               /\ h.kind = "retired" => h.id \in Operations
               /\ \A i \in 1..Len(t) : t[i].kind = "restart" =>
                     /\ t[i].id \in Requests /\ t[i].id <= n /\ pg.queued < t[i].id
                     /\ h.kind = "restart" => h.id < t[i].id
                     /\ \A r \in Begun(pg, k) : r < t[i].id
                     /\ \A j \in 1..Len(t) : t[j].kind = "restart" /\ i < j => t[i].id < t[j].id
<1> DEFINE h == Head(in)
           t == Tail(in)
<1>1. in \in Seq(Messages) /\ Len(in) \in Nat /\ Len(in) # 0
  BY EmptySeq, LenProperties DEF Ordered
<1>2. /\ t \in Seq(Messages) /\ Len(t) = Len(in) - 1 /\ h = in[1] /\ 1 \in 1..Len(in)
      /\ \A i \in 1..Len(t) : t[i] = in[i + 1]
  BY <1>1, HeadTailProperties
<1> HIDE DEF h, t
<1>3. \A i \in 1..Len(t) : i + 1 \in 1..Len(in) /\ 1 < i + 1
  BY <1>1, <1>2
<1>4. \A i \in 1..Len(in) : in[i] \in Messages
  BY <1>1, ElementOfSeq
<1>5. \A m \in Messages : /\ m.kind = "restart" => m.id \in Requests
                          /\ m.kind = "retired" => m.id \in Operations
  BY DEF Messages
<1>6. \A i \in 1..Len(in) : in[i].kind = "restart" =>
         /\ in[i].id <= n /\ pg.queued < in[i].id /\ \A r \in Begun(pg, k) : r < in[i].id
         /\ \A j \in 1..Len(in) : in[j].kind = "restart" /\ i < j => in[i].id < in[j].id
  BY DEF Ordered
<1>7. ASSUME NEW i \in 1..Len(t), t[i].kind = "restart"
      PROVE  /\ t[i].id \in Requests /\ t[i].id <= n /\ pg.queued < t[i].id
             /\ h.kind = "restart" => h.id < t[i].id
             /\ \A r \in Begun(pg, k) : r < t[i].id
             /\ \A j \in 1..Len(t) : t[j].kind = "restart" /\ i < j => t[i].id < t[j].id
  <2>1. /\ i + 1 \in 1..Len(in) /\ t[i] = in[i + 1] /\ 1 < i + 1
    BY <1>2, <1>3
  <2>2. t[i].id \in Requests /\ t[i].id <= n /\ pg.queued < t[i].id /\ \A r \in Begun(pg, k) : r < t[i].id
    BY <1>4, <1>5, <1>6, <1>7, <2>1
  <2>3. h.kind = "restart" => h.id < t[i].id
    BY <1>2, <1>6, <1>7, <2>1
  <2>4. ASSUME NEW j \in 1..Len(t), t[j].kind = "restart", i < j PROVE t[i].id < t[j].id
    <3>1. j + 1 \in 1..Len(in) /\ t[j] = in[j + 1] /\ i + 1 < j + 1
      BY <1>1, <1>2, <1>3, <2>4
    <3>2. QED
      BY <1>6, <1>7, <2>1, <2>4, <3>1
  <2>5. QED
    BY <2>2, <2>3, <2>4
<1>8. QED
  BY <1>2, <1>4, <1>5, <1>6, <1>7 DEF h, t

\* A page that begins nothing stays in order.
LEMMA OrderedKept ==
    ASSUME NEW pg, NEW k, NEW in, NEW n, Ordered(pg, k, in, n),
           NEW q, NEW e, Begun(q, e) \subseteq Begun(pg, k), q.queued = pg.queued,
           q.queued # 0 => q.busy
    PROVE  Ordered(q, e, in, n)
  BY DEF Ordered

\* A page that is free takes up request r, or what it reconciles: it becomes pg,
\* which is busy, and begins.
LEMMA BeginFree ==
    ASSUME BarrierInv, NEW w \in Windows, page[w].stack = <<>>, ~ page[w].busy,
           NEW r \in {0} \cup Requests,
           BeginRetirement(w, [page[w] EXCEPT !.busy = TRUE], c, r)
    PROVE  /\ Joined(c', page') /\ published' \subseteq Operations
           /\ page'[w].queued = 0 /\ Begun(page'[w], c') = {r}
           /\ \A v \in Windows \ {w} :
                 page'[v] = page[v] /\ Begun(page'[v], c') = Begun(page[v], c)
           /\ \A L : Remembers(c', c, L)
<1> DEFINE pg == [page[w] EXCEPT !.busy = TRUE]
<1>1. /\ Joined(c, page) /\ page \in [Windows -> Pages] /\ Fits(page[w], c) /\ page[w] \in Pages
      /\ published \subseteq Operations /\ Ordered(page[w], c, inbox[w], issued)
  BY WindowIs
<1>2. /\ page[w].pending # 0 => page[w].busy
      /\ \A o : Uses(page[w], o) <=> o = page[w].pending
      /\ \A q \in Pages : q.stack = <<>> /\ q.pending = 0 =>
            Fits(q, c) /\ Begun(q, c) = {} /\ \A o \in Operations : ~ Uses(q, o)
  BY <1>1, IdleResult
<1>3. page[w].pending = 0 /\ page[w].queued = 0
  BY <1>1, <1>2 DEF Ordered
<1>4. pg \in Pages /\ pg.stack = <<>> /\ pg.pending = 0 /\ pg.queued = 0 /\ pg.busy
  BY <1>1, <1>3 DEF Pages
<1> HIDE DEF pg
<1>5. Fits(pg, c) /\ Begun(pg, c) = {} /\ \A o \in Operations : ~ Uses(pg, o)
  BY <1>2, <1>4
<1>6. \A o \in Operations : Uses(pg, o) <=> Uses(page[w], o)
  BY <1>2, <1>3, <1>5 DEF Operations
<1>7. Joined(c, [page EXCEPT ![w] = pg])
  BY <1>1, <1>5, <1>6, StayJoined
<1>8. /\ \A i \in 1..Len(pg.stack) : pg.stack[i].phase = "release"
      /\ r # 0 => r \notin Begun(pg, c)
      /\ BeginRetirement(w, pg, c, r)
  <2>1. BeginRetirement(w, pg, c, r)
    BY DEF pg
  <2>2. QED
    BY <1>4, <1>5, <2>1
<1>9. /\ Joined(c', page') /\ published' \subseteq Operations
      /\ page'[w].queued = pg.queued /\ Begun(page'[w], c') = Begun(pg, c) \cup {r}
      /\ \A v \in Windows \ {w} :
            page'[v] = page[v] /\ Begun(page'[v], c') = Begun(page[v], c)
      /\ \A L : Remembers(c', c, L)
  BY <1>1, <1>4, <1>7, <1>8, BeginJoined
<1>10. QED
  BY <1>4, <1>5, <1>9

\* OnRestartAgentStackRequested: the page begins with the request, or queues it.
LEMMA RestartRequestedStep ==
    ASSUME BarrierInv, NEW w \in Windows, OnRestartAgentStackRequested(w)
    PROVE  BarrierInv'
<1> DEFINE h == Head(inbox[w])
           t == Tail(inbox[w])
           r == h.id
<1>1. /\ Joined(c, page) /\ page \in [Windows -> Pages] /\ Fits(page[w], c) /\ page[w] \in Pages
      /\ inbox \in [Windows -> Seq(Messages)] /\ Claimed /\ lapsed \subseteq Requests
      /\ published \subseteq Operations /\ Ordered(page[w], c, inbox[w], issued)
      /\ calls \in 0..MaxCalls /\ issued \in Nat
  BY WindowIs
<1>2. /\ page[w].stack = <<>> /\ h.kind = "restart" /\ inbox[w] # <<>>
      /\ RestartAgentStack(w, page[w], c, r) /\ inbox' = [inbox EXCEPT ![w] = t]
      /\ UNCHANGED <<calls, issued, attempts, lapsed>>
  BY DEF OnRestartAgentStackRequested, Idle
<1>3. /\ t \in Seq(Messages) /\ r \in Requests /\ r <= issued /\ page[w].queued < r
      /\ \A q \in Begun(page[w], c) : q < r
      /\ \A i \in 1..Len(t) : t[i].kind = "restart" =>
            /\ t[i].id \in Requests /\ t[i].id <= issued /\ r < t[i].id
            /\ \A q \in Begun(page[w], c) : q < t[i].id
            /\ \A j \in 1..Len(t) : t[j].kind = "restart" /\ i < j => t[i].id < t[j].id
  BY <1>1, <1>2, OrderedTail
<1> HIDE DEF h, t, r
<1>4. /\ inbox' \in [Windows -> Seq(Messages)] /\ inbox'[w] = t
      /\ \A v \in Windows \ {w} : inbox'[v] = inbox[v]
  BY <1>1, <1>2, <1>3
<1>5. CASE page[w].busy
  <2> DEFINE q == [page[w] EXCEPT !.queued = r]
  <2>1. page' = [page EXCEPT ![w] = q] /\ c' = c /\ published' = published
    BY <1>2, <1>5 DEF RestartAgentStack
  <2>2. /\ q \in Pages /\ q.stack = page[w].stack /\ q.pending = page[w].pending /\ q.busy
        /\ q.queued = r
    BY <1>1, <1>3, <1>5 DEF Pages
  <2> HIDE DEF q
  <2>3. Fits(q, c) /\ Begun(q, c) = Begun(page[w], c) /\ \A o : Uses(q, o) <=> Uses(page[w], o)
    <3>1. Shaped(q) /\ Backed(q, c)
      BY <1>1, <1>5, <2>2 DEF Fits, Shaped, Backed
    <3>2. QED
      BY <2>2, <3>1 DEF Fits, Begun, Uses
  <2>4. Joined(c', page')
    BY <1>1, <2>1, <2>3, StayJoined
  <2>5. page'[w] = q /\ \A v \in Windows \ {w} : page'[v] = page[v]
    BY <1>1, <2>1
  <2>6. Ordered(q, c, t, issued)
    BY <1>1, <1>3, <2>2, <2>3 DEF Ordered
  <2>7. Remembers(c', c, lapsed')
    BY <2>1 DEF Remembers
  <2>8. Claimed'
    BY <1>1, <1>2, <2>7, ClaimedKept
  <2>9. QED
    BY <1>1, <1>2, <1>4, <2>1, <2>4, <2>5, <2>6, <2>8, WindowStep
<1>6. CASE ~ page[w].busy
  <2>1. BeginRetirement(w, [page[w] EXCEPT !.busy = TRUE], c, r)
    BY <1>2, <1>6 DEF RestartAgentStack
  <2>2. /\ Joined(c', page') /\ published' \subseteq Operations
        /\ page'[w].queued = 0 /\ Begun(page'[w], c') = {r}
        /\ \A v \in Windows \ {w} :
              page'[v] = page[v] /\ Begun(page'[v], c') = Begun(page[v], c)
        /\ \A L : Remembers(c', c, L)
    BY <1>2, <1>3, <1>6, <2>1, BeginFree
  <2>3. Ordered(page'[w], c', t, issued)
    <3>1. \A q \in Requests : 0 < q
      BY DEF Requests
    <3>2. QED
      BY <1>1, <1>3, <2>2, <3>1 DEF Ordered
  <2>4. Claimed'
    BY <1>1, <1>2, <2>2, ClaimedKept
  <2>5. QED
    BY <1>1, <1>2, <1>4, <2>2, <2>3, <2>4, WindowStep
<1>7. QED
  BY <1>5, <1>6

\* _ReconcileAgentSettings: the page begins an operation, or postpones it.
LEMMA ReconcileStep ==
    ASSUME BarrierInv, NEW w \in Windows, ReconcileAgentSettings(w)
    PROVE  BarrierInv'
<1>1. /\ Joined(c, page) /\ page \in [Windows -> Pages] /\ Fits(page[w], c) /\ page[w] \in Pages
      /\ inbox \in [Windows -> Seq(Messages)] /\ Claimed /\ lapsed \subseteq Requests
      /\ published \subseteq Operations /\ Ordered(page[w], c, inbox[w], issued)
      /\ calls \in 0..MaxCalls /\ issued \in Nat
  BY WindowIs
<1>2. /\ page[w].stack = <<>> /\ UNCHANGED <<inbox, issued, attempts, lapsed>>
      /\ calls' \in 0..MaxCalls
  BY <1>1 DEF ReconcileAgentSettings, Idle, Call
<1>3. CASE page[w].busy
  <2> DEFINE q == [page[w] EXCEPT !.reconcile = TRUE]
  <2>1. page' = [page EXCEPT ![w] = q] /\ c' = c /\ published' = published
    BY <1>3 DEF ReconcileAgentSettings
  <2>2. /\ q \in Pages /\ q.stack = page[w].stack /\ q.pending = page[w].pending /\ q.busy
        /\ q.queued = page[w].queued
    BY <1>1, <1>3 DEF Pages
  <2> HIDE DEF q
  <2>3. Fits(q, c) /\ Begun(q, c) = Begun(page[w], c) /\ \A o : Uses(q, o) <=> Uses(page[w], o)
    <3>1. Shaped(q) /\ Backed(q, c)
      BY <1>1, <1>3, <2>2 DEF Fits, Shaped, Backed
    <3>2. QED
      BY <2>2, <3>1 DEF Fits, Begun, Uses
  <2>4. Joined(c', page')
    BY <1>1, <2>1, <2>3, StayJoined
  <2>5. page'[w] = q /\ \A v \in Windows \ {w} : page'[v] = page[v]
    BY <1>1, <2>1
  <2>6. Ordered(q, c, inbox[w], issued)
    BY <1>1, <2>2, <2>3, OrderedKept
  <2>7. Remembers(c', c, lapsed')
    BY <2>1 DEF Remembers
  <2>8. Claimed'
    BY <1>1, <1>2, <2>7, ClaimedKept
  <2>9. QED
    BY <1>1, <1>2, <2>1, <2>4, <2>5, <2>6, <2>8, WindowStep
<1>4. CASE ~ page[w].busy
  <2>1. BeginRetirement(w, [page[w] EXCEPT !.busy = TRUE], c, 0)
    BY <1>4 DEF ReconcileAgentSettings
  <2>2. /\ Joined(c', page') /\ published' \subseteq Operations
        /\ page'[w].queued = 0 /\ Begun(page'[w], c') = {0}
        /\ \A v \in Windows \ {w} :
              page'[v] = page[v] /\ Begun(page'[v], c') = Begun(page[v], c)
        /\ \A L : Remembers(c', c, L)
    BY <1>2, <1>4, <2>1, BeginFree
  <2>3. Ordered(page'[w], c', inbox[w], issued)
    <3>1. \A i \in 1..Len(inbox[w]) : inbox[w][i].kind = "restart" => 0 < inbox[w][i].id
      <4>1. inbox[w] \in Seq(Messages)
        BY <1>1
      <4>2. \A i \in 1..Len(inbox[w]) : inbox[w][i] \in Messages
        BY <4>1, ElementOfSeq
      <4>3. \A m \in Messages : m.kind = "restart" => 0 < m.id
        BY DEF Messages, Requests
      <4>4. QED
        BY <4>2, <4>3
    <3>2. QED
      BY <1>1, <2>2, <3>1 DEF Ordered
  <2>4. Claimed'
    BY <1>1, <1>2, <2>2, ClaimedKept
  <2>5. QED
    BY <1>1, <1>2, <2>2, <2>3, <2>4, WindowStep
<1>5. QED
  BY <1>3, <1>4

\* The master's answer, or the end of the wait for it: Complete, and the page
\* runs the continuation of the operation it waits for.
LEMMA ContinueJoined ==
    ASSUME BarrierInv, NEW w \in Windows, page[w].stack = <<>>, NEW o \in Operations,
           NEW late \in BOOLEAN, late => page[w].pending = o,
           c' = Complete(c, o, late),
           page' = IF page[w].pending = o
                   THEN [page EXCEPT ![w] = Continue(@, o, RequestOf(o))] ELSE page
    PROVE  /\ Joined(c', page') /\ Begun(page'[w], c') = Begun(page[w], c)
           /\ page'[w].queued = page[w].queued /\ (page'[w].queued # 0 => page'[w].busy)
           /\ \A v \in Windows \ {w} :
                 page'[v] = page[v] /\ Begun(page'[v], c') = Begun(page[v], c)
           /\ c'.byRequest = c.byRequest
           /\ \A L : (late /\ RequestOf(o) # 0 => RequestOf(o) \in L) => Remembers(c', c, L)
<1> DEFINE pg == page[w]
<1>1. /\ Joined(c, page) /\ page \in [Windows -> Pages] /\ Fits(pg, c) /\ pg \in Pages
      /\ Ordered(pg, c, inbox[w], issued) /\ Coherent(c) /\ c \in Coordinators
  BY WindowIs
<1>2. /\ \A p : Uses(pg, p) <=> p = pg.pending
      /\ Begun(pg, c) = IF pg.pending = 0 THEN {} ELSE {c.operations[pg.pending].request}
      /\ pg.pending # 0 => pg.busy /\ pg.pending \in DOMAIN c.operations
      /\ pg.queued # 0 => pg.busy
      /\ \A q \in Pages : q.stack = <<>> /\ q.pending = 0 =>
            /\ \A k : Fits(q, k) => Begun(q, k) = {}
            /\ \A p \in Operations : ~ Uses(q, p)
  <2>1. \A q \in Pages : q.stack = <<>> /\ q.pending = 0 =>
            /\ \A k : Fits(q, k) => Begun(q, k) = {}
            /\ \A p \in Operations : ~ Uses(q, p)
    <3>1. \A p \in Operations : p # 0
      BY DEF Operations
    <3>2. ASSUME NEW q \in Pages, q.stack = <<>>, q.pending = 0
          PROVE  /\ \A k : Fits(q, k) => Begun(q, k) = {}
                 /\ \A p \in Operations : ~ Uses(q, p)
      <4>1. \A k : Fits(q, k) => Begun(q, k) = {}
        BY <3>2, IdleResult
      <4>2. Fits(q, c)
        BY <1>1, <3>2, IdleResult
      <4>3. QED
        BY <3>1, <3>2, <4>1, <4>2, IdleResult
    <3>3. QED
      BY <3>2
  <2>2. QED
    BY <1>1, <2>1, IdleResult DEF Ordered
<1>3. late /\ o \in DOMAIN c.operations => c.operations[o].count # 0
  BY <1>1, <1>2, UsedIsCounted
<1>4. /\ Coherent(c') /\ c'.next = c.next /\ c'.byRequest = c.byRequest
      /\ DOMAIN c'.operations = DOMAIN c.operations
      /\ \A p \in DOMAIN c.operations :
            /\ c'.operations[p].count = c.operations[p].count
            /\ c'.operations[p].request = c.operations[p].request
            /\ c'.operations[p].claimed = c.operations[p].claimed
            /\ c'.operations[p].completed <=> c.operations[p].completed \/ p = o
            /\ c'.operations[p].expire <=> c.operations[p].expire \/ (p = o /\ late)
  BY <1>1, <1>3, CompleteResult
<1>5. c' \in Coordinators /\ Later(c', c)
  BY <1>1, <1>4, NumbersAre DEF Coherent, Later
<1>6. Fits(pg, c') /\ Begun(pg, c') = Begun(pg, c)
  <2>1. \A p \in DOMAIN c.operations :
           pg.pending = p \/ (Uses(pg, p) /\ c.operations[p].request # 0) => p \in DOMAIN c'.operations
    BY <1>4
  <2>2. QED
    BY <1>1, <1>5, <2>1, FitsKept
<1>7. \A L : (late /\ RequestOf(o) # 0 => RequestOf(o) \in L) => Remembers(c', c, L)
  BY <1>4 DEF Remembers, RequestOf
<1>8. o # 0
  BY DEF Operations
<1> DEFINE q == page'[w]
<1>9. /\ Fits(q, c') /\ Begun(q, c') = Begun(pg, c) /\ q.queued = pg.queued
      /\ q.queued # 0 => q.busy
      /\ \A p \in Operations : Uses(q, p) <=> Uses(pg, p)
      /\ page' = [page EXCEPT ![w] = q]
  <2>1. CASE pg.pending # o
    <3>1. page' = page /\ q = pg
      BY <2>1
    <3>2. page = [page EXCEPT ![w] = page[w]]
      BY <1>1
    <3>3. QED
      BY <1>2, <1>6, <3>1, <3>2
  <2>2. CASE pg.pending = o
    <3> DEFINE r == RequestOf(o)
               x == [pg EXCEPT !.pending = 0]
               f == Frame(o, r)
    <3>1. page' = [page EXCEPT ![w] = Push(x, f)] /\ q = Push(x, f)
      BY <1>1, <2>2 DEF Continue
    <3>2. /\ x \in Pages /\ x.stack = <<>> /\ x.pending = 0 /\ x.busy /\ x.queued = pg.queued
      BY <1>1, <1>2, <1>8, <2>2 DEF Pages
    <3> HIDE DEF x
    <3>3. Fits(x, c') /\ Begun(x, c') = {} /\ \A p \in Operations : ~ Uses(x, p)
      <4>1. Fits(x, c')
        BY <1>6, <3>2, IdleResult
      <4>2. QED
        BY <1>2, <3>2, <4>1
    <3>4. o \in DOMAIN c.operations /\ r \in {0} \cup Requests
      <4>1. o \in DOMAIN c.operations
        BY <1>2, <1>8, <2>2
      <4>2. c.operations[o] \in Retirement
        BY <1>1, <4>1, CoordinatorIs
      <4>3. QED
        BY <4>1, <4>2 DEF Retirement, RequestOf
    <3>5. f \in Frames /\ f.op = o /\ f.request = r /\ (f.phase = "claim" => r # 0)
      BY <3>4 DEF Frame, Frames
    <3>6. /\ f.op \in DOMAIN c'.operations /\ c'.operations[f.op].completed
          /\ f.op <= c'.next /\ c'.operations[f.op].request = f.request
      BY <1>4, <3>4, <3>5 DEF RequestOf, Coherent, Indexed
    <3> HIDE DEF f
    <3>7. /\ \A i \in 1..Len(x.stack) : x.stack[i].phase = "release"
          /\ ~ Uses(x, f.op)
      BY <3>2, <3>3, <3>5
    <3>8. /\ Fits(Push(x, f), c') /\ Push(x, f).queued = x.queued
          /\ Begun(Push(x, f), c') = Begun(x, c') \cup {f.request}
          /\ \A p \in Operations : Uses(Push(x, f), p) <=> Uses(x, p) \/ p = f.op
      BY <1>5, <3>2, <3>3, <3>5, <3>6, <3>7, PushResult
    <3>9. Push(x, f).busy
      BY <3>2 DEF Push, Pages
    <3>10. Begun(pg, c) = {r}
      BY <1>2, <1>8, <2>2 DEF RequestOf
    <3> HIDE DEF q
    <3>11. QED
      BY <1>2, <2>2, <3>1, <3>2, <3>3, <3>5, <3>8, <3>9, <3>10
  <2>3. QED
    BY <2>1, <2>2
<1> HIDE DEF q
<1>10. /\ Joined(c', [page EXCEPT ![w] = q])
       /\ \A v \in Windows \ {w} : Begun(page[v], c') = Begun(page[v], c)
  <2>1. \A p \in DOMAIN c.operations \cap DOMAIN c'.operations : Uses(q, p) <=> Uses(page[w], p)
    BY <1>1, <1>9, NumbersAre
  <2>2. \A p \in DOMAIN c.operations \cap DOMAIN c'.operations :
           c'.operations[p].count = IF Uses(q, p) /\ ~ Uses(page[w], p)
                                    THEN c.operations[p].count + 1
                                    ELSE IF Uses(page[w], p) /\ ~ Uses(q, p)
                                    THEN c.operations[p].count - 1
                                    ELSE c.operations[p].count
    BY <1>4, <2>1
  <2>3. \A p \in DOMAIN c.operations \cap DOMAIN c'.operations :
           c.operations[p].request = 0 /\ Uses(q, p) => Uses(page[w], p)
    BY <2>1
  <2>4. \A p \in DOMAIN c.operations \ DOMAIN c'.operations :
           \A v \in Windows \ {w} : ~ Uses(page[v], p)
    BY <1>4
  <2>5. \A p \in DOMAIN c'.operations \ DOMAIN c.operations :
           c'.operations[p].count = 1 /\ Uses(q, p)
    BY <1>4
  <2>6. Joined(c, page) /\ Coherent(c') /\ Later(c', c) /\ Fits(q, c')
    BY <1>1, <1>4, <1>5, <1>9
  <2>7. QED
    BY <2>2, <2>3, <2>4, <2>5, <2>6, StepJoined
<1>11. \A v \in Windows \ {w} : page'[v] = page[v]
  BY <1>1, <1>9
<1>12. QED
  BY <1>4, <1>7, <1>9, <1>10, <1>11 DEF q

\* OnAgentSessionsRetired: the master's answer reaches a page.
LEMMA SessionsRetiredStep ==
    ASSUME BarrierInv, NEW w \in Windows, OnAgentSessionsRetired(w)
    PROVE  BarrierInv'
<1> DEFINE h == Head(inbox[w])
           t == Tail(inbox[w])
           o == h.id
<1>1. /\ Joined(c, page) /\ page \in [Windows -> Pages]
      /\ inbox \in [Windows -> Seq(Messages)] /\ Claimed /\ lapsed \subseteq Requests
      /\ published \subseteq Operations /\ Ordered(page[w], c, inbox[w], issued)
      /\ calls \in 0..MaxCalls /\ issued \in Nat
  BY WindowIs
<1>2. /\ page[w].stack = <<>> /\ h.kind = "retired" /\ inbox[w] # <<>>
      /\ inbox' = [inbox EXCEPT ![w] = t] /\ c' = Complete(c, o, FALSE)
      /\ page' = IF page[w].pending = o
                 THEN [page EXCEPT ![w] = Continue(@, o, RequestOf(o))] ELSE page
      /\ lapsed' = lapsed \cup Evicted(c, c')
      /\ UNCHANGED <<calls, published, issued, attempts>>
  BY DEF OnAgentSessionsRetired, Idle
<1>3. /\ t \in Seq(Messages) /\ o \in Operations
      /\ \A i \in 1..Len(t) : t[i].kind = "restart" =>
            /\ t[i].id <= issued /\ page[w].queued < t[i].id
            /\ \A q \in Begun(page[w], c) : q < t[i].id
            /\ \A j \in 1..Len(t) : t[j].kind = "restart" /\ i < j => t[i].id < t[j].id
  BY <1>1, <1>2, OrderedTail
<1> HIDE DEF h, t, o
<1>4. /\ Joined(c', page') /\ Begun(page'[w], c') = Begun(page[w], c)
      /\ page'[w].queued = page[w].queued /\ (page'[w].queued # 0 => page'[w].busy)
      /\ \A v \in Windows \ {w} :
            page'[v] = page[v] /\ Begun(page'[v], c') = Begun(page[v], c)
      /\ c'.byRequest = c.byRequest
      /\ \A L : Remembers(c', c, L)
  <2>1. /\ Joined(c', page') /\ Begun(page'[w], c') = Begun(page[w], c)
        /\ page'[w].queued = page[w].queued /\ (page'[w].queued # 0 => page'[w].busy)
        /\ \A v \in Windows \ {w} :
              page'[v] = page[v] /\ Begun(page'[v], c') = Begun(page[v], c)
        /\ c'.byRequest = c.byRequest
        /\ \A L : (FALSE /\ RequestOf(o) # 0 => RequestOf(o) \in L) => Remembers(c', c, L)
    BY <1>2, <1>3, ContinueJoined
  <2>2. QED
    BY <2>1
<1>5. lapsed' = lapsed
  BY <1>2, <1>4 DEF Evicted
<1>6. /\ inbox' \in [Windows -> Seq(Messages)] /\ inbox'[w] = t
      /\ \A v \in Windows \ {w} : inbox'[v] = inbox[v]
  BY <1>1, <1>2, <1>3
<1>7. Ordered(page'[w], c', t, issued)
  BY <1>1, <1>3, <1>4 DEF Ordered
<1>8. Claimed'
  BY <1>1, <1>2, <1>4, <1>5, ClaimedKept
<1>9. QED
  BY <1>1, <1>2, <1>4, <1>6, <1>7, <1>8, WindowStep

\* The 17 seconds of a wait are over.
LEMMA TimeoutStep ==
    ASSUME BarrierInv, NEW w \in Windows, RetirementTimeout(w)
    PROVE  BarrierInv'
<1> DEFINE o == page[w].pending
           r == RequestOf(o)
<1>1. /\ Joined(c, page) /\ page \in [Windows -> Pages] /\ page[w] \in Pages
      /\ inbox \in [Windows -> Seq(Messages)] /\ Claimed /\ lapsed \subseteq Requests
      /\ published \subseteq Operations /\ Ordered(page[w], c, inbox[w], issued)
      /\ calls \in 0..MaxCalls /\ Fits(page[w], c) /\ c \in Coordinators
  BY WindowIs
<1>2. /\ page[w].stack = <<>> /\ o # 0 /\ c' = Complete(c, o, TRUE)
      /\ page' = [page EXCEPT ![w] = Continue(@, o, r)]
      /\ lapsed' = lapsed \cup ({r} \ {0})
      /\ UNCHANGED <<calls, inbox, published, issued, attempts>>
  BY <1>1 DEF RetirementTimeout, Idle
<1>3. o \in Operations
  BY <1>1, <1>2, PageIs
<1>4. page' = IF page[w].pending = o
              THEN [page EXCEPT ![w] = Continue(@, o, RequestOf(o))] ELSE page
  BY <1>2
<1>5. lapsed' \subseteq Requests
  <2>1. o \in DOMAIN c.operations
    BY <1>1, <1>2, IdleResult
  <2>2. c.operations[o] \in Retirement
    BY <1>1, <2>1, CoordinatorIs
  <2>3. r \in {0} \cup Requests
    BY <2>2 DEF Retirement, RequestOf
  <2> HIDE DEF r
  <2>4. QED
    BY <1>1, <1>2, <2>3
<1>6. TRUE => page[w].pending = o
  OBVIOUS
<1> HIDE DEF o
<1>7. /\ Joined(c', page') /\ Begun(page'[w], c') = Begun(page[w], c)
      /\ page'[w].queued = page[w].queued /\ (page'[w].queued # 0 => page'[w].busy)
      /\ \A v \in Windows \ {w} :
            page'[v] = page[v] /\ Begun(page'[v], c') = Begun(page[v], c)
      /\ \A L : (TRUE /\ RequestOf(o) # 0 => RequestOf(o) \in L) => Remembers(c', c, L)
  BY <1>2, <1>3, <1>4, <1>6, ContinueJoined
<1>8. Remembers(c', c, lapsed')
  BY <1>2, <1>7
<1>9. Claimed'
  BY <1>1, <1>2, <1>5, <1>8, ClaimedKept
<1>10. Ordered(page'[w], c', inbox[w], issued)
  BY <1>1, <1>7, OrderedKept
<1>11. QED
  BY <1>1, <1>2, <1>7, <1>9, <1>10, WindowStep

\* The continuation that ended is released.
LEMMA EndStep ==
    ASSUME BarrierInv, NEW w \in Windows, EndContinuation(w)
    PROVE  BarrierInv'
<1> DEFINE pg == page[w]
           o == pg.stack[1].op
           q == [pg EXCEPT !.stack = Tail(@)]
<1>1. /\ Joined(c, page) /\ page \in [Windows -> Pages] /\ Fits(pg, c) /\ pg \in Pages
      /\ inbox \in [Windows -> Seq(Messages)] /\ Claimed /\ lapsed \subseteq Requests
      /\ published \subseteq Operations /\ Ordered(pg, c, inbox[w], issued)
      /\ calls \in 0..MaxCalls
  BY WindowIs
<1>2. pg.stack # <<>> /\ Head(pg.stack) = pg.stack[1] /\ o \in Operations /\ Uses(pg, o)
  <2>1. pg.stack # <<>> /\ pg.stack \in Seq(Frames)
    BY <1>1, PageIs DEF EndContinuation
  <2>2. Head(pg.stack) = pg.stack[1] /\ 1 \in 1..Len(pg.stack)
    BY <2>1, HeadTailProperties, EmptySeq, LenProperties
  <2>3. QED
    BY <1>1, <2>1, <2>2, PageIs DEF Uses
<1>3. /\ pg.stack[1].phase = "release" /\ c' = ReleaseContinuation(c, o)
      /\ page' = [page EXCEPT ![w] = q] /\ lapsed' = lapsed \cup Evicted(c, c')
      /\ UNCHANGED <<calls, inbox, published, issued, attempts>>
  BY <1>1, <1>2 DEF EndContinuation, Top
<1>4. /\ Fits(q, c) /\ Begun(q, c) \subseteq Begun(pg, c)
      /\ q.queued = pg.queued /\ q.busy = pg.busy
      /\ \A p : Uses(q, p) <=> Uses(pg, p) /\ p # o
  BY <1>1, <1>2, <1>3, TailResult
<1> HIDE DEF q, o
<1>5. \A p \in DOMAIN c.operations :
         c.operations[p].expire /\ c.operations[p].request # 0 => c.operations[p].request \in lapsed
  BY <1>1 DEF Claimed
<1>6. /\ Joined(c', page') /\ Begun(q, c') = Begun(q, c)
      /\ \A v \in Windows \ {w} : Begun(page[v], c') = Begun(page[v], c)
      /\ Remembers(c', c, lapsed') /\ lapsed' \subseteq Requests
  <2>1. /\ \A p \in Operations : Uses(q, p) <=> Uses(page[w], p) /\ p # o
        /\ o \in DOMAIN c.operations => Uses(page[w], o)
    BY <1>2, <1>4
  <2>2. /\ Joined(c', [page EXCEPT ![w] = q]) /\ Begun(q, c') = Begun(q, c)
        /\ \A v \in Windows \ {w} : Begun(page[v], c') = Begun(page[v], c)
        /\ Remembers(c', c, lapsed \cup Evicted(c, c')) /\ Evicted(c, c') \subseteq Requests
    <3>1. \A p \in Operations : Uses(q, p) <=> Uses(page[w], p) /\ p # o
      BY <2>1
    <3>2. o \in DOMAIN c.operations => Uses(page[w], o)
      BY <2>1
    <3>3. /\ Joined(c, page) /\ Fits(q, c) /\ o \in {0} \cup Operations
          /\ c' = ReleaseContinuation(c, o)
      BY <1>1, <1>2, <1>3, <1>4
    <3> HIDE DEF pg
    <3> DEFINE e == ReleaseContinuation(c, o)
    <3>4. /\ Joined(e, [page EXCEPT ![w] = q]) /\ Begun(q, e) = Begun(q, c)
          /\ \A v \in Windows \ {w} : Begun(page[v], e) = Begun(page[v], c)
          /\ Evicted(c, e) \subseteq Requests
          /\ \A L : (\A p \in DOMAIN c.operations :
                       c.operations[p].expire /\ c.operations[p].request # 0 =>
                          c.operations[p].request \in L)
                   => Remembers(e, c, L \cup Evicted(c, e))
      BY <3>1, <3>2, <3>3, LeaveJoined
    <3>5. c' = e
      BY <3>3
    <3> HIDE DEF e
    <3>6. QED
      BY <1>5, <3>4, <3>5
  <2>3. QED
    BY <1>1, <1>3, <2>2
<1>7. page'[w] = q /\ \A v \in Windows \ {w} : page'[v] = page[v]
  BY <1>1, <1>3
<1>8. Ordered(q, c', inbox[w], issued)
  <2>1. q.queued # 0 => q.busy
    BY <1>1, <1>4 DEF Ordered
  <2>2. QED
    BY <1>1, <1>4, <1>6, <2>1, OrderedKept
<1>9. Claimed'
  BY <1>1, <1>3, <1>6, ClaimedKept
<1>10. QED
  BY <1>1, <1>3, <1>6, <1>7, <1>8, <1>9, WindowStep

\* The destructor of the page releases what it waits for.
LEMMA CloseStep ==
    ASSUME BarrierInv, NEW w \in Windows, Close(w)
    PROVE  BarrierInv'
<1> DEFINE pg == page[w]
           o == pg.pending
           q == [pg EXCEPT !.open = FALSE, !.pending = 0]
<1>1. /\ Joined(c, page) /\ page \in [Windows -> Pages] /\ Fits(pg, c) /\ pg \in Pages
      /\ inbox \in [Windows -> Seq(Messages)] /\ Claimed /\ lapsed \subseteq Requests
      /\ published \subseteq Operations /\ Ordered(pg, c, inbox[w], issued)
      /\ calls \in 0..MaxCalls
  BY WindowIs
<1>2. /\ pg.stack = <<>> /\ c' = ReleaseContinuation(c, o) /\ lapsed' = lapsed \cup Evicted(c, c')
      /\ inbox' = [inbox EXCEPT ![w] = <<>>] /\ calls' \in 0..MaxCalls
      /\ UNCHANGED <<published, issued, attempts>>
  BY <1>1 DEF Close, Idle, Call
<1>3. page' = [page EXCEPT ![w] = q]
  BY <1>1 DEF Close
<1>4. o \in {0} \cup Operations
  BY <1>1, PageIs
<1>5. /\ q \in Pages /\ q.stack = <<>> /\ q.pending = 0 /\ q.queued = pg.queued /\ q.busy = pg.busy
  BY <1>1, <1>2 DEF Pages
<1> HIDE DEF q
<1>6. /\ Fits(q, c) /\ Begun(q, c) = {} /\ \A p \in Operations : ~ Uses(q, p)
      /\ \A p : Uses(pg, p) <=> p = o
  BY <1>1, <1>2, <1>5, IdleResult
<1> HIDE DEF o
<1>7. \A p \in DOMAIN c.operations :
         c.operations[p].expire /\ c.operations[p].request # 0 => c.operations[p].request \in lapsed
  BY <1>1 DEF Claimed
<1>8. /\ Joined(c', page') /\ Begun(q, c') = Begun(q, c)
      /\ \A v \in Windows \ {w} : Begun(page[v], c') = Begun(page[v], c)
      /\ Remembers(c', c, lapsed') /\ lapsed' \subseteq Requests
  <2>1. /\ \A p \in Operations : Uses(q, p) <=> Uses(page[w], p) /\ p # o
        /\ o \in DOMAIN c.operations => Uses(page[w], o)
    BY <1>6
  <2>2. /\ Joined(c', [page EXCEPT ![w] = q]) /\ Begun(q, c') = Begun(q, c)
        /\ \A v \in Windows \ {w} : Begun(page[v], c') = Begun(page[v], c)
        /\ Remembers(c', c, lapsed \cup Evicted(c, c')) /\ Evicted(c, c') \subseteq Requests
    <3>1. \A p \in Operations : Uses(q, p) <=> Uses(page[w], p) /\ p # o
      BY <2>1
    <3>2. o \in DOMAIN c.operations => Uses(page[w], o)
      BY <2>1
    <3>3. /\ Joined(c, page) /\ Fits(q, c) /\ o \in {0} \cup Operations
          /\ c' = ReleaseContinuation(c, o)
      BY <1>1, <1>2, <1>4, <1>6
    <3> HIDE DEF pg
    <3> DEFINE e == ReleaseContinuation(c, o)
    <3>4. /\ Joined(e, [page EXCEPT ![w] = q]) /\ Begun(q, e) = Begun(q, c)
          /\ \A v \in Windows \ {w} : Begun(page[v], e) = Begun(page[v], c)
          /\ Evicted(c, e) \subseteq Requests
          /\ \A L : (\A p \in DOMAIN c.operations :
                       c.operations[p].expire /\ c.operations[p].request # 0 =>
                          c.operations[p].request \in L)
                   => Remembers(e, c, L \cup Evicted(c, e))
      BY <3>1, <3>2, <3>3, LeaveJoined
    <3>5. c' = e
      BY <3>3
    <3> HIDE DEF e
    <3>6. QED
      BY <1>7, <3>4, <3>5
  <2>3. QED
    BY <1>1, <1>2, <1>3, <2>2
<1>9. page'[w] = q /\ \A v \in Windows \ {w} : page'[v] = page[v]
  BY <1>1, <1>3
<1>10. /\ inbox' \in [Windows -> Seq(Messages)] /\ inbox'[w] = <<>>
       /\ \A v \in Windows \ {w} : inbox'[v] = inbox[v]
  BY <1>1, <1>2
<1>11. Ordered(q, c', inbox'[w], issued)
  <2>1. /\ pg.queued # 0 => pg.busy
        /\ pg.queued <= issued
    BY <1>1 DEF Ordered
  <2>2. Len(inbox'[w]) = 0 /\ inbox'[w] \in Seq(Messages) /\ 1..Len(inbox'[w]) = {}
    BY <1>10
  <2>3. QED
    BY <1>5, <1>6, <1>8, <2>1, <2>2 DEF Ordered
<1>12. Claimed'
  BY <1>1, <1>2, <1>8, ClaimedKept
<1>13. QED
  BY <1>1, <1>2, <1>8, <1>9, <1>10, <1>11, <1>12, WindowStep

\* One page claims the restart of an operation, and counts it.
LEMMA ClaimStep ==
    ASSUME BarrierInv, NEW w \in Windows, ClaimAction(w)
    PROVE  BarrierInv'
<1> DEFINE pg == page[w]
           f == pg.stack[1]
           o == f.op
           r == f.request
           q == Advance(pg, "finish")
<1>1. /\ Joined(c, page) /\ page \in [Windows -> Pages] /\ Fits(pg, c) /\ pg \in Pages
      /\ inbox \in [Windows -> Seq(Messages)] /\ Claimed /\ lapsed \subseteq Requests
      /\ published \subseteq Operations /\ Ordered(pg, c, inbox[w], issued)
      /\ calls \in 0..MaxCalls /\ c \in Coordinators /\ Coherent(c) /\ Indexed(c)
  BY WindowIs
<1>2. pg.stack # <<>> /\ Head(pg.stack) = f /\ f \in Frames /\ 1 \in 1..Len(pg.stack)
  <2>1. pg.stack # <<>> /\ pg.stack \in Seq(Frames)
    BY <1>1, PageIs DEF ClaimAction
  <2>2. Head(pg.stack) = pg.stack[1] /\ 1 \in 1..Len(pg.stack)
    BY <2>1, HeadTailProperties, EmptySeq, LenProperties
  <2>3. QED
    BY <1>1, <2>1, <2>2, PageIs
<1>3. /\ f.phase = "claim"
      /\ IF Claimable(c, o)
         THEN /\ c' = [c EXCEPT !.operations[o].claimed = TRUE]
              /\ attempts' = [attempts EXCEPT ![r] = @ + 1]
         ELSE UNCHANGED <<c, attempts>>
      /\ page' = [page EXCEPT ![w] = q]
      /\ UNCHANGED <<inbox, published, calls, issued, lapsed>>
  BY <1>1, <1>2 DEF ClaimAction, Top
<1>4. /\ o \in DOMAIN c.operations /\ r \in Requests /\ pg.busy
      /\ c.operations[o].completed /\ c.operations[o].request = r
  BY <1>1, <1>2, <1>3, PageIs DEF Fits, Shaped, Backed
<1>5. q \in Pages /\ q.pending = pg.pending /\ q.queued = pg.queued /\ q.busy = pg.busy
  <2>1. [pg.stack EXCEPT ![1].phase = "finish"] \in Seq(Frames)
    <3>1. [f EXCEPT !.phase = "finish"] \in Frames
      BY <1>2 DEF Frames
    <3>2. [pg.stack EXCEPT ![1].phase = "finish"] = [pg.stack EXCEPT ![1] = [f EXCEPT !.phase = "finish"]]
      OBVIOUS
    <3> HIDE DEF f
    <3>3. QED
      BY <1>1, <1>2, <3>1, <3>2, PageIs, ExceptSeq
  <2>2. QED
    BY <1>1, <2>1 DEF Advance, Pages
<1>6. /\ Fits(q, c) /\ Begun(q, c) = Begun(pg, c)
      /\ \A p : Uses(q, p) <=> Uses(pg, p)
  <2>1. pg.stack[1].phase # "release" /\ pg.stack # <<>>
    BY <1>2, <1>3
  <2>2. q.stack = Advance(pg, "finish").stack /\ q.busy
    BY <1>4, <1>5
  <2> HIDE DEF q
  <2>3. QED
    BY <1>1, <1>5, <2>1, <2>2, AdvanceResult
<1> HIDE DEF q, f
<1>7. page'[w] = q /\ \A v \in Windows \ {w} : page'[v] = page[v]
  BY <1>1, <1>3
<1>8. Joined(c, page')
  BY <1>1, <1>3, <1>6, StayJoined
<1>9. q.queued # 0 => q.busy
  BY <1>1, <1>5 DEF Ordered
<1>10. CASE ~ Claimable(c, o)
  <2>1. c' = c /\ attempts' = attempts
    BY <1>3, <1>10
  <2>2. Remembers(c', c, lapsed')
    BY <2>1 DEF Remembers
  <2>3. Claimed'
    BY <1>1, <1>3, <2>1, <2>2, ClaimedKept
  <2>4. Ordered(q, c', inbox[w], issued)
    BY <1>1, <1>5, <1>6, <1>9, <2>1, OrderedKept
  <2>5. QED
    BY <1>1, <1>3, <1>7, <1>8, <2>1, <2>3, <2>4, WindowStep
<1>11. CASE Claimable(c, o)
  <2> DEFINE op == c.operations[o]
             new == [op EXCEPT !.claimed = TRUE]
             h == c.history
  <2>1. op \in Retirement /\ h \in Seq(Operations) /\ Settled(op) /\ Listed(c)
    BY <1>1, <1>4, CoordinatorIs DEF Coherent
  <2>2. /\ new \in Retirement /\ new.request = r /\ new.count = op.count /\ new.claimed
        /\ new.recorded = op.recorded /\ new.completed = op.completed /\ new.expire = op.expire
    BY <1>4, <2>1 DEF Retirement
  <2>3. c' = [next |-> c.next, operations |-> [c.operations EXCEPT ![o] = new],
              byRequest |-> c.byRequest, history |-> h]
    <3>1. ASSUME NEW x, x = [c EXCEPT !.operations[o].claimed = TRUE]
          PROVE  x = [next |-> c.next, operations |-> [c.operations EXCEPT ![o] = new],
                      byRequest |-> c.byRequest, history |-> h]
      BY <1>1, <3>1 DEF Coordinators
    <3>2. QED
      BY <1>3, <1>11, <3>1
  <2>4. new.request = c.operations[o].request
    BY <1>4, <2>2
  <2> HIDE DEF op, new, h, o, r
  <2>5. /\ c' \in Coordinators /\ Indexed(c') /\ c'.next = c.next /\ c'.history = h
        /\ DOMAIN c'.operations = DOMAIN c.operations /\ c'.byRequest = c.byRequest
        /\ \A p \in DOMAIN c.operations :
              c'.operations[p] = IF p = o THEN new ELSE c.operations[p]
    BY <1>1, <1>4, <2>1, <2>2, <2>3, <2>4, UpdateResult
  <2>6. Listed(c')
    BY <1>4, <2>1, <2>2, <2>5 DEF Listed, op, h
  <2>7. Settled(new)
    BY <1>4, <2>1, <2>2 DEF Settled, Sane, op
  <2>8. Coherent(c')
    BY <1>1, <2>5, <2>6, <2>7 DEF Coherent
  <2>9. \A p \in DOMAIN c.operations :
           /\ c'.operations[p].count = c.operations[p].count
           /\ c'.operations[p].request = c.operations[p].request
           /\ c'.operations[p].completed = c.operations[p].completed
           /\ c'.operations[p].expire = c.operations[p].expire
           /\ IF p = o THEN c'.operations[p].claimed
              ELSE c'.operations[p].claimed = c.operations[p].claimed
    BY <1>4, <2>2, <2>5 DEF op
  <2>10. Later(c', c)
    BY <1>1, <2>5, <2>9, NumbersAre DEF Later
  <2>11. Fits(q, c') /\ Begun(q, c') = Begun(q, c)
    <3>1. \A p \in DOMAIN c.operations :
             q.pending = p \/ (Uses(q, p) /\ c.operations[p].request # 0) => p \in DOMAIN c'.operations
      BY <2>5
    <3>2. QED
      BY <1>1, <1>6, <2>5, <2>10, <3>1, FitsKept
  <2>12. /\ Joined(c', page')
         /\ \A v \in Windows \ {w} : Begun(page[v], c') = Begun(page[v], c)
    <3>1. \A p \in DOMAIN c.operations \cap DOMAIN c'.operations :
             c'.operations[p].count = IF Uses(q, p) /\ ~ Uses(page[w], p)
                                      THEN c.operations[p].count + 1
                                      ELSE IF Uses(page[w], p) /\ ~ Uses(q, p)
                                      THEN c.operations[p].count - 1
                                      ELSE c.operations[p].count
      BY <1>6, <2>9
    <3>2. \A p \in DOMAIN c.operations \cap DOMAIN c'.operations :
             c.operations[p].request = 0 /\ Uses(q, p) => Uses(page[w], p)
      BY <1>6
    <3>3. \A p \in DOMAIN c.operations \ DOMAIN c'.operations :
             \A v \in Windows \ {w} : ~ Uses(page[v], p)
      BY <2>5
    <3>4. \A p \in DOMAIN c'.operations \ DOMAIN c.operations :
             c'.operations[p].count = 1 /\ Uses(q, p)
      BY <2>5
    <3>5. Joined(c, page)
      BY <1>1
    <3>6. /\ Joined(c', [page EXCEPT ![w] = q])
          /\ \A v \in Windows \ {w} : Begun(page[v], c') = Begun(page[v], c)
      BY <2>8, <2>10, <2>11, <3>1, <3>2, <3>3, <3>4, <3>5, StepJoined
    <3>7. QED
      BY <1>3, <3>6
  <2>13. Claimed'
    <3>1. attempts \in [Requests -> Nat] /\ attempts' = [attempts EXCEPT ![r] = @ + 1]
      BY <1>1, <1>3, <1>11 DEF Claimed, o, r
    <3>2. attempts' \in [Requests -> Nat]
      BY <1>4, <3>1 DEF r
    <3>3. r \in Requests \ lapsed => attempts[r] = 0
      <4>1. ASSUME r \in Requests \ lapsed, attempts[r] # 0 PROVE FALSE
        <5>1. PICK p \in DOMAIN c.operations : c.operations[p].request = r /\ c.operations[p].claimed
          BY <1>1, <4>1 DEF Claimed
        <5>2. r # 0
          BY <4>1 DEF Requests
        <5>3. p = o
          BY <1>1, <1>4, <5>1, <5>2, OneOperation DEF o, r
        <5>4. QED
          BY <1>11, <5>1, <5>3 DEF Claimable, o
      <4>2. QED
        BY <4>1
    <3>4. ASSUME NEW p \in DOMAIN c'.operations, c'.operations[p].expire, c'.operations[p].request # 0
          PROVE  c'.operations[p].request \in lapsed'
      BY <1>1, <1>3, <2>5, <2>9, <3>4 DEF Claimed
    <3>5. ASSUME NEW s \in Requests \ lapsed', attempts'[s] # 0
          PROVE  /\ attempts'[s] = 1
                 /\ \E p \in DOMAIN c'.operations : c'.operations[p].request = s /\ c'.operations[p].claimed
      <4>1. CASE s = r
        <5>1. attempts'[s] = 1
          BY <1>3, <3>1, <3>3, <4>1
        <5>2. o \in DOMAIN c'.operations /\ c'.operations[o].request = s /\ c'.operations[o].claimed
          BY <1>4, <2>5, <2>9, <4>1 DEF o, r
        <5>3. QED
          BY <5>1, <5>2
      <4>2. CASE s # r
        <5>1. attempts'[s] = attempts[s] /\ s \in Requests \ lapsed
          BY <1>3, <3>1, <4>2
        <5>2. PICK p \in DOMAIN c.operations : c.operations[p].request = s /\ c.operations[p].claimed
          BY <1>1, <3>5, <5>1 DEF Claimed
        <5>3. p \in DOMAIN c'.operations /\ c'.operations[p].request = s /\ c'.operations[p].claimed
          BY <2>5, <2>9, <5>2
        <5>4. attempts[s] = 1
          BY <1>1, <3>5, <5>1 DEF Claimed
        <5>5. QED
          BY <5>1, <5>3, <5>4
      <4>3. QED
        BY <4>1, <4>2
    <3>6. lapsed' \subseteq Requests
      BY <1>1, <1>3
    <3>7. QED
      BY <3>2, <3>4, <3>5, <3>6 DEF Claimed
  <2>14. Ordered(q, c', inbox[w], issued)
    BY <1>1, <1>5, <1>6, <1>9, <2>11, OrderedKept
  <2>15. QED
    BY <1>1, <1>3, <1>7, <2>12, <2>13, <2>14, WindowStep
<1>12. QED
  BY <1>10, <1>11

\* The end of a continuation, with b the one of a reconciliation that begins
\* again: the page becomes q, which has only to release.
LEMMA DoneJoined ==
    ASSUME BarrierInv, NEW w \in Windows, page[w].stack # <<>>, Top(w).phase = "finish",
           NEW b \in BOOLEAN, b => Top(w).request = 0,
           NEW q \in Pages, q.stack = Advance(page[w], "release").stack,
           q.pending = page[w].pending
    PROVE  LET k == IF b THEN Expire(c, Top(w).op) ELSE c
           IN  /\ Joined(k, [page EXCEPT ![w] = q]) /\ q.pending = 0
               /\ \A i \in 1..Len(q.stack) : q.stack[i].phase = "release"
               /\ Begun(q, k) = Begun(page[w], c)
               /\ \A v \in Windows \ {w} : Begun(page[v], k) = Begun(page[v], c)
               /\ \A L : Remembers(k, c, L)
<1> DEFINE k == IF b THEN Expire(c, Top(w).op) ELSE c
<1> HIDE DEF k
<1> DEFINE pg == page[w]
           f == pg.stack[1]
           o == f.op
<1>1. /\ Joined(c, page) /\ page \in [Windows -> Pages] /\ Fits(pg, c) /\ pg \in Pages
      /\ c \in Coordinators /\ Coherent(c) /\ Indexed(c)
  BY WindowIs
<1>2. Top(w) = f /\ f.phase = "finish" /\ 1 \in 1..Len(pg.stack)
  <2>1. pg.stack \in Seq(Frames)
    BY <1>1, PageIs
  <2>2. Head(pg.stack) = pg.stack[1] /\ 1 \in 1..Len(pg.stack)
    BY <2>1, HeadTailProperties, EmptySeq, LenProperties
  <2>3. QED
    BY <2>2 DEF Top
<1>3. /\ Fits(q, c) /\ Begun(q, c) = Begun(pg, c) /\ pg.pending = 0
      /\ \A p : Uses(q, p) <=> Uses(pg, p)
      /\ \A i \in 1..Len(q.stack) : q.stack[i].phase = "release"
  <2>1. pg.stack[1].phase # "release" /\ pg.stack # <<>>
    BY <1>2
  <2>2. QED
    BY <1>1, <2>1, AdvanceResult
<1>4. CASE k = c
  <2>1. Joined(c, [page EXCEPT ![w] = q])
    BY <1>1, <1>3, StayJoined
  <2>2. \A L : Remembers(k, c, L)
    BY <1>4 DEF Remembers
  <2>3. QED
    BY <1>3, <1>4, <2>1, <2>2 DEF k
<1>5. CASE b /\ o \in DOMAIN c.operations
  <2>1. k = EraseLocked(c, o) /\ f.request = 0
    BY <1>2, <1>5 DEF Expire, k
  <2> HIDE DEF f, o
  <2>2. /\ k \in Coordinators /\ Indexed(k) /\ k.next = c.next /\ k.history = c.history
        /\ DOMAIN k.operations = DOMAIN c.operations \ {o}
        /\ \A p \in DOMAIN k.operations : k.operations[p] = c.operations[p]
    BY <1>1, <1>5, <2>1, EraseResult
  <2>3. c.operations[o].request = 0 /\ Uses(pg, o)
    BY <1>1, <1>2, <1>5, <2>1 DEF Fits, Backed, Uses, f, o
  <2>4. c.operations[o].count # 0 /\ \A v \in Windows \ {w} : ~ Uses(page[v], o)
    BY <1>1, <1>5, <2>3, UsedIsCounted
  <2>5. Coherent(k)
    <3>1. ~ c.operations[o].recorded
      BY <1>1, <1>5, <2>4 DEF Coherent, Settled, Sane
    <3>2. Listed(k)
      BY <1>1, <2>2, <3>1 DEF Coherent, Listed
    <3>3. QED
      BY <1>1, <2>2, <3>2 DEF Coherent
  <2>6. Later(k, c)
    BY <1>1, <2>2, NumbersAre DEF Later
  <2>7. Fits(q, k) /\ Begun(q, k) = Begun(q, c)
    <3>1. \A p \in DOMAIN c.operations :
             q.pending = p \/ (Uses(q, p) /\ c.operations[p].request # 0) => p \in DOMAIN k.operations
      BY <1>1, <1>3, <2>2, <2>3, NumbersAre
    <3>2. QED
      BY <1>1, <1>3, <2>2, <2>6, <3>1, FitsKept
  <2>8. \A p \in DOMAIN c.operations \cap DOMAIN k.operations :
           k.operations[p].count = IF Uses(q, p) /\ ~ Uses(page[w], p)
                                   THEN c.operations[p].count + 1
                                   ELSE IF Uses(page[w], p) /\ ~ Uses(q, p)
                                   THEN c.operations[p].count - 1
                                   ELSE c.operations[p].count
    BY <1>3, <2>2
  <2>9. \A p \in DOMAIN c.operations \cap DOMAIN k.operations :
           c.operations[p].request = 0 /\ Uses(q, p) => Uses(page[w], p)
    BY <1>3
  <2>10. \A p \in DOMAIN c.operations \ DOMAIN k.operations :
            \A v \in Windows \ {w} : ~ Uses(page[v], p)
    BY <2>2, <2>4
  <2>11. \A p \in DOMAIN k.operations \ DOMAIN c.operations :
            k.operations[p].count = 1 /\ Uses(q, p)
    BY <2>2
  <2>12. Joined(c, page)
    BY <1>1
  <2>13. /\ Joined(k, [page EXCEPT ![w] = q])
         /\ \A v \in Windows \ {w} : Begun(page[v], k) = Begun(page[v], c)
    BY <2>5, <2>6, <2>7, <2>8, <2>9, <2>10, <2>11, <2>12, StepJoined
  <2>14. \A L : Remembers(k, c, L)
    BY <2>2, <2>3 DEF Remembers
  <2>15. QED
    BY <1>3, <2>7, <2>13, <2>14 DEF k
<1>6. QED
  BY <1>2, <1>4, <1>5 DEF Expire, EraseLocked, k

\* What two calls after each other remember.
LEMMA RemembersBoth ==
    ASSUME NEW x, NEW y, NEW z, \A L : Remembers(y, x, L), \A L : Remembers(z, y, L)
    PROVE  \A L : Remembers(z, x, L)
<1>1. Remembers(y, x, {}) /\ Remembers(z, y, {})
  OBVIOUS
<1>2. Remembers(z, x, {})
  BY <1>1 DEF Remembers
<1>3. QED
  BY <1>2 DEF Remembers

\* A continuation ends, and the page takes up what it has postponed.
LEMMA FinishStep ==
    ASSUME BarrierInv, NEW w \in Windows, FinishContinuation(w)
    PROVE  BarrierInv'
<1> DEFINE pg == page[w]
           done == [Advance(pg, "release") EXCEPT !.busy = FALSE]
           settled == [done EXCEPT !.reconcile = FALSE]
           again == [settled EXCEPT !.busy = TRUE]
           taken == [[done EXCEPT !.queued = 0] EXCEPT !.busy = TRUE]
           K(b) == IF b THEN Expire(c, Top(w).op) ELSE c
<1>1. /\ Joined(c, page) /\ page \in [Windows -> Pages] /\ Fits(pg, c) /\ pg \in Pages
      /\ inbox \in [Windows -> Seq(Messages)] /\ inbox[w] \in Seq(Messages)
      /\ Claimed /\ lapsed \subseteq Requests
      /\ published \subseteq Operations /\ Ordered(pg, c, inbox[w], issued)
      /\ calls \in 0..MaxCalls /\ issued \in Nat
  BY WindowIs
<1>2. PICK b \in BOOLEAN :
        /\ IF b THEN Top(w).request = 0 /\ Call ELSE UNCHANGED calls
        /\ IF done.queued # 0
           THEN RestartAgentStack(w, [done EXCEPT !.queued = 0], K(b), done.queued)
           ELSE \/ BeginRetirement(w, again, K(b), 0)
                \/ page' = [page EXCEPT ![w] = settled] /\ c' = K(b) /\ UNCHANGED published
  BY DEF FinishContinuation
<1>3. /\ pg.stack # <<>> /\ Top(w).phase = "finish" /\ (b => Top(w).request = 0)
      /\ calls' \in 0..MaxCalls /\ UNCHANGED <<inbox, issued, attempts, lapsed>>
  BY <1>1, <1>2 DEF FinishContinuation, Call
<1> DEFINE t == [pg.stack EXCEPT ![1].phase = "release"]
<1>4. t \in Seq(Frames)
  <2> DEFINE f == pg.stack[1]
  <2>1. pg.stack \in Seq(Frames)
    BY <1>1, PageIs
  <2>2. 1 \in 1..Len(pg.stack)
    BY <1>3, <2>1, EmptySeq, LenProperties
  <2>3. [f EXCEPT !.phase = "release"] \in Frames
    <3>1. f \in Frames
      BY <1>1, <2>2, PageIs
    <3>2. QED
      BY <3>1 DEF Frames
  <2>4. t = [pg.stack EXCEPT ![1] = [f EXCEPT !.phase = "release"]]
    OBVIOUS
  <2> HIDE DEF f
  <2>5. QED
    BY <2>1, <2>2, <2>3, <2>4, ExceptSeq
<1> HIDE DEF t
<1>5. Advance(pg, "release") = [pg EXCEPT !.stack = t] /\ Advance(pg, "release").stack = t
  BY <1>1 DEF Advance, Pages, t
<1>6. /\ done \in Pages /\ done.stack = t /\ done.pending = pg.pending /\ done.queued = pg.queued
      /\ ~ done.busy
  BY <1>1, <1>4, <1>5 DEF Pages
<1> HIDE DEF done
<1>7. /\ settled \in Pages /\ settled.stack = t /\ settled.pending = pg.pending
      /\ settled.queued = pg.queued
  BY <1>6 DEF Pages
<1>8. /\ taken \in Pages /\ taken.stack = t /\ taken.pending = pg.pending
      /\ taken.queued = 0 /\ taken.busy
  BY <1>6 DEF Pages
<1> HIDE DEF settled
<1>9. /\ again \in Pages /\ again.stack = t /\ again.pending = pg.pending
      /\ again.queued = pg.queued /\ again.busy
  BY <1>7 DEF Pages
<1> HIDE DEF taken, again
<1> DEFINE k == K(b)
<1>10. ASSUME NEW q \in Pages, q.stack = t, q.pending = pg.pending
       PROVE  /\ Joined(k, [page EXCEPT ![w] = q]) /\ q.pending = 0
              /\ \A i \in 1..Len(q.stack) : q.stack[i].phase = "release"
              /\ Begun(q, k) = Begun(pg, c)
              /\ \A v \in Windows \ {w} : Begun(page[v], k) = Begun(page[v], c)
              /\ \A L : Remembers(k, c, L)
  <2>1. q.stack = Advance(page[w], "release").stack /\ q.pending = page[w].pending
    BY <1>5, <1>10
  <2>3. page[w].stack # <<>> /\ Top(w).phase = "finish" /\ (b => Top(w).request = 0)
    BY <1>3
  <2>4. QED
    BY <1>10, <2>1, <2>3, DoneJoined
<1> HIDE DEF k
<1>11. \A i \in 1..Len(inbox[w]) : inbox[w][i].kind = "restart" => 0 < inbox[w][i].id
  <2>1. \A i \in 1..Len(inbox[w]) : inbox[w][i] \in Messages
    BY <1>1, ElementOfSeq
  <2>2. \A m \in Messages : m.kind = "restart" => 0 < m.id
    BY DEF Messages, Requests
  <2>3. QED
    BY <2>1, <2>2
<1>12. ASSUME NEW q \in Pages, q.stack = t, q.pending = pg.pending, q.queued = 0, q.busy,
              NEW r \in {0} \cup Requests, r # 0 => r \notin Begun(pg, c), r <= issued,
              \A i \in 1..Len(inbox[w]) : inbox[w][i].kind = "restart" => r < inbox[w][i].id,
              BeginRetirement(w, q, k, r)
       PROVE  BarrierInv'
  <2>1. /\ Joined(k, [page EXCEPT ![w] = q]) /\ q.pending = 0
        /\ \A i \in 1..Len(q.stack) : q.stack[i].phase = "release"
        /\ Begun(q, k) = Begun(pg, c)
        /\ \A v \in Windows \ {w} : Begun(page[v], k) = Begun(page[v], c)
        /\ \A L : Remembers(k, c, L)
    BY <1>10, <1>12
  <2>2. r # 0 => r \notin Begun(q, k)
    BY <1>12, <2>1
  <2>3. page \in [Windows -> Pages] /\ published \subseteq Operations
    BY <1>1
  <2>4. /\ Joined(c', page') /\ published' \subseteq Operations
        /\ page'[w].queued = q.queued /\ Begun(page'[w], c') = Begun(q, k) \cup {r}
        /\ \A v \in Windows \ {w} :
              page'[v] = page[v] /\ Begun(page'[v], c') = Begun(page[v], k)
        /\ \A L : Remembers(c', k, L)
    BY <1>12, <2>1, <2>2, <2>3, BeginJoined
  <2>5. \A L : Remembers(c', c, L)
    BY <2>1, <2>4, RemembersBoth
  <2>6. Claimed'
    BY <1>1, <1>3, <2>5, ClaimedKept
  <2>7. Ordered(page'[w], c', inbox[w], issued)
    <3>1. Begun(page'[w], c') = Begun(pg, c) \cup {r} /\ page'[w].queued = 0
      BY <1>12, <2>1, <2>4
    <3>2. \A x \in Begun(page'[w], c') :
             /\ x <= issued
             /\ \A i \in 1..Len(inbox[w]) : inbox[w][i].kind = "restart" => x < inbox[w][i].id
      BY <1>1, <1>12, <3>1 DEF Ordered
    <3>3. QED
      BY <1>1, <1>11, <3>1, <3>2 DEF Ordered
  <2>8. \A v \in Windows \ {w} : page'[v] = page[v] /\ Begun(page'[v], c') = Begun(page[v], c)
    BY <2>1, <2>4
  <2>9. QED
    BY <1>1, <1>3, <2>4, <2>6, <2>7, <2>8, WindowStep
<1>13. CASE done.queued # 0
  <2> DEFINE r == done.queued
  <2>1. BeginRetirement(w, taken, k, r)
    <3>1. RestartAgentStack(w, [done EXCEPT !.queued = 0], k, r)
      BY <1>2, <1>13 DEF k
    <3>2. ~ [done EXCEPT !.queued = 0].busy
      BY <1>6 DEF Pages
    <3>3. QED
      BY <3>1, <3>2 DEF RestartAgentStack, taken
  <2>2. r \in Requests /\ r = pg.queued
    BY <1>1, <1>6, <1>13, PageIs
  <2> HIDE DEF r
  <2>3. /\ r <= issued /\ r \notin Begun(pg, c)
        /\ \A i \in 1..Len(inbox[w]) : inbox[w][i].kind = "restart" => r < inbox[w][i].id
    <3>1. r # 0 /\ r \in Nat
      BY <2>2 DEF Requests
    <3>2. QED
      BY <1>1, <2>2, <3>1 DEF Ordered
  <2>4. QED
    BY <1>8, <1>12, <2>1, <2>2, <2>3
<1>14. CASE done.queued = 0 /\ BeginRetirement(w, again, k, 0)
  <2>1. again.queued = 0 /\ 0 <= issued
    BY <1>1, <1>6, <1>9, <1>14
  <2>2. QED
    BY <1>9, <1>11, <1>12, <1>14, <2>1
<1>15. CASE /\ done.queued = 0
            /\ page' = [page EXCEPT ![w] = settled] /\ c' = k /\ UNCHANGED published
  <2>1. /\ Joined(k, [page EXCEPT ![w] = settled])
        /\ Begun(settled, k) = Begun(pg, c)
        /\ \A v \in Windows \ {w} : Begun(page[v], k) = Begun(page[v], c)
        /\ \A L : Remembers(k, c, L)
    BY <1>7, <1>10
  <2>2. page'[w] = settled /\ \A v \in Windows \ {w} : page'[v] = page[v]
    BY <1>1, <1>15
  <2>3. Claimed'
    BY <1>1, <1>3, <1>15, <2>1, ClaimedKept
  <2>4. Ordered(settled, k, inbox[w], issued)
    BY <1>1, <1>6, <1>7, <1>15, <2>1, OrderedKept
  <2>5. QED
    BY <1>1, <1>3, <1>15, <2>1, <2>2, <2>3, <2>4, WindowStep
<1>16. QED
  BY <1>2, <1>13, <1>14, <1>15 DEF k

-----------------------------------------------------------------------------
(* The steps outside the pages, and the theorems. *)

\* A message is dispatched to every window that is open.
LEMMA DispatchStep ==
    ASSUME BarrierInv, NEW m \in Messages, Dispatch(m), NEW n \in Nat, issued <= n,
           m.kind = "restart" => issued < m.id /\ m.id <= n
    PROVE  /\ inbox' \in [Windows -> Seq(Messages)]
           /\ \A w \in Windows : Ordered(page[w], c, inbox'[w], n)
<1>1. ASSUME NEW w \in Windows
      PROVE  inbox'[w] \in Seq(Messages) /\ Ordered(page[w], c, inbox'[w], n)
  <2> DEFINE in == inbox[w]
             pg == page[w]
             t == Append(in, m)
  <2>1. in \in Seq(Messages) /\ Ordered(pg, c, in, issued) /\ issued \in Nat /\ pg \in Pages
        /\ Len(in) \in Nat /\ Fits(pg, c) /\ c \in Coordinators
    BY WindowIs, LenProperties
  <2>2. inbox'[w] = IF pg.open THEN t ELSE in
    BY DEF Dispatch
  <2>3. /\ pg.queued \in Nat /\ \A r \in Begun(pg, c) : r \in Nat
    <3>1. {0} \cup Requests \subseteq Nat
      BY DEF Requests
    <3>2. \A r \in Begun(pg, c) : r \in {0} \cup Requests
      <4>1. \A i \in 1..Len(pg.stack) : pg.stack[i].request \in {0} \cup Requests
        BY <2>1, PageIs
      <4>2. pg.pending # 0 => c.operations[pg.pending].request \in {0} \cup Requests
        <5>1. pg.pending # 0 => c.operations[pg.pending] \in Retirement
          BY <2>1, CoordinatorIs DEF Fits, Backed
        <5>2. QED
          BY <5>1 DEF Retirement
      <4>3. QED
        BY <4>1, <4>2 DEF Begun
    <3>3. QED
      BY <2>1, <3>1, <3>2, PageIs
  <2>4. \A i \in 1..Len(in) : in[i].kind = "restart" => in[i].id \in Nat
    <3>1. \A i \in 1..Len(in) : in[i] \in Messages
      BY <2>1, ElementOfSeq
    <3>2. \A x \in Messages : x.kind = "restart" => x.id \in Nat
      BY DEF Messages, Requests
    <3>3. QED
      BY <3>1, <3>2
  <2>5. m.kind = "restart" => m.id \in Nat
    BY DEF Messages, Requests
  <2> HIDE DEF in, pg
  <2>6. Ordered(pg, c, in, n)
    BY <2>1, <2>3, <2>4 DEF Ordered
  <2>7. /\ t \in Seq(Messages) /\ Len(t) = Len(in) + 1 /\ t[Len(in) + 1] = m
        /\ \A i \in 1..Len(in) : t[i] = in[i]
    BY <2>1, AppendProperties
  <2> HIDE DEF t
  <2>8. \A i \in 1..Len(t) : i \in 1..Len(in) \/ (i = Len(in) + 1 /\ t[i] = m)
    BY <2>1, <2>7
  <2>9. \A i \in 1..Len(in) : in[i].kind = "restart" => in[i].id <= issued
    BY <2>1 DEF Ordered
  <2>10. m.kind = "restart" =>
            /\ m.id <= n /\ pg.queued < m.id /\ (\A r \in Begun(pg, c) : r < m.id)
            /\ \A i \in 1..Len(in) : in[i].kind = "restart" => in[i].id < m.id
    BY <2>1, <2>3, <2>4, <2>5, <2>9 DEF Ordered
  <2>11. ASSUME NEW i \in 1..Len(t), t[i].kind = "restart"
         PROVE  /\ t[i].id <= n /\ pg.queued < t[i].id /\ \A r \in Begun(pg, c) : r < t[i].id
                /\ \A j \in 1..Len(t) : t[j].kind = "restart" /\ i < j => t[i].id < t[j].id
    <3>1. CASE i \in 1..Len(in)
      <4>1. t[i] = in[i]
        BY <2>7, <3>1
      <4>2. t[i].id <= n /\ pg.queued < t[i].id /\ \A r \in Begun(pg, c) : r < t[i].id
        BY <2>6, <2>11, <3>1, <4>1 DEF Ordered
      <4>3. ASSUME NEW j \in 1..Len(t), t[j].kind = "restart", i < j PROVE t[i].id < t[j].id
        <5>1. CASE j \in 1..Len(in)
          BY <2>6, <2>7, <2>11, <3>1, <4>1, <4>3, <5>1 DEF Ordered
        <5>2. CASE j = Len(in) + 1 /\ t[j] = m
          BY <2>10, <2>11, <3>1, <4>1, <4>3, <5>2
        <5>3. QED
          BY <2>8, <5>1, <5>2
      <4>4. QED
        BY <4>2, <4>3
    <3>2. CASE i = Len(in) + 1 /\ t[i] = m
      <4>1. \A j \in 1..Len(t) : ~ (i < j)
        BY <2>1, <2>7, <3>2
      <4>2. QED
        BY <2>10, <2>11, <3>2, <4>1
    <3>3. QED
      BY <2>8, <3>1, <3>2
  <2>12. Ordered(pg, c, t, n)
    BY <2>6, <2>7, <2>11 DEF Ordered
  <2>13. QED
    BY <2>1, <2>2, <2>6, <2>7, <2>12 DEF in, pg
<1>2. inbox' \in [Windows -> Seq(Messages)]
  BY <1>1 DEF Dispatch
<1>3. QED
  BY <1>1, <1>2

\* A new /restart reaches the pages.
LEMMA RequestStep ==
    ASSUME BarrierInv, RequestRestart
    PROVE  BarrierInv'
<1> DEFINE m == [kind |-> "restart", id |-> issued + 1]
<1>1. issued \in Nat /\ issued < MaxRequests /\ calls \in 0..MaxCalls
  BY DEF BarrierInv, RequestRestart
<1>2. /\ issued' = issued + 1 /\ issued' \in 0..MaxRequests /\ issued' \in Nat /\ issued <= issued'
      /\ Dispatch(m) /\ calls' \in 0..MaxCalls
      /\ UNCHANGED <<c, page, published, attempts, lapsed>>
  BY <1>1 DEF RequestRestart, Call
<1>3. m \in Messages /\ m.id = issued + 1
  BY <1>1 DEF Messages, Requests
<1>4. issued < m.id /\ m.id <= issued'
  BY <1>1, <1>2, <1>3
<1> HIDE DEF m
<1>5. /\ inbox' \in [Windows -> Seq(Messages)]
      /\ \A w \in Windows : Ordered(page[w], c, inbox'[w], issued')
  BY <1>2, <1>3, <1>4, DispatchStep
<1>6. QED
  BY <1>2, <1>5 DEF BarrierInv, Claimed

\* The master answers.
LEMMA AnswerStep ==
    ASSUME BarrierInv, NEW o \in Operations, Retired(o)
    PROVE  BarrierInv'
<1> DEFINE m == [kind |-> "retired", id |-> o]
<1>1. issued \in Nat /\ issued <= issued
  BY DEF BarrierInv
<1>2. /\ Dispatch(m) /\ published' = published \ {o}
      /\ UNCHANGED <<calls, c, page, issued, attempts, lapsed>>
  BY DEF Retired
<1>3. m \in Messages /\ m.kind # "restart"
  BY DEF Messages
<1> HIDE DEF m
<1>4. /\ inbox' \in [Windows -> Seq(Messages)]
      /\ \A w \in Windows : Ordered(page[w], c, inbox'[w], issued)
  BY <1>1, <1>2, <1>3, DispatchStep
<1>5. QED
  BY <1>2, <1>4 DEF BarrierInv, Claimed

\* The inductive invariant holds at the start.
LEMMA BarrierInit == Init => BarrierInv
<1> SUFFICES ASSUME Init PROVE BarrierInv
  OBVIOUS
<1>1. /\ c = [next |-> 0, operations |-> <<>>, byRequest |-> <<>>, history |-> <<>>]
      /\ c.next = 0 /\ c.operations = <<>> /\ c.byRequest = <<>> /\ c.history = <<>>
  BY DEF Init
<1>2. DOMAIN c.operations = {} /\ DOMAIN c.byRequest = {} /\ Len(c.history) = 0
  BY <1>1
<1>3. c \in Coordinators
  <2>1. <<>> \in Tables(Operations, Retirement) /\ <<>> \in Tables(Requests, Operations)
    <3>1. <<>> = [x \in DOMAIN <<>> |-> <<>>[x]] /\ DOMAIN <<>> = {}
      OBVIOUS
    <3>2. QED
      BY <3>1, TableIs
  <2>2. QED
    BY <1>1, <2>1 DEF Coordinators
<1>4. Coherent(c)
  BY <1>2, <1>3 DEF Coherent, Indexed, Listed
<1> DEFINE pg == [open |-> TRUE, busy |-> FALSE, reconcile |-> FALSE,
                  pending |-> 0, queued |-> 0, stack |-> <<>>]
<1>5. page = [w \in Windows |-> pg] /\ pg \in Pages
  BY DEF Init, Pages
<1>6. pg.stack = <<>> /\ pg.pending = 0 /\ pg.queued = 0 /\ Len(pg.stack) = 0
  OBVIOUS
<1> HIDE DEF pg
<1>7. page \in [Windows -> Pages] /\ \A w \in Windows : page[w] = pg
  BY <1>5
<1>8. Fits(pg, c)
  BY <1>5, <1>6 DEF Fits, Shaped, Backed
<1>9. Begun(pg, c) = {}
  BY <1>6, <1>8, IdleResult
<1>10. Joined(c, page)
  BY <1>2, <1>4, <1>7, <1>8 DEF Joined, Counts
<1>11. /\ inbox \in [Windows -> Seq(Messages)] /\ \A w \in Windows : inbox[w] = <<>>
       /\ issued = 0 /\ published = {} /\ calls = 0 /\ lapsed = {}
       /\ attempts \in [Requests -> Nat] /\ \A r \in Requests : attempts[r] = 0
  BY DEF Init
<1>12. ASSUME NEW w \in Windows PROVE Ordered(page[w], c, inbox[w], issued)
  <2>1. inbox[w] = <<>> /\ Len(inbox[w]) = 0 /\ inbox[w] \in Seq(Messages)
    BY <1>11
  <2>2. QED
    BY <1>6, <1>7, <1>9, <1>11, <2>1 DEF Ordered
<1>13. Claimed
  BY <1>2, <1>11 DEF Claimed
<1>14. QED
  BY <1>10, <1>11, <1>12, <1>13 DEF BarrierInv

\* Every step keeps the inductive invariant.
LEMMA BarrierNext ==
    ASSUME BarrierInv, [Next]_vars
    PROVE  BarrierInv'
<1>1. CASE UNCHANGED vars
  BY <1>1 DEF vars, BarrierInv, Claimed
<1>2. ASSUME NEW w \in Windows, PageStep(w) PROVE BarrierInv'
  BY <1>2, RestartRequestedStep, SessionsRetiredStep, TimeoutStep, ClaimStep, FinishStep, EndStep
     DEF PageStep
<1>3. QED
  BY <1>1, <1>2, ReconcileStep, CloseStep, RequestStep, AnswerStep DEF Next

\* The inductive invariant holds in every state: the coordinator is coherent, and
\* counts exactly the pages that use each operation.
THEOREM BarrierInvariant == Spec => []BarrierInv
<1>1. Init => BarrierInv
  BY BarrierInit
<1>2. BarrierInv /\ [Next]_vars => BarrierInv'
  BY BarrierNext
<1>3. QED
  BY <1>1, <1>2, PTL DEF Spec

\* The coordinator, the pages and their messages keep their types.
THEOREM BarrierTypeCorrect == Spec => []TypeOK
<1>1. ASSUME BarrierInv PROVE TypeOK
  <2>1. /\ Coherent(c) /\ c \in Coordinators /\ Indexed(c) /\ page \in [Windows -> Pages]
        /\ inbox \in [Windows -> Seq(Messages)]
        /\ published \subseteq Operations /\ calls \in 0..MaxCalls /\ issued \in 0..MaxRequests
        /\ attempts \in [Requests -> Nat] /\ lapsed \subseteq Requests
    BY <1>1 DEF BarrierInv, Joined, Coherent, Claimed
  <2>2. /\ c.next \in 0..MaxOperations /\ c.history \in Seq(Operations)
        /\ DOMAIN c.operations \subseteq Operations
        /\ \A o \in DOMAIN c.operations : c.operations[o] \in Retirement
        /\ DOMAIN c.byRequest \subseteq Requests
    BY <2>1, CoordinatorIs
  <2>3. \A r \in DOMAIN c.byRequest : c.byRequest[r] \in DOMAIN c.operations
    BY <2>1 DEF Indexed
  <2>4. ASSUME NEW w \in Windows
        PROVE  /\ page[w].open \in BOOLEAN /\ page[w].busy \in BOOLEAN
               /\ page[w].reconcile \in BOOLEAN
               /\ page[w].pending \in {0} \cup Operations
               /\ page[w].queued \in {0} \cup Requests
               /\ page[w].stack \in Seq(Frames)
               /\ inbox[w] \in Seq([kind : {"restart"}, id : Requests]
                                   \cup [kind : {"retired"}, id : Operations])
    <3>1. page[w] \in Pages /\ inbox[w] \in Seq(Messages)
      BY <2>1
    <3>2. QED
      BY <3>1, PageIs DEF Messages
  <2>5. QED
    BY <2>1, <2>2, <2>3, <2>4 DEF TypeOK
<1>2. BarrierInv => TypeOK
  BY <1>1
<1>3. QED
  BY <1>2, BarrierInvariant, PTL

\* The coordinator knows each operation exactly as long as a page or the history
\* needs it, whatever the pages do between two of its calls.
THEOREM OperationsAccountedAlways == Spec => []OperationsAccounted
<1>1. ASSUME BarrierInv PROVE OperationsAccounted
  <2>1. /\ Coherent(c) /\ Listed(c) /\ Counts(c, page) /\ \A w \in Windows : Fits(page[w], c)
    BY <1>1 DEF BarrierInv, Joined, Coherent
  <2>2. \A w \in Windows : page[w].pending # 0 => page[w].pending \in DOMAIN c.operations
    BY <2>1 DEF Fits, Backed
  <2>3. ASSUME NEW o \in DOMAIN c.operations
        PROVE  /\ c.operations[o].count = Cardinality(Users(o))
               /\ c.operations[o].count = 0 <=> \E i \in 1..Len(c.history) : c.history[i] = o
    <3>1. UsersIn(page, o) = Users(o)
      BY DEF UsersIn, Users, Uses
    <3>2. c.operations[o].count = Cardinality(UsersIn(page, o))
      BY <2>1 DEF Counts
    <3>3. Settled(c.operations[o])
      BY <2>1 DEF Coherent
    <3>4. c.operations[o].count = 0 <=> \E i \in 1..Len(c.history) : c.history[i] = o
      BY <2>1, <3>3 DEF Listed, Settled, Sane
    <3>5. QED
      BY <3>1, <3>2, <3>4
  <2>4. Len(c.history) <= HistoryLimit
    BY <2>1 DEF Listed
  <2>5. QED
    BY <2>2, <2>3, <2>4 DEF OperationsAccounted
<1>2. BarrierInv => OperationsAccounted
  BY <1>1
<1>3. QED
  BY <1>2, BarrierInvariant, PTL

\* However many windows take part and in whatever order they do, one /restart
\* restarts the master once, unless it timed out or has been forgotten.
THEOREM RestartedOnceAlways == Spec => []RestartedOnce
<1>1. BarrierInv => RestartedOnce
  BY DEF BarrierInv, Claimed, RestartedOnce
<1>2. QED
  BY <1>1, BarrierInvariant, PTL
=============================================================================
