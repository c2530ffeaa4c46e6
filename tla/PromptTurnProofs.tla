-------------------------- MODULE PromptTurnProofs --------------------------
(***************************************************************************)
(* Proofs about PromptTurn: type correctness, its three safety invariants  *)
(* and its refinement of PromptFlight, for every value of the constants.   *)
(*                                                                         *)
(* An operation of the App is a composition of operators on its record, so *)
(* the inductive invariant is stated of any such record a and of the       *)
(* events e still to be handled, and each operator has a lemma saying what *)
(* it preserves.  An action of the App "Proceeds": it keeps the invariant, *)
(* starts at most the front of the queue and leaves the tasks alone.  An   *)
(* action of the client "Serves": it keeps the invariant, leaves the queue *)
(* alone, starts nothing and takes nothing back.  The invariant and the    *)
(* refinement are both read off these, action by action.                   *)
(*                                                                         *)
(* Order: queues and sequences; the invariant; relations between records;  *)
(* operators of the App; its actions; handlers of events; the transport;   *)
(* the client's tasks; the theorems.                                       *)
(***************************************************************************)
EXTENDS PromptTurn, FiniteSetTheorems, SequenceTheorems, WellFoundedInduction, TLAPS

-----------------------------------------------------------------------------
(* Filtering a queue. *)

\* A set of naturals has a least element.
LEMMA LeastElement ==
    ASSUME NEW T, T \subseteq Nat, T # {}
    PROVE  \E n \in T : \A m \in T : n <= m
<1>1. PICK n \in T : \A m \in T : ~ (<<m, n>> \in OpToRel(<, Nat))
  BY NatLessThanWellFounded, WFMin, Zenon
<1>2. \A m \in T : ~ (m < n)
  BY <1>1 DEF OpToRel
<1>3. QED
  BY <1>2

\* One step of filtering a queue.
KeptNext(q, gone, p, i) == IF q[i] \in gone THEN p ELSE Append(p, q[i])
KeptSteps(q, gone, f, n) ==
    f[0] = <<>> /\ \A i \in 1..n : f[i] = KeptNext(q, gone, f[i - 1], i)

\* The filtered prefixes of a queue exist.
LEMMA KeptExists ==
    ASSUME NEW S, NEW q \in Seq(S), NEW gone
    PROVE  \E f \in [0..Len(q) -> Seq(S)] : KeptSteps(q, gone, f, Len(q))
<1> DEFINE P(n) == \E f \in [0..n -> Seq(S)] : KeptSteps(q, gone, f, n)
           Bad == {n \in 0..Len(q) : ~P(n)}
<1>0. Len(q) \in Nat
  OBVIOUS
<1>1. P(0)
  <2>1. [i \in 0..0 |-> <<>>] \in [0..0 -> Seq(S)]
    OBVIOUS
  <2>2. KeptSteps(q, gone, [i \in 0..0 |-> <<>>], 0)
    BY DEF KeptSteps
  <2>3. QED
    BY <2>1, <2>2
<1>2. ASSUME NEW n \in 1..Len(q), P(n - 1) PROVE P(n)
  <2>1. PICK f \in [0..(n - 1) -> Seq(S)] : KeptSteps(q, gone, f, n - 1)
    BY <1>2
  <2> DEFINE g == [i \in 0..n |-> IF i = n THEN KeptNext(q, gone, f[n - 1], n) ELSE f[i]]
  <2>2. n \in Nat /\ n - 1 \in Nat /\ n - 1 \in 0..(n - 1) /\ q[n] \in S
    BY <1>0
  <2>3. f[n - 1] \in Seq(S)
    BY <2>2
  <2>4. KeptNext(q, gone, f[n - 1], n) \in Seq(S)
    BY <2>2, <2>3 DEF KeptNext
  <2>5. g \in [0..n -> Seq(S)]
    BY <2>2, <2>4
  <2>6. g[0] = <<>>
    BY <2>1, <2>2 DEF KeptSteps
  <2>7. ASSUME NEW i \in 1..n PROVE g[i] = KeptNext(q, gone, g[i - 1], i)
    <3>1. g[i - 1] = f[i - 1] /\ i - 1 \in 0..n /\ i \in 0..n
      BY <2>2
    <3>2. CASE i = n
      BY <3>1, <3>2
    <3>3. CASE i # n
      <4>1. i \in 1..(n - 1)
        BY <3>3, <2>2
      <4>2. QED
        BY <4>1, <2>1, <3>1, <3>3 DEF KeptSteps
    <3>4. QED
      BY <3>2, <3>3
  <2>8. KeptSteps(q, gone, g, n)
    BY <2>6, <2>7 DEF KeptSteps
  <2>9. QED
    BY <2>5, <2>8
<1>3. Bad = {}
  <2> HIDE DEF P
  <2>1. SUFFICES ASSUME Bad # {} PROVE FALSE
    OBVIOUS
  <2>2. PICK n \in Bad : \A m \in Bad : n <= m
    <3>1. Bad \subseteq Nat
      BY <1>0
    <3>2. QED
      BY <2>1, <3>1, LeastElement
  <2>3. n \in 1..Len(q) /\ n - 1 \in 0..Len(q)
    BY <1>0, <1>1
  <2>4. P(n - 1)
    BY <2>2, <2>3
  <2>5. QED
    BY <1>2, <2>3, <2>4
<1>4. P(Len(q))
  <2> HIDE DEF P
  <2>1. QED
    BY <1>0, <1>3
<1>5. QED
  BY <1>4

\* What Kept returns is the last of these prefixes.
LEMMA KeptIsLast ==
    ASSUME NEW S, NEW q \in Seq(S), NEW gone
    PROVE  \E f \in [0..Len(q) -> Seq(S)] :
              KeptSteps(q, gone, f, Len(q)) /\ Kept(q, gone) = f[Len(q)]
<1> DEFINE N == Len(q)
           body(f) == [i \in 0..N |-> IF i = 0 THEN <<>> ELSE IF q[i] \in gone THEN f[i - 1]
                                      ELSE Append(f[i - 1], q[i])]
           kept == CHOOSE f : f = body(f)
<1>0. N \in Nat
  OBVIOUS
<1>1. PICK g \in [0..N -> Seq(S)] : KeptSteps(q, gone, g, N)
  BY KeptExists
<1>2. g = body(g)
  <2>1. ASSUME NEW i \in 0..N PROVE g[i] = body(g)[i]
    <3>1. CASE i = 0
      BY <1>0, <1>1, <3>1 DEF KeptSteps
    <3>2. CASE i # 0
      <4>1. i \in 1..N
        BY <1>0, <3>2
      <4>2. g[i] = KeptNext(q, gone, g[i - 1], i)
        BY <1>1, <4>1 DEF KeptSteps
      <4>3. QED
        BY <4>2, <3>2 DEF KeptNext
    <3>3. QED
      BY <3>1, <3>2
  <2>2. QED
    BY <2>1
<1>3. kept = body(kept)
  BY <1>2
<1>4. Kept(q, gone) = kept[N]
  BY DEF Kept
<1>5. kept[0] = <<>> /\ DOMAIN kept = 0..N
  <2> HIDE DEF kept
  <2>1. QED
    BY <1>0, <1>3
<1>6. KeptSteps(q, gone, kept, N)
  <2> HIDE DEF kept
  <2>1. ASSUME NEW i \in 1..N PROVE kept[i] = KeptNext(q, gone, kept[i - 1], i)
    <3>1. i \in 0..N /\ i # 0
      BY <1>0
    <3>2. body(kept)[i] = IF q[i] \in gone THEN kept[i - 1] ELSE Append(kept[i - 1], q[i])
      BY <3>1
    <3>3. QED
      BY <1>3, <3>2 DEF KeptNext
  <2>2. QED
    BY <1>5, <2>1 DEF KeptSteps
<1>7. kept \in [0..N -> Seq(S)]
  <2> DEFINE Bad == {n \in 0..N : kept[n] \notin Seq(S)}
  <2> HIDE DEF kept
  <2>1. Bad = {}
    <3>1. SUFFICES ASSUME Bad # {} PROVE FALSE
      OBVIOUS
    <3>2. PICK n \in Bad : \A m \in Bad : n <= m
      <4>1. Bad \subseteq Nat
        BY <1>0
      <4>2. QED
        BY <3>1, <4>1, LeastElement
    <3>0. n # 0
      BY <1>5
    <3>3. n \in 1..N /\ n - 1 \in 0..N /\ q[n] \in S
      BY <1>0, <3>0
    <3>4. kept[n - 1] \in Seq(S)
      BY <3>2, <3>3
    <3>5. kept[n] \in Seq(S)
      <4>1. kept[n] = KeptNext(q, gone, kept[n - 1], n)
        BY <1>6, <3>3 DEF KeptSteps
      <4>2. QED
        BY <3>3, <3>4, <4>1 DEF KeptNext
    <3>6. QED
      BY <3>5
  <2>2. QED
    BY <2>1, <1>3
<1>8. QED
  BY <1>4, <1>6, <1>7

\* p is what a queue q has left: in its order.
Thins(q, p) ==
    /\ Len(p) <= Len(q)
    /\ \A c, d \in 1..Len(p) : c < d =>
          \E i, j \in 1..Len(q) : i < j /\ q[i] = p[c] /\ q[j] = p[d]

\* Filtering keeps what is not named, and its order.
LEMMA KeptProperties ==
    ASSUME NEW S, NEW q \in Seq(S), NEW gone
    PROVE  /\ Kept(q, gone) \in Seq(S)
           /\ ToSet(Kept(q, gone)) = ToSet(q) \ gone
           /\ Thins(q, Kept(q, gone))
<1>1. PICK f \in [0..Len(q) -> Seq(S)] :
         KeptSteps(q, gone, f, Len(q)) /\ Kept(q, gone) = f[Len(q)]
  BY KeptIsLast
<1> DEFINE N == Len(q)
           Good(n) == /\ Len(f[n]) <= n
                      /\ \A c \in 1..Len(f[n]) : \E i \in 1..n : q[i] = f[n][c] /\ q[i] \notin gone
                      /\ \A i \in 1..n : q[i] \notin gone => \E c \in 1..Len(f[n]) : q[i] = f[n][c]
                      /\ \A c, d \in 1..Len(f[n]) : c < d =>
                            \E i, j \in 1..n : i < j /\ q[i] = f[n][c] /\ q[j] = f[n][d]
           Bad == {n \in 0..N : ~Good(n)}
<1>0. N \in Nat /\ DOMAIN q = 1..N
  OBVIOUS
<1>2. Good(0)
  BY <1>1 DEF KeptSteps
<1>3. ASSUME NEW n \in 1..N, Good(n - 1) PROVE Good(n)
  <2> DEFINE p == f[n - 1]
             m == n - 1
  <2>1. n \in Nat /\ m \in Nat /\ m \in 0..N /\ q[n] \in S /\ n = m + 1
    BY <1>0
  <2>2. p \in Seq(S) /\ f[n] = KeptNext(q, gone, p, n)
    BY <1>1, <2>1 DEF KeptSteps
  <2>3. /\ Len(p) <= m
        /\ \A c \in 1..Len(p) : \E i \in 1..m : q[i] = p[c] /\ q[i] \notin gone
        /\ \A i \in 1..m : q[i] \notin gone => \E c \in 1..Len(p) : q[i] = p[c]
        /\ \A c, d \in 1..Len(p) : c < d =>
              \E i, j \in 1..m : i < j /\ q[i] = p[c] /\ q[j] = p[d]
    BY <1>3
  <2> HIDE DEF p, m
  <2>4. CASE q[n] \in gone
    <3>1. f[n] = p
      BY <2>2, <2>4 DEF KeptNext
    <3>2. QED
      BY <2>1, <2>2, <2>3, <2>4, <3>1, SMTT(60)
  <2>5. CASE q[n] \notin gone
    <3>1. f[n] = Append(p, q[n])
      BY <2>2, <2>5 DEF KeptNext
    <3>2. /\ Len(f[n]) = Len(p) + 1 /\ Len(p) \in Nat
          /\ \A c \in 1..Len(p) : f[n][c] = p[c]
          /\ f[n][Len(p) + 1] = q[n]
      <4>1. ASSUME NEW s \in Seq(S), NEW x \in S
            PROVE  /\ Len(Append(s, x)) = Len(s) + 1 /\ Len(s) \in Nat
                   /\ \A c \in 1..Len(s) : Append(s, x)[c] = s[c]
                   /\ Append(s, x)[Len(s) + 1] = x
        BY AppendProperties
      <4>2. p \in Seq(S) /\ q[n] \in S
        BY <2>1, <2>2
      <4>3. /\ Len(Append(p, q[n])) = Len(p) + 1 /\ Len(p) \in Nat
            /\ \A c \in 1..Len(p) : Append(p, q[n])[c] = p[c]
            /\ Append(p, q[n])[Len(p) + 1] = q[n]
        BY ONLY <4>1, <4>2
      <4>4. QED
        BY <3>1, <4>3
    <3> DEFINE g == f[n]
    <3> HIDE DEF g
    <3>3. Len(g) = Len(p) + 1 /\ (\A c \in 1..Len(p) : g[c] = p[c]) /\ g[Len(p) + 1] = q[n]
      BY <3>2 DEF g
    <3>4. Len(g) <= n
      BY <2>1, <2>3, <3>2, <3>3
    <3>5. ASSUME NEW c \in 1..Len(g) PROVE \E i \in 1..n : q[i] = g[c] /\ q[i] \notin gone
      <4>1. CASE c \in 1..Len(p)
        <5>1. PICK i \in 1..m : q[i] = p[c] /\ q[i] \notin gone
          BY <2>3, <4>1
        <5>2. i \in 1..n
          BY <2>1
        <5>3. QED
          BY <3>3, <4>1, <5>1, <5>2
      <4>2. CASE c = Len(p) + 1
        BY <2>1, <2>5, <3>3, <4>2
      <4>3. QED
        BY <3>2, <3>3, <4>1, <4>2
    <3>6. ASSUME NEW i \in 1..n, q[i] \notin gone PROVE \E c \in 1..Len(g) : q[i] = g[c]
      <4>1. CASE i = n
        BY <3>2, <3>3, <4>1
      <4>2. CASE i # n
        <5>1. i \in 1..m
          BY <2>1, <4>2
        <5>2. PICK c \in 1..Len(p) : q[i] = p[c]
          BY <2>3, <3>6, <5>1
        <5>3. c \in 1..Len(g)
          BY <3>2, <3>3
        <5>4. QED
          BY <3>3, <5>2, <5>3
      <4>3. QED
        BY <4>1, <4>2
    <3>7. ASSUME NEW c \in 1..Len(g), NEW d \in 1..Len(g), c < d
          PROVE  \E i, j \in 1..n : i < j /\ q[i] = g[c] /\ q[j] = g[d]
      <4>1. c \in 1..Len(p)
        BY <3>2, <3>3, <3>7
      <4>2. CASE d \in 1..Len(p)
        <5>1. PICK i, j \in 1..m : i < j /\ q[i] = p[c] /\ q[j] = p[d]
          BY <2>3, <3>7, <4>1, <4>2
        <5>2. i \in 1..n /\ j \in 1..n /\ g[c] = p[c] /\ g[d] = p[d]
          BY <2>1, <3>3, <4>1, <4>2
        <5>3. QED
          BY <5>1, <5>2
      <4>3. CASE d = Len(p) + 1
        <5>1. PICK i \in 1..m : q[i] = p[c]
          BY <2>3, <4>1
        <5>2. i \in 1..n /\ n \in 1..n /\ i < n /\ g[c] = p[c] /\ g[d] = q[n]
          BY <2>1, <3>3, <4>1, <4>3
        <5>3. QED
          BY <5>1, <5>2
      <4>4. QED
        BY <3>2, <3>3, <4>2, <4>3
    <3>8. QED
      BY <3>4, <3>5, <3>6, <3>7 DEF g
  <2>6. QED
    BY <2>4, <2>5
<1>4. Good(N)
  <2> HIDE DEF Good
  <2>1. SUFFICES ASSUME Bad # {} PROVE FALSE
    BY <1>0
  <2>2. PICK n \in Bad : \A m \in Bad : n <= m
    <3>1. Bad \subseteq Nat
      BY <1>0
    <3>2. QED
      BY <2>1, <3>1, LeastElement
  <2>3. n \in 1..N /\ n - 1 \in 0..N
    BY <1>0, <1>2
  <2>4. Good(n - 1)
    BY <2>2, <2>3
  <2>5. QED
    BY <1>3, <2>3, <2>4
<1>5. Kept(q, gone) \in Seq(S) /\ Kept(q, gone) = f[N]
  BY <1>0, <1>1
<1> DEFINE k == Kept(q, gone)
<1> HIDE DEF k
<1>6. /\ k \in Seq(S) /\ DOMAIN k = 1..Len(k) /\ Len(k) <= N
      /\ \A c \in 1..Len(k) : \E i \in 1..N : q[i] = k[c] /\ q[i] \notin gone
      /\ \A i \in 1..N : q[i] \notin gone => \E c \in 1..Len(k) : q[i] = k[c]
      /\ \A c, d \in 1..Len(k) : c < d =>
            \E i, j \in 1..N : i < j /\ q[i] = k[c] /\ q[j] = k[d]
  BY <1>4, <1>5 DEF k
<1> HIDE DEF N
<1>7. ToSet(k) = ToSet(q) \ gone
  <2>1. ASSUME NEW x PROVE x \in ToSet(k) <=> \E c \in 1..Len(k) : k[c] = x
    BY <1>6, ZenonT(60) DEF ToSet
  <2>2. ASSUME NEW x PROVE x \in ToSet(q) <=> \E i \in 1..N : q[i] = x
    BY <1>0 DEF ToSet
  <2>3. QED
    BY <1>6, <2>1, <2>2, SMTT(60)
<1>8. Thins(q, k)
  <2>1. Len(k) <= Len(q)
    BY <1>6 DEF N
  <2>2. QED
    BY <1>6, <2>1 DEF Thins, N
<1>9. QED
  BY <1>6, <1>7, <1>8 DEF k

\* Membership of a sequence, by position.
LEMMA InToSet ==
    ASSUME NEW S, NEW q \in Seq(S), NEW x
    PROVE  x \in ToSet(q) <=> \E i \in 1..Len(q) : q[i] = x
  BY DEF ToSet

\* What InsertAt returns.
LEMMA InsertAtProperties ==
    ASSUME NEW S, NEW q \in Seq(S), NEW i \in 1..(Len(q) + 1), NEW x \in S,
           NEW p, p = InsertAt(q, i, x)
    PROVE  /\ p \in Seq(S) /\ Len(p) = Len(q) + 1
           /\ \A j \in 1..(Len(q) + 1) :
                 p[j] = IF j < i THEN q[j] ELSE IF j = i THEN x ELSE q[j - 1]
<1> DEFINE l == SubSeq(q, 1, i - 1)
           r == SubSeq(q, i, Len(q))
<1>0. Len(q) \in Nat
  OBVIOUS
<1>1. l \in Seq(S) /\ Len(l) = i - 1 /\ \A j \in 1..(i - 1) : l[j] = q[j]
  <2>1. \A j \in 1..(i - 1) : q[j] \in S
    OBVIOUS
  <2>2. QED
    BY <1>0, <2>1, SubSeqProperties
<1>2. r \in Seq(S) /\ Len(r) = Len(q) - i + 1 /\ \A j \in 1..(Len(q) - i + 1) : r[j] = q[i + j - 1]
  <2>1. \A j \in i..Len(q) : q[j] \in S
    OBVIOUS
  <2>2. QED
    BY <1>0, <2>1, SubSeqProperties
<1> HIDE DEF l, r
<1> DEFINE m == l \o <<x>>
<1>3. m \in Seq(S) /\ Len(m) = i /\ \A j \in 1..i : m[j] = IF j < i THEN l[j] ELSE x
  BY <1>0, <1>1
<1> HIDE DEF m
<1>4. /\ m \o r \in Seq(S) /\ Len(m \o r) = Len(q) + 1
      /\ \A j \in 1..(Len(q) + 1) : (m \o r)[j] = IF j <= i THEN m[j] ELSE r[j - i]
  <2>1. /\ m \o r \in Seq(S) /\ Len(m \o r) = Len(m) + Len(r)
        /\ \A j \in 1..(Len(m) + Len(r)) :
              (m \o r)[j] = IF j <= Len(m) THEN m[j] ELSE r[j - Len(m)]
    BY <1>2, <1>3, ConcatProperties
  <2>2. Len(m) + Len(r) = Len(q) + 1
    BY <1>0, <1>2, <1>3
  <2>3. QED
    BY <1>3, <2>1, <2>2
<1>5. p = m \o r
  BY DEF InsertAt, m, l, r
<1>6. QED
  BY ONLY <1>0, <1>1, <1>2, <1>3, <1>4, <1>5, i \in 1..(Len(q) + 1), SMTT(60)

\* A queue without repetitions is as long as its set of requests is large.
LEMMA CardinalityOfQueue ==
    ASSUME NEW S, NEW q \in Seq(S), \A i, j \in 1..Len(q) : i < j => q[i] # q[j]
    PROVE  Cardinality(ToSet(q)) = Len(q)
<1>1. q \in Bijection(1..Len(q), ToSet(q))
  <2>1. q \in [1..Len(q) -> ToSet(q)]
    BY DEF ToSet
  <2>2. \A i, j \in 1..Len(q) : q[i] = q[j] => i = j
    OBVIOUS
  <2>3. \A x \in ToSet(q) : \E i \in 1..Len(q) : q[i] = x
    BY DEF ToSet
  <2>4. q \in Injection(1..Len(q), ToSet(q))
    BY <2>1, <2>2 DEF Injection, IsInjective
  <2>5. q \in Surjection(1..Len(q), ToSet(q))
    BY <2>1, <2>3 DEF Surjection
  <2>6. QED
    BY <2>4, <2>5 DEF Bijection
<1>2. IsFiniteSet(1..Len(q)) /\ Cardinality(1..Len(q)) = Len(q)
  <2>1. ASSUME NEW n \in Nat PROVE IsFiniteSet(1..n) /\ Cardinality(1..n) = n
    <3>1. IsFiniteSet(1..n) /\ Cardinality(1..n) = IF 1 > n THEN 0 ELSE n - 1 + 1
      BY FS_Interval
    <3>2. QED
      BY <3>1
  <2>2. QED
    BY <2>1
<1>3. QED
  BY <1>1, <1>2, FS_Bijection DEF ExistsBijection

-----------------------------------------------------------------------------
(* The inductive invariant, of a record a of the App and the events e it has *)
(* not handled: an operation of the App is a chain of such records.          *)

Transport == {"disconnected", "retired", "connected"}
Final == {"end", "error", "lost", "promptError", "settled", "settledStarted"}
Output == {"chunk", "softStop", "attached"}
Events == {x \in [type : Transport \cup Final \cup Output, id : 0..MaxRequests,
                  session : 0..MaxSessions] : x.type = "retired" => x.session = 0}
Has(e, type) == \E i \in 1..Len(e) : e[i].type = type
About(e, r) == \E i \in 1..Len(e) : e[i].id = r

Accepts(a) == AcceptsNewPrompt(a.turn)
Cancelling(a) == a.turn.st = "Cancelling"
Active(r) == task[r] \notin {"none", "done"}
Unsent == {"none", "start", "newSession", "awaitCancel"}
WithSession == {"build", "sent", "stopping", "draining", "softDraining", "cancelDraining"}

\* The types, with the cap of the queue.
Typed(a, e) == a \in App /\ Len(a.queue) <= QueueCap /\ e \in Seq(Events)

\* The queue holds each of its requests once, the user's in the order of entry
\* and before the automatic ones.
QueueOK(a) ==
    /\ \A i \in 1..Len(a.queue) : a.queue[i] <= Len(a.kind)
    /\ \A i, j \in 1..Len(a.queue) : i < j => a.queue[i] # a.queue[j]
    /\ \A i, j \in 1..Len(a.queue) :
          i < j /\ a.kind[a.queue[j]] # "auto"
          => a.kind[a.queue[i]] # "auto" /\ a.queue[i] < a.queue[j]
    /\ \A r \in Queued(a) : r \in a.cancelled => r \in a.resub

\* A request that waits, or that is yet to come, has left no trace.
FreshOK(a, e) ==
    /\ \A r \in Requests : r \in Queued(a) \/ r > Len(a.kind) =>
          task[r] = "none" /\ r \notin ToSet(a.out) /\ ~About(e, r)
    /\ \A r \in a.cancelled : r <= Len(a.kind)

\* A turn that is neither over nor idle is the one the App has a prompt for.
CardOK(t) == t.outcome = "card" => t.st = "Surfaced" /\ t.id \in Requests
TurnOK(a) ==
    /\ CardOK(a.turn)
    /\ ~Accepts(a) =>
          /\ a.turn.id \in 1..Len(a.kind) /\ a.turn.id \notin Queued(a)
          /\ a.active.id = a.turn.id
          /\ ~a.active.valid => Cancelling(a)
          /\ a.active.valid => a.session = a.active.session
          /\ Cancelling(a) => a.turn.id \in a.cancelled
          /\ open /\ a.turn.id \in a.cancelled => Cancelling(a)

\* Whatever is under way belongs to the turn, and its last event is its last.
FlightOK(a, e) ==
    /\ \A r \in Requests : r \in ToSet(a.out) \/ Active(r) \/ About(e, r)
                           => ~Accepts(a) /\ a.turn.id = r
    /\ Len(a.out) <= 1
    /\ \A r \in ToSet(a.out) : task[r] = "none" /\ ~About(e, r)
    /\ inFlight # 0 => Active(inFlight)
    /\ \A i \in 1..Len(e) : e[i].id = 0 <=> e[i].type \in Transport
    /\ \A i \in 1..Len(e) : e[i].type \in Final =>
          task[e[i].id] = "done" /\ \A j \in 1..Len(e) : i < j => e[j].id = 0

\* The order of what the transport tells, and what a closed one leaves behind.
TransportOK(a, e) ==
    /\ \A i \in 1..Len(e) : e[i].type = "disconnected" =>
          Has(e, "retired") /\ \A j \in 1..Len(e) : i < j => e[j].type = "retired"
    /\ \A i \in 1..Len(e) : e[i].type = "retired" =>
          /\ i = Len(e) /\ ~open /\ \A r \in Requests : ~Active(r)
          /\ a.conn = "connecting" \/ Has(e, "disconnected")
    /\ Has(e, "connected") => Len(e) = 1 /\ a.conn = "connecting"
    /\ a.conn = "connecting" =>
          /\ \A i \in 1..Len(e) : e[i].type \in {"retired", "connected"}
          /\ a.session = 0
          /\ ~Accepts(a) => Has(e, "retired")
    /\ ~open => a.out = <<>> /\ ~a.drops /\ \A r \in Requests : Active(r) => r \in a.cancelled

Told(e, r, s) == \E i \in 1..Len(e) : e[i] = Ev("attached", r, s)

\* The App knows session s of the prompt, will be told of it or has given it up.
Known(a, e, r, s) ==
    \/ a.active.session = s \/ a.active.session \in overtaken
    \/ a.active.session = 0 /\ (~a.active.valid \/ Told(e, r, s))

\* A task works in a session that the App knows; one that is on the way to a
\* session starts from the one that is bound; only a cancelled one stops.
TaskOK(a, e) ==
    \A r \in Requests :
    /\ AtAgent(r) => sid[r] \in asked
    /\ task[r] \in WithSession => sid[r] # 0 /\ Known(a, e, r, sid[r])
    /\ task[r] \in {"stopping", "cancelDraining", "awaitCancel"} => r \in a.cancelled
    /\ task[r] = "newSession" =>
          /\ r \notin current => r \in a.cancelled
          /\ a.active.session \in {0} \cup overtaken
          /\ r \in current /\ open /\ ~a.drops => a.active.valid
    /\ task[r] = "start" /\ r \notin a.cancelled => a.active.session \in {binding} \cup overtaken
    /\ r \in ToSet(a.out) /\ r \notin a.cancelled =>
          a.active.session \in {IF a.drops THEN 0 ELSE binding} \cup overtaken

\* An event tells of a session that the App knows, and an end, chunk or
\* settlement only of a prompt that the agent was asked.
EventOK(a, e) ==
    \A i \in 1..Len(e) :
    /\ e[i].type \in {"end", "chunk"} => e[i].session \in asked
    /\ e[i].type \in {"end", "error", "lost"} =>
          e[i].session # 0 /\ Known(a, e, e[i].id, e[i].session)
    /\ e[i].type \in {"settled", "settledStarted"} => e[i].id \in a.cancelled
    /\ e[i].type = "settledStarted" => \E s \in asked : Known(a, e, e[i].id, s)
    /\ e[i].type = "attached" =>
          /\ task[e[i].id] \notin Unsent /\ e[i].session # 0
          /\ \A j \in 1..Len(e) : e[j].type = "attached" => j = i
          /\ a.active.valid /\ open /\ a.active.session \notin overtaken
             => binding = e[i].session
    /\ e[i].type = "connected" => e[i].session # 0
    /\ e[i].type = "connected" /\ e[i].session \notin overtaken =>
          ~a.drops /\ (open => binding = e[i].session)

\* The session of the tab is the one the client has bound, but for what is on
\* the way between them.
SessionOK(a, e) ==
    /\ a.meaningful => a.session \in asked \cup overtaken
    /\ a.drops =>
          /\ a.session \in {0} \cup overtaken
          /\ ~Accepts(a) /\ a.turn.id \notin ToSet(a.out) => ~a.active.valid
    /\ open /\ ~a.drops /\ a.session \notin overtaken =>
          \/ a.session = binding
          \/ Has(e, "connected")
          \/ /\ a.session = 0 /\ ~Accepts(a) /\ a.active.valid
             /\ Told(e, a.turn.id, binding)

\* A turn has its end still to come, unless a reset has raced.
Raced(a) ==
    \/ Cancelling(a) /\ ~a.active.valid /\ a.active.session = 0
    \/ a.active.session \in overtaken
Comes(a, e) ==
    \/ a.turn.id \in ToSet(a.out)
    \/ Active(a.turn.id)
    \/ \E i \in 1..Len(e) : e[i].type \in Final /\ e[i].id = a.turn.id
    \/ Has(e, "retired")
    \/ ~open /\ a.conn # "connecting"
ServedOK(a, e) == ~Accepts(a) /\ ~Raced(a) => Comes(a, e)

\* All of it but the last part, which an event may spend before it is made good.
Held(a, e) ==
    /\ Typed(a, e) /\ QueueOK(a) /\ FreshOK(a, e) /\ TurnOK(a) /\ FlightOK(a, e)
    /\ TransportOK(a, e) /\ TaskOK(a, e) /\ EventOK(a, e) /\ SessionOK(a, e)

ClientTypes ==
    /\ open \in BOOLEAN /\ inFlight \in 0..MaxRequests /\ binding \in 0..MaxSessions
    /\ task \in [Requests -> TaskStates] /\ sid \in [Requests -> 0..MaxSessions]
    /\ current \subseteq Requests /\ chunks \in [Requests -> 0..MaxChunks]
    /\ execs \subseteq Requests /\ nextSid \in Sessions /\ asked \subseteq Sessions
    /\ overtaken \subseteq Sessions /\ ops \in 0..MaxOps

IInv == ClientTypes /\ Held(app, events) /\ ServedOK(app, events)

-----------------------------------------------------------------------------
(* What the App's operations do to the parts of its state that matter here. *)

Keeps(a, b) ==
    /\ b \in App /\ b.conn = a.conn /\ b.kind = a.kind /\ b.out = a.out /\ b.drops = a.drops
    /\ b.session = a.session
SameQueue(a, b) == b.queue = a.queue /\ b.resub = a.resub
SameTurn(a, b) == b.turn = a.turn /\ b.active = a.active /\ b.meaningful = a.meaningful

\* Nothing happens, but to the bar and the like.
Core(a, b) == Keeps(a, b) /\ SameQueue(a, b) /\ SameTurn(a, b) /\ b.cancelled = a.cancelled

\* Requests leave the queue, or must be submitted again.
Trims(a, b) ==
    /\ Keeps(a, b) /\ SameTurn(a, b)
    /\ Thins(a.queue, b.queue) /\ Queued(b) \subseteq Queued(a)
    /\ a.cancelled \subseteq b.cancelled /\ b.cancelled \subseteq a.cancelled \cup Queued(a)
    /\ \A r \in Queued(b) : r \in b.cancelled => r \in b.resub

\* The turn is cancelled and waits for the end of its prompt.
Cancels(a, b) ==
    /\ Keeps(a, b) /\ SameQueue(a, b) /\ b.active = a.active /\ b.meaningful = a.meaningful
    /\ ~Accepts(a) /\ Cancelling(b) /\ b.turn.id = a.turn.id /\ b.turn.outcome # "card"
    /\ b.cancelled = a.cancelled \cup {a.turn.id}

\* A turn that has ended makes way.
Rests(a, b) ==
    /\ Keeps(a, b) /\ SameQueue(a, b) /\ b.cancelled = a.cancelled /\ b.meaningful = a.meaningful
    /\ Accepts(a) /\ Accepts(b) /\ CardOK(b.turn)

\* The turn goes on.
Advances(a, b) ==
    /\ Keeps(a, b) /\ SameQueue(a, b) /\ b.cancelled = a.cancelled /\ b.active = a.active
    /\ ~Accepts(a) /\ ~Cancelling(a) /\ ~Accepts(b) /\ ~Cancelling(b) /\ b.turn.id = a.turn.id
    /\ CardOK(b.turn)
    /\ b.meaningful => a.meaningful \/ a.session \in asked

\* The turn ends: nothing of it is under way.
Finishes(a, b, e) ==
    /\ Keeps(a, b) /\ SameQueue(a, b) /\ b.cancelled = a.cancelled
    /\ Accepts(b) /\ CardOK(b.turn)
    /\ \A r \in Requests : r \notin ToSet(a.out) /\ ~Active(r) /\ ~About(e, r)
    /\ b.meaningful => a.meaningful \/ a.session \in asked \cup overtaken

\* What such an operation guarantees.
Sound(a, b, e) ==
    /\ Held(b, e) /\ (ServedOK(a, e) => ServedOK(b, e))
    /\ b.kind = a.kind /\ b.out = a.out /\ Queued(b) \subseteq Queued(a)

\* Doing nothing keeps the invariant.
LEMMA SoundSelf ==
    ASSUME NEW a, NEW e, Held(a, e)
    PROVE  Sound(a, a, e)
  BY DEF Sound

\* Operations that keep it can be chained.
LEMMA SoundChain ==
    ASSUME NEW a, NEW b, NEW c, NEW e, Sound(a, b, e), Sound(b, c, e)
    PROVE  Sound(a, c, e)
  BY DEF Sound

\* A change of the bar and the like keeps the invariant.
LEMMA CoreSound ==
    ASSUME NEW a, NEW b, NEW e, Held(a, e), Core(a, b)
    PROVE  Sound(a, b, e)
<1>1. Typed(b, e) /\ QueueOK(b) /\ FreshOK(b, e) /\ TurnOK(b)
  BY DEF Held, Typed, QueueOK, FreshOK, TurnOK, Core, Keeps, SameQueue, SameTurn, Queued, Accepts,
         Cancelling
<1>2. FlightOK(b, e) /\ TransportOK(b, e)
  BY DEF Held, FlightOK, TransportOK, Core, Keeps, SameTurn, Accepts
<1>3. TaskOK(b, e)
  BY DEF Held, TaskOK, Core, Keeps, SameTurn, Known
<1>4. EventOK(b, e)
  BY DEF Held, EventOK, Core, Keeps, SameTurn, Known
<1>5. SessionOK(b, e)
  BY DEF Held, SessionOK, Core, Keeps, SameTurn, Accepts
<1>6. ServedOK(a, e) => ServedOK(b, e)
  BY DEF ServedOK, Raced, Comes, Core, Keeps, SameTurn, Accepts, Cancelling
<1>7. QED
  BY <1>1, <1>2, <1>3, <1>4, <1>5, <1>6 DEF Held, Sound, Core, Keeps, SameQueue, Queued

\* So does what gives up waiting requests (prompt_queue.rs).
LEMMA TrimsSound ==
    ASSUME NEW a, NEW b, NEW e, Held(a, e), Trims(a, b)
    PROVE  Sound(a, b, e)
<1> USE DEF Trims, Keeps, SameTurn
<1>0. a \in App /\ b \in App /\ a.queue \in Seq(Requests) /\ b.queue \in Seq(Requests)
  BY DEF Held, Typed, App
<1>1. Typed(b, e)
  <2>1. Len(a.queue) \in Nat /\ Len(b.queue) \in Nat /\ QueueCap \in Nat
    BY <1>0, PromptTurnAssumption
  <2>2. QED
    BY <1>0, <2>1 DEF Held, Typed, Thins
<1>2. QueueOK(b)
  <2>1. ASSUME NEW i \in 1..Len(b.queue) PROVE b.queue[i] <= Len(b.kind)
    <3>1. b.queue[i] \in Queued(a)
      BY <1>0, InToSet DEF Queued
    <3>2. QED
      BY <1>0, <3>1, InToSet DEF Held, QueueOK, Queued
  <2>2. ASSUME NEW i \in 1..Len(b.queue), NEW j \in 1..Len(b.queue), i < j
        PROVE  /\ b.queue[i] # b.queue[j]
               /\ b.kind[b.queue[j]] # "auto" => b.kind[b.queue[i]] # "auto" /\ b.queue[i] < b.queue[j]
    <3>1. PICK c, d \in 1..Len(a.queue) : c < d /\ a.queue[c] = b.queue[i] /\ a.queue[d] = b.queue[j]
      BY <2>2 DEF Thins
    <3>2. QED
      BY <3>1 DEF Held, QueueOK
  <2>3. QED
    BY <2>1, <2>2 DEF QueueOK
<1>3. FreshOK(b, e)
  <2>1. \A r \in Queued(a) : r <= Len(a.kind)
    BY <1>0, InToSet DEF Held, QueueOK, Queued
  <2>2. QED
    BY <2>1 DEF Held, FreshOK
<1>4. TurnOK(b)
  BY DEF Held, TurnOK, Accepts, Cancelling
<1>5. FlightOK(b, e)
  BY DEF Held, FlightOK, Accepts
<1>6. TransportOK(b, e)
  BY DEF Held, TransportOK, Accepts
<1>7. TaskOK(b, e)
  BY DEF Held, TaskOK, Known
<1>8. EventOK(b, e)
  BY DEF Held, EventOK, Known
<1>9. SessionOK(b, e)
  BY DEF Held, SessionOK, Accepts
<1>10. ServedOK(a, e) => ServedOK(b, e)
  BY DEF ServedOK, Raced, Comes, Accepts, Cancelling
<1>11. QED
  BY <1>1, <1>2, <1>3, <1>4, <1>5, <1>6, <1>7, <1>8, <1>9, <1>10 DEF Held, Sound

\* So does the cancellation of the turn, which waits for its prompt to end.
LEMMA CancelsSound ==
    ASSUME NEW a, NEW b, NEW e, Held(a, e), Cancels(a, b)
    PROVE  Sound(a, b, e)
<1> USE DEF CardOK, Cancels, Keeps, SameQueue
<1>0. ~Accepts(b) /\ Queued(b) = Queued(a)
  BY DEF Accepts, AcceptsNewPrompt, Cancelling, Queued
<1>1. Typed(b, e) /\ QueueOK(b)
  BY <1>0 DEF Held, Typed, QueueOK, TurnOK
<1>2. FreshOK(b, e)
  BY <1>0 DEF Held, FreshOK, TurnOK
<1>3. TurnOK(b)
  BY <1>0 DEF Held, TurnOK
<1>4. FlightOK(b, e) /\ TransportOK(b, e)
  BY <1>0 DEF Held, FlightOK, TransportOK
<1>5. TaskOK(b, e)
  BY DEF Held, TaskOK, Known
<1>6. EventOK(b, e)
  BY DEF Held, EventOK, Known
<1>7. SessionOK(b, e)
  BY <1>0 DEF Held, SessionOK
<1>8. ServedOK(a, e) => ServedOK(b, e)
  BY DEF Held, TurnOK, ServedOK, Raced, Comes
<1>9. QED
  BY <1>0, <1>1, <1>2, <1>3, <1>4, <1>5, <1>6, <1>7, <1>8 DEF Held, Sound

\* So does a turn that goes on.
LEMMA AdvancesSound ==
    ASSUME NEW a, NEW b, NEW e, Held(a, e), Advances(a, b)
    PROVE  Sound(a, b, e)
<1> USE DEF Advances, Keeps, SameQueue
<1>0. Queued(b) = Queued(a)
  BY DEF Queued
<1>1. Typed(b, e) /\ QueueOK(b)
  BY <1>0 DEF Held, Typed, QueueOK, TurnOK
<1>2. FreshOK(b, e)
  BY <1>0 DEF Held, FreshOK, TurnOK
<1>3. TurnOK(b)
  BY <1>0 DEF Held, TurnOK
<1>4. FlightOK(b, e) /\ TransportOK(b, e)
  BY <1>0 DEF Held, FlightOK, TransportOK
<1>5. TaskOK(b, e)
  BY DEF Held, TaskOK, Known
<1>6. EventOK(b, e)
  BY DEF Held, EventOK, Known
<1>7. SessionOK(b, e)
  BY <1>0 DEF Held, SessionOK
<1>8. ServedOK(a, e) => ServedOK(b, e)
  BY DEF Held, TurnOK, ServedOK, Raced, Comes
<1>9. QED
  BY <1>0, <1>1, <1>2, <1>3, <1>4, <1>5, <1>6, <1>7, <1>8 DEF Held, Sound

\* So does a turn that ends when nothing of it is under way.
LEMMA FinishesSound ==
    ASSUME NEW a, NEW b, NEW e, ClientTypes, Held(a, e), Finishes(a, b, e)
    PROVE  Sound(a, b, e)
<1> USE DEF Finishes, Keeps, SameQueue
<1>0. Queued(b) = Queued(a)
  BY DEF Queued
<1>1. Typed(b, e) /\ QueueOK(b)
  BY <1>0 DEF Held, Typed, QueueOK, TurnOK
<1>2. FreshOK(b, e)
  BY <1>0 DEF Held, FreshOK, TurnOK
<1>3. TurnOK(b)
  BY <1>0 DEF Held, TurnOK
<1>4. FlightOK(b, e)
  BY <1>0 DEF Held, FlightOK
<1>5. TransportOK(b, e)
  BY <1>0 DEF Held, TransportOK
<1>6. TaskOK(b, e)
  BY DEF Held, TaskOK, AtAgent, WithSession, Active
<1>7. EventOK(b, e)
  <2>1. ASSUME NEW i \in 1..Len(e) PROVE e[i].id \notin Requests /\ e[i].id \in 0..MaxRequests
    <3>1. e[i] \in Events
      BY DEF Held, Typed
    <3>2. QED
      BY <3>1 DEF About, Events
  <2>2. \A i \in 1..Len(e) : e[i].id = 0
    BY <2>1, PromptTurnAssumption DEF Requests
  <2>3. \A i \in 1..Len(e) : e[i].type \in Transport
    BY <2>2 DEF Held, FlightOK
  <2>4. QED
    BY <2>3 DEF Held, EventOK, Transport
<1>8. SessionOK(b, e)
  <2>1. ~Accepts(a) => a.turn.id \in Requests
    BY DEF Held, TurnOK, Typed, App, Turns, Requests
  <2>2. ~Accepts(a) => ~Told(e, a.turn.id, binding)
    BY <2>1 DEF Told, Ev, About
  <2>3. QED
    BY <2>2 DEF Held, SessionOK
<1>9. ServedOK(a, e) => ServedOK(b, e)
  BY DEF ServedOK
<1>10. QED
  BY <1>0, <1>1, <1>2, <1>3, <1>4, <1>5, <1>6, <1>7, <1>8, <1>9 DEF Held, Sound

\* So does a turn that has ended and makes way.
LEMMA RestsSound ==
    ASSUME NEW a, NEW b, NEW e, ClientTypes, Held(a, e), Rests(a, b)
    PROVE  Sound(a, b, e)
<1>1. Finishes(a, b, e)
  BY DEF Held, FlightOK, Finishes, Rests
<1>2. QED
  BY <1>1, FinishesSound

-----------------------------------------------------------------------------
(* The App's operations, from the inside out. *)

\* The bar changes nothing else.
LEMMA BarsCore ==
    ASSUME NEW a \in App
    PROVE  /\ Core(a, EmitCleared(a)) /\ Core(a, EmitDetected(a)) /\ Core(a, EmitPending(a))
           /\ \A p \in BOOLEAN : Core(a, EmitResult(a, p))
  BY ZenonT(60) DEF App, Core, Keeps, SameQueue, SameTurn, EmitCleared, EmitDetected, EmitPending, EmitResult

\* Single fields.
LEMMA ZeroTypes == 0 \in 0..MaxRequests /\ 0 \in 0..MaxSessions
  BY PromptTurnAssumption

\* Fields that are no concern of the invariant.
LEMMA FieldsCore ==
    ASSUME NEW a \in App
    PROVE  /\ \A r \in 0..MaxRequests : /\ Core(a, [a EXCEPT !.action = r])
                                       /\ Core(a, [a EXCEPT !.staged = r])
                                       /\ Core(a, [a EXCEPT !.detected = r])
           /\ \A x \in BOOLEAN : Core(a, [a EXCEPT !.armed = x]) /\ Core(a, [a EXCEPT !.paused = x])
  BY ZenonT(60) DEF App, Core, Keeps, SameQueue, SameTurn

\* Cancelling tokens changes nothing else.
LEMMA CancelledField ==
    ASSUME NEW a \in App, NEW c \in SUBSET Requests
    PROVE  /\ Keeps(a, [a EXCEPT !.cancelled = c]) /\ SameQueue(a, [a EXCEPT !.cancelled = c])
           /\ SameTurn(a, [a EXCEPT !.cancelled = c]) /\ [a EXCEPT !.cancelled = c].cancelled = c
  BY DEF App, Keeps, SameQueue, SameTurn

Slots == [id : 0..MaxRequests, session : 0..MaxSessions, valid : BOOLEAN]
\* Setting the cancellation slot changes nothing else.
LEMMA ActiveField ==
    ASSUME NEW a \in App, NEW p \in Slots
    PROVE  /\ Keeps(a, [a EXCEPT !.active = p]) /\ SameQueue(a, [a EXCEPT !.active = p])
           /\ [a EXCEPT !.active = p].turn = a.turn
           /\ [a EXCEPT !.active = p].meaningful = a.meaningful
           /\ [a EXCEPT !.active = p].cancelled = a.cancelled
           /\ [a EXCEPT !.active = p].active = p
  BY DEF App, Slots, Keeps, SameQueue

\* The empty cancellation slot is one.
LEMMA NoPromptType == NoPrompt \in Slots
  BY ZeroTypes DEF NoPrompt, Slots

\* Setting the turn changes nothing else.
LEMMA TurnField ==
    ASSUME NEW a \in App, NEW t \in Turns
    PROVE  /\ Keeps(a, [a EXCEPT !.turn = t]) /\ SameQueue(a, [a EXCEPT !.turn = t])
           /\ [a EXCEPT !.turn = t].active = a.active
           /\ [a EXCEPT !.turn = t].meaningful = a.meaningful
           /\ [a EXCEPT !.turn = t].cancelled = a.cancelled
           /\ [a EXCEPT !.turn = t].turn = t
  BY DEF App, Keeps, SameQueue

\* The turns the handlers make are turns.
LEMMA TurnTypes ==
    ASSUME NEW st \in {"Idle", "Submitted", "Streaming", "Surfaced", "Cancelling"},
           NEW id \in 0..MaxRequests, NEW p \in BOOLEAN,
           NEW o \in {"none", "card", "resolved"}
    PROVE  Turn(st, id) \in Turns /\ Idle \in Turns /\ Surfaced(id, o, p) \in Turns
  BY PromptTurnAssumption DEF Turn, Turns, Idle, Surfaced

\* Taking requests out of the queue only gives up waiting ones.
LEMMA WithoutTrims ==
    ASSUME NEW a, NEW e, Held(a, e), NEW gone, gone \subseteq Queued(a)
    PROVE  Trims(a, Without(a, gone)) /\ Queued(Without(a, gone)) = Queued(a) \ gone
<1> DEFINE b == Without(a, gone)
           k == Kept(a.queue, gone)
<1>0. a \in App /\ a.queue \in Seq(Requests)
  BY DEF Held, Typed, App
<1>1. k \in Seq(Requests) /\ ToSet(k) = Queued(a) \ gone /\ Thins(a.queue, k)
  BY <1>0, KeptProperties DEF Queued
<1>2. gone \subseteq Requests
  BY <1>0, InToSet DEF Queued
<1> HIDE DEF k
<1>3. b = [a EXCEPT !.queue = k, !.cancelled = @ \cup gone, !.resub = @ \ gone]
  BY DEF Without, k
<1>4. /\ b \in App /\ b.queue = k /\ b.cancelled = a.cancelled \cup gone
      /\ b.resub = a.resub \ gone /\ Keeps(a, b) /\ SameTurn(a, b)
  BY <1>0, <1>1, <1>2, <1>3, ZenonT(60) DEF App, Keeps, SameTurn
<1>5. Queued(b) = Queued(a) \ gone
  BY <1>1, <1>4 DEF Queued
<1> HIDE DEF b
<1>6. Trims(a, b)
  BY <1>1, <1>4, <1>5 DEF Trims, Held, QueueOK
<1>7. QED
  BY <1>5, <1>6 DEF b

\* Taking requests out of the queue keeps the invariant.
LEMMA WithoutSound ==
    ASSUME NEW a, NEW e, Held(a, e), NEW gone, gone \subseteq Queued(a)
    PROVE  Sound(a, Without(a, gone), e)
  BY WithoutTrims, TrimsSound

\* A field of no consequence set along the way.
LEMMA CoreAfter ==
    ASSUME NEW a, NEW b, NEW c, NEW e, Sound(a, b, e), Core(b, c)
    PROVE  Sound(a, c, e)
<1>1. Held(b, e)
  BY DEF Sound
<1>2. QED
  BY <1>1, CoreSound, SoundChain

\* The record of the App has its type.
LEMMA HeldTyped ==
    ASSUME NEW a, NEW e, Held(a, e)
    PROVE  a \in App
  BY DEF Held, Typed

\* Stopping the queue keeps the invariant.
LEMMA PauseSound ==
    ASSUME NEW a, NEW e, Held(a, e)
    PROVE  Sound(a, Pause(a), e) /\ SameTurn(a, Pause(a))
<1> DEFINE b == Without(a, Automatics(a))
<1>1. Sound(a, b, e) /\ SameTurn(a, b)
  BY WithoutSound, WithoutTrims DEF Automatics, Trims
<1>2. b \in App
  BY <1>1, HeldTyped DEF Sound
<1> HIDE DEF b
<1>3. Core(b, [b EXCEPT !.paused = (b.queue # <<>>)])
  BY <1>2, FieldsCore
<1>4. Pause(a) = [b EXCEPT !.paused = (b.queue # <<>>)]
  BY DEF Pause, b
<1>5. QED
  BY <1>1, <1>3, <1>4, CoreAfter DEF Core, SameTurn

\* Discarding the queue keeps it.
LEMMA CancelPendingSound ==
    ASSUME NEW a, NEW e, Held(a, e)
    PROVE  Sound(a, CancelPending(a), e) /\ SameTurn(a, CancelPending(a))
<1> DEFINE b == Without(a, Queued(a))
<1>1. Sound(a, b, e) /\ SameTurn(a, b)
  BY WithoutSound, WithoutTrims DEF Trims
<1>2. b \in App
  BY <1>1, HeldTyped DEF Sound
<1> HIDE DEF b
<1>3. Core(b, [b EXCEPT !.paused = FALSE])
  BY <1>2, FieldsCore
<1>4. CancelPending(a) = [b EXCEPT !.paused = FALSE]
  BY DEF CancelPending, b
<1>5. QED
  BY <1>1, <1>3, <1>4, CoreAfter DEF Core, SameTurn

\* Asking the user to submit requests again keeps it.
LEMMA RequireResubmissionSound ==
    ASSUME NEW a, NEW e, Held(a, e), NEW rs, rs \subseteq Queued(a)
    PROVE  Sound(a, RequireResubmission(a, rs), e) /\ SameTurn(a, RequireResubmission(a, rs))
<1> DEFINE b == RequireResubmission(a, rs)
<1>0. a \in App /\ a.queue \in Seq(Requests)
  BY DEF Held, Typed, App
<1>1. rs \subseteq Requests
  BY <1>0, InToSet DEF Queued
<1>2. /\ Keeps(a, b) /\ SameTurn(a, b) /\ b.queue = a.queue
      /\ b.cancelled = a.cancelled \cup rs /\ b.resub = a.resub \cup rs
  BY <1>0, <1>1 DEF RequireResubmission, App, Keeps, SameTurn
<1> HIDE DEF b
<1>3. Thins(a.queue, b.queue)
  BY <1>0, <1>2 DEF Thins
<1>4. Trims(a, b)
  BY <1>2, <1>3 DEF Trims, Held, QueueOK, Queued
<1>5. QED
  BY <1>2, <1>4, TrimsSound DEF b

\* Giving up the session of the waiting requests keeps it.
LEMMA InvalidateSound ==
    ASSUME NEW a, NEW e, Held(a, e)
    PROVE  /\ Sound(a, InvalidatePendingPromptSession(a), e)
           /\ SameTurn(a, InvalidatePendingPromptSession(a))
<1> DEFINE b == Pause(a)
           c == RequireResubmission(b, ManualFixes(b))
<1>1. Sound(a, b, e) /\ SameTurn(a, b)
  BY PauseSound
<1>2. Sound(b, c, e) /\ SameTurn(b, c)
  BY <1>1, RequireResubmissionSound DEF ManualFixes, Sound
<1>3. QED
  BY <1>1, <1>2, SoundChain DEF InvalidatePendingPromptSession, SameTurn

\* The cancellation slot of a turn under way is its own.
LEMMA CancelActiveFields ==
    ASSUME NEW a, NEW e, Held(a, e), ~Accepts(a)
    PROVE  CancelActivePrompt(a, a.turn.id) = [a EXCEPT !.cancelled = @ \cup {a.turn.id}]
  BY DEF Held, TurnOK, CancelActivePrompt

\* A turn that does not accept a prompt is the turn of a request.
LEMMA TurnInRequests ==
    ASSUME NEW a, NEW e, Held(a, e), ~Accepts(a)
    PROVE  a.turn.id \in Requests /\ a.turn.id # 0
  BY DEF Held, TurnOK, Typed, App, Turns, Requests

\* A turn is in flight, is being cancelled or accepts a prompt.
LEMMA InFlightOrNot ==
    ASSUME NEW a, NEW e, Held(a, e)
    PROVE  Accepts(a) <=> ~IsInFlight(a.turn) /\ ~Cancelling(a)
  BY DEF Held, Typed, App, Turns, Accepts, AcceptsNewPrompt, IsInFlight, Cancelling

\* teardown_turn_for_tab keeps the invariant.
LEMMA TeardownSound ==
    ASSUME ClientTypes, NEW a, NEW e, Held(a, e)
    PROVE  Sound(a, TeardownTurn(a), e)
<1> DEFINE t == TeardownTurn(a)
<1>0. a \in App /\ (Accepts(a) <=> ~IsInFlight(a.turn) /\ ~Cancelling(a))
  BY HeldTyped, InFlightOrNot
<1>1. CASE Cancelling(a)
  <2>1. ~Accepts(a) /\ t = [a EXCEPT !.cancelled = @ \cup {a.turn.id}]
    BY <1>0, <1>1, CancelActiveFields DEF TeardownTurn, Cancelling
  <2>2. a.turn.outcome # "card"
    BY <1>1 DEF Held, TurnOK, CardOK, Cancelling
  <2>3. a.turn.id \in Requests
    BY <2>1, TurnInRequests
  <2> HIDE DEF t
  <2>6. a.cancelled \cup {a.turn.id} \in SUBSET Requests
    BY <1>0, <2>3 DEF App
  <2>7. /\ Keeps(a, t) /\ SameQueue(a, t) /\ SameTurn(a, t)
        /\ t.cancelled = a.cancelled \cup {a.turn.id}
    BY <1>0, <2>1, <2>6, CancelledField
  <2>4. Cancels(a, t)
    BY <1>1, <2>1, <2>2, <2>7 DEF Cancels, SameTurn, Cancelling
  <2>5. QED
    BY <2>4, CancelsSound DEF t
<1>2. CASE ~Cancelling(a)
  <2> DEFINE b == IF IsInFlight(a.turn) THEN CancelActivePrompt(a, a.turn.id)
                  ELSE [a EXCEPT !.active = NoPrompt]
             new == IF IsInFlight(a.turn) THEN Turn("Cancelling", a.turn.id) ELSE Idle
             done(c) == [c EXCEPT !.armed = FALSE, !.staged = 0, !.turn = new]
  <2>1. t = done(b) \/ t = done(EmitCleared(b))
    BY <1>2 DEF TeardownTurn, Cancelling
  <2>2. /\ b \in App /\ SameQueue(a, b) /\ Keeps(a, b) /\ b.meaningful = a.meaningful
        /\ IF IsInFlight(a.turn) THEN b.cancelled = a.cancelled \cup {a.turn.id} /\ b.active = a.active
           ELSE b.cancelled = a.cancelled
    <3>1. CASE IsInFlight(a.turn)
      <4>1. b = [a EXCEPT !.cancelled = @ \cup {a.turn.id}] /\ a.turn.id \in Requests
        BY <1>0, <3>1, CancelActiveFields, TurnInRequests
      <4>2. a.cancelled \cup {a.turn.id} \in SUBSET Requests
        BY <1>0, <4>1 DEF App
      <4> HIDE DEF b
      <4>3. QED
        BY <1>0, <3>1, <4>1, <4>2, CancelledField DEF SameTurn, Keeps
    <3>2. CASE ~IsInFlight(a.turn)
      <4>1. b = [a EXCEPT !.active = NoPrompt]
        BY <3>2
      <4> HIDE DEF b
      <4>2. QED
        BY <1>0, <3>2, <4>1, NoPromptType, ActiveField DEF Keeps
    <3>3. QED
      BY <3>1, <3>2
  <2>3. new \in Turns /\ new.outcome = "none" /\ new.st = IF IsInFlight(a.turn) THEN "Cancelling" ELSE "Idle"
    BY <1>0, TurnTypes, PromptTurnAssumption DEF Turn, Idle, App, Turns
  <2>4. IsInFlight(a.turn) => new.id = a.turn.id
    BY DEF Turn
  <2> HIDE DEF b, new, t
  <2>5. ASSUME NEW c, Core(b, c) PROVE Sound(a, done(c), e)
    <3>1. /\ done(c) \in App /\ SameQueue(a, done(c)) /\ Keeps(a, done(c))
          /\ done(c).meaningful = a.meaningful /\ done(c).turn = new
          /\ done(c).cancelled = b.cancelled /\ done(c).active = b.active
      <4>1. c \in App
        BY <2>5 DEF Core, Keeps
      <4>2. /\ Keeps(c, done(c)) /\ SameQueue(c, done(c)) /\ done(c).meaningful = c.meaningful
            /\ done(c).turn = new /\ done(c).cancelled = c.cancelled /\ done(c).active = c.active
        BY <2>3, <4>1, ZeroTypes DEF App, Keeps, SameQueue
      <4> HIDE DEF done
      <4>3. QED
        BY <2>2, <2>5, <4>2 DEF Core, SameQueue, SameTurn, Keeps
    <3> HIDE DEF done
    <3>2. CASE IsInFlight(a.turn)
      <4>1. Cancels(a, done(c))
        BY <1>0, <2>2, <2>3, <2>4, <3>1, <3>2 DEF Cancels, Cancelling
      <4>2. QED
        BY <4>1, CancelsSound
    <3>3. CASE ~IsInFlight(a.turn)
      <4>1. Rests(a, done(c))
        BY <1>0, <1>2, <2>2, <2>3, <3>1, <3>3 DEF Rests, CardOK, Accepts, AcceptsNewPrompt
      <4>2. QED
        BY <4>1, RestsSound
    <3>4. QED
      BY <3>2, <3>3
  <2>6. Core(b, b) /\ Core(b, EmitCleared(b))
    BY <2>2, BarsCore DEF Core, Keeps, SameQueue, SameTurn
  <2>7. QED
    BY <2>1, <2>5, <2>6 DEF t
<1>3. QED
  BY <1>1, <1>2

\* The user's own cancel keeps it.
LEMMA RequestTurnCancelSound ==
    ASSUME ClientTypes, NEW a, NEW e, Held(a, e)
    PROVE  Sound(a, RequestTurnCancel(a), e)
<1> DEFINE b == TeardownTurn(Pause(a))
<1>1. Sound(a, b, e)
  BY PauseSound, TeardownSound, SoundChain DEF Sound
<1>2. b \in App
  BY <1>1, HeldTyped DEF Sound
<1> HIDE DEF b
<1>3. Core(b, EmitDetected(b))
  BY <1>2, BarsCore
<1>4. EmitDetected(b) \in App
  BY <1>3 DEF Core, Keeps
<1>5. Core(EmitDetected(b), [EmitDetected(b) EXCEPT !.detected = 0])
  BY <1>4, FieldsCore, ZeroTypes
<1>6. Sound(a, EmitDetected(b), e)
  BY <1>1, <1>3, CoreAfter
<1>7. Sound(a, [EmitDetected(b) EXCEPT !.detected = 0], e)
  BY <1>5, <1>6, CoreAfter
<1>8. RequestTurnCancel(a) \in {b, [EmitDetected(b) EXCEPT !.detected = 0]}
  BY DEF RequestTurnCancel, b
<1>9. QED
  BY <1>1, <1>7, <1>8

\* clear_chat_history keeps it.
LEMMA ClearChatHistorySound ==
    ASSUME ClientTypes, NEW a, NEW e, Held(a, e)
    PROVE  /\ Sound(a, ClearChatHistory(a), e)
           /\ Accepts(ClearChatHistory(a)) \/ Cancelling(ClearChatHistory(a))
<1> DEFINE c == ClearChatHistory(a)
<1>0. a \in App /\ (Accepts(a) <=> ~IsInFlight(a.turn) /\ ~Cancelling(a))
  BY HeldTyped, InFlightOrNot
<1>1. CASE ~Accepts(a)
  <2>1. a.turn.id \in Requests /\ a.turn.id \in 0..MaxRequests
    BY <1>1, TurnInRequests DEF Requests
  <2>2. c = [[a EXCEPT !.cancelled = @ \cup {a.turn.id}] EXCEPT !.turn = Turn("Cancelling", a.turn.id)]
    BY <1>0, <1>1, CancelActiveFields DEF ClearChatHistory, Cancelling
  <2>3. Turn("Cancelling", a.turn.id) \in Turns
    BY <2>1, TurnTypes
  <2> DEFINE d == [a EXCEPT !.cancelled = @ \cup {a.turn.id}]
  <2>4. a.cancelled \cup {a.turn.id} \in SUBSET Requests
    BY <1>0, <2>1 DEF App
  <2>5. /\ Keeps(a, d) /\ SameQueue(a, d) /\ SameTurn(a, d)
        /\ d.cancelled = a.cancelled \cup {a.turn.id}
    BY <1>0, <2>4, CancelledField
  <2> HIDE DEF c, d
  <2>6. c = [d EXCEPT !.turn = Turn("Cancelling", a.turn.id)]
    BY <2>2 DEF d
  <2>7. /\ Keeps(d, c) /\ SameQueue(d, c) /\ c.active = d.active /\ c.meaningful = d.meaningful
        /\ c.cancelled = d.cancelled /\ c.turn = Turn("Cancelling", a.turn.id)
    BY <2>3, <2>5, <2>6, TurnField DEF Keeps
  <2>8. Cancels(a, c)
    BY <1>1, <2>5, <2>7 DEF Cancels, Keeps, SameQueue, SameTurn, Cancelling, Turn
  <2>9. QED
    BY <2>8, CancelsSound DEF Cancels, c
<1>2. CASE Accepts(a)
  <2>1. c = [a EXCEPT !.active = NoPrompt, !.turn = Idle]
    BY <1>0, <1>2 DEF ClearChatHistory, Cancelling
  <2>2. NoPrompt \in Slots /\ Idle \in Turns /\ Idle.st = "Idle" /\ Idle.outcome = "none"
    BY NoPromptType, TurnTypes, ZeroTypes DEF Idle, Turn
  <2> HIDE DEF c
  <2>3. /\ Keeps(a, c) /\ SameQueue(a, c) /\ c.cancelled = a.cancelled
        /\ c.meaningful = a.meaningful /\ c.turn = Idle
    BY <1>0, <2>1, <2>2 DEF App, Slots, Keeps, SameQueue
  <2>4. Rests(a, c)
    BY <1>2, <2>2, <2>3 DEF Rests, CardOK, Accepts, AcceptsNewPrompt
  <2>5. QED
    BY <2>4, RestsSound DEF Rests, c
<1>3. QED
  BY <1>1, <1>2

-----------------------------------------------------------------------------
(* Entering a request, and dispatching one. *)

\* The place of the first automatic request of a queue, or 0.
FirstAuto(kind, q) == SelectInSeq(q, LAMBDA x : kind[x] = "auto")

\* What the search for the first automatic request returns.
LEMMA FirstAutoProperties ==
    ASSUME NEW S, NEW q \in Seq(S), NEW kind
    PROVE  /\ FirstAuto(kind, q) \in 0..Len(q)
           /\ FirstAuto(kind, q) # 0 => kind[q[FirstAuto(kind, q)]] = "auto"
           /\ \A j \in 1..Len(q) :
                 kind[q[j]] = "auto" => FirstAuto(kind, q) # 0 /\ FirstAuto(kind, q) <= j
<1> DEFINE I == {j \in 1..Len(q) : kind[q[j]] = "auto"}
<1>0. Len(q) \in Nat /\ I \subseteq Nat /\ I \subseteq 1..Len(q)
  OBVIOUS
<1>1. FirstAuto(kind, q) = IF I # {} THEN Min(I) ELSE 0
  BY DEF FirstAuto, SelectInSeq
<1>2. CASE I = {}
  BY <1>0, <1>1, <1>2
<1>3. CASE I # {}
  <2>1. \E n \in I : \A m \in I : n <= m
    BY <1>0, <1>3, LeastElement
  <2>2. Min(I) \in I /\ \A m \in I : Min(I) <= m
    BY <2>1 DEF Min
  <2>3. QED
    BY <1>0, <1>1, <1>3, <2>2
<1>4. QED
  BY <1>2, <1>3

\* A request has been entered and is not yet in the queue.
Fresh(a, e, r) ==
    /\ r \in Requests /\ r <= Len(a.kind)
    /\ r \notin Queued(a) /\ \A q \in Queued(a) : q < r
    /\ task[r] = "none" /\ r \notin ToSet(a.out) /\ ~About(e, r) /\ r \notin a.cancelled
    /\ ~Accepts(a) => a.turn.id # r

\* Request r joins the queue; requests it replaces leave it.
Joins(a, b, r) ==
    /\ Keeps(a, b) /\ SameTurn(a, b)
    /\ Len(b.queue) <= QueueCap /\ Queued(b) \subseteq Queued(a) \cup {r}
    /\ \A i, j \in 1..Len(b.queue) : i < j =>
          /\ b.queue[i] # b.queue[j]
          /\ b.kind[b.queue[j]] # "auto" =>
                b.kind[b.queue[i]] # "auto" /\ b.queue[i] < b.queue[j]
    /\ a.cancelled \subseteq b.cancelled /\ b.cancelled \subseteq a.cancelled \cup Queued(a)
    /\ \A q \in Queued(b) : q \in b.cancelled => q \in b.resub

\* A fresh request that joins the queue in its place keeps the invariant.
LEMMA JoinsHeld ==
    ASSUME NEW a, NEW b, NEW e, NEW r, Held(a, e), Fresh(a, e, r), Joins(a, b, r)
    PROVE  Held(b, e) /\ (ServedOK(a, e) => ServedOK(b, e))
<1> USE DEF Joins, Keeps, SameTurn
<1>0. a \in App /\ b \in App /\ a.queue \in Seq(Requests) /\ b.queue \in Seq(Requests)
  BY DEF Held, Typed, App
<1>1. Typed(b, e)
  BY <1>0 DEF Held, Typed
<1>2. \A q \in Queued(a) : q <= Len(a.kind)
  BY <1>0, InToSet DEF Held, QueueOK, Queued
<1>3. QueueOK(b)
  <2>1. ASSUME NEW i \in 1..Len(b.queue) PROVE b.queue[i] <= Len(b.kind)
    <3>1. b.queue[i] \in Queued(a) \cup {r}
      BY <1>0, InToSet DEF Queued
    <3>2. QED
      BY <1>2, <3>1 DEF Fresh
  <2>2. QED
    BY <2>1 DEF QueueOK
<1>4. FreshOK(b, e)
  BY <1>2 DEF Held, FreshOK, Fresh
<1>5. TurnOK(b)
  BY DEF Held, TurnOK, Fresh, Accepts, Cancelling
<1>6. FlightOK(b, e)
  BY DEF Held, FlightOK, Accepts
<1>7. TransportOK(b, e)
  BY DEF Held, TransportOK, Accepts
<1>8. TaskOK(b, e)
  BY DEF Held, TaskOK, Known
<1>9. EventOK(b, e)
  BY DEF Held, EventOK, Known
<1>10. SessionOK(b, e)
  BY DEF Held, SessionOK, Accepts
<1>11. ServedOK(a, e) => ServedOK(b, e)
  BY DEF ServedOK, Raced, Comes, Accepts, Cancelling
<1>12. QED
  BY <1>1, <1>3, <1>4, <1>5, <1>6, <1>7, <1>8, <1>9, <1>10, <1>11 DEF Held

\* An automatic request takes the place of another.
LEMMA ReplaceJoins ==
    ASSUME NEW a, NEW e, NEW r, NEW i, Held(a, e), Fresh(a, e, r), a.kind[r] = "auto",
           i \in 1..Len(a.queue), a.kind[a.queue[i]] = "auto",
           NEW b, b = [a EXCEPT !.queue[i] = r, !.cancelled = @ \cup {a.queue[i]}]
    PROVE  Joins(a, b, r)
<1> DEFINE p == [a.queue EXCEPT ![i] = r]
<1>0. a \in App /\ a.queue \in Seq(Requests) /\ Len(a.queue) <= QueueCap /\ r \in Requests
  BY DEF Held, Typed, App, Fresh
<1>1. p \in Seq(Requests) /\ Len(p) = Len(a.queue)
      /\ \A j \in 1..Len(a.queue) : p[j] = IF j = i THEN r ELSE a.queue[j]
  BY <1>0, ExceptSeq
<1>2. a.queue[i] \in Requests /\ a.queue[i] \in Queued(a)
  BY <1>0, InToSet DEF Queued
<1> HIDE DEF p
<1>3. b = [a EXCEPT !.queue = p, !.cancelled = @ \cup {a.queue[i]}]
  BY <1>0 DEF p, App
<1>4. /\ Keeps(a, b) /\ SameTurn(a, b) /\ b.queue = p /\ b.resub = a.resub
      /\ b.cancelled = a.cancelled \cup {a.queue[i]}
  BY ONLY <1>0, <1>1, <1>2, <1>3 DEF App, Keeps, SameTurn
<1>5. /\ Queued(b) \subseteq Queued(a) \cup {r} /\ a.queue[i] \notin Queued(b)
  <2>1. ASSUME NEW x \in Queued(b) PROVE x \in Queued(a) \cup {r} /\ x # a.queue[i]
    <3>1. PICK j \in 1..Len(p) : p[j] = x
      BY <1>1, <1>4, InToSet DEF Queued
    <3>2. CASE j = i
      BY <1>1, <1>2, <3>1, <3>2 DEF Fresh
    <3>3. CASE j # i
      <4>1. x = a.queue[j] /\ j \in 1..Len(a.queue)
        BY <1>1, <3>1, <3>3
      <4>2. a.queue[i] # a.queue[j]
        BY <3>3, <4>1 DEF Held, QueueOK
      <4>3. QED
        BY <1>0, <4>1, <4>2, InToSet DEF Queued
    <3>4. QED
      BY <3>2, <3>3
  <2>2. QED
    BY <2>1
<1>6. ASSUME NEW c \in 1..Len(b.queue), NEW d \in 1..Len(b.queue), c < d
      PROVE  /\ b.queue[c] # b.queue[d]
             /\ b.kind[b.queue[d]] # "auto" =>
                   b.kind[b.queue[c]] # "auto" /\ b.queue[c] < b.queue[d]
  <2>1. c \in 1..Len(a.queue) /\ d \in 1..Len(a.queue) /\ b.queue[c] = p[c] /\ b.queue[d] = p[d]
        /\ b.kind = a.kind
    BY <1>1, <1>4 DEF Keeps
  <2>2. a.queue[c] # r /\ a.queue[d] # r
    BY <1>0, <2>1, InToSet DEF Fresh, Queued
  <2>3. /\ a.queue[c] # a.queue[d]
        /\ a.kind[a.queue[d]] # "auto" =>
              a.kind[a.queue[c]] # "auto" /\ a.queue[c] < a.queue[d]
    BY <1>6, <2>1 DEF Held, QueueOK
  <2>4. p[c] # p[d]
    BY <1>1, <1>6, <2>1, <2>2, <2>3
  <2>5. CASE d = i
    BY <1>1, <2>1, <2>4, <2>5
  <2>6. CASE d # i
    <3>1. p[d] = a.queue[d]
      BY <1>1, <2>1, <2>6
    <3>2. CASE a.kind[a.queue[d]] # "auto"
      <4>1. c # i
        BY <2>3, <3>2
      <4>2. p[c] = a.queue[c]
        BY <1>1, <2>1, <4>1
      <4>3. QED
        BY <2>1, <2>3, <2>4, <3>1, <3>2, <4>2
    <3>3. CASE a.kind[a.queue[d]] = "auto"
      BY <2>1, <2>4, <3>1, <3>3
    <3>4. QED
      BY <3>2, <3>3
  <2>7. QED
    BY <2>5, <2>6
<1>7. \A q \in Queued(b) : q \in b.cancelled => q \in b.resub
  <2>1. ASSUME NEW q \in Queued(b), q \in b.cancelled PROVE q \in b.resub
    <3>1. q \in a.cancelled
      BY <1>4, <1>5, <2>1
    <3>2. q \in Queued(a)
      BY <1>5, <3>1 DEF Fresh
    <3>3. QED
      BY <1>4, <3>1, <3>2 DEF Held, QueueOK
  <2>2. QED
    BY <2>1
<1>8. QED
  BY <1>0, <1>1, <1>2, <1>4, <1>5, <1>6, <1>7 DEF Joins

\* A request goes to the place its kind has in the queue.
LEMMA InsertAtJoins ==
    ASSUME NEW a, NEW e, NEW r, NEW p, Held(a, e), Fresh(a, e, r),
           p \in 1..(Len(a.queue) + 1), Len(a.queue) < QueueCap,
           a.kind[r] = "auto" => p = Len(a.queue) + 1,
           \A c \in 1..Len(a.queue) : a.kind[r] # "auto" =>
               (a.kind[a.queue[c]] # "auto" <=> c < p)
    PROVE  /\ Joins(a, [a EXCEPT !.queue = InsertAt(@, p, r)], r)
           /\ Queued([a EXCEPT !.queue = InsertAt(@, p, r)]) \subseteq Queued(a) \cup {r}
<1> DEFINE q == InsertAt(a.queue, p, r)
           b == [a EXCEPT !.queue = q]
<1>0. a \in App /\ a.queue \in Seq(Requests) /\ r \in Requests /\ Len(a.queue) \in Nat /\ QueueCap \in Nat
  BY PromptTurnAssumption DEF Held, Typed, App, Fresh
<1>1. /\ q \in Seq(Requests) /\ Len(q) = Len(a.queue) + 1
      /\ \A j \in 1..(Len(a.queue) + 1) :
            q[j] = IF j < p THEN a.queue[j] ELSE IF j = p THEN r ELSE a.queue[j - 1]
  <2> DEFINE z == a.queue
  <2>1. z \in Seq(Requests) /\ p \in 1..(Len(z) + 1) /\ r \in Requests /\ q = InsertAt(z, p, r)
    BY <1>0
  <2> HIDE DEF z, q
  <2>2. /\ q \in Seq(Requests) /\ Len(q) = Len(z) + 1
        /\ \A j \in 1..(Len(z) + 1) :
              q[j] = IF j < p THEN z[j] ELSE IF j = p THEN r ELSE z[j - 1]
    BY ONLY <2>1, InsertAtProperties, SMTT(60)
  <2>3. QED
    BY <2>2 DEF z
<1> HIDE DEF q
<1>2. Keeps(a, b) /\ SameTurn(a, b) /\ b.queue = q /\ b.resub = a.resub /\ b.cancelled = a.cancelled
  BY <1>0, <1>1 DEF App, Keeps, SameTurn
<1> HIDE DEF b
<1>3. ASSUME NEW j \in 1..Len(q)
      PROVE  /\ j < p => j \in 1..Len(a.queue) /\ q[j] = a.queue[j]
             /\ j = p => q[j] = r
             /\ j > p => j - 1 \in 1..Len(a.queue) /\ q[j] = a.queue[j - 1]
  <2>1. /\ Len(a.queue) \in Nat /\ p \in 1..(Len(a.queue) + 1)
        /\ j \in 1..(Len(a.queue) + 1)
    BY <1>0, <1>1
  <2>2. q[j] = IF j < p THEN a.queue[j] ELSE IF j = p THEN r ELSE a.queue[j - 1]
    BY <1>1, <2>1
  <2>3. QED
    BY ONLY <2>1, <2>2
<1>4. \A j \in 1..Len(a.queue) : a.queue[j] \in Queued(a) /\ a.queue[j] < r /\ a.queue[j] # r
  <2>1. \A j \in 1..Len(a.queue) : a.queue[j] \in Queued(a)
    BY <1>0, InToSet DEF Queued
  <2>2. QED
    BY <2>1 DEF Fresh
<1>5. Queued(b) \subseteq Queued(a) \cup {r}
  <2>1. ASSUME NEW x \in Queued(b) PROVE x \in Queued(a) \cup {r}
    <3>1. PICK j \in 1..Len(q) : q[j] = x
      BY <1>1, <1>2, InToSet DEF Queued
    <3>2. j < p \/ j = p \/ j > p
      BY <1>0, <1>1
    <3>3. QED
      BY <1>3, <1>4, <3>1, <3>2
  <2>2. QED
    BY <2>1
<1>6. ASSUME NEW c \in 1..Len(q), NEW d \in 1..Len(q), c < d
      PROVE  /\ q[c] # q[d]
             /\ a.kind[q[d]] # "auto" => a.kind[q[c]] # "auto" /\ q[c] < q[d]
  <2>0. ASSUME NEW i \in 1..Len(a.queue), NEW j \in 1..Len(a.queue), i < j
        PROVE  /\ a.queue[i] # a.queue[j]
               /\ a.kind[a.queue[j]] # "auto" => a.kind[a.queue[i]] # "auto" /\ a.queue[i] < a.queue[j]
    BY <2>0 DEF Held, QueueOK
  <2>1. CASE d < p
    <3>1. c < p
      BY <1>0, <1>1, <1>6, <2>1
    <3>2. QED
      BY <1>3, <1>6, <2>0, <2>1, <3>1
  <2>2. CASE d = p
    <3>1. c < p /\ q[d] = r /\ c \in 1..Len(a.queue) /\ q[c] = a.queue[c]
      BY <1>3, <1>6, <2>2
    <3>2. QED
      BY <1>4, <3>1
  <2>3. CASE d > p
    <3>1. d - 1 \in 1..Len(a.queue) /\ q[d] = a.queue[d - 1]
      BY <1>3, <2>3
    <3>2. a.kind[r] # "auto"
      BY <1>0, <1>1, <2>3
    <3>3. ~(d - 1 < p)
      BY <1>0, <1>1, <2>3
    <3>4. a.kind[q[d]] = "auto"
      BY <3>1, <3>2, <3>3
    <3>5. CASE c < p
      <4>1. c \in 1..Len(a.queue) /\ q[c] = a.queue[c] /\ c < d - 1
        BY <1>0, <1>1, <1>3, <2>3, <3>5
      <4>2. QED
        BY <2>0, <3>1, <3>4, <4>1
    <3>6. CASE c = p
      BY <1>3, <1>4, <3>1, <3>4, <3>6
    <3>7. CASE c > p
      <4>1. c - 1 \in 1..Len(a.queue) /\ q[c] = a.queue[c - 1] /\ c - 1 < d - 1
        BY <1>0, <1>1, <1>3, <1>6, <3>7
      <4>2. QED
        BY <2>0, <3>1, <3>4, <4>1
    <3>8. c < p \/ c = p \/ c > p
      BY <1>0, <1>1
    <3>9. QED
      BY <3>5, <3>6, <3>7, <3>8
  <2>4. d < p \/ d = p \/ d > p
    BY <1>0, <1>1
  <2>5. QED
    BY <2>1, <2>2, <2>3, <2>4
<1>7. \A x \in Queued(b) : x \in b.cancelled => x \in b.resub
  BY <1>2, <1>5 DEF Fresh, Held, QueueOK
<1>8. Len(b.queue) <= QueueCap
  BY <1>0, <1>1, <1>2
<1>9. Joins(a, b, r)
  BY <1>2, <1>5, <1>6, <1>7, <1>8 DEF Joins, Keeps
<1>10. QED
  BY <1>5, <1>9 DEF b, q

\* An entered request: its kind is known.
Enters(a, b, k) ==
    /\ b \in App /\ b.conn = a.conn /\ b.kind = Append(a.kind, k) /\ b.out = a.out
    /\ b.drops = a.drops /\ b.session = a.session /\ SameQueue(a, b) /\ SameTurn(a, b)
    /\ b.cancelled = a.cancelled

\* A request that is given its number, and is nowhere yet, keeps it.
LEMMA EntersHeld ==
    ASSUME NEW a, NEW b, NEW e, NEW k \in Kinds, Held(a, e), Len(a.kind) + 1 \in Requests,
           Enters(a, b, k)
    PROVE  /\ Held(b, e) /\ (ServedOK(a, e) => ServedOK(b, e)) /\ Fresh(b, e, Len(a.kind) + 1)
           /\ b.kind[Len(a.kind) + 1] = k /\ \A r \in Queued(a) : b.kind[r] = a.kind[r]
<1> USE DEF Enters, SameQueue, SameTurn
<1> DEFINE n == Len(a.kind)
<1>0. a \in App /\ b \in App /\ a.queue \in Seq(Requests) /\ a.kind \in Seq(Kinds) /\ n \in Nat
  BY SMTT(60) DEF Held, Typed, App
<1>1. /\ Len(b.kind) = n + 1 /\ b.kind[n + 1] = k /\ \A i \in 1..n : b.kind[i] = a.kind[i]
  BY <1>0, AppendProperties
<1>2. Queued(b) = Queued(a) /\ \A r \in Queued(a) : r \in 1..n
  <2>1. Queued(b) = Queued(a)
    BY DEF Queued
  <2>2. ASSUME NEW r \in Queued(a) PROVE r \in 1..n
    <3>1. PICK i \in 1..Len(a.queue) : a.queue[i] = r
      BY <1>0, InToSet DEF Queued
    <3>2. r \in Requests /\ r <= n
      BY <1>0, <3>1 DEF Held, QueueOK
    <3>3. QED
      BY <1>0, <3>2 DEF Requests
  <2>3. QED
    BY <2>1, <2>2
<1> HIDE DEF n
<1>n. n = Len(a.kind)
  BY DEF n
<1>3. \A i \in 1..Len(a.queue) : a.queue[i] \in 1..n
  BY <1>0, <1>2, InToSet DEF Queued
<1>4. Typed(b, e)
  BY <1>0 DEF Held, Typed
<1>5. QueueOK(b)
  <2>1. /\ \A i \in 1..Len(b.queue) : b.queue[i] <= Len(b.kind)
        /\ \A i, j \in 1..Len(b.queue) : i < j => b.queue[i] # b.queue[j]
        /\ \A r \in Queued(b) : r \in b.cancelled => r \in b.resub
    BY <1>0, <1>1, <1>2, <1>3 DEF Held, QueueOK
  <2>2. ASSUME NEW i \in 1..Len(b.queue), NEW j \in 1..Len(b.queue), i < j,
               b.kind[b.queue[j]] # "auto"
        PROVE  b.kind[b.queue[i]] # "auto" /\ b.queue[i] < b.queue[j]
    <3>1. b.kind[b.queue[i]] = a.kind[a.queue[i]] /\ b.kind[b.queue[j]] = a.kind[a.queue[j]]
      BY <1>1, <1>3
    <3>2. QED
      BY <2>2, <3>1 DEF Held, QueueOK
  <2>3. QED
    BY <2>1, <2>2 DEF QueueOK
<1>6. FreshOK(b, e)
  <2>1. \A r \in Requests : r > n + 1 => r > n
    BY <1>0 DEF Requests
  <2>2. \A r \in a.cancelled : r <= n + 1
    <3>1. \A r \in a.cancelled : r \in Nat /\ r <= n
      BY <1>0, <1>n DEF Held, FreshOK, App, Requests
    <3>2. QED
      BY <1>0, <3>1
  <2>3. QED
    BY <1>1, <1>2, <1>n, <2>1, <2>2 DEF Held, FreshOK
<1>7. TurnOK(b)
  BY <1>0, <1>1, <1>2, <1>n DEF Held, TurnOK, Accepts, Cancelling
<1>8. FlightOK(b, e)
  BY DEF Held, FlightOK, Accepts
<1>9. TransportOK(b, e)
  BY DEF Held, TransportOK, Accepts
<1>10. TaskOK(b, e)
  BY DEF Held, TaskOK, Known
<1>11. EventOK(b, e)
  BY DEF Held, EventOK, Known
<1>12. SessionOK(b, e)
  BY DEF Held, SessionOK, Accepts
<1>13. ServedOK(a, e) => ServedOK(b, e)
  BY DEF ServedOK, Raced, Comes, Accepts, Cancelling
<1>14. Fresh(b, e, n + 1)
  <2>1. n + 1 \in Requests /\ n + 1 > n /\ n + 1 <= Len(b.kind)
    BY <1>0, <1>1, <1>n
  <2>2. task[n + 1] = "none" /\ n + 1 \notin ToSet(a.out) /\ ~About(e, n + 1)
    BY <1>n, <2>1 DEF Held, FreshOK
  <2>3. n + 1 \notin a.cancelled
    BY <1>0, <1>n DEF Held, FreshOK
  <2>4. n + 1 \notin Queued(b) /\ \A q \in Queued(b) : q < n + 1
    BY <1>0, <1>2
  <2>5. ~Accepts(b) => b.turn.id # n + 1
    BY <1>0, <1>n DEF Held, TurnOK, Accepts
  <2>6. QED
    BY <2>1, <2>2, <2>3, <2>4, <2>5 DEF Fresh
<1>15. QED
  BY <1>1, <1>2, <1>4, <1>5, <1>6, <1>7, <1>8, <1>9, <1>10, <1>11, <1>12, <1>13, <1>14, <1>n
     DEF Held

\* What is left for a request to join.
LEMMA Room ==
    ASSUME NEW a, NEW e, Held(a, e), Cardinality(Queued(a)) < QueueCap
    PROVE  Len(a.queue) < QueueCap
<1>1. a.queue \in Seq(Requests)
  BY DEF Held, Typed, App
<1>2. \A i, j \in 1..Len(a.queue) : i < j => a.queue[i] # a.queue[j]
  BY DEF Held, QueueOK
<1>3. Cardinality(Queued(a)) = Len(a.queue)
  BY <1>1, <1>2, CardinalityOfQueue DEF Queued
<1>4. QED
  BY <1>3

\* The state in which a request enters the queue, and after it.
Entering(a, b, e, r) ==
    /\ Held(b, e) /\ (ServedOK(a, e) => ServedOK(b, e))
    /\ b.kind = a.kind /\ b.out = a.out /\ Queued(b) \subseteq Queued(a) \cup {r}

\* Insert puts a request where the order of the queue asks for it.
LEMMA InsertHeld ==
    ASSUME NEW a, NEW e, NEW r, Held(a, e), Fresh(a, e, r),
           Cardinality(Queued(a) \ ReplacedBy(a, a.kind[r])) < QueueCap
    PROVE  Entering(a, Insert(a, r), e, r)
<1> DEFINE k == a.kind[r]
           gone == ReplacedBy(a, k)
           b == Without(a, gone)
           i == FirstAuto(a.kind, IF k = "auto" THEN a.queue ELSE b.queue)
           p == IF k = "auto" \/ i = 0 THEN Len(b.queue) + 1 ELSE i
<1>0. a \in App /\ a.queue \in Seq(Requests)
  BY DEF Held, Typed, App
<1>1. gone \subseteq Queued(a)
  BY DEF ReplacedBy, Automatics
<1>2. Trims(a, b) /\ Queued(b) = Queued(a) \ gone /\ Sound(a, b, e)
  BY <1>1, WithoutTrims, WithoutSound
<1>3. b \in App /\ Held(b, e) /\ b.queue \in Seq(Requests) /\ b.kind = a.kind
  BY <1>2, HeldTyped, SMTT(60) DEF Sound, App
<1>4. Insert(a, r) = IF k = "auto" /\ i # 0
                     THEN [a EXCEPT !.queue[i] = r, !.cancelled = @ \cup {a.queue[i]}]
                     ELSE [b EXCEPT !.queue = InsertAt(@, p, r)]
  BY DEF Insert, FirstAuto
<1> HIDE DEF b
<1>5. CASE k = "auto" /\ i # 0
  <2>1. i \in 1..Len(a.queue) /\ a.kind[a.queue[i]] = "auto"
    BY <1>0, <1>5, FirstAutoProperties
  <2>2. Joins(a, Insert(a, r), r)
    <3> HIDE DEF i
    <3>1. Insert(a, r) = [a EXCEPT !.queue[i] = r, !.cancelled = @ \cup {a.queue[i]}]
      BY <1>4, <1>5
    <3>2. a.kind[r] = "auto"
      BY <1>5
    <3>3. QED
      BY <2>1, <3>1, <3>2, ReplaceJoins
  <2>3. QED
    BY <2>2, JoinsHeld DEF Entering, Joins, Keeps
<1>6. CASE ~(k = "auto" /\ i # 0)
  <2>1. Insert(a, r) = [b EXCEPT !.queue = InsertAt(@, p, r)]
    BY <1>4, <1>6
  <2>2. Fresh(b, e, r)
    BY <1>2, <1>3 DEF Fresh, Trims, Keeps, SameTurn, Accepts
  <2>3. Len(b.queue) < QueueCap
    BY <1>2, <1>3, Room
  <2>4. p \in 1..(Len(b.queue) + 1) /\ (b.kind[r] = "auto" => p = Len(b.queue) + 1)
    <3>1. Len(b.queue) \in Nat
      BY <1>3
    <3>2. CASE k = "auto" \/ i = 0
      BY <1>3, <3>1, <3>2
    <3>3. CASE ~(k = "auto" \/ i = 0)
      BY <1>3, <3>1, <3>3, FirstAutoProperties
    <3>4. QED
      BY <3>2, <3>3
  <2>5. ASSUME b.kind[r] # "auto", NEW c \in 1..Len(b.queue)
        PROVE  b.kind[b.queue[c]] # "auto" <=> c < p
    <3>0. i = FirstAuto(b.kind, b.queue) /\ Len(b.queue) \in Nat
      BY <1>3, <2>5
    <3>1. CASE i = 0
      <4>1. p = Len(b.queue) + 1
        BY <3>1
      <4>2. b.kind[b.queue[c]] # "auto"
        BY <1>3, <3>0, <3>1, FirstAutoProperties
      <4>3. QED
        BY <3>0, <4>1, <4>2
    <3>2. CASE i # 0
      <4>1. p = i /\ i \in 1..Len(b.queue) /\ b.kind[b.queue[i]] = "auto"
            /\ (b.kind[b.queue[c]] = "auto" => i <= c)
        BY <1>3, <2>5, <3>0, <3>2, FirstAutoProperties
      <4> HIDE DEF i, p
      <4>2. i < c => b.kind[b.queue[c]] = "auto"
        BY <1>3, <4>1 DEF Held, QueueOK
      <4>3. QED
        BY <3>0, <4>1, <4>2
    <3>3. QED
      BY <3>1, <3>2
  <2> HIDE DEF p
  <2>6. Joins(b, Insert(a, r), r)
    BY <1>3, <2>1, <2>2, <2>3, <2>4, <2>5, InsertAtJoins
  <2>7. Held(Insert(a, r), e) /\ (ServedOK(b, e) => ServedOK(Insert(a, r), e))
    BY <1>3, <2>2, <2>6, JoinsHeld
  <2>8. QED
    BY <1>2, <2>6, <2>7 DEF Entering, Joins, Keeps, Sound
<1>7. QED
  BY <1>5, <1>6


\* Requests entered on the way from a to b.
New(a, b) == (Len(a.kind) + 1)..Len(b.kind)

\* What a handler may do to the requests: a new one waits, others are given up.
Takes(a, b) ==
    /\ b.out = a.out /\ Queued(b) \subseteq Queued(a) \cup New(a, b)
    /\ b.kind = a.kind \/ \E k \in Kinds : b.kind = Append(a.kind, k)

\* And what an event with its dispatch may do: one may start, if none runs and
\* the user has no earlier one waiting.
Flows(a, b) ==
    /\ b.kind = a.kind \/ \E k \in Kinds : b.kind = Append(a.kind, k)
    /\ Queued(b) \subseteq Queued(a) \cup New(a, b)
    /\ ToSet(b.out) \subseteq ToSet(a.out) \cup Queued(a) \cup New(a, b)
    /\ \A r \in ToSet(b.out) \ ToSet(a.out) :
          /\ \A q \in Requests : q \notin ToSet(a.out) /\ ~Active(q)
          /\ b.kind[r] # "auto" =>
                \A q \in Queued(b) : q < r => b.kind[q] = "auto"

\* Without a new kind there is no new request.
LEMMA NothingNew ==
    ASSUME NEW a, NEW b, NEW e, Held(a, e), b.kind = a.kind
    PROVE  New(a, b) = {}
<1>1. Len(a.kind) \in Nat
  BY DEF Held, Typed, App
<1>2. QED
  BY <1>1 DEF New

\* An operation that keeps the invariant takes nothing into the queue.
LEMMA SoundTakes ==
    ASSUME NEW a, NEW b, NEW e, Sound(a, b, e)
    PROVE  Takes(a, b)
  BY DEF Sound, Takes

\* After a new request, others may still be given up.
LEMMA TakesChain ==
    ASSUME NEW a, NEW b, NEW c, Takes(a, b), c.kind = b.kind, c.out = b.out,
           Queued(c) \subseteq Queued(b)
    PROVE  Takes(a, c)
  BY DEF Takes, New

\* A handler and the dispatch that follows are one step.
LEMMA TakesFlows ==
    ASSUME NEW a, NEW b, NEW c, NEW e, Takes(a, b), Held(b, e), Flows(b, c), c.kind = b.kind
    PROVE  Flows(a, c)
<1>1. New(b, c) = {} /\ New(a, b) = New(a, c)
  BY NothingNew DEF New
<1>2. QED
  BY <1>1 DEF Takes, Flows

\* Offering a diagnostic again is a matter of the bar.
LEMMA RestoreCore ==
    ASSUME NEW a \in App
    PROVE  Core(a, RestoreCancelledQueuedAutofix(a))
<1>1. Core(a, a)
  BY DEF Core, Keeps, SameQueue, SameTurn
<1>2. QED
  BY <1>1, BarsCore DEF RestoreCancelledQueuedAutofix

\* While the App accepts a prompt, none is anywhere.
LEMMA IdleFacts ==
    ASSUME ClientTypes, NEW a, NEW e, Held(a, e), Accepts(a)
    PROVE  /\ a.out = <<>> /\ \A r \in Requests : ~Active(r) /\ ~About(e, r) /\ r \notin ToSet(a.out)
           /\ \A i \in 1..Len(e) : e[i].type \in Transport /\ e[i].id = 0
<1>0. a.out \in Seq(Requests)
  BY DEF Held, Typed, App
<1>1. \A r \in Requests : ~Active(r) /\ ~About(e, r) /\ r \notin ToSet(a.out)
  BY DEF Held, FlightOK
<1>2. a.out = <<>>
  <2>1. \A i \in 1..Len(a.out) : a.out[i] \in Requests /\ a.out[i] \in ToSet(a.out)
    BY <1>0, InToSet
  <2>2. QED
    BY <1>0, <1>1, <2>1
<1>3. ASSUME NEW i \in 1..Len(e) PROVE e[i].id = 0
  <2>1. e[i] \in Events
    BY DEF Held, Typed
  <2>2. e[i].id \in 0..MaxRequests /\ e[i].id \notin Requests
    BY <1>1, <2>1 DEF Events, About
  <2>3. QED
    BY <2>2, PromptTurnAssumption DEF Requests
<1>4. QED
  BY <1>1, <1>2, <1>3 DEF Held, FlightOK

\* The front of the queue becomes the turn.
Launches(a, b, r) ==
    /\ b \in App /\ b.conn = a.conn /\ b.kind = a.kind /\ b.drops = a.drops
    /\ b.session = a.session /\ b.meaningful = a.meaningful /\ b.cancelled = a.cancelled
    /\ b.resub = a.resub /\ b.queue = Tail(a.queue) /\ b.out = Append(a.out, r)
    /\ b.turn = Turn("Submitted", r)
    /\ b.active = [id |-> r, session |-> a.session, valid |-> TRUE]

Distinct(q) == \A i, j \in 1..Len(q) : i < j => q[i] # q[j]
\* A queue of distinct requests without its first.
LEMMA TailProperties ==
    ASSUME NEW q \in Seq(Requests), q # <<>>, NEW p, p = Tail(q), Distinct(q)
    PROVE  /\ p \in Seq(Requests) /\ Len(p) = Len(q) - 1 /\ Len(q) \in Nat \ {0}
           /\ \A i \in 1..Len(p) : i + 1 \in 1..Len(q) /\ p[i] = q[i + 1]
           /\ Head(q) = q[1] /\ q[1] \in ToSet(q) /\ q[1] \in Requests
           /\ ToSet(p) = ToSet(q) \ {q[1]}
<1>1. /\ p \in Seq(Requests) /\ Len(p) = Len(q) - 1 /\ Len(q) \in Nat \ {0} /\ Head(q) = q[1]
      /\ \A i \in 1..Len(p) : i + 1 \in 1..Len(q) /\ p[i] = q[i + 1]
  BY HeadTailProperties
<1>2. q[1] \in ToSet(q) /\ q[1] \in Requests
  BY <1>1, InToSet
<1>3. ASSUME NEW x \in ToSet(p) PROVE x \in ToSet(q) \ {q[1]}
  <2>1. PICK i \in 1..Len(p) : p[i] = x
    BY ONLY <1>1, <1>3, InToSet
  <2>2. i + 1 \in 1..Len(q) /\ x = q[i + 1] /\ 1 < i + 1 /\ 1 \in 1..Len(q)
    BY <1>1, <2>1
  <2>3. QED
    BY <2>2, InToSet DEF Distinct
<1>4. ASSUME NEW x \in ToSet(q) \ {q[1]} PROVE x \in ToSet(p)
  <2>1. PICK i \in 1..Len(q) : q[i] = x
    BY InToSet
  <2>2. i # 1
    BY <2>1
  <2>3. i - 1 \in 1..Len(p) /\ p[i - 1] = x
    BY <1>1, <2>1, <2>2
  <2>4. QED
    BY <1>1, <2>3, InToSet
<1>5. QED
  BY <1>1, <1>2, <1>3, <1>4

\* The front of the queue becomes the turn and is sent to the client: the
\* invariant is kept, and the request was allowed to start.
LEMMA LaunchesHeld ==
    ASSUME ClientTypes, NEW a, NEW b, NEW e, NEW r, Held(a, e), Accepts(a), open,
           a.conn = "connected", a.queue # <<>>, r = Head(a.queue), r \notin a.resub,
           Launches(a, b, r)
    PROVE  Held(b, e) /\ ServedOK(b, e) /\ Flows(a, b)
<1> DEFINE q == a.queue
           p == b.queue
<1>0. a \in App /\ b \in App /\ q \in Seq(Requests) /\ a.kind \in Seq(Kinds) /\ Len(a.kind) \in Nat
  <2>1. a \in App /\ b \in App
    BY HeldTyped DEF Launches
  <2>2. q \in Seq(Requests) /\ a.kind \in Seq(Kinds)
    BY ONLY <2>1 DEF App, q
  <2>3. QED
    BY ONLY <2>1, <2>2
<1>1. Distinct(q)
  BY DEF Held, QueueOK, Distinct
<1>2. q # <<>> /\ p = Tail(q)
  BY DEF Launches
<1> HIDE DEF p, q
<1>3. /\ p \in Seq(Requests) /\ Len(p) = Len(q) - 1 /\ Len(q) \in Nat \ {0}
      /\ \A i \in 1..Len(p) : i + 1 \in 1..Len(q) /\ p[i] = q[i + 1]
      /\ Head(q) = q[1] /\ q[1] \in ToSet(q) /\ q[1] \in Requests
      /\ ToSet(p) = ToSet(q) \ {q[1]}
  <2>1. q \in Seq(Requests)
    BY <1>0
  <2>2. QED
    BY ONLY <1>1, <1>2, <2>1, TailProperties
<1>4. /\ r = q[1] /\ r \in Requests /\ r \in Queued(a) /\ Queued(b) = Queued(a) \ {r}
  BY <1>3 DEF p, q, Queued
<1>5. /\ b.queue \in Seq(Requests) /\ Len(b.queue) \in Nat
      /\ \A i \in 1..Len(b.queue) : i + 1 \in 1..Len(a.queue) /\ b.queue[i] = a.queue[i + 1]
  BY <1>3 DEF p, q
<1>6. Len(p) = Len(b.queue) /\ Len(q) = Len(a.queue) /\ p = b.queue /\ q = a.queue
  BY DEF p, q
<1>7. /\ a.out = <<>> /\ \A s \in Requests : ~Active(s) /\ ~About(e, s) /\ s \notin ToSet(a.out)
      /\ \A i \in 1..Len(e) : e[i].type \in Transport /\ e[i].id = 0
  BY IdleFacts
<1>8. b.out = <<r>> /\ ToSet(b.out) = {r} /\ Len(b.out) = 1
  BY <1>4, <1>7 DEF Launches, ToSet
<1>9. ~Accepts(b) /\ ~Cancelling(b) /\ b.turn.id = r /\ b.turn.outcome = "none"
      /\ b.active.id = r /\ b.active.session = a.session /\ b.active.valid
  BY DEF Launches, Turn, Accepts, AcceptsNewPrompt, Cancelling
<1>10. /\ b.conn = "connected" /\ b.kind = a.kind /\ b.drops = a.drops /\ b.session = a.session
       /\ b.meaningful = a.meaningful /\ b.cancelled = a.cancelled /\ b.resub = a.resub
  BY DEF Launches
<1>11. Typed(b, e)
  BY <1>0, <1>3, <1>6, PromptTurnAssumption DEF Held, Typed
<1>12. r \in 1..Len(a.kind) /\ r \notin a.cancelled /\ task[r] = "none"
  <2>1. r <= Len(a.kind)
    BY <1>3, <1>4, <1>6 DEF Held, QueueOK
  <2>2. QED
    BY <1>0, <1>4, <2>1 DEF Held, QueueOK, FreshOK, Requests
<1>13. QueueOK(b)
  <2>1. ASSUME NEW i \in 1..Len(b.queue), NEW j \in 1..Len(b.queue), i < j
        PROVE  /\ b.queue[i] # b.queue[j]
               /\ b.kind[b.queue[j]] # "auto" =>
                     b.kind[b.queue[i]] # "auto" /\ b.queue[i] < b.queue[j]
    <3>1. /\ i + 1 \in 1..Len(a.queue) /\ j + 1 \in 1..Len(a.queue) /\ i + 1 < j + 1
          /\ b.queue[i] = a.queue[i + 1] /\ b.queue[j] = a.queue[j + 1]
      BY <1>5, <2>1, SMTT(60)
    <3>2. QED
      BY <1>10, <3>1 DEF Held, QueueOK
  <2>2. \A i \in 1..Len(b.queue) : b.queue[i] <= Len(b.kind)
    BY <1>5, <1>6, <1>10 DEF Held, QueueOK
  <2>3. QED
    BY <1>4, <1>10, <2>1, <2>2 DEF Held, QueueOK
<1>14. FreshOK(b, e)
  <2>1. \A s \in Requests : s > Len(a.kind) => s # r
    BY <1>0, <1>12
  <2>2. QED
    BY <1>4, <1>8, <1>10, <2>1 DEF Held, FreshOK
<1>15. TurnOK(b)
  BY <1>4, <1>9, <1>10, <1>12 DEF TurnOK, CardOK
<1>16. FlightOK(b, e)
  BY <1>4, <1>7, <1>8, <1>9, <1>12 DEF Held, FlightOK
<1>17. TransportOK(b, e)
  BY <1>7, <1>9, <1>10 DEF Held, TransportOK, Has
<1>18. ~Has(e, "connected") /\ \A i \in 1..Len(e) : e[i].type # "connected"
  BY DEF Held, TransportOK, Has
<1>19. (a.drops => a.session \in {0} \cup overtaken)
       /\ (~a.drops /\ a.session \notin overtaken => a.session = binding)
  BY <1>18 DEF Held, SessionOK
<1>20. TaskOK(b, e)
  BY <1>7, <1>8, <1>9, <1>10, <1>19 DEF TaskOK, AtAgent, WithSession, Active
<1>21. EventOK(b, e)
  BY <1>7, <1>18 DEF EventOK, Transport
<1>22. SessionOK(b, e)
  BY <1>8, <1>9, <1>10, <1>19 DEF Held, SessionOK
<1>23. ServedOK(b, e)
  BY <1>8, <1>9 DEF ServedOK, Comes
<1>24. Flows(a, b)
  <2>1. ASSUME NEW s \in Queued(b), b.kind[r] # "auto", s < r PROVE b.kind[s] = "auto"
    <3>1. PICK i \in 1..Len(b.queue) : b.queue[i] = s
      BY <1>3, <1>6, InToSet DEF Queued
    <3>2. /\ 1 \in 1..Len(a.queue) /\ i + 1 \in 1..Len(a.queue) /\ 1 < i + 1
          /\ s = a.queue[i + 1] /\ r = a.queue[1]
      BY <1>3, <1>4, <1>5, <1>6, <3>1
    <3>3. a.kind[s] # "auto" => r < s
      BY <3>2 DEF Held, QueueOK
    <3>4. r \in Nat /\ s \in Nat
      <4>1. r \in Requests /\ s \in Requests
        BY <1>4, <1>5, <3>1
      <4>2. QED
        BY <4>1 DEF Requests
    <3>5. QED
      BY <1>10, <2>1, <3>3, <3>4
  <2>2. QED
    BY <1>4, <1>7, <1>8, <1>10, <2>1 DEF Flows
<1>25. QED
  BY <1>11, <1>13, <1>14, <1>15, <1>16, <1>17, <1>20, <1>21, <1>22, <1>23, <1>24 DEF Held

\* turn_submit_prompt does so.
LEMMA SubmitLaunches ==
    ASSUME NEW a \in App, NEW r \in Requests, a.queue # <<>>,
           NEW b, b = Submit([a EXCEPT !.queue = Tail(@), !.out = Append(@, r)], r)
    PROVE  Launches(a, b, r)
<1> DEFINE c == [a EXCEPT !.queue = Tail(@), !.out = Append(@, r)]
           x == c.kind[r] # "prompt" /\ c.detected = r
           y == c.suggested /\ c.kind[r] = "prompt"
           d == [c EXCEPT !.admitted = x, !.suggested = y, !.staged = 0,
                          !.active = [id |-> r, session |-> c.session, valid |-> TRUE],
                          !.turn = Turn("Submitted", r)]
<1>1. Tail(a.queue) \in Seq(Requests) /\ Append(a.out, r) \in Seq(Requests)
  BY DEF App
<1>2. c \in App /\ c = [a EXCEPT !.queue = Tail(a.queue), !.out = Append(a.out, r)]
  BY <1>1 DEF App
<1>3. r \in 0..MaxRequests /\ Turn("Submitted", r) \in Turns
  <2>1. r \in 0..MaxRequests
    BY DEF Requests
  <2>2. QED
    BY <2>1, TurnTypes
<1>4. /\ c.conn = a.conn /\ c.kind = a.kind /\ c.drops = a.drops
      /\ c.session = a.session /\ c.meaningful = a.meaningful /\ c.cancelled = a.cancelled
      /\ c.resub = a.resub /\ c.queue = Tail(a.queue) /\ c.out = Append(a.out, r)
  BY <1>2 DEF App
<1>5. b = d \/ b = EmitPending([d EXCEPT !.armed = TRUE])
  BY DEF Submit
<1>x. x \in BOOLEAN /\ y \in BOOLEAN
  OBVIOUS
<1> HIDE DEF c, x, y
<1> DEFINE f == [c EXCEPT !.admitted = x, !.suggested = y, !.staged = 0]
           g == [id |-> r, session |-> c.session, valid |-> TRUE]
           h == Turn("Submitted", r)
<1>f. Core(c, f)
  <2>1. c \in App
    BY <1>2
  <2>2. QED
    BY ONLY <1>x, <2>1, ZeroTypes DEF App, Core, Keeps, SameQueue, SameTurn
<1>g. g \in Slots
  BY <1>2, <1>3 DEF App, Slots
<1>h. d = [f EXCEPT !.active = g, !.turn = h] /\ f \in App
  BY <1>f DEF Core, Keeps
<1> HIDE DEF f, g, h
<1>i. /\ d \in App /\ Keeps(f, d) /\ SameQueue(f, d) /\ d.meaningful = f.meaningful
      /\ d.cancelled = f.cancelled /\ d.turn = h /\ d.active = g
  <2>1. h \in Turns
    BY <1>3 DEF h
  <2> HIDE DEF d
  <2>2. QED
    BY ONLY <1>g, <1>h, <2>1 DEF App, Slots, Keeps, SameQueue
<1>6. /\ d \in App /\ d.conn = c.conn /\ d.kind = c.kind /\ d.drops = c.drops
      /\ d.session = c.session /\ d.meaningful = c.meaningful /\ d.cancelled = c.cancelled
      /\ d.resub = c.resub /\ d.queue = c.queue /\ d.out = c.out
      /\ d.turn = Turn("Submitted", r)
      /\ d.active = [id |-> r, session |-> c.session, valid |-> TRUE]
  <2> HIDE DEF d
  <2>1. QED
    BY ONLY <1>f, <1>i DEF Core, Keeps, SameQueue, SameTurn, g, h
<1> HIDE DEF d
<1>7. Launches(a, d, r)
  BY <1>4, <1>6 DEF Launches
<1>8. Core(d, d) /\ Core(d, EmitPending([d EXCEPT !.armed = TRUE]))
  BY <1>6 DEF Core, Keeps, SameQueue, SameTurn, App, EmitPending
<1>9. Core(d, b)
  BY <1>5, <1>8
<1>10. QED
  BY ONLY <1>7, <1>9 DEF Core, Keeps, SameQueue, SameTurn, Launches

\* What the end of every event guarantees.
LEMMA DispatchHeld ==
    ASSUME ClientTypes, NEW a, NEW e, Held(a, e)
    PROVE  /\ Held(Dispatch(a), e) /\ (ServedOK(a, e) => ServedOK(Dispatch(a), e))
           /\ Flows(a, Dispatch(a)) /\ Dispatch(a).kind = a.kind
           /\ a.queue = <<>> => Core(a, Dispatch(a))
<1> DEFINE b == RestoreCancelledQueuedAutofix(a)
           d == Dispatch(a)
           r == Head(b.queue)
<1>0. a \in App /\ Core(a, b)
  BY HeldTyped, RestoreCore
<1>1. Sound(a, b, e)
  BY <1>0, CoreSound
<1>2. b \in App /\ Held(b, e)
  BY <1>1, HeldTyped DEF Sound
<1> HIDE DEF b
<1>3. d = IF b.paused \/ ~BarriersSettled(b) \/ b.queue = <<>> THEN b
          ELSE IF r \in b.resub THEN b
          ELSE IF ~open THEN Pause(b)
          ELSE Submit([b EXCEPT !.queue = Tail(@), !.out = Append(@, r)], r)
  BY DEF Dispatch, b
<1>4. ASSUME NEW c, Sound(a, c, e)
      PROVE  Held(c, e) /\ (ServedOK(a, e) => ServedOK(c, e)) /\ Flows(a, c) /\ c.kind = a.kind
  BY <1>4 DEF Sound, Flows
<1> HIDE DEF d
<1>5. CASE d = b
  BY <1>0, <1>1, <1>4, <1>5 DEF d
<1>6. CASE d # b
  <2>1. /\ BarriersSettled(b) /\ b.queue # <<>> /\ r \notin b.resub
        /\ IF ~open THEN d = Pause(b)
           ELSE d = Submit([b EXCEPT !.queue = Tail(@), !.out = Append(@, r)], r)
    BY <1>3, <1>6
  <2>2. a.queue # <<>>
    BY <1>0, <2>1 DEF Core, SameQueue
  <2>3. CASE ~open
    <3>1. Sound(a, d, e)
      BY <1>1, <1>2, <2>1, <2>3, PauseSound, SoundChain
    <3>2. QED
      BY <1>4, <2>2, <3>1 DEF d
  <2>4. CASE open
    <3>1. Accepts(b) /\ b.conn = "connected"
      BY <2>1 DEF BarriersSettled, Accepts
    <3>2. r \in Requests
      BY <1>2, <2>1 DEF App
    <3>3. Launches(b, d, r)
      BY <1>2, <2>1, <2>4, <3>2, SubmitLaunches
    <3>4. Held(d, e) /\ ServedOK(d, e) /\ Flows(b, d)
      BY <1>2, <2>1, <2>4, <3>1, <3>3, LaunchesHeld
    <3>5. d.kind = b.kind /\ b.kind = a.kind
      BY <1>1, <3>3 DEF Launches, Sound
    <3>6. Flows(a, d)
      BY <1>1, <1>2, <3>4, <3>5, SoundTakes, TakesFlows
    <3>7. QED
      BY <2>2, <3>4, <3>5, <3>6 DEF d
  <2>5. QED
    BY <2>3, <2>4
<1>7. QED
  BY <1>5, <1>6

-----------------------------------------------------------------------------
(* The steps of the App. *)

\* An event of the App with its dispatch keeps the invariant, and its requests
\* in order.
Proceeds == IInv' /\ Flows(app, app') /\ task' = task

\* What holds of the new record and events with the old client holds after
\* the step.
LEMMA Framed ==
    ASSUME UNCHANGED <<clientVars, overtaken>>, ClientTypes',
           Held(app', events'), ServedOK(app', events')
    PROVE  IInv'
<1> USE DEF clientVars
<1>1. Typed(app, events)' /\ QueueOK(app)' /\ TurnOK(app)'
  BY DEF Held, Typed, QueueOK, TurnOK, Accepts, Cancelling, Queued
<1>2. FreshOK(app, events)' /\ FlightOK(app, events)'
  BY DEF Held, FreshOK, FlightOK, Accepts, Queued, About, Active
<1>3. TransportOK(app, events)'
  BY DEF Held, TransportOK, Accepts, Has, Active
<1>4. TaskOK(app, events)'
  BY DEF Held, TaskOK, Known, Told, AtAgent
<1>5. EventOK(app, events)'
  BY DEF Held, EventOK, Known, Told
<1>6. SessionOK(app, events)'
  BY DEF Held, SessionOK, Accepts, Told, Has
<1>7. ServedOK(app, events)'
  BY DEF ServedOK, Accepts, Raced, Comes, Cancelling, Has, Active
<1>8. QED
  BY <1>1, <1>2, <1>3, <1>4, <1>5, <1>6, <1>7 DEF IInv, Held

\* A handler that keeps the invariant, with its dispatch, is a step.
LEMMA DispatchStep ==
    ASSUME IInv, ClientTypes', UNCHANGED <<clientVars, overtaken>>,
           NEW b, Held(b, events'), ServedOK(b, events'), Takes(app, b), app' = Dispatch(b)
    PROVE  Proceeds
<1>0. ClientTypes
  BY DEF IInv
<1>1. /\ Held(app', events') /\ ServedOK(app', events')
      /\ Flows(b, app') /\ app'.kind = b.kind
  BY <1>0, DispatchHeld
<1>2. Flows(app, app')
  BY <1>1, TakesFlows
<1>3. IInv'
  BY <1>1, Framed
<1>4. QED
  BY <1>2, <1>3 DEF Proceeds, clientVars

\* So is an operation that leaves the events alone.
LEMMA SoundStep ==
    ASSUME IInv, ClientTypes', UNCHANGED <<events, clientVars, overtaken>>,
           NEW b, Sound(app, b, events), app' = Dispatch(b)
    PROVE  Proceeds
<1>1. Held(b, events') /\ ServedOK(b, events') /\ Takes(app, b)
  BY SoundTakes DEF Sound, IInv
<1>2. QED
  BY <1>1, DispatchStep

\* What an intervention of the user leaves alone.
LEMMA InterventionTypes ==
    ASSUME IInv, NEW op, Intervention(op)
    PROVE  ClientTypes' /\ UNCHANGED <<events, clientVars, overtaken>>
<1>1. ops' \in 0..MaxOps
  BY PromptTurnAssumption DEF IInv, ClientTypes, Intervention
<1>2. QED
  BY <1>1 DEF IInv, ClientTypes, Intervention, clientVars

\* What an event of the App alone leaves alone.
LEMMA AppOnlyTypes ==
    ASSUME IInv, AppOnly
    PROVE  ClientTypes' /\ UNCHANGED <<events, clientVars, overtaken>>
  BY DEF IInv, ClientTypes, AppOnly, clientVars, userVars

\* The parts of the invariant.
LEMMA IInvParts == IInv => ClientTypes /\ Held(app, events) /\ ServedOK(app, events) /\ app \in App
  BY HeldTyped DEF IInv

\* A failure the bar only offers.
LEMMA CommandFailsUnattendedProceeds ==
    ASSUME IInv, CommandFailsUnattended
    PROVE  Proceeds
<1> DEFINE b == [app EXCEPT !.detected = 0]
<1>1. Core(app, b)
  BY IInvParts, FieldsCore, ZeroTypes
<1> HIDE DEF b
<1>2. b \in App
  BY <1>1 DEF Core, Keeps
<1>3. Core(b, EmitDetected(b))
  BY <1>2, BarsCore
<1>4. Sound(app, EmitDetected(b), events)
  BY <1>1, <1>3, IInvParts, CoreSound, CoreAfter
<1>5. app' = Dispatch(EmitDetected(b)) /\ Intervention("failure")
  BY DEF CommandFailsUnattended, b
<1>6. QED
  BY <1>4, <1>5, InterventionTypes, SoundStep

\* /stop and Esc.
LEMMA StopProceeds ==
    ASSUME IInv, Stop
    PROVE  Proceeds
<1>1. Sound(app, RequestTurnCancel(app), events) /\ Sound(app, Pause(app), events)
  BY IInvParts, RequestTurnCancelSound, PauseSound
<1>2. QED
  BY <1>1, InterventionTypes, SoundStep DEF Stop

\* /clear.
LEMMA ClearProceeds ==
    ASSUME IInv, Clear
    PROVE  Proceeds
<1>1. Sound(app, ClearChatHistory(app), events)
  BY IInvParts, ClearChatHistorySound
<1>2. QED
  BY <1>1, InterventionTypes, SoundStep DEF Clear

\* The queue is resumed or discarded.
LEMMA QueueOpsProceed ==
    ASSUME IInv, ResumePending \/ DiscardPending
    PROVE  Proceeds
<1>1. CASE ResumePending
  <2>1. Core(app, [app EXCEPT !.paused = FALSE])
    BY IInvParts, FieldsCore
  <2>2. Sound(app, [app EXCEPT !.paused = FALSE], events)
    BY <2>1, IInvParts, CoreSound
  <2>3. QED
    BY <1>1, <2>2, InterventionTypes, SoundStep DEF ResumePending
<1>2. CASE DiscardPending
  <2>1. Sound(app, CancelPending(app), events)
    BY IInvParts, CancelPendingSound
  <2>2. QED
    BY <1>2, <2>1, InterventionTypes, SoundStep DEF DiscardPending
<1>3. QED
  BY <1>1, <1>2

\* The place of the user's last request, or 0.
LastOwn(kind, q) == SelectLastInSeq(q, LAMBDA r : kind[r] # "auto")

\* The user's last request is in the queue.
LEMMA LastOwnInQueue ==
    ASSUME NEW q \in Seq(Requests), NEW kind, LastOwn(kind, q) # 0
    PROVE  LastOwn(kind, q) \in 1..Len(q)
<1> DEFINE I == {j \in 1..Len(q) : kind[q[j]] # "auto"}
           D == {Len(q) - j : j \in I}
<1>0. Len(q) \in Nat /\ I \subseteq 1..Len(q) /\ D \subseteq Nat
  OBVIOUS
<1>1. LastOwn(kind, q) = IF I # {} THEN Max(I) ELSE 0
  BY DEF LastOwn, SelectLastInSeq
<1>2. I # {} /\ D # {}
  BY <1>1
<1>3. PICK n \in D : \A m \in D : n <= m
  BY <1>0, <1>2, LeastElement
<1>4. \E j \in I : \A m \in I : j >= m
  <2>1. PICK j \in I : n = Len(q) - j
    BY <1>3
  <2>2. \A m \in I : Len(q) - m \in D
    OBVIOUS
  <2> HIDE DEF D, I
  <2>3. QED
    BY <1>0, <1>3, <2>1, <2>2
<1>5. Max(I) \in I
  BY <1>4 DEF Max
<1>6. QED
  BY <1>0, <1>1, <1>2, <1>5

\* The user's last request goes back into the editor.
LEMMA RecallLastProceeds ==
    ASSUME IInv, RecallLast
    PROVE  Proceeds
<1> DEFINE i == LastOwn(app.kind, app.queue)
           b == Without(app, {app.queue[i]})
<1>1. app \in App /\ app.queue \in Seq(Requests)
  BY IInvParts DEF App
<1>2. i # 0 /\ app' = Dispatch([b EXCEPT !.paused = b.paused /\ b.queue # <<>>])
  BY DEF RecallLast, LastOwn
<1>3. i \in 1..Len(app.queue)
  BY <1>1, <1>2, LastOwnInQueue
<1>4. {app.queue[i]} \subseteq Queued(app)
  BY <1>1, <1>3, InToSet DEF Queued
<1>5. Sound(app, b, events)
  BY <1>4, IInvParts, WithoutSound
<1>6. b \in App
  BY <1>5, HeldTyped DEF Sound
<1> HIDE DEF b
<1>7. (b.paused /\ b.queue # <<>>) \in BOOLEAN
  BY <1>6 DEF App
<1>8. Core(b, [b EXCEPT !.paused = b.paused /\ b.queue # <<>>])
  BY <1>6, <1>7, FieldsCore
<1>9. Sound(app, [b EXCEPT !.paused = b.paused /\ b.queue # <<>>], events)
  BY <1>5, <1>8, CoreAfter
<1>10. Intervention("queue")
  BY DEF RecallLast
<1>11. QED
  BY <1>2, <1>9, <1>10, InterventionTypes, SoundStep

\* The bar may be cleared along the way.
LEMMA ClearedAfter ==
    ASSUME NEW a, NEW b, NEW e, Sound(a, b, e)
    PROVE  Sound(a, EmitCleared(b), e) /\ Sound(a, EmitCleared([b EXCEPT !.armed = FALSE]), e)
<1>1. b \in App
  BY HeldTyped DEF Sound
<1> DEFINE c == [b EXCEPT !.armed = FALSE]
<1>2. Core(b, EmitCleared(b)) /\ Core(b, c)
  BY <1>1, BarsCore, FieldsCore
<1>3. Sound(a, EmitCleared(b), e) /\ Sound(a, c, e)
  BY <1>2, CoreAfter
<1>4. c \in App
  BY <1>2 DEF Core, Keeps
<1> HIDE DEF c
<1>5. Core(c, EmitCleared(c))
  BY <1>4, BarsCore
<1>6. Sound(a, EmitCleared(c), e)
  BY <1>3, <1>5, CoreAfter
<1>7. QED
  BY <1>3, <1>6 DEF c

\* A command starts, succeeds or a prompt is shown.
LEMMA ShellActivityProceeds ==
    ASSUME IInv, ShellActivity
    PROVE  Proceeds
<1> DEFINE a(x) == IF x THEN Without(app, Automatics(app)) ELSE app
           b(x) == IF ~a(x).armed THEN a(x)
                   ELSE IF IsAutomatic(a(x), a(x).turn) THEN TeardownTurn(a(x))
                   ELSE EmitCleared([a(x) EXCEPT !.armed = FALSE])
           c(x) == IF b(x).suggested \/ b(x).bar = "Detected" THEN EmitCleared(b(x)) ELSE b(x)
<1>1. PICK x \in BOOLEAN : app' = Dispatch(c(x))
  BY DEF ShellActivity
<1>2. Sound(app, a(x), events)
  <2>1. Sound(app, Without(app, Automatics(app)), events)
    BY IInvParts, WithoutSound DEF Automatics
  <2>2. Sound(app, app, events)
    BY IInvParts, SoundSelf
  <2>3. QED
    BY <2>1, <2>2
<1> DEFINE y == a(x)
           z == b(x)
<1>3. z \in {y, TeardownTurn(y), EmitCleared([y EXCEPT !.armed = FALSE])}
  OBVIOUS
<1>4. c(x) \in {z, EmitCleared(z)}
  OBVIOUS
<1>5. Sound(app, y, events)
  BY <1>2
<1> HIDE DEF y, z
<1>6. Sound(app, TeardownTurn(y), events)
  <2>1. Sound(y, TeardownTurn(y), events)
    BY <1>5, IInvParts, TeardownSound DEF Sound
  <2>2. QED
    BY <1>5, <2>1, SoundChain
<1>7. Sound(app, z, events)
  BY <1>3, <1>5, <1>6, ClearedAfter
<1>8. Sound(app, c(x), events)
  BY <1>4, <1>7, ClearedAfter
<1> HIDE DEF c
<1>9. QED
  BY <1>1, <1>8, InterventionTypes, SoundStep DEF ShellActivity

\* The pane of the failure is closed.
LEMMA PaneClosedProceeds ==
    ASSUME IInv, PaneClosed
    PROVE  Proceeds
<1> DEFINE a == IF ManualFixes(app) # {}
                THEN Pause(RequireResubmission(app, ManualFixes(app)))
                ELSE Without(app, Automatics(app))
           b == IF IsAutomatic(a, a.turn) THEN TeardownTurn(a)
                ELSE IF a.armed \/ a.suggested \/ a.bar # "Idle"
                     THEN EmitCleared([a EXCEPT !.armed = FALSE]) ELSE a
<1>1. app' = Dispatch(b) /\ Intervention("shell")
  BY DEF PaneClosed
<1>2. Sound(app, a, events)
  <2>1. Sound(app, Without(app, Automatics(app)), events)
    BY IInvParts, WithoutSound DEF Automatics
  <2>2. Sound(app, RequireResubmission(app, ManualFixes(app)), events)
    BY IInvParts, RequireResubmissionSound DEF ManualFixes
  <2>3. Sound(app, Pause(RequireResubmission(app, ManualFixes(app))), events)
    BY <2>2, PauseSound, SoundChain DEF Sound
  <2>4. QED
    BY <2>1, <2>3
<1> HIDE DEF a
<1>3. b \in {a, TeardownTurn(a), EmitCleared([a EXCEPT !.armed = FALSE])}
  OBVIOUS
<1> HIDE DEF b
<1>4. Sound(app, TeardownTurn(a), events)
  <2>1. Sound(a, TeardownTurn(a), events)
    BY <1>2, IInvParts, TeardownSound DEF Sound
  <2>2. QED
    BY <1>2, <2>1, SoundChain
<1>5. Sound(app, b, events)
  BY <1>2, <1>3, <1>4, ClearedAfter
<1>6. QED
  BY <1>1, <1>5, InterventionTypes, SoundStep

\* A proposal is staged while its prompt is at the agent.
LEMMA StageProposalProceeds ==
    ASSUME IInv, NEW r \in Requests, StageProposal(r)
    PROVE  Proceeds
<1>1. r \in 0..MaxRequests
  BY DEF Requests
<1>2. Core(app, [app EXCEPT !.staged = r])
  BY <1>1, IInvParts, FieldsCore
<1>3. Sound(app, [app EXCEPT !.staged = r], events)
  BY <1>2, IInvParts, CoreSound
<1>4. QED
  BY <1>3, InterventionTypes, SoundStep DEF StageProposal

\* The turn of a record changes, with what else changes nothing of note.
LEMMA TurnAfter ==
    ASSUME NEW a, NEW b, NEW c, NEW t \in Turns, a \in App, Core(a, b), c = [b EXCEPT !.turn = t]
    PROVE  /\ Keeps(a, c) /\ SameQueue(a, c) /\ c.active = a.active
           /\ c.meaningful = a.meaningful /\ c.cancelled = a.cancelled /\ c.turn = t
<1>1. b \in App
  BY DEF Core, Keeps
<1>2. /\ Keeps(b, c) /\ SameQueue(b, c) /\ c.active = b.active
      /\ c.meaningful = b.meaningful /\ c.cancelled = b.cancelled /\ c.turn = t
  BY <1>1, TurnField
<1>3. QED
  BY ONLY <1>2, Core(a, b) DEF Core, Keeps, SameQueue, SameTurn

\* A staged proposal becomes a card, or has come too late.
LEMMA CommitProposalProceeds ==
    ASSUME IInv, CommitProposal
    PROVE  Proceeds
<1> DEFINE a == [app EXCEPT !.staged = 0]
           t == Surfaced(app.staged, "card", TRUE)
           card == [a EXCEPT !.turn = t]
<1>0. app \in App /\ app.staged \in 0..MaxRequests
  BY IInvParts DEF App
<1>1. Core(app, a)
  BY <1>0, FieldsCore, ZeroTypes
<1>2. Sound(app, a, events)
  BY <1>1, IInvParts, CoreSound
<1>3. t \in Turns /\ t.st = "Surfaced" /\ t.endPending /\ t.id = app.staged
  BY <1>0, TurnTypes DEF Surfaced
<1> HIDE DEF a, t
<1>4. /\ Keeps(app, card) /\ SameQueue(app, card) /\ card.active = app.active
      /\ card.meaningful = app.meaningful /\ card.cancelled = app.cancelled /\ card.turn = t
  BY <1>0, <1>1, <1>3, TurnAfter
<1> HIDE DEF card
<1>5. PICK p \in BOOLEAN : app' = Dispatch(
             IF app.turn.st \notin {"Submitted", "Streaming"} \/ app.turn.id # app.staged THEN a
             ELSE IF IsAutofix(a, a.turn) THEN EmitResult(card, p) ELSE card)
  BY DEF CommitProposal, a, t, card
<1>6. CASE app.turn.st \notin {"Submitted", "Streaming"} \/ app.turn.id # app.staged
  <2>1. app' = Dispatch(a) /\ AppOnly
    BY <1>5, <1>6 DEF CommitProposal
  <2>2. QED
    BY <1>2, <2>1, AppOnlyTypes, SoundStep
<1>7. CASE app.turn.st \in {"Submitted", "Streaming"} /\ app.turn.id = app.staged
  <2>0. t.id \in Requests
    BY <1>3, <1>7, IInvParts, TurnInRequests DEF Accepts, AcceptsNewPrompt
  <2>1. Advances(app, card)
    BY <1>3, <1>4, <1>7, <2>0 DEF Advances, CardOK, Accepts, AcceptsNewPrompt, Cancelling
  <2>2. Sound(app, card, events) /\ card \in App
    BY <1>4, <2>1, IInvParts, AdvancesSound DEF Keeps
  <2>3. Core(card, EmitResult(card, p))
    BY <2>2, BarsCore
  <2>4. Sound(app, EmitResult(card, p), events)
    BY <2>2, <2>3, CoreAfter
  <2>5. (app' = Dispatch(card) \/ app' = Dispatch(EmitResult(card, p))) /\ AppOnly
    BY <1>5, <1>7 DEF CommitProposal
  <2>6. QED
    BY <2>2, <2>4, <2>5, AppOnlyTypes, SoundStep
<1>8. QED
  BY <1>6, <1>7

\* The caller of a proposal is gone.
LEMMA InvalidateProposalProceeds ==
    ASSUME IInv, InvalidateProposal
    PROVE  Proceeds
<1> DEFINE a == [app EXCEPT !.staged = 0]
<1>1. Core(app, a)
  BY IInvParts, FieldsCore, ZeroTypes
<1>2. Sound(app, a, events)
  BY <1>1, IInvParts, CoreSound
<1>3. (app' = Dispatch(a) \/ app' = Dispatch(RequestTurnCancel(a))) /\ AppOnly
  BY DEF InvalidateProposal
<1> HIDE DEF a
<1>4. Sound(app, RequestTurnCancel(a), events)
  BY <1>2, IInvParts, RequestTurnCancelSound, SoundChain DEF Sound
<1>5. QED
  BY <1>2, <1>3, <1>4, AppOnlyTypes, SoundStep

\* Esc on a card.
LEMMA DismissCardProceeds ==
    ASSUME IInv, DismissCard
    PROVE  Proceeds
<1>1. Sound(app, RequestTurnCancel(app), events)
  BY IInvParts, RequestTurnCancelSound
<1>2. QED
  BY <1>1, AppOnlyTypes, SoundStep DEF DismissCard

\* A card is executed.
LEMMA ExecuteCardProceeds ==
    ASSUME IInv, ExecuteCard
    PROVE  Proceeds
<1> DEFINE s == app.turn
           a == [app EXCEPT !.action = s.id, !.armed = FALSE]
           t == Surfaced(s.id, IF s.endPending THEN "resolved" ELSE "none", s.endPending)
           b == [a EXCEPT !.turn = t]
<1>0. /\ app \in App /\ s \in Turns /\ s.id \in 0..MaxRequests /\ s.endPending \in BOOLEAN
      /\ s.st = "Surfaced" /\ s.id \in Requests
  <2>1. app \in App /\ s \in Turns /\ s.outcome = "card"
    BY IInvParts DEF App, ExecuteCard
  <2>2. s.st = "Surfaced" /\ s.id \in Requests
    BY <2>1, IInvParts DEF Held, TurnOK, CardOK
  <2>3. QED
    BY <2>1, <2>2 DEF Turns
<1>1. Core(app, a)
  BY <1>0 DEF App, Core, Keeps, SameQueue, SameTurn
<1>2. t \in Turns /\ t.st = "Surfaced" /\ t.endPending = s.endPending /\ t.id = s.id /\ t.outcome # "card"
  BY <1>0 DEF Surfaced, Turns
<1>3. (app' = Dispatch(b) \/ app' = Dispatch(EmitCleared(b)))
  BY DEF ExecuteCard
<1> HIDE DEF a, t, s
<1>4. /\ Keeps(app, b) /\ SameQueue(app, b) /\ b.active = app.active
      /\ b.meaningful = app.meaningful /\ b.cancelled = app.cancelled /\ b.turn = t
  BY <1>0, <1>1, <1>2, TurnAfter, ZenonT(60)
<1> HIDE DEF b
<1>s. s = app.turn
  BY DEF s
<1>5. Sound(app, b, events)
  <2>1. CASE s.endPending
    <3>1. Advances(app, b)
      BY <1>0, <1>2, <1>4, <1>s, <2>1 DEF Advances, CardOK, Accepts, AcceptsNewPrompt, Cancelling
    <3>2. QED
      BY <3>1, IInvParts, AdvancesSound
  <2>2. CASE ~s.endPending
    <3>1. Rests(app, b)
      BY <1>0, <1>2, <1>4, <1>s, <2>2 DEF Rests, CardOK, Accepts, AcceptsNewPrompt
    <3>2. QED
      BY <3>1, IInvParts, RestsSound
  <2>3. QED
    BY <2>1, <2>2
<1>6. Sound(app, EmitCleared(b), events)
  BY <1>5, ClearedAfter
<1>8. ClientTypes' /\ UNCHANGED <<events, clientVars, overtaken>>
  BY <1>0, <1>s DEF IInv, ClientTypes, ExecuteCard, clientVars
<1>9. QED
  BY <1>3, <1>5, <1>6, <1>8, SoundStep

\* The execution of a card is over.
LEMMA ExecutionSettledProceeds ==
    ASSUME IInv, NEW r \in Requests, ExecutionSettled(r)
    PROVE  Proceeds
<1> DEFINE a == [app EXCEPT !.action = 0]
<1>1. Core(app, a)
  BY IInvParts, FieldsCore, ZeroTypes
<1>2. Sound(app, a, events) /\ Sound(app, app, events)
  BY <1>1, IInvParts, CoreSound, SoundSelf
<1>3. app' = Dispatch(app) \/ app' = Dispatch(a) \/ app' = Dispatch(Pause(a))
  BY DEF ExecutionSettled
<1> HIDE DEF a
<1>4. Sound(app, Pause(a), events)
  BY <1>2, PauseSound, SoundChain DEF Sound
<1>5. ClientTypes' /\ UNCHANGED <<events, clientVars, overtaken>>
  BY DEF IInv, ClientTypes, ExecutionSettled, clientVars
<1>6. QED
  BY <1>2, <1>3, <1>4, <1>5, SoundStep

\* What waits is not changed by what has just been entered.
LEMMA StillFits ==
    ASSUME NEW a, NEW b, NEW k, Queued(b) = Queued(a), \A q \in Queued(a) : b.kind[q] = a.kind[q],
           CanFit(a, k)
    PROVE  Cardinality(Queued(b) \ ReplacedBy(b, k)) < QueueCap
<1>1. Automatics(b) = Automatics(a)
  BY DEF Automatics
<1>2. ReplacedBy(b, k) = ReplacedBy(a, k)
  BY <1>1 DEF ReplacedBy
<1>3. QED
  BY <1>2 DEF CanFit

\* A request is entered: it gets its number, its place and the dispatch.
LEMMA EnterStep ==
    ASSUME IInv, ClientTypes', UNCHANGED <<events, clientVars, overtaken>>,
           NEW a, NEW b, NEW c, NEW k \in Kinds, Core(app, a), Enters(a, b, k),
           NextRequest \in Requests, CanFit(a, k), Core(Insert(b, NextRequest), c),
           app' = Dispatch(c)
    PROVE  Proceeds
<1> DEFINE n == NextRequest
           d == Insert(b, n)
<1>1. Sound(app, a, events) /\ a.kind = app.kind /\ Queued(a) = Queued(app)
  BY IInvParts, CoreSound DEF Core, Keeps, SameQueue, Queued
<1>2. Held(a, events) /\ ServedOK(a, events) /\ n = Len(a.kind) + 1 /\ a.out = app.out
  BY <1>1, IInvParts DEF Sound, NextRequest
<1> HIDE DEF n
<1>3. n \in Requests
  BY DEF n
<1>4. /\ Held(b, events) /\ ServedOK(b, events) /\ Fresh(b, events, n)
      /\ b.kind[n] = k /\ \A q \in Queued(a) : b.kind[q] = a.kind[q]
  BY <1>2, <1>3, EntersHeld
<1>5. Queued(b) = Queued(a)
  BY DEF Enters, SameQueue, Queued
<1>6. Cardinality(Queued(b) \ ReplacedBy(b, k)) < QueueCap
  BY <1>4, <1>5, StillFits
<1>7. Entering(b, d, events, n)
  BY <1>4, <1>6, InsertHeld
<1>8. Core(d, c)
  BY DEF n
<1> HIDE DEF d
<1>9. Held(c, events) /\ ServedOK(c, events) /\ c.kind = d.kind /\ c.out = d.out /\ Queued(c) \subseteq Queued(d)
  BY <1>4, <1>7, <1>8, CoreSound DEF Entering, Sound
<1>10. c.kind = Append(app.kind, k) /\ c.out = app.out /\ Queued(c) \subseteq Queued(app) \cup {n}
  BY <1>1, <1>2, <1>5, <1>7, <1>9 DEF Entering, Enters
<1>11. New(app, c) = {n}
  <2>1. app.kind \in Seq(Kinds)
    BY IInvParts DEF App
  <2>2. Len(c.kind) = Len(app.kind) + 1 /\ Len(app.kind) \in Nat
    BY <1>10, <2>1
  <2>3. QED
    BY <2>2 DEF New, n, NextRequest
<1>12. Takes(app, c)
  BY <1>10, <1>11 DEF Takes
<1>13. QED
  BY <1>9, <1>12, DispatchStep

\* A kind is added for a new request.
LEMMA EnteredEnters ==
    ASSUME NEW a \in App, NEW k \in Kinds
    PROVE  Enters(a, [a EXCEPT !.kind = Append(@, k)], k)
<1>1. Append(a.kind, k) \in Seq(Kinds)
  BY DEF App
<1>2. QED
  BY <1>1 DEF App, Enters, SameQueue, SameTurn

\* Nothing happens to the bar either.
LEMMA CoreSelf ==
    ASSUME NEW a \in App
    PROVE  Core(a, a)
  BY DEF Core, Keeps, SameQueue, SameTurn

\* Changes of the bar can be chained.
LEMMA CoreChain ==
    ASSUME NEW a, NEW b, NEW c, Core(a, b), Core(b, c)
    PROVE  Core(a, c)
  BY DEF Core, Keeps, SameQueue, SameTurn

\* The record with the inserted request has its type.
LEMMA InsertTyped ==
    ASSUME IInv, NEW a, NEW b, NEW k \in Kinds, Core(app, a), Enters(a, b, k),
           NextRequest \in Requests, CanFit(a, k)
    PROVE  Insert(b, NextRequest) \in App
<1> DEFINE n == NextRequest
<1>1. Sound(app, a, events) /\ n = Len(a.kind) + 1
  BY IInvParts, CoreSound DEF Sound, NextRequest
<1> HIDE DEF n
<1>2. n \in Requests
  BY DEF n
<1>3. /\ Held(b, events) /\ Fresh(b, events, n)
      /\ b.kind[n] = k /\ \A q \in Queued(a) : b.kind[q] = a.kind[q]
  BY <1>1, <1>2, EntersHeld DEF Sound
<1>4. Queued(b) = Queued(a)
  BY DEF Enters, SameQueue, Queued
<1>5. Cardinality(Queued(b) \ ReplacedBy(b, k)) < QueueCap
  BY <1>3, <1>4, StillFits
<1>6. Entering(b, Insert(b, n), events, n)
  BY <1>3, <1>5, InsertHeld
<1>7. QED
  BY <1>6, HeldTyped DEF Entering, n

\* The user enters a prompt, or /fix.
LEMMA EnterPromptProceeds ==
    ASSUME IInv, EnterPrompt \/ EnterFix
    PROVE  Proceeds
<1>1. app \in App /\ Core(app, app)
  BY IInvParts, CoreSelf
<1>2. ASSUME NEW k \in Kinds, MayEnter(k), CanFit(app, k), AppOnly,
             app' = Dispatch(Insert(Entered(k), NextRequest))
      PROVE  Proceeds
  <2>1. Enters(app, Entered(k), k) /\ NextRequest \in Requests
    BY <1>1, <1>2, EnteredEnters DEF Entered, MayEnter
  <2>2. Insert(Entered(k), NextRequest) \in App
    BY <1>1, <1>2, <2>1, InsertTyped
  <2>3. Core(Insert(Entered(k), NextRequest), Insert(Entered(k), NextRequest))
    BY <2>2, CoreSelf
  <2>4. QED
    BY <1>1, <1>2, <2>1, <2>3, AppOnlyTypes, EnterStep
<1>3. QED
  BY <1>2 DEF EnterPrompt, EnterFix, Kinds

\* A command fails and the agent is asked.
LEMMA CommandFailsProceeds ==
    ASSUME IInv, CommandFails
    PROVE  Proceeds
<1> DEFINE a == Entered("auto")
           b == [a EXCEPT !.detected = 0]
           c == EmitDetected(b)
<1>1. app \in App /\ Core(app, app) /\ "auto" \in Kinds
  BY IInvParts, CoreSelf DEF Kinds
<1>2. Enters(app, a, "auto") /\ NextRequest \in Requests
  BY <1>1, EnteredEnters DEF Entered, MayEnter, CommandFails
<1>3. CanFit(app, "auto") /\ AppOnly /\ app' = Dispatch(Insert(c, NextRequest))
  BY DEF CommandFails
<1> HIDE DEF a
<1>4. Core(a, b)
  BY <1>2, FieldsCore, ZeroTypes DEF Enters
<1>5. Core(b, c)
  BY <1>4, BarsCore DEF Core, Keeps
<1>6. Enters(app, c, "auto")
  <2> HIDE DEF b, c
  <2>1. QED
    BY ONLY <1>2, <1>4, <1>5 DEF Enters, Core, Keeps, SameQueue, SameTurn
<1> HIDE DEF c
<1>7. Core(Insert(c, NextRequest), Insert(c, NextRequest))
  BY <1>1, <1>2, <1>3, <1>6, InsertTyped, CoreSelf
<1>8. QED
  BY <1>1, <1>2, <1>3, <1>6, <1>7, AppOnlyTypes, EnterStep

\* The user activates the failure the bar offers.
LEMMA ExecuteFromDetectedProceeds ==
    ASSUME IInv, ExecuteFromDetected
    PROVE  Proceeds
<1> DEFINE a == RestoreCancelledQueuedAutofix(app)
           b == [a EXCEPT !.kind = Append(@, "forced")]
           c == Insert(b, NextRequest)
           d == [c EXCEPT !.detected = NextRequest]
<1>1. Core(app, a) /\ "forced" \in Kinds
  BY IInvParts, RestoreCore DEF Kinds
<1>2. CanFit(a, "forced") /\ AppOnly /\ app' = Dispatch(EmitPending(d)) /\ NextRequest \in Requests
  BY DEF ExecuteFromDetected, MayEnter
<1> HIDE DEF a
<1>3. Enters(a, b, "forced")
  BY <1>1, EnteredEnters DEF Core, Keeps
<1> HIDE DEF b
<1>4. c \in App
  BY <1>1, <1>2, <1>3, InsertTyped
<1>5. NextRequest \in 0..MaxRequests
  BY <1>2 DEF Requests
<1> HIDE DEF c
<1>6. Core(c, d)
  BY <1>4, <1>5, FieldsCore
<1>7. Core(d, EmitPending(d))
  BY <1>6, BarsCore DEF Core, Keeps
<1>8. Core(c, EmitPending(d))
  BY <1>6, <1>7, CoreChain
<1> HIDE DEF d
<1>9. Core(Insert(b, NextRequest), EmitPending(d))
  BY <1>8 DEF c
<1>10. QED
  BY <1>1, <1>2, <1>3, <1>9, AppOnlyTypes, EnterStep

\* The queue is emptied and the turn goes, or waits to be cancelled.
Clears(a, b) ==
    /\ b \in App /\ b.kind = a.kind /\ b.out = a.out /\ b.queue = <<>>
    /\ b.session = 0 /\ ~b.meaningful
    /\ IF Accepts(a)
       THEN b.turn = Idle /\ b.cancelled = a.cancelled \cup Queued(a)
       ELSE /\ b.turn = Turn("Cancelling", a.turn.id)
            /\ b.active.id = a.active.id /\ b.active.session = a.active.session
            /\ ~b.active.valid
            /\ b.cancelled = a.cancelled \cup Queued(a) \cup {a.turn.id}

\* The same but for the sessions.
Empties(a, b) ==
    /\ b \in App /\ b.conn = a.conn /\ b.kind = a.kind /\ b.out = a.out /\ b.queue = <<>>
    /\ b.drops = a.drops
    /\ IF Accepts(a)
       THEN b.turn = Idle /\ b.cancelled = a.cancelled \cup Queued(a)
       ELSE /\ b.turn = Turn("Cancelling", a.turn.id) /\ b.active = a.active
            /\ b.cancelled = a.cancelled \cup Queued(a) \cup {a.turn.id}

\* Nothing is left of a queue that is given up.
LEMMA EmptyKept ==
    ASSUME NEW q \in Seq(Requests)
    PROVE  Kept(q, ToSet(q)) = <<>>
<1> DEFINE k == Kept(q, ToSet(q))
<1>1. k \in Seq(Requests) /\ ToSet(k) = {}
  BY KeptProperties
<1> HIDE DEF k
<1>2. \A i \in 1..Len(k) : k[i] \in ToSet(k)
  BY <1>1, InToSet
<1>3. k = <<>>
  BY <1>1, <1>2
<1>4. QED
  BY <1>3 DEF k

\* What discarding the queue does.
LEMMA CancelPendingFields ==
    ASSUME NEW a \in App
    PROVE  /\ CancelPending(a) \in App /\ CancelPending(a).queue = <<>>
           /\ CancelPending(a).cancelled = a.cancelled \cup Queued(a)
           /\ Keeps(a, CancelPending(a)) /\ SameTurn(a, CancelPending(a))
<1> DEFINE b == CancelPending(a)
<1>1. a.queue \in Seq(Requests) /\ Queued(a) \subseteq Requests
  <2>1. a.queue \in Seq(Requests)
    BY DEF App
  <2>2. QED
    BY <2>1, InToSet DEF Queued
<1>2. Kept(a.queue, Queued(a)) = <<>> /\ <<>> \in Seq(Requests)
  BY <1>1, EmptyKept DEF Queued
<1>3. b = [a EXCEPT !.queue = <<>>, !.cancelled = @ \cup Queued(a), !.resub = @ \ Queued(a),
                    !.paused = FALSE]
  BY <1>2 DEF CancelPending, Without
<1> HIDE DEF b
<1>4. /\ b \in App /\ b.queue = <<>> /\ b.cancelled = a.cancelled \cup Queued(a)
      /\ Keeps(a, b) /\ SameTurn(a, b)
  BY <1>1, <1>2, <1>3 DEF App, Keeps, SameTurn
<1>5. QED
  BY <1>4 DEF b

\* What clearing the conversation and the queue does.
LEMMA ClearsTurn ==
    ASSUME NEW a \in App, ~Accepts(a) => a.turn.id \in Requests /\ a.active.id = a.turn.id
    PROVE  Empties(a, CancelPending(ClearChatHistory(a)))
           /\ CancelPending(ClearChatHistory(a)).session = a.session
<1> DEFINE c == ClearChatHistory(a)
           d == CancelPending(c)
<1>0. Accepts(a) <=> ~IsInFlight(a.turn) /\ ~Cancelling(a)
  BY DEF App, Turns, Accepts, AcceptsNewPrompt, IsInFlight, Cancelling
<1>1. /\ Keeps(a, c) /\ SameQueue(a, c)
      /\ IF Accepts(a) THEN c.turn = Idle /\ c.cancelled = a.cancelled
         ELSE /\ c.turn = Turn("Cancelling", a.turn.id) /\ c.active = a.active
              /\ c.cancelled = a.cancelled \cup {a.turn.id}
  <2>1. CASE ~Accepts(a)
    <3>1. a.turn.id \in Requests /\ a.turn.id \in 0..MaxRequests
      BY <2>1 DEF Requests
    <3> DEFINE x == [a EXCEPT !.cancelled = @ \cup {a.turn.id}]
    <3>2. c = [x EXCEPT !.turn = Turn("Cancelling", a.turn.id)]
      BY <1>0, <2>1 DEF ClearChatHistory, CancelActivePrompt, Cancelling
    <3>3. a.cancelled \cup {a.turn.id} \in SUBSET Requests
      BY <3>1 DEF App
    <3>4. Keeps(a, x) /\ SameQueue(a, x) /\ SameTurn(a, x) /\ x.cancelled = a.cancelled \cup {a.turn.id}
      BY <3>3, CancelledField
    <3>5. Turn("Cancelling", a.turn.id) \in Turns
      BY <3>1, TurnTypes
    <3> HIDE DEF x, c
    <3>6. /\ Keeps(x, c) /\ SameQueue(x, c) /\ c.active = x.active
          /\ c.cancelled = x.cancelled /\ c.turn = Turn("Cancelling", a.turn.id)
      BY <3>2, <3>4, <3>5, TurnField DEF Keeps
    <3>7. QED
      BY ONLY <2>1, <3>4, <3>6 DEF Keeps, SameQueue, SameTurn
  <2>2. CASE Accepts(a)
    <3>1. c = [a EXCEPT !.active = NoPrompt, !.turn = Idle]
      BY <1>0, <2>2 DEF ClearChatHistory, Cancelling
    <3>2. NoPrompt \in Slots /\ Idle \in Turns
      BY NoPromptType, TurnTypes, ZeroTypes
    <3> HIDE DEF c
    <3>3. Keeps(a, c) /\ SameQueue(a, c) /\ c.cancelled = a.cancelled /\ c.turn = Idle
      BY <3>1, <3>2 DEF App, Slots, Keeps, SameQueue
    <3>4. QED
      BY <2>2, <3>3
  <2>3. QED
    BY <2>1, <2>2
<1> HIDE DEF c
<1>2. c \in App
  BY <1>1 DEF Keeps
<1>3. /\ d \in App /\ d.queue = <<>> /\ d.cancelled = c.cancelled \cup Queued(c)
      /\ Keeps(c, d) /\ SameTurn(c, d)
  BY <1>2, CancelPendingFields
<1> HIDE DEF d
<1>4. Queued(c) = Queued(a)
  BY <1>1 DEF SameQueue, Queued
<1>5. Empties(a, d) /\ d.session = a.session
  <2>1. CASE Accepts(a)
    BY ONLY <1>1, <1>3, <1>4, <2>1 DEF Empties, Keeps, SameTurn
  <2>2. CASE ~Accepts(a)
    <3>1. d.cancelled = a.cancelled \cup Queued(a) \cup {a.turn.id}
      BY ONLY <1>1, <1>3, <1>4, <2>2
    <3>2. QED
      BY ONLY <1>1, <1>3, <1>4, <2>2, <3>1 DEF Empties, Keeps, SameTurn
  <2>3. QED
    BY <2>1, <2>2
<1>6. QED
  BY <1>5 DEF c, d

\* What reset_tab_session does to the record of the App.
LEMMA ResetClears ==
    ASSUME IInv, ResetTabSession
    PROVE  Clears(app, app') /\ app'.conn = app.conn /\ app'.drops = open
<1> DEFINE x == [app EXCEPT !.action = 0, !.session = 0]
           d == CancelPending(ClearChatHistory(x))
           b == [d EXCEPT !.active.valid = FALSE, !.meaningful = FALSE, !.drops = open]
<1>0. app \in App /\ open \in BOOLEAN
  BY IInvParts DEF ClientTypes
<1>1. app' = Dispatch(b)
  BY DEF ResetTabSession
<1>2. /\ x \in App /\ x.conn = app.conn /\ x.kind = app.kind /\ x.out = app.out
      /\ SameQueue(app, x) /\ SameTurn(app, x) /\ x.cancelled = app.cancelled /\ x.session = 0
  BY <1>0, ZeroTypes DEF App, SameQueue, SameTurn
<1>3. ~Accepts(app) => app.turn.id \in Requests /\ app.active.id = app.turn.id
  BY IInvParts, TurnInRequests DEF Held, TurnOK
<1> HIDE DEF x
<1>4. Empties(x, d) /\ d.session = 0
  BY <1>2, <1>3, ClearsTurn DEF SameTurn, Accepts
<1> HIDE DEF d
<1>5. d \in App /\ d.active \in Slots
  BY <1>4 DEF Empties, App, Slots
<1>6. /\ b \in App /\ Keeps([d EXCEPT !.drops = open], b) /\ b.queue = d.queue /\ b.turn = d.turn
      /\ b.cancelled = d.cancelled /\ ~b.meaningful /\ b.drops = open
      /\ b.active = [d.active EXCEPT !.valid = FALSE]
  BY <1>0, <1>5 DEF App, Slots, Keeps
<1>7. b.active.id = d.active.id /\ b.active.session = d.active.session /\ ~b.active.valid
  BY <1>5, <1>6 DEF Slots
<1>8. /\ b.conn = d.conn /\ b.kind = d.kind /\ b.out = d.out /\ b.session = d.session
  BY <1>5 DEF App
<1> HIDE DEF b
<1>9. Clears(app, b) /\ b.conn = app.conn /\ b.drops = open
  <2>1. Accepts(x) = Accepts(app) /\ Queued(x) = Queued(app) /\ x.turn = app.turn /\ x.active = app.active
    BY <1>2 DEF Accepts, SameTurn, SameQueue, Queued
  <2>2. QED
    BY <1>2, <1>4, <1>6, <1>7, <1>8, <2>1 DEF Empties, Clears
<1>10. app' = RestoreCancelledQueuedAutofix(b)
  <2> DEFINE c == RestoreCancelledQueuedAutofix(b)
  <2>1. c.queue = <<>>
    BY <1>6, <1>9, RestoreCore DEF Core, SameQueue, Clears
  <2> HIDE DEF c
  <2>2. Dispatch(b) = c
    BY <2>1 DEF Dispatch, c
  <2>3. QED
    BY <1>1, <2>2 DEF c
<1>11. Core(b, app')
  BY <1>6, <1>10, RestoreCore
<1>12. QED
  BY ONLY <1>9, <1>11 DEF Clears, Core, Keeps, SameQueue, SameTurn

\* reset_tab_session keeps the invariant: a startup session that is on its way
\* is overtaken, and the turn waits for the end of its prompt.
LEMMA ResetTabSessionProceeds ==
    ASSUME IInv, ResetTabSession
    PROVE  Proceeds
<1> DEFINE a == app
           b == app'
<1>0. /\ UNCHANGED <<events, clientVars>> /\ overtaken \subseteq overtaken'
      /\ overtaken' = overtaken \cup {s \in Sessions : Ev("connected", 0, s) \in ToSet(events)}
  BY DEF ResetTabSession
<1>1. Held(app, events) /\ ServedOK(app, events) /\ ClientTypes /\ app \in App
  BY IInvParts
<1>2. Clears(app, app') /\ app'.conn = app.conn /\ app'.drops = open
  BY ResetClears
<1>3. /\ b \in App /\ b.conn = a.conn /\ b.kind = a.kind /\ b.out = a.out /\ b.queue = <<>>
      /\ b.drops = open /\ b.session = 0 /\ ~b.meaningful
      /\ b.turn.outcome = "none" /\ Accepts(b) = Accepts(a)
      /\ ~Accepts(a) => /\ Cancelling(b) /\ b.turn.id = a.turn.id /\ b.active.id = a.active.id
                        /\ b.active.session = a.active.session /\ ~b.active.valid
                        /\ b.turn.id \in b.cancelled
      /\ a.cancelled \subseteq b.cancelled
      /\ \A r \in b.cancelled : r \in a.cancelled \/ r \in Queued(a) \/ (~Accepts(a) /\ r = a.turn.id)
  BY <1>2 DEF Clears, Turn, Idle, Accepts, AcceptsNewPrompt, Cancelling
<1>4. Queued(b) = {} /\ Len(b.queue) = 0
  BY <1>3 DEF Queued, ToSet
<1>5. ClientTypes'
  <2>1. ops' \in 0..MaxOps
    BY <1>1, PromptTurnAssumption DEF ClientTypes, ResetTabSession
  <2>2. QED
    BY <1>0, <1>1, <2>1 DEF ClientTypes, ResetTabSession, clientVars
<1> HIDE DEF a, b
<1>6. a = app /\ b = app' /\ events' = events /\ open' = open /\ inFlight' = inFlight
      /\ binding' = binding /\ task' = task /\ sid' = sid /\ current' = current /\ asked' = asked
  BY <1>0 DEF a, b, clientVars
<1>7. Typed(app, events)'
  <2>1. Len(b.queue) <= QueueCap
    BY <1>4, PromptTurnAssumption
  <2>2. QED
    BY <1>1, <1>3, <1>6, <2>1 DEF Held, Typed
<1>8. QueueOK(app)'
  BY <1>4, <1>6 DEF QueueOK
<1>9. \A r \in Queued(a) : r <= Len(a.kind)
  <2>1. a.queue \in Seq(Requests)
    BY <1>1, <1>6 DEF App
  <2>2. QED
    BY <1>1, <1>6, <2>1, InToSet DEF Held, QueueOK, Queued
<1>10. FreshOK(app, events)'
  <2>1. \A r \in b.cancelled : r <= Len(b.kind)
    BY <1>1, <1>3, <1>6, <1>9 DEF Held, FreshOK, TurnOK
  <2>2. QED
    BY <1>1, <1>3, <1>4, <1>6, <2>1 DEF Held, FreshOK, About
<1>11. TurnOK(app)'
  BY <1>1, <1>3, <1>4, <1>6 DEF Held, TurnOK, CardOK, Accepts, Cancelling
<1>12. FlightOK(app, events)'
  BY <1>1, <1>3, <1>6 DEF Held, FlightOK, Accepts, About, Active
<1>13. TransportOK(app, events)'
  BY <1>1, <1>3, <1>6 DEF Held, TransportOK, Accepts, Has, Active
<1>14. \A r \in Requests : Active(r) \/ r \in ToSet(b.out) => ~Accepts(a) /\ r \in b.cancelled
  BY <1>1, <1>3, <1>6 DEF Held, FlightOK
<1>15. ASSUME NEW r, NEW s, ~Accepts(a), Known(a, events, r, s)
       PROVE  \/ b.active.session = s \/ b.active.session \in overtaken'
              \/ b.active.session = 0 /\ ~b.active.valid
  BY <1>0, <1>3, <1>15 DEF Known
<1>16. TaskOK(app, events)'
  <2>1. ASSUME NEW r \in Requests, task[r] \in WithSession
        PROVE  /\ sid[r] # 0
               /\ \/ b.active.session = sid[r] \/ b.active.session \in overtaken'
                  \/ b.active.session = 0 /\ ~b.active.valid
    <3>1. ~Accepts(a)
      BY <1>14, <2>1 DEF Active, WithSession
    <3>2. sid[r] # 0 /\ Known(a, events, r, sid[r])
      BY <1>1, <1>6, <2>1 DEF Held, TaskOK
    <3>3. QED
      BY <1>15, <3>1, <3>2
  <2>2. ASSUME NEW r \in Requests, task[r] = "newSession"
        PROVE  /\ r \in b.cancelled /\ b.active.session \in {0} \cup overtaken'
    BY <1>0, <1>1, <1>3, <1>6, <1>14, <2>2 DEF Held, TaskOK, Active
  <2>3. \A r \in Requests : task[r] = "start" => r \in b.cancelled
    BY <1>14 DEF Active
  <2>4. QED
    BY <1>1, <1>3, <1>6, <1>14, <2>1, <2>2, <2>3 DEF Held, TaskOK, Known, AtAgent
<1>17. EventOK(app, events)'
  <2>1. ASSUME NEW i \in 1..Len(events), events[i].type = "connected"
        PROVE  events[i].session \in overtaken'
    <3>1. events[i] \in Events /\ events[i].id = 0 /\ events[i].session # 0
      BY <1>1, <2>1 DEF Held, Typed, FlightOK, EventOK, Transport
    <3>2. events[i].session \in Sessions
      BY <3>1, PromptTurnAssumption DEF Events, Sessions
    <3>3. events[i] = Ev("connected", 0, events[i].session)
      BY <2>1, <3>1 DEF Events, Ev
    <3>4. events \in Seq(Events)
      BY <1>1 DEF Held, Typed
    <3>5. events[i] \in ToSet(events)
      BY <3>4, InToSet
    <3>6. QED
      BY <1>0, <3>2, <3>3, <3>5
  <2>2. ASSUME NEW i \in 1..Len(events), events[i].type \in {"end", "error", "lost"}
        PROVE  /\ events[i].session # 0
               /\ \/ b.active.session = events[i].session \/ b.active.session \in overtaken'
                  \/ b.active.session = 0 /\ ~b.active.valid
    <3>1. events[i].session # 0 /\ Known(a, events, events[i].id, events[i].session)
      BY <1>1, <1>6, <2>2 DEF Held, EventOK
    <3>2. ~Accepts(a)
      <4>1. events[i] \in Events
        BY <1>1 DEF Held, Typed
      <4>2. events[i].id \in 0..MaxRequests /\ events[i].id # 0
        BY <1>1, <2>2, <4>1 DEF Events, Held, FlightOK, Transport
      <4>3. events[i].id \in Requests
        BY <4>2, PromptTurnAssumption DEF Requests
      <4>4. QED
        BY <1>1, <1>6, <4>3 DEF Held, FlightOK, About
    <3>3. QED
      BY <1>15, <3>1, <3>2
  <2>3. ASSUME NEW i \in 1..Len(events), events[i].type = "settledStarted"
        PROVE  \E s \in asked : \/ b.active.session = s \/ b.active.session \in overtaken'
                                \/ b.active.session = 0 /\ ~b.active.valid
    <3>1. PICK s \in asked : Known(a, events, events[i].id, s)
      BY <1>1, <1>6, <2>3 DEF Held, EventOK
    <3>2. ~Accepts(a)
      <4>1. events[i] \in Events
        BY <1>1 DEF Held, Typed
      <4>2. events[i].id \in 0..MaxRequests /\ events[i].id # 0
        BY <1>1, <2>3, <4>1 DEF Events, Held, FlightOK, Transport
      <4>3. events[i].id \in Requests
        BY <4>2, PromptTurnAssumption DEF Requests
      <4>4. QED
        BY <1>1, <1>6, <4>3 DEF Held, FlightOK, About
    <3>3. QED
      BY <1>15, <3>1, <3>2
  <2>4. ASSUME NEW i \in 1..Len(events), events[i].type = "attached"
        PROVE  ~b.active.valid
    <3>1. events[i] \in Events
      BY <1>1 DEF Held, Typed
    <3>2. events[i].id \in 0..MaxRequests /\ events[i].id # 0
      BY <1>1, <2>4, <3>1 DEF Events, Held, FlightOK, Transport
    <3>3. events[i].id \in Requests
      BY <3>2, PromptTurnAssumption DEF Requests
    <3>4. QED
      BY <1>1, <1>3, <1>6, <3>3 DEF Held, FlightOK, About
  <2>5. QED
    BY <1>1, <1>3, <1>6, <2>1, <2>2, <2>3, <2>4 DEF Held, EventOK, Known
<1>18. SessionOK(app, events)'
  BY <1>3, <1>6 DEF SessionOK, Accepts
<1>19. ServedOK(app, events)'
  BY <1>0, <1>1, <1>3, <1>6 DEF ServedOK, Raced, Comes, Accepts, Cancelling, Has, Active
<1>20. IInv'
  BY <1>5, <1>7, <1>8, <1>10, <1>11, <1>12, <1>13, <1>16, <1>17, <1>18, <1>19 DEF IInv, Held
<1>21. Flows(app, app')
  BY <1>3, <1>4, <1>6 DEF Flows
<1>22. QED
  BY <1>6, <1>20, <1>21 DEF Proceeds

-----------------------------------------------------------------------------
(* The App handles an event. *)

\* What is not about the transport is about the prompt of the turn.
LEMMA EventOfTurn ==
    ASSUME NEW a, NEW e, Held(a, e), NEW i \in 1..Len(e), e[i].type \notin Transport
    PROVE  e[i].id \in Requests /\ ~Accepts(a) /\ a.turn.id = e[i].id
<1>1. e[i] \in Events
  BY DEF Held, Typed
<1>2. e[i].id \in 0..MaxRequests /\ e[i].id # 0
  BY <1>1 DEF Events, Held, FlightOK
<1>3. e[i].id \in Requests
  BY <1>2, PromptTurnAssumption DEF Requests
<1>4. QED
  BY <1>3 DEF Held, FlightOK, About

\* The events t are left of e.
Left(e, t) ==
    /\ t \in Seq(Events) /\ Len(t) \in Nat /\ Len(e) = Len(t) + 1 /\ e[1] \in Events
    /\ \A i \in 1..Len(t) : i + 1 \in 1..Len(e) /\ t[i] = e[i + 1]
    /\ \A i \in 1..Len(e) : i # 1 => i - 1 \in 1..Len(t) /\ t[i - 1] = e[i]

\* The events without the first.
LEMMA TailLeft ==
    ASSUME NEW e \in Seq(Events), e # <<>>
    PROVE  Left(e, Tail(e)) /\ Head(e) = e[1] /\ 1 \in 1..Len(e)
<1> DEFINE t == Tail(e)
<1>1. /\ t \in Seq(Events) /\ Len(t) = Len(e) - 1 /\ Len(e) \in Nat \ {0} /\ Head(e) = e[1]
      /\ \A i \in 1..Len(t) : t[i] = e[i + 1]
  BY HeadTailProperties
<1> HIDE DEF t
<1>2. e[1] \in Events
  BY <1>1
<1>3. QED
  BY <1>1, <1>2 DEF Left, t

\* What is left of the events says no more, and no less but for the first.
LEMMA LeftHas ==
    ASSUME NEW e, NEW t, Left(e, t)
    PROVE  /\ \A r : About(t, r) => About(e, r)
           /\ \A x : Has(t, x) => Has(e, x)
           /\ \A x : Has(e, x) /\ e[1].type # x => Has(t, x)
           /\ \A r, s : Told(t, r, s) => Told(e, r, s)
           /\ \A r, s : Told(e, r, s) /\ e[1].type # "attached" => Told(t, r, s)
<1>1. \A r : About(t, r) => About(e, r)
  BY DEF Left, About
<1>2. \A x : Has(t, x) => Has(e, x)
  BY DEF Left, Has
<1>3. ASSUME NEW x, Has(e, x), e[1].type # x PROVE Has(t, x)
  <2>1. PICK i \in 1..Len(e) : e[i].type = x
    BY <1>3 DEF Has
  <2>2. i # 1
    BY <1>3, <2>1
  <2>3. QED
    BY <2>1, <2>2 DEF Left, Has
<1>4. \A r, s : Told(t, r, s) => Told(e, r, s)
  BY DEF Left, Told
<1>5. ASSUME NEW r, NEW s, Told(e, r, s), e[1].type # "attached" PROVE Told(t, r, s)
  <2>1. PICK i \in 1..Len(e) : e[i] = Ev("attached", r, s)
    BY <1>5 DEF Told
  <2>2. i # 1
    BY <1>5, <2>1 DEF Ev
  <2>3. QED
    BY <2>1, <2>2 DEF Left, Told
<1>6. QED
  BY <1>1, <1>2, <1>3, <1>4, <1>5

\* The events left keep what does not hang on the first of them.
LEMMA LeftFlight ==
    ASSUME NEW a, NEW e, NEW t, Held(a, e), Left(e, t)
    PROVE  Typed(a, t) /\ FreshOK(a, t) /\ FlightOK(a, t)
<1>1. Typed(a, t) /\ FreshOK(a, t)
  BY LeftHas DEF Held, Typed, FreshOK, Left
<1>2. \A i \in 1..Len(t) : t[i].id = 0 <=> t[i].type \in Transport
  BY DEF Held, FlightOK, Left
<1>3. ASSUME NEW i \in 1..Len(t), t[i].type \in Final
      PROVE  task[t[i].id] = "done" /\ \A j \in 1..Len(t) : i < j => t[j].id = 0
  <2>1. i + 1 \in 1..Len(e) /\ t[i] = e[i + 1]
    BY DEF Left
  <2>2. task[t[i].id] = "done" /\ \A j \in 1..Len(e) : i + 1 < j => e[j].id = 0
    BY <1>3, <2>1 DEF Held, FlightOK
  <2>3. ASSUME NEW j \in 1..Len(t), i < j PROVE t[j].id = 0
    <3>1. j + 1 \in 1..Len(e) /\ t[j] = e[j + 1] /\ i + 1 < j + 1
      BY <2>3 DEF Left
    <3>2. QED
      BY <2>2, <3>1
  <2>4. QED
    BY <2>2, <2>3
<1>4. FlightOK(a, t)
  BY <1>2, <1>3, LeftHas DEF Held, FlightOK
<1>5. QED
  BY <1>1, <1>4

\* So is the order of what the transport tells.
LEMMA LeftTransport ==
    ASSUME NEW a, NEW e, NEW t, Held(a, e), Left(e, t), e[1].type \notin Transport
    PROVE  TransportOK(a, t)
<1>0. \A x \in Transport : Has(t, x) <=> Has(e, x)
  BY LeftHas
<1>1. ASSUME NEW i \in 1..Len(t), t[i].type = "disconnected"
      PROVE  Has(t, "retired") /\ \A j \in 1..Len(t) : i < j => t[j].type = "retired"
  <2>1. i + 1 \in 1..Len(e) /\ t[i] = e[i + 1]
    BY DEF Left
  <2>2. Has(e, "retired") /\ \A j \in 1..Len(e) : i + 1 < j => e[j].type = "retired"
    BY <1>1, <2>1 DEF Held, TransportOK
  <2>3. ASSUME NEW j \in 1..Len(t), i < j PROVE t[j].type = "retired"
    <3>1. j + 1 \in 1..Len(e) /\ t[j] = e[j + 1] /\ i + 1 < j + 1
      BY <2>3 DEF Left
    <3>2. QED
      BY <2>2, <3>1
  <2>4. QED
    BY <1>0, <2>2, <2>3 DEF Transport
<1>2. ASSUME NEW i \in 1..Len(t), t[i].type = "retired"
      PROVE  /\ i = Len(t) /\ ~open /\ \A r \in Requests : ~Active(r)
             /\ a.conn = "connecting" \/ Has(t, "disconnected")
  <2>1. i + 1 \in 1..Len(e) /\ t[i] = e[i + 1]
    BY DEF Left
  <2>2. /\ i + 1 = Len(e) /\ ~open /\ \A r \in Requests : ~Active(r)
        /\ a.conn = "connecting" \/ Has(e, "disconnected")
    BY <1>2, <2>1 DEF Held, TransportOK
  <2>3. i = Len(t)
    BY <2>2 DEF Left
  <2>4. QED
    BY <1>0, <2>2, <2>3 DEF Transport
<1>3. ~Has(t, "connected")
  <2>1. ASSUME Has(t, "connected") PROVE FALSE
    <3>1. Has(e, "connected")
      BY <1>0, <2>1 DEF Transport
    <3>2. Len(e) = 1
      BY <3>1 DEF Held, TransportOK
    <3>3. PICK i \in 1..Len(t) : t[i].type = "connected"
      BY <2>1 DEF Has
    <3>4. Len(t) \in Nat /\ Len(e) = Len(t) + 1
      BY DEF Left
    <3>5. Len(t) = 0
      BY ONLY <3>2, <3>4
    <3>6. 1..Len(t) = {}
      BY <3>5
    <3>7. QED
      BY <3>3, <3>6
  <2>2. QED
    BY <2>1
<1>4. QED
  BY <1>0, <1>1, <1>2, <1>3 DEF Held, TransportOK, Left, Transport

\* An event that says nothing of a session or the transport may go.
LEMMA Popped ==
    ASSUME NEW a, NEW e, NEW t, Held(a, e), Left(e, t),
           e[1].type \notin Transport, e[1].type # "attached"
    PROVE  Held(a, t)
<1>1. Typed(a, t) /\ FreshOK(a, t) /\ FlightOK(a, t)
  BY LeftFlight
<1>2. /\ \A x \in Transport : Has(t, x) <=> Has(e, x)
      /\ \A r, s : Told(t, r, s) <=> Told(e, r, s)
  BY LeftHas
<1>3. TransportOK(a, t)
  BY LeftTransport
<1>4. TaskOK(a, t)
  BY <1>2 DEF Held, TaskOK, Known
<1>5. EventOK(a, t)
  <2>1. ASSUME NEW i \in 1..Len(t)
        PROVE  /\ t[i].type \in {"end", "chunk"} => t[i].session \in asked
               /\ t[i].type \in {"end", "error", "lost"} =>
                     t[i].session # 0 /\ Known(a, t, t[i].id, t[i].session)
               /\ t[i].type \in {"settled", "settledStarted"} => t[i].id \in a.cancelled
               /\ t[i].type = "settledStarted" => \E s \in asked : Known(a, t, t[i].id, s)
    BY <1>2 DEF Held, EventOK, Known, Left
  <2>2. ASSUME NEW i \in 1..Len(t), t[i].type = "attached"
        PROVE  /\ task[t[i].id] \notin Unsent /\ t[i].session # 0
               /\ \A j \in 1..Len(t) : t[j].type = "attached" => j = i
               /\ a.active.valid /\ open /\ a.active.session \notin overtaken
                  => binding = t[i].session
    <3>1. i + 1 \in 1..Len(e) /\ t[i] = e[i + 1]
      BY DEF Left
    <3>2. \A j \in 1..Len(t) : t[j].type = "attached" => j = i
      <4>1. ASSUME NEW j \in 1..Len(t), t[j].type = "attached" PROVE j + 1 = i + 1
        BY <2>2, <3>1, <4>1 DEF Held, EventOK, Left
      <4>2. QED
        BY <4>1 DEF Left
    <3>3. QED
      BY <2>2, <3>1, <3>2 DEF Held, EventOK
  <2>3. \A i \in 1..Len(t) : t[i].type = "connected" =>
            /\ t[i].session # 0
            /\ t[i].session \notin overtaken => ~a.drops /\ (open => binding = t[i].session)
    BY DEF Held, EventOK, Left
  <2>4. QED
    BY <2>1, <2>2, <2>3 DEF EventOK
<1>6. SessionOK(a, t)
  BY <1>2 DEF Held, SessionOK, Transport
<1>7. QED
  BY <1>1, <1>3, <1>4, <1>5, <1>6 DEF Held

\* An event that is not the last of its prompt takes nothing from the turn.
LEMMA PoppedServed ==
    ASSUME NEW a, NEW e, NEW t, Left(e, t), ServedOK(a, e),
           e[1].type \notin Transport, e[1].type \notin Final
    PROVE  ServedOK(a, t)
<1>1. Has(e, "retired") => Has(t, "retired")
  BY LeftHas DEF Transport
<1>2. ASSUME NEW i \in 1..Len(e), e[i].type \in Final, e[i].id = a.turn.id
      PROVE  \E j \in 1..Len(t) : t[j].type \in Final /\ t[j].id = a.turn.id
  BY <1>2 DEF Left
<1>3. QED
  BY <1>1, <1>2 DEF ServedOK, Comes

\* After its last event nothing of the prompt is left.
LEMMA LastOfPrompt ==
    ASSUME ClientTypes, NEW a, NEW e, NEW t, Held(a, e), Left(e, t), e[1].type \in Final
    PROVE  /\ \A r \in Requests : r \notin ToSet(a.out) /\ ~Active(r) /\ ~About(t, r)
           /\ ~Accepts(a) /\ a.turn.id = e[1].id /\ a.turn.id \in Requests
           /\ a.conn # "connecting" /\ Held(a, t)
           /\ \A s : ~Told(e, a.turn.id, s)
<1>0. 1 \in 1..Len(e) /\ e[1].type \notin Transport /\ e[1].type # "attached"
  BY DEF Left, Final, Transport
<1>1. e[1].id \in Requests /\ ~Accepts(a) /\ a.turn.id = e[1].id
  BY <1>0, EventOfTurn
<1>2. task[e[1].id] = "done" /\ \A j \in 1..Len(e) : 1 < j => e[j].id = 0
  BY <1>0 DEF Held, FlightOK
<1>3. \A j \in 1..Len(t) : t[j].id = 0
  BY <1>2 DEF Left
<1>4. \A r \in Requests : ~About(t, r)
  BY <1>3 DEF About, Requests
<1>5. About(e, e[1].id)
  BY <1>0 DEF About
<1>6. \A r \in Requests : r \notin ToSet(a.out) /\ ~Active(r)
  BY <1>1, <1>2, <1>5 DEF Held, FlightOK, Active
<1>7. a.conn # "connecting"
  BY <1>0 DEF Held, TransportOK, Final
<1>8. Held(a, t)
  BY <1>0, Popped
<1>9. ASSUME NEW s, Told(e, a.turn.id, s) PROVE FALSE
  <2>1. PICK i \in 1..Len(e) : e[i] = Ev("attached", a.turn.id, s)
    BY <1>9 DEF Told
  <2>2. i # 1
    BY <1>0, <2>1 DEF Ev
  <2>3. e[i].id = 0
    BY <1>2, <2>2 DEF Left
  <2>4. QED
    BY <1>1, <2>1, <2>3 DEF Ev, Requests
<1>10. QED
  BY <1>1, <1>4, <1>6, <1>7, <1>8, <1>9

\* An event that names the session of the prompt reaches its turn, unless a
\* reset has raced it.
LEMMA SessionReaches ==
    ASSUME ClientTypes, NEW a, NEW e, NEW t, Held(a, e), Left(e, t), e[1].type \in {"end", "error", "lost"},
           ~Raced(a)
    PROVE  /\ Cancelling(a) => OwnsBarrier(a, e[1].session)
           /\ ~Cancelling(a) => IsCurrent(a, e[1].session)
<1>0. e[1].type \in Final /\ 1 \in 1..Len(e)
  BY DEF Final, Left
<1>1. ~Accepts(a) /\ a.turn.id = e[1].id /\ \A s : ~Told(e, a.turn.id, s)
  BY <1>0, LastOfPrompt
<1>2. e[1].session # 0 /\ Known(a, e, e[1].id, e[1].session)
  BY <1>0 DEF Held, EventOK
<1>3. ~a.active.valid => Cancelling(a)
  BY <1>1 DEF Held, TurnOK
<1>4. a.active.session = e[1].session
  BY <1>1, <1>2, <1>3 DEF Known, Raced
<1>5. QED
  BY <1>1, <1>2, <1>3, <1>4 DEF Held, TurnOK, OwnsBarrier, IsCurrent, ActiveMatchesSession, Cancelling

\* What the end of the turn does.
LEMMA EndTurnFields ==
    ASSUME NEW a \in App, a.active.id = a.turn.id
    PROVE  /\ Keeps(a, EndTurn(a)) /\ SameQueue(a, EndTurn(a)) /\ EndTurn(a).cancelled = a.cancelled
           /\ EndTurn(a).meaningful = a.meaningful /\ EndTurn(a).turn = Idle
<1> DEFINE b == EndTurn(a)
<1>1. b = [a EXCEPT !.active = NoPrompt, !.turn = Idle]
  BY DEF EndTurn, FinishActivePrompt
<1>2. NoPrompt \in Slots /\ Idle \in Turns
  BY NoPromptType, TurnTypes, ZeroTypes
<1> HIDE DEF b
<1>3. /\ Keeps(a, b) /\ SameQueue(a, b) /\ b.cancelled = a.cancelled
      /\ b.meaningful = a.meaningful /\ b.turn = Idle
  BY <1>1, <1>2 DEF App, Slots, Keeps, SameQueue
<1>4. QED
  BY <1>3 DEF b

\* The turn is over; its conversation may be worth resuming.
LEMMA EndTurnSound ==
    ASSUME ClientTypes, NEW a, NEW t, NEW m \in BOOLEAN, Held(a, t), ~Accepts(a),
           \A r \in Requests : r \notin ToSet(a.out) /\ ~Active(r) /\ ~About(t, r),
           m => a.meaningful \/ a.session \in asked \cup overtaken
    PROVE  Sound(a, EndTurn(a), t) /\ Sound(a, [EndTurn(a) EXCEPT !.meaningful = m], t)
           /\ ServedOK(EndTurn(a), t) /\ ServedOK([EndTurn(a) EXCEPT !.meaningful = m], t)
<1> DEFINE b == EndTurn(a)
           c == [b EXCEPT !.meaningful = m]
<1>0. a \in App /\ a.active.id = a.turn.id
  BY HeldTyped DEF Held, TurnOK
<1>1. /\ Keeps(a, b) /\ SameQueue(a, b) /\ b.cancelled = a.cancelled
      /\ b.meaningful = a.meaningful /\ b.turn = Idle
  BY <1>0, EndTurnFields
<1> HIDE DEF b
<1>2. /\ Keeps(b, c) /\ SameQueue(b, c) /\ c.cancelled = b.cancelled
      /\ c.meaningful = m /\ c.turn = b.turn
  BY <1>1 DEF App, Keeps, SameQueue
<1> HIDE DEF c
<1>3. Keeps(a, c) /\ SameQueue(a, c) /\ c.cancelled = a.cancelled /\ c.turn = Idle
  BY ONLY <1>1, <1>2 DEF Keeps, SameQueue
<1>4. Accepts(b) /\ Accepts(c) /\ CardOK(b.turn) /\ CardOK(c.turn)
  BY <1>1, <1>3 DEF Accepts, AcceptsNewPrompt, CardOK, Idle, Turn
<1>5. Finishes(a, b, t) /\ Finishes(a, c, t)
  BY <1>1, <1>2, <1>3, <1>4 DEF Finishes
<1>6. Sound(a, b, t) /\ Sound(a, c, t)
  BY <1>5, FinishesSound
<1>7. QED
  BY <1>4, <1>6 DEF b, c, ServedOK

\* What the handler of an event must show.
Handles(a, b, t) == Held(b, t) /\ ServedOK(b, t) /\ Takes(a, b)

\* A handler that keeps the invariant of the events left.
LEMMA SoundHandles ==
    ASSUME NEW a, NEW b, NEW t, Sound(a, b, t), ServedOK(b, t)
    PROVE  Handles(a, b, t)
  BY SoundTakes DEF Handles, Sound

\* turn_observe_chunk.
LEMMA OnChunkHandles ==
    ASSUME ClientTypes, NEW a, NEW e, NEW t, Held(a, e), ServedOK(a, e), Left(e, t), e[1].type = "chunk"
    PROVE  Handles(a, OnChunk(a, e[1].session), t)
<1> DEFINE s == e[1].session
           u == IF a.turn.st = "Submitted" THEN Turn("Streaming", a.turn.id) ELSE a.turn
           b == [a EXCEPT !.meaningful = TRUE, !.turn = u]
<1>0. 1 \in 1..Len(e) /\ e[1].type \notin Transport /\ e[1].type \notin Final /\ a \in App
  BY HeldTyped DEF Left, Final, Transport
<1>1. Held(a, t) /\ ServedOK(a, t)
  BY <1>0, Popped, PoppedServed
<1>2. s \in asked /\ ~Accepts(a) /\ a.turn.id = e[1].id /\ a.turn.id \in Requests
  BY <1>0, EventOfTurn DEF Held, EventOK
<1>3. CASE ~IsCurrent(a, s) \/ ~IsInFlight(a.turn)
  <2>1. OnChunk(a, s) = a
    BY <1>3 DEF OnChunk
  <2>2. QED
    BY <1>1, <2>1, SoundSelf, SoundHandles
<1>4. CASE IsCurrent(a, s) /\ IsInFlight(a.turn)
  <2>1. OnChunk(a, s) = b
    BY <1>4 DEF OnChunk
  <2>2. a.session \in asked /\ ~Cancelling(a)
    BY <1>2, <1>4 DEF IsCurrent, Cancelling, IsInFlight
  <2>3. /\ u \in Turns /\ u.id = a.turn.id /\ CardOK(u) /\ u.st # "Cancelling" /\ ~AcceptsNewPrompt(u)
    <3>1. CASE a.turn.st = "Submitted"
      <4>1. a.turn.id \in 0..MaxRequests
        BY <1>2 DEF Requests
      <4>2. QED
        BY <3>1, <4>1, TurnTypes DEF Turn, CardOK, AcceptsNewPrompt
    <3>2. CASE a.turn.st # "Submitted"
      BY <1>0, <1>2, <2>2, <3>2 DEF App, Held, TurnOK, Accepts, Cancelling
    <3>3. QED
      BY <3>1, <3>2
  <2> HIDE DEF u
  <2>4. /\ Keeps(a, b) /\ SameQueue(a, b) /\ b.cancelled = a.cancelled /\ b.active = a.active
        /\ b.turn = u
    BY <1>0, <2>3 DEF App, Keeps, SameQueue
  <2> HIDE DEF b
  <2>5. Advances(a, b)
    BY <1>2, <2>2, <2>3, <2>4 DEF Advances, Accepts, Cancelling
  <2>6. Sound(a, b, t)
    BY <1>1, <2>5, AdvancesSound
  <2>7. ServedOK(b, t)
    BY <1>1, <2>6 DEF Sound
  <2>8. QED
    BY <2>1, <2>6, <2>7, SoundHandles
<1>5. QED
  BY <1>3, <1>4

\* A soft stop pauses the queue.
LEMMA OnSoftStopHandles ==
    ASSUME NEW a, NEW e, NEW t, Held(a, e), ServedOK(a, e), Left(e, t), e[1].type = "softStop"
    PROVE  Handles(a, OnSoftStop(a, e[1].session), t)
<1>0. 1 \in 1..Len(e) /\ e[1].type \notin Transport /\ e[1].type \notin Final
  BY DEF Left, Final, Transport
<1>1. Held(a, t) /\ ServedOK(a, t)
  BY <1>0, Popped, PoppedServed
<1>2. Sound(a, a, t) /\ Sound(a, Pause(a), t)
  BY <1>1, SoundSelf, PauseSound
<1>3. ServedOK(Pause(a), t)
  BY <1>1, <1>2 DEF Sound
<1>4. OnSoftStop(a, e[1].session) \in {a, Pause(a)}
  BY DEF OnSoftStop
<1>5. QED
  BY <1>1, <1>2, <1>3, <1>4, SoundHandles

\* turn_close: a turn in flight whose prompt has come to its end.
LEMMA TurnCloseFields ==
    ASSUME NEW a \in App, NEW p \in BOOLEAN, NEW x \in BOOLEAN, IsInFlight(a.turn),
           a.active.id = a.turn.id, a.turn.id \in Requests
    PROVE  /\ Keeps(a, TurnClose(a, p, x)) /\ SameQueue(a, TurnClose(a, p, x))
           /\ TurnClose(a, p, x).cancelled = a.cancelled
           /\ Accepts(TurnClose(a, p, x)) /\ CardOK(TurnClose(a, p, x).turn)
<1> DEFINE u == a.turn
           b == [a EXCEPT !.meaningful = @ \/ u.st # "Idle"]
           o == IF u.outcome = "card" THEN "card" ELSE "none"
           v == Surfaced(u.id, o, FALSE)
           c == [b EXCEPT !.active = NoPrompt, !.turn = v]
           d == [c EXCEPT !.armed = FALSE]
           z == TurnClose(a, p, x)
<1>0. u \in Turns /\ u.id \in 0..MaxRequests
  BY DEF App, Requests
<1>1. v \in Turns /\ v.st = "Surfaced" /\ ~v.endPending /\ v.id = u.id
  BY <1>0, TurnTypes DEF Surfaced
<1>2. b \in App /\ Keeps(a, b) /\ SameQueue(a, b) /\ b.cancelled = a.cancelled /\ b.active = a.active
  BY DEF App, Keeps, SameQueue
<1>3. FinishActivePrompt(b, u.id) = [b EXCEPT !.active = NoPrompt]
  BY <1>2 DEF FinishActivePrompt
<1>4. z \in {c, EmitCleared(d), EmitResult(c, p)}
  <2>1. [FinishActivePrompt(b, u.id) EXCEPT !.turn = v] = c
    BY <1>3
  <2>2. z = CASE ~IsInFlight(u) -> b
              [] u.st = "Surfaced" -> c
              [] ~IsAutofix(a, u) -> c
              [] u.st = "Submitted" -> EmitCleared(d)
              [] u.st = "Streaming" /\ x -> EmitResult(c, p)
              [] OTHER -> IF a.armed THEN EmitCleared(d) ELSE c
    BY <2>1 DEF TurnClose
  <2>3. u.st \in {"Submitted", "Streaming", "Surfaced"}
    BY DEF IsInFlight
  <2> HIDE DEF c, d, u
  <2>4. QED
    BY <2>2, <2>3 DEF u
<1> HIDE DEF b, v, u
<1>5. /\ Keeps(b, c) /\ SameQueue(b, c) /\ c.cancelled = b.cancelled /\ c.turn = v
  BY <1>1, <1>2, NoPromptType DEF App, Slots, Keeps, SameQueue
<1> HIDE DEF c
<1>6. c \in App
  BY <1>5 DEF Keeps
<1>7. Core(c, c) /\ Core(c, EmitResult(c, p)) /\ Core(c, d)
  BY <1>6, CoreSelf, BarsCore, FieldsCore
<1>8. Core(d, EmitCleared(d))
  BY <1>7, BarsCore DEF Core, Keeps
<1>9. Core(c, EmitCleared(d))
  BY <1>7, <1>8, CoreChain
<1> HIDE DEF d, z
<1>10. Core(c, z)
  BY <1>4, <1>7, <1>9
<1>11. Keeps(a, z) /\ SameQueue(a, z) /\ z.cancelled = a.cancelled /\ z.turn = v
  BY ONLY <1>2, <1>5, <1>10 DEF Core, Keeps, SameQueue, SameTurn
<1>12. v.id \in Requests
  BY <1>1 DEF u
<1>13. QED
  BY <1>1, <1>11, <1>12 DEF Accepts, AcceptsNewPrompt, CardOK, z

\* The end of a prompt closes the turn: nothing of it is under way.
LEMMA OnEndHandles ==
    ASSUME ClientTypes, NEW a, NEW e, NEW t, Held(a, e), Left(e, t), e[1].type = "end",
           NEW p \in BOOLEAN, NEW x \in BOOLEAN
    PROVE  Handles(a, OnEnd(a, e[1].session, p, x), t)
<1> DEFINE s == e[1].session
           b == OnEnd(a, s, p, x)
<1>0. e[1].type \in Final /\ 1 \in 1..Len(e) /\ a \in App
  BY HeldTyped DEF Final, Left
<1>1. /\ \A r \in Requests : r \notin ToSet(a.out) /\ ~Active(r) /\ ~About(t, r)
      /\ ~Accepts(a) /\ a.turn.id \in Requests /\ Held(a, t)
  BY <1>0, LastOfPrompt
<1>2. s \in asked /\ a.active.id = a.turn.id
  BY <1>0, <1>1 DEF Held, EventOK, TurnOK
<1>3. CASE OwnsBarrier(a, s)
  <2> DEFINE m == a.meaningful \/ IsCurrent(a, s)
  <2>1. /\ m \in BOOLEAN /\ (m => a.meaningful \/ a.session \in asked \cup overtaken)
    BY <1>0, <1>2 DEF App, IsCurrent
  <2>2. b = [EndTurn(a) EXCEPT !.meaningful = m]
    <3>1. EndTurn(a).meaningful = a.meaningful
      BY <1>0, <1>2, EndTurnFields
    <3>2. b = [EndTurn(a) EXCEPT !.meaningful = EndTurn(a).meaningful \/ IsCurrent(a, s)]
      BY <1>3 DEF OnEnd
    <3>3. QED
      BY <3>1, <3>2
  <2> HIDE DEF m, b
  <2>3. Sound(a, b, t) /\ ServedOK(b, t)
    BY <1>1, <2>1, <2>2, EndTurnSound
  <2>4. QED
    BY <2>3, SoundHandles DEF b
<1>4. CASE ~OwnsBarrier(a, s) /\ IsCurrent(a, s) /\ ~Cancelling(a)
  <2>1. b = TurnClose(a, p, x)
    BY <1>4 DEF OnEnd, Cancelling
  <2>2. IsInFlight(a.turn) /\ a.session \in asked
    BY <1>1, <1>2, <1>4, InFlightOrNot DEF IsCurrent
  <2> HIDE DEF b
  <2>3. /\ Keeps(a, b) /\ SameQueue(a, b) /\ b.cancelled = a.cancelled /\ Accepts(b) /\ CardOK(b.turn)
    BY <1>0, <1>1, <1>2, <2>1, <2>2, TurnCloseFields
  <2>4. Finishes(a, b, t)
    BY <1>1, <2>2, <2>3 DEF Finishes
  <2>5. Sound(a, b, t) /\ ServedOK(b, t)
    BY <1>1, <2>3, <2>4, FinishesSound DEF ServedOK
  <2>6. QED
    BY <2>5, SoundHandles DEF b
<1>5. CASE ~OwnsBarrier(a, s) /\ ~(IsCurrent(a, s) /\ ~Cancelling(a))
  <2>1. b = a
    BY <1>5 DEF OnEnd, Cancelling
  <2>2. Raced(a)
    BY <1>5, SessionReaches
  <2>3. ServedOK(a, t)
    BY <2>2 DEF ServedOK
  <2>4. QED
    BY <1>1, <2>1, <2>3, SoundSelf, SoundHandles
<1>6. QED
  BY <1>3, <1>4, <1>5

\* The connection to the master is given up.
LEMMA FailedSound ==
    ASSUME NEW a, NEW b, NEW t, Held(a, t), a.conn # "connecting", b = [a EXCEPT !.conn = "failed"]
    PROVE  Sound(a, b, t)
<1>0. a \in App
  BY HeldTyped
<1>1. /\ b \in App /\ b.conn = "failed" /\ b.kind = a.kind /\ b.out = a.out /\ b.drops = a.drops
      /\ b.session = a.session /\ SameQueue(a, b) /\ SameTurn(a, b) /\ b.cancelled = a.cancelled
  BY <1>0 DEF App, SameQueue, SameTurn
<1>2. Typed(b, t) /\ QueueOK(b) /\ FreshOK(b, t) /\ TurnOK(b)
  BY <1>1 DEF Held, Typed, QueueOK, FreshOK, TurnOK, SameQueue, SameTurn, Queued, Accepts,
              Cancelling
<1>3. FlightOK(b, t) /\ TransportOK(b, t)
  BY <1>1 DEF Held, FlightOK, TransportOK, SameTurn, Accepts
<1>4. TaskOK(b, t)
  BY <1>1 DEF Held, TaskOK, SameTurn, Known
<1>5. EventOK(b, t)
  BY <1>1 DEF Held, EventOK, SameTurn, Known
<1>6. SessionOK(b, t)
  BY <1>1 DEF Held, SessionOK, SameTurn, Accepts
<1>7. ServedOK(a, t) => ServedOK(b, t)
  BY <1>1 DEF ServedOK, Raced, Comes, SameTurn, Accepts, Cancelling
<1>8. QED
  BY <1>1, <1>2, <1>3, <1>4, <1>5, <1>6, <1>7 DEF Held, Sound, SameQueue, Queued

\* The queue stops unless the turn was being cancelled anyway, and the turn ends.
LEMMA StopAndEndSound ==
    ASSUME ClientTypes, NEW a, NEW b, NEW t, Held(a, t), ~Accepts(a), b \in {a, Pause(a)},
           \A r \in Requests : r \notin ToSet(a.out) /\ ~Active(r) /\ ~About(t, r)
    PROVE  Sound(a, EndTurn(b), t) /\ ServedOK(EndTurn(b), t)
<1>1. Sound(a, b, t) /\ SameTurn(a, b)
  BY SoundSelf, PauseSound DEF SameTurn
<1>2. /\ Held(b, t) /\ ~Accepts(b) /\ b.out = a.out /\ FALSE \in BOOLEAN
  BY <1>1 DEF Sound, SameTurn, Accepts
<1>3. Sound(b, EndTurn(b), t) /\ ServedOK(EndTurn(b), t)
  BY <1>2, EndTurnSound
<1>4. QED
  BY <1>1, <1>3, SoundChain

\* AgentError ends the turn, for it is the turn's own.
LEMMA OnErrorHandles ==
    ASSUME ClientTypes, NEW a, NEW e, NEW t, Held(a, e), Left(e, t),
           NEW lost \in BOOLEAN, e[1].type \in {"error", "lost"}
    PROVE  Handles(a, OnError(a, e[1].session, lost), t)
<1> DEFINE s == e[1].session
           b == IF a.turn.st = "Cancelling" THEN a ELSE Pause(a)
           c == IF a.turn.st = "Cancelling" /\ ~OwnsBarrier(a, s) THEN b ELSE EndTurn(b)
           z == OnError(a, s, lost)
<1>0. e[1].type \in Final /\ 1 \in 1..Len(e) /\ a \in App
  BY HeldTyped DEF Final, Left
<1>1. /\ \A r \in Requests : r \notin ToSet(a.out) /\ ~Active(r) /\ ~About(t, r)
      /\ ~Accepts(a) /\ Held(a, t) /\ a.conn # "connecting"
  BY <1>0, LastOfPrompt
<1>2. ASSUME Raced(a) PROVE ServedOK(a, t) /\ Sound(a, a, t)
  BY <1>1, <1>2, SoundSelf DEF ServedOK
<1>3. CASE ~IsCurrent(a, s)
  <2>1. z = IF OwnsBarrier(a, s) THEN EndTurn(a) ELSE a
    BY <1>3 DEF OnError
  <2>2. ~OwnsBarrier(a, s) => Raced(a)
    BY <1>3, SessionReaches
  <2>3. Sound(a, EndTurn(a), t) /\ ServedOK(EndTurn(a), t)
    BY <1>1, StopAndEndSound
  <2> HIDE DEF z
  <2>4. Sound(a, z, t) /\ ServedOK(z, t)
    BY <1>2, <2>1, <2>2, <2>3
  <2>5. QED
    BY <2>4, SoundHandles DEF z
<1>4. CASE IsCurrent(a, s)
  <2>1. z = IF lost THEN [c EXCEPT !.conn = "failed"] ELSE c
    BY <1>4 DEF OnError
  <2>2. Sound(a, c, t) /\ ServedOK(c, t)
    <3>1. CASE Cancelling(a) /\ ~OwnsBarrier(a, s)
      <4>1. c = a
        BY <3>1 DEF Cancelling
      <4>2. Raced(a)
        BY <3>1, SessionReaches
      <4>3. QED
        BY <1>2, <4>1, <4>2
    <3>2. CASE ~(Cancelling(a) /\ ~OwnsBarrier(a, s))
      <4>1. c = EndTurn(b) /\ b \in {a, Pause(a)}
        BY <3>2 DEF Cancelling
      <4> HIDE DEF b, c
      <4>2. QED
        BY <1>1, <4>1, StopAndEndSound
    <3>3. QED
      BY <3>1, <3>2
  <2> HIDE DEF c
  <2>3. c.conn = a.conn
    <3>1. Keeps(a, Pause(a)) /\ SameTurn(a, Pause(a))
      <4>1. Trims(a, Without(a, Automatics(a)))
        BY <1>1, WithoutTrims DEF Automatics
      <4> DEFINE x == Without(a, Automatics(a))
      <4>2. Keeps(a, x) /\ SameTurn(a, x)
        BY <4>1 DEF Trims
      <4> HIDE DEF x
      <4>3. Core(x, [x EXCEPT !.paused = (x.queue # <<>>)])
        BY <4>2, FieldsCore DEF Keeps
      <4>4. Pause(a) = [x EXCEPT !.paused = (x.queue # <<>>)]
        BY DEF Pause, x
      <4>5. QED
        BY <4>2, <4>3, <4>4 DEF Core, Keeps, SameTurn
    <3>2. b \in App /\ b.conn = a.conn /\ b.active.id = b.turn.id
      BY <1>0, <1>1, <3>1 DEF Keeps, SameTurn, Held, TurnOK
    <3> HIDE DEF b
    <3>3. EndTurn(b).conn = b.conn
      BY <3>2, EndTurnFields DEF Keeps
    <3>4. QED
      BY <3>2, <3>3 DEF c
  <2>4. Held(c, t) /\ c.conn # "connecting"
    BY <1>1, <2>2, <2>3 DEF Sound
  <2>5. Sound(c, [c EXCEPT !.conn = "failed"], t)
    BY <2>4, FailedSound
  <2>6. Sound(a, [c EXCEPT !.conn = "failed"], t) /\ ServedOK([c EXCEPT !.conn = "failed"], t)
    BY <2>2, <2>5, SoundChain DEF Sound
  <2>7. Sound(a, z, t) /\ ServedOK(z, t)
    BY <2>1, <2>2, <2>6
  <2>8. QED
    BY <2>7, SoundHandles
<1>5. QED
  BY <1>3, <1>4

\* A prompt that failed before it had a session.
LEMMA OnPromptErrorHandles ==
    ASSUME ClientTypes, NEW a, NEW e, NEW t, Held(a, e), Left(e, t), e[1].type = "promptError"
    PROVE  Handles(a, OnPromptError(a, e[1].id), t)
<1>0. e[1].type \in Final
  BY DEF Final
<1>1. /\ \A r \in Requests : r \notin ToSet(a.out) /\ ~Active(r) /\ ~About(t, r)
      /\ ~Accepts(a) /\ Held(a, t) /\ a.turn.id = e[1].id
  BY <1>0, LastOfPrompt
<1> DEFINE b == IF a.turn.st = "Cancelling" THEN a ELSE Pause(a)
<1>2. OnPromptError(a, e[1].id) = EndTurn(b) /\ b \in {a, Pause(a)}
  BY <1>1 DEF OnPromptError
<1> HIDE DEF b
<1>3. Sound(a, EndTurn(b), t) /\ ServedOK(EndTurn(b), t)
  BY <1>1, <1>2, StopAndEndSound
<1>4. QED
  BY <1>2, <1>3, SoundHandles

\* settle_prompt_cancellation.
LEMMA OnSettledHandles ==
    ASSUME ClientTypes, NEW a, NEW e, NEW t, Held(a, e), Left(e, t), NEW started \in BOOLEAN,
           e[1].type = IF started THEN "settledStarted" ELSE "settled"
    PROVE  Handles(a, OnSettled(a, e[1].id, started), t)
<1> DEFINE b == OnSettled(a, e[1].id, started)
<1>0. e[1].type \in Final /\ 1 \in 1..Len(e) /\ a \in App
  BY HeldTyped DEF Final, Left
<1>1. /\ \A r \in Requests : r \notin ToSet(a.out) /\ ~Active(r) /\ ~About(t, r)
      /\ ~Accepts(a) /\ Held(a, t) /\ a.turn.id = e[1].id /\ a.conn # "connecting"
      /\ \A s : ~Told(e, a.turn.id, s)
  BY <1>0, LastOfPrompt
<1>2. CASE Cancelling(a)
  <2> DEFINE m == a.meaningful \/ (started /\ IsCurrent(a, a.active.session))
  <2>1. m => a.meaningful \/ a.session \in asked \cup overtaken
    <3>1. ASSUME started, IsCurrent(a, a.active.session) PROVE a.session \in asked \cup overtaken
      <4>1. PICK s \in asked : Known(a, e, e[1].id, s)
        BY <1>0, <3>1 DEF Held, EventOK
      <4>2. QED
        BY <1>1, <3>1, <4>1 DEF IsCurrent, Known
    <3>2. QED
      BY <3>1
  <2>2. m \in BOOLEAN
    BY <1>0 DEF App
  <2>3. b = [EndTurn(a) EXCEPT !.meaningful = m]
    <3>1. EndTurn(a).meaningful = a.meaningful
      BY <1>0, <1>1, EndTurnFields DEF Held, TurnOK
    <3>2. b = [EndTurn(a) EXCEPT !.meaningful =
                  EndTurn(a).meaningful \/ (started /\ IsCurrent(a, a.active.session))]
      BY <1>1, <1>2 DEF OnSettled, Cancelling
    <3>3. QED
      BY <3>1, <3>2
  <2> HIDE DEF m, b
  <2>4. Sound(a, b, t) /\ ServedOK(b, t)
    BY <1>1, <2>1, <2>2, <2>3, EndTurnSound
  <2>5. QED
    BY <2>4, SoundHandles DEF b
<1>3. CASE ~Cancelling(a)
  <2>1. b = a
    BY <1>3 DEF OnSettled, Cancelling
  <2>2. a.turn.id \in a.cancelled
    BY <1>0, <1>1 DEF Held, EventOK
  <2>3. ~open
    BY <1>1, <1>3, <2>2 DEF Held, TurnOK
  <2>4. ServedOK(a, t)
    BY <1>1, <2>3 DEF ServedOK, Comes
  <2>5. QED
    BY <1>1, <2>1, <2>4, SoundSelf, SoundHandles
<1>4. QED
  BY <1>2, <1>3

\* SessionAttached
LEMMA OnAttachedHandles ==
    ASSUME ClientTypes, NEW a, NEW e, NEW t, Held(a, e), ServedOK(a, e), Left(e, t),
           e[1].type = "attached"
    PROVE  Handles(a, OnAttached(a, e[1].id, e[1].session), t)
<1> DEFINE r == e[1].id
           s == e[1].session
           z == OnAttached(a, r, s)
<1>0. /\ a \in App /\ 1 \in 1..Len(e) /\ e[1].type \notin Transport /\ e[1].type \notin Final
      /\ e[1] \in Events
  BY HeldTyped DEF Left, Transport, Final
<1>1. r \in Requests /\ ~Accepts(a) /\ a.turn.id = r
  BY <1>0, EventOfTurn
<1>2. /\ a.active.id = r /\ (~a.active.valid => Cancelling(a))
      /\ (a.active.valid => a.session = a.active.session)
  BY <1>1 DEF Held, TurnOK
<1>3. Typed(a, t) /\ FreshOK(a, t) /\ FlightOK(a, t)
  BY LeftFlight
<1>4. /\ task[r] \notin Unsent /\ s # 0 /\ \A j \in 1..Len(e) : e[j].type = "attached" => j = 1
      /\ (a.active.valid /\ open /\ a.active.session \notin overtaken => binding = s)
  BY <1>0 DEF Held, EventOK
<1>5. s \in 0..MaxSessions
  BY <1>0 DEF Events
<1>6. a.conn # "connecting" /\ ~Has(e, "connected")
  BY <1>0 DEF Held, TransportOK
<1>7. r \notin ToSet(a.out) /\ About(e, r)
  BY <1>0, <1>1 DEF Held, FreshOK, FlightOK, About
<1>8. \A q \in Requests : q \in ToSet(a.out) \/ Active(q) \/ About(t, q) => q = r
  BY <1>1, <1>3 DEF FlightOK
<1>9. /\ ~Has(t, "connected") /\ \A x \in Transport : Has(t, x) <=> Has(e, x)
      /\ \A j \in 1..Len(t) : t[j].type # "attached"
  <2>1. /\ ~Has(t, "connected") /\ \A x \in Transport : Has(t, x) <=> Has(e, x)
    BY <1>0, <1>6, LeftHas
  <2>2. ASSUME NEW j \in 1..Len(t), t[j].type = "attached" PROVE FALSE
    <3>1. j + 1 = 1 /\ j \in Nat /\ j > 0
      BY <1>4, <2>2 DEF Left
    <3>2. QED
      BY ONLY <3>1
  <2>3. QED
    BY <2>1, <2>2
<1>10. ASSUME NEW x, Told(e, r, x) PROVE x = s
  <2>1. PICK i \in 1..Len(e) : e[i] = Ev("attached", r, x)
    BY <1>10 DEF Told
  <2>2. i = 1
    BY <1>4, <2>1 DEF Ev
  <2>3. QED
    BY <2>1, <2>2 DEF Ev
<1>11. TransportOK(a, t)
  BY <1>0, LeftTransport
<1>12. ServedOK(a, t)
  BY <1>0, PoppedServed
<1>13. ASSUME NEW i \in 1..Len(t), t[i].type \in {"end", "error", "lost", "settledStarted"}
       PROVE  t[i].id = r
  <2>1. i + 1 \in 1..Len(e) /\ t[i] = e[i + 1] /\ e[i + 1].type \notin Transport
    BY <1>13 DEF Left, Transport
  <2>2. QED
    BY <1>1, <2>1, EventOfTurn
<1>14. ASSUME NEW b, b \in App,
              b.conn = a.conn, b.kind = a.kind, b.out = a.out, b.drops = a.drops, SameQueue(a, b),
              b.cancelled = a.cancelled, b.turn = a.turn, b.meaningful = a.meaningful,
              b.active.id = a.active.id, b.active.valid = a.active.valid,
              b.active.valid => b.session = b.active.session,
              \A x : x # 0 /\ Known(a, e, r, x) => Known(b, t, r, x),
              SessionOK(b, t), a.conn = "connecting" => b.session = 0,
              Raced(a) => Raced(b)
       PROVE  Handles(a, b, t)
  <2>1. Typed(b, t) /\ QueueOK(b) /\ FreshOK(b, t)
    BY <1>3, <1>14 DEF Held, Typed, QueueOK, FreshOK, SameQueue, Queued
  <2>2. TurnOK(b)
    BY <1>14 DEF Held, TurnOK, SameQueue, Queued, Accepts, Cancelling
  <2>3. FlightOK(b, t) /\ TransportOK(b, t)
    BY <1>3, <1>6, <1>11, <1>14 DEF FlightOK, TransportOK, Accepts
  <2>4. TaskOK(b, t)
    <3>1. ASSUME NEW q \in Requests
          PROVE  /\ AtAgent(q) => sid[q] \in asked
                 /\ task[q] \in WithSession => sid[q] # 0 /\ Known(b, t, q, sid[q])
                 /\ task[q] \in {"stopping", "cancelDraining", "awaitCancel"} => q \in b.cancelled
      <4>1. task[q] \in WithSession => q = r
        BY <1>8 DEF Active, WithSession
      <4>2. QED
        BY <1>14, <4>1 DEF Held, TaskOK
    <3>2. ASSUME NEW q \in Requests PROVE task[q] # "newSession" /\ task[q] # "start" /\ q \notin ToSet(b.out)
      BY <1>4, <1>7, <1>8, <1>14 DEF Active, Unsent
    <3>3. QED
      BY <3>1, <3>2 DEF TaskOK
  <2>5. EventOK(b, t)
    <3>1. ASSUME NEW i \in 1..Len(t)
          PROVE  /\ t[i].type \in {"end", "chunk"} => t[i].session \in asked
                 /\ t[i].type \in {"end", "error", "lost"} =>
                       t[i].session # 0 /\ Known(a, e, t[i].id, t[i].session)
                 /\ t[i].type \in {"settled", "settledStarted"} => t[i].id \in a.cancelled
                 /\ t[i].type = "settledStarted" => \E x \in asked : Known(a, e, t[i].id, x)
      BY DEF Held, EventOK, Left
    <3>2. \A x \in asked : x # 0
      BY DEF ClientTypes, Sessions
    <3>3. \A i \in 1..Len(t) : t[i].type # "connected"
      BY <1>9 DEF Has
    <3>4. QED
      BY <1>9, <1>13, <1>14, <3>1, <3>2, <3>3 DEF EventOK
  <2>6. ServedOK(b, t)
    BY <1>12, <1>14 DEF ServedOK, Comes, Accepts
  <2>7. Takes(a, b)
    BY <1>14 DEF Takes, SameQueue, Queued
  <2>8. QED
    BY <1>14, <2>1, <2>2, <2>3, <2>4, <2>5, <2>6, <2>7 DEF Held, Handles
<1>15. CASE ~a.active.valid \/ a.active.session \notin {0, s}
  <2>1. z = a
    BY <1>15 DEF OnAttached
  <2>2. \A x : x # 0 /\ Known(a, e, r, x) => Known(a, t, r, x)
    BY <1>10, <1>15 DEF Known
  <2>3. SessionOK(a, t)
    BY <1>2, <1>9, <1>15 DEF Held, SessionOK, Transport
  <2>4. QED
    BY <1>0, <1>2, <1>6, <1>14, <2>1, <2>2, <2>3 DEF SameQueue
<1>16. CASE a.active.valid /\ a.active.session \in {0, s}
  <2> DEFINE b == [a EXCEPT !.session = s, !.active.session = s]
  <2>1. z = b
    BY <1>2, <1>16 DEF OnAttached
  <2>2. a.active \in Slots
    BY <1>0 DEF App, Slots
  <2>3. /\ b \in App /\ b.conn = a.conn /\ b.kind = a.kind /\ b.out = a.out /\ b.drops = a.drops
        /\ SameQueue(a, b) /\ b.cancelled = a.cancelled /\ b.turn = a.turn
        /\ b.meaningful = a.meaningful /\ b.session = s /\ b.active = [a.active EXCEPT !.session = s]
    BY <1>0, <1>5 DEF App, SameQueue
  <2> HIDE DEF b
  <2>4. b.active.id = a.active.id /\ b.active.valid = a.active.valid /\ b.active.session = s
    BY <2>2, <2>3 DEF Slots
  <2>5. \A x : x # 0 /\ Known(a, e, r, x) => Known(b, t, r, x)
    BY <1>10, <1>16, <2>4 DEF Known, ClientTypes, Sessions
  <2>6. 0 \notin overtaken /\ 0 \notin asked
    BY DEF ClientTypes, Sessions
  <2>7. SessionOK(b, t)
    <3>1. ~a.drops
      BY <1>1, <1>7, <1>16 DEF Held, SessionOK
    <3>2. a.meaningful => s \in asked \cup overtaken
      BY <1>2, <1>16, <2>6 DEF Held, SessionOK
    <3>3. open /\ s \notin overtaken => s = binding
      BY <1>4, <1>16, <2>6
    <3>4. QED
      BY <2>3, <3>1, <3>2, <3>3 DEF SessionOK
  <2>8. Raced(a) => Raced(b)
    BY <1>16, <2>4, <2>6 DEF Raced
  <2>9. QED
    BY <1>6, <1>14, <2>1, <2>3, <2>4, <2>5, <2>7, <2>8
<1>17. QED
  BY <1>15, <1>16

\* MasterDisconnected: the queue and the turn are cleared as by a reset.
LEMMA OnDisconnectedHandles ==
    ASSUME ClientTypes, NEW a, NEW e, NEW t, Held(a, e), Left(e, t), e[1].type = "disconnected"
    PROVE  Handles(a, OnDisconnected(a), t)
<1> DEFINE d == CancelPending(ClearChatHistory(a))
           c == EmitCleared(d)
           b == [c EXCEPT !.active.valid = FALSE, !.session = 0, !.meaningful = FALSE, !.staged = 0,
                          !.armed = FALSE, !.action = 0, !.conn = "connecting"]
<1>0. a \in App /\ 1 \in 1..Len(e)
  BY HeldTyped DEF Left
<1>1. Has(e, "retired") /\ \A j \in 1..Len(e) : 1 < j => e[j].type = "retired"
  BY <1>0 DEF Held, TransportOK
<1>2. Has(t, "retired") /\ \A j \in 1..Len(t) : t[j].type = "retired"
  <2>1. Has(t, "retired")
    BY <1>1, LeftHas
  <2>2. ASSUME NEW j \in 1..Len(t) PROVE t[j].type = "retired"
    <3>1. j + 1 \in 1..Len(e) /\ t[j] = e[j + 1] /\ 1 < j + 1
      BY DEF Left
    <3>2. QED
      BY <1>1, <3>1
  <2>3. QED
    BY <2>1, <2>2
<1>3. ~open /\ a.out = <<>> /\ ~a.drops /\ \A r \in Requests : ~Active(r)
  BY <1>1 DEF Held, TransportOK, Has
<1>4. \A i \in 1..Len(t) : t[i].type = "retired" => i = Len(t)
  <2>1. ASSUME NEW i \in 1..Len(t), t[i].type = "retired" PROVE i = Len(t)
    <3>1. i + 1 \in 1..Len(e) /\ e[i + 1].type = "retired"
      BY <2>1 DEF Left
    <3>2. i + 1 = Len(e)
      BY <3>1 DEF Held, TransportOK
    <3>3. QED
      BY <3>2 DEF Left
  <2>2. QED
    BY <2>1
<1>5. ~Accepts(a) => a.turn.id \in Requests /\ a.active.id = a.turn.id /\ a.turn.id \in 1..Len(a.kind)
  BY TurnInRequests DEF Held, TurnOK
<1>6. Empties(a, d)
  BY <1>0, <1>5, ClearsTurn
<1>7. OnDisconnected(a) = b
  BY DEF OnDisconnected
<1> HIDE DEF d
<1>8. Core(d, c)
  BY <1>6, BarsCore DEF Empties
<1> HIDE DEF c
<1>9. c \in App /\ c.active \in Slots
  BY <1>8 DEF Core, Keeps, App, Slots
<1>10. /\ b \in App /\ b.conn = "connecting" /\ b.kind = c.kind /\ b.out = c.out /\ b.drops = c.drops
       /\ b.session = 0 /\ ~b.meaningful /\ b.queue = c.queue /\ b.turn = c.turn
       /\ b.cancelled = c.cancelled /\ b.active = [c.active EXCEPT !.valid = FALSE]
  BY <1>9, ZeroTypes DEF App, Slots
<1> HIDE DEF b
<1>11. b.active.id = c.active.id /\ b.active.session = c.active.session /\ ~b.active.valid
  BY <1>9, <1>10 DEF Slots
<1>12. Clears(a, b) /\ b.drops = a.drops /\ b.conn = "connecting"
  BY <1>6, <1>8, <1>10, <1>11 DEF Empties, Clears, Core, Keeps, SameQueue, SameTurn
<1>13. /\ b \in App /\ b.kind = a.kind /\ b.out = a.out /\ b.queue = <<>>
       /\ b.session = 0 /\ ~b.meaningful /\ Accepts(b) = Accepts(a) /\ b.turn.outcome = "none"
       /\ ~Accepts(a) => /\ Cancelling(b) /\ b.turn.id = a.turn.id /\ b.active.id = a.active.id
                         /\ b.turn.id \in b.cancelled
       /\ \A r \in b.cancelled : r \in a.cancelled \/ r \in Queued(a) \/ (~Accepts(a) /\ r = a.turn.id)
  BY <1>12 DEF Clears, Turn, Idle, Accepts, AcceptsNewPrompt, Cancelling
<1>14. Queued(b) = {} /\ Len(b.queue) = 0
  BY <1>13 DEF Queued, ToSet
<1>15. Typed(a, t) /\ FreshOK(a, t) /\ FlightOK(a, t)
  BY LeftFlight
<1>16. Typed(b, t) /\ QueueOK(b)
  <2>1. Len(b.queue) <= QueueCap
    BY <1>14, PromptTurnAssumption
  <2>2. QED
    BY <1>13, <1>14, <1>15, <2>1 DEF Typed, QueueOK
<1>17. FreshOK(b, t)
  <2>1. \A r \in Queued(a) : r <= Len(a.kind)
    <3>1. a.queue \in Seq(Requests)
      BY <1>0 DEF App
    <3>2. QED
      BY <3>1, InToSet DEF Held, QueueOK, Queued
  <2>2. \A r \in b.cancelled : r <= Len(b.kind)
    BY <1>5, <1>13, <1>15, <2>1 DEF FreshOK
  <2>3. QED
    BY <1>13, <1>14, <1>15, <2>2 DEF FreshOK
<1>18. TurnOK(b)
  BY <1>5, <1>11, <1>13, <1>14 DEF TurnOK, CardOK
<1>19. FlightOK(b, t)
  BY <1>13, <1>15 DEF FlightOK
<1>20. TransportOK(b, t)
  BY <1>2, <1>3, <1>4, <1>12, <1>13 DEF TransportOK, Has
<1>21. TaskOK(b, t)
  BY <1>3, <1>13 DEF TaskOK, AtAgent, WithSession, Active, ToSet
<1>22. EventOK(b, t)
  BY <1>2 DEF EventOK
<1>23. SessionOK(b, t)
  BY <1>3, <1>12, <1>13 DEF SessionOK
<1>24. ServedOK(b, t) /\ Takes(a, b)
  BY <1>2, <1>13, <1>14 DEF ServedOK, Comes, Takes
<1>25. QED
  BY <1>7, <1>16, <1>17, <1>18, <1>19, <1>20, <1>21, <1>22, <1>23, <1>24 DEF Held, Handles

\* A turn in flight that is torn down is being cancelled.
LEMMA TeardownCancels ==
    ASSUME NEW a, NEW e, Held(a, e), IsInFlight(a.turn)
    PROVE  Cancelling(TeardownTurn(a))
<1> DEFINE b == CancelActivePrompt(a, a.turn.id)
           u == Turn("Cancelling", a.turn.id)
           done(c) == [c EXCEPT !.armed = FALSE, !.staged = 0, !.turn = u]
<1>0. a \in App /\ ~Accepts(a)
  BY HeldTyped, InFlightOrNot
<1>1. CASE a.turn.st = "Cancelling"
  <2>1. a.turn.id \in Requests /\ TeardownTurn(a) = [a EXCEPT !.cancelled = @ \cup {a.turn.id}]
    BY <1>0, <1>1, CancelActiveFields, TurnInRequests DEF TeardownTurn
  <2>2. TeardownTurn(a).turn = a.turn
    BY <1>0, <2>1 DEF App
  <2>3. QED
    BY <1>1, <2>2 DEF Cancelling
<1>2. CASE a.turn.st # "Cancelling"
  <2>1. TeardownTurn(a) = done(b) \/ TeardownTurn(a) = done(EmitCleared(b))
    BY <1>2 DEF TeardownTurn
  <2>2. a.turn.id \in Requests /\ b = [a EXCEPT !.cancelled = @ \cup {a.turn.id}]
    BY <1>0, CancelActiveFields, TurnInRequests
  <2>3. a.cancelled \cup {a.turn.id} \in SUBSET Requests
    BY <1>0, <2>2 DEF App
  <2>4. b \in App
    BY <1>0, <2>2, <2>3, CancelledField DEF Keeps
  <2> HIDE DEF b
  <2>5. EmitCleared(b) \in App
    BY <2>4, BarsCore DEF Core, Keeps
  <2>6. ASSUME NEW c \in App PROVE done(c).turn = u
    BY DEF App
  <2>7. TeardownTurn(a).turn = u
    <3> HIDE DEF done
    <3>1. QED
      BY <2>1, <2>4, <2>5, <2>6
  <2>8. QED
    BY <2>7 DEF Cancelling, Turn
<1>3. QED
  BY <1>1, <1>2

\* An event that was the only one leaves none behind.
LEMMA OneLeft ==
    ASSUME NEW e, NEW t, Left(e, t), Len(e) = 1
    PROVE  /\ Len(t) = 0 /\ 1..Len(t) = {}
           /\ \A i \in 1..Len(e) : i = 1
<1>1. Len(t) \in Nat /\ Len(e) = Len(t) + 1
  BY DEF Left
<1>2. \A n \in Nat : \A m : m = n + 1 /\ m = 1 => n = 0
  OBVIOUS
<1>3. Len(t) = 0
  BY ONLY <1>1, <1>2, Len(e) = 1
<1>4. 1..Len(t) = {}
  BY <1>3
<1>5. \A m : m = 1 => \A i \in 1..m : i = 1
  OBVIOUS
<1>6. \A i \in 1..Len(e) : i = 1
  BY ONLY <1>5, Len(e) = 1
<1>7. QED
  BY <1>3, <1>4, <1>6

\* AgentTransportRetired: the end of every prompt of the old transport.
LEMMA OnRetiredHandles ==
    ASSUME ClientTypes, NEW a, NEW e, NEW t, Held(a, e), Left(e, t), e[1].type = "retired"
    PROVE  Handles(a, OnRetired(a), t)
<1> DEFINE b == IF IsInFlight(a.turn) THEN TeardownTurn(a) ELSE a
           c == IF b.turn.st = "Cancelling" THEN EndTurn(b) ELSE b
<1>0. 1 \in 1..Len(e)
  BY DEF Left
<1>1. 1 = Len(e) /\ ~open /\ \A r \in Requests : ~Active(r)
  BY <1>0 DEF Held, TransportOK
<1>2. Len(e) = 1
  BY <1>1
<1>3. Len(t) = 0 /\ 1..Len(t) = {} /\ \A i \in 1..Len(e) : i = 1
  BY ONLY Left(e, t), <1>2, OneLeft
<1>4. OnRetired(a) = c
  BY DEF OnRetired
<1>5. Sound(a, b, e) /\ (Accepts(b) \/ Cancelling(b))
  <2>1. Sound(a, a, e) /\ Sound(a, TeardownTurn(a), e)
    BY SoundSelf, TeardownSound
  <2>2. CASE IsInFlight(a.turn)
    BY <2>1, <2>2, TeardownCancels
  <2>3. CASE ~IsInFlight(a.turn)
    BY <2>1, <2>3, InFlightOrNot
  <2>4. QED
    BY <2>2, <2>3
<1> HIDE DEF b
<1>6. Held(b, e) /\ e[1].id = 0
  BY <1>0, <1>5 DEF Sound, Held, FlightOK, Transport
<1>7. \A r \in Requests : r \notin ToSet(b.out) /\ ~Active(r) /\ ~About(e, r)
  <2>1. b.out = <<>>
    BY <1>1, <1>6 DEF Held, TransportOK
  <2>2. QED
    BY <1>1, <1>3, <1>6, <2>1 DEF About, Requests, ToSet
<1>8. Sound(b, c, e) /\ Accepts(c)
  <2>1. CASE Cancelling(b)
    <3>1. c = EndTurn(b) /\ ~Accepts(b)
      BY <2>1 DEF Cancelling, Accepts, AcceptsNewPrompt
    <3>2. Sound(b, EndTurn(b), e)
      BY <1>6, <1>7, <3>1, StopAndEndSound
    <3>3. EndTurn(b).turn = Idle
      BY <1>6, <3>1, HeldTyped, EndTurnFields DEF Held, TurnOK
    <3>4. QED
      BY <3>1, <3>2, <3>3 DEF Accepts, AcceptsNewPrompt, Idle, Turn
  <2>2. CASE ~Cancelling(b)
    BY <1>5, <1>6, <2>2, SoundSelf DEF Cancelling
  <2>3. QED
    BY <2>1, <2>2
<1> HIDE DEF c
<1>9. Sound(a, c, e) /\ Held(c, e)
  BY <1>5, <1>8, SoundChain DEF Sound
<1>10. Typed(c, t) /\ FreshOK(c, t) /\ FlightOK(c, t)
  BY <1>9, LeftFlight
<1>11. QueueOK(c) /\ TurnOK(c)
  BY <1>9 DEF Held
<1>12. TransportOK(c, t) /\ EventOK(c, t)
  BY <1>3, <1>8, <1>9 DEF Held, TransportOK, EventOK, Has
<1>13. TaskOK(c, t)
  BY <1>1, <1>8, <1>10 DEF FlightOK, TaskOK, AtAgent, WithSession, Active
<1>14. SessionOK(c, t)
  BY <1>1, <1>8, <1>9 DEF Held, SessionOK
<1>15. ServedOK(c, t) /\ Takes(a, c)
  BY <1>8, <1>9, SoundTakes DEF ServedOK
<1>16. QED
  BY <1>4, <1>10, <1>11, <1>12, <1>13, <1>14, <1>15 DEF Held, Handles

\* The new client's startup session becomes the tab's.
LEMMA OnConnectedHandles ==
    ASSUME ClientTypes, NEW a, NEW e, NEW t, Held(a, e), Left(e, t), e[1].type = "connected"
    PROVE  Handles(a, OnConnected(a, e[1].session), t)
<1> DEFINE s == e[1].session
           b == [a EXCEPT !.conn = "connected", !.session = s]
<1>0. 1 \in 1..Len(e) /\ a \in App /\ s \in 0..MaxSessions
  BY HeldTyped DEF Left, Events
<1>1. Len(e) = 1 /\ a.conn = "connecting" /\ a.session = 0
  BY <1>0 DEF Held, TransportOK, Has
<1>2. Len(e) = 1
  BY <1>1
<1>3. Len(t) = 0 /\ 1..Len(t) = {} /\ \A i \in 1..Len(e) : i = 1
  BY ONLY Left(e, t), <1>2, OneLeft
<1>4. Accepts(a)
  BY <1>1, <1>3 DEF Held, TransportOK, Has
<1>5. a.out = <<>> /\ \A r \in Requests : ~Active(r) /\ r \notin ToSet(a.out)
  BY <1>4, IdleFacts
<1>6. OnConnected(a, s) = b
  BY <1>1 DEF OnConnected
<1>7. /\ b \in App /\ b.conn = "connected" /\ b.kind = a.kind /\ b.out = a.out /\ b.drops = a.drops
      /\ b.session = s /\ SameQueue(a, b) /\ SameTurn(a, b) /\ b.cancelled = a.cancelled
  BY <1>0 DEF App, SameQueue, SameTurn
<1> HIDE DEF b
<1>8. Typed(a, t) /\ FreshOK(a, t) /\ FlightOK(a, t)
  BY LeftFlight
<1>9. Typed(b, t) /\ QueueOK(b) /\ FreshOK(b, t) /\ TurnOK(b)
  BY <1>4, <1>7, <1>8 DEF Held, Typed, QueueOK, FreshOK, TurnOK, SameQueue, SameTurn, Queued, Accepts
<1>10. FlightOK(b, t)
  BY <1>7, <1>8 DEF FlightOK, SameTurn, Accepts
<1>11. TransportOK(b, t) /\ EventOK(b, t)
  BY <1>3, <1>7 DEF Held, TransportOK, EventOK, Has
<1>12. TaskOK(b, t)
  BY <1>5, <1>7 DEF TaskOK, AtAgent, WithSession, Active
<1>13. SessionOK(b, t)
  <2>1. 0 \notin asked \cup overtaken
    BY DEF ClientTypes, Sessions
  <2>2. ~b.meaningful
    BY <1>1, <1>7, <2>1 DEF Held, SessionOK, SameTurn
  <2>3. s \notin overtaken => ~a.drops /\ (open => binding = s)
    BY <1>0 DEF Held, EventOK
  <2>4. Accepts(b)
    BY <1>4, <1>7 DEF Accepts, SameTurn
  <2>5. QED
    BY <1>7, <2>2, <2>3, <2>4 DEF SessionOK
<1>14. ServedOK(b, t) /\ Takes(a, b)
  BY <1>4, <1>7 DEF ServedOK, Accepts, SameTurn, SameQueue, Takes, Queued
<1>15. QED
  BY <1>6, <1>9, <1>10, <1>11, <1>12, <1>13, <1>14 DEF Held, Handles

\* Every event of the client keeps the invariant when it is handled.
LEMMA HandleEventProceeds ==
    ASSUME IInv, HandleEvent
    PROVE  Proceeds
<1> DEFINE e == events
           t == Tail(events)
           h == Head(events)
<1>0. ClientTypes /\ Held(app, events) /\ ServedOK(app, events) /\ e \in Seq(Events) /\ e # <<>>
  BY IInvParts DEF HandleEvent, Held, Typed
<1>1. Left(e, t) /\ h = e[1] /\ 1 \in 1..Len(e)
  BY <1>0, TailLeft
<1>2. PICK a \in Handled(h) : app' = Dispatch(a)
  BY DEF HandleEvent
<1>3. events' = t /\ ClientTypes' /\ UNCHANGED <<clientVars, overtaken>>
  BY <1>0 DEF HandleEvent, ClientTypes, clientVars, userVars
<1> HIDE DEF e, t, h
<1>4. Held(app, e) /\ ServedOK(app, e)
  BY <1>0 DEF e
<1>5. h.type \in Transport \cup Final \cup Output
  BY <1>1 DEF Left, Events
<1>6. Handles(app, a, t)
  <2>1. CASE h.type = "end"
    <3>1. a \in {OnEnd(app, h.session, p, x) : p \in BOOLEAN, x \in BOOLEAN}
      BY <1>2, <2>1 DEF Handled
    <3>2. PICK p \in BOOLEAN, x \in BOOLEAN : a = OnEnd(app, h.session, p, x)
      BY <3>1
    <3>3. QED
      BY <1>0, <1>1, <1>4, <2>1, <3>2, OnEndHandles
  <2>2. CASE h.type = "chunk"
    BY <1>0, <1>1, <1>2, <1>4, <2>2, OnChunkHandles DEF Handled
  <2>3. CASE h.type = "softStop"
    BY <1>0, <1>1, <1>2, <1>4, <2>3, OnSoftStopHandles DEF Handled
  <2>4. CASE h.type = "error"
    <3>1. a = OnError(app, h.session, FALSE)
      BY <1>2, <2>4 DEF Handled
    <3>2. QED
      BY <1>0, <1>1, <1>4, <2>4, <3>1, OnErrorHandles
  <2>5. CASE h.type = "lost"
    <3>1. a = OnError(app, h.session, TRUE)
      BY <1>2, <2>5 DEF Handled
    <3>2. QED
      BY <1>0, <1>1, <1>4, <2>5, <3>1, OnErrorHandles
  <2>6. CASE h.type = "promptError"
    BY <1>0, <1>1, <1>2, <1>4, <2>6, OnPromptErrorHandles DEF Handled
  <2>7. CASE h.type = "settled"
    <3>1. a = OnSettled(app, h.id, FALSE)
      BY <1>2, <2>7 DEF Handled
    <3>2. QED
      BY <1>0, <1>1, <1>4, <2>7, <3>1, OnSettledHandles
  <2>8. CASE h.type = "settledStarted"
    <3>1. a = OnSettled(app, h.id, TRUE)
      BY <1>2, <2>8 DEF Handled
    <3>2. QED
      BY <1>0, <1>1, <1>4, <2>8, <3>1, OnSettledHandles
  <2>9. CASE h.type = "attached"
    BY <1>0, <1>1, <1>2, <1>4, <2>9, OnAttachedHandles DEF Handled
  <2>10. CASE h.type = "disconnected"
    BY <1>0, <1>1, <1>2, <1>4, <2>10, OnDisconnectedHandles DEF Handled
  <2>11. CASE h.type = "retired"
    BY <1>0, <1>1, <1>2, <1>4, <2>11, OnRetiredHandles DEF Handled
  <2>12. CASE h.type = "connected"
    BY <1>0, <1>1, <1>2, <1>4, <2>12, OnConnectedHandles DEF Handled
  <2>13. QED
    BY <1>5, <2>1, <2>2, <2>3, <2>4, <2>5, <2>6, <2>7, <2>8, <2>9, <2>10, <2>11, <2>12
       DEF Transport, Final, Output
<1>7. QED
  BY <1>2, <1>3, <1>6, DispatchStep DEF Handles

-----------------------------------------------------------------------------
(* The steps of the ACP client. *)

\* The events f are the events e and then some that the client publishes.
Grows(e, f) ==
    /\ f \in Seq(Events) /\ Len(e) \in Nat /\ Len(f) \in Nat /\ Len(e) <= Len(f)
    /\ \A i \in 1..Len(e) : i \in 1..Len(f) /\ f[i] = e[i]

\* One more event.
LEMMA OneMore ==
    ASSUME NEW e \in Seq(Events), NEW x \in Events, NEW f, f = e \o <<x>>
    PROVE  /\ Grows(e, f) /\ Len(f) = Len(e) + 1 /\ f[Len(f)] = x
           /\ \A i \in 1..Len(f) : i \in 1..Len(e) \/ i = Len(f)
<1>1. /\ f \in Seq(Events) /\ Len(f) = Len(e) + 1 /\ Len(e) \in Nat
      /\ \A i \in 1..Len(e) : f[i] = e[i]
  OBVIOUS
<1>2. f[Len(e) + 1] = x
  OBVIOUS
<1>3. f[Len(f)] = x
  BY ONLY <1>1, <1>2
<1>4. Len(e) <= Len(f) /\ \A i \in 1..Len(e) : i \in 1..Len(f)
  BY ONLY <1>1
<1>5. \A i \in 1..Len(f) : i \in 1..Len(e) \/ i = Len(f)
  BY ONLY <1>1
<1>6. QED
  BY <1>1, <1>3, <1>4, <1>5 DEF Grows

\* Two more.
Adds(e, g, f) ==
    /\ Grows(e, f) /\ Len(f) = Len(e) + 2 /\ f[Len(e) + 1] = g[1] /\ f[Len(f)] = g[2]
    /\ \A i \in 1..Len(f) : i \in 1..Len(e) \/ i = Len(e) + 1 \/ i = Len(f)

\* What two more events add.
LEMMA TwoMore ==
    ASSUME NEW e \in Seq(Events), NEW g \in Seq(Events), Len(g) = 2, NEW f, f = e \o g
    PROVE  Adds(e, g, f)
<1>0. /\ f \in Seq(Events) /\ Len(f) = Len(e) + Len(g)
      /\ \A i \in 1..(Len(e) + Len(g)) : f[i] = IF i <= Len(e) THEN e[i] ELSE g[i - Len(e)]
  BY ConcatProperties, Zenon
<1>1. /\ f \in Seq(Events) /\ Len(f) = Len(e) + 2 /\ Len(e) \in Nat
      /\ \A i \in 1..Len(e) : f[i] = e[i]
  <2>1. Len(g) = 2 /\ Len(e) \in Nat
    OBVIOUS
  <2>2. QED
    BY ONLY <1>0, <2>1
<1>2. f[Len(e) + 1] = g[1] /\ f[Len(e) + 2] = g[2]
  <2>1. Len(e) \in Nat /\ Len(e) + 1 \in 1..(Len(e) + 2) /\ Len(e) + 2 \in 1..(Len(e) + 2)
    OBVIOUS
  <2>2. f[Len(e) + 1] = g[Len(e) + 1 - Len(e)] /\ f[Len(e) + 2] = g[Len(e) + 2 - Len(e)]
    <3>1. Len(g) = 2
      OBVIOUS
    <3>2. QED
      BY ONLY <1>0, <2>1, <3>1
  <2>3. \A n \in Nat : n + 1 - n = 1 /\ n + 2 - n = 2
    OBVIOUS
  <2>4. Len(e) + 1 - Len(e) = 1 /\ Len(e) + 2 - Len(e) = 2
    BY ONLY <2>1, <2>3
  <2>5. QED
    BY ONLY <2>2, <2>4
<1>3. f[Len(f)] = g[2]
  BY ONLY <1>1, <1>2
<1>4. Len(e) <= Len(f) /\ \A i \in 1..Len(e) : i \in 1..Len(f)
  BY ONLY <1>1
<1>5. \A i \in 1..Len(f) : i \in 1..Len(e) \/ i = Len(e) + 1 \/ i = Len(f)
  BY ONLY <1>1
<1>6. QED
  BY <1>1, <1>2, <1>3, <1>4, <1>5 DEF Adds, Grows

\* What the App knows of a session it still knows when more is published.
LEMMA GrowsTold ==
    ASSUME NEW e, NEW f, Grows(e, f)
    PROVE  /\ \A r, s : Told(e, r, s) => Told(f, r, s)
           /\ \A x : Has(e, x) => Has(f, x)
  BY DEF Grows, Told, Has

\* What a prompt that is under way says of everything else: it is the prompt
\* of the turn and the only one, all that is published is output of it, and
\* the transport is not being retired.
LEMMA BusyFacts ==
    ASSUME IInv, NEW r \in Requests, r \in ToSet(app.out) \/ Active(r)
    PROVE  /\ ~Accepts(app) /\ app.turn.id = r /\ app.active.id = r
           /\ r \notin Queued(app) /\ r <= Len(app.kind) /\ app.conn # "connecting"
           /\ \A q \in Requests : q # r => ~Active(q) /\ q \notin ToSet(app.out)
           /\ \A i \in 1..Len(events) : events[i].id = r /\ events[i].type \in Output
           /\ (r \in ToSet(app.out) => task[r] = "none" /\ events = <<>> /\ inFlight = 0)
           /\ (Active(r) => app.out = <<>> /\ inFlight \in {0, r})
<1> DEFINE e == events
<1>0. Held(app, e) /\ ClientTypes /\ app \in App /\ e \in Seq(Events)
  BY IInvParts DEF Held, Typed
<1>1. ~Accepts(app) /\ app.turn.id = r
  BY <1>0 DEF Held, FlightOK
<1>2. app.active.id = r /\ r \notin Queued(app) /\ r <= Len(app.kind)
  BY <1>0, <1>1 DEF Held, TurnOK, App
<1>3. \A q \in Requests : q # r => ~Active(q) /\ q \notin ToSet(app.out) /\ ~About(e, q)
  BY <1>0, <1>1 DEF Held, FlightOK
<1>4. app.out \in Seq(Requests) /\ Len(app.out) \in Nat
  BY <1>0 DEF App
<1>5. r \in ToSet(app.out) => app.out # <<>>
  BY <1>4, InToSet
<1>6. r \in ToSet(app.out) => task[r] = "none" /\ ~About(e, r)
  BY <1>0 DEF Held, FlightOK
<1>7. \A i \in 1..Len(e) : e[i].type # "retired"
  BY <1>0, <1>5, <1>6 DEF Held, TransportOK
<1>8. ~Has(e, "retired") /\ ~Has(e, "disconnected")
  BY <1>0, <1>7 DEF Held, TransportOK, Has
<1>9. app.conn # "connecting"
  BY <1>0, <1>1, <1>8 DEF Held, TransportOK
<1>10. ~Has(e, "connected")
  BY <1>0, <1>9 DEF Held, TransportOK
<1>11. ASSUME NEW i \in 1..Len(e) PROVE e[i].id = r /\ e[i].type \in Output
  <2>1. e[i] \in Events /\ e[i].type \notin Transport
    BY <1>0, <1>8, <1>10 DEF Has, Transport
  <2>2. e[i].id \in 0..MaxRequests /\ e[i].id # 0
    BY <1>0, <2>1 DEF Events, Held, FlightOK
  <2>3. e[i].id \in Requests
    BY <2>2, PromptTurnAssumption DEF Requests
  <2>4. e[i].id = r
    BY <1>3, <2>3 DEF About
  <2>5. Active(r)
    BY <1>6, <2>4 DEF About
  <2>6. e[i].type \notin Final
    BY <1>0, <2>4, <2>5 DEF Held, FlightOK, Active
  <2>7. QED
    BY <2>1, <2>4, <2>6 DEF Events
<1>12. r \in ToSet(app.out) => events = <<>>
  <2>1. ASSUME r \in ToSet(app.out) PROVE Len(e) = 0
    <3>1. \A i \in 1..Len(e) : FALSE
      BY <1>6, <1>11, <2>1 DEF About
    <3>2. Len(e) \in Nat
      BY <1>0
    <3>3. QED
      BY <3>1, <3>2
  <2>2. QED
    BY <1>0, <2>1
<1>13. Active(r) => app.out = <<>>
  <2>1. ASSUME Active(r), app.out # <<>> PROVE FALSE
    <3>1. app.out[1] \in Requests /\ app.out[1] \in ToSet(app.out)
      BY <1>4, <2>1, InToSet
    <3>2. app.out[1] = r
      BY <1>3, <3>1
    <3>3. QED
      BY <1>6, <2>1, <3>1, <3>2 DEF Active
  <2>2. QED
    BY <2>1
<1>14. inFlight \in {0, r} /\ (inFlight = r => Active(r))
  <2>1. inFlight # 0 => inFlight \in Requests
    BY <1>0, PromptTurnAssumption DEF ClientTypes, Requests
  <2>2. r # 0
    BY PromptTurnAssumption DEF Requests
  <2>3. QED
    BY <1>0, <1>3, <2>1, <2>2 DEF Held, FlightOK
<1>15. r \in ToSet(app.out) => inFlight = 0
  BY <1>6, <1>14 DEF Active
<1>16. QED
  BY <1>1, <1>2, <1>3, <1>6, <1>9, <1>11, <1>12, <1>13, <1>14, <1>15

\* A step of the client keeps the invariant, leaves the queue alone, starts
\* nothing and takes nothing back.
Serves ==
    /\ IInv' /\ app'.kind = app.kind /\ app'.queue = app.queue
    /\ \A r \in Requests :
          /\ Active(r)' \/ r \in ToSet(app'.out) => Active(r) \/ r \in ToSet(app.out)
          /\ task[r] # "none" => task'[r] # "none"
          /\ task[r] = "done" => task'[r] = "done"

\* A task goes on.
LEMMA MoveServes ==
    ASSUME IInv, NEW r \in Requests, Active(r), NEW to \in TaskStates \ {"none", "done"},
           task' = [task EXCEPT ![r] = to], to \in Unsent => task[r] \in Unsent,
           UNCHANGED <<app, events, open, binding, overtaken>>, asked \subseteq asked',
           inFlight' \in {inFlight, 0}, ClientTypes', TaskOK(app, events)'
    PROVE  Serves
<1>0. Held(app, events) /\ ServedOK(app, events) /\ ClientTypes /\ app \in App
  BY IInvParts
<1>1. /\ ~Accepts(app) /\ app.turn.id = r /\ r \notin Queued(app) /\ r <= Len(app.kind)
      /\ app.out = <<>>
  BY BusyFacts
<1>2. /\ task'[r] = to /\ to \notin {"none", "done"}
      /\ \A q \in Requests : q # r => task'[q] = task[q]
  BY <1>0 DEF ClientTypes
<1>3. /\ \A q \in Requests : Active(q)' <=> Active(q)
      /\ \A q \in Requests : task'[q] = "none" <=> task[q] = "none"
      /\ \A q \in Requests : task'[q] = "done" <=> task[q] = "done"
      /\ \A q \in Requests : task'[q] \in Unsent => task[q] \in Unsent
  BY <1>2 DEF Active
<1>4. Typed(app, events)' /\ QueueOK(app)' /\ TurnOK(app)'
  BY <1>0 DEF Held, Typed, QueueOK, TurnOK, Accepts, Cancelling, Queued
<1>5. FreshOK(app, events)'
  BY <1>0, <1>3 DEF Held, FreshOK, Queued, About
<1>6. FlightOK(app, events)'
  <2>1. \A q \in Requests : q \in ToSet(app.out) \/ Active(q)' \/ About(events, q)
                            => ~Accepts(app) /\ app.turn.id = q
    BY <1>0, <1>3 DEF Held, FlightOK
  <2>2. \A q \in ToSet(app.out) : FALSE
    BY <1>1 DEF ToSet
  <2>3. inFlight' # 0 => task'[inFlight'] \notin {"none", "done"}
    <3>1. inFlight # 0 => inFlight \in Requests
      BY <1>0, PromptTurnAssumption DEF ClientTypes, Requests
    <3>2. ASSUME inFlight' # 0 PROVE task'[inFlight'] \notin {"none", "done"}
      <4>1. inFlight' = inFlight /\ inFlight \in Requests /\ Active(inFlight)
        BY <1>0, <3>1, <3>2 DEF Held, FlightOK
      <4>2. task'[inFlight] \notin {"none", "done"}
        BY <1>3, <4>1 DEF Active
      <4>3. QED
        BY <4>1, <4>2
    <3>3. QED
      BY <3>2
  <2>4. ASSUME NEW i \in 1..Len(events) PROVE events[i].type \notin Final
    <3>1. events[i].type \in Output
      BY BusyFacts
    <3>2. QED
      BY <3>1 DEF Output, Final
  <2>5. QED
    BY <1>0, <2>1, <2>2, <2>3, <2>4 DEF Held, FlightOK, Accepts, About, Active
<1>7. TransportOK(app, events)'
  BY <1>0, <1>3 DEF Held, TransportOK, Accepts, Has
<1>8. EventOK(app, events)'
  <2>1. ASSUME NEW i \in 1..Len(events) PROVE events[i].id = r
    BY BusyFacts
  <2>2. QED
    BY <1>0, <1>3, <2>1 DEF Held, EventOK, Known, Told
<1>9. SessionOK(app, events)'
  BY <1>0 DEF Held, SessionOK, Accepts, Has, Told
<1>10. ServedOK(app, events)'
  BY <1>1, <1>3 DEF ServedOK, Comes
<1>11. IInv'
  BY <1>4, <1>5, <1>6, <1>7, <1>8, <1>9, <1>10 DEF IInv, Held
<1>12. QED
  BY <1>3, <1>11 DEF Serves

\* The App's record, but for the prompts on the way to the client.
Delivered(a, b) ==
    /\ b \in App /\ b.conn = a.conn /\ b.kind = a.kind /\ b.session = a.session
    /\ b.drops = a.drops /\ SameQueue(a, b) /\ SameTurn(a, b) /\ b.cancelled = a.cancelled
    /\ b.out = <<>>

\* A last event that says no more than what is known.
Concludes(x, r) ==
    /\ x \in Events /\ x.id = r /\ x.type \in Final
    /\ x.type = "end" => x.session \in asked
    /\ x.type \in {"end", "error", "lost"} => x.session # 0 /\ Known(app, events, r, x.session)
    /\ x.type \in {"settled", "settledStarted"} => r \in app.cancelled
    /\ x.type = "settledStarted" => \E s \in asked : Known(app, events, r, s)

\* The events are followed by the last of a prompt.
Closed(e, f, x, r) ==
    /\ Grows(e, f) /\ Len(f) \in 1..Len(f) /\ Len(e) < Len(f) /\ f[Len(f)] = x
    /\ \A i \in 1..Len(f) : \/ i \in 1..Len(e) \/ i = Len(f)
                            \/ f[i].type = "softStop" /\ f[i].id = r

\* A prompt comes to its end.
LEMMA EndServes ==
    ASSUME IInv, NEW r \in Requests, r \in ToSet(app.out) \/ Active(r),
           r \in ToSet(app.out) => ~app.drops, Delivered(app, app'),
           NEW x, Concludes(x, r), Closed(events, events', x, r),
           task' = [task EXCEPT ![r] = "done"], inFlight' = Released(r),
           UNCHANGED <<open, binding, current, asked, overtaken>>, ClientTypes'
    PROVE  Serves
<1> DEFINE a == app
           b == app'
           e == events
           f == events'
<1>0. Held(a, e) /\ ServedOK(a, e) /\ ClientTypes /\ a \in App
  BY IInvParts
<1>1. /\ ~Accepts(a) /\ a.turn.id = r /\ r \notin Queued(a) /\ r <= Len(a.kind)
      /\ a.conn # "connecting"
      /\ \A q \in Requests : q # r => ~Active(q) /\ q \notin ToSet(a.out)
      /\ \A i \in 1..Len(e) : e[i].id = r /\ e[i].type \in Output
      /\ inFlight \in {0, r}
  BY BusyFacts
<1>2. /\ task'[r] = "done" /\ inFlight' = 0
      /\ \A q \in Requests : q # r => task'[q] = task[q]
      /\ \A q \in Requests : ~Active(q)'
  BY <1>0, <1>1 DEF ClientTypes, Active, Released
<1>3. /\ \A i \in 1..Len(f) : f[i].id = r /\ f[i].type \in Output \cup Final
      /\ \A i \in 1..Len(f) : f[i].type \in Final => i = Len(f)
      /\ \A i \in 1..Len(f) : f[i].type \notin {"softStop"} \cup Final => i \in 1..Len(e)
      /\ f \in Seq(Events)
  <2>1. ASSUME NEW i \in 1..Len(f)
        PROVE  /\ f[i].id = r /\ f[i].type \in Output \cup Final /\ (f[i].type \in Final => i = Len(f))
               /\ f[i].type \notin {"softStop"} \cup Final => i \in 1..Len(e)
    <3>1. CASE i \in 1..Len(e)
      <4>1. f[i] = e[i]
        BY <3>1 DEF Closed, Grows
      <4>2. e[i].id = r /\ e[i].type \in Output
        BY <1>1, <3>1
      <4>3. QED
        BY <3>1, <4>1, <4>2 DEF Output, Final
    <3>2. CASE i = Len(f)
      BY <3>2 DEF Closed, Concludes
    <3>3. CASE f[i].type = "softStop" /\ f[i].id = r
      BY <3>3 DEF Output, Final
    <3>4. QED
      BY <3>1, <3>2, <3>3 DEF Closed
  <2>2. QED
    BY <2>1 DEF Closed, Grows
<1>4. /\ b \in App /\ b.conn = a.conn /\ b.kind = a.kind /\ b.session = a.session
      /\ b.drops = a.drops /\ b.queue = a.queue /\ b.resub = a.resub /\ b.turn = a.turn
      /\ b.active = a.active /\ b.meaningful = a.meaningful /\ b.cancelled = a.cancelled
      /\ b.out = <<>> /\ Accepts(b) = Accepts(a) /\ Cancelling(b) = Cancelling(a)
      /\ Queued(b) = Queued(a) /\ ToSet(b.out) = {}
  BY DEF Delivered, SameQueue, SameTurn, Accepts, Cancelling, Queued, ToSet
<1>5. r # 0 /\ \A q : About(f, q) => q = r
  BY <1>3, PromptTurnAssumption DEF About, Requests
<1>6. \A y \in Transport : ~Has(f, y)
  BY <1>3 DEF Has, Output, Final, Transport
<1>7. \A q, s : Known(a, e, q, s) => Known(b, f, q, s)
  BY <1>4, GrowsTold DEF Known, Closed
<1> HIDE DEF a, b, e, f
<1>8. /\ a = app /\ b = app' /\ e = events /\ f = events' /\ open' = open /\ binding' = binding
      /\ asked' = asked /\ overtaken' = overtaken
  BY DEF a, b, e, f
<1>9. Typed(app, events)' /\ QueueOK(app)' /\ TurnOK(app)'
  BY <1>0, <1>3, <1>4, <1>8, SMTT(60) DEF Held, Typed, QueueOK, TurnOK, Accepts, Cancelling, Queued
<1>10. FreshOK(app, events)'
  <2>1. \A q \in Requests : q \in Queued(b) \/ q > Len(b.kind) => task[q] = "none" /\ q # r
    <3>1. a.kind \in Seq(Kinds) /\ r \in Nat
      BY <1>0 DEF App, Requests
    <3>2. Len(a.kind) \in Nat /\ ~(r > Len(a.kind))
      BY <1>1, <3>1
    <3>3. QED
      BY <1>0, <1>1, <1>4, <3>2 DEF Held, FreshOK
  <2>2. \A q \in Requests : q \in Queued(b) \/ q > Len(b.kind) =>
           task'[q] = "none" /\ q \notin ToSet(b.out) /\ ~About(f, q)
    BY <1>2, <1>4, <1>5, <2>1
  <2>3. QED
    BY <1>0, <1>4, <1>8, <2>2 DEF Held, FreshOK, Queued, About
<1>11. FlightOK(app, events)'
  <2>1. \A q \in Requests : q \in ToSet(b.out) \/ Active(q)' \/ About(f, q)
                            => ~Accepts(b) /\ b.turn.id = q
    BY <1>1, <1>2, <1>4, <1>5
  <2>2. \A i \in 1..Len(f) : (f[i].id = 0) <=> (f[i].type \in Transport)
    BY <1>3, <1>5, <1>6 DEF Has
  <2>3. ASSUME NEW i \in 1..Len(f), f[i].type \in Final
        PROVE  task'[f[i].id] = "done" /\ \A j \in 1..Len(f) : i < j => f[j].id = 0
    <3>1. i = Len(f) /\ f[i].id = r /\ Len(f) \in Nat
      BY <1>3, <2>3
    <3>2. QED
      BY <1>2, <3>1
  <2>4. Len(b.out) <= 1
    BY <1>4
  <2>5. QED
    BY <1>2, <1>4, <1>8, <2>1, <2>2, <2>3, <2>4 DEF FlightOK, Accepts, About
<1>12. TransportOK(app, events)'
  <2>1. \A i \in 1..Len(f) : f[i].type \notin Transport
    BY <1>6 DEF Has
  <2>2. ~open => ~b.drops
    BY <1>0, <1>4 DEF Held, TransportOK
  <2>3. QED
    BY <1>1, <1>2, <1>4, <1>6, <1>8, <2>1, <2>2 DEF TransportOK, Transport, Has
<1>13. TaskOK(app, events)'
  BY <1>2, <1>4, <1>8 DEF TaskOK, AtAgent, WithSession, Active
<1>14. EventOK(app, events)'
  <2>1. ASSUME NEW i \in 1..Len(f), f[i].type \in Final
        PROVE  /\ f[i].type = "end" => f[i].session \in asked
               /\ f[i].type \in {"end", "error", "lost"} =>
                     f[i].session # 0 /\ Known(b, f, f[i].id, f[i].session)
               /\ f[i].type \in {"settled", "settledStarted"} => f[i].id \in b.cancelled
               /\ f[i].type = "settledStarted" => \E s \in asked : Known(b, f, f[i].id, s)
    <3>1. f[i] = x /\ x.id = r
      BY <1>3, <1>8, <2>1 DEF Closed, Concludes
    <3>2. QED
      BY <1>4, <1>7, <1>8, <3>1 DEF Concludes
  <2>2. ASSUME NEW i \in 1..Len(f), f[i].type = "chunk" PROVE f[i].session \in asked
    <3>1. i \in 1..Len(e) /\ f[i] = e[i]
      BY <1>3, <1>8, <2>2 DEF Closed, Grows, Final
    <3>2. QED
      BY <1>0, <2>2, <3>1 DEF Held, EventOK
  <2>3. ASSUME NEW i \in 1..Len(f), f[i].type = "attached"
        PROVE  /\ task'[f[i].id] \notin Unsent /\ f[i].session # 0
               /\ \A j \in 1..Len(f) : f[j].type = "attached" => j = i
               /\ b.active.valid /\ open /\ b.active.session \notin overtaken
                  => binding = f[i].session
    <3>0. ASSUME NEW j \in 1..Len(f), f[j].type = "attached" PROVE j \in 1..Len(e) /\ f[j] = e[j]
      BY <1>3, <1>8, <3>0 DEF Closed, Grows, Final
    <3>1. i \in 1..Len(e) /\ f[i] = e[i]
      BY <2>3, <3>0
    <3>2. task'[f[i].id] \notin Unsent
      BY <1>2, <1>3 DEF Unsent
    <3>3. QED
      BY <1>0, <1>4, <2>3, <3>0, <3>1, <3>2 DEF Held, EventOK
  <2>4. \A i \in 1..Len(f) : f[i].type # "connected"
    BY <1>6 DEF Has, Transport
  <2>5. \A q, s : Known(b, f, q, s) <=> Known(app, events, q, s)'
    BY <1>8 DEF Known, Told
  <2>6. QED
    BY <1>8, <2>1, <2>2, <2>3, <2>4, <2>5 DEF EventOK, Final
<1>15. SessionOK(app, events)'
  <2>1. \A q, s : Told(e, q, s) => Told(f, q, s)
    BY <1>8, GrowsTold DEF Closed
  <2>2. ~Has(e, "connected")
    BY <1>1 DEF Has, Output
  <2>3. b.drops => a.turn.id \notin ToSet(a.out)
    BY <1>1, <1>4, <1>8
  <2>4. QED
    BY <1>0, <1>4, <1>8, <2>1, <2>2, <2>3 DEF Held, SessionOK, Accepts, Told
<1>16. ServedOK(app, events)'
  <2>1. Len(f) \in 1..Len(f) /\ f[Len(f)].type \in Final /\ f[Len(f)].id = b.turn.id
    BY <1>1, <1>4, <1>8 DEF Closed, Concludes
  <2>2. QED
    BY <1>8, <2>1 DEF ServedOK, Comes
<1>17. IInv'
  BY <1>9, <1>10, <1>11, <1>12, <1>13, <1>14, <1>15, <1>16 DEF IInv, Held
<1>18. ASSUME NEW q \in Requests
       PROVE  /\ Active(q)' \/ q \in ToSet(app'.out) => Active(q) \/ q \in ToSet(app.out)
              /\ task[q] # "none" => task'[q] # "none"
              /\ task[q] = "done" => task'[q] = "done"
  BY <1>2, <1>4, <1>8
<1>19. QED
  BY <1>4, <1>8, <1>17, <1>18 DEF Serves

\* The record of the App is left alone.
LEMMA NoneDelivered ==
    ASSUME IInv, NEW r \in Requests, Active(r), app' = app
    PROVE  Delivered(app, app')
  BY BusyFacts, IInvParts DEF Delivered, SameQueue, SameTurn

\* A task that ends with one event.
LEMMA EndsServes ==
    ASSUME IInv, NEW r \in Requests, Active(r), NEW x, Concludes(x, r), Ends(r, <<x>>),
           UNCHANGED <<app, open, binding, current, nextSid, asked, userVars>>
    PROVE  Serves
<1>0. ClientTypes /\ events \in Seq(Events) /\ r \in Requests
  BY IInvParts DEF Held, Typed
<1>1. /\ task' = [task EXCEPT ![r] = "done"] /\ inFlight' = Released(r)
      /\ sid' = [sid EXCEPT ![r] = 0] /\ chunks' = [chunks EXCEPT ![r] = 0]
      /\ events' = events \o <<x>>
  BY DEF Ends, Publish
<1>2. ClientTypes'
  <2>1. inFlight' \in 0..MaxRequests
    BY <1>0, <1>1, ZeroTypes DEF ClientTypes, Released
  <2>2. task' \in [Requests -> TaskStates]
    BY <1>0, <1>1 DEF ClientTypes, TaskStates
  <2>3. sid' \in [Requests -> 0..MaxSessions] /\ chunks' \in [Requests -> 0..MaxChunks]
    BY <1>0, <1>1, PromptTurnAssumption DEF ClientTypes
  <2>4. QED
    BY <1>0, <2>1, <2>2, <2>3 DEF ClientTypes, userVars
<1>3. Closed(events, events', x, r)
  <2>1. x \in Events
    BY DEF Concludes
  <2>2. /\ Grows(events, events') /\ Len(events') = Len(events) + 1 /\ events'[Len(events')] = x
        /\ \A i \in 1..Len(events') : i \in 1..Len(events) \/ i = Len(events')
    BY <1>0, <1>1, <2>1, OneMore
  <2>3. Len(events') \in 1..Len(events') /\ Len(events) < Len(events')
    BY <2>2 DEF Grows
  <2>4. QED
    BY <2>2, <2>3 DEF Closed
<1>4. Delivered(app, app') /\ r \notin ToSet(app.out)
  BY BusyFacts, NoneDelivered DEF Active
<1>5. QED
  BY <1>1, <1>2, <1>3, <1>4, EndServes DEF userVars

\* The settlement of a cancelled prompt.
LEMMA SettledConcludes ==
    ASSUME NEW r \in Requests, r \in app.cancelled, NEW started \in BOOLEAN,
           started => \E s \in asked : Known(app, events, r, s)
    PROVE  Concludes(Settled(r, started), r)
<1>1. r \in 0..MaxRequests /\ 0 \in 0..MaxSessions
  BY PromptTurnAssumption DEF Requests
<1>2. CASE started
  BY <1>1, <1>2 DEF Settled, Concludes, Events, Final
<1>3. CASE ~started
  BY <1>1, <1>3 DEF Settled, Concludes, Events, Final
<1>4. QED
  BY <1>2, <1>3

\* A cancelled prompt ends before it is sent.
LEMMA StopsUnsentServes ==
    ASSUME IInv, NEW r \in Requests, StopsUnsent(r)
    PROVE  Serves
<1>1. Concludes(Settled(r, FALSE), r) /\ Active(r)
  BY SettledConcludes DEF StopsUnsent, Active
<1>2. QED
  BY <1>1, EndsServes DEF StopsUnsent

\* The lazy session/new fails.
LEMMA NewSessionFailsServes ==
    ASSUME IInv, NEW r \in Requests, NewSessionFails(r)
    PROVE  Serves
<1> DEFINE x == IF r \in app.cancelled THEN Settled(r, FALSE) ELSE Ev("promptError", r, 0)
<1>1. Active(r)
  BY DEF NewSessionFails, Active
<1>2. Concludes(x, r)
  <2>1. r \in 0..MaxRequests /\ 0 \in 0..MaxSessions
    BY PromptTurnAssumption DEF Requests
  <2>2. Concludes(Ev("promptError", r, 0), r)
    BY <2>1 DEF Ev, Concludes, Events, Final
  <2>3. r \in app.cancelled => Concludes(Settled(r, FALSE), r)
    BY SettledConcludes
  <2>4. QED
    BY <2>2, <2>3
<1>3. Ends(r, <<x>>) /\ UNCHANGED <<app, open, binding, current, nextSid, asked, userVars>>
  BY DEF NewSessionFails
<1> HIDE DEF x
<1>4. QED
  BY <1>1, <1>2, <1>3, EndsServes

\* What a task with a session may say of it.
LEMMA SessionKnown ==
    ASSUME IInv, NEW r \in Requests, task[r] \in WithSession
    PROVE  /\ Active(r) /\ sid[r] \in 0..MaxSessions /\ sid[r] # 0 /\ r \in 0..MaxRequests
           /\ Known(app, events, r, sid[r]) /\ (AtAgent(r) => sid[r] \in asked)
<1>1. Active(r)
  BY DEF Active, WithSession
<1>2. sid[r] \in 0..MaxSessions /\ r \in 0..MaxRequests
  BY IInvParts DEF ClientTypes, Requests
<1>3. QED
  BY <1>1, <1>2, IInvParts DEF Held, TaskOK

\* The prompt is blocked before it is sent.
LEMMA PromptBlockedServes ==
    ASSUME IInv, NEW r \in Requests, PromptBlocked(r)
    PROVE  Serves
<1>1. Active(r) /\ Concludes(Ev("error", r, sid[r]), r)
  BY SessionKnown DEF PromptBlocked, WithSession, Concludes, Ev, Events, Final
<1>2. QED
  BY <1>1, EndsServes DEF PromptBlocked

\* The agent or the connection to it fails.
LEMMA AgentFailsServes ==
    ASSUME IInv, NEW r \in Requests, AgentFails(r)
    PROVE  Serves
<1>1. PICK lost \in BOOLEAN : Ends(r, <<Ev(IF lost THEN "lost" ELSE "error", r, sid[r])>>)
  BY DEF AgentFails
<1> DEFINE ty == IF lost THEN "lost" ELSE "error"
<1>2. ty \in {"lost", "error"}
  OBVIOUS
<1>3. Ends(r, <<Ev(ty, r, sid[r])>>)
  BY <1>1
<1> HIDE DEF ty
<1>4. Active(r) /\ Concludes(Ev(ty, r, sid[r]), r)
  BY <1>2, SessionKnown DEF AgentFails, WithSession, Concludes, Ev, Events, Final
<1>5. QED
  BY <1>3, <1>4, EndsServes DEF AgentFails

\* The drain of a prompt is over, and its end is published.
LEMMA DrainedServes ==
    ASSUME IInv, NEW r \in Requests, Drained(r)
    PROVE  Serves
<1>0. UNCHANGED <<app, open, binding, current, nextSid, asked, userVars>>
  BY DEF Drained
<1>1. task[r] \in {"draining", "softDraining", "cancelDraining"}
  BY DEF Drained
<1>2. /\ Active(r) /\ sid[r] \in 0..MaxSessions /\ sid[r] # 0 /\ r \in 0..MaxRequests
      /\ Known(app, events, r, sid[r]) /\ sid[r] \in asked
  BY <1>1, SessionKnown DEF WithSession, AtAgent
<1>3. Concludes(Ev("end", r, sid[r]), r)
  BY <1>2 DEF Concludes, Ev, Events, Final
<1>4. CASE task[r] = "draining" /\ Ends(r, <<Ev("end", r, sid[r])>>)
  BY <1>0, <1>2, <1>3, <1>4, EndsServes
<1>5. CASE task[r] = "cancelDraining" /\ Ends(r, <<Settled(r, TRUE)>>)
  <2>1. r \in app.cancelled
    BY <1>5, IInvParts DEF Held, TaskOK
  <2>2. Concludes(Settled(r, TRUE), r)
    BY <1>2, <2>1, SettledConcludes
  <2>3. QED
    BY <1>0, <1>2, <1>5, <2>2, EndsServes
<1>6. CASE task[r] = "softDraining" /\ Ends(r, <<Ev("softStop", r, sid[r]), Ev("end", r, sid[r])>>)
  <2> DEFINE x == Ev("softStop", r, sid[r])
             y == Ev("end", r, sid[r])
  <2>0. ClientTypes /\ events \in Seq(Events)
    BY IInvParts DEF Held, Typed
  <2>1. /\ task' = [task EXCEPT ![r] = "done"] /\ inFlight' = Released(r)
        /\ sid' = [sid EXCEPT ![r] = 0] /\ chunks' = [chunks EXCEPT ![r] = 0]
        /\ events' = events \o <<x, y>>
    BY <1>6 DEF Ends, Publish
  <2>2. x \in Events /\ x.type = "softStop" /\ x.id = r /\ y \in Events /\ Concludes(y, r)
    BY <1>2, <1>3 DEF Ev, Events, Output, Concludes
  <2> HIDE DEF x, y
  <2>3. ClientTypes'
    <3>1. inFlight' \in 0..MaxRequests
      BY <2>0, <2>1, ZeroTypes DEF ClientTypes, Released
    <3>2. task' \in [Requests -> TaskStates]
      BY <2>0, <2>1 DEF ClientTypes, TaskStates
    <3>3. sid' \in [Requests -> 0..MaxSessions] /\ chunks' \in [Requests -> 0..MaxChunks]
      BY <2>0, <2>1, PromptTurnAssumption DEF ClientTypes
    <3>4. QED
      BY <1>0, <2>0, <3>1, <3>2, <3>3 DEF ClientTypes, userVars
  <2>4. Closed(events, events', y, r)
    <3> DEFINE g == <<x, y>>
    <3>0. /\ events' = events \o g /\ g \in Seq(Events) /\ Len(g) = 2 /\ g[1] = x /\ g[2] = y
          /\ events \in Seq(Events)
      BY <2>0, <2>1, <2>2
    <3> HIDE DEF g
    <3>1. /\ Grows(events, events') /\ Len(events') = Len(events) + 2
          /\ events'[Len(events) + 1] = x /\ events'[Len(events')] = y
          /\ \A i \in 1..Len(events') :
                i \in 1..Len(events) \/ i = Len(events) + 1 \/ i = Len(events')
      <4>1. Adds(events, g, events')
        BY ONLY <3>0, TwoMore
      <4>2. QED
        BY ONLY <3>0, <4>1 DEF Adds
    <3>2. Len(events') \in 1..Len(events') /\ Len(events) < Len(events')
      BY <3>1 DEF Grows
    <3>3. \A i \in 1..Len(events') : \/ i \in 1..Len(events) \/ i = Len(events')
                                     \/ events'[i].type = "softStop" /\ events'[i].id = r
      BY <2>2, <3>1
    <3>4. QED
      BY <3>1, <3>2, <3>3 DEF Closed
  <2>5. Delivered(app, app') /\ r \notin ToSet(app.out)
    BY <1>0, <1>2, BusyFacts, NoneDelivered DEF Active
  <2>6. QED
    BY <1>0, <1>2, <2>1, <2>2, <2>3, <2>4, <2>5, EndServes DEF userVars
<1>7. QED
  BY <1>4, <1>5, <1>6 DEF Drained

\* A sequence of one.
LEMMA OnlyOne ==
    ASSUME NEW S, NEW s \in Seq(S), s # <<>>, Len(s) <= 1
    PROVE  Head(s) \in S /\ Head(s) \in ToSet(s) /\ Tail(s) = <<>>
<1>1. Len(s) \in Nat /\ Len(s) # 0
  OBVIOUS
<1>2. \A n \in Nat : n # 0 /\ n <= 1 => n = 1
  OBVIOUS
<1>3. Len(s) = 1
  BY ONLY <1>1, <1>2, Len(s) <= 1
<1>4. 1 \in 1..Len(s)
  BY <1>3
<1>5. Head(s) = s[1] /\ s[1] \in S
  BY <1>4
<1>6. Tail(s) \in Seq(S) /\ Len(Tail(s)) = Len(s) - 1
  OBVIOUS
<1>7. Len(Tail(s)) = 0
  BY <1>3, <1>6
<1>8. Tail(s) = <<>>
  BY <1>6, <1>7
<1>9. s[1] \in ToSet(s)
  BY <1>4, InToSet
<1>10. QED
  BY <1>5, <1>8, <1>9

\* The client takes the prompt over.
LEMMA ReceivePromptServes ==
    ASSUME IInv, ReceivePrompt
    PROVE  Serves
<1> DEFINE a == app
           b == app'
           r == Head(app.out)
<1>0. Held(app, events) /\ ServedOK(app, events) /\ ClientTypes /\ app \in App
  BY IInvParts
<1>1. r \in Requests /\ r \in ToSet(app.out) /\ Tail(app.out) = <<>>
  <2>1. app.out \in Seq(Requests) /\ app.out # <<>> /\ Len(app.out) <= 1
    BY <1>0 DEF ReceivePrompt, App, Held, FlightOK
  <2>2. QED
    BY <2>1, OnlyOne
<1>2. /\ app' = [app EXCEPT !.out = Tail(app.out)] /\ ~app.drops
      /\ UNCHANGED <<open, binding, current, nextSid, asked, userVars>>
  BY DEF ReceivePrompt
<1>3. Delivered(app, app')
  <2>1. <<>> \in Seq(Requests)
    OBVIOUS
  <2>2. app' = [app EXCEPT !.out = <<>>]
    BY <1>1, <1>2
  <2>3. QED
    BY <1>0, <2>1, <2>2 DEF Delivered, SameQueue, SameTurn, App
<1> HIDE DEF r
<1>4. /\ ~Accepts(app) /\ app.turn.id = r /\ r \notin Queued(app) /\ r <= Len(app.kind)
      /\ app.conn # "connecting" /\ task[r] = "none" /\ events = <<>> /\ inFlight = 0
      /\ \A q \in Requests : q # r => ~Active(q) /\ q \notin ToSet(app.out)
  BY <1>1, BusyFacts
<1>5. CASE r \in app.cancelled
  <2> DEFINE x == Settled(r, FALSE)
  <2>1. Ends(r, <<x>>)
    BY <1>5 DEF ReceivePrompt, r
  <2>2. Concludes(x, r) /\ x \in Events
    BY <1>1, <1>5, SettledConcludes DEF Concludes
  <2> HIDE DEF x
  <2>3. /\ task' = [task EXCEPT ![r] = "done"] /\ inFlight' = Released(r)
        /\ sid' = [sid EXCEPT ![r] = 0] /\ chunks' = [chunks EXCEPT ![r] = 0]
        /\ events' = events \o <<x>>
    BY <2>1 DEF Ends, Publish
  <2>4. ClientTypes'
    <3>1. inFlight' \in 0..MaxRequests
      BY <1>0, <2>3, ZeroTypes DEF ClientTypes, Released
    <3>2. task' \in [Requests -> TaskStates]
      BY <1>0, <1>1, <2>3 DEF ClientTypes, TaskStates
    <3>3. sid' \in [Requests -> 0..MaxSessions] /\ chunks' \in [Requests -> 0..MaxChunks]
      <4>1. 0 \in 0..MaxSessions /\ 0 \in 0..MaxChunks
        BY PromptTurnAssumption
      <4>2. QED
        BY <1>0, <2>3, <4>1 DEF ClientTypes
    <3>4. QED
      BY <1>0, <1>2, <3>1, <3>2, <3>3 DEF ClientTypes, userVars
  <2>5. Closed(events, events', x, r)
    <3>0. events \in Seq(Events)
      BY <1>0 DEF Held, Typed
    <3>1. /\ Grows(events, events') /\ Len(events') = Len(events) + 1 /\ events'[Len(events')] = x
          /\ \A i \in 1..Len(events') : i \in 1..Len(events) \/ i = Len(events')
      BY <2>2, <2>3, <3>0, OneMore
    <3>2. Len(events') \in 1..Len(events') /\ Len(events) < Len(events')
      BY <3>1 DEF Grows
    <3>3. QED
      BY <3>1, <3>2 DEF Closed
  <2>6. QED
    BY <1>1, <1>2, <1>3, <2>2, <2>3, <2>4, <2>5, EndServes DEF userVars
<1>6. CASE r \notin app.cancelled
  <2>1. inFlight' = r /\ task' = [task EXCEPT ![r] = "start"] /\ UNCHANGED <<events, sid, chunks>>
    BY <1>4, <1>6 DEF ReceivePrompt, r
  <2>2. /\ task'[r] = "start" /\ \A q \in Requests : q # r => task'[q] = task[q]
    BY <1>0, <1>1, <2>1 DEF ClientTypes
  <2>3. ClientTypes'
    <3>1. r \in 0..MaxRequests
      BY <1>1 DEF Requests
    <3>2. task' \in [Requests -> TaskStates]
      BY <1>0, <2>1 DEF ClientTypes, TaskStates
    <3>3. QED
      BY <1>0, <1>2, <2>1, <3>1, <3>2 DEF ClientTypes, userVars
  <2>4. /\ b \in App /\ b.conn = a.conn /\ b.kind = a.kind /\ b.session = a.session
        /\ b.drops = a.drops /\ b.queue = a.queue /\ b.resub = a.resub /\ b.turn = a.turn
        /\ b.active = a.active /\ b.meaningful = a.meaningful /\ b.cancelled = a.cancelled
        /\ b.out = <<>> /\ Accepts(b) = Accepts(a) /\ Cancelling(b) = Cancelling(a)
        /\ Queued(b) = Queued(a) /\ ToSet(b.out) = {} /\ Len(b.out) <= 1 /\ a.out # <<>>
    BY <1>1, <1>3 DEF Delivered, SameQueue, SameTurn, Accepts, Cancelling, Queued, ToSet
  <2>5. \A q \in Requests : Active(q)' <=> q = r
    BY <1>1, <1>4, <2>2 DEF Active
  <2>6. 1..Len(events) = {} /\ events' = events
    BY <1>4, <2>1
  <2> HIDE DEF a, b
  <2>7. /\ a = app /\ b = app' /\ open' = open /\ binding' = binding
        /\ asked' = asked /\ overtaken' = overtaken
    BY <1>2 DEF a, b, userVars
  <2>8. Typed(app, events)' /\ QueueOK(app)' /\ TurnOK(app)'
    BY <1>0, <2>4, <2>6, <2>7, SMTT(60) DEF Held, Typed, QueueOK, TurnOK, Accepts, Cancelling, Queued
  <2>9. FreshOK(app, events)'
    <3>1. a.kind \in Seq(Kinds) /\ r \in Nat
      BY <1>0, <1>1, <2>7 DEF App, Requests
    <3>2. Len(a.kind) \in Nat /\ ~(r > Len(a.kind))
      BY <1>4, <2>7, <3>1
    <3>3. \A q \in Requests : q \in Queued(b) \/ q > Len(b.kind) => task[q] = "none" /\ q # r
      BY <1>0, <1>4, <2>4, <2>7, <3>2 DEF Held, FreshOK
    <3>4. \A q \in Requests : q \in Queued(b) \/ q > Len(b.kind) =>
             task'[q] = "none" /\ q \notin ToSet(b.out) /\ ~About(events, q)
      BY <2>2, <2>4, <2>6, <3>3 DEF About
    <3>5. QED
      BY <1>0, <2>4, <2>6, <2>7, <3>4 DEF Held, FreshOK, Queued, About
  <2>10. FlightOK(app, events)'
    <3>1. \A q \in Requests : q \in ToSet(b.out) \/ Active(q)' \/ About(events, q)
                              => ~Accepts(b) /\ b.turn.id = q
      BY <1>4, <2>4, <2>5, <2>6, <2>7 DEF About
    <3>2. task'[inFlight'] \notin {"none", "done"}
      BY <2>1, <2>2
    <3>3. QED
      BY <2>4, <2>6, <2>7, <3>1, <3>2 DEF FlightOK, Accepts, About, Active
  <2>11. open
    BY <1>0, <2>4, <2>7 DEF Held, TransportOK
  <2>12. TransportOK(app, events)'
    BY <1>4, <2>4, <2>6, <2>7, <2>11 DEF TransportOK, Has
  <2>13. TaskOK(app, events)'
    <3>1. a.active.session \in {binding} \cup overtaken
      BY <1>0, <1>1, <1>2, <1>6, <2>7 DEF Held, TaskOK
    <3>2. \A q \in Requests : task'[q] \in {"none", "done"} \/ (q = r /\ task'[q] = "start")
      BY <2>2, <2>5 DEF Active
    <3>3. QED
      BY <2>4, <2>7, <3>1, <3>2 DEF TaskOK, AtAgent, WithSession
  <2>14. EventOK(app, events)'
    BY <2>6 DEF EventOK
  <2>15. SessionOK(app, events)'
    BY <1>0, <1>2, <2>4, <2>6, <2>7 DEF Held, SessionOK, Accepts, Told, Has
  <2>16. ServedOK(app, events)'
    <3>1. task'[r] = "start" /\ b.turn.id = r
      BY <1>4, <2>2, <2>4, <2>7
    <3>2. QED
      BY <2>7, <3>1 DEF ServedOK, Comes, Active
  <2>17. IInv'
    BY <2>3, <2>8, <2>9, <2>10, <2>12, <2>13, <2>14, <2>15, <2>16 DEF IInv, Held
  <2>18. ASSUME NEW q \in Requests
         PROVE  /\ Active(q)' \/ q \in ToSet(app'.out) => Active(q) \/ q \in ToSet(app.out)
                /\ task[q] # "none" => task'[q] # "none"
                /\ task[q] = "done" => task'[q] = "done"
    BY <1>1, <1>4, <2>2, <2>4, <2>5, <2>7
  <2>19. QED
    BY <2>4, <2>7, <2>17, <2>18 DEF Serves
<1>7. QED
  BY <1>5, <1>6

\* Only the task of the turn matters to what the tasks promise.
LEMMA MovedTaskOK ==
    ASSUME IInv, NEW r \in Requests, Active(r), NEW to, task' = [task EXCEPT ![r] = to],
           app' = app,
           to \in {"sent", "stopping", "draining", "softDraining", "cancelDraining"} => sid'[r] \in asked',
           to \in WithSession => sid'[r] # 0 /\ Known(app, events, r, sid[r])',
           to \in {"stopping", "cancelDraining", "awaitCancel"} => r \in app.cancelled,
           to # "start",
           to = "newSession" => /\ r \in current' /\ app.active.session \in {0} \cup overtaken'
                                /\ app.active.valid
    PROVE  TaskOK(app, events)'
<1>1. app.out = <<>> /\ \A q \in Requests : q # r => task[q] \in {"none", "done"}
  BY BusyFacts DEF Active
<1>2. task'[r] = to /\ \A q \in Requests : q # r => task'[q] \in {"none", "done"}
  BY <1>1, IInvParts DEF ClientTypes
<1>3. ToSet(app.out) = {}
  BY <1>1 DEF ToSet
<1>4. ASSUME NEW q \in Requests, q # r
      PROVE  task'[q] \notin WithSession \cup {"awaitCancel", "newSession", "start"} /\ ~AtAgent(q)'
  BY <1>2, <1>4 DEF WithSession, AtAgent
<1>5. AtAgent(r)' => sid'[r] \in asked'
  BY <1>2 DEF AtAgent
<1>6. QED
  BY <1>2, <1>3, <1>4, <1>5 DEF TaskOK, WithSession

\* The session of the prompt is the one the tab is bound to: the App was told
\* of it, or will be.
LEMMA ResolveSessionServes ==
    ASSUME IInv, NEW r \in Requests, ResolveSession(r)
    PROVE  Serves
<1> DEFINE to == IF binding = 0 THEN "newSession" ELSE "build"
<1>0. Held(app, events) /\ ClientTypes /\ task[r] = "start" /\ r \notin app.cancelled
  BY IInvParts DEF ResolveSession, Moves
<1>1. /\ task' = [task EXCEPT ![r] = to] /\ sid' = [sid EXCEPT ![r] = binding]
      /\ current' = (IF binding = 0 THEN {r} ELSE current)
      /\ UNCHANGED <<app, events, open, inFlight, binding, nextSid, asked, chunks, userVars>>
  BY DEF ResolveSession, Moves
<1>2. to \in {"newSession", "build"} /\ (to = "newSession" <=> binding = 0)
  OBVIOUS
<1> HIDE DEF to
<1>3. Active(r) /\ sid'[r] = binding /\ overtaken' = overtaken
  BY <1>0, <1>1 DEF Active, ClientTypes, userVars
<1>4. ClientTypes'
  BY <1>0, <1>1, <1>2 DEF ClientTypes, TaskStates, userVars
<1>5. app.active.session \in {binding} \cup overtaken
  BY <1>0 DEF Held, TaskOK
<1>6. app.active.valid
  BY <1>0, <1>3, BusyFacts DEF Held, TurnOK
<1>7. TaskOK(app, events)'
  <2>1. to \in WithSession => sid'[r] # 0 /\ Known(app, events, r, sid[r])'
    BY <1>1, <1>2, <1>3, <1>5 DEF Known, WithSession
  <2>2. to = "newSession" => r \in current' /\ app.active.session \in {0} \cup overtaken'
    BY <1>1, <1>2, <1>3, <1>5
  <2>3. QED
    BY <1>1, <1>2, <1>3, <1>6, <2>1, <2>2, MovedTaskOK
<1>8. QED
  BY <1>0, <1>1, <1>2, <1>3, <1>4, <1>7, MoveServes DEF TaskStates, Unsent

\* The prompt is sent.
LEMMA SendPromptServes ==
    ASSUME IInv, NEW r \in Requests, SendPrompt(r)
    PROVE  Serves
<1>0. Held(app, events) /\ ClientTypes /\ task[r] = "build"
  BY IInvParts DEF SendPrompt, Moves
<1>1. /\ task' = [task EXCEPT ![r] = "sent"] /\ asked' = asked \cup {sid[r]}
      /\ UNCHANGED <<app, events, open, inFlight, binding, sid, current, nextSid, chunks, userVars>>
  BY DEF SendPrompt, Moves
<1>2. Active(r) /\ sid[r] \in 0..MaxSessions /\ sid[r] # 0 /\ Known(app, events, r, sid[r])
  BY <1>0, SessionKnown DEF WithSession
<1>3. ClientTypes'
  <2>1. sid[r] \in Sessions
    BY <1>2, PromptTurnAssumption DEF Sessions
  <2>2. QED
    BY <1>0, <1>1, <2>1 DEF ClientTypes, TaskStates, userVars
<1>4. Known(app, events, r, sid[r])' /\ sid'[r] \in asked'
  BY <1>1, <1>2 DEF Known, Told, userVars
<1>5. TaskOK(app, events)'
  BY <1>1, <1>2, <1>4, MovedTaskOK
<1>6. QED
  BY <1>1, <1>2, <1>3, <1>5, MoveServes DEF TaskStates, Unsent, userVars

\* A prompt that the agent has goes through its states.
LEMMA AtAgentServes ==
    ASSUME IInv, NEW r \in Requests, task[r] \in {"sent", "stopping"},
           NEW to \in {"stopping", "softDraining", "draining", "cancelDraining"},
           to \in {"stopping", "cancelDraining"} => r \in app.cancelled,
           task' = [task EXCEPT ![r] = to], inFlight' \in {inFlight, 0},
           UNCHANGED <<app, events, open, binding, sid, current, nextSid, asked, chunks, userVars>>
    PROVE  Serves
<1>0. Held(app, events) /\ ClientTypes
  BY IInvParts
<1>1. Active(r) /\ sid[r] # 0 /\ Known(app, events, r, sid[r]) /\ sid[r] \in asked
  BY SessionKnown DEF WithSession, AtAgent
<1>2. ClientTypes'
  <2>1. inFlight' \in 0..MaxRequests
    BY <1>0, ZeroTypes DEF ClientTypes
  <2>2. task' \in [Requests -> TaskStates]
    BY <1>0 DEF ClientTypes, TaskStates
  <2>3. QED
    BY <1>0, <2>1, <2>2 DEF ClientTypes, userVars
<1>3. Known(app, events, r, sid[r])' /\ sid'[r] \in asked' /\ sid'[r] # 0
  BY <1>1 DEF Known, Told, userVars
<1>4. TaskOK(app, events)'
  BY <1>1, <1>3, MovedTaskOK
<1>5. QED
  BY <1>1, <1>2, <1>4, MoveServes DEF TaskStates, Unsent, userVars

\* The agent answers, or the prompt is cancelled.
LEMMA AgentAnswersServes ==
    ASSUME IInv, NEW r \in Requests, CancelSent(r) \/ AgentResponds(r) \/ CancelledPromptResolves(r)
    PROVE  Serves
<1>1. CASE CancelSent(r)
  BY <1>1, AtAgentServes DEF CancelSent, Moves
<1>2. CASE AgentResponds(r)
  <2>1. PICK soft \in BOOLEAN : Moves(r, "sent", IF soft THEN "softDraining" ELSE "draining")
    BY <1>2 DEF AgentResponds
  <2> DEFINE to == IF soft THEN "softDraining" ELSE "draining"
  <2>2. to \in {"softDraining", "draining"} /\ task[r] = "sent" /\ task' = [task EXCEPT ![r] = to]
    BY <2>1 DEF Moves
  <2> HIDE DEF to
  <2>3. QED
    BY <1>2, <2>2, AtAgentServes DEF AgentResponds, Released
<1>3. CASE CancelledPromptResolves(r)
  <2>1. task[r] = "stopping"
    BY <1>3 DEF CancelledPromptResolves, Moves
  <2>2. r \in app.cancelled
    BY <2>1, IInvParts DEF Held, TaskOK
  <2>3. QED
    BY <1>3, <2>1, <2>2, AtAgentServes DEF CancelledPromptResolves, Moves
<1>4. QED
  BY <1>1, <1>2, <1>3

\* A task publishes what the agent has said, or the session it has made.
LEMMA OutputServes ==
    ASSUME IInv, NEW r \in Requests, Active(r), NEW to \in TaskStates \ {"none", "done"},
           task' = [task EXCEPT ![r] = to], to \in Unsent => task[r] \in Unsent,
           NEW x \in Events, x.id = r, x.type \in {"chunk", "attached"},
           x.type = "chunk" => x.session \in asked /\ binding' = binding,
           x.type = "attached" => /\ task[r] \in Unsent /\ to \notin Unsent
                                  /\ x.session # 0 /\ binding' = x.session,
           events' = events \o <<x>>, UNCHANGED <<app, open, overtaken, inFlight, asked>>,
           ClientTypes', TaskOK(app, events)', SessionOK(app, events)'
    PROVE  Serves
<1> DEFINE e == events
           f == events'
<1>0. Held(app, e) /\ ServedOK(app, e) /\ ClientTypes /\ app \in App /\ e \in Seq(Events)
  BY IInvParts DEF Held, Typed
<1>1. /\ ~Accepts(app) /\ app.turn.id = r /\ r \notin Queued(app) /\ r <= Len(app.kind)
      /\ app.out = <<>> /\ app.conn # "connecting"
      /\ \A i \in 1..Len(e) : e[i].id = r /\ e[i].type \in Output
  BY BusyFacts
<1>2. /\ task'[r] = to /\ to \notin {"none", "done"}
      /\ \A q \in Requests : q # r => task'[q] = task[q]
  BY <1>0 DEF ClientTypes
<1>3. /\ \A q \in Requests : Active(q)' <=> Active(q)
      /\ \A q \in Requests : task'[q] = "none" <=> task[q] = "none"
      /\ \A q \in Requests : task'[q] = "done" <=> task[q] = "done"
  BY <1>2 DEF Active
<1>4. /\ Grows(e, f) /\ Len(f) = Len(e) + 1 /\ f[Len(f)] = x
      /\ \A i \in 1..Len(f) : i \in 1..Len(e) \/ i = Len(f)
  <2>1. e \in Seq(Events) /\ x \in Events /\ f = e \o <<x>>
    BY <1>0
  <2> HIDE DEF e, f
  <2>2. QED
    BY ONLY <2>1, OneMore
<1> HIDE DEF e, f
<1>5. e = events /\ f = events' /\ f \in Seq(Events)
  BY <1>4 DEF e, f, Grows
<1>6. ASSUME NEW i \in 1..Len(f)
      PROVE  /\ f[i].id = r /\ f[i].type \in Output
             /\ (i \in 1..Len(e) /\ f[i] = e[i]) \/ (i = Len(f) /\ f[i] = x)
  <2>1. CASE i \in 1..Len(e)
    <3>1. f[i] = e[i]
      BY <1>4, <2>1 DEF Grows
    <3>2. e[i].id = r /\ e[i].type \in Output
      BY <1>1, <2>1
    <3>3. QED
      BY <2>1, <3>1, <3>2
  <2>2. CASE i = Len(f)
    BY <1>4, <2>2 DEF Output
  <2>3. QED
    BY <1>4, <2>1, <2>2
<1>7. r # 0 /\ \A i \in 1..Len(f) : f[i].type \notin Transport \cup Final
  BY <1>6, PromptTurnAssumption DEF Requests, Output, Transport, Final
<1>8. Typed(app, events)' /\ QueueOK(app)' /\ TurnOK(app)'
  BY <1>0, <1>5 DEF Held, Typed, QueueOK, TurnOK, Accepts, Cancelling, Queued
<1>9. FreshOK(app, events)'
  <2>1. app.kind \in Seq(Kinds) /\ r \in Nat
    BY <1>0 DEF App, Requests
  <2>2. Len(app.kind) \in Nat /\ ~(r > Len(app.kind))
    BY <1>1, <2>1
  <2>3. \A q \in Requests : q \in Queued(app) \/ q > Len(app.kind) =>
           task[q] = "none" /\ q # r /\ q \notin ToSet(app.out)
    BY <1>0, <1>1, <2>2 DEF Held, FreshOK
  <2>4. \A q \in Requests : q \in Queued(app) \/ q > Len(app.kind) =>
           task'[q] = "none" /\ q \notin ToSet(app.out) /\ ~About(f, q)
    BY <1>3, <1>6, <2>3 DEF About
  <2>5. QED
    BY <1>0, <1>5, <2>4 DEF Held, FreshOK, Queued, About
<1>10. FlightOK(app, events)'
  <2>1. \A q \in Requests : q \in ToSet(app.out) \/ Active(q)' \/ About(f, q)
                            => ~Accepts(app) /\ app.turn.id = q
    BY <1>0, <1>1, <1>3, <1>6 DEF Held, FlightOK, About
  <2>2. \A q \in ToSet(app.out) : FALSE
    BY <1>1 DEF ToSet
  <2>3. inFlight # 0 => task'[inFlight] \notin {"none", "done"}
    <3>1. inFlight # 0 => inFlight \in Requests
      BY <1>0, PromptTurnAssumption DEF ClientTypes, Requests
    <3>2. QED
      BY <1>0, <1>3, <3>1 DEF Held, FlightOK, Active
  <2>4. QED
    BY <1>0, <1>5, <1>6, <1>7, <2>1, <2>2, <2>3 DEF Held, FlightOK, Accepts, About, Active
<1>11. TransportOK(app, events)'
  <2>1. \A i \in 1..Len(f) : f[i].type \notin {"disconnected", "retired", "connected"}
    BY <1>7 DEF Transport
  <2>2. QED
    BY <1>0, <1>1, <1>3, <1>5, <2>1 DEF Held, TransportOK, Has
<1>12. EventOK(app, events)'
  <2>1. ASSUME NEW i \in 1..Len(f), f[i].type = "chunk" PROVE f[i].session \in asked
    BY <1>0, <1>6, <2>1 DEF Held, EventOK
  <2>2. ASSUME NEW i \in 1..Len(f), f[i].type = "attached"
        PROVE  /\ task'[f[i].id] \notin Unsent /\ f[i].session # 0
               /\ \A j \in 1..Len(f) : f[j].type = "attached" => j = i
               /\ app.active.valid /\ open /\ app.active.session \notin overtaken
                  => binding' = f[i].session
    <3>1. f[i].id = r /\ task'[f[i].id] = to
      BY <1>2, <1>6
    <3>2. ASSUME NEW j \in 1..Len(e), e[j].type = "attached"
          PROVE  /\ task[r] \notin Unsent /\ x.type # "attached" /\ e[j].session # 0
                 /\ \A k \in 1..Len(e) : e[k].type = "attached" => k = j
                 /\ app.active.valid /\ open /\ app.active.session \notin overtaken
                    => binding = e[j].session
      <4>1. e[j].id = r
        BY <1>1, <1>5, <3>2
      <4>2. QED
        BY <1>0, <1>5, <3>2, <4>1 DEF Held, EventOK
    <3>3. CASE i \in 1..Len(e) /\ f[i] = e[i]
      <4>1. task[r] \notin Unsent /\ x.type = "chunk"
        BY <2>2, <3>2, <3>3
      <4>2. \A j \in 1..Len(f) : f[j].type = "attached" => j \in 1..Len(e) /\ f[j] = e[j]
        BY <1>6, <4>1
      <4>3. QED
        BY <2>2, <3>1, <3>2, <3>3, <4>1, <4>2
    <3>4. CASE i = Len(f) /\ f[i] = x
      <4>1. \A j \in 1..Len(f) : f[j].type = "attached" => j = Len(f)
        BY <1>6, <2>2, <3>2, <3>4
      <4>2. QED
        BY <2>2, <3>1, <3>4, <4>1
    <3>5. QED
      BY <1>6, <3>3, <3>4
  <2>3. \A i \in 1..Len(f) : f[i].type \notin {"end", "error", "lost", "settled", "settledStarted", "connected"}
    BY <1>7 DEF Final, Transport
  <2>4. QED
    BY <1>5, <2>1, <2>2, <2>3 DEF EventOK
<1>13. ServedOK(app, events)'
  BY <1>1, <1>3 DEF ServedOK, Comes
<1>14. IInv'
  BY <1>8, <1>9, <1>10, <1>11, <1>12, <1>13 DEF IInv, Held
<1>15. QED
  BY <1>3, <1>14 DEF Serves

\* The agent sends output.
LEMMA AgentChunkServes ==
    ASSUME IInv, NEW r \in Requests, AgentChunk(r)
    PROVE  Serves
<1> DEFINE x == Ev("chunk", r, sid[r])
<1>0. /\ Held(app, events) /\ ClientTypes /\ AtAgent(r) /\ chunks[r] < MaxChunks
      /\ chunks' = [chunks EXCEPT ![r] = @ + 1] /\ events' = events \o <<x>>
      /\ UNCHANGED <<app, clientVars, userVars>>
  BY IInvParts DEF AgentChunk, Publish
<1>1. Active(r) /\ sid[r] \in 0..MaxSessions /\ r \in 0..MaxRequests /\ sid[r] \in asked
  BY <1>0, SessionKnown DEF AtAgent, WithSession
<1>2. x \in Events /\ x.id = r /\ x.type = "chunk" /\ x.session \in asked
  BY <1>1 DEF Ev, Events, Output
<1>3. ClientTypes'
  <2>1. chunks[r] + 1 \in 0..MaxChunks
    BY <1>0, PromptTurnAssumption DEF ClientTypes
  <2>2. chunks' \in [Requests -> 0..MaxChunks]
    BY <1>0, <2>1 DEF ClientTypes
  <2>3. QED
    BY <1>0, <2>2 DEF ClientTypes, clientVars, userVars
<1>4. \A q, s : Told(events, q, s) => Told(events', q, s)
  <2> HIDE DEF x
  <2>1. events \in Seq(Events)
    BY <1>0 DEF Held, Typed
  <2>2. Grows(events, events')
    BY <1>0, <1>2, <2>1, OneMore
  <2>3. QED
    BY <2>2, GrowsTold
<1>5. \A y : Has(events, y) => Has(events', y)
  <2> HIDE DEF x
  <2>1. events \in Seq(Events)
    BY <1>0 DEF Held, Typed
  <2>2. Grows(events, events')
    BY <1>0, <1>2, <2>1, OneMore
  <2>3. QED
    BY <2>2, GrowsTold
<1> HIDE DEF x
<1>6. TaskOK(app, events)'
  BY <1>0, <1>4 DEF Held, TaskOK, Known, AtAgent, clientVars, userVars
<1>7. SessionOK(app, events)'
  BY <1>0, <1>4, <1>5 DEF Held, SessionOK, Accepts, clientVars, userVars
<1>8. /\ task[r] \in TaskStates \ {"none", "done"} /\ task' = [task EXCEPT ![r] = task[r]]
      /\ binding' = binding /\ UNCHANGED <<app, open, overtaken, inFlight, asked>>
  BY <1>0, <1>1 DEF ClientTypes, Active, clientVars, userVars
<1>9. QED
  BY <1>0, <1>1, <1>2, <1>3, <1>6, <1>7, <1>8, OutputServes

\* The session that was made becomes the binding of the tab, unless a reset
\* came first.
LEMMA NewSessionReturnsServes ==
    ASSUME IInv, NEW r \in Requests, NewSessionReturns(r)
    PROVE  Serves
<1> DEFINE n == nextSid + 1
           x == Ev("attached", r, n)
<1>0. Held(app, events) /\ ClientTypes /\ task[r] = "newSession" /\ Active(r)
  BY IInvParts DEF NewSessionReturns, Moves, Active
<1>1. /\ nextSid < MaxSessions /\ nextSid' = n
      /\ UNCHANGED <<app, open, inFlight, current, asked, chunks, userVars>>
  BY DEF NewSessionReturns
<1>2. n \in Sessions /\ n \in 0..MaxSessions /\ n # 0 /\ r \in 0..MaxRequests
  BY <1>0, <1>1, PromptTurnAssumption DEF ClientTypes, Sessions, Requests
<1>3. CASE r \notin current
  <2>1. task' = [task EXCEPT ![r] = "awaitCancel"] /\ UNCHANGED <<binding, sid, events>>
    BY <1>3 DEF NewSessionReturns, Moves
  <2>2. r \in app.cancelled
    BY <1>0, <1>3 DEF Held, TaskOK
  <2>3. ClientTypes'
    BY <1>0, <1>1, <1>2, <2>1 DEF ClientTypes, TaskStates, userVars
  <2>4. TaskOK(app, events)'
    BY <1>0, <1>1, <2>1, <2>2, MovedTaskOK DEF WithSession
  <2>5. QED
    BY <1>0, <1>1, <2>1, <2>3, <2>4, MoveServes DEF TaskStates, Unsent, userVars
<1>4. CASE r \in current
  <2>1. /\ task' = [task EXCEPT ![r] = "build"] /\ binding' = n /\ sid' = [sid EXCEPT ![r] = n]
        /\ events' = events \o <<x>>
    BY <1>1, <1>4 DEF NewSessionReturns, Moves, Publish
  <2>2. x \in Events /\ x.id = r /\ x.type = "attached" /\ x.session = n
    BY <1>2 DEF Ev, Events, Output
  <2>3. ClientTypes'
    BY <1>0, <1>1, <1>2, <2>1 DEF ClientTypes, TaskStates, userVars
  <2>4. Told(events', r, n)
    <3>1. events \in Seq(Events)
      BY <1>0 DEF Held, Typed
    <3> HIDE DEF x
    <3>2. Grows(events, events') /\ Len(events') = Len(events) + 1 /\ events'[Len(events')] = x
      BY <2>1, <2>2, <3>1, OneMore
    <3>3. Len(events') \in 1..Len(events')
      BY <3>2 DEF Grows
    <3>4. QED
      BY <3>2, <3>3 DEF Told, x
  <2>5. /\ app.active.session \in {0} \cup overtaken
        /\ open /\ ~app.drops => app.active.valid
    BY <1>0, <1>4 DEF Held, TaskOK
  <2>6. sid'[r] = n /\ overtaken' = overtaken /\ app' = app /\ open' = open
    BY <1>0, <1>1, <2>1 DEF ClientTypes, userVars
  <2>7. TaskOK(app, events)'
    <3>1. Known(app, events, r, sid[r])'
      BY <2>4, <2>5, <2>6 DEF Known
    <3>2. QED
      BY <1>0, <1>2, <2>1, <2>6, <3>1, MovedTaskOK
  <2>8. SessionOK(app, events)'
    <3>1. ~Accepts(app) /\ app.turn.id = r
      BY <1>0, BusyFacts
    <3>2. app.active.valid => app.session = app.active.session
      BY <1>0, <3>1 DEF Held, TurnOK
    <3>3. open /\ ~app.drops /\ app.session \notin overtaken => app.session = 0 /\ app.active.valid
      BY <2>5, <3>2
    <3>4. QED
      BY <1>0, <1>1, <2>1, <2>4, <2>6, <3>1, <3>3 DEF Held, SessionOK, Accepts
  <2>9. QED
    <3> HIDE DEF x
    <3>1. "build" \in TaskStates \ {"none", "done"} /\ "build" \notin Unsent /\ "newSession" \in Unsent
      BY DEF TaskStates, Unsent
    <3>2. UNCHANGED <<app, open, overtaken, inFlight, asked>>
      BY <1>1 DEF userVars
    <3>3. QED
      BY <1>0, <1>2, <2>1, <2>2, <2>3, <2>7, <2>8, <3>1, <3>2, OutputServes
<1>5. QED
  BY <1>3, <1>4

\* The client drops the tab's session.
LEMMA DropSessionServes ==
    ASSUME IInv, DropSession
    PROVE  Serves
<1> DEFINE a == app
           b == app'
<1>0. Held(app, events) /\ ServedOK(app, events) /\ ClientTypes /\ app \in App
  BY IInvParts
<1>1. /\ a.drops /\ open /\ b = [a EXCEPT !.drops = FALSE] /\ binding' = 0 /\ current' = {}
      /\ UNCHANGED <<events, open, inFlight, task, sid, nextSid, asked, chunks, userVars>>
  BY DEF DropSession
<1>2. /\ b \in App /\ b.conn = a.conn /\ b.kind = a.kind /\ b.session = a.session /\ ~b.drops
      /\ b.queue = a.queue /\ b.resub = a.resub /\ b.turn = a.turn /\ b.out = a.out
      /\ b.active = a.active /\ b.meaningful = a.meaningful /\ b.cancelled = a.cancelled
      /\ Accepts(b) = Accepts(a) /\ Cancelling(b) = Cancelling(a) /\ Queued(b) = Queued(a)
  BY <1>0, <1>1 DEF App, Accepts, Cancelling, Queued
<1>3. ClientTypes'
  BY <1>0, <1>1, ZeroTypes DEF ClientTypes, userVars
<1> HIDE DEF a, b
<1>4. a = app /\ b = app' /\ events' = events /\ open' = open /\ inFlight' = inFlight
      /\ task' = task /\ sid' = sid /\ asked' = asked /\ overtaken' = overtaken
      /\ open = TRUE /\ a.drops /\ binding' = 0
  BY <1>1 DEF a, b, userVars
<1>5. a.session \in {0} \cup overtaken
  BY <1>0, <1>1, <1>4 DEF Held, SessionOK
<1>6. ASSUME NEW r \in Requests, Active(r) \/ About(events, r)
      PROVE  ~a.active.valid /\ r \in a.cancelled
  <2>1. ~Accepts(a) /\ a.turn.id = r /\ r \notin ToSet(a.out)
    BY <1>0, <1>4, <1>6 DEF Held, FlightOK, Active
  <2>2. ~a.active.valid
    BY <1>0, <1>1, <1>4, <2>1 DEF Held, SessionOK
  <2>3. QED
    BY <1>0, <1>4, <2>1, <2>2 DEF Held, TurnOK
<1>7. Typed(app, events)' /\ QueueOK(app)' /\ TurnOK(app)'
  BY <1>0, <1>2, <1>4, SMTT(60) DEF Held, Typed, QueueOK, TurnOK, Accepts, Cancelling, Queued
<1>8. FreshOK(app, events)' /\ FlightOK(app, events)'
  BY <1>0, <1>2, <1>4 DEF Held, FreshOK, FlightOK, Accepts, Queued, About, Active
<1>9. TransportOK(app, events)'
  BY <1>0, <1>2, <1>4 DEF Held, TransportOK, Accepts, Has, Active
<1>10. TaskOK(app, events)'
  <2>1. \A r \in Requests : task[r] \in {"newSession", "start"} => r \in a.cancelled
    BY <1>6 DEF Active
  <2>2. \A r \in Requests : r \in ToSet(a.out) /\ r \notin a.cancelled => a.active.session \in {0} \cup overtaken
    BY <1>0, <1>1, <1>4 DEF Held, TaskOK
  <2>3. \A r \in Requests : task[r] = "newSession" => a.active.session \in {0} \cup overtaken
    BY <1>0, <1>4 DEF Held, TaskOK
  <2>4. \A r \in Requests : /\ AtAgent(r) => sid[r] \in asked
                            /\ task[r] \in WithSession => sid[r] # 0 /\ Known(a, events, r, sid[r])
                            /\ task[r] \in {"stopping", "cancelDraining", "awaitCancel"} => r \in a.cancelled
    BY <1>0, <1>4 DEF Held, TaskOK
  <2>5. QED
    BY <1>1, <1>2, <1>4, <2>1, <2>2, <2>3, <2>4, ZenonT(60) DEF TaskOK, Known, AtAgent
<1>11. EventOK(app, events)'
  <2>1. ASSUME NEW i \in 1..Len(events), events[i].type = "attached" PROVE ~a.active.valid
    <3>1. events[i] \in Events
      BY <1>0 DEF Held, Typed
    <3>2. events[i].id \in 0..MaxRequests /\ events[i].id # 0
      BY <1>0, <2>1, <3>1 DEF Events, Held, FlightOK, Transport
    <3>3. events[i].id \in Requests
      BY <3>2, PromptTurnAssumption DEF Requests
    <3>4. QED
      BY <1>6, <3>3 DEF About
  <2>2. \A i \in 1..Len(events) : events[i].type = "connected" => events[i].session \in overtaken
    BY <1>0, <1>1, <1>4 DEF Held, EventOK
  <2>3. QED
    BY <1>0, <1>2, <1>4, <2>1, <2>2 DEF Held, EventOK, Known
<1>12. SessionOK(app, events)'
  BY <1>0, <1>2, <1>4, <1>5 DEF Held, SessionOK, Accepts
<1>13. ServedOK(app, events)'
  BY <1>0, <1>2, <1>4 DEF ServedOK, Raced, Comes, Accepts, Cancelling, Has, Active
<1>14. IInv'
  BY <1>3, <1>7, <1>8, <1>9, <1>10, <1>11, <1>12, <1>13 DEF IInv, Held
<1>15. QED
  BY <1>2, <1>4, <1>14 DEF Serves, Active

\* The connection ends: every prompt is told to stop.
LEMMA TransportEndsServes ==
    ASSUME IInv, TransportEnds
    PROVE  Serves
<1> DEFINE a == app
           b == app'
           told == ToSet(app.out) \cup {r \in Requests : task[r] \notin {"none", "done"}}
<1>0. Held(app, events) /\ ServedOK(app, events) /\ ClientTypes /\ app \in App
  BY IInvParts
<1>1. /\ open /\ open' = FALSE
      /\ b = [a EXCEPT !.out = <<>>, !.drops = FALSE,
                !.cancelled = a.cancelled \cup ToSet(a.out) \cup {r \in Requests : task[r] \notin {"none", "done"}}]
      /\ UNCHANGED <<events, inFlight, binding, task, sid, current, nextSid, asked, chunks, execs,
                     overtaken>>
  BY DEF TransportEnds
<1>2. ToSet(a.out) \subseteq Requests /\ a.cancelled \subseteq Requests
  <2>1. a.out \in Seq(Requests) /\ a.cancelled \subseteq Requests
    BY <1>0 DEF App
  <2>2. QED
    BY <2>1, InToSet
<1>3. /\ b \in App /\ b.conn = a.conn /\ b.kind = a.kind /\ b.session = a.session /\ ~b.drops
      /\ b.queue = a.queue /\ b.resub = a.resub /\ b.turn = a.turn /\ b.out = <<>>
      /\ b.active = a.active /\ b.meaningful = a.meaningful /\ b.cancelled = a.cancelled \cup told
      /\ Accepts(b) = Accepts(a) /\ Cancelling(b) = Cancelling(a) /\ Queued(b) = Queued(a)
      /\ ToSet(b.out) = {} /\ Len(b.out) <= 1
  <2>1. <<>> \in Seq(Requests) /\ Len(<<>>) <= 1 /\ ToSet(<<>>) = {}
    BY DEF ToSet
  <2>2. b \in App
    BY <1>0, <1>1, <1>2, <2>1 DEF App
  <2>3. QED
    BY <1>0, <1>1, <2>1, <2>2, ZenonT(60) DEF App, Accepts, Cancelling, Queued
<1>4. ClientTypes'
  <2>1. ops' \in 0..MaxOps
    BY <1>0, PromptTurnAssumption DEF ClientTypes, TransportEnds
  <2>2. QED
    BY <1>0, <1>1, <2>1 DEF ClientTypes
<1>5. \A r \in told : r \in Requests /\ ~Accepts(a) /\ a.turn.id = r /\ r \notin Queued(a) /\ r <= Len(a.kind)
  BY <1>2, BusyFacts DEF Active
<1>6. \A r \in Requests : Active(r) => r \in told
  BY DEF Active
<1> HIDE DEF a, b, told
<1>7. a = app /\ b = app' /\ events' = events /\ inFlight' = inFlight /\ binding' = binding
      /\ task' = task /\ sid' = sid /\ asked' = asked /\ overtaken' = overtaken /\ current' = current
      /\ open = TRUE /\ open' = FALSE
  BY <1>1 DEF a, b
<1>8. Typed(app, events)'
  BY <1>0, <1>3, <1>7 DEF Held, Typed
<1>9. QueueOK(app)'
  BY <1>0, <1>3, <1>5, <1>7 DEF Held, QueueOK, Queued
<1>10. TurnOK(app)'
  BY <1>0, <1>3, <1>7 DEF Held, TurnOK, Accepts, Cancelling, Queued
<1>11. FreshOK(app, events)'
  BY <1>0, <1>3, <1>5, <1>7 DEF Held, FreshOK, Queued, About
<1>12. FlightOK(app, events)'
  BY <1>0, <1>3, <1>7 DEF Held, FlightOK, Accepts, About, Active
<1>13. ~Has(events, "retired")
  BY <1>0, <1>1 DEF Held, TransportOK, Has
<1>14. TransportOK(app, events)'
  <2>1. \A i \in 1..Len(events) : events[i].type \notin {"disconnected", "retired"}
    BY <1>0, <1>13 DEF Held, TransportOK, Has
  <2>2. QED
    BY <1>0, <1>3, <1>6, <1>7, <1>13, <2>1 DEF Held, TransportOK, Accepts, Has, Active
<1>15. TaskOK(app, events)'
  <2>1. \A r \in Requests : task[r] \in {"newSession", "start", "stopping", "cancelDraining", "awaitCancel"}
                            => r \in b.cancelled
    BY <1>3, <1>6 DEF Active
  <2>2. \A r \in Requests : /\ AtAgent(r) => sid[r] \in asked
                            /\ task[r] \in WithSession => sid[r] # 0 /\ Known(a, events, r, sid[r])
                            /\ task[r] = "newSession" => a.active.session \in {0} \cup overtaken
    BY <1>0, <1>7 DEF Held, TaskOK
  <2>3. QED
    BY <1>3, <1>7, <2>1, <2>2 DEF TaskOK, Known, AtAgent
<1>16. EventOK(app, events)'
  <2>1. \A r, s : Known(a, events, r, s) <=> Known(app, events, r, s)'
    BY <1>3, <1>7 DEF Known, Told
  <2>2. \A i \in 1..Len(events) : events[i].type \in {"settled", "settledStarted"} => events[i].id \in b.cancelled
    BY <1>0, <1>3, <1>7 DEF Held, EventOK
  <2>3. QED
    BY <1>0, <1>3, <1>7, <2>1, <2>2 DEF Held, EventOK
<1>17. SessionOK(app, events)'
  BY <1>0, <1>3, <1>7 DEF Held, SessionOK
<1>18. ServedOK(app, events)'
  <2>1. ~Accepts(a) => a.conn # "connecting"
    BY <1>0, <1>7, <1>13 DEF Held, TransportOK
  <2>2. QED
    BY <1>3, <1>7, <2>1 DEF ServedOK, Comes, Accepts
<1>19. IInv'
  BY <1>4, <1>8, <1>9, <1>10, <1>11, <1>12, <1>14, <1>15, <1>16, <1>17, <1>18 DEF IInv, Held
<1>20. QED
  BY <1>3, <1>7, <1>19 DEF Serves, Active

\* The transport is retired: every task is gone, and the App will be told.
LEMMA TransportRetiredServes ==
    ASSUME IInv, TransportRetired
    PROVE  Serves
<1> DEFINE a == app
           e == events
           f == events'
           x == Ev("disconnected", 0, 0)
           y == Ev("retired", 0, 0)
           g == <<x, y>>
<1>0. Held(a, e) /\ ServedOK(a, e) /\ ClientTypes /\ a \in App /\ e \in Seq(Events)
  BY IInvParts DEF Held, Typed
<1>1. /\ ~open /\ a.conn # "connecting" /\ y \notin ToSet(e) /\ f = e \o g
      /\ task' = [r \in Requests |-> IF task[r] = "none" THEN "none" ELSE "done"]
      /\ sid' = [r \in Requests |-> 0] /\ chunks' = [r \in Requests |-> 0]
      /\ inFlight' = 0 /\ binding' = 0 /\ current' = {}
      /\ UNCHANGED <<app, open, nextSid, asked, userVars>>
  BY DEF TransportRetired, Publish
<1>2. /\ g \in Seq(Events) /\ Len(g) = 2 /\ g[1] = x /\ g[2] = y
      /\ x.type = "disconnected" /\ x.id = 0 /\ y.type = "retired" /\ y.id = 0
  <2>1. x \in Events /\ y \in Events
    BY ZeroTypes DEF Ev, Events, Transport
  <2>2. QED
    BY <2>1 DEF Ev
<1>3. ClientTypes'
  <2>1. 0 \in 0..MaxSessions /\ 0 \in 0..MaxChunks /\ 0 \in 0..MaxRequests
    BY PromptTurnAssumption
  <2>2. task' \in [Requests -> TaskStates]
    BY <1>1 DEF TaskStates
  <2>3. QED
    BY <1>0, <1>1, <2>1, <2>2 DEF ClientTypes, userVars
<1>4. ~Has(e, "retired") /\ ~Has(e, "disconnected") /\ ~Has(e, "connected")
  <2>1. ASSUME NEW i \in 1..Len(e), e[i].type = "retired" PROVE FALSE
    <3>1. i = Len(e) /\ Has(e, "disconnected")
      BY <1>0, <1>1, <2>1 DEF Held, TransportOK
    <3>2. e[i] \in Events /\ e[i].id = 0
      BY <1>0, <2>1 DEF Held, FlightOK, Transport
    <3>3. e[i] \in ToSet(e)
      BY <1>0, InToSet
    <3>4. e[i].session = 0
      BY <2>1, <3>2 DEF Events
    <3>5. e[i] = y
      BY <2>1, <3>2, <3>4 DEF Events, Ev
    <3>6. QED
      BY <1>1, <3>3, <3>5
  <2>2. ~Has(e, "retired")
    BY <2>1 DEF Has
  <2>3. QED
    BY <1>0, <1>1, <2>2 DEF Held, TransportOK, Has
<1> HIDE DEF g, x, y
<1>5. /\ Grows(e, f) /\ Len(f) = Len(e) + 2 /\ f[Len(e) + 1] = x /\ f[Len(f)] = y
      /\ \A i \in 1..Len(f) : i \in 1..Len(e) \/ i = Len(e) + 1 \/ i = Len(f)
  <2>1. e \in Seq(Events) /\ f = e \o g /\ g \in Seq(Events) /\ Len(g) = 2 /\ g[1] = x /\ g[2] = y
    BY <1>0, <1>1, <1>2
  <2> HIDE DEF e, f
  <2>2. Adds(e, g, f)
    BY ONLY <2>1, TwoMore
  <2>3. QED
    BY ONLY <2>1, <2>2 DEF Adds
<1> HIDE DEF a, e, f
<1>6. /\ a = app /\ e = events /\ f = events' /\ app' = app /\ open' = open /\ overtaken' = overtaken
      /\ asked' = asked /\ open = FALSE /\ f \in Seq(Events) /\ inFlight' = 0
      /\ a.conn # "connecting"
  <2>1. a = app /\ e = events /\ f = events' /\ f \in Seq(Events)
    BY <1>5 DEF a, e, f, Grows
  <2>2. open = FALSE
    BY <1>0, <1>1 DEF ClientTypes
  <2>3. /\ app' = app /\ open' = open /\ overtaken' = overtaken /\ asked' = asked /\ inFlight' = 0
        /\ a.conn # "connecting"
    BY <1>1 DEF userVars
  <2>4. QED
    BY <2>1, <2>2, <2>3
<1>7. \A r \in Requests : ~Active(r)' /\ (task'[r] = "none" <=> task[r] = "none")
                          /\ (task[r] # "none" => task'[r] = "done")
  BY <1>1 DEF Active
<1>8. ASSUME NEW i \in 1..Len(f)
      PROVE  \/ i \in 1..Len(e) /\ f[i] = e[i] /\ f[i].type \notin Transport
             \/ i = Len(e) + 1 /\ f[i].type = "disconnected" /\ f[i].id = 0
             \/ i = Len(f) /\ f[i].type = "retired" /\ f[i].id = 0
  <2>1. CASE i \in 1..Len(e)
    BY <1>4, <1>5, <2>1 DEF Grows, Has, Transport
  <2>2. CASE i = Len(e) + 1
    BY <1>2, <1>5, <2>2
  <2>3. CASE i = Len(f)
    BY <1>2, <1>5, <2>3
  <2>4. QED
    BY <1>5, <2>1, <2>2, <2>3
<1>9. Len(e) \in Nat /\ Len(f) = Len(e) + 2 /\ Len(e) + 1 \in 1..Len(f) /\ Len(f) \in 1..Len(f)
  BY <1>5 DEF Grows
<1>10. Has(f, "disconnected") /\ Has(f, "retired") /\ ~Has(f, "connected")
  BY <1>2, <1>4, <1>5, <1>8, <1>9 DEF Has, Transport
<1>11. \A r \in Requests : About(f, r) => About(e, r)
  <2>1. \A r \in Requests : r # 0
    BY DEF Requests
  <2>2. QED
    BY <1>8, <2>1 DEF About
<1>12. Typed(app, events)' /\ QueueOK(app)' /\ TurnOK(app)'
  BY <1>0, <1>6 DEF Held, Typed, QueueOK, TurnOK, Accepts, Cancelling, Queued
<1>13. FreshOK(app, events)'
  BY <1>0, <1>6, <1>7, <1>11 DEF Held, FreshOK, Queued, About
<1>14. a.out = <<>> /\ ~a.drops /\ ToSet(a.out) = {} /\ Len(a.out) <= 1
  BY <1>0, <1>6 DEF Held, TransportOK, ToSet
<1>15. FlightOK(app, events)'
  <2>1. \A q \in Requests : q \in ToSet(a.out) \/ Active(q)' \/ About(f, q) => ~Accepts(a) /\ a.turn.id = q
    BY <1>0, <1>7, <1>11, <1>14 DEF Held, FlightOK
  <2>2. \A i \in 1..Len(f) : (f[i].id = 0) <=> (f[i].type \in Transport)
    BY <1>0, <1>8 DEF Held, FlightOK, Transport
  <2>3. ASSUME NEW i \in 1..Len(f), f[i].type \in Final
        PROVE  task'[f[i].id] = "done" /\ \A j \in 1..Len(f) : i < j => f[j].id = 0
    <3>1. i \in 1..Len(e) /\ f[i] = e[i]
      BY <1>8, <2>3 DEF Final
    <3>2. task[e[i].id] = "done" /\ \A j \in 1..Len(e) : i < j => e[j].id = 0
      BY <1>0, <2>3, <3>1 DEF Held, FlightOK
    <3>3. e[i].id \in Requests
      <4>1. e[i] \in Events
        BY <1>0, <3>1
      <4>2. e[i].id \in 0..MaxRequests /\ e[i].id # 0
        BY <1>0, <1>8, <2>3, <3>1, <4>1 DEF Events, Held, FlightOK, Transport, Final
      <4>3. QED
        BY <4>2, PromptTurnAssumption DEF Requests
    <3>4. QED
      BY <1>7, <1>8, <3>1, <3>2, <3>3
  <2>4. QED
    BY <1>6, <1>14, <2>1, <2>2, <2>3 DEF FlightOK, Accepts, About
<1>16. TransportOK(app, events)'
  <2>1. ASSUME NEW i \in 1..Len(f), f[i].type = "disconnected", NEW j \in 1..Len(f), i < j
        PROVE  f[j].type = "retired"
    <3>1. i = Len(e) + 1
      BY <1>8, <2>1 DEF Transport
    <3>2. j \notin 1..Len(e) /\ j # Len(e) + 1
      BY <1>9, <2>1, <3>1
    <3>3. QED
      BY <1>8, <3>2
  <2>2. ASSUME NEW i \in 1..Len(f), f[i].type = "retired" PROVE i = Len(f)
    BY <1>8, <2>2 DEF Transport
  <2>3. QED
    BY <1>6, <1>7, <1>10, <1>14, <2>1, <2>2 DEF TransportOK, Has
<1>17. TaskOK(app, events)'
  BY <1>6, <1>7, <1>14 DEF TaskOK, AtAgent, WithSession, Active
<1>18. EventOK(app, events)'
  <2>1. /\ \A q, s : Known(a, e, q, s) => Known(a, f, q, s)
        /\ \A q, s : Known(a, f, q, s) <=> Known(app, events, q, s)'
    BY <1>5, <1>6, GrowsTold DEF Known, Told
  <2>2. ASSUME NEW i \in 1..Len(f), f[i].type \notin Transport PROVE i \in 1..Len(e) /\ f[i] = e[i]
    BY <1>8, <2>2 DEF Transport
  <2>3. ASSUME NEW i \in 1..Len(f), f[i].type = "attached"
        PROVE  /\ task'[f[i].id] \notin Unsent /\ f[i].session # 0
               /\ \A j \in 1..Len(f) : f[j].type = "attached" => j = i
    <3>1. i \in 1..Len(e) /\ f[i] = e[i]
      BY <2>2, <2>3 DEF Transport
    <3>2. /\ task[e[i].id] \notin Unsent /\ e[i].session # 0
          /\ \A j \in 1..Len(e) : e[j].type = "attached" => j = i
      BY <1>0, <2>3, <3>1 DEF Held, EventOK
    <3>3. e[i].id \in Requests
      <4>1. e[i] \in Events
        BY <1>0, <3>1
      <4>2. e[i].id \in 0..MaxRequests /\ e[i].id # 0
        BY <1>0, <2>3, <3>1, <4>1 DEF Events, Held, FlightOK, Transport
      <4>3. QED
        BY <4>2, PromptTurnAssumption DEF Requests
    <3>4. task'[e[i].id] = "done"
      BY <1>7, <3>2, <3>3 DEF Unsent
    <3>5. QED
      BY <2>2, <3>1, <3>2, <3>4 DEF Transport, Unsent
  <2>4. ASSUME NEW i \in 1..Len(f), f[i].type \notin Transport
        PROVE  /\ f[i].type \in {"end", "chunk"} => f[i].session \in asked
               /\ f[i].type \in {"end", "error", "lost"} =>
                     f[i].session # 0 /\ Known(a, f, f[i].id, f[i].session)
               /\ f[i].type \in {"settled", "settledStarted"} => f[i].id \in a.cancelled
               /\ f[i].type = "settledStarted" => \E s \in asked : Known(a, f, f[i].id, s)
    BY <1>0, <2>1, <2>2, <2>4 DEF Held, EventOK
  <2>5. QED
    BY <1>6, <1>10, <2>1, <2>3, <2>4 DEF EventOK, Has, Transport
<1>19. SessionOK(app, events)'
  BY <1>0, <1>6, <1>14 DEF Held, SessionOK
<1>20. ServedOK(app, events)'
  BY <1>6, <1>10 DEF ServedOK, Comes
<1>21. IInv'
  BY <1>3, <1>12, <1>13, <1>15, <1>16, <1>17, <1>18, <1>19, <1>20 DEF IInv, Held
<1>22. QED
  BY <1>6, <1>7, <1>14, <1>21 DEF Serves

\* A new client connects with a startup session of its own.
LEMMA ReconnectServes ==
    ASSUME IInv, Reconnect
    PROVE  Serves
<1> DEFINE a == app
           n == nextSid + 1
           x == Ev("connected", 0, n)
           f == events'
<1>0. Held(a, events) /\ ServedOK(a, events) /\ ClientTypes /\ a \in App
  BY IInvParts
<1>1. /\ ~open /\ a.conn = "connecting" /\ events = <<>> /\ nextSid < MaxSessions
      /\ open' = TRUE /\ nextSid' = n /\ binding' = n /\ f = <<>> \o <<x>>
      /\ UNCHANGED <<app, inFlight, task, sid, current, asked, chunks, userVars>>
  BY DEF Reconnect, Publish
<1>2. n \in Sessions /\ n \in 0..MaxSessions /\ n # 0
  BY <1>0, <1>1, PromptTurnAssumption DEF ClientTypes, Sessions
<1>3. x \in Events /\ x.type = "connected" /\ x.id = 0 /\ x.session = n
  BY <1>2, ZeroTypes DEF Ev, Events, Transport
<1>4. ClientTypes'
  BY <1>0, <1>1, <1>2 DEF ClientTypes, userVars
<1>5. 1..Len(events) = {}
  BY <1>1
<1>6. Accepts(a)
  BY <1>0, <1>1, <1>5 DEF Held, TransportOK, Has
<1>7. a.out = <<>> /\ \A r \in Requests : ~Active(r) /\ r \notin ToSet(a.out)
  BY <1>0, <1>6, IdleFacts
<1> HIDE DEF x, n
<1>8. f \in Seq(Events) /\ Len(f) = 1 /\ f[1] = x
  BY <1>1, <1>3
<1> HIDE DEF a, f
<1>9. /\ a = app /\ f = events' /\ app' = app /\ overtaken' = overtaken /\ task' = task /\ sid' = sid
      /\ asked' = asked /\ inFlight' = inFlight /\ open = FALSE /\ open' = TRUE
      /\ a.conn = "connecting" /\ binding' = n
  BY <1>0, <1>1 DEF a, f, userVars, ClientTypes
<1>10. \A i \in 1..Len(f) : i = 1 /\ f[i] = x
  BY <1>8
<1>11. \A r \in Requests : r # 0 /\ ~About(f, r)
  BY <1>3, <1>10 DEF About, Requests
<1>12. Has(f, "connected") /\ ~Has(f, "retired") /\ ~Has(f, "disconnected")
  BY <1>3, <1>8, <1>10 DEF Has
<1>13. Typed(app, events)' /\ QueueOK(app)' /\ TurnOK(app)'
  BY <1>0, <1>6, <1>8, <1>9 DEF Held, Typed, QueueOK, TurnOK, Accepts, Queued
<1>14. FreshOK(app, events)'
  BY <1>0, <1>9, <1>11 DEF Held, FreshOK, Queued, About
<1>15. FlightOK(app, events)'
  <2>1. \A i \in 1..Len(f) : f[i].id = 0 /\ f[i].type \in Transport /\ f[i].type \notin Final
    BY <1>3, <1>10 DEF Transport, Final
  <2>2. \A r \in ToSet(a.out) : FALSE
    BY <1>7 DEF ToSet
  <2>3. QED
    BY <1>0, <1>7, <1>9, <1>11, <2>1, <2>2 DEF Held, FlightOK, Accepts, About, Active
<1>16. TransportOK(app, events)'
  <2>1. \A i \in 1..Len(f) : f[i].type = "connected"
    BY <1>3, <1>10
  <2>2. a.session = 0
    BY <1>0, <1>9 DEF Held, TransportOK
  <2>3. QED
    BY <1>6, <1>8, <1>9, <2>1, <2>2 DEF TransportOK, Accepts
<1>17. TaskOK(app, events)'
  BY <1>7, <1>9 DEF TaskOK, AtAgent, WithSession, Active
<1>18. ~a.drops
  BY <1>0, <1>9 DEF Held, TransportOK
<1>19. EventOK(app, events)'
  BY <1>2, <1>3, <1>9, <1>10, <1>18 DEF EventOK
<1>20. SessionOK(app, events)'
  BY <1>0, <1>9, <1>12, <1>18 DEF Held, SessionOK
<1>21. ServedOK(app, events)'
  BY <1>6, <1>9 DEF ServedOK, Accepts
<1>22. IInv'
  BY <1>4, <1>13, <1>14, <1>15, <1>16, <1>17, <1>19, <1>20, <1>21 DEF IInv, Held
<1>23. QED
  BY <1>9, <1>22 DEF Serves, Active

-----------------------------------------------------------------------------
(* The invariant, and the promise of PromptFlight. *)

\* The helper starts with nothing under way.
LEMMA InitIInv == Init => IInv
<1> SUFFICES ASSUME Init PROVE IInv
  OBVIOUS
<1>1. <<>> \in Seq(Requests) /\ <<>> \in Seq(Events) /\ <<>> \in Seq(Kinds) /\ Len(<<>>) = 0
      /\ 1..0 = {} /\ ToSet(<<>>) = {}
  BY DEF ToSet
<1>2. 1 \in Sessions /\ 1 \in 0..MaxSessions /\ 0 \in 0..MaxSessions /\ 0 \in 0..MaxRequests
      /\ 0 \in 0..MaxChunks /\ 0 \in 0..MaxOps /\ 0 <= QueueCap
  BY PromptTurnAssumption DEF Sessions
<1>3. ClientTypes
  BY <1>2 DEF Init, ClientTypes, TaskStates
<1>4. /\ app.conn = "connected" /\ app.kind = <<>> /\ app.queue = <<>> /\ app.turn = Idle
      /\ app.active = NoPrompt /\ app.session = 1 /\ app.meaningful = FALSE /\ app.out = <<>>
      /\ app.drops = FALSE /\ app.cancelled = {} /\ events = <<>> /\ binding = 1
      /\ inFlight = 0 /\ open = TRUE
  BY DEF Init
<1>5. Idle \in Turns /\ NoPrompt \in [id : 0..MaxRequests, session : 0..MaxSessions, valid : BOOLEAN]
  BY <1>2 DEF Idle, Turn, Turns, NoPrompt
<1>6. app \in App
  BY <1>1, <1>2, <1>5 DEF Init, App
<1>7. Idle.st = "Idle" /\ Idle.outcome = "none"
  BY DEF Idle, Turn
<1>8. Accepts(app) /\ Queued(app) = {} /\ 1..Len(events) = {}
  BY <1>1, <1>4, <1>7 DEF Accepts, AcceptsNewPrompt, Queued
<1>9. \A r \in Requests : task[r] = "none"
  BY DEF Init
<1>10. Typed(app, events) /\ QueueOK(app) /\ TurnOK(app)
  BY <1>1, <1>2, <1>4, <1>6, <1>7, <1>8 DEF Typed, QueueOK, TurnOK, CardOK
<1>11. FreshOK(app, events) /\ FlightOK(app, events)
  BY <1>1, <1>4, <1>8, <1>9 DEF FreshOK, FlightOK, About, Active
<1>12. TransportOK(app, events) /\ EventOK(app, events)
  BY <1>4, <1>8, <1>9 DEF TransportOK, EventOK, Has, Active
<1>13. TaskOK(app, events) /\ SessionOK(app, events) /\ ServedOK(app, events)
  BY <1>1, <1>4, <1>8, <1>9 DEF TaskOK, AtAgent, WithSession, SessionOK, ServedOK
<1>14. QED
  BY <1>3, <1>10, <1>11, <1>12, <1>13 DEF IInv, Held

\* A task of the client takes a step.
LEMMA TaskStepServes ==
    ASSUME IInv, NEW r \in Requests, TaskStep(r) \/ AgentChunk(r)
    PROVE  Serves
  BY StopsUnsentServes, ResolveSessionServes, NewSessionFailsServes, NewSessionReturnsServes,
     PromptBlockedServes, SendPromptServes, AgentAnswersServes, AgentFailsServes, DrainedServes,
     AgentChunkServes DEF TaskStep

\* The user, the shell or the terminal does something.
LEMMA UserStepProceeds ==
    ASSUME IInv, UserStep
    PROVE  Proceeds
  BY EnterPromptProceeds, CommandFailsProceeds, CommandFailsUnattendedProceeds,
     ExecuteFromDetectedProceeds, ShellActivityProceeds, PaneClosedProceeds, StopProceeds,
     ClearProceeds, QueueOpsProceed, RecallLastProceeds, ResetTabSessionProceeds,
     DismissCardProceeds, ExecuteCardProceeds, StageProposalProceeds DEF UserStep

\* Every step is one of the App or one of the client.
LEMMA NextProceeds ==
    ASSUME IInv, Next
    PROVE  Proceeds \/ Serves
<1>1. CASE UserStep \/ HandleEvent \/ ProposalStep
  BY <1>1, UserStepProceeds, HandleEventProceeds, CommitProposalProceeds,
     InvalidateProposalProceeds DEF ProposalStep
<1>2. CASE DropSession \/ ReceivePrompt \/ TransportEnds \/ TransportRetired \/ Reconnect
  BY <1>2, DropSessionServes, ReceivePromptServes, TransportEndsServes, TransportRetiredServes,
     ReconnectServes
<1>3. CASE \E r \in Requests : TaskStep(r) \/ AgentChunk(r) \/ ExecutionSettled(r)
  BY <1>3, TaskStepServes, ExecutionSettledProceeds
<1>4. QED
  BY <1>1, <1>2, <1>3 DEF Next

\* The invariant is inductive.
LEMMA NextIInv == IInv /\ [Next]_vars => IInv'
<1> SUFFICES ASSUME IInv, [Next]_vars PROVE IInv'
  OBVIOUS
<1>1. CASE Next
  BY <1>1, NextProceeds DEF Proceeds, Serves
<1>2. CASE UNCHANGED vars
  <2>1. /\ UNCHANGED <<app, events, clientVars, overtaken>> /\ ClientTypes'
    BY <1>2, IInvParts DEF vars, clientVars, userVars, ClientTypes
  <2>2. Held(app', events') /\ ServedOK(app', events')
    BY <2>1, IInvParts
  <2>3. QED
    BY <2>1, <2>2, Framed
<1>3. QED
  BY <1>1, <1>2

\* The invariant always holds.
LEMMA IInvAlways == Spec => []IInv
<1>1. Init => IInv
  BY InitIInv
<1>2. IInv /\ [Next]_vars => IInv'
  BY NextIInv
<1>3. QED
  BY <1>1, <1>2, PTL DEF Spec

\* The records of the tab and of its client keep their types: the queue never
\* exceeds the cap of prompt_queue.rs, a turn names a prompt, and a task of the
\* client is in one of its states.
THEOREM PromptTypeCorrect == Spec => []TypeOK
<1>1. IInv => TypeOK
  BY IInvParts DEF TypeOK, ClientTypes, Held, Typed
<1>2. QED
  BY <1>1, IInvAlways, PTL

\* Whatever the App handles next and applies to the current turn (output in
\* turn_observe_chunk, the end in turn_close, errors in the handler of
\* AgentError) was published for the prompt of that turn, although it names
\* only a session: an earlier prompt's last event has been handled before the
\* next prompt is submitted (dispatch_prompt_queues).
THEOREM OutputIsItsOwnAlways == Spec => []OutputIsItsOwn
<1>1. IInv => OutputIsItsOwn
  <2> SUFFICES ASSUME IInv, events # <<>>,
                      Head(events).type \in {"chunk", "end", "softStop", "error", "lost"}
               PROVE  Head(events).id = app.turn.id
    BY DEF OutputIsItsOwn
  <2>1. Held(app, events) /\ events \in Seq(Events)
    BY IInvParts DEF Held, Typed
  <2>2. Head(events) = events[1] /\ 1 \in 1..Len(events) /\ events[1] \in Events
    BY <2>1, TailLeft DEF Left
  <2>3. events[1].id \in 0..MaxRequests /\ events[1].id # 0
    BY <2>1, <2>2 DEF Events, Held, FlightOK, Transport
  <2>4. events[1].id \in Requests
    BY <2>3, PromptTurnAssumption DEF Requests
  <2>5. QED
    BY <2>1, <2>2, <2>4 DEF Held, FlightOK, About
<1>2. QED
  BY <1>1, IInvAlways, PTL

\* Whatever holds the queue back has its end still to come: a turn that runs or
\* is being cancelled has a prompt on its way to the client, a task of the
\* client, an end, error or settlement (settle_prompt_cancellation) among the
\* events, or a connection whose loss will be told, but for the races of a reset
\* with an event that tells the App of a session.
THEOREM TurnIsServedAlways == Spec => []TurnIsServed
<1>1. IInv => TurnIsServed
  <2> SUFFICES ASSUME IInv PROVE TurnIsServed
    OBVIOUS
  <2>1. Held(app, events) /\ ServedOK(app, events) /\ events \in Seq(Events)
    BY IInvParts DEF Held, Typed
  <2>2. \A r \in Requests : task[r] = "awaitCancel" => r \in app.cancelled
    BY <2>1 DEF Held, TaskOK
  <2>3. ASSUME ~AcceptsNewPrompt(app.turn), ~ResetRaced PROVE EndComes
    <3>1. Comes(app, events)
      BY <2>1, <2>3 DEF ServedOK, Raced, ResetRaced, Accepts, Cancelling
    <3>2. DOMAIN events = 1..Len(events)
      BY <2>1
    <3>3. ASSUME NEW i \in 1..Len(events), events[i].type \in Final, events[i].id = app.turn.id
          PROVE  Ending(events[i])
      BY <3>3 DEF Final, Ending
    <3>4. ASSUME NEW i \in 1..Len(events), events[i].type = "retired" PROVE Ending(events[i])
      BY <3>4 DEF Ending
    <3>5. QED
      BY <3>1, <3>2, <3>3, <3>4 DEF Comes, EndComes, Has, Active
  <2>4. QED
    BY <2>2, <2>3 DEF TurnIsServed
<1>2. QED
  BY <1>1, IInvAlways, PTL

\* has_meaningful_conversation is true only of a session the agent was asked
\* something in, or of a startup session that a reset has overtaken: neither a
\* late end of a prompt whose session was given up nor its settlement
\* (turn_close, settle_prompt_cancellation) marks the replacement.
THEOREM ResumableWasAskedAlways == Spec => []ResumableWasAsked
<1>1. IInv => ResumableWasAsked
  BY IInvParts DEF Held, SessionOK, ResumableWasAsked
<1>2. QED
  BY <1>1, IInvAlways, PTL

\* How far a request is, in the terms of the invariant.
Runs(r) == Active(r) \/ r \in ToSet(app.out)

StatusOK ==
    \A r \in Requests :
    /\ Status(r) \in {"new", "waiting", "running", "over"}
    /\ Status(r) = "running" <=> Runs(r)
    /\ Status(r) = "waiting" <=> r \in Queued(app)
    /\ Status(r) = "new" <=> r > Len(app.kind)

\* The statuses PromptFlight sees, and their meaning.
LEMMA StatusFacts == IInv => StatusOK
<1> SUFFICES ASSUME IInv, NEW r \in Requests
             PROVE  /\ Status(r) \in {"new", "waiting", "running", "over"}
                    /\ Status(r) = "running" <=> Runs(r)
                    /\ Status(r) = "waiting" <=> r \in Queued(app)
                    /\ Status(r) = "new" <=> r > Len(app.kind)
  BY DEF StatusOK
<1>0. Held(app, events) /\ app \in App
  BY IInvParts
<1>1. app.kind \in Seq(Kinds) /\ app.queue \in Seq(Requests) /\ r \in Nat
  BY <1>0 DEF App, Requests
<1>2. Len(app.kind) \in Nat /\ (r > Len(app.kind) <=> ~(r <= Len(app.kind)))
  BY <1>1
<1>3. \A q \in Queued(app) : q <= Len(app.kind)
  BY <1>0, <1>1, InToSet DEF Held, QueueOK, Queued
<1>4. r \in Queued(app) \/ r > Len(app.kind) => task[r] = "none" /\ r \notin ToSet(app.out)
  BY <1>0 DEF Held, FreshOK
<1>5. r \in ToSet(app.out) => task[r] = "none"
  BY <1>0 DEF Held, FlightOK
<1>6. Status(r) \in {"new", "waiting", "running", "over"}
  BY DEF Status
<1>7. Status(r) = "running" <=> Runs(r)
  BY <1>5 DEF Status, Runs, Active
<1>8. Status(r) = "waiting" <=> r \in Queued(app)
  BY <1>4 DEF Status
<1>9. Status(r) = "new" <=> r > Len(app.kind)
  BY <1>2, <1>3, <1>4 DEF Status
<1>10. QED
  BY <1>6, <1>7, <1>8, <1>9

\* What a step does to the requests: none is taken back, one runs at a time,
\* and one that starts may do so.
AutoOf(kind) == {r \in DOMAIN kind : kind[r] = "auto"}
FlightStep ==
    /\ \A r \in Requests : Status(r)' \in Flight!Progress(Status(r))
    /\ \A q, r \in Requests : Status(q)' = "running" /\ Status(r)' = "running" => q = r
    /\ \A r \in Requests : Status(r)' = "running" /\ Status(r) # "running" =>
          /\ \A q \in Requests : Status(q) # "running"
          /\ r \notin AutoOf(app'.kind) =>
                \A q \in Requests \ AutoOf(app'.kind) : q < r => Status(q)' # "waiting"
    /\ AutoOf(app.kind) \subseteq AutoOf(app'.kind)
    /\ \A r \in Requests : (r \in AutoOf(app'.kind)) # (r \in AutoOf(app.kind)) => Status(r) = "new"

\* This is a step of PromptFlight.
LEMMA FlightStepIs ==
    ASSUME FlightStep
    PROVE  Flight!Step
  BY DEF FlightStep, Flight!Step, Flight!MayStart, AutoOf

\* A request goes on from what it was.
LEMMA ProgressFacts ==
    /\ Flight!Progress("new") = {"new", "waiting", "running", "over"}
    /\ Flight!Progress("waiting") = {"waiting", "running", "over"}
    /\ Flight!Progress("running") = {"running", "over"}
    /\ Flight!Progress("over") = {"over"}
  BY DEF Flight!Progress

\* One prompt runs at a time.
RunsAlone == \A q, r \in Requests : Runs(q) /\ Runs(r) => q = r

\* The prompt that runs is that of the turn.
LEMMA OneRuns == IInv => RunsAlone
  BY IInvParts DEF Held, FlightOK, Runs, RunsAlone

\* So it is after a step that keeps the invariant.
LEMMA StatusAfter == IInv' => StatusOK' /\ RunsAlone' /\ app' \in App
<1>1. IInv => StatusOK /\ RunsAlone
  BY StatusFacts, OneRuns
<1>2. IInv' => StatusOK' /\ RunsAlone'
  BY <1>1, PTL
<1>3. IInv' => app' \in App
  BY DEF IInv, Held, Typed
<1>4. QED
  BY <1>2, <1>3

\* The kinds of the requests only grow.
LEMMA KindsGrow ==
    ASSUME NEW k \in Seq(Kinds), NEW l, l = k \/ \E x \in Kinds : l = Append(k, x)
    PROVE  /\ l \in Seq(Kinds) /\ Len(k) \in Nat /\ Len(l) \in Nat /\ Len(k) <= Len(l)
           /\ \A i \in 1..Len(k) : i \in 1..Len(l) /\ l[i] = k[i]
<1>1. CASE l = k
  BY <1>1
<1>2. ASSUME NEW x \in Kinds, l = Append(k, x)
      PROVE  /\ l \in Seq(Kinds) /\ Len(k) \in Nat /\ Len(l) \in Nat /\ Len(k) <= Len(l)
             /\ \A i \in 1..Len(k) : i \in 1..Len(l) /\ l[i] = k[i]
  <2>1. /\ l \in Seq(Kinds) /\ Len(l) = Len(k) + 1 /\ Len(k) \in Nat
        /\ \A i \in 1..Len(k) : l[i] = k[i]
    BY <1>2, AppendProperties
  <2> HIDE <1>2
  <2>2. QED
    BY <2>1
<1>3. QED
  BY <1>1, <1>2

\* An event of the App takes a step that PromptFlight allows.
LEMMA ProceedsFlight ==
    ASSUME IInv, Proceeds
    PROVE  FlightStep
<1> DEFINE k == app.kind
           l == app'.kind
<1>0. IInv' /\ Flows(app, app') /\ task' = task /\ app \in App /\ Held(app, events)
  BY IInvParts DEF Proceeds
<1>1. /\ k \in Seq(Kinds) /\ l \in Seq(Kinds) /\ Len(k) \in Nat /\ Len(l) \in Nat
      /\ Len(k) <= Len(l) /\ \A i \in 1..Len(k) : i \in 1..Len(l) /\ l[i] = k[i]
  <2>1. k \in Seq(Kinds) /\ (l = k \/ \E x \in Kinds : l = Append(k, x))
    BY <1>0 DEF App, Flows
  <2> HIDE DEF k, l
  <2>2. QED
    BY <2>1, KindsGrow
<1>2. ASSUME NEW r \in Requests
      PROVE  /\ Status(r) \in {"new", "waiting", "running", "over"}
             /\ Status(r) = "running" <=> Runs(r)
             /\ Status(r) = "waiting" <=> r \in Queued(app)
             /\ Status(r) = "new" <=> r > Len(k)
  BY StatusFacts DEF StatusOK
<1>3. ASSUME NEW r \in Requests
      PROVE  /\ Status(r)' \in {"new", "waiting", "running", "over"}
             /\ Status(r)' = "running" <=> (Active(r) \/ r \in ToSet(app'.out))
             /\ Status(r)' = "waiting" <=> r \in Queued(app')
             /\ Status(r)' = "new" <=> r > Len(l)
  BY <1>0, StatusAfter DEF StatusOK, Runs, Active, Queued
<1>4. ASSUME NEW r \in Requests
      PROVE  /\ r \in New(app, app') <=> (r > Len(k) /\ ~(r > Len(l)))
             /\ r > Len(l) => r > Len(k)
  <2>1. r \in Nat
    BY DEF Requests
  <2>2. QED
    BY <1>1, <2>1 DEF New
<1>5. ASSUME NEW r \in Requests PROVE Status(r)' \in Flight!Progress(Status(r))
  <2>1. CASE Status(r) = "new"
    BY <1>3, <2>1, ProgressFacts
  <2>2. CASE Status(r) = "waiting"
    <3>1. Status(r)' # "new"
      BY <1>2, <1>3, <1>4, <2>2
    <3>2. QED
      BY <1>3, <2>2, <3>1, ProgressFacts
  <2>3. CASE Status(r) \in {"running", "over"}
    <3>1. r \notin Queued(app) /\ ~(r > Len(k)) /\ r \notin New(app, app')
      BY <1>2, <1>4, <2>3
    <3>2. r \notin Queued(app') /\ (r \in ToSet(app'.out) => r \in ToSet(app.out))
      BY <1>0, <3>1 DEF Flows
    <3>3. Status(r)' \notin {"new", "waiting"} /\ (Status(r)' = "running" => Status(r) = "running")
      BY <1>2, <1>3, <1>4, <3>1, <3>2 DEF Runs
    <3>4. QED
      BY <1>3, <2>3, <3>3, ProgressFacts
  <2>4. QED
    BY <1>2, <2>1, <2>2, <2>3
<1>6. \A q, r \in Requests : Status(q)' = "running" /\ Status(r)' = "running" => q = r
  BY <1>0, StatusAfter DEF StatusOK, RunsAlone
<1>7. ASSUME NEW r \in Requests, Status(r)' = "running", Status(r) # "running"
      PROVE  /\ \A q \in Requests : Status(q) # "running"
             /\ r \notin AutoOf(l) => \A q \in Requests \ AutoOf(l) : q < r => Status(q)' # "waiting"
  <2>1. r \in ToSet(app'.out) /\ r \notin ToSet(app.out)
    BY <1>2, <1>3, <1>7 DEF Runs
  <2>2. /\ \A q \in Requests : q \notin ToSet(app.out) /\ ~Active(q)
        /\ l[r] # "auto" => \A q \in Queued(app') : q < r => l[q] = "auto"
    BY <1>0, <2>1 DEF Flows
  <2>3. \A q \in Requests : ~(q > Len(l)) => (q \in AutoOf(l) <=> l[q] = "auto")
    <3>1. \A q \in Requests : ~(q > Len(l)) => q \in 1..Len(l)
      BY <1>1 DEF Requests
    <3>2. DOMAIN l = 1..Len(l)
      BY <1>1
    <3>3. QED
      BY <3>1, <3>2 DEF AutoOf
  <2>4. ~(r > Len(l))
    BY <1>3, <1>7
  <2>5. \A q \in Requests : q \in Queued(app') => ~(q > Len(l))
    BY <1>3
  <2>6. \A q \in Requests : Status(q) # "running"
    BY <1>2, <2>2 DEF Runs
  <2>7. ASSUME r \notin AutoOf(l), NEW q \in Requests \ AutoOf(l), q < r PROVE Status(q)' # "waiting"
    <3>1. l[r] # "auto"
      BY <2>3, <2>4, <2>7
    <3>2. q \in Queued(app') => FALSE
      BY <2>2, <2>3, <2>5, <2>7, <3>1
    <3>3. QED
      BY <1>3, <3>2
  <2>8. QED
    BY <2>6, <2>7
<1>8. AutoOf(k) \subseteq AutoOf(l)
  BY <1>1 DEF AutoOf
<1>9. ASSUME NEW r \in Requests, (r \in AutoOf(l)) # (r \in AutoOf(k)) PROVE Status(r) = "new"
  <2>1. ~(r \in 1..Len(k))
    BY <1>1, <1>9 DEF AutoOf
  <2>2. r > Len(k)
    BY <1>1, <2>1 DEF Requests
  <2>3. QED
    BY <1>2, <2>2
<1>10. QED
  BY <1>5, <1>6, <1>7, <1>8, <1>9 DEF FlightStep

\* And so does a step of the client.
LEMMA ServesFlight ==
    ASSUME IInv, Serves
    PROVE  FlightStep
<1>0. /\ IInv' /\ app'.kind = app.kind /\ app'.queue = app.queue /\ Queued(app') = Queued(app)
  BY DEF Serves, Queued
<1>1. ASSUME NEW r \in Requests
      PROVE  /\ Status(r) \in {"new", "waiting", "running", "over"}
             /\ Status(r) = "running" <=> Runs(r)
             /\ Status(r) = "waiting" <=> r \in Queued(app)
             /\ Status(r) = "new" <=> r > Len(app.kind)
  BY StatusFacts DEF StatusOK
<1>2. ASSUME NEW r \in Requests
      PROVE  /\ Status(r)' \in {"new", "waiting", "running", "over"}
             /\ Status(r)' = "running" => Status(r) = "running"
             /\ Status(r)' = "waiting" <=> r \in Queued(app)
             /\ Status(r)' = "new" <=> r > Len(app.kind)
  <2>1. Runs(r)' => Runs(r)
    BY DEF Serves, Runs
  <2>2. /\ Status(r)' \in {"new", "waiting", "running", "over"}
        /\ Status(r)' = "running" <=> Runs(r)'
        /\ Status(r)' = "waiting" <=> r \in Queued(app')
        /\ Status(r)' = "new" <=> r > Len(app'.kind)
    BY <1>0, StatusAfter DEF StatusOK, Queued
  <2>3. QED
    BY <1>0, <1>1, <2>1, <2>2
<1>3. ASSUME NEW r \in Requests PROVE Status(r)' \in Flight!Progress(Status(r))
  BY <1>1, <1>2, ProgressFacts
<1>4. \A q, r \in Requests : Status(q)' = "running" /\ Status(r)' = "running" => q = r
  BY <1>0, StatusAfter DEF StatusOK, RunsAlone
<1>5. QED
  BY <1>0, <1>2, <1>3, <1>4 DEF FlightStep

\* Nothing happens.
LEMMA StutterFlight ==
    ASSUME UNCHANGED vars
    PROVE  UNCHANGED Flight!vars
<1>1. app' = app /\ task' = task
  BY DEF vars, clientVars
<1>2. \A r \in Requests : Status(r)' = Status(r)
  BY <1>1 DEF Status, Queued
<1>3. QED
  BY <1>1, <1>2 DEF Flight!vars

\* The tab's requests begin as those of PromptFlight.
LEMMA InitFlight == Init => Flight!Init
<1> SUFFICES ASSUME Init PROVE Flight!Init
  OBVIOUS
<1>1. app.kind = <<>> /\ Len(app.kind) = 0 /\ DOMAIN app.kind = {}
  <2>1. app.kind = <<>>
    BY DEF Init
  <2>2. QED
    BY <2>1
<1>2. \A r \in Requests : r > Len(app.kind)
  BY <1>1 DEF Requests
<1>3. \A r \in Requests : Status(r) = "new"
  BY <1>2, InitIInv, StatusFacts DEF StatusOK
<1>4. QED
  BY <1>1, <1>3 DEF Flight!Init

\* The tab keeps the promise of PromptFlight: whatever the user, the shell,
\* the agent and the connection do, one prompt runs at a time, none is taken
\* back, and the user's own are sent in the order of entry
\* (app/prompt_queue.rs, dispatch_prompt_queues).
THEOREM KeepsFlightPromiseAlways == Spec => KeepsFlightPromise
<1>1. Init => Flight!Init
  BY InitFlight
<1>2. IInv /\ [Next]_vars => [Flight!Step]_(Flight!vars)
  <2>1. ASSUME IInv, Next PROVE Flight!Step
    BY <2>1, NextProceeds, ProceedsFlight, ServesFlight, FlightStepIs
  <2>2. QED
    BY <2>1, StutterFlight
<1>3. QED
  BY <1>1, <1>2, IInvAlways, PTL DEF Spec, KeepsFlightPromise, Flight!Spec
=============================================================================
