--------------------------- MODULE RestartBarrier ---------------------------
(***************************************************************************)
(* How the windows of Windows Terminal restart the agent stack together.   *)
(* A /restart is stamped with a request id and dispatched to the page of   *)
(* every window.  The pages join one retirement of all agent sessions      *)
(* through the RetirementCoordinator of SharedWta, continue when the       *)
(* master reports it done or after 17 seconds, and one of them restarts    *)
(* the master (TerminalPage.cpp, SharedWta.cpp).                           *)
(*                                                                         *)
(* Each page runs on the UI thread of its window.  The coordinator has a   *)
(* lock of its own, so that a page can be overtaken between any two of its *)
(* calls.  What SharedWta::Restart does is modelled in module SharedWta,   *)
(* which lets it be called at any time; here its calls are counted.        *)
(***************************************************************************)
EXTENDS Naturals, Sequences, FiniteSets

CONSTANTS
    Windows,
    MaxCalls,          \* bound: requests, settings changes and closed windows
    MaxRequests,       \* bound: /restart requests
    MaxOperations,     \* bound: retirement operations
    HistoryLimit       \* CompletedHistoryLimit

ASSUME BarrierAssumption ==
    /\ IsFiniteSet(Windows)
    /\ MaxCalls \in Nat /\ MaxRequests \in Nat /\ MaxOperations \in Nat
    /\ HistoryLimit \in Nat \ {0}

Requests == 1..MaxRequests
Operations == 1..MaxOperations

VARIABLES
    c,         \* the RetirementCoordinator
    page,      \* the state of each window's TerminalPage
    inbox,     \* what is dispatched to its UI thread, in order
    published, \* operations the master was asked for and has not answered
    calls,     \* requests, settings changes and closed windows so far
    issued,    \* requests dispatched so far
    attempts,  \* for each request, how often the master was restarted for it
    lapsed     \* requests that timed out or fell out of the history

vars == <<c, page, inbox, published, calls, issued, attempts, lapsed>>

\* A frame is a continuation that is running: 0 stands for the request of an
\* operation on some tabs, which the settings reconciliation of one page begins.
Frames == [op : Operations, request : {0} \cup Requests,
           phase : {"claim", "finish", "release"}]

Retirement == [completed : BOOLEAN, expire : BOOLEAN, recorded : BOOLEAN,
               claimed : BOOLEAN, count : Nat, request : {0} \cup Requests]

TypeOK ==
    /\ c.next \in 0..MaxOperations
    /\ DOMAIN c.operations \subseteq Operations
    /\ \A o \in DOMAIN c.operations : c.operations[o] \in Retirement
    /\ DOMAIN c.byRequest \subseteq Requests
    /\ \A r \in DOMAIN c.byRequest : c.byRequest[r] \in DOMAIN c.operations
    /\ c.history \in Seq(Operations)
    /\ \A w \in Windows :
          /\ page[w].open \in BOOLEAN /\ page[w].busy \in BOOLEAN
          /\ page[w].reconcile \in BOOLEAN
          /\ page[w].pending \in {0} \cup Operations
          /\ page[w].queued \in {0} \cup Requests
          /\ page[w].stack \in Seq(Frames)
          /\ inbox[w] \in Seq([kind : {"restart"}, id : Requests]
                              \cup [kind : {"retired"}, id : Operations])
    /\ published \subseteq Operations
    /\ calls \in 0..MaxCalls
    /\ issued \in 0..MaxRequests
    /\ attempts \in [Requests -> Nat]
    /\ lapsed \subseteq Requests

Without(f, x) == [y \in DOMAIN f \ {x} |-> f[y]]
With(f, x, v) == [y \in DOMAIN f \cup {x} |-> IF y = x THEN v ELSE f[y]]

\* _completedOperations without an operation that is in it.
Recalled(s, o) ==
    LET i == CHOOSE i \in 1..Len(s) : s[i] = o
    IN  [j \in 1..Len(s) - 1 |-> IF j < i THEN s[j] ELSE s[j + 1]]

---------------------------------------------------------------------------
(* The coordinator: one locked call each *)

\* Mutant: an operation that is joined again stays in the history.
RegisterKeepsHistory(k, r) ==
    LET known == r \in DOMAIN k.byRequest /\ k.byRequest[r] \in DOMAIN k.operations
        o == IF known THEN k.byRequest[r] ELSE k.next + 1
        new == [completed |-> FALSE, expire |-> FALSE, recorded |-> FALSE,
                claimed |-> FALSE, count |-> 1, request |-> r]
    IN  IF known
        THEN [id |-> o, publish |-> FALSE, completed |-> k.operations[o].completed,
              c |-> [k EXCEPT !.operations[o].count = @ + 1]]
        ELSE [id |-> o, publish |-> TRUE, completed |-> FALSE,
              c |-> [k EXCEPT !.next = o,
                              !.operations = With(@, o, new),
                              !.byRequest = IF r = 0 THEN @ ELSE With(@, r, o)]]

\* The result of joining, or of creating, the operation of a request.
Register(k, r) ==
    LET known == r \in DOMAIN k.byRequest /\ k.byRequest[r] \in DOMAIN k.operations
        o == IF known THEN k.byRequest[r] ELSE k.next + 1
        new == [completed |-> FALSE, expire |-> FALSE, recorded |-> FALSE,
                claimed |-> FALSE, count |-> 1, request |-> r]
    IN  IF known
        THEN [id |-> o, publish |-> FALSE, completed |-> k.operations[o].completed,
              c |-> [k EXCEPT !.operations[o].recorded = FALSE,
                              !.operations[o].count = @ + 1,
                              !.history = IF k.operations[o].recorded THEN Recalled(@, o)
                                          ELSE @]]
        ELSE [id |-> o, publish |-> TRUE, completed |-> FALSE,
              c |-> [k EXCEPT !.next = o,
                              !.operations = With(@, o, new),
                              !.byRequest = IF r = 0 THEN @ ELSE With(@, r, o)]]

\* Mutant: the request still points to the operation.
EraseKeepsRequest(k, o) ==
    IF o \notin DOMAIN k.operations THEN k
    ELSE [k EXCEPT !.operations = Without(@, o)]

EraseLocked(k, o) ==
    IF o \notin DOMAIN k.operations THEN k
    ELSE LET r == k.operations[o].request
         IN  [k EXCEPT !.operations = Without(@, o),
                       !.byRequest = IF r \in DOMAIN @ /\ @[r] = o THEN Without(@, r) ELSE @]

\* The history grows by one at a time.
PruneCompletedLocked(k) ==
    IF Len(k.history) > HistoryLimit
    THEN EraseLocked([k EXCEPT !.history = Tail(@)], Head(k.history))
    ELSE k

\* Mutant: a completed operation is not remembered.
FinalizeForgets(k, o) ==
    IF ~k.operations[o].completed \/ k.operations[o].count # 0 THEN k
    ELSE EraseLocked(k, o)

FinalizeCompletedLocked(k, o) ==
    LET op == k.operations[o]
    IN  IF ~op.completed \/ op.count # 0 THEN k
        ELSE IF op.expire THEN EraseLocked(k, o)
        ELSE IF op.recorded THEN k
        ELSE PruneCompletedLocked([k EXCEPT !.operations[o].recorded = TRUE,
                                            !.history = Append(@, o)])

Complete(k, o, timedOut) ==
    IF o \notin DOMAIN k.operations THEN k
    ELSE FinalizeCompletedLocked([k EXCEPT !.operations[o].completed = TRUE,
                                           !.operations[o].expire = @ \/ timedOut], o)

ReleaseContinuation(k, o) ==
    IF o \notin DOMAIN k.operations THEN k
    ELSE LET left == IF k.operations[o].count = 0 THEN 0 ELSE k.operations[o].count - 1
             released == [k EXCEPT !.operations[o].count = left]
         IN  IF left = 0 /\ ~k.operations[o].completed
             THEN EraseLocked(released, o)
             ELSE FinalizeCompletedLocked(released, o)

Expire(k, o) == EraseLocked(k, o)

\* The first to ask for an operation that is known gets the restart.
Claimable(k, o) == o \in DOMAIN k.operations /\ ~k.operations[o].claimed

\* Ghost: requests the coordinator forgets because its history is full.
Evicted(before, after) ==
    {r \in DOMAIN before.byRequest \ DOMAIN after.byRequest : Len(before.history) = HistoryLimit}

---------------------------------------------------------------------------
(* The page of a window *)

Call == calls < MaxCalls /\ calls' = calls + 1

Top(w) == Head(page[w].stack)
Idle(w) == page[w].open /\ page[w].stack = <<>>

Frame(o, r) == [op |-> o, request |-> r, phase |-> IF r = 0 THEN "finish" ELSE "claim"]
Push(pg, f) == [pg EXCEPT !.stack = <<f>> \o @]
Advance(pg, phase) == [pg EXCEPT !.stack[1].phase = phase]

\* _BeginAgentSessionRetirement, from the page state pg and coordinator k: an
\* operation that is complete continues at once, another one is waited for.
BeginRetirement(w, pg, k, r) ==
    LET reg == Register(k, r)
    IN  /\ reg.id \in Operations
        /\ c' = reg.c
        /\ page' = [page EXCEPT ![w] =
                       IF reg.completed THEN Push(pg, Frame(reg.id, r))
                                        ELSE [pg EXCEPT !.pending = reg.id]]
        /\ published' = IF reg.publish THEN published \cup {reg.id} ELSE published

\* Mutant: a request that comes during another operation is dropped.
RestartDropped(w, pg, k, r) ==
    IF pg.busy
    THEN c' = k /\ UNCHANGED <<page, published>>
    ELSE BeginRetirement(w, [pg EXCEPT !.busy = TRUE], k, r)

\* _RestartAgentStack: while another operation of the page is in progress the
\* latest request is kept and taken up when it ends.
RestartAgentStack(w, pg, k, r) ==
    IF pg.busy
    THEN /\ page' = [page EXCEPT ![w] = [pg EXCEPT !.queued = r]]
         /\ c' = k
         /\ UNCHANGED published
    ELSE BeginRetirement(w, [pg EXCEPT !.busy = TRUE], k, r)

OnRestartAgentStackRequested(w) ==
    /\ Idle(w)
    /\ inbox[w] # <<>> /\ Head(inbox[w]).kind = "restart"
    /\ RestartAgentStack(w, page[w], c, Head(inbox[w]).id)
    /\ inbox' = [inbox EXCEPT ![w] = Tail(@)]
    /\ UNCHANGED <<calls, issued, attempts, lapsed>>

\* The page leaves the wait for operation o and runs the continuation.
Continue(pg, o, r) == Push([pg EXCEPT !.pending = 0], Frame(o, r))

RequestOf(o) == c.operations[o].request

\* The completion is recorded even by a page that does not wait for it.
OnAgentSessionsRetired(w) ==
    /\ Idle(w)
    /\ inbox[w] # <<>> /\ Head(inbox[w]).kind = "retired"
    /\ LET o == Head(inbox[w]).id
       IN  /\ c' = Complete(c, o, FALSE)
           /\ page' = IF page[w].pending = o
                      THEN [page EXCEPT ![w] = Continue(@, o, RequestOf(o))] ELSE page
    /\ inbox' = [inbox EXCEPT ![w] = Tail(@)]
    /\ lapsed' = lapsed \cup Evicted(c, c')
    /\ UNCHANGED <<calls, published, issued, attempts>>

\* 17 seconds have passed: the page goes on without the master's answer.
RetirementTimeout(w) ==
    /\ Idle(w)
    /\ page[w].pending # 0
    /\ c' = Complete(c, page[w].pending, TRUE)
    /\ page' = [page EXCEPT ![w] = Continue(@, @.pending, RequestOf(@.pending))]
    /\ lapsed' = lapsed \cup ({RequestOf(page[w].pending)} \ {0})
    /\ UNCHANGED <<calls, inbox, published, issued, attempts>>

\* The continuation of a restart: the page that claims it restarts the master.
ClaimAction(w) ==
    /\ page[w].stack # <<>> /\ Top(w).phase = "claim"
    /\ LET o == Top(w).op
       IN  IF Claimable(c, o)
           THEN /\ c' = [c EXCEPT !.operations[o].claimed = TRUE]
                /\ attempts' = [attempts EXCEPT ![Top(w).request] = @ + 1]
           ELSE UNCHANGED <<c, attempts>>
    /\ page' = [page EXCEPT ![w] = Advance(@, "finish")]
    /\ UNCHANGED <<inbox, published, calls, issued, lapsed>>

\* The end of a continuation: a reconciliation whose settings have changed
\* again forgets its operation; then the page takes up what it has postponed,
\* before the continuation that ended is released.
FinishContinuation(w) ==
    /\ page[w].stack # <<>> /\ Top(w).phase = "finish"
    /\ \E again \in BOOLEAN :
          LET done == [Advance(page[w], "release") EXCEPT !.busy = FALSE]
              k == IF again THEN Expire(c, Top(w).op) ELSE c
              settled == [done EXCEPT !.reconcile = FALSE]
          IN  /\ IF again THEN Top(w).request = 0 /\ Call ELSE UNCHANGED calls
              /\ IF done.queued # 0
                 THEN RestartAgentStack(w, [done EXCEPT !.queued = 0], k, done.queued)
                 ELSE \/ /\ done.reconcile \/ again
                         /\ BeginRetirement(w, [settled EXCEPT !.busy = TRUE], k, 0)
                      \/ /\ page' = [page EXCEPT ![w] = settled]
                         /\ c' = k
                         /\ UNCHANGED published
    /\ UNCHANGED <<inbox, issued, attempts, lapsed>>

EndContinuation(w) ==
    /\ page[w].stack # <<>> /\ Top(w).phase = "release"
    /\ c' = ReleaseContinuation(c, Top(w).op)
    /\ page' = [page EXCEPT ![w].stack = Tail(@)]
    /\ lapsed' = lapsed \cup Evicted(c, c')
    /\ UNCHANGED <<calls, inbox, published, issued, attempts>>

\* Settings that rebind or recreate some panes of the window.
ReconcileAgentSettings(w) ==
    /\ Call
    /\ Idle(w)
    /\ IF page[w].busy
       THEN /\ page' = [page EXCEPT ![w].reconcile = TRUE]
            /\ UNCHANGED <<c, published>>
       ELSE BeginRetirement(w, [page[w] EXCEPT !.busy = TRUE], c, 0)
    /\ UNCHANGED <<inbox, issued, attempts, lapsed>>

\* The destructor of the page.
Close(w) ==
    /\ Call
    /\ Idle(w)
    /\ c' = ReleaseContinuation(c, page[w].pending)
    /\ page' = [page EXCEPT ![w].open = FALSE, ![w].pending = 0]
    /\ inbox' = [inbox EXCEPT ![w] = <<>>]
    /\ lapsed' = lapsed \cup Evicted(c, c')
    /\ UNCHANGED <<published, issued, attempts>>

Dispatch(e) == inbox' = [w \in Windows |-> IF page[w].open THEN Append(inbox[w], e) ELSE inbox[w]]

\* A helper's /restart reaches every page.
RequestRestart ==
    /\ Call
    /\ issued < MaxRequests
    /\ issued' = issued + 1
    /\ Dispatch([kind |-> "restart", id |-> issued'])
    /\ UNCHANGED <<c, page, published, attempts, lapsed>>

\* The master reports a retirement as done; it may never do so.
Retired(o) ==
    /\ o \in published
    /\ published' = published \ {o}
    /\ Dispatch([kind |-> "retired", id |-> o])
    /\ UNCHANGED <<calls, c, page, issued, attempts, lapsed>>

---------------------------------------------------------------------------

Init ==
    /\ c = [next |-> 0, operations |-> <<>>, byRequest |-> <<>>, history |-> <<>>]
    /\ page = [w \in Windows |-> [open |-> TRUE, busy |-> FALSE, reconcile |-> FALSE,
                                  pending |-> 0, queued |-> 0, stack |-> <<>>]]
    /\ inbox = [w \in Windows |-> <<>>]
    /\ published = {} /\ calls = 0 /\ issued = 0 /\ lapsed = {}
    /\ attempts = [r \in Requests |-> 0]

\* What the UI thread of a window does without being asked again.
PageStep(w) ==
    \/ OnRestartAgentStackRequested(w) \/ OnAgentSessionsRetired(w) \/ RetirementTimeout(w)
    \/ ClaimAction(w) \/ FinishContinuation(w) \/ EndContinuation(w)

Next ==
    \/ \E w \in Windows : PageStep(w) \/ ReconcileAgentSettings(w) \/ Close(w)
    \/ RequestRestart
    \/ \E o \in Operations : Retired(o)

Spec == Init /\ [][Next]_vars

\* Dispatchers and timers run.
FairSpec ==
    /\ Spec
    /\ \A w \in Windows : WF_vars(PageStep(w))

---------------------------------------------------------------------------
(* Properties *)

\* The pages that wait for an operation or run its continuation.
Users(o) ==
    {w \in Windows : \/ page[w].pending = o
                     \/ \E i \in 1..Len(page[w].stack) : page[w].stack[i].op = o}

\* The coordinator knows each operation exactly as long as it must: it counts
\* the pages that wait for it or run its continuation, none of which loses it
\* to the pruning of the history; an operation that nobody needs is complete
\* and in the bounded history, so that none stays behind.
OperationsAccounted ==
    /\ \A w \in Windows : page[w].pending # 0 => page[w].pending \in DOMAIN c.operations
    /\ \A o \in DOMAIN c.operations :
          /\ c.operations[o].count = Cardinality(Users(o))
          /\ c.operations[o].count = 0 <=>
                \E i \in 1..Len(c.history) : c.history[i] = o
    /\ Len(c.history) <= HistoryLimit

\* One /restart restarts the master once, however late a window handles it,
\* unless its retirement timed out or the history has forgotten it.
RestartedOnce == \A r \in Requests : attempts[r] > 1 => r \in lapsed

\* Page w has request r: dispatched to it, queued behind another operation,
\* or waiting for its retirement.
Has(w, r) ==
    \/ \E i \in 1..Len(inbox[w]) : inbox[w][i] = [kind |-> "restart", id |-> r]
    \/ page[w].queued = r
    \/ page[w].pending # 0 /\ RequestOf(page[w].pending) = r

\* No request is lost: when a page has it, the master is eventually restarted
\* for it or for a later one that took its place, unless the page is closed.
RestartIsServed ==
    \A w \in Windows, r \in Requests :
        Has(w, r) ~> (~page[w].open \/ \E q \in r..MaxRequests : attempts[q] > 0)
=============================================================================
