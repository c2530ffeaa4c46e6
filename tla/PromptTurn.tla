----------------------------- MODULE PromptTurn -----------------------------
(***************************************************************************)
(* One tab of wta-helper: the prompt queue and the turn of the App         *)
(* (app_turn.rs, app/prompt_queue.rs, app/autofix.rs, app_events.rs), and  *)
(* the prompt tasks of the ACP client (protocol/acp/client.rs).            *)
(*                                                                         *)
(* The App handles one event at a time and, after every event, dispatches  *)
(* the front of the queue if nothing holds it back.  A dispatched request  *)
(* goes over a channel to the client, which runs one task per prompt and   *)
(* sends what happens to it back as events; the two sides interleave, and  *)
(* an event may be stale by the time the App handles it.  ACP output names *)
(* the session and not the prompt, so the App tells the output of one      *)
(* prompt from that of the next only by the order of these events.         *)
(*                                                                         *)
(* A request is a number in the order of entry.  There is one shell pane;  *)
(* the evidence of an autofix request is captured within the event that    *)
(* enters it.  Sessions are numbers in the order of creation, 0 is none.   *)
(***************************************************************************)
EXTENDS Naturals, Sequences, FiniteSets, SequencesExt

CONSTANTS
    MaxRequests,   \* bound: requests entered
    MaxSessions,   \* bound: sessions created
    MaxChunks,     \* bound: output chunks per prompt
    QueueCap,      \* MAX_REQUESTS of the prompt queue
    MaxOf,         \* bound: requests entered of each kind
    UserOps,       \* what else the user and the terminal do
    MaxOps         \* bound: how often

\* The user's prompts and /fix, the failure the user activates, and the one
\* the agent is asked about automatically.
Kinds == {"prompt", "fix", "forced", "auto"}

ASSUME PromptTurnAssumption ==
    /\ MaxRequests \in Nat /\ MaxSessions \in Nat \ {0} /\ MaxChunks \in Nat
    /\ QueueCap \in Nat \ {0} /\ MaxOps \in Nat
    /\ MaxOf \in [Kinds -> Nat]
    /\ UserOps \subseteq {"stop", "clear", "reset", "queue", "shell", "failure", "card",
                    "disconnect"}

Requests == 1..MaxRequests
Sessions == 1..MaxSessions

VARIABLES
    app,       \* the tab's TabSession, the App's connection state, and the
               \* channels and cancellation tokens through which it acts
    open,      \* prompt_rx is open
    events,    \* events of the client the App has not handled
    inFlight,  \* in_flight_tabs: the prompt that occupies the tab, or 0
    binding,   \* tab_to_session of the client
    task,      \* where each prompt task is
    sid,       \* the session a prompt task resolved
    current,   \* tasks whose tab binding operation is still current
    chunks,    \* chunks the agent has sent for each prompt
    execs,     \* card executions the coordinator has not settled
    nextSid,   \* sessions created so far
    asked,     \* history: sessions of which the agent was sent a prompt
    overtaken, \* history: startup sessions a reset dropped before the App was
               \* told of them
    ops        \* how often the user and the terminal have intervened

clientVars == <<open, inFlight, binding, task, sid, current, nextSid, asked>>
userVars == <<execs, overtaken, ops>>
vars == <<app, events, clientVars, chunks, userVars>>

\* An event: what happened to which prompt and in which session, 0 if none.
Ev(type, r, s) == [type |-> type, id |-> r, session |-> s]
NoPrompt == [id |-> 0, session |-> 0, valid |-> FALSE]
Turn(st, id) == [st |-> st, id |-> id, outcome |-> "none", endPending |-> FALSE]
Idle == Turn("Idle", 0)
Surfaced(id, outcome, pending) ==
    [st |-> "Surfaced", id |-> id, outcome |-> outcome, endPending |-> pending]

Turns == [st : {"Idle", "Submitted", "Streaming", "Surfaced", "Cancelling"},
          id : 0..MaxRequests, outcome : {"none", "card", "resolved"},
          endPending : BOOLEAN]

App == [conn : {"connected", "connecting", "failed"},
        kind : Seq(Kinds),  \* of the requests so far
        queue : Seq(Requests), paused : BOOLEAN,          \* prompt_queue ...
        resub : SUBSET Requests,                          \* ... needs_resubmission
        turn : Turns,
        active : [id : 0..MaxRequests, session : 0..MaxSessions,
                  valid : BOOLEAN],                       \* active_prompt_cancellation
        session : 0..MaxSessions,                         \* session_id
        meaningful : BOOLEAN,                             \* has_meaningful_conversation
        action : 0..MaxRequests,                          \* pending_queue_action
        staged : 0..MaxRequests,                          \* pending_terminal_action_proposal
        bar : {"Idle", "Detected", "Pending", "Review"},  \* autofix.bar_snapshot
        detected : 0..MaxRequests,                        \* detected_request_id
        admitted : BOOLEAN,                               \* admitted_diagnostic
        armed : BOOLEAN, suggested : BOOLEAN,             \* pane_id, suggested_pane_id
        out : Seq(Requests),                              \* prompt_tx
        drops : BOOLEAN,                                  \* drop_session_tx
        cancelled : SUBSET Requests]                      \* cancellation tokens

TaskStates == {"none", "start", "newSession", "awaitCancel", "build", "sent",
               "draining", "softDraining", "stopping", "cancelDraining", "done"}

TypeOK ==
    /\ app \in App /\ Len(app.queue) <= QueueCap /\ open \in BOOLEAN
    /\ inFlight \in 0..MaxRequests /\ binding \in 0..MaxSessions
    /\ task \in [Requests -> TaskStates] /\ sid \in [Requests -> 0..MaxSessions]
    /\ current \subseteq Requests /\ chunks \in [Requests -> 0..MaxChunks]
    /\ execs \subseteq Requests /\ nextSid \in Sessions /\ asked \subseteq Sessions
    /\ overtaken \subseteq Sessions /\ ops \in 0..MaxOps

\* The helper is connected, with its startup session bound to the tab.
Init ==
    /\ app = [conn |-> "connected", kind |-> <<>>, queue |-> <<>>, paused |-> FALSE,
              resub |-> {}, turn |-> Idle, active |-> NoPrompt, session |-> 1,
              meaningful |-> FALSE, action |-> 0, staged |-> 0, bar |-> "Idle",
              detected |-> 0, admitted |-> FALSE, armed |-> FALSE,
              suggested |-> FALSE, out |-> <<>>, drops |-> FALSE, cancelled |-> {}]
    /\ open = TRUE /\ events = <<>> /\ inFlight = 0 /\ binding = 1
    /\ task = [r \in Requests |-> "none"] /\ sid = [r \in Requests |-> 0]
    /\ current = {} /\ chunks = [r \in Requests |-> 0] /\ execs = {}
    /\ nextSid = 1 /\ asked = {} /\ overtaken = {} /\ ops = 0

-----------------------------------------------------------------------------
(* The turn, as the App's handlers read it. *)

IsInFlight(t) == t.st \in {"Submitted", "Streaming"} \/ (t.st = "Surfaced" /\ t.endPending)
\* Mutant: a turn that is being cancelled no longer holds the queue back.
AcceptsWhileCancelling(t) ==
    t.st \in {"Idle", "Cancelling"} \/ (t.st = "Surfaced" /\ ~t.endPending)

AcceptsNewPrompt(t) == t.st = "Idle" \/ (t.st = "Surfaced" /\ ~t.endPending)
HasPrompt(t) == t.st \notin {"Idle", "Cancelling"}
IsAutofix(a, t) == HasPrompt(t) /\ a.kind[t.id] # "prompt"
IsAutomatic(a, t) == HasPrompt(t) /\ a.kind[t.id] = "auto"   \* active_automatic_id

(* The tab's cancellation slot: which prompt and session it stands for. *)

FinishActivePrompt(a, r) == IF a.active.id = r THEN [a EXCEPT !.active = NoPrompt] ELSE a
CancelActivePrompt(a, r) ==
    IF a.active.id = r THEN [a EXCEPT !.cancelled = @ \cup {r}] ELSE a
ActiveMatchesSession(a, r, s) == a.active.id = r /\ a.active.session = s
EndTurn(a) == [FinishActivePrompt(a, a.turn.id) EXCEPT !.turn = Idle]

(* The bottom bar. *)

EmitCleared(a) == [a EXCEPT !.admitted = FALSE, !.suggested = FALSE, !.bar = "Idle"]
EmitDetected(a) == [a EXCEPT !.admitted = FALSE, !.suggested = FALSE, !.bar = "Detected"]
EmitPending(a) == [a EXCEPT !.bar = "Pending"]
\* Review if the agent pane is closed, otherwise the result is in plain sight.
EmitResult(a, paneOpen) ==
    [a EXCEPT !.suggested = TRUE, !.armed = FALSE, !.bar = IF paneOpen THEN "Idle" ELSE "Review"]

-----------------------------------------------------------------------------
(* The queue. *)

\* What is left of a queue, in its order.
Kept(q, gone) ==
    LET kept[i \in 0..Len(q)] ==
            IF i = 0 THEN <<>>
            ELSE IF q[i] \in gone THEN kept[i - 1] ELSE Append(kept[i - 1], q[i])
    IN kept[Len(q)]

Without(a, gone) ==
    [a EXCEPT !.queue = Kept(a.queue, gone),
              !.cancelled = @ \cup gone, !.resub = @ \ gone]
Queued(a) == ToSet(a.queue)
Automatics(a) == {r \in Queued(a) : a.kind[r] = "auto"}

\* Stopping keeps the user's own requests and forgets the automatic ones.
Pause(a) ==
    LET b == Without(a, Automatics(a)) IN [b EXCEPT !.paused = b.queue # <<>>]

CancelPending(a) == [Without(a, Queued(a)) EXCEPT !.paused = FALSE]

ManualFixes(a) == {r \in Queued(a) : a.kind[r] \in {"fix", "forced"}}
RequireResubmission(a, rs) == [a EXCEPT !.cancelled = @ \cup rs, !.resub = @ \cup rs]
InvalidatePendingPromptSession(a) ==
    LET b == Pause(a) IN RequireResubmission(b, ManualFixes(b))

\* A newer failure, or the activation of the diagnostic, replaces what waits.
ReplacedBy(a, k) == IF k \in {"auto", "forced"} THEN Automatics(a) ELSE {}
\* Mutant: one request too many fits.
CanFitOneMore(a, k) == Cardinality(Queued(a) \ ReplacedBy(a, k)) <= QueueCap

CanFit(a, k) == Cardinality(Queued(a) \ ReplacedBy(a, k)) < QueueCap

\* The user's requests go before the automatic ones; an automatic request
\* takes the place of the one it replaces.
Insert(a, r) ==
    LET k == a.kind[r]
        IsAuto(x) == a.kind[x] = "auto"
        b == Without(a, ReplacedBy(a, k))
        i == SelectInSeq(IF k = "auto" THEN a.queue ELSE b.queue, IsAuto)
    IN IF k = "auto" /\ i # 0
       THEN [a EXCEPT !.queue[i] = r, !.cancelled = @ \cup {a.queue[i]}]
       ELSE [b EXCEPT !.queue = InsertAt(@, IF k = "auto" \/ i = 0 THEN Len(@) + 1 ELSE i, r)]

\* A diagnostic whose request was cancelled while it waited is offered again.
RestoreCancelledQueuedAutofix(a) ==
    IF /\ a.detected # 0 /\ a.turn.id # a.detected /\ a.bar = "Pending"
       /\ a.detected \notin Queued(a) \ a.resub
    THEN EmitDetected(a) ELSE a

BarriersSettled(a) ==
    /\ a.conn = "connected"
    /\ AcceptsNewPrompt(a.turn) /\ a.turn.outcome # "card"
    /\ a.staged = 0 /\ a.action = 0

\* turn_submit_prompt and, for a reported failure, the armed bar.
Submit(a, r) ==
    LET b == [a EXCEPT !.admitted = a.kind[r] # "prompt" /\ a.detected = r,
                       !.suggested = @ /\ a.kind[r] = "prompt",
                       !.staged = 0,
                       !.active = [id |-> r, session |-> a.session, valid |-> TRUE],
                       !.turn = Turn("Submitted", r)]
    IN IF a.kind[r] \in {"auto", "forced"}
       THEN EmitPending([b EXCEPT !.armed = TRUE]) ELSE b

\* dispatch_prompt_queues: what every event ends with.
Dispatch(a) ==
    LET b == RestoreCancelledQueuedAutofix(a) IN
    IF b.paused \/ ~BarriersSettled(b) \/ b.queue = <<>> THEN b
    ELSE LET r == Head(b.queue) IN
         IF r \in b.resub THEN b
         ELSE IF ~open THEN Pause(b)
         ELSE Submit([b EXCEPT !.queue = Tail(@), !.out = Append(@, r)], r)

-----------------------------------------------------------------------------
(* Cancellation. *)

\* teardown_turn_for_tab: a turn in flight stays as Cancelling until the
\* client reports that its prompt has come to an end.
TeardownTurn(a) ==
    IF a.turn.st = "Cancelling" THEN CancelActivePrompt(a, a.turn.id)
    ELSE LET b == IF IsInFlight(a.turn) THEN CancelActivePrompt(a, a.turn.id)
                  ELSE [a EXCEPT !.active = NoPrompt]
             newer == a.bar = "Detected" \/ (a.detected # 0 /\ a.turn.id # a.detected)
             c == IF (IsAutofix(a, a.turn) \/ a.armed) /\ ~newer THEN EmitCleared(b) ELSE b
         IN [c EXCEPT !.armed = FALSE, !.staged = 0,
                      !.turn = IF IsInFlight(a.turn) THEN Turn("Cancelling", a.turn.id)
                               ELSE Idle]

\* The user's own cancel also stops the queue and offers the diagnostic again.
RequestTurnCancel(a) ==
    LET b == TeardownTurn(Pause(a)) IN
    IF a.admitted /\ a.turn.id = a.detected /\ IsAutofix(a, a.turn)
    THEN [EmitDetected(b) EXCEPT !.detected = 0] ELSE b

\* Mutant: /clear forgets the turn without waiting for the end of its prompt.
ClearForgetsTurn(a) == [CancelActivePrompt(a, a.turn.id) EXCEPT !.active = NoPrompt, !.turn = Idle]

\* clear_chat_history
ClearChatHistory(a) ==
    LET t == a.turn IN
    IF IsInFlight(t) \/ t.st = "Cancelling"
    THEN [CancelActivePrompt(a, t.id) EXCEPT !.turn = Turn("Cancelling", t.id)]
    ELSE [a EXCEPT !.active = NoPrompt, !.turn = Idle]

-----------------------------------------------------------------------------
(* The user, the shell and the terminal. *)

NextRequest == Len(app.kind) + 1
Entered(k) == [app EXCEPT !.kind = Append(@, k)]
AppOnly == UNCHANGED <<events, clientVars, chunks, userVars>>
Intervention(op) ==
    /\ op \in UserOps /\ ops < MaxOps /\ ops' = ops + 1
    /\ UNCHANGED <<events, clientVars, chunks, execs, overtaken>>

\* enqueue_input and enqueue_autofix: the pane's text is captured before the
\* request is admitted; a request whose capture fails leaves nothing behind.
MayEnter(k) ==
    /\ NextRequest \in Requests
    /\ Cardinality({r \in DOMAIN app.kind : app.kind[r] = k}) < MaxOf[k]
    /\ app.conn # "failed"

EnterPrompt ==
    /\ MayEnter("prompt") /\ CanFit(app, "prompt")
    /\ app' = Dispatch(Insert(Entered("prompt"), NextRequest))
    /\ AppOnly

EnterFix ==
    /\ MayEnter("fix") /\ CanFit(app, "fix")
    /\ app' = Dispatch(Insert(Entered("fix"), NextRequest))
    /\ AppOnly

\* A command failed in the pane: the agent is asked at once or, without
\* auto-suggestions or while the queue is stopped, the bar offers to.
CommandFails ==
    /\ MayEnter("auto") /\ ~app.paused /\ CanFit(app, "auto")
    /\ app' = Dispatch(Insert(EmitDetected([Entered("auto") EXCEPT !.detected = 0]),
                              NextRequest))
    /\ AppOnly

CommandFailsUnattended ==
    /\ app' = Dispatch(EmitDetected([app EXCEPT !.detected = 0]))
    /\ Intervention("failure")

\* The user activates the failure the bar offers.
ExecuteFromDetected ==
    /\ MayEnter("forced")
    /\ LET a == RestoreCancelledQueuedAutofix(app) IN
       /\ a.bar = "Detected" /\ CanFit(a, "forced")
       /\ a.detected # 0 => a.detected # a.turn.id /\ a.detected \notin Queued(a)
       /\ app' = Dispatch(EmitPending([Insert([a EXCEPT !.kind = Append(@, "forced")],
                                              NextRequest)
                                       EXCEPT !.detected = NextRequest]))
    /\ AppOnly

\* OSC 133: a command starts or succeeds, or a prompt is shown that is not the
\* echo of the failure.  A command makes the evidence in the queue stale.
ShellActivity ==
    /\ Intervention("shell")
    /\ \E command \in BOOLEAN :
          LET a == IF command THEN Without(app, Automatics(app)) ELSE app
              b == IF ~a.armed THEN a
                   ELSE IF IsAutomatic(a, a.turn) THEN TeardownTurn(a)
                   ELSE EmitCleared([a EXCEPT !.armed = FALSE])
              c == IF b.suggested \/ b.bar = "Detected" THEN EmitCleared(b) ELSE b
          IN app' = Dispatch(c)

\* handle_autofix_pane_closed: the evidence of every waiting fix is gone.
PaneClosed ==
    /\ Intervention("shell")
    /\ LET a == IF ManualFixes(app) # {}
                THEN Pause(RequireResubmission(app, ManualFixes(app)))
                ELSE Without(app, Automatics(app))
           b == IF IsAutomatic(a, a.turn) THEN TeardownTurn(a)
                ELSE IF a.armed \/ a.suggested \/ a.bar # "Idle"
                     THEN EmitCleared([a EXCEPT !.armed = FALSE]) ELSE a
       IN app' = Dispatch(b)

\* /stop, and Esc while a turn is in flight.
Stop ==
    /\ Intervention("stop")
    /\ app' = Dispatch(IF IsInFlight(app.turn) \/ app.turn.st = "Cancelling"
                       THEN RequestTurnCancel(app) ELSE Pause(app))

\* /clear
Clear ==
    /\ Intervention("clear")
    /\ app' = Dispatch(ClearChatHistory(app))

ResumePending ==
    /\ Intervention("queue")
    /\ app.paused /\ app.queue # <<>> /\ open /\ Queued(app) \cap app.resub = {}
    /\ BarriersSettled(app)
    /\ app' = Dispatch([app EXCEPT !.paused = FALSE])

DiscardPending ==
    /\ Intervention("queue") /\ app.queue # <<>>
    /\ app' = Dispatch(CancelPending(app))

\* The last request of the user's own goes back into the editor.
RecallLast ==
    /\ Intervention("queue")
    /\ LET i == SelectLastInSeq(app.queue, LAMBDA r : app.kind[r] # "auto") IN
       /\ i # 0
       /\ LET a == Without(app, {app.queue[i]})
          IN app' = Dispatch([a EXCEPT !.paused = @ /\ a.queue # <<>>])

\* reset_tab_session: the tab's conversation is dropped, no session replaces it.
ResetTabSession ==
    /\ "reset" \in UserOps /\ ops < MaxOps /\ ops' = ops + 1 /\ nextSid < MaxSessions
    /\ LET a == ClearChatHistory([app EXCEPT !.action = 0, !.session = 0])
       IN app' = Dispatch([CancelPending(a) EXCEPT !.active.valid = FALSE,
                              !.meaningful = FALSE, !.drops = open])
    /\ overtaken' = overtaken \cup {s \in Sessions : Ev("connected", 0, s) \in ToSet(events)}
    /\ UNCHANGED <<events, clientVars, chunks, execs>>

-----------------------------------------------------------------------------
(* Proposals and cards.  A proposal comes over a pipe of its own while its  *)
(* prompt is at the agent, and its channel tells the App when it counts.    *)

AtAgent(r) == task[r] \in {"sent", "stopping", "draining", "softDraining", "cancelDraining"}

StageProposal(r) ==
    /\ Intervention("card") /\ AtAgent(r)
    /\ app.session = sid[r] /\ app.turn.st \in {"Submitted", "Streaming"} /\ app.turn.id = r
    /\ app' = Dispatch([app EXCEPT !.staged = r])

CommitProposal ==
    /\ app.staged # 0
    /\ LET a == [app EXCEPT !.staged = 0]
           card == [a EXCEPT !.turn = Surfaced(app.staged, "card", TRUE)]
       IN \E paneOpen \in BOOLEAN :
          app' = Dispatch(
             IF app.turn.st \notin {"Submitted", "Streaming"} \/ app.turn.id # app.staged THEN a
             ELSE IF IsAutofix(a, a.turn) THEN EmitResult(card, paneOpen) ELSE card)
    /\ AppOnly

\* The caller of the proposal is gone, before or after its card is shown.
InvalidateProposal ==
    /\ app.staged # 0 \/ ("card" \in UserOps /\ app.turn.outcome = "card")
    /\ LET a == [app EXCEPT !.staged = 0]
       IN app' = Dispatch(IF app.turn.outcome = "card" THEN RequestTurnCancel(a) ELSE a)
    /\ AppOnly

\* Esc on a card that is all the turn has left.
DismissCard ==
    /\ app.turn.outcome = "card" /\ ~app.turn.endPending
    /\ app' = Dispatch(RequestTurnCancel(app))
    /\ AppOnly

\* turn_execute_card, once the proposal's confirmation is claimed.
ExecuteCard ==
    /\ app.turn.outcome = "card"
    /\ LET t == app.turn
           a == [app EXCEPT !.action = t.id, !.armed = FALSE,
                   !.turn = Surfaced(t.id, IF t.endPending THEN "resolved" ELSE "none",
                                     t.endPending)]
       IN app' = Dispatch(IF IsAutofix(app, t) THEN EmitCleared(a) ELSE a)
    /\ execs' = execs \cup {app.turn.id}
    /\ UNCHANGED <<events, clientVars, chunks, overtaken, ops>>

\* RecommendationExecutionSettled
ExecutionSettled(r) ==
    /\ r \in execs /\ execs' = execs \ {r}
    /\ \E success \in BOOLEAN :
          LET a == [app EXCEPT !.action = 0]
          IN app' = Dispatch(IF app.action # r THEN app
                             ELSE IF success THEN a ELSE Pause(a))
    /\ UNCHANGED <<events, clientVars, chunks, overtaken, ops>>

-----------------------------------------------------------------------------
(* The ACP client: its receive loop and one task per prompt. *)

Publish(evs) == events' = events \o evs
Settled(r, started) ==
    [type |-> IF started THEN "settledStarted" ELSE "settled", id |-> r, session |-> 0]
Released(r) == IF inFlight = r THEN 0 ELSE inFlight
Moves(r, from, to) == task[r] = from /\ task' = [task EXCEPT ![r] = to]

\* The task publishes its last event, frees the tab and is gone.
Ends(r, evs) ==
    /\ task' = [task EXCEPT ![r] = "done"] /\ inFlight' = Released(r)
    /\ sid' = [sid EXCEPT ![r] = 0] /\ chunks' = [chunks EXCEPT ![r] = 0]
    /\ Publish(evs)

\* dispatch_drop_session: select polls this channel before the prompts.
DropSession ==
    /\ app.drops /\ open
    /\ app' = [app EXCEPT !.drops = FALSE]
    /\ binding' = 0 /\ current' = {}
    /\ UNCHANGED <<events, open, inFlight, task, sid, nextSid, asked, chunks, userVars>>

\* Mutant: a prompt may overtake the reset that was sent before it.
PromptOvertakesDrop ==
    /\ app.out # <<>>
    /\ app' = [app EXCEPT !.out = Tail(@)]
    /\ LET r == Head(app.out) IN
       IF r \in app.cancelled THEN Ends(r, <<Settled(r, FALSE)>>)
       ELSE /\ inFlight' = IF inFlight = 0 THEN r ELSE inFlight
            /\ task' = [task EXCEPT ![r] = IF inFlight = 0 THEN "start" ELSE "done"]
            /\ UNCHANGED <<events, sid, chunks>>
    /\ UNCHANGED <<open, binding, current, nextSid, asked, userVars>>

\* dispatch_prompt: a busy tab would refuse the prompt and nobody would tell
\* the turn that waits for it.
ReceivePrompt ==
    /\ app.out # <<>> /\ ~app.drops
    /\ app' = [app EXCEPT !.out = Tail(@)]
    /\ LET r == Head(app.out) IN
       IF r \in app.cancelled THEN Ends(r, <<Settled(r, FALSE)>>)
       ELSE /\ inFlight' = IF inFlight = 0 THEN r ELSE inFlight
            /\ task' = [task EXCEPT ![r] = IF inFlight = 0 THEN "start" ELSE "done"]
            /\ UNCHANGED <<events, sid, chunks>>
    /\ UNCHANGED <<open, binding, current, nextSid, asked, userVars>>

\* A task that looks at its token before the prompt is sent.
StopsUnsent(r) ==
    /\ task[r] \in {"start", "awaitCancel", "build"} /\ r \in app.cancelled
    /\ Ends(r, <<Settled(r, FALSE)>>)
    /\ UNCHANGED <<app, open, binding, current, nextSid, asked, userVars>>

ResolveSession(r) ==
    /\ r \notin app.cancelled
    /\ Moves(r, "start", IF binding = 0 THEN "newSession" ELSE "build")
    /\ sid' = [sid EXCEPT ![r] = binding]
    /\ current' = IF binding = 0 THEN {r} ELSE current
    /\ UNCHANGED <<app, events, open, inFlight, binding, nextSid, asked, chunks, userVars>>

\* The lazy session/new fails.
NewSessionFails(r) ==
    /\ task[r] = "newSession"
    /\ Ends(r, <<IF r \in app.cancelled THEN Settled(r, FALSE) ELSE Ev("promptError", r, 0)>>)
    /\ UNCHANGED <<app, open, binding, current, nextSid, asked, userVars>>

\* It returns a session: of no use if the tab was reset meanwhile.
NewSessionReturns(r) ==
    /\ nextSid < MaxSessions /\ nextSid' = nextSid + 1
    /\ Moves(r, "newSession", IF r \in current THEN "build" ELSE "awaitCancel")
    /\ IF r \in current
       THEN /\ binding' = nextSid' /\ sid' = [sid EXCEPT ![r] = nextSid']
            /\ Publish(<<Ev("attached", r, nextSid')>>)
       ELSE UNCHANGED <<binding, sid, events>>
    /\ UNCHANGED <<app, open, inFlight, current, asked, chunks, userVars>>

\* The session's permissions or the host's policy stand in the way.
PromptBlocked(r) ==
    /\ task[r] = "build" /\ r \notin app.cancelled
    /\ Ends(r, <<Ev("error", r, sid[r])>>)
    /\ UNCHANGED <<app, open, binding, current, nextSid, asked, userVars>>

SendPrompt(r) ==
    /\ open /\ r \notin app.cancelled
    /\ Moves(r, "build", "sent") /\ asked' = asked \cup {sid[r]}
    /\ UNCHANGED <<app, events, open, inFlight, binding, sid, current, nextSid, chunks, userVars>>

\* Output goes straight to the App, also after the response while it drains.
AgentChunk(r) ==
    /\ AtAgent(r) /\ open /\ chunks[r] < MaxChunks
    /\ chunks' = [chunks EXCEPT ![r] = @ + 1]
    /\ Publish(<<Ev("chunk", r, sid[r])>>)
    /\ UNCHANGED <<app, clientVars, userVars>>

\* select is biased: a token that is set wins over a response that is there.
CancelSent(r) ==
    /\ r \in app.cancelled /\ Moves(r, "sent", "stopping")
    /\ UNCHANGED <<app, events, open, inFlight, binding, sid, current, nextSid, asked, chunks,
                   userVars>>

AgentResponds(r) ==
    /\ r \notin app.cancelled
    /\ \E soft \in BOOLEAN : Moves(r, "sent", IF soft THEN "softDraining" ELSE "draining")
    /\ inFlight' = Released(r)
    /\ UNCHANGED <<app, events, open, binding, sid, current, nextSid, asked, chunks, userVars>>

\* A protocol error, or the loss of the connection to the master.
AgentFails(r) ==
    /\ task[r] = "sent" /\ r \notin app.cancelled
    /\ \E lost \in BOOLEAN :
          /\ lost => "disconnect" \in UserOps
          /\ Ends(r, <<Ev(IF lost THEN "lost" ELSE "error", r, sid[r])>>)
    /\ UNCHANGED <<app, open, binding, current, nextSid, asked, userVars>>

CancelledPromptResolves(r) ==
    /\ Moves(r, "stopping", "cancelDraining")
    /\ UNCHANGED <<app, events, open, inFlight, binding, sid, current, nextSid, asked, chunks,
                   userVars>>

\* The 50 ms in which stragglers still arrive are over.
Drained(r) ==
    /\ \/ task[r] = "draining" /\ Ends(r, <<Ev("end", r, sid[r])>>)
       \/ /\ task[r] = "softDraining"
          /\ Ends(r, <<Ev("softStop", r, sid[r]), Ev("end", r, sid[r])>>)
       \/ task[r] = "cancelDraining" /\ Ends(r, <<Settled(r, TRUE)>>)
    /\ UNCHANGED <<app, open, binding, current, nextSid, asked, userVars>>

\* The pipe to the master ends: the receivers are closed, every task is told
\* to stop ...
TransportEnds ==
    /\ "disconnect" \in UserOps /\ ops < MaxOps /\ ops' = ops + 1
    /\ open /\ nextSid < MaxSessions /\ open' = FALSE
    /\ app' = [app EXCEPT !.out = <<>>, !.drops = FALSE,
                 !.cancelled = @ \cup ToSet(app.out) \cup
                               {r \in Requests : task[r] \notin {"none", "done"}}]
    /\ UNCHANGED <<events, inFlight, binding, task, sid, current, nextSid, asked, chunks, execs,
                   overtaken>>

\* ... and after 100 ms those that have not stopped are aborted.
TransportRetired ==
    /\ ~open /\ app.conn # "connecting" /\ Ev("retired", 0, 0) \notin ToSet(events)
    /\ task' = [r \in Requests |-> IF task[r] = "none" THEN "none" ELSE "done"]
    /\ sid' = [r \in Requests |-> 0] /\ chunks' = [r \in Requests |-> 0]
    /\ inFlight' = 0 /\ binding' = 0 /\ current' = {}
    /\ Publish(<<Ev("disconnected", 0, 0), Ev("retired", 0, 0)>>)
    /\ UNCHANGED <<app, open, nextSid, asked, userVars>>

\* A new client connects, with a startup session of its own.
Reconnect ==
    /\ ~open /\ app.conn = "connecting" /\ events = <<>> /\ nextSid < MaxSessions
    /\ open' = TRUE /\ nextSid' = nextSid + 1 /\ binding' = nextSid'
    /\ Publish(<<Ev("connected", 0, nextSid')>>)
    /\ UNCHANGED <<app, inFlight, task, sid, current, asked, chunks, userVars>>

-----------------------------------------------------------------------------
(* The App's handlers for the client's events. *)

\* terminal_event_tab_for_session: the session of the tab, or a session it
\* gave up whose prompt is still being cancelled.
IsCurrent(a, s) == a.session # 0 /\ a.session = s
OwnsBarrier(a, s) == a.turn.st = "Cancelling" /\ ActiveMatchesSession(a, a.turn.id, s)

\* turn_close; an autofix turn without any text has nothing to show.
TurnClose(a, paneOpen, text) ==
    LET t == a.turn
        b == [a EXCEPT !.meaningful = @ \/ t.st # "Idle"]
        c == [FinishActivePrompt(b, t.id) EXCEPT
                !.turn = Surfaced(t.id, IF t.outcome = "card" THEN "card" ELSE "none", FALSE)]
    IN CASE ~IsInFlight(t) -> b
         [] t.st = "Surfaced" -> c
         [] ~IsAutofix(a, t) -> c
         [] t.st = "Submitted" -> EmitCleared([c EXCEPT !.armed = FALSE])
         [] t.st = "Streaming" /\ text -> EmitResult(c, paneOpen)
         [] OTHER -> IF a.armed THEN EmitCleared([c EXCEPT !.armed = FALSE]) ELSE c

OnEnd(a, s, paneOpen, text) ==
    IF OwnsBarrier(a, s)
    THEN [EndTurn(a) EXCEPT !.meaningful = @ \/ IsCurrent(a, s)]
    ELSE IF IsCurrent(a, s) /\ a.turn.st # "Cancelling" THEN TurnClose(a, paneOpen, text)
    ELSE a

OnChunk(a, s) ==
    IF ~IsCurrent(a, s) \/ ~IsInFlight(a.turn) THEN a
    ELSE [a EXCEPT !.meaningful = TRUE,
                   !.turn = IF @.st = "Submitted" THEN Turn("Streaming", @.id) ELSE @]

OnSoftStop(a, s) ==
    IF IsCurrent(a, s) /\ a.turn.st # "Cancelling" THEN Pause(a) ELSE a

\* AgentError of a session; only a protocol error leaves it usable.
OnError(a, s, lost) ==
    IF ~IsCurrent(a, s) THEN IF OwnsBarrier(a, s) THEN EndTurn(a) ELSE a
    ELSE LET b == IF a.turn.st = "Cancelling" THEN a ELSE Pause(a)
             c == IF a.turn.st = "Cancelling" /\ ~OwnsBarrier(a, s) THEN b ELSE EndTurn(b)
         IN IF lost THEN [c EXCEPT !.conn = "failed"] ELSE c

OnPromptError(a, r) ==
    IF a.turn.id # r THEN a
    ELSE EndTurn(IF a.turn.st = "Cancelling" THEN a ELSE Pause(a))

\* Mutant: a prompt that was sent makes whatever session the tab has resumable.
SettledBlessesAny(a, r, started) ==
    IF a.turn.st # "Cancelling" \/ a.turn.id # r THEN a
    ELSE [EndTurn(a) EXCEPT !.meaningful = @ \/ started]

\* settle_prompt_cancellation
OnSettled(a, r, started) ==
    IF a.turn.st # "Cancelling" \/ a.turn.id # r THEN a
    ELSE [EndTurn(a) EXCEPT !.meaningful = @ \/ (started /\ IsCurrent(a, a.active.session))]

OnAttached(a, r, s) ==
    IF a.active.id # r \/ ~a.active.valid \/ a.active.session \notin {0, s} THEN a
    ELSE LET b == IF a.session \notin {0, s}
                  THEN [InvalidatePendingPromptSession(a) EXCEPT !.action = 0] ELSE a
         IN [b EXCEPT !.session = s, !.active.session = s]

\* MasterDisconnected: reset_agent_scoped_state
OnDisconnected(a) ==
    [EmitCleared(CancelPending(ClearChatHistory(a))) EXCEPT
        !.active.valid = FALSE, !.session = 0, !.meaningful = FALSE, !.staged = 0,
        !.armed = FALSE, !.action = 0, !.conn = "connecting"]

\* AgentTransportRetired: settle_retired_transport_prompts
OnRetired(a) ==
    LET b == IF IsInFlight(a.turn) THEN TeardownTurn(a) ELSE a
    IN IF b.turn.st = "Cancelling" THEN EndTurn(b) ELSE b

OnConnected(a, s) ==
    LET b == IF a.session \notin {0, s}
             THEN [InvalidatePendingPromptSession(a) EXCEPT !.action = 0] ELSE a
    IN [b EXCEPT !.conn = "connected", !.session = s]

Handled(e) ==
    CASE e.type = "end" -> {OnEnd(app, e.session, p, t) : p \in BOOLEAN, t \in BOOLEAN}
      [] e.type = "chunk" -> {OnChunk(app, e.session)}
      [] e.type = "softStop" -> {OnSoftStop(app, e.session)}
      [] e.type = "error" -> {OnError(app, e.session, FALSE)}
      [] e.type = "lost" -> {OnError(app, e.session, TRUE)}
      [] e.type = "promptError" -> {OnPromptError(app, e.id)}
      [] e.type = "settled" -> {OnSettled(app, e.id, FALSE)}
      [] e.type = "settledStarted" -> {OnSettled(app, e.id, TRUE)}
      [] e.type = "attached" -> {OnAttached(app, e.id, e.session)}
      [] e.type = "disconnected" -> {OnDisconnected(app)}
      [] e.type = "retired" -> {OnRetired(app)}
      [] e.type = "connected" -> {OnConnected(app, e.session)}

HandleEvent ==
    /\ events # <<>> /\ events' = Tail(events)
    /\ \E a \in Handled(Head(events)) : app' = Dispatch(a)
    /\ UNCHANGED <<clientVars, chunks, userVars>>

-----------------------------------------------------------------------------
UserStep ==
    \/ EnterPrompt \/ EnterFix \/ CommandFails \/ CommandFailsUnattended \/ ExecuteFromDetected
    \/ ShellActivity \/ PaneClosed \/ Stop \/ Clear
    \/ ResumePending \/ DiscardPending \/ RecallLast \/ ResetTabSession
    \/ DismissCard \/ ExecuteCard
    \/ \E r \in Requests : StageProposal(r)

\* One prompt task, and the agent that answers it.
TaskStep(r) ==
    \/ StopsUnsent(r) \/ ResolveSession(r) \/ NewSessionFails(r) \/ NewSessionReturns(r)
    \/ PromptBlocked(r) \/ SendPrompt(r) \/ CancelSent(r) \/ AgentResponds(r)
    \/ AgentFails(r) \/ CancelledPromptResolves(r) \/ Drained(r)

ProposalStep == CommitProposal \/ InvalidateProposal

Next ==
    \/ UserStep \/ HandleEvent \/ DropSession \/ ReceivePrompt
    \/ ProposalStep \/ TransportEnds \/ TransportRetired \/ Reconnect
    \/ \E r \in Requests : TaskStep(r) \/ AgentChunk(r) \/ ExecutionSettled(r)

Spec == Init /\ [][Next]_vars

-----------------------------------------------------------------------------
(* Properties. *)

\* The output, the completion and the error that the App handles next belong
\* to the prompt of the turn they are applied to: they name only the session,
\* and turn_close, turn_observe_chunk and AgentError take them for the turn
\* that is there.
OutputIsItsOwn ==
    events # <<>> =>
        LET e == Head(events) IN
        /\ e.type \in {"chunk", "end", "softStop", "error", "lost"}
        /\ IsCurrent(app, e.session) \/ OwnsBarrier(app, e.session)
        /\ ~AcceptsNewPrompt(app.turn)
        => e.id = app.turn.id

\* Something still to come ends the turn: its prompt is on the way to the
\* client or has a task, an event is on the way back that the turn waits for,
\* or the whole transport is being retired.
Ending(e) ==
    \/ e.type \in {"end", "error", "lost", "promptError", "settled", "settledStarted"}
       /\ e.id = app.turn.id
    \/ e.type = "retired"
EndComes ==
    \/ app.turn.id \in ToSet(app.out)
    \/ task[app.turn.id] \notin {"none", "done"}
    \/ \E i \in DOMAIN events : Ending(events[i])
    \/ ~open /\ app.conn # "connecting"

\* A reset has overtaken an event that tells the App of a session: the session
\* of the prompt being cancelled, which it then never learns, or the startup
\* session of the connection, which the client has dropped and the prompt was
\* submitted to.
ResetRaced ==
    \/ app.turn.st = "Cancelling" /\ ~app.active.valid /\ app.active.session = 0
    \/ app.active.session \in overtaken

\* A turn that runs or is being cancelled will end, so that the queue goes on:
\* no completion, error or settlement of it has been lost or given to another
\* turn.  A task that waits for its own cancellation, because the session it
\* created is of no use after a reset, has been cancelled.
TurnIsServed ==
    /\ ~AcceptsNewPrompt(app.turn) /\ ~ResetRaced => EndComes
    /\ \A r \in Requests : task[r] = "awaitCancel" => r \in app.cancelled

\* app.rs:7592 says of a reset: "An active turn remains `Cancelling` until its
\* prompt producer reaches a terminal boundary."  That is, not for ever.
CancelledTurnEnds == app.turn.st = "Cancelling" => EndComes

\* A tab whose conversation is worth resuming has a session the agent was
\* really asked something in: has_meaningful_conversation of a session that
\* was given up is not taken over by its replacement.  Only a startup session
\* that a reset has overtaken may pass for one: the prompt that was submitted
\* to it went to another.
ResumableWasAsked ==
    app.meaningful => app.session \in asked \cup overtaken

\* The tab keeps the promise of PromptFlight.
Status(r) ==
    IF task[r] = "done" THEN "over"
    ELSE IF task[r] # "none" \/ r \in ToSet(app.out) THEN "running"
    ELSE IF r \in Queued(app) THEN "waiting"
    ELSE IF r <= Len(app.kind) THEN "over"
    ELSE "new"
Flight == INSTANCE PromptFlight WITH
    status <- [r \in Requests |-> Status(r)],
    automatic <- {r \in DOMAIN app.kind : app.kind[r] = "auto"}
KeepsFlightPromise == Flight!Spec
=============================================================================
