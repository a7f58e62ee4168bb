---------------------------- MODULE RunLifecycle ----------------------------
(***************************************************************************)
(* One idempotent run, from the POST /runs requests that share its         *)
(* idempotency key to its persisted terminal trace.                        *)
(*                                                                         *)
(* Four kinds of process share the PostgreSQL rows of the run:             *)
(*   - API requests of the control API (RunService.create_resolved_run);   *)
(*   - one canceller (RunService.cancel_run);                              *)
(*   - the Temporal workflow AgentRunWorkflow, which owns no rows and      *)
(*     schedules activities;                                               *)
(*   - attempts of the activities execute_run and finalize_*_run, which    *)
(*     write events, the tool invocation and the trace.  An attempt the    *)
(*     server has given up on (heartbeat timeout, cancellation) may go on  *)
(*     running: a zombie.                                                  *)
(*                                                                         *)
(* Every database transaction is one atomic step; the documents they write *)
(* are those of RunRecord.                                                 *)
(***************************************************************************)
EXTENDS RunRecord

CONSTANTS
    ExecuteAttempts,    \* RetryPolicy.maximum_attempts of execute_run (3 in the code)
    FinalizeAttempts    \* ... and of the finalizers (3 in the code)

ASSUME AttemptsAssumption ==
    ExecuteAttempts \in Nat \ {0} /\ FinalizeAttempts \in Nat \ {0}

\* execute_run, and the finalizers, named for the status they record:
\* finalize_cancelled_run and finalize_failed_run.
FinalStatuses == {"cancelled", "failed"}
Activities    == {"execute"} \cup FinalStatuses
MaxAttempts(a) == IF a = "execute" THEN ExecuteAttempts ELSE FinalizeAttempts
Attempts      == ({"execute"} \X (1 .. ExecuteAttempts))
                     \cup (FinalStatuses \X (1 .. FinalizeAttempts))

VARIABLES
    status,     \* runs.status ("absent" before the row exists)
    durable,    \* runs.durable_execution_id IS NOT NULL
    cancelFlag, \* runs.cancel_requested
    sub,        \* webhook_subscriptions of the agent: none, active or revoked
    log,        \* run_events of the run, by sequence
    trace,      \* run_traces row of the run
    tool,       \* number of tool_invocations rows of the run
    outbox,     \* webhook_deliveries enqueued for the run
    api,        \* program counter of each API request
    canceller,  \* program counter, then answer, of the cancel request
    wf,         \* state of workflow uas-run-<id>
    signal,     \* request_cancel signal delivered to the workflow
    act,        \* the server's view of each activity
    worker      \* what each attempt is doing

store    == <<status, log, trace, tool, outbox>>
columns  == <<durable, cancelFlag, sub>>
temporal == <<wf, signal, act>>
vars     == <<store, columns, api, canceller, temporal, worker>>

Closed == {"completed", "failed"}      \* workflow executions that have ended

\* A program counter of an attempt, the sequence it works at, and (for a
\* finalizer) the events it has listed.
Attempt(pc, seq, seen) == [pc |-> pc, seq |-> seq, seen |-> seen]
Idle == Attempt("idle", 0, EmptyLog)
Done == Attempt("done", 0, EmptyLog)

ActivityStates ==
    [no : Nat,
     state : {"idle", "pending", "started", "completed", "failed", "cancelled"}]
AttemptStates ==
    [pc : {"idle", "append", "tool", "list", "begin", "end", "save", "report", "done"},
     seq : 0 .. KernelLen + 1,
     seen : Logs]

TypeOK ==
    /\ status \in {"absent", "queued", "running"} \cup TerminalStatuses
    /\ durable \in BOOLEAN
    /\ cancelFlag \in BOOLEAN
    /\ sub \in [Subscriptions -> {"none", "active", "revoked"}]
    /\ log \in Logs
    /\ trace \in Traces \cup {NoTrace}
    /\ tool \in Nat
    /\ outbox \subseteq [to : Subscriptions, seq : Seqs, type : TerminalEvents,
                        status : TerminalStatuses]
    /\ api \in [Requests -> {"idle", "start", "startFailed", "mark", "done"}]
    /\ canceller \in {"idle", "describe", "signal",
                      "requested", "not_found", "already_terminal"}
    /\ wf \in {"none", "started", "executing", "cancelling", "failing"} \cup Closed
    /\ signal \in BOOLEAN
    /\ act \in [Activities -> ActivityStates]
    /\ worker \in [Attempts -> AttemptStates]

Init ==
    /\ status = "absent"
    /\ durable = FALSE
    /\ cancelFlag = FALSE
    /\ sub = [s \in Subscriptions |-> "none"]
    /\ log = EmptyLog
    /\ trace = NoTrace
    /\ tool = 0
    /\ outbox = {}
    /\ api = [r \in Requests |-> "idle"]
    /\ canceller = "idle"
    /\ wf = "none"
    /\ signal = FALSE
    /\ act = [a \in Activities |-> [no |-> 0, state |-> "idle"]]
    /\ worker = [t \in Attempts |-> Idle]

-----------------------------------------------------------------------------
(* Transactions on the run's rows.                                         *)

\* RunRepository.append_event: an identical document at this sequence is
\* accepted again, another one raises EventConflict; the first run.started
\* moves a queued run to running.  The run's terminal status is not looked at.
CanAppend(k, doc) == log[k] \in {NoEvent, doc}

AppendEvent(k, doc) ==
    /\ CanAppend(k, doc)
    /\ log' = [log EXCEPT ![k] = doc]
    /\ status' = IF log[k] = NoEvent /\ doc.type = "run.started" /\ status = "queued"
                 THEN "running" ELSE status

\* RunRepository.finalize_trace and enqueue_terminal, in one transaction: an
\* identical trace is accepted again, another one raises TerminalTraceConflict.
\* Accepted again or not, the subscriptions are read anew.
Listening == {s \in Subscriptions : sub[s] = "active"}

M_CanFinalize(t) == TRUE                                   \* last writer wins
CanFinalize(t) == trace \in {NoTrace, t}

M_FinalizeTrace(t) ==                   \* status written although the trace is kept
    /\ trace' = IF trace = NoTrace THEN t ELSE trace
    /\ status' = t.status
    /\ outbox' = outbox \cup Deliveries(t, Listening)
FinalizeTrace(t) ==
    /\ CanFinalize(t)
    /\ trace' = t
    /\ status' = IF trace = NoTrace THEN t.status ELSE status
    /\ outbox' = outbox \cup Deliveries(t, Listening)

-----------------------------------------------------------------------------
(* The control API: create_resolved_run, one process per request.  A       *)
(* request whose process dies, or whose next transaction fails, takes no   *)
(* further step: no fairness is assumed of the API.                        *)

\* create_idempotent.  The row snapshot taken here (status, durable id)
\* decides whether this request starts the durable execution.
M_CreateIdempotent(r) ==                \* the existing request is not looked up
    /\ api[r] = "idle"
    /\ status' = "queued"
    /\ api' = [api EXCEPT ![r] = "start"]
    /\ UNCHANGED <<log, trace, tool, outbox, columns, canceller, temporal, worker>>
CreateIdempotent(r) ==
    /\ api[r] = "idle"
    /\ status' = IF status = "absent" THEN "queued" ELSE status
    /\ api' = [api EXCEPT ![r] =
                 IF status \in {"absent", "queued"} /\ ~durable THEN "start" ELSE "done"]
    /\ UNCHANGED <<log, trace, tool, outbox, columns, canceller, temporal, worker>>

\* start_run reaches Temporal: a new workflow, or USE_EXISTING for a running one.
StartRun(r) ==
    /\ api[r] = "start"
    /\ wf \notin Closed
    /\ wf' = IF wf = "none" THEN "started" ELSE wf
    /\ api' = [api EXCEPT ![r] = "mark"]
    /\ UNCHANGED <<store, columns, canceller, signal, act, worker>>

\* start_run is refused: REJECT_DUPLICATE for a closed workflow.
StartRejected(r) ==
    /\ api[r] = "start"
    /\ wf \in Closed
    /\ api' = [api EXCEPT ![r] = "startFailed"]
    /\ UNCHANGED <<store, columns, canceller, temporal, worker>>

\* start_run raises although nobody refused: the RPC was lost, before or
\* after the server started the workflow.
StartLost(r) ==
    /\ api[r] = "start"
    /\ \/ UNCHANGED wf
       \/ wf = "none" /\ wf' = "started"
    /\ api' = [api EXCEPT ![r] = "startFailed"]
    /\ UNCHANGED <<store, columns, canceller, signal, act, worker>>

\* finalize_start_failure: two events, the trace and its deliveries in one
\* transaction; any conflict rolls all of it back (and the client gets a 500).
RecordStartFailure(r) ==
    /\ api[r] = "startFailed"
    /\ IF /\ CanAppend(1, StartFailureLog(r)[1])
          /\ CanAppend(2, StartFailureLog(r)[2])
          /\ CanFinalize(StartFailureTrace(r))
       THEN /\ log' = [log EXCEPT ![1] = StartFailureLog(r)[1],
                                  ![2] = StartFailureLog(r)[2]]
            /\ FinalizeTrace(StartFailureTrace(r))
       ELSE UNCHANGED <<log, status, trace, outbox>>
    /\ api' = [api EXCEPT ![r] = "done"]
    /\ UNCHANGED <<tool, columns, canceller, temporal, worker>>

\* set_durable_execution_id.
MarkDurable(r) ==
    /\ api[r] = "mark"
    /\ durable' = TRUE
    /\ api' = [api EXCEPT ![r] = "done"]
    /\ UNCHANGED <<store, cancelFlag, sub, canceller, temporal, worker>>

-----------------------------------------------------------------------------
(* cancel_run: the row first, then a describe call, then the signal.       *)

RequestCancel ==
    /\ canceller = "idle"
    /\ status # "absent"
    /\ cancelFlag' = TRUE
    /\ canceller' = IF status \in TerminalStatuses THEN "already_terminal" ELSE "describe"
    /\ UNCHANGED <<store, durable, sub, api, temporal, worker>>

Describe ==
    /\ canceller = "describe"
    /\ canceller' = CASE wf = "none"    -> "not_found"
                      [] wf \in Closed  -> "already_terminal"
                      [] OTHER          -> "signal"
    /\ UNCHANGED <<store, columns, api, temporal, worker>>

SignalCancel ==
    /\ canceller = "signal"
    /\ IF wf \in Closed
       THEN canceller' = "not_found" /\ UNCHANGED signal
       ELSE canceller' = "requested" /\ signal' = TRUE
    /\ UNCHANGED <<store, columns, api, wf, act, worker>>

\* An RPCError of either call is answered "not_found"; a lost reply to the
\* signal is one whose signal was delivered.
CancelRpcFails ==
    /\ canceller \in {"describe", "signal"}
    /\ canceller' = "not_found"
    /\ \/ UNCHANGED signal
       \/ canceller = "signal" /\ wf \notin Closed /\ signal' = TRUE
    /\ UNCHANGED <<store, columns, api, wf, act, worker>>

-----------------------------------------------------------------------------
(* The owner's webhooks, at any time (WebhookRepository.create and revoke). *)

SetSubscription(s, before, after) ==
    /\ sub[s] = before
    /\ sub' = [sub EXCEPT ![s] = after]
    /\ UNCHANGED <<store, durable, cancelFlag, api, canceller, temporal, worker>>

Subscribe(s) == SetSubscription(s, "none", "active")
Revoke(s)    == SetSubscription(s, "active", "revoked")

-----------------------------------------------------------------------------
(* AgentRunWorkflow.run.                                                   *)

Schedule(a) == [act EXCEPT ![a] = [no |-> 0, state |-> "pending"]]

\* First workflow task: a cancellation that is already there goes straight to
\* the finalizer, otherwise execute_run is scheduled.
WorkflowBegins ==
    /\ wf = "started"
    /\ IF signal
       THEN wf' = "cancelling" /\ act' = Schedule("cancelled")
       ELSE wf' = "executing"  /\ act' = Schedule("execute")
    /\ UNCHANGED <<store, columns, api, canceller, signal, worker>>

\* "if execution in done": the result is returned even if a cancellation has
\* arrived too; an ActivityError leads to _finalize_failed.
ExecutionDone ==
    /\ wf = "executing"
    /\ \/ act["execute"].state = "completed" /\ wf' = "completed" /\ UNCHANGED act
       \/ act["execute"].state = "failed" /\ wf' = "failing" /\ act' = Schedule("failed")
    /\ UNCHANGED <<store, columns, api, canceller, signal, worker>>

\* Only the cancellation is done: with TRY_CANCEL the activity future resolves
\* at once, and the attempt that is running (if any) is not waited for.
M_CancelExecution ==                    \* closes without a finalizer
    /\ wf = "executing"
    /\ signal
    /\ act["execute"].state \in {"pending", "started"}
    /\ wf' = "completed"
    /\ act' = [act EXCEPT !["execute"].state = "cancelled"]
    /\ UNCHANGED <<store, columns, api, canceller, signal, worker>>
CancelExecution ==
    /\ wf = "executing"
    /\ signal
    /\ act["execute"].state \in {"pending", "started"}
    /\ wf' = "cancelling"
    /\ act' = [act EXCEPT !["execute"].state = "cancelled",
                          !["cancelled"].state = "pending"]
    /\ UNCHANGED <<store, columns, api, canceller, signal, worker>>

\* The finalizer's result closes the workflow; its ActivityError is not caught.
M_FinalizerDone ==                      \* waits for a success only
    /\ wf \in {"cancelling", "failing"}
    /\ \E a \in FinalStatuses : act[a].state = "completed"
    /\ wf' = "completed"
    /\ UNCHANGED <<store, columns, api, canceller, signal, act, worker>>
FinalizerDone ==
    /\ wf \in {"cancelling", "failing"}
    /\ LET a == IF wf = "cancelling" THEN "cancelled" ELSE "failed"
       IN  act[a].state \in Closed /\ wf' = act[a].state
    /\ UNCHANGED <<store, columns, api, canceller, signal, act, worker>>

-----------------------------------------------------------------------------
(* Attempts, as the Temporal server sees them.                             *)

StartAttempt(a) ==
    /\ act[a].state = "pending"
    /\ LET n == act[a].no + 1
       IN  /\ act' = [act EXCEPT ![a] = [no |-> n, state |-> "started"]]
           /\ worker' = [worker EXCEPT ![<<a, n>>] =
                           IF a = "execute" THEN Attempt("append", 1, EmptyLog)
                                            ELSE Attempt("list", 0, EmptyLog)]
    /\ UNCHANGED <<store, columns, api, canceller, wf, signal>>

\* The server still waits for this attempt; otherwise it is a zombie.
IsCurrent(t) == act[t[1]] = [no |-> t[2], state |-> "started"]

\* The server's verdict on its current attempt: retry while the policy allows.
GiveUp(t) ==
    IF IsCurrent(t)
    THEN [act EXCEPT ![t[1]].state = IF t[2] < MaxAttempts(t[1]) THEN "pending" ELSE "failed"]
    ELSE act

\* An attempt ends with an exception.
EndAttempt(t) ==
    /\ worker' = [worker EXCEPT ![t] = Done]
    /\ act' = GiveUp(t)
    /\ UNCHANGED <<store, columns, api, canceller, wf, signal>>

\* The server gives up on its current attempt, at any point: it raised (a
\* database error, an invalid model or tool document), its worker died, or it
\* missed a timeout while its code goes on running.  From here on it is a
\* zombie; one that is really dead takes no more steps.
AttemptLost(t) ==
    /\ IsCurrent(t)
    /\ act' = GiveUp(t)
    /\ UNCHANGED <<store, columns, api, canceller, wf, signal, worker>>

\* The activity function returns.  The server ignores a zombie's result.
AttemptReports(t) ==
    /\ worker[t].pc = "report"
    /\ IsCurrent(t)
    /\ worker' = [worker EXCEPT ![t] = Done]
    /\ act' = [act EXCEPT ![t[1]].state = "completed"]
    /\ UNCHANGED <<store, columns, api, canceller, wf, signal>>

-----------------------------------------------------------------------------
(* execute_run: AgentKernel.execute over the persistent ports.             *)

Exec(n) == <<"execute", n>>

\* recorder.emit: one transaction per event, in the order of KernelEvents.
M_EmitEvent(n) ==                       \* a best-effort sink: conflicts are swallowed
    LET w == worker[Exec(n)]
    IN  /\ w.pc = "append"
        /\ IF CanAppend(w.seq, KernelDoc(w.seq))
           THEN AppendEvent(w.seq, KernelDoc(w.seq)) ELSE UNCHANGED <<log, status>>
        /\ worker' = [worker EXCEPT ![Exec(n)] =
                        Attempt(CASE KernelEvents[w.seq] = "tool.requested" -> "tool"
                                  [] w.seq = KernelLen                      -> "save"
                                  [] OTHER                                  -> "append",
                                w.seq + 1, EmptyLog)]
        /\ UNCHANGED <<trace, tool, outbox, columns, api, canceller, temporal>>
EmitEvent(n) ==
    LET w == worker[Exec(n)]
    IN  /\ w.pc = "append"
        /\ AppendEvent(w.seq, KernelDoc(w.seq))
        /\ worker' = [worker EXCEPT ![Exec(n)] =
                        Attempt(CASE KernelEvents[w.seq] = "tool.requested" -> "tool"
                                  [] w.seq = KernelLen                      -> "save"
                                  [] OTHER                                  -> "append",
                                w.seq + 1, EmptyLog)]
        /\ UNCHANGED <<trace, tool, outbox, columns, api, canceller, temporal>>

\* invoke_calculator_once: an existing result is returned, none is recomputed.
M_InvokeTool(n) ==                      \* does not look for an existing result
    /\ worker[Exec(n)].pc = "tool"
    /\ tool' = tool + 1
    /\ worker' = [worker EXCEPT ![Exec(n)].pc = "append"]
    /\ UNCHANGED <<status, log, trace, outbox, columns, api, canceller, temporal>>
InvokeTool(n) ==
    /\ worker[Exec(n)].pc = "tool"
    /\ tool' = IF tool = 0 THEN 1 ELSE tool
    /\ worker' = [worker EXCEPT ![Exec(n)].pc = "append"]
    /\ UNCHANGED <<status, log, trace, outbox, columns, api, canceller, temporal>>

SaveTrace(n) ==
    /\ worker[Exec(n)].pc = "save"
    /\ FinalizeTrace(KernelTrace)
    /\ worker' = [worker EXCEPT ![Exec(n)].pc = "report"]
    /\ UNCHANGED <<log, tool, columns, api, canceller, temporal>>

\* EventConflict or TerminalTraceConflict: the attempt raises.
ExecConflicts(n) ==
    LET w == worker[Exec(n)]
    IN  /\ \/ w.pc = "append" /\ ~CanAppend(w.seq, KernelDoc(w.seq))
           \/ w.pc = "save" /\ ~CanFinalize(KernelTrace)
        /\ EndAttempt(Exec(n))

ExecuteRun(n) == EmitEvent(n) \/ InvokeTool(n) \/ SaveTrace(n) \/ ExecConflicts(n)

-----------------------------------------------------------------------------
(* _finalize_terminal_run, for the status the workflow asked for.          *)

\* list_events, and the choice the listed events lead to.
ListEvents(s, n) ==
    /\ worker[<<s, n>>].pc = "list"
    /\ \E k \in 0 .. KernelLen + 1 :
        /\ IsLast(log, k)
        /\ worker' = [worker EXCEPT ![<<s, n>>] =
                        Attempt(IF k = 0 THEN "begin"
                                ELSE IF log[k].type = TerminalType(s) THEN "save"
                                ELSE "end",
                                k, log)]
    /\ UNCHANGED <<store, columns, api, canceller, temporal>>

\* One append of the finalizer, remembered in the events it will put in the trace.
FinalizerAppends(t, k, doc, next) ==
    /\ AppendEvent(k, doc)
    /\ worker' = [worker EXCEPT ![t] =
                    Attempt(next, k, [worker[t].seen EXCEPT ![k] = doc])]
    /\ UNCHANGED <<trace, tool, outbox, columns, api, canceller, temporal>>

AppendStarted(s, n) ==
    /\ worker[<<s, n>>].pc = "begin"
    /\ FinalizerAppends(<<s, n>>, 1, WorkerEvent("run.started"), "end")

M_AppendTerminal(s, n) ==               \* leaves a hole
    /\ worker[<<s, n>>].pc = "end"
    /\ FinalizerAppends(<<s, n>>, worker[<<s, n>>].seq + 2,
                        WorkerEvent(TerminalType(s)), "save")
AppendTerminal(s, n) ==
    /\ worker[<<s, n>>].pc = "end"
    /\ FinalizerAppends(<<s, n>>, worker[<<s, n>>].seq + 1,
                        WorkerEvent(TerminalType(s)), "save")

FinalTrace(s, n) ==
    [status |-> s, events |-> worker[<<s, n>>].seen, by |-> "worker"]

FinalizeRun(s, n) ==
    /\ worker[<<s, n>>].pc = "save"
    /\ FinalizeTrace(FinalTrace(s, n))
    /\ worker' = [worker EXCEPT ![<<s, n>>].pc = "report"]
    /\ UNCHANGED <<log, tool, columns, api, canceller, temporal>>

M_FinalizerConflicts(s, n) ==           \* an existing trace counts as success
    /\ worker[<<s, n>>].pc = "save"
    /\ ~CanFinalize(FinalTrace(s, n))
    /\ worker' = [worker EXCEPT ![<<s, n>>].pc = "report"]
    /\ UNCHANGED <<store, columns, api, canceller, temporal>>
FinalizerConflicts(s, n) ==
    LET w == worker[<<s, n>>]
    IN  /\ \/ w.pc = "begin" /\ ~CanAppend(1, WorkerEvent("run.started"))
           \/ w.pc = "end" /\ ~CanAppend(w.seq + 1, WorkerEvent(TerminalType(s)))
           \/ w.pc = "save" /\ ~CanFinalize(FinalTrace(s, n))
        /\ EndAttempt(<<s, n>>)

FinalizeTerminalRun(s, n) ==
    \/ ListEvents(s, n) \/ AppendStarted(s, n) \/ AppendTerminal(s, n)
    \/ FinalizeRun(s, n) \/ FinalizerConflicts(s, n)

-----------------------------------------------------------------------------
ApiStep(r) ==
    \/ CreateIdempotent(r) \/ StartRun(r) \/ StartRejected(r)
    \/ RecordStartFailure(r) \/ MarkDurable(r)

CancelStep == RequestCancel \/ Describe \/ SignalCancel

WebhookStep == \E s \in Subscriptions : Subscribe(s) \/ Revoke(s)

WorkflowStep ==
    WorkflowBegins \/ ExecutionDone \/ CancelExecution \/ FinalizerDone

AttemptStep(t) ==
    \/ t[1] = "execute" /\ ExecuteRun(t[2])
    \/ t[1] \in FinalStatuses /\ FinalizeTerminalRun(t[1], t[2])
    \/ AttemptReports(t)

ServerStep == WorkflowStep \/ \E a \in Activities : StartAttempt(a)

\* What happens when nothing goes wrong.
CalmNext ==
    \/ \E r \in Requests : ApiStep(r)
    \/ CancelStep
    \/ WebhookStep
    \/ ServerStep
    \/ \E t \in Attempts : AttemptStep(t)

\* What the environment may do to it.
FaultNext ==
    \/ \E r \in Requests : StartLost(r)
    \/ CancelRpcFails
    \/ \E t \in Attempts : AttemptLost(t)

Next == CalmNext \/ FaultNext

Spec == Init /\ [][Next]_vars

\* Temporal delivers workflow tasks and dispatches activity tasks as long as
\* some worker polls, and an attempt the server is waiting for either goes on
\* or is timed out.  Nothing is assumed of the API, of the canceller or of
\* zombies.
FairSpec ==
    /\ Spec
    /\ WF_vars(WorkflowStep)
    /\ \A a \in Activities : WF_vars(StartAttempt(a))
    /\ \A t \in Attempts : WF_vars(IsCurrent(t) /\ AttemptStep(t))

\* The same system on a day without faults: requests run to their end, and so
\* does an attempt whose cancellation was not waited for.
CalmSpec ==
    /\ Init /\ [][CalmNext]_vars
    /\ WF_vars(WorkflowStep)
    /\ \A r \in Requests : WF_vars(ApiStep(r))
    /\ WF_vars(Describe \/ SignalCancel)
    /\ \A a \in Activities : WF_vars(StartAttempt(a))
    /\ \A t \in Attempts : WF_vars(AttemptStep(t))

-----------------------------------------------------------------------------
(* Safety.                                                                 *)

\* The events of a run form a log without holes, whoever writes them: kernel
\* attempts, zombies, finalizers and a failed start (append_event does not
\* look at the previous sequence).
LogContiguous ==
    \A j, k \in Seqs : j < k /\ log[k] # NoEvent => log[j] # NoEvent

\* runs.status and run_traces agree: a run is terminal exactly when it has a
\* trace, of the same status, whose events are a prefix of the log that ends
\* with the terminal event of that status (finalize_trace).
StatusAgreesWithTrace ==
    /\ (status \in TerminalStatuses) <=> (trace # NoTrace)
    /\ trace # NoTrace =>
        /\ trace.status = status
        /\ \E k \in Seqs : /\ trace.events = UpTo(log, k)
                           /\ log[k].type = TerminalType(status)

\* A client that was told that the durable execution could not be started has
\* a run nothing was executed for, even when the lost call did start the
\* workflow: no tool result, no kernel event, status failed.
StartFailureIsClean ==
    log[1].by # "worker" =>
        /\ status = "failed"
        /\ trace = StartFailureTrace(log[1].by)
        /\ tool = 0
        /\ \A k \in Seqs \ {1, 2} : log[k].type \in TerminalEvents \cup {"none"}

\* An activity whose success the Temporal server has recorded has settled the
\* run with its own status; in particular a workflow that completed left a
\* terminal run behind.
ActivityResultIsStored ==
    /\ act["execute"].state = "completed" => status = "completed"
    /\ \A s \in FinalStatuses : act[s].state = "completed" => status = s
    /\ wf = "completed" => trace # NoTrace

\* Across retries, worker restarts and zombies the tool yields one result,
\* stored after tool.requested and before tool.completed.
ToolResultOnce ==
    /\ tool <= 1
    /\ tool = 1 => log[5] = KernelDoc(5)
    /\ log[6] = KernelDoc(6) => tool = 1

\* A completed run has the whole kernel script in its log and a tool result,
\* whatever cancellations and finalizers were under way at the same time.
CompletedMeansExecuted ==
    status = "completed" => /\ tool = 1
                            /\ \A k \in 1 .. KernelLen : log[k] = KernelDoc(k)

\* Nothing is executed past the end: the only event that can follow a
\* terminal event of the log is one more terminal event (a zombie is stopped
\* by the conflict on its next sequence number).
NothingAfterTerminal ==
    \A k, m \in Seqs :
        /\ k < m
        /\ log[k].type \in TerminalEvents
        /\ log[m] # NoEvent
        => m = k + 1 /\ log[m].type \in TerminalEvents

\* The webhook deliveries of a run: none before it is terminal, then at most
\* one to each subscription, of the run's own outcome and pointing at an event
\* of the log.
OutboxAgrees ==
    /\ trace = NoTrace => outbox = {}
    /\ \A d, e \in outbox : d.to = e.to => d = e
    /\ \A d \in outbox :
        /\ d.status = status
        /\ d.type = TerminalType(status)
        /\ log[d.seq].type = d.type

-----------------------------------------------------------------------------
(* The inductive invariant behind them.                                    *)

\* A running kernel attempt has stored its script up to its next event, and
\* has a tool result from tool.completed on.
KernelAttempt(n) ==
    LET w == worker[Exec(n)]
    IN  /\ w.pc = "append" => w.seq \in 1 .. KernelLen
        /\ w.pc = "tool" => w.seq = 6
        /\ w.pc = "save" => w.seq = KernelLen + 1
        /\ w.pc \in {"append", "tool", "save"} =>
              \A k \in Seqs : k < w.seq => log[k] = KernelDoc(k)
        /\ w.pc \in {"append", "save"} /\ w.seq > 5 => tool = 1

\* What a finalizer remembers is a prefix of the log, which ends in its
\* terminal event from the append on.
FinalizerAttempt(s, n) ==
    LET w == worker[<<s, n>>]
    IN  /\ w.pc = "begin" => w.seen = EmptyLog
        /\ w.pc = "end" => w.seq \in 1 .. KernelLen
        /\ w.pc = "save" => w.seq \in Seqs /\ log[w.seq].type = TerminalType(s)
        /\ w.pc \in {"end", "save"} =>
              log[w.seq] # NoEvent /\ w.seen = UpTo(log, w.seq)

AttemptsProgress ==
    /\ \A n \in 1 .. ExecuteAttempts : KernelAttempt(n)
    /\ \A s \in FinalStatuses : \A n \in 1 .. FinalizeAttempts : FinalizerAttempt(s, n)

\* At most one of the two finalizers is ever scheduled, and only it writes
\* the event behind the kernel's last one.
OneFinalizer ==
    /\ wf \in {"none", "started", "executing"} =>
          \A s \in FinalStatuses : act[s].state = "idle"
    /\ \E s \in FinalStatuses : act[s].state = "idle"
    /\ \A s \in FinalStatuses : \A n \in 1 .. FinalizeAttempts :
          worker[<<s, n>>].pc # "idle" => act[s].state # "idle"
    /\ log[KernelLen + 1] # NoEvent =>
          \E s \in FinalStatuses :
              act[s].state # "idle" /\ log[KernelLen + 1].type = TerminalType(s)

OutboxOfTrace ==
    outbox \subseteq IF trace = NoTrace THEN {} ELSE Deliveries(trace, Subscriptions)

IInv ==
    /\ TypeOK
    /\ LogContiguous
    /\ StatusAgreesWithTrace
    /\ ToolResultOnce
    /\ AttemptsProgress
    /\ OneFinalizer
    /\ OutboxOfTrace

\* What an activity that succeeds has recorded.
Outcome(a) == IF a = "execute" THEN "completed" ELSE a

\* An attempt reports success only after it has settled the run.
ReportsAreStored ==
    \A t \in Attempts : worker[t].pc = "report" => status = Outcome(t[1])

\* A terminal event is the kernel's last one, the second of a start failure,
\* or that of the finalizer that was scheduled.
TerminalsHaveOrigin ==
    \A k \in Seqs : log[k].type \in TerminalEvents =>
        \/ k = KernelLen /\ \A j \in 1 .. KernelLen : log[j] = KernelDoc(j)
        \/ k = 2 /\ log[1].by # "worker"
        \/ \E s \in FinalStatuses :
              act[s].state # "idle" /\ log[k].type = TerminalType(s)

\* A start failure writes both of its events or none.
StartFailureIsWhole ==
    log[1].by # "worker" =>
        \E r \in Requests : \A k \in {1, 2} : log[k] = StartFailureLog(r)[k]

\* A finalizer appends its event only after another one.
FinalizersContinue ==
    \A s \in FinalStatuses : \A n \in 1 .. FinalizeAttempts :
        LET w == worker[<<s, n>>]
        IN  w.pc = "end" => log[w.seq].type # TerminalType(s)

EndsInv ==
    /\ ReportsAreStored /\ ActivityResultIsStored
    /\ CompletedMeansExecuted
    /\ StartFailureIsWhole /\ StartFailureIsClean
    /\ TerminalsHaveOrigin /\ FinalizersContinue /\ NothingAfterTerminal

-----------------------------------------------------------------------------
(* What a step may never do.                                               *)

\* Late writers (zombies, retried finalizers, a second API request) never
\* change the outcome of a settled run or its trace, and withdraw or rewrite
\* none of its deliveries.  They may add some, but only of a run that is
\* settled, and to subscriptions active at that moment; whoever listens for
\* the outcome when the run is settled is told at once.
TerminalIsFinal ==
    [][/\ status \in TerminalStatuses => UNCHANGED <<status, trace>>
       /\ outbox \subseteq outbox'
       /\ \A d \in outbox' \ outbox : trace' # NoTrace /\ d.to \in Listening
       /\ trace' # trace =>
             \A s \in Listening :
                 TerminalType(trace'.status) \in Events[s] => \E d \in outbox' : d.to = s]_vars

\* A persisted event is never rewritten or removed.
LogIsAppendOnly ==
    [][\A k \in Seqs : log[k] # NoEvent => log'[k] = log[k]]_vars

\* The processes implement the promise of RunContract.
Contract == INSTANCE RunContract WITH
    status <- status, log <- log, trace <- trace, tool <- tool, outbox <- outbox
ImplementsContract == Contract!Spec

-----------------------------------------------------------------------------
(* Liveness.                                                               *)

\* Retries are bounded and nobody waits on anybody: every workflow execution
\* that was started ends, whatever fails.
WorkflowCloses == (wf # "none") ~> (wf \in Closed)

\* Without faults every accepted run is settled, even if it is cancelled at
\* the worst moment and its finalizer loses every race against the attempt
\* that was not waited for.
RunSettles == (status # "absent") ~> (status \in TerminalStatuses)

-----------------------------------------------------------------------------
(* Statements of the repository that the code does not keep.               *)

\* docs/superpowers/specs/2026-07-24-slice-1-executable-spine-design.md:601:
\* a run has at most one terminal event.
SingleTerminalEvent ==
    \A k, m \in Seqs :
        log[k].type \in TerminalEvents /\ log[m].type \in TerminalEvents => k = m

\* docs/acceptance/SLICE_1_EXECUTABLE_SPINE.md:155: cancelling a queued run
\* creates a terminal cancellation event.  Here the request found the run
\* queued, set cancel_requested, and met no workflow to signal.
QueuedCancelIsRecorded ==
    (status = "queued" /\ canceller = "not_found")
        ~> (\E k \in Seqs : log[k].type = "run.cancelled")

=============================================================================
