------------------------- MODULE RunLifecycleProofs -------------------------
(***************************************************************************)
(* Proofs about RunLifecycle, for any set of requests, any number of       *)
(* attempts and any subscriptions.                                         *)
(*                                                                         *)
(* First IInv, the invariant of the rows and of who may write them, then   *)
(* how runs end: what a reported success, a completed run, a start failure *)
(* and a terminal event say of the rows.  That rests on EndsInv, which is  *)
(* inductive relative to IInv.                                             *)
(*                                                                         *)
(* With both invariants, RunLifecycle implements RunContract: whatever     *)
(* requests, cancellations, retries, zombies and finalizers do, the        *)
(* readers of a run see its rows change as RunContract says or not at all. *)
(* A transaction that writes what is already there is a stutter; every     *)
(* other one is a step of the contract.                                    *)
(***************************************************************************)
EXTENDS RunLifecycle, TLAPS

-----------------------------------------------------------------------------
(* Facts about documents.                                                  *)

LEMMA KernelDocFacts ==
    /\ \A k \in 1 .. KernelLen :
          KernelDoc(k) \in Documents /\ KernelDoc(k) # NoEvent
    /\ KernelTrace \in Traces
    /\ KernelTrace.status = "completed"
    /\ KernelDoc(KernelLen).type = TerminalType("completed")
    /\ \A k \in 1 .. KernelLen :
          KernelEvents[k] = "tool.requested" <=> k = 5
  <1>1. ASSUME NEW k \in 1 .. KernelLen
        PROVE  /\ KernelDoc(k) \in Documents /\ KernelDoc(k) # NoEvent
               /\ KernelEvents[k] = "tool.requested" <=> k = 5
    <2>1. k = 1 \/ k = 2 \/ k = 3 \/ k = 4 \/ k = 5 \/ k = 6 \/ k = 7 \/ k = 8
      BY DEF KernelLen
    <2>2. QED
      BY <2>1 DEF KernelDoc, WorkerEvent, KernelEvents, Documents, EventTypes,
                  Writers, TerminalEvents, NoEvent
  <1>2. KernelTrace \in Traces
    <2>1. KernelTrace.events \in Logs
      BY <1>1 DEF KernelTrace, Logs, Seqs, KernelLen
    <2>2. QED
      BY <2>1 DEF KernelTrace, Traces, TerminalStatuses, Writers
  <1>3. QED
    BY <1>1, <1>2 DEF KernelTrace, KernelDoc, WorkerEvent, KernelEvents,
                      KernelLen, TerminalType

LEMMA TerminalTypeFacts ==
    \A s \in TerminalStatuses :
        /\ TerminalType(s) \in TerminalEvents
        /\ WorkerEvent(TerminalType(s)) \in Documents
        /\ WorkerEvent(TerminalType(s)) # NoEvent
        /\ \A r \in TerminalStatuses : TerminalType(r) = TerminalType(s) => r = s
  BY DEF TerminalStatuses, TerminalType, TerminalEvents, WorkerEvent, Documents,
         EventTypes, Writers, NoEvent

LEMMA StartFailureFacts ==
    \A r \in Requests :
        /\ StartFailureLog(r)[1] \in Documents /\ StartFailureLog(r)[1] # NoEvent
        /\ StartFailureLog(r)[2] \in Documents /\ StartFailureLog(r)[2] # NoEvent
        /\ StartFailureTrace(r) \in Traces
        /\ StartFailureTrace(r).status = "failed"
        /\ StartFailureLog(r)[2].type = TerminalType("failed")
        /\ \A k \in Seqs : k > 2 => StartFailureLog(r)[k] = NoEvent
  BY DEF StartFailureLog, StartFailureTrace, Traces, Logs, Documents, EventTypes,
         Writers, TerminalEvents, TerminalStatuses, NoEvent, Seqs, KernelLen,
         TerminalType

LEMMA TracesAreSomething == NoTrace \notin Traces /\ NoEvent \notin Documents
  BY DEF NoTrace, Traces, TerminalStatuses, NoEvent, Documents, EventTypes, TerminalEvents

-----------------------------------------------------------------------------
(* Type correctness.                                                       *)

LEMMA AppendEventType ==
    ASSUME NEW k, NEW doc \in Documents, TypeOK, AppendEvent(k, doc)
    PROVE  /\ log' \in Logs
           /\ status' \in {"absent", "queued", "running"} \cup TerminalStatuses
  BY DEF AppendEvent, TypeOK, Logs

LEMMA FinalizeTraceType ==
    ASSUME NEW t \in Traces, TypeOK, FinalizeTrace(t),
           \E k \in Seqs : /\ t.events[k].type \in TerminalEvents
                           /\ \A m \in Seqs : t.events[m].type \in TerminalEvents => m <= k
    PROVE  /\ trace' \in Traces
           /\ status' \in {"absent", "queued", "running"} \cup TerminalStatuses
           /\ outbox' \subseteq [to : Subscriptions, seq : Seqs, type : TerminalEvents,
                                 status : TerminalStatuses]
  <1> DEFINE k == LastTerminal(t.events)
             rows == [to : Subscriptions, seq : Seqs, type : TerminalEvents,
                      status : TerminalStatuses]
  <1>1. k \in Seqs /\ t.events[k].type \in TerminalEvents
    BY DEF LastTerminal
  <1>2. \A s \in Listening :
           [to |-> s, seq |-> k, type |-> t.events[k].type, status |-> t.status] \in rows
    BY <1>1 DEF Traces, Listening
  <1>3. Deliveries(t, Listening) \subseteq rows
    BY <1>2 DEF Deliveries
  <1>4. QED
    BY <1>3 DEF FinalizeTrace, TypeOK, Traces

-----------------------------------------------------------------------------
(* Steps that leave the rows and the attempts alone.                       *)

LEMMA InitEstablishes == Init => IInv
  <1> SUFFICES ASSUME Init PROVE IInv
    OBVIOUS
  <1>1. EmptyLog \in Logs
    BY DEF EmptyLog, Logs
  <1>2. TypeOK
    <2>1. worker \in [Attempts -> AttemptStates]
      BY <1>1 DEF Init, Idle, Attempt, KernelLen, AttemptStates
    <2>2. act \in [Activities -> ActivityStates]
      BY DEF Init, ActivityStates
    <2>3. api \in [Requests -> {"idle", "start", "startFailed", "mark", "done"}]
      BY DEF Init
    <2>4. QED
      BY <1>1, <2>1, <2>2, <2>3 DEF Init, TypeOK
  <1>3. LogContiguous /\ StatusAgreesWithTrace /\ OutboxOfTrace
    BY DEF Init, LogContiguous, StatusAgreesWithTrace, OutboxOfTrace, EmptyLog,
           TerminalStatuses
  <1>4. ToolResultOnce
    <2>1. log[6] # KernelDoc(6)
      BY KernelDocFacts DEF Init, EmptyLog, Seqs, KernelLen
    <2>2. QED
      BY <2>1 DEF Init, ToolResultOnce
  <1>5. AttemptsProgress
    BY DEF Init, AttemptsProgress, KernelAttempt, FinalizerAttempt, Attempts, Exec, Idle, Attempt
  <1>6. OneFinalizer
    BY DEF Init, OneFinalizer, Attempts, FinalStatuses, Activities, EmptyLog, Seqs,
           KernelLen, Idle, Attempt
  <1>7. QED
    BY <1>2, <1>3, <1>4, <1>5, <1>6 DEF IInv

\* Steps of the API, the canceller and the workflow that write neither the
\* rows of the run nor an attempt.
LEMMA QuietSteps ==
    ASSUME IInv,
           \/ \E r \in Requests : StartRun(r) \/ StartRejected(r) \/ StartLost(r)
                                    \/ MarkDurable(r)
           \/ CancelStep \/ CancelRpcFails
           \/ WebhookStep
           \/ WorkflowStep
           \/ UNCHANGED vars
    PROVE  IInv'
  <1>1. UNCHANGED <<status, log, trace, tool, outbox, worker>>
    BY DEF StartRun, StartRejected, StartLost, MarkDurable, CancelStep, RequestCancel,
           Describe, SignalCancel, CancelRpcFails, WorkflowStep, WorkflowBegins,
           ExecutionDone, CancelExecution, FinalizerDone, WebhookStep, Subscribe,
           Revoke, SetSubscription, vars, store, columns
  <1>2. TypeOK'
    <2> USE DEF IInv, TypeOK, store, columns, temporal, vars
    <2>1. CASE \E r \in Requests : StartRun(r) \/ StartRejected(r) \/ StartLost(r)
                                    \/ MarkDurable(r)
      BY <2>1 DEF StartRun, StartRejected, StartLost, MarkDurable
    <2>2. CASE CancelStep \/ CancelRpcFails
      BY <2>2 DEF CancelStep, RequestCancel, Describe, SignalCancel, CancelRpcFails
    <2>9. CASE WebhookStep
      BY <2>9 DEF WebhookStep, Subscribe, Revoke, SetSubscription
    <2>3. CASE WorkflowBegins
      BY <2>3 DEF WorkflowBegins, Schedule, ActivityStates
    <2>4. CASE ExecutionDone
      <3>1. \/ act' = act
            \/ act' = [act EXCEPT !["failed"] = [no |-> 0, state |-> "pending"]]
        BY <2>4 DEF ExecutionDone, Schedule
      <3>2. act' \in [Activities -> ActivityStates]
        BY <3>1 DEF ActivityStates
      <3>3. QED
        BY <3>2, <2>4 DEF ExecutionDone, Closed
    <2>8. CASE CancelExecution
      BY <2>8 DEF CancelExecution, ActivityStates
    <2>5. CASE FinalizerDone
      BY <2>5 DEF FinalizerDone
    <2>6. CASE UNCHANGED vars
      BY <2>6
    <2>7. QED
      BY <2>1, <2>2, <2>9, <2>3, <2>4, <2>8, <2>5, <2>6 DEF WorkflowStep
  <1>3. OneFinalizer'
    <2> USE DEF IInv, TypeOK, ActivityStates, OneFinalizer, store, columns, temporal, vars, FinalStatuses,
                Activities, Closed
    <2>1. CASE \E r \in Requests : StartRun(r) \/ StartRejected(r) \/ StartLost(r)
                                    \/ MarkDurable(r)
      BY <1>1, <2>1 DEF StartRun, StartRejected, StartLost, MarkDurable
    <2>2. CASE CancelStep \/ CancelRpcFails
      BY <1>1, <2>2 DEF CancelStep, RequestCancel, Describe, SignalCancel, CancelRpcFails
    <2>9. CASE WebhookStep
      BY <1>1, <2>9 DEF WebhookStep, Subscribe, Revoke, SetSubscription
    <2>3. CASE WorkflowBegins
      BY <1>1, <2>3 DEF WorkflowBegins, Schedule
    <2>4. CASE ExecutionDone
      BY <1>1, <2>4 DEF ExecutionDone, Schedule
    <2>8. CASE CancelExecution
      BY <1>1, <2>8 DEF CancelExecution
    <2>5. CASE FinalizerDone
      BY <1>1, <2>5 DEF FinalizerDone
    <2>6. CASE UNCHANGED vars
      BY <1>1, <2>6
    <2>7. QED
      BY <2>1, <2>2, <2>9, <2>3, <2>4, <2>8, <2>5, <2>6 DEF WorkflowStep
  <1>4. (LogContiguous /\ StatusAgreesWithTrace /\ ToolResultOnce /\ OutboxOfTrace)'
    BY <1>1 DEF IInv, LogContiguous, StatusAgreesWithTrace, ToolResultOnce, OutboxOfTrace
  <1>5. AttemptsProgress'
    BY <1>1 DEF IInv, AttemptsProgress, KernelAttempt, FinalizerAttempt
  <1>6. QED
    BY <1>2, <1>3, <1>4, <1>5 DEF IInv

-----------------------------------------------------------------------------
(* A log that only grows keeps what the attempts rely on.                  *)

Grows == \A m \in Seqs : log[m] # NoEvent => log'[m] = log[m]

LEMMA PrefixStable ==
    ASSUME LogContiguous, Grows, NEW m \in Seqs, log[m] # NoEvent
    PROVE  UpTo(log', m) = UpTo(log, m)
  <1>1. ASSUME NEW j \in Seqs, j <= m PROVE log'[j] = log[j]
    BY <1>1 DEF LogContiguous, Grows, Seqs, KernelLen
  <1>2. QED
    BY <1>1 DEF UpTo

\* An attempt that takes no step keeps its part of the invariant.
LEMMA OthersKeep ==
    ASSUME IInv, Grows, tool' = tool \/ tool' = 1
    PROVE  /\ \A n \in 1 .. ExecuteAttempts :
                 worker'[Exec(n)] = worker[Exec(n)] => KernelAttempt(n)'
           /\ \A s \in FinalStatuses : \A n \in 1 .. FinalizeAttempts :
                 worker'[<<s, n>>] = worker[<<s, n>>] => FinalizerAttempt(s, n)'
  <1>1. ASSUME NEW n \in 1 .. ExecuteAttempts, worker'[Exec(n)] = worker[Exec(n)]
        PROVE  KernelAttempt(n)'
    <2> DEFINE w == worker[Exec(n)]
    <2>1. KernelAttempt(n)
      BY DEF IInv, AttemptsProgress
    <2>2. w.pc \in {"append", "tool", "save"} =>
             \A k \in Seqs : k < w.seq => log'[k] = KernelDoc(k)
      <3> SUFFICES ASSUME w.pc \in {"append", "tool", "save"},
                          NEW k \in Seqs, k < w.seq
                   PROVE  log'[k] = KernelDoc(k)
        OBVIOUS
      <3>1. w.seq \in 1 .. KernelLen + 1
        BY <2>1 DEF KernelAttempt, KernelLen
      <3>2. k \in 1 .. KernelLen
        BY <3>1 DEF Seqs, KernelLen
      <3>3. log[k] = KernelDoc(k)
        BY <2>1 DEF KernelAttempt
      <3>4. QED
        BY <3>2, <3>3, KernelDocFacts DEF Grows
    <2>3. QED
      BY <1>1, <2>1, <2>2 DEF KernelAttempt
  <1>2. ASSUME NEW s \in FinalStatuses, NEW n \in 1 .. FinalizeAttempts,
               worker'[<<s, n>>] = worker[<<s, n>>]
        PROVE  FinalizerAttempt(s, n)'
    <2> DEFINE w == worker[<<s, n>>]
    <2>1. FinalizerAttempt(s, n)
      BY DEF IInv, AttemptsProgress
    <2>2. ASSUME w.pc \in {"end", "save"}
          PROVE  /\ w.seq \in Seqs
                 /\ log'[w.seq] = log[w.seq]
                 /\ log'[w.seq] # NoEvent
                 /\ w.seen = UpTo(log', w.seq)
      <3>1. w.seq \in Seqs /\ log[w.seq] # NoEvent /\ w.seen = UpTo(log, w.seq)
        BY <2>1, <2>2 DEF FinalizerAttempt, Seqs, KernelLen
      <3>2. UpTo(log', w.seq) = UpTo(log, w.seq)
        BY <3>1, PrefixStable DEF IInv
      <3>3. QED
        BY <3>1, <3>2 DEF Grows
    <2>3. QED
      BY <1>2, <2>1, <2>2 DEF FinalizerAttempt
  <1>3. QED
    BY <1>1, <1>2

-----------------------------------------------------------------------------
(* What the two kinds of transaction do to the rows.                       *)

\* The part of TypeOK about the rows of the run.
RowsTyped ==
    /\ status \in {"absent", "queued", "running"} \cup TerminalStatuses
    /\ log \in Logs
    /\ trace \in Traces \cup {NoTrace}
    /\ tool \in Nat
    /\ outbox \subseteq [to : Subscriptions, seq : Seqs, type : TerminalEvents,
                        status : TerminalStatuses]

LEMMA NoTerminalIsNone ==
    \A s \in TerminalStatuses : TerminalType(s) # NoEvent.type
  BY DEF TerminalStatuses, TerminalType, NoEvent

\* An append at the first free sequence, or of an event that is already there.
LEMMA AppendKeeps ==
    ASSUME IInv, NEW k \in Seqs, NEW doc \in Documents, AppendEvent(k, doc),
           \A j \in Seqs : j < k => log[j] # NoEvent,
           k = 6 => doc # KernelDoc(6) \/ tool = 1,
           UNCHANGED <<trace, tool, outbox>>
    PROVE  /\ Grows
           /\ log'[k] = doc
           /\ \A m \in Seqs : m # k => log'[m] = log[m]
           /\ RowsTyped'
           /\ LogContiguous'
           /\ StatusAgreesWithTrace'
           /\ ToolResultOnce'
           /\ OutboxOfTrace'
  <1>1. log \in Logs /\ doc # NoEvent
    BY TracesAreSomething DEF IInv, TypeOK
  <1>2. /\ log'[k] = doc
        /\ \A m \in Seqs : m # k => log'[m] = log[m]
    BY <1>1 DEF AppendEvent, Logs
  <1>3. Grows
    BY <1>1, <1>2 DEF Grows, AppendEvent, CanAppend
  <1>4. RowsTyped'
    BY AppendEventType DEF IInv, TypeOK, RowsTyped
  <1>5. LogContiguous'
    <2> SUFFICES ASSUME NEW j \in Seqs, NEW m \in Seqs, j < m, log'[m] # NoEvent
                 PROVE  log'[j] # NoEvent
      BY DEF LogContiguous
    <2>1. CASE m = k
      BY <2>1, <1>1, <1>2, <1>3 DEF Grows
    <2>2. CASE m # k
      BY <2>2, <1>1, <1>2, <1>3 DEF IInv, LogContiguous, Grows
    <2>3. QED
      BY <2>1, <2>2
  <1>6. StatusAgreesWithTrace'
    <2>1. (status' \in TerminalStatuses) <=> (status \in TerminalStatuses)
      BY DEF AppendEvent, TerminalStatuses
    <2>2. status \in TerminalStatuses => status' = status
      BY DEF AppendEvent, TerminalStatuses
    <2>3. ASSUME trace # NoTrace
          PROVE  \E m \in Seqs : /\ trace.events = UpTo(log', m)
                                 /\ log'[m].type = TerminalType(status)
      <3>1. PICK m \in Seqs : /\ trace.events = UpTo(log, m)
                              /\ log[m].type = TerminalType(status)
        BY <2>3 DEF IInv, StatusAgreesWithTrace
      <3>2. log[m] # NoEvent
        BY <2>3, <3>1, NoTerminalIsNone DEF IInv, StatusAgreesWithTrace
      <3>3. UpTo(log', m) = UpTo(log, m) /\ log'[m] = log[m]
        BY <3>2, <1>3, PrefixStable DEF IInv, Grows
      <3>4. QED
        BY <3>1, <3>3
    <2>4. QED
      BY <2>1, <2>2, <2>3 DEF IInv, StatusAgreesWithTrace
  <1>7. ToolResultOnce'
    <2>1. 5 \in Seqs /\ 6 \in Seqs
      BY DEF Seqs, KernelLen
    <2>2. tool = 1 => log'[5] = KernelDoc(5)
      BY <2>1, <1>3, KernelDocFacts DEF IInv, ToolResultOnce, Grows, KernelLen
    <2>3. log'[6] = KernelDoc(6) => tool = 1
      BY <2>1, <1>2 DEF IInv, ToolResultOnce
    <2>4. QED
      BY <2>2, <2>3 DEF IInv, ToolResultOnce
  <1>8. OutboxOfTrace'
    BY DEF IInv, OutboxOfTrace
  <1>9. QED
    BY <1>2, <1>3, <1>4, <1>5, <1>6, <1>7, <1>8

\* A trace that is a prefix of the (new) log and ends in the event of its
\* status has this event as its last terminal one.
LEMMA LastTerminalOfPrefix ==
    ASSUME NEW events, NEW k \in Seqs, NEW L, events = UpTo(L, k),
           L[k].type \in TerminalEvents
    PROVE  LastTerminal(events) = k /\ events[k] = L[k]
  <1>1. events[k] = L[k] /\ \A m \in Seqs : m > k => events[m] = NoEvent
    BY DEF UpTo, Seqs, KernelLen
  <1>2. \A m \in Seqs : events[m].type \in TerminalEvents => m <= k
    BY <1>1 DEF NoEvent, TerminalEvents, Seqs, KernelLen
  <1>3. \A m \in Seqs :
           /\ events[m].type \in TerminalEvents
           /\ \A j \in Seqs : events[j].type \in TerminalEvents => j <= m
           => m = k
    BY <1>1, <1>2 DEF Seqs, KernelLen
  <1>4. QED
    BY <1>1, <1>2, <1>3 DEF LastTerminal

\* finalize_trace, with a trace of what is in the log.
LEMMA FinalizeKeeps ==
    ASSUME IInv, NEW t \in Traces, FinalizeTrace(t), Grows, log' \in Logs,
           NEW k \in Seqs, t.events = UpTo(log', k),
           log'[k].type = TerminalType(t.status), UNCHANGED tool
    PROVE  /\ RowsTyped'
           /\ StatusAgreesWithTrace'
           /\ OutboxOfTrace'
  <1>1. t.status \in TerminalStatuses /\ t # NoTrace
    BY TracesAreSomething DEF Traces
  <1>2. log'[k].type \in TerminalEvents
    BY <1>1, TerminalTypeFacts
  <1>3. LastTerminal(t.events) = k /\ t.events[k] = log'[k]
    BY <1>2, LastTerminalOfPrefix
  <1>4. RowsTyped'
    <2>1. /\ t.events[k].type \in TerminalEvents
          /\ \A m \in Seqs : t.events[m].type \in TerminalEvents => m <= k
      BY <1>2, <1>3 DEF UpTo, NoEvent, TerminalEvents, Seqs, KernelLen
    <2>2. QED
      BY <2>1, FinalizeTraceType DEF IInv, TypeOK, RowsTyped
  <1>5. trace' = t /\ status' = t.status
    BY <1>1 DEF FinalizeTrace, CanFinalize, IInv, StatusAgreesWithTrace
  <1>6. StatusAgreesWithTrace'
    BY <1>1, <1>5 DEF StatusAgreesWithTrace
  <1>7. OutboxOfTrace'
    <2>1. Deliveries(t, Listening) \subseteq Deliveries(t, Subscriptions)
      BY DEF Deliveries, Listening
    <2>2. outbox \subseteq Deliveries(t, Subscriptions)
      BY <1>1 DEF FinalizeTrace, CanFinalize, IInv, OutboxOfTrace
    <2>3. QED
      BY <1>1, <1>5, <2>1, <2>2 DEF FinalizeTrace, OutboxOfTrace
  <1>8. QED
    BY <1>4, <1>6, <1>7

-----------------------------------------------------------------------------
(* The control part of the invariant.                                      *)

ControlTyped ==
    /\ durable \in BOOLEAN
    /\ cancelFlag \in BOOLEAN
    /\ sub \in [Subscriptions -> {"none", "active", "revoked"}]
    /\ api \in [Requests -> {"idle", "start", "startFailed", "mark", "done"}]
    /\ canceller \in {"idle", "describe", "signal",
                      "requested", "not_found", "already_terminal"}
    /\ wf \in {"none", "started", "executing", "cancelling", "failing"} \cup Closed
    /\ signal \in BOOLEAN
    /\ act \in [Activities -> ActivityStates]
    /\ worker \in [Attempts -> AttemptStates]

LEMMA TypesTogether == (TypeOK <=> RowsTyped /\ ControlTyped)
                       /\ (TypeOK' <=> RowsTyped' /\ ControlTyped')
  BY DEF TypeOK, RowsTyped, ControlTyped

\* One attempt moves, the others keep their part of the invariant.
LEMMA OneMoves ==
    ASSUME IInv, NEW t \in Attempts, NEW x \in AttemptStates,
           worker' = [worker EXCEPT ![t] = x],
           Grows, tool' = tool \/ tool' = 1,
           \A n \in 1 .. ExecuteAttempts : t = Exec(n) => KernelAttempt(n)',
           \A s \in FinalStatuses : \A n \in 1 .. FinalizeAttempts :
              t = <<s, n>> => FinalizerAttempt(s, n)'
    PROVE  /\ worker' \in [Attempts -> AttemptStates]
           /\ AttemptsProgress'
           /\ worker'[t] = x
           /\ \A u \in Attempts : u # t => worker'[u] = worker[u]
  <1>1. worker \in [Attempts -> AttemptStates]
    BY DEF IInv, TypeOK
  <1>2. /\ worker' \in [Attempts -> AttemptStates]
        /\ worker'[t] = x
        /\ \A u \in Attempts : u # t => worker'[u] = worker[u]
    BY <1>1
  <1>3. ASSUME NEW n \in 1 .. ExecuteAttempts
        PROVE  KernelAttempt(n)'
    <2>1. Exec(n) \in Attempts
      BY DEF Exec, Attempts
    <2>2. CASE t = Exec(n)
      BY <2>2
    <2>3. CASE t # Exec(n)
      BY <2>1, <2>3, <1>2, OthersKeep
    <2>4. QED
      BY <2>2, <2>3
  <1>4. ASSUME NEW s \in FinalStatuses, NEW n \in 1 .. FinalizeAttempts
        PROVE  FinalizerAttempt(s, n)'
    <2>1. <<s, n>> \in Attempts
      BY DEF Attempts
    <2>2. CASE t = <<s, n>>
      BY <2>2
    <2>3. CASE t # <<s, n>>
      BY <2>1, <2>3, <1>2, OthersKeep
    <2>4. QED
      BY <2>2, <2>3
  <1>5. QED
    BY <1>2, <1>3, <1>4 DEF AttemptsProgress

LEMMA AttemptIsState ==
    \A pc \in {"idle", "append", "tool", "list", "begin", "end", "save", "report", "done"},
       seq \in 0 .. KernelLen + 1, seen \in Logs :
          /\ Attempt(pc, seq, seen) \in AttemptStates
          /\ Attempt(pc, seq, seen).pc = pc
          /\ Attempt(pc, seq, seen).seq = seq
          /\ Attempt(pc, seq, seen).seen = seen
  BY DEF Attempt, AttemptStates

LEMMA AttemptKinds ==
    /\ \A n \in 1 .. ExecuteAttempts : Exec(n) \in Attempts
    /\ \A s \in FinalStatuses : \A n \in 1 .. FinalizeAttempts : <<s, n>> \in Attempts
    /\ \A s \in FinalStatuses : \A n, m : Exec(n) # <<s, m>>
    /\ \A n, m : Exec(n) = Exec(m) => n = m
    /\ \A t \in Attempts : t[1] = "execute" =>
          t[2] \in 1 .. ExecuteAttempts /\ t = Exec(t[2])
    /\ \A t \in Attempts : t[1] \in FinalStatuses =>
          t[2] \in 1 .. FinalizeAttempts /\ t = <<t[1], t[2]>>
  BY DEF Attempts, Exec, FinalStatuses

\* An attempt that is over has nothing left to keep.
LEMMA QuietAttempt ==
    ASSUME NEW t \in Attempts, worker'[t].pc \in {"idle", "report", "done", "list"}
    PROVE  /\ \A n \in 1 .. ExecuteAttempts : t = Exec(n) => KernelAttempt(n)'
           /\ \A s \in FinalStatuses : \A n \in 1 .. FinalizeAttempts :
                 t = <<s, n>> => FinalizerAttempt(s, n)'
  BY DEF KernelAttempt, FinalizerAttempt

\* OneFinalizer survives a step that starts no activity and leaves the event
\* behind the kernel's last one alone.
LEMMA OneFinalizerKeeps ==
    ASSUME IInv, wf' = wf, act' \in [Activities -> ActivityStates],
           \A s \in FinalStatuses : act'[s].state = "idle" <=> act[s].state = "idle",
           NEW t \in Attempts, worker[t].pc # "idle",
           \A u \in Attempts : u # t => worker'[u] = worker[u],
           log'[KernelLen + 1] # NoEvent =>
              \/ log' [KernelLen + 1] = log[KernelLen + 1]
              \/ \E s \in FinalStatuses :
                    act[s].state # "idle" /\ log'[KernelLen + 1].type = TerminalType(s)
    PROVE  OneFinalizer'
  BY AttemptKinds DEF IInv, OneFinalizer

-----------------------------------------------------------------------------
(* The steps of the server's attempts.                                     *)

LEMMA RowsUnchanged ==
    ASSUME IInv, UNCHANGED <<status, log, trace, tool, outbox>>
    PROVE  /\ Grows
           /\ RowsTyped'
           /\ LogContiguous'
           /\ StatusAgreesWithTrace'
           /\ ToolResultOnce'
           /\ OutboxOfTrace'
  BY DEF IInv, Grows, TypeOK, RowsTyped, LogContiguous, StatusAgreesWithTrace,
         ToolResultOnce, OutboxOfTrace

LEMMA GiveUpFacts ==
    ASSUME IInv, NEW t \in Attempts
    PROVE  /\ GiveUp(t) \in [Activities -> ActivityStates]
           /\ \A a \in Activities : GiveUp(t)[a].state = "idle" <=> act[a].state = "idle"
  <1>1. t[1] \in Activities
    BY DEF Attempts, Activities
  <1>2. act \in [Activities -> ActivityStates]
    BY DEF IInv, TypeOK
  <1>3. CASE IsCurrent(t)
    BY <1>1, <1>2, <1>3 DEF GiveUp, IsCurrent, ActivityStates
  <1>4. CASE ~IsCurrent(t)
    BY <1>2, <1>4 DEF GiveUp
  <1>5. QED
    BY <1>3, <1>4

LEMMA StartAttemptStep ==
    ASSUME IInv, NEW a \in Activities, StartAttempt(a)
    PROVE  IInv'
  <1> DEFINE n == act[a].no + 1
             t == <<a, n>>
             x == IF a = "execute" THEN Attempt("append", 1, EmptyLog)
                                   ELSE Attempt("list", 0, EmptyLog)
  <1>1. UNCHANGED <<status, log, trace, tool, outbox>>
    BY DEF StartAttempt, store
  <1>2. /\ Grows /\ RowsTyped' /\ LogContiguous' /\ StatusAgreesWithTrace'
        /\ ToolResultOnce' /\ OutboxOfTrace'
    BY <1>1, RowsUnchanged
  <1>3. EmptyLog \in Logs
    BY DEF EmptyLog, Logs
  <1>4. x \in AttemptStates
    BY <1>3 DEF Attempt, AttemptStates, KernelLen
  <1>5. worker' = [worker EXCEPT ![t] = x]
    BY DEF StartAttempt
  <1>6. act' \in [Activities -> ActivityStates] /\ act'[a].state = "started"
        /\ \A b \in Activities : b # a => act'[b] = act[b]
    BY DEF StartAttempt, IInv, TypeOK, ActivityStates
  <1>7. worker' \in [Attempts -> AttemptStates] /\ AttemptsProgress'
        /\ \A u \in Attempts : u # t => worker'[u] = worker[u]
    <2>1. CASE t \in Attempts
      <3>1. worker'[t] = x
        BY <1>5, <2>1 DEF IInv, TypeOK
      <3>2. ASSUME NEW m \in 1 .. ExecuteAttempts, t = Exec(m) PROVE KernelAttempt(m)'
        <4>1. worker'[Exec(m)] = Attempt("append", 1, EmptyLog)
          BY <3>1, <3>2 DEF Exec
        <4>2. QED
          BY <4>1 DEF KernelAttempt, Attempt, KernelLen, Seqs
      <3>3. ASSUME NEW s \in FinalStatuses, NEW m \in 1 .. FinalizeAttempts, t = <<s, m>>
            PROVE  FinalizerAttempt(s, m)'
        <4>1. worker'[<<s, m>>] = Attempt("list", 0, EmptyLog)
          BY <3>1, <3>3 DEF FinalStatuses
        <4>2. QED
          BY <4>1 DEF FinalizerAttempt, Attempt
      <3>4. QED
        BY <1>1, <1>2, <1>4, <1>5, <2>1, <3>2, <3>3, OneMoves
    <2>2. CASE t \notin Attempts
      <3>1. worker' = worker
        BY <1>5, <2>2 DEF IInv, TypeOK
      <3>2. QED
        BY <1>1, <3>1 DEF IInv, TypeOK, AttemptsProgress, KernelAttempt, FinalizerAttempt
    <2>3. QED
      BY <2>1, <2>2
  <1>8. OneFinalizer'
    <2>1. act[a].state = "pending"
      BY DEF StartAttempt
    <2>2. \A b \in Activities : act'[b].state = "idle" <=> act[b].state = "idle"
      BY <1>6, <2>1
    <2>3. FinalStatuses \subseteq Activities
      BY DEF Activities
    <2>4. ASSUME NEW s \in FinalStatuses, NEW m \in 1 .. FinalizeAttempts,
                 worker'[<<s, m>>].pc # "idle"
          PROVE  act'[s].state # "idle"
      <3>1. <<s, m>> \in Attempts
        BY AttemptKinds
      <3>2. CASE <<s, m>> = t
        BY <3>2, <1>6
      <3>3. CASE <<s, m>> # t
        BY <3>1, <3>3, <1>7, <2>2, <2>3, <2>4 DEF IInv, OneFinalizer
      <3>4. QED
        BY <3>2, <3>3
    <2>5. wf' = wf
      BY DEF StartAttempt
    <2>6. QED
      BY <1>1, <2>2, <2>3, <2>4, <2>5 DEF IInv, OneFinalizer
  <1>9. ControlTyped'
    BY <1>6, <1>7 DEF StartAttempt, IInv, TypeOK, ControlTyped, columns
  <1>10. QED
    BY <1>2, <1>7, <1>8, <1>9, TypesTogether DEF IInv

LEMMA EndAttemptStep ==
    ASSUME IInv, NEW t \in Attempts, worker[t].pc # "idle", EndAttempt(t)
    PROVE  IInv'
  <1>1. UNCHANGED <<status, log, trace, tool, outbox, wf>>
    BY DEF EndAttempt, store
  <1>2. /\ Grows /\ RowsTyped' /\ LogContiguous' /\ StatusAgreesWithTrace'
        /\ ToolResultOnce' /\ OutboxOfTrace'
    BY <1>1, RowsUnchanged
  <1>3. Done \in AttemptStates
    BY DEF Done, Attempt, AttemptStates, EmptyLog, Logs, KernelLen
  <1>4. worker' = [worker EXCEPT ![t] = Done] /\ act' = GiveUp(t)
    BY DEF EndAttempt
  <1>5. worker'[t].pc = "done"
    BY <1>4 DEF Done, Attempt, IInv, TypeOK
  <1>6. /\ worker' \in [Attempts -> AttemptStates] /\ AttemptsProgress'
        /\ \A u \in Attempts : u # t => worker'[u] = worker[u]
    BY <1>1, <1>2, <1>3, <1>4, <1>5, QuietAttempt, OneMoves
  <1>7. act' \in [Activities -> ActivityStates]
        /\ \A s \in FinalStatuses : act'[s].state = "idle" <=> act[s].state = "idle"
    BY <1>4, GiveUpFacts DEF Activities
  <1>8. OneFinalizer'
    BY <1>1, <1>6, <1>7, OneFinalizerKeeps
  <1>9. ControlTyped'
    BY <1>6, <1>7 DEF EndAttempt, IInv, TypeOK, ControlTyped, columns
  <1>10. QED
    BY <1>2, <1>6, <1>8, <1>9, TypesTogether DEF IInv

LEMMA AttemptReportsStep ==
    ASSUME IInv, NEW t \in Attempts, AttemptReports(t)
    PROVE  IInv'
  <1>1. UNCHANGED <<status, log, trace, tool, outbox, wf>> /\ worker[t].pc = "report"
    BY DEF AttemptReports, store
  <1>2. /\ Grows /\ RowsTyped' /\ LogContiguous' /\ StatusAgreesWithTrace'
        /\ ToolResultOnce' /\ OutboxOfTrace'
    BY <1>1, RowsUnchanged
  <1>3. Done \in AttemptStates
    BY DEF Done, Attempt, AttemptStates, EmptyLog, Logs, KernelLen
  <1>4. worker' = [worker EXCEPT ![t] = Done]
    BY DEF AttemptReports
  <1>5. worker'[t].pc = "done"
    BY <1>4 DEF Done, Attempt, IInv, TypeOK
  <1>6. /\ worker' \in [Attempts -> AttemptStates] /\ AttemptsProgress'
        /\ \A u \in Attempts : u # t => worker'[u] = worker[u]
    BY <1>1, <1>2, <1>3, <1>4, <1>5, QuietAttempt, OneMoves
  <1>7. act' \in [Activities -> ActivityStates]
        /\ \A s \in FinalStatuses : act'[s].state = "idle" <=> act[s].state = "idle"
    <2>1. t[1] \in Activities /\ act[t[1]].state = "started"
      BY DEF AttemptReports, IsCurrent, Attempts, Activities
    <2>2. QED
      BY <2>1 DEF AttemptReports, IInv, TypeOK, ActivityStates, Activities
  <1>8. OneFinalizer'
    BY <1>1, <1>6, <1>7, OneFinalizerKeeps
  <1>9. ControlTyped'
    BY <1>6, <1>7 DEF AttemptReports, IInv, TypeOK, ControlTyped, columns
  <1>10. QED
    BY <1>2, <1>6, <1>8, <1>9, TypesTogether DEF IInv

\* The server gives up on an attempt whose code goes on.
LEMMA AttemptLostStep ==
    ASSUME IInv, NEW t \in Attempts, AttemptLost(t)
    PROVE  IInv'
  <1>1. UNCHANGED <<status, log, trace, tool, outbox, wf, worker>>
    BY DEF AttemptLost, store
  <1>2. /\ Grows /\ RowsTyped' /\ LogContiguous' /\ StatusAgreesWithTrace'
        /\ ToolResultOnce' /\ OutboxOfTrace'
    BY <1>1, RowsUnchanged
  <1>3. act' \in [Activities -> ActivityStates]
        /\ \A s \in FinalStatuses : act'[s].state = "idle" <=> act[s].state = "idle"
    BY GiveUpFacts DEF AttemptLost, Activities
  <1>4. AttemptsProgress'
    BY <1>1 DEF IInv, AttemptsProgress, KernelAttempt, FinalizerAttempt
  <1>5. OneFinalizer'
    BY <1>1, <1>3 DEF IInv, OneFinalizer
  <1>6. ControlTyped'
    BY <1>1, <1>3 DEF AttemptLost, IInv, TypeOK, ControlTyped, columns
  <1>7. QED
    BY <1>2, <1>4, <1>5, <1>6, TypesTogether DEF IInv

-----------------------------------------------------------------------------
(* The steps of the API that write the rows.                               *)

LEMMA CreateIdempotentStep ==
    ASSUME IInv, NEW r \in Requests, CreateIdempotent(r)
    PROVE  IInv'
  <1>1. UNCHANGED <<log, trace, tool, outbox, wf, signal, act, worker, durable,
                    cancelFlag, sub, canceller>>
    BY DEF CreateIdempotent, columns, temporal
  <1>2. status' = IF status = "absent" THEN "queued" ELSE status
    BY DEF CreateIdempotent
  <1>3. TypeOK'
    BY <1>1, <1>2 DEF CreateIdempotent, IInv, TypeOK
  <1>4. StatusAgreesWithTrace'
    BY <1>1, <1>2 DEF IInv, StatusAgreesWithTrace, TerminalStatuses
  <1>5. (LogContiguous /\ ToolResultOnce /\ OutboxOfTrace)'
    BY <1>1 DEF IInv, LogContiguous, ToolResultOnce, OutboxOfTrace
  <1>6. (AttemptsProgress /\ OneFinalizer)'
    BY <1>1 DEF IInv, AttemptsProgress, KernelAttempt, FinalizerAttempt, OneFinalizer
  <1>7. QED
    BY <1>3, <1>4, <1>5, <1>6 DEF IInv

LEMMA RecordStartFailureStep ==
    ASSUME IInv, NEW r \in Requests, RecordStartFailure(r)
    PROVE  IInv'
  <1> DEFINE t == StartFailureTrace(r)
  <1>1. UNCHANGED <<tool, wf, signal, act, worker, durable, cancelFlag, sub, canceller>>
    BY DEF RecordStartFailure, columns, temporal
  <1>2. ControlTyped'
    BY <1>1 DEF RecordStartFailure, IInv, TypeOK, ControlTyped
  <1>3. CASE UNCHANGED <<log, status, trace, outbox>>
    <2>1. /\ Grows /\ RowsTyped' /\ LogContiguous' /\ StatusAgreesWithTrace'
          /\ ToolResultOnce' /\ OutboxOfTrace'
      BY <1>1, <1>3, RowsUnchanged
    <2>2. (AttemptsProgress /\ OneFinalizer)'
      BY <1>1, <1>3 DEF IInv, AttemptsProgress, KernelAttempt, FinalizerAttempt, OneFinalizer
    <2>3. QED
      BY <1>2, <2>1, <2>2, TypesTogether DEF IInv
  <1>4. CASE /\ CanAppend(1, StartFailureLog(r)[1])
             /\ CanAppend(2, StartFailureLog(r)[2])
             /\ log' = [log EXCEPT ![1] = StartFailureLog(r)[1],
                                   ![2] = StartFailureLog(r)[2]]
             /\ FinalizeTrace(t)
    <2>1. log \in Logs /\ 1 \in Seqs /\ 2 \in Seqs
      BY DEF IInv, TypeOK, Seqs, KernelLen
    <2>2. /\ log' \in Logs
          /\ log'[1] = StartFailureLog(r)[1] /\ log'[2] = StartFailureLog(r)[2]
          /\ \A m \in Seqs : m # 1 /\ m # 2 => log'[m] = log[m]
      BY <1>4, <2>1, StartFailureFacts DEF Logs
    <2>3. Grows
      BY <1>4, <2>2 DEF Grows, CanAppend
    <2>4. t.events = UpTo(log', 2)
      BY <2>2 DEF StartFailureTrace, StartFailureLog, UpTo, Seqs, KernelLen
    <2>5. log'[2].type = TerminalType(t.status) /\ t \in Traces
      BY <2>2, StartFailureFacts
    <2>6. RowsTyped' /\ StatusAgreesWithTrace' /\ OutboxOfTrace'
      BY <1>1, <1>4, <2>1, <2>2, <2>3, <2>4, <2>5, FinalizeKeeps
    <2>7. LogContiguous'
      <3> SUFFICES ASSUME NEW j \in Seqs, NEW m \in Seqs, j < m, log'[m] # NoEvent
                   PROVE  log'[j] # NoEvent
        BY DEF LogContiguous
      <3>1. CASE j = 1 \/ j = 2
        BY <3>1, <2>2, StartFailureFacts
      <3>2. CASE j # 1 /\ j # 2
        BY <3>2, <2>2 DEF IInv, LogContiguous, Seqs, KernelLen
      <3>3. QED
        BY <3>1, <3>2
    <2>8. ToolResultOnce'
      BY <1>1, <2>2 DEF IInv, ToolResultOnce, Seqs, KernelLen
    <2>9. AttemptsProgress'
      BY <1>1, <2>3, OthersKeep DEF AttemptsProgress
    <2>10. OneFinalizer'
      BY <1>1, <2>2 DEF IInv, OneFinalizer, Seqs, KernelLen
    <2>11. QED
      BY <1>2, <2>6, <2>7, <2>8, <2>9, <2>10, TypesTogether DEF IInv
  <1>5. QED
    BY <1>3, <1>4 DEF RecordStartFailure

-----------------------------------------------------------------------------
(* The steps of execute_run.                                               *)

LEMMA EmitEventStep ==
    ASSUME IInv, NEW n \in 1 .. ExecuteAttempts, EmitEvent(n)
    PROVE  IInv'
  <1> DEFINE t == Exec(n)
             w == worker[t]
             k == w.seq
             pc == CASE KernelEvents[k] = "tool.requested" -> "tool"
                     [] k = KernelLen                      -> "save"
                     [] OTHER                              -> "append"
             x == Attempt(pc, k + 1, EmptyLog)
  <1>1. /\ w.pc = "append" /\ AppendEvent(k, KernelDoc(k))
        /\ worker' = [worker EXCEPT ![t] = x]
        /\ UNCHANGED <<trace, tool, outbox, api, canceller, wf, signal, act, durable,
                       cancelFlag, sub>>
    BY DEF EmitEvent, columns, temporal
  <1>2. KernelAttempt(n) /\ t \in Attempts
    BY AttemptKinds DEF IInv, AttemptsProgress
  <1>3. k \in 1 .. KernelLen /\ k \in Seqs
    BY <1>1, <1>2 DEF KernelAttempt, Seqs, KernelLen
  <1>4. \A j \in Seqs : j < k => log[j] = KernelDoc(j) /\ log[j] # NoEvent
    BY <1>1, <1>2, <1>3, KernelDocFacts DEF KernelAttempt, Seqs, KernelLen
  <1>5. k > 5 => tool = 1
    BY <1>1, <1>2 DEF KernelAttempt
  <1>6. /\ Grows /\ log'[k] = KernelDoc(k)
        /\ \A m \in Seqs : m # k => log'[m] = log[m]
        /\ RowsTyped' /\ LogContiguous' /\ StatusAgreesWithTrace'
        /\ ToolResultOnce' /\ OutboxOfTrace'
    BY <1>1, <1>3, <1>4, <1>5, KernelDocFacts, AppendKeeps
  <1>7. /\ k = 5 => pc = "tool"
        /\ k = KernelLen => pc = "save"
        /\ k # 5 /\ k # KernelLen => pc = "append"
    BY <1>3, KernelDocFacts DEF KernelLen
  <1>8. x \in AttemptStates /\ x.pc = pc /\ x.seq = k + 1
    <2>1. EmptyLog \in Logs
      BY DEF EmptyLog, Logs
    <2>2. pc \in {"append", "tool", "save"} /\ k + 1 \in 0 .. KernelLen + 1
      BY <1>3, <1>7 DEF KernelLen
    <2>3. QED
      BY <2>1, <2>2, AttemptIsState
  <1>9. worker'[t] = x
    BY <1>1, <1>2 DEF IInv, TypeOK
  <1>10. KernelAttempt(n)'
    <2>1. \A j \in Seqs : j < k + 1 => log'[j] = KernelDoc(j)
      BY <1>3, <1>4, <1>6 DEF Seqs, KernelLen
    <2>2. QED
      BY <1>1, <1>3, <1>5, <1>7, <1>8, <1>9, <2>1 DEF KernelAttempt, KernelLen
  <1>11. /\ worker' \in [Attempts -> AttemptStates] /\ AttemptsProgress'
         /\ \A u \in Attempts : u # t => worker'[u] = worker[u]
    <2>1. \A m \in 1 .. ExecuteAttempts : t = Exec(m) => KernelAttempt(m)'
      BY <1>10, AttemptKinds
    <2>2. \A s \in FinalStatuses : \A m \in 1 .. FinalizeAttempts :
             t = <<s, m>> => FinalizerAttempt(s, m)'
      BY AttemptKinds
    <2>3. QED
      BY <1>1, <1>2, <1>6, <1>8, <2>1, <2>2, OneMoves
  <1>12. OneFinalizer'
    <2>1. log'[KernelLen + 1] = log[KernelLen + 1]
      BY <1>3, <1>6 DEF Seqs, KernelLen
    <2>2. act' \in [Activities -> ActivityStates]
      BY <1>1 DEF IInv, TypeOK
    <2>3. QED
      BY <1>1, <1>2, <1>11, <2>1, <2>2, OneFinalizerKeeps
  <1>13. ControlTyped'
    BY <1>1, <1>11 DEF IInv, TypeOK, ControlTyped
  <1>14. QED
    BY <1>6, <1>11, <1>12, <1>13, TypesTogether DEF IInv

LEMMA InvokeToolStep ==
    ASSUME IInv, NEW n \in 1 .. ExecuteAttempts, InvokeTool(n)
    PROVE  IInv'
  <1> DEFINE t == Exec(n)
             w == worker[t]
             x == [w EXCEPT !.pc = "append"]
  <1>1. /\ w.pc = "tool" /\ tool' = IF tool = 0 THEN 1 ELSE tool
        /\ worker' = [worker EXCEPT ![t] = x]
        /\ UNCHANGED <<status, log, trace, outbox, api, canceller, wf, signal, act,
                       durable, cancelFlag, sub>>
    BY DEF InvokeTool, columns, temporal
  <1>2. KernelAttempt(n) /\ t \in Attempts /\ w \in AttemptStates
    BY AttemptKinds DEF IInv, AttemptsProgress, TypeOK
  <1>3. /\ w.seq = 6
        /\ \A k \in Seqs : k < 6 => log[k] = KernelDoc(k)
    BY <1>1, <1>2 DEF KernelAttempt
  <1>4. tool' = 1
    BY <1>1 DEF IInv, TypeOK, ToolResultOnce
  <1>5. Grows
    BY <1>1 DEF Grows
  <1>6. x \in AttemptStates /\ x.pc = "append" /\ x.seq = 6
    BY <1>2, <1>3 DEF AttemptStates
  <1>7. worker'[t] = x
    BY <1>1, <1>2 DEF IInv, TypeOK
  <1>8. KernelAttempt(n)'
    BY <1>1, <1>3, <1>4, <1>6, <1>7 DEF KernelAttempt, KernelLen
  <1>9. /\ worker' \in [Attempts -> AttemptStates] /\ AttemptsProgress'
        /\ \A u \in Attempts : u # t => worker'[u] = worker[u]
    <2>1. \A m \in 1 .. ExecuteAttempts : t = Exec(m) => KernelAttempt(m)'
      BY <1>8, AttemptKinds
    <2>2. \A s \in FinalStatuses : \A m \in 1 .. FinalizeAttempts :
             t = <<s, m>> => FinalizerAttempt(s, m)'
      BY AttemptKinds
    <2>3. QED
      BY <1>1, <1>2, <1>4, <1>5, <1>6, <2>1, <2>2, OneMoves
  <1>10. OneFinalizer'
    <2>1. act' \in [Activities -> ActivityStates]
      BY <1>1 DEF IInv, TypeOK
    <2>2. QED
      BY <1>1, <1>2, <1>9, <2>1, OneFinalizerKeeps
  <1>11. ToolResultOnce'
    BY <1>1, <1>3, <1>4 DEF ToolResultOnce, Seqs, KernelLen
  <1>12. (LogContiguous /\ StatusAgreesWithTrace /\ OutboxOfTrace)'
    BY <1>1 DEF IInv, LogContiguous, StatusAgreesWithTrace, OutboxOfTrace
  <1>13. TypeOK'
    BY <1>1, <1>4, <1>9 DEF IInv, TypeOK
  <1>14. QED
    BY <1>9, <1>10, <1>11, <1>12, <1>13 DEF IInv

\* The common part of SaveTrace and FinalizeRun: the attempt has stored a
\* trace of what is in the log, and will report.
LEMMA StoreTraceStep ==
    ASSUME IInv, NEW t \in Attempts, worker[t].pc = "save",
           NEW r \in Traces, FinalizeTrace(r),
           NEW k \in Seqs, r.events = UpTo(log, k), log[k].type = TerminalType(r.status),
           worker' = [worker EXCEPT ![t].pc = "report"],
           UNCHANGED <<log, tool, api, canceller, wf, signal, act, durable, cancelFlag,
                       sub>>
    PROVE  IInv'
  <1> DEFINE x == [worker[t] EXCEPT !.pc = "report"]
  <1>1. x \in AttemptStates /\ x.pc = "report"
    BY DEF IInv, TypeOK, AttemptStates
  <1>2. worker' = [worker EXCEPT ![t] = x] /\ worker'[t].pc = "report"
    BY <1>1 DEF IInv, TypeOK
  <1>3. Grows /\ log' \in Logs
    BY DEF Grows, IInv, TypeOK
  <1>4. RowsTyped' /\ StatusAgreesWithTrace' /\ OutboxOfTrace'
    BY <1>3, FinalizeKeeps
  <1>5. /\ worker' \in [Attempts -> AttemptStates] /\ AttemptsProgress'
        /\ \A u \in Attempts : u # t => worker'[u] = worker[u]
    <2>1. /\ \A n \in 1 .. ExecuteAttempts : t = Exec(n) => KernelAttempt(n)'
          /\ \A s \in FinalStatuses : \A n \in 1 .. FinalizeAttempts :
                t = <<s, n>> => FinalizerAttempt(s, n)'
      BY <1>2, QuietAttempt
    <2>2. QED
      BY <1>1, <1>2, <1>3, <2>1, OneMoves
  <1>6. OneFinalizer'
    <2>1. act' \in [Activities -> ActivityStates]
      BY DEF IInv, TypeOK
    <2>2. QED
      BY <1>5, <2>1, OneFinalizerKeeps
  <1>7. LogContiguous' /\ ToolResultOnce'
    BY DEF IInv, LogContiguous, ToolResultOnce
  <1>8. ControlTyped'
    BY <1>5 DEF IInv, TypeOK, ControlTyped
  <1>9. QED
    BY <1>4, <1>5, <1>6, <1>7, <1>8, TypesTogether DEF IInv

LEMMA SaveTraceStep ==
    ASSUME IInv, NEW n \in 1 .. ExecuteAttempts, SaveTrace(n)
    PROVE  IInv'
  <1>1. KernelAttempt(n) /\ Exec(n) \in Attempts /\ worker[Exec(n)].pc = "save"
    BY AttemptKinds DEF IInv, AttemptsProgress, SaveTrace
  <1>2. \A k \in 1 .. KernelLen : log[k] = KernelDoc(k)
    BY <1>1 DEF KernelAttempt, Seqs, KernelLen
  <1>3. KernelTrace.events = UpTo(log, KernelLen)
    BY <1>2 DEF KernelTrace, UpTo, Seqs, KernelLen
  <1>4. KernelLen \in Seqs /\ log[KernelLen].type = TerminalType(KernelTrace.status)
    BY <1>2, KernelDocFacts DEF Seqs, KernelLen
  <1>5. QED
    BY <1>1, <1>3, <1>4, KernelDocFacts, StoreTraceStep DEF SaveTrace, columns, temporal

-----------------------------------------------------------------------------
(* The steps of _finalize_terminal_run.                                    *)

LEMMA ListEventsStep ==
    ASSUME IInv, NEW s \in FinalStatuses, NEW n \in 1 .. FinalizeAttempts,
           ListEvents(s, n)
    PROVE  IInv'
  <1> DEFINE t == <<s, n>>
  <1>1. /\ worker[t].pc = "list"
        /\ UNCHANGED <<status, log, trace, tool, outbox, api, canceller, wf, signal,
                       act, durable, cancelFlag,
                       sub>>
    BY DEF ListEvents, store, columns, temporal
  <1>2. PICK k \in 0 .. KernelLen + 1 :
           /\ IsLast(log, k)
           /\ worker' = [worker EXCEPT ![t] =
                           Attempt(IF k = 0 THEN "begin"
                                   ELSE IF log[k].type = TerminalType(s) THEN "save"
                                   ELSE "end",
                                   k, log)]
    BY DEF ListEvents
  <1> DEFINE pc == IF k = 0 THEN "begin"
                   ELSE IF log[k].type = TerminalType(s) THEN "save" ELSE "end"
             x == Attempt(pc, k, log)
  <1>3. log \in Logs /\ t \in Attempts
    BY AttemptKinds DEF IInv, TypeOK
  <1>4. x \in AttemptStates /\ x.pc = pc /\ x.seq = k /\ x.seen = log
    BY <1>3, AttemptIsState
  <1>5. worker'[t] = x
    BY <1>2, <1>3 DEF IInv, TypeOK
  <1>6. log = UpTo(log, k)
    BY <1>2, <1>3 DEF Logs, UpTo, IsLast, Seqs, KernelLen
  <1>7. k = 0 => log = EmptyLog
    BY <1>2, <1>3 DEF Logs, IsLast, EmptyLog, Seqs, KernelLen
  <1>8. k = KernelLen + 1 => log[k].type = TerminalType(s)
    <2>1. SUFFICES ASSUME k = KernelLen + 1 PROVE log[k].type = TerminalType(s)
      OBVIOUS
    <2>2. log[KernelLen + 1] # NoEvent
      BY <1>2, <2>1 DEF IsLast, KernelLen
    <2>3. PICK f \in FinalStatuses :
             act[f].state # "idle" /\ log[KernelLen + 1].type = TerminalType(f)
      BY <2>2 DEF IInv, OneFinalizer
    <2>4. act[s].state # "idle"
      BY <1>1 DEF IInv, OneFinalizer
    <2>5. f = s
      BY <2>3, <2>4 DEF IInv, OneFinalizer, FinalStatuses
    <2>6. QED
      BY <2>1, <2>3, <2>5
  <1>9. FinalizerAttempt(s, n)'
    <2>1. k # 0 => k \in Seqs /\ log[k] # NoEvent
      BY <1>2 DEF IsLast, Seqs, KernelLen
    <2>2. QED
      BY <1>1, <1>4, <1>5, <1>6, <1>7, <1>8, <2>1 DEF FinalizerAttempt, Seqs, KernelLen
  <1>10. /\ Grows /\ RowsTyped' /\ LogContiguous' /\ StatusAgreesWithTrace'
         /\ ToolResultOnce' /\ OutboxOfTrace'
    BY <1>1, RowsUnchanged
  <1>11. /\ worker' \in [Attempts -> AttemptStates] /\ AttemptsProgress'
         /\ \A u \in Attempts : u # t => worker'[u] = worker[u]
    <2>1. \A m \in 1 .. ExecuteAttempts : t = Exec(m) => KernelAttempt(m)'
      BY AttemptKinds
    <2>2. \A f \in FinalStatuses : \A m \in 1 .. FinalizeAttempts :
             t = <<f, m>> => FinalizerAttempt(f, m)'
      BY <1>9
    <2>3. QED
      BY <1>1, <1>2, <1>3, <1>4, <1>10, <2>1, <2>2, OneMoves
  <1>12. OneFinalizer'
    <2>1. act' \in [Activities -> ActivityStates]
      BY <1>1 DEF IInv, TypeOK
    <2>2. QED
      BY <1>1, <1>3, <1>11, <2>1, OneFinalizerKeeps
  <1>13. ControlTyped'
    BY <1>1, <1>11 DEF IInv, TypeOK, ControlTyped
  <1>14. QED
    BY <1>10, <1>11, <1>12, <1>13, TypesTogether DEF IInv

\* The two appends of a finalizer, at the first free sequence k.
LEMMA FinalizerAppendsStep ==
    ASSUME IInv, NEW s \in FinalStatuses, NEW n \in 1 .. FinalizeAttempts,
           NEW k \in Seqs, NEW doc \in Documents, NEW next \in {"end", "save"},
           FinalizerAppends(<<s, n>>, k, doc, next),
           worker[<<s, n>>].pc # "idle",
           worker[<<s, n>>].seen = UpTo(log, k - 1),
           \A j \in Seqs : j < k => log[j] # NoEvent,
           doc # KernelDoc(6),
           next = "end" => k \in 1 .. KernelLen,
           next = "save" => doc.type = TerminalType(s),
           k = KernelLen + 1 => doc.type = TerminalType(s)
    PROVE  IInv'
  <1> DEFINE t == <<s, n>>
             w == worker[t]
             x == Attempt(next, k, [w.seen EXCEPT ![k] = doc])
  <1>1. /\ AppendEvent(k, doc)
        /\ worker' = [worker EXCEPT ![t] = x]
        /\ UNCHANGED <<trace, tool, outbox, api, canceller, wf, signal, act, durable,
                       cancelFlag, sub>>
    BY DEF FinalizerAppends, columns, temporal
  <1>2. /\ Grows /\ log'[k] = doc
        /\ \A m \in Seqs : m # k => log'[m] = log[m]
        /\ RowsTyped' /\ LogContiguous' /\ StatusAgreesWithTrace'
        /\ ToolResultOnce' /\ OutboxOfTrace'
    BY <1>1, AppendKeeps
  <1>3. t \in Attempts /\ w \in AttemptStates
    BY AttemptKinds DEF IInv, TypeOK
  <1>4. [w.seen EXCEPT ![k] = doc] \in Logs
    BY <1>3 DEF AttemptStates, Logs
  <1>5. x \in AttemptStates /\ x.pc = next /\ x.seq = k
        /\ x.seen = [w.seen EXCEPT ![k] = doc]
    BY <1>4, AttemptIsState DEF Seqs, KernelLen
  <1>6. x.seen = UpTo(log', k)
    BY <1>2, <1>5 DEF UpTo, Seqs, KernelLen
  <1>7. worker'[t] = x
    BY <1>1, <1>3 DEF IInv, TypeOK
  <1>8. FinalizerAttempt(s, n)'
    BY <1>2, <1>5, <1>6, <1>7, TracesAreSomething DEF FinalizerAttempt
  <1>9. /\ worker' \in [Attempts -> AttemptStates] /\ AttemptsProgress'
        /\ \A u \in Attempts : u # t => worker'[u] = worker[u]
    <2>1. \A m \in 1 .. ExecuteAttempts : t = Exec(m) => KernelAttempt(m)'
      BY AttemptKinds
    <2>2. \A f \in FinalStatuses : \A m \in 1 .. FinalizeAttempts :
             t = <<f, m>> => FinalizerAttempt(f, m)'
      BY <1>8
    <2>3. QED
      BY <1>1, <1>2, <1>3, <1>5, <2>1, <2>2, OneMoves
  <1>10. OneFinalizer'
    <2>1. act' \in [Activities -> ActivityStates]
      BY <1>1 DEF IInv, TypeOK
    <2>2. act[s].state # "idle"
      BY DEF IInv, OneFinalizer
    <2>3. \/ log'[KernelLen + 1] = log[KernelLen + 1]
          \/ log'[KernelLen + 1].type = TerminalType(s)
      BY <1>2 DEF Seqs, KernelLen
    <2>4. QED
      BY <1>1, <1>3, <1>9, <2>1, <2>2, <2>3, OneFinalizerKeeps
  <1>11. ControlTyped'
    BY <1>1, <1>9 DEF IInv, TypeOK, ControlTyped
  <1>12. QED
    BY <1>2, <1>9, <1>10, <1>11, TypesTogether DEF IInv

LEMMA AppendStartedStep ==
    ASSUME IInv, NEW s \in FinalStatuses, NEW n \in 1 .. FinalizeAttempts,
           AppendStarted(s, n)
    PROVE  IInv'
  <1> DEFINE w == worker[<<s, n>>]
             doc == WorkerEvent("run.started")
  <1>1. FinalizerAttempt(s, n) /\ w.pc = "begin"
    BY DEF IInv, AttemptsProgress, AppendStarted
  <1>2. w.seen = UpTo(log, 1 - 1)
    BY <1>1 DEF FinalizerAttempt, EmptyLog, UpTo, Seqs, KernelLen
  <1>3. doc \in Documents /\ doc # KernelDoc(6)
    BY DEF WorkerEvent, Documents, EventTypes, Writers, KernelDoc, KernelEvents
  <1>4. 1 \in Seqs /\ \A j \in Seqs : ~(j < 1)
    BY DEF Seqs, KernelLen
  <1>5. QED
    BY <1>1, <1>2, <1>3, <1>4, FinalizerAppendsStep DEF AppendStarted, KernelLen

LEMMA AppendTerminalStep ==
    ASSUME IInv, NEW s \in FinalStatuses, NEW n \in 1 .. FinalizeAttempts,
           AppendTerminal(s, n)
    PROVE  IInv'
  <1> DEFINE w == worker[<<s, n>>]
             k == w.seq + 1
             doc == WorkerEvent(TerminalType(s))
  <1>1. FinalizerAttempt(s, n) /\ w.pc = "end"
    BY DEF IInv, AttemptsProgress, AppendTerminal
  <1>2. w.seq \in 1 .. KernelLen /\ k \in Seqs
    BY <1>1 DEF FinalizerAttempt, Seqs, KernelLen
  <1>3. w.seen = UpTo(log, k - 1)
    BY <1>1, <1>2 DEF FinalizerAttempt, KernelLen
  <1>4. \A j \in Seqs : j < k => log[j] # NoEvent
    BY <1>1, <1>2 DEF IInv, LogContiguous, FinalizerAttempt, Seqs, KernelLen
  <1>5. doc \in Documents /\ doc.type = TerminalType(s)
    BY TerminalTypeFacts DEF FinalStatuses, TerminalStatuses, WorkerEvent
  <1>6. doc # KernelDoc(6)
    BY DEF FinalStatuses, TerminalType, WorkerEvent, KernelDoc, KernelEvents
  <1>7. QED
    BY <1>1, <1>2, <1>3, <1>4, <1>5, <1>6, FinalizerAppendsStep DEF AppendTerminal

LEMMA FinalizeRunStep ==
    ASSUME IInv, NEW s \in FinalStatuses, NEW n \in 1 .. FinalizeAttempts,
           FinalizeRun(s, n)
    PROVE  IInv'
  <1> DEFINE w == worker[<<s, n>>]
             r == FinalTrace(s, n)
  <1>1. FinalizerAttempt(s, n) /\ w.pc = "save" /\ <<s, n>> \in Attempts
    BY AttemptKinds DEF IInv, AttemptsProgress, FinalizeRun
  <1>2. /\ w.seq \in Seqs /\ w.seen = UpTo(log, w.seq)
        /\ log[w.seq].type = TerminalType(s)
    BY <1>1 DEF FinalizerAttempt
  <1>3. w.seen \in Logs
    BY <1>1 DEF IInv, TypeOK, AttemptStates
  <1>4. r \in Traces /\ r.events = w.seen /\ r.status = s
    BY <1>3 DEF FinalTrace, Traces, FinalStatuses, TerminalStatuses, Writers
  <1>5. QED
    BY <1>1, <1>2, <1>4, StoreTraceStep DEF FinalizeRun, columns, temporal

-----------------------------------------------------------------------------
(* The inductive invariant.                                                *)

LEMMA AttemptSteps ==
    ASSUME IInv, NEW t \in Attempts, AttemptStep(t)
    PROVE  IInv'
  <1>1. CASE t[1] = "execute" /\ ExecuteRun(t[2])
    <2>1. t[2] \in 1 .. ExecuteAttempts /\ t = Exec(t[2])
      BY <1>1, AttemptKinds
    <2>2. CASE EmitEvent(t[2])
      BY <2>1, <2>2, EmitEventStep
    <2>3. CASE InvokeTool(t[2])
      BY <2>1, <2>3, InvokeToolStep
    <2>4. CASE SaveTrace(t[2])
      BY <2>1, <2>4, SaveTraceStep
    <2>5. CASE ExecConflicts(t[2])
      <3>1. worker[t].pc # "idle" /\ EndAttempt(t)
        BY <2>1, <2>5 DEF ExecConflicts
      <3>2. QED
        BY <3>1, EndAttemptStep
    <2>6. QED
      BY <1>1, <2>2, <2>3, <2>4, <2>5 DEF ExecuteRun
  <1>2. CASE t[1] \in FinalStatuses /\ FinalizeTerminalRun(t[1], t[2])
    <2>1. t[2] \in 1 .. FinalizeAttempts /\ t = <<t[1], t[2]>>
      BY <1>2, AttemptKinds
    <2>2. CASE ListEvents(t[1], t[2])
      BY <1>2, <2>1, <2>2, ListEventsStep
    <2>3. CASE AppendStarted(t[1], t[2])
      BY <1>2, <2>1, <2>3, AppendStartedStep
    <2>4. CASE AppendTerminal(t[1], t[2])
      BY <1>2, <2>1, <2>4, AppendTerminalStep
    <2>5. CASE FinalizeRun(t[1], t[2])
      BY <1>2, <2>1, <2>5, FinalizeRunStep
    <2>6. CASE FinalizerConflicts(t[1], t[2])
      <3>1. worker[t].pc # "idle" /\ EndAttempt(t)
        BY <2>1, <2>6 DEF FinalizerConflicts
      <3>2. QED
        BY <3>1, EndAttemptStep
    <2>7. QED
      BY <1>2, <2>2, <2>3, <2>4, <2>5, <2>6 DEF FinalizeTerminalRun
  <1>3. CASE AttemptReports(t)
    BY <1>3, AttemptReportsStep
  <1>4. QED
    BY <1>1, <1>2, <1>3 DEF AttemptStep

LEMMA NextPreserves == IInv /\ [Next]_vars => IInv'
  <1> SUFFICES ASSUME IInv, [Next]_vars PROVE IInv'
    OBVIOUS
  <1>1. CASE \E r \in Requests : ApiStep(r)
    BY <1>1, CreateIdempotentStep, RecordStartFailureStep, QuietSteps DEF ApiStep
  <1>2. CASE CancelStep \/ WorkflowStep \/ CancelRpcFails \/ WebhookStep \/ UNCHANGED vars
    BY <1>2, QuietSteps
  <1>3. CASE \E r \in Requests : StartLost(r)
    BY <1>3, QuietSteps
  <1>4. CASE \E a \in Activities : StartAttempt(a)
    BY <1>4, StartAttemptStep
  <1>5. CASE \E t \in Attempts : AttemptStep(t)
    BY <1>5, AttemptSteps
  <1>6. CASE \E t \in Attempts : AttemptLost(t)
    BY <1>6, AttemptLostStep
  <1>7. QED
    BY <1>1, <1>2, <1>3, <1>4, <1>5, <1>6 DEF Next, CalmNext, FaultNext, ServerStep

\* Every reachable state satisfies the inductive invariant.
THEOREM InductiveInvariant == Spec => []IInv
  <1>1. Init => IInv
    BY InitEstablishes
  <1>2. IInv /\ [Next]_vars => IInv'
    BY NextPreserves
  <1>3. QED
    BY <1>1, <1>2, PTL DEF Spec

\* Every variable keeps its type: in particular a delivery is always typed by
\* a terminal event, i.e. enqueue_terminal always finds one.
THEOREM TypeCorrect == Spec => []TypeOK
  <1>1. IInv => TypeOK
    BY DEF IInv
  <1>2. QED
    BY <1>1, InductiveInvariant, PTL

\* The event log of a run never has a hole.
THEOREM LogHasNoHole == Spec => []LogContiguous
  <1>1. IInv => LogContiguous
    BY DEF IInv
  <1>2. QED
    BY <1>1, InductiveInvariant, PTL

\* The status of a run and its trace agree, and the trace is a prefix of the
\* log that ends in the event of the status.
THEOREM OutcomeIsConsistent == Spec => []StatusAgreesWithTrace
  <1>1. IInv => StatusAgreesWithTrace
    BY DEF IInv
  <1>2. QED
    BY <1>1, InductiveInvariant, PTL

\* The tool yields one result, between its two events, however many attempts
\* of execute_run are retried or overlap.
THEOREM ToolRunsOnce == Spec => []ToolResultOnce
  <1>1. IInv => ToolResultOnce
    BY DEF IInv
  <1>2. QED
    BY <1>1, InductiveInvariant, PTL

\* The deliveries of a run are at most one to each subscription, with the
\* run's own outcome and an event of its log, whenever they were added.
THEOREM DeliveriesAgree == Spec => []OutboxAgrees
  <1>1. IInv => OutboxAgrees
    <2> SUFFICES ASSUME IInv PROVE OutboxAgrees
      OBVIOUS
    <2>1. CASE trace = NoTrace
      BY <2>1 DEF IInv, OutboxOfTrace, OutboxAgrees
    <2>2. CASE trace # NoTrace
      <3>1. trace.status = status /\ status \in TerminalStatuses
        BY <2>2 DEF IInv, StatusAgreesWithTrace
      <3>2. PICK k \in Seqs : /\ trace.events = UpTo(log, k)
                              /\ log[k].type = TerminalType(status)
        BY <2>2 DEF IInv, StatusAgreesWithTrace
      <3>3. LastTerminal(trace.events) = k /\ trace.events[k] = log[k]
        BY <3>1, <3>2, TerminalTypeFacts, LastTerminalOfPrefix
      <3>4. \A d \in outbox : \E s \in Subscriptions :
               d = [to |-> s, seq |-> k, type |-> log[k].type, status |-> status]
        BY <2>2, <3>1, <3>3 DEF IInv, OutboxOfTrace, Deliveries
      <3>5. \A d \in outbox : /\ d.seq = k /\ d.type = TerminalType(status)
                              /\ d.status = status /\ log[d.seq].type = d.type
        BY <3>2, <3>4
      <3>6. \A d, e \in outbox : d.to = e.to => d = e
        BY <3>4
      <3> QED BY <2>2, <3>5, <3>6 DEF OutboxAgrees
    <2>3. QED
      BY <2>1, <2>2
  <1>2. QED
    BY <1>1, InductiveInvariant, PTL

-----------------------------------------------------------------------------
(* What a step may never do.                                               *)

LEMMA FinalizeIsFinal ==
    ASSUME IInv, NEW t, FinalizeTrace(t), status \in TerminalStatuses
    PROVE  UNCHANGED <<status, trace>>
  BY DEF FinalizeTrace, CanFinalize, IInv, StatusAgreesWithTrace

LEMMA AppendIsFinal ==
    ASSUME NEW k, NEW doc, AppendEvent(k, doc), status \in TerminalStatuses
    PROVE  UNCHANGED status
  BY DEF AppendEvent, TerminalStatuses

\* The steps that write the rows of a run, and how.
LEMMA RowWriters ==
    ASSUME [Next]_vars
    PROVE  \/ UNCHANGED <<status, log, trace, outbox>>
           \/ /\ status' = IF status = "absent" THEN "queued" ELSE status
              /\ UNCHANGED <<log, trace, outbox>>
           \/ /\ \E k, doc : AppendEvent(k, doc)
              /\ UNCHANGED <<trace, outbox>>
           \/ /\ \E t : FinalizeTrace(t)
              /\ \/ UNCHANGED log
                 \/ \E r \in Requests :
                       /\ CanAppend(1, StartFailureLog(r)[1])
                       /\ CanAppend(2, StartFailureLog(r)[2])
                       /\ log' = [log EXCEPT ![1] = StartFailureLog(r)[1],
                                             ![2] = StartFailureLog(r)[2]]
  <1>1. CASE \E r \in Requests : ApiStep(r)
    BY <1>1 DEF ApiStep, CreateIdempotent, StartRun, StartRejected, RecordStartFailure,
                MarkDurable, store
  <1>2. CASE CancelStep \/ WorkflowStep \/ CancelRpcFails \/ WebhookStep \/ UNCHANGED vars
    BY <1>2 DEF CancelStep, RequestCancel, Describe, SignalCancel, CancelRpcFails,
                WorkflowStep, WorkflowBegins, ExecutionDone, CancelExecution,
                FinalizerDone, WebhookStep, Subscribe, Revoke, SetSubscription, store, vars
  <1>3. CASE \E r \in Requests : StartLost(r)
    BY <1>3 DEF StartLost, store
  <1>4. CASE \E a \in Activities : StartAttempt(a)
    BY <1>4 DEF StartAttempt, store
  <1>5. CASE \E t \in Attempts : t[1] = "execute" /\ ExecuteRun(t[2])
    BY <1>5 DEF ExecuteRun, EmitEvent, InvokeTool, SaveTrace, ExecConflicts, EndAttempt,
                store
  <1>6. CASE \E t \in Attempts : t[1] \in FinalStatuses
                                   /\ FinalizeTerminalRun(t[1], t[2])
    BY <1>6 DEF FinalizeTerminalRun, ListEvents, AppendStarted, AppendTerminal,
                FinalizerAppends, FinalizeRun, FinalizerConflicts, EndAttempt, store
  <1>7. CASE \E t \in Attempts : AttemptReports(t) \/ AttemptLost(t)
    BY <1>7 DEF AttemptReports, AttemptLost, store
  <1>8. QED
    BY <1>1, <1>2, <1>3, <1>4, <1>5, <1>6, <1>7
       DEF Next, CalmNext, FaultNext, ServerStep, AttemptStep

LEMMA SettledStays ==
    ASSUME IInv, [Next]_vars, status \in TerminalStatuses
    PROVE  UNCHANGED <<status, trace>>
  <1>1. CASE \E t : FinalizeTrace(t)
    BY <1>1, FinalizeIsFinal
  <1>2. CASE (\E k, doc : AppendEvent(k, doc)) /\ UNCHANGED <<trace, outbox>>
    BY <1>2, AppendIsFinal
  <1>3. CASE UNCHANGED <<status, log, trace, outbox>>
    BY <1>3
  <1>4. CASE /\ status' = IF status = "absent" THEN "queued" ELSE status
             /\ UNCHANGED <<log, trace, outbox>>
    BY <1>4 DEF TerminalStatuses
  <1>5. QED
    BY <1>1, <1>2, <1>3, <1>4, RowWriters

LEMMA LogStays ==
    ASSUME IInv, [Next]_vars, NEW k \in Seqs, log[k] # NoEvent
    PROVE  log'[k] = log[k]
  <1>1. log \in Logs
    BY DEF IInv, TypeOK
  <1>2. CASE \E j, doc : AppendEvent(j, doc)
    BY <1>1, <1>2 DEF AppendEvent, CanAppend, Logs
  <1>3. CASE \E r \in Requests :
                /\ CanAppend(1, StartFailureLog(r)[1])
                /\ CanAppend(2, StartFailureLog(r)[2])
                /\ log' = [log EXCEPT ![1] = StartFailureLog(r)[1],
                                      ![2] = StartFailureLog(r)[2]]
    BY <1>1, <1>3 DEF CanAppend, Logs
  <1>4. CASE UNCHANGED log
    BY <1>4
  <1>5. QED
    BY <1>2, <1>3, <1>4, RowWriters

\* What a step does to the deliveries, given the rows it leaves behind.
LEMMA DeliveriesFollow ==
    ASSUME IInv, IInv', [Next]_vars
    PROVE  /\ outbox \subseteq outbox'
           /\ \A d \in outbox' \ outbox : trace' # NoTrace /\ d.to \in Listening
           /\ trace' # trace =>
                 \A s \in Listening :
                     TerminalType(trace'.status) \in Events[s] => \E d \in outbox' : d.to = s
  <1>1. CASE UNCHANGED <<trace, outbox>>
    BY <1>1
  <1>2. ASSUME NEW t, FinalizeTrace(t)
        PROVE  /\ outbox \subseteq outbox'
               /\ \A d \in outbox' \ outbox : trace' # NoTrace /\ d.to \in Listening
               /\ trace' # trace =>
                     \A s \in Listening :
                         TerminalType(trace'.status) \in Events[s] => \E d \in outbox' : d.to = s
    <2>1. trace' = t /\ outbox' = outbox \cup Deliveries(t, Listening)
      BY <1>2 DEF FinalizeTrace
    <2>2. \A d \in Deliveries(t, Listening) : d.to \in Listening
      BY DEF Deliveries
    <2>3. trace' = NoTrace => outbox' = {}
      BY DEF IInv, OutboxOfTrace
    <2>4. ASSUME trace' # trace, NEW s \in Listening, TerminalType(t.status) \in Events[s]
          PROVE  \E d \in outbox' : d.to = s
      <3>1. t # NoTrace
        BY <1>2, <2>1, <2>4 DEF FinalizeTrace, CanFinalize
      <3>2. PICK k \in Seqs : /\ t.events = UpTo(log', k)
                              /\ log'[k].type = TerminalType(t.status)
        BY <2>1, <3>1 DEF IInv, StatusAgreesWithTrace
      <3>3. t.status \in TerminalStatuses
        BY <2>1, <3>1 DEF IInv, StatusAgreesWithTrace
      <3>4. LastTerminal(t.events) = k /\ t.events[k].type = TerminalType(t.status)
        BY <3>2, <3>3, TerminalTypeFacts, LastTerminalOfPrefix
      <3> DEFINE d == [to |-> s, seq |-> k, type |-> t.events[k].type, status |-> t.status]
      <3>5. d \in Deliveries(t, Listening)
        BY <2>4, <3>4 DEF Deliveries
      <3> QED BY <2>1, <3>5
    <2> QED BY <2>1, <2>2, <2>3, <2>4
  <1> QED BY <1>1, <1>2, RowWriters

\* The outcome and the trace of a settled run are immutable, whoever writes
\* late; a late write adds at most deliveries of that outcome, to
\* subscriptions that have come since.
THEOREM OutcomeIsFinal == Spec => TerminalIsFinal
  <1>1. IInv /\ [Next]_vars => IInv'
    BY NextPreserves
  <1> DEFINE Step ==
        /\ status \in TerminalStatuses => UNCHANGED <<status, trace>>
        /\ outbox \subseteq outbox'
        /\ \A d \in outbox' \ outbox : trace' # NoTrace /\ d.to \in Listening
        /\ trace' # trace =>
              \A s \in Listening :
                  TerminalType(trace'.status) \in Events[s] => \E d \in outbox' : d.to = s
  <1>2. IInv /\ IInv' /\ [Next]_vars => [Step]_vars
    BY SettledStays, DeliveriesFollow
  <1>3. QED
    BY <1>1, <1>2, InductiveInvariant, PTL DEF Spec, TerminalIsFinal

\* A persisted event is never rewritten or removed, whoever writes late.
THEOREM LogOnlyGrows == Spec => LogIsAppendOnly
  <1>1. IInv /\ [Next]_vars => \A k \in Seqs : log[k] # NoEvent => log'[k] = log[k]
    BY LogStays
  <1>2. QED
    BY <1>1, InductiveInvariant, PTL DEF Spec, LogIsAppendOnly

-----------------------------------------------------------------------------
(* The steps that matter, by what they write.                              *)

Quiet == UNCHANGED <<status, log, trace, tool, outbox>>

LEMMA RowSteps ==
    ASSUME [Next]_vars
    PROVE  \/ Quiet
           \/ \E r \in Requests : CreateIdempotent(r) \/ RecordStartFailure(r)
           \/ \E n \in 1 .. ExecuteAttempts :
                 EmitEvent(n) \/ InvokeTool(n) \/ SaveTrace(n)
           \/ \E s \in FinalStatuses : \E n \in 1 .. FinalizeAttempts :
                 AppendStarted(s, n) \/ AppendTerminal(s, n) \/ FinalizeRun(s, n)
  <1>1. CASE \E r \in Requests : ApiStep(r)
    BY <1>1 DEF ApiStep, StartRun, StartRejected, MarkDurable, store, Quiet
  <1>2. CASE CancelStep \/ WorkflowStep \/ CancelRpcFails \/ WebhookStep \/ UNCHANGED vars
    BY <1>2 DEF CancelStep, RequestCancel, Describe, SignalCancel, CancelRpcFails,
                WorkflowStep, WorkflowBegins, ExecutionDone, CancelExecution,
                FinalizerDone, WebhookStep, Subscribe, Revoke, SetSubscription, store,
                vars, Quiet
  <1>3. CASE \/ \E r \in Requests : StartLost(r)
             \/ \E a \in Activities : StartAttempt(a)
             \/ \E t \in Attempts : AttemptReports(t) \/ AttemptLost(t)
    BY <1>3 DEF StartLost, StartAttempt, AttemptReports, AttemptLost, store, Quiet
  <1>4. ASSUME NEW t \in Attempts, t[1] = "execute", ExecuteRun(t[2])
        PROVE  \/ Quiet
               \/ \E n \in 1 .. ExecuteAttempts :
                     EmitEvent(n) \/ InvokeTool(n) \/ SaveTrace(n)
    <2>1. t[2] \in 1 .. ExecuteAttempts
      BY <1>4, AttemptKinds
    <2> QED BY <1>4, <2>1 DEF ExecuteRun, ExecConflicts, EndAttempt, store, Quiet
  <1>5. ASSUME NEW t \in Attempts, t[1] \in FinalStatuses, FinalizeTerminalRun(t[1], t[2])
        PROVE  \/ Quiet
               \/ \E s \in FinalStatuses : \E n \in 1 .. FinalizeAttempts :
                     AppendStarted(s, n) \/ AppendTerminal(s, n) \/ FinalizeRun(s, n)
    <2>1. t[2] \in 1 .. FinalizeAttempts
      BY <1>5, AttemptKinds
    <2> QED BY <1>5, <2>1 DEF FinalizeTerminalRun, ListEvents, FinalizerConflicts,
                              EndAttempt, store, Quiet
  <1> QED
    BY <1>1, <1>2, <1>3, <1>4, <1>5
       DEF Next, CalmNext, FaultNext, ServerStep, AttemptStep

\* Who writes the attempts, and how.
LEMMA WorkerSteps ==
    ASSUME [Next]_vars, worker \in [Attempts -> AttemptStates], NEW t \in Attempts
    PROVE  \/ worker'[t] = worker[t]
           \/ worker'[t].pc \in {"append", "list", "done", "tool"}
           \/ \E n \in 1 .. ExecuteAttempts :
                 t = Exec(n) /\ (EmitEvent(n) \/ SaveTrace(n))
           \/ \E s \in FinalStatuses : \E n \in 1 .. FinalizeAttempts :
                 /\ t = <<s, n>>
                 /\ \/ ListEvents(s, n) \/ AppendStarted(s, n)
                    \/ AppendTerminal(s, n) \/ FinalizeRun(s, n)
  <1> USE DEF AttemptStates
  <1>1. CASE UNCHANGED worker
    BY <1>1
  <1>2. ASSUME NEW a \in Activities, StartAttempt(a)
        PROVE  worker'[t] = worker[t] \/ worker'[t].pc \in {"append", "list"}
    BY <1>2 DEF StartAttempt, Attempt
  <1>3. ASSUME NEW u \in Attempts, AttemptReports(u) \/ EndAttempt(u)
        PROVE  worker'[t] = worker[t] \/ worker'[t].pc = "done"
    BY <1>3 DEF AttemptReports, EndAttempt, Done, Attempt
  <1>4. ASSUME NEW u \in Attempts, u[1] = "execute", ExecuteRun(u[2])
        PROVE  \/ worker'[t] = worker[t]
               \/ worker'[t].pc \in {"append", "done"}
               \/ \E n \in 1 .. ExecuteAttempts :
                     t = Exec(n) /\ (EmitEvent(n) \/ SaveTrace(n))
    <2>1. u[2] \in 1 .. ExecuteAttempts /\ u = Exec(u[2])
      BY <1>4, AttemptKinds
    <2>2. CASE EmitEvent(u[2]) \/ SaveTrace(u[2])
      <3>1. t # u => worker'[t] = worker[t]
        BY <2>1, <2>2 DEF EmitEvent, SaveTrace
      <3> QED BY <2>1, <2>2, <3>1
    <2>3. CASE InvokeTool(u[2])
      BY <2>1, <2>3 DEF InvokeTool
    <2>4. CASE ExecConflicts(u[2])
      BY <2>1, <2>4, <1>3 DEF ExecConflicts
    <2> QED BY <1>4, <2>2, <2>3, <2>4 DEF ExecuteRun
  <1>5. ASSUME NEW u \in Attempts, u[1] \in FinalStatuses, FinalizeTerminalRun(u[1], u[2])
        PROVE  \/ worker'[t] = worker[t]
               \/ worker'[t].pc = "done"
               \/ \E s \in FinalStatuses : \E n \in 1 .. FinalizeAttempts :
                     /\ t = <<s, n>>
                     /\ \/ ListEvents(s, n) \/ AppendStarted(s, n)
                        \/ AppendTerminal(s, n) \/ FinalizeRun(s, n)
    <2>1. u[2] \in 1 .. FinalizeAttempts /\ u = <<u[1], u[2]>>
      BY <1>5, AttemptKinds
    <2>2. CASE \/ ListEvents(u[1], u[2]) \/ AppendStarted(u[1], u[2])
               \/ AppendTerminal(u[1], u[2]) \/ FinalizeRun(u[1], u[2])
      <3>1. t # u => worker'[t] = worker[t]
        BY <2>1, <2>2 DEF ListEvents, AppendStarted, AppendTerminal, FinalizerAppends,
                          FinalizeRun
      <3> QED BY <1>5, <2>1, <2>2, <3>1
    <2>3. CASE FinalizerConflicts(u[1], u[2])
      BY <2>1, <2>3, <1>3 DEF FinalizerConflicts
    <2> QED BY <1>5, <2>2, <2>3 DEF FinalizeTerminalRun
  <1>6. CASE \/ \E r \in Requests : ApiStep(r) \/ StartLost(r)
             \/ CancelStep \/ CancelRpcFails \/ WebhookStep \/ WorkflowStep
             \/ \E u \in Attempts : AttemptLost(u)
             \/ UNCHANGED vars
    <2>1. UNCHANGED worker
      BY <1>6 DEF ApiStep, CreateIdempotent, StartRun, StartRejected, RecordStartFailure,
                  MarkDurable, StartLost, CancelStep, RequestCancel, Describe, SignalCancel,
                  CancelRpcFails, WorkflowStep, WorkflowBegins, ExecutionDone,
                  CancelExecution, FinalizerDone, WebhookStep, Subscribe, Revoke,
                  SetSubscription, AttemptLost, vars
    <2> QED BY <2>1
  <1> QED
    BY <1>2, <1>3, <1>4, <1>5, <1>6
       DEF Next, CalmNext, FaultNext, ServerStep, AttemptStep

\* Who writes what the server and the workflow know of the activities.
LEMMA ServerSteps ==
    ASSUME [Next]_vars, act \in [Activities -> ActivityStates]
    PROVE  /\ \A a \in Activities :
                 /\ act[a].state # "idle" => act'[a].state # "idle"
                 /\ act'[a].state = "completed" =>
                       \/ act[a].state = "completed"
                       \/ \E t \in Attempts : t[1] = a /\ worker[t].pc = "report"
           /\ wf' = "completed" =>
                 wf = "completed" \/ \E a \in Activities : act[a].state = "completed"
  <1> DEFINE Goal ==
        /\ \A a \in Activities :
              /\ act[a].state # "idle" => act'[a].state # "idle"
              /\ act'[a].state = "completed" =>
                    \/ act[a].state = "completed"
                    \/ \E t \in Attempts : t[1] = a /\ worker[t].pc = "report"
        /\ wf' = "completed" =>
              wf = "completed" \/ \E a \in Activities : act[a].state = "completed"
  <1>1. CASE UNCHANGED <<act, wf>>
    BY <1>1
  <1>2. CASE WorkflowStep
    <2>1. CASE WorkflowBegins
      BY <2>1 DEF WorkflowBegins, Schedule, Activities, FinalStatuses, ActivityStates
    <2>2. CASE ExecutionDone
      BY <2>2 DEF ExecutionDone, Schedule, Activities, FinalStatuses, ActivityStates
    <2>3. CASE CancelExecution
      BY <2>3 DEF CancelExecution, Activities, FinalStatuses, ActivityStates
    <2>4. CASE FinalizerDone
      BY <2>4 DEF FinalizerDone, Activities, FinalStatuses
    <2> QED BY <1>2, <2>1, <2>2, <2>3, <2>4 DEF WorkflowStep
  <1>3. ASSUME NEW a \in Activities, StartAttempt(a)
        PROVE  Goal
    BY <1>3 DEF StartAttempt, ActivityStates
  <1>4. ASSUME NEW t \in Attempts, act' = GiveUp(t), wf' = wf
        PROVE  Goal
    <2>1. t[1] \in Activities
      BY DEF Attempts, Activities
    <2> QED BY <1>4, <2>1 DEF GiveUp, IsCurrent, ActivityStates
  <1>5. ASSUME NEW t \in Attempts, AttemptReports(t)
        PROVE  Goal
    <2>1. t[1] \in Activities
      BY DEF Attempts, Activities
    <2> QED BY <1>5, <2>1 DEF AttemptReports, IsCurrent, ActivityStates
  <1>6. CASE \/ \E r \in Requests : CreateIdempotent(r) \/ StartRejected(r)
                                    \/ RecordStartFailure(r) \/ MarkDurable(r)
             \/ CancelStep \/ CancelRpcFails \/ WebhookStep \/ UNCHANGED vars
    BY <1>1, <1>6 DEF CreateIdempotent, StartRejected, RecordStartFailure,
                MarkDurable, CancelStep, RequestCancel, Describe, SignalCancel,
                CancelRpcFails, WebhookStep, Subscribe, Revoke, SetSubscription,
                temporal, vars
  <1>7. ASSUME NEW r \in Requests, StartRun(r) \/ StartLost(r)
        PROVE  Goal
    BY <1>7 DEF StartRun, StartLost
  <1>8. ASSUME NEW t \in Attempts, AttemptStep(t) \/ AttemptLost(t)
        PROVE  Goal
    <2>1. CASE t[1] = "execute" /\ ExecuteRun(t[2])
      <3>1. t = Exec(t[2])
        BY <2>1, AttemptKinds
      <3> QED BY <2>1, <3>1, <1>1, <1>4 DEF ExecuteRun, EmitEvent, InvokeTool, SaveTrace,
                   ExecConflicts, EndAttempt, temporal
    <2>2. CASE t[1] \in FinalStatuses /\ FinalizeTerminalRun(t[1], t[2])
      <3>1. t = <<t[1], t[2]>>
        BY <2>2, AttemptKinds
      <3> QED BY <2>2, <3>1, <1>1, <1>4 DEF FinalizeTerminalRun, ListEvents, AppendStarted,
                   AppendTerminal, FinalizerAppends, FinalizeRun, FinalizerConflicts,
                   EndAttempt, temporal
    <2>3. CASE AttemptReports(t)
      BY <2>3, <1>5
    <2>4. CASE AttemptLost(t)
      BY <2>4, <1>4 DEF AttemptLost
    <2> QED BY <1>8, <2>1, <2>2, <2>3, <2>4 DEF AttemptStep
  <1> QED
    BY <1>2, <1>3, <1>6, <1>7, <1>8
       DEF Next, CalmNext, FaultNext, ServerStep, ApiStep

-----------------------------------------------------------------------------
(* A reported success, and a completed run.                                *)

LEMMA SettlingSteps ==
    ASSUME IInv
    PROVE  /\ \A n \in 1 .. ExecuteAttempts : SaveTrace(n) => status' = "completed"
           /\ \A s \in FinalStatuses : \A n \in 1 .. FinalizeAttempts :
                 FinalizeRun(s, n) => status' = s
  <1>1. trace # NoTrace => trace.status = status
    BY DEF IInv, StatusAgreesWithTrace
  <1>2. ASSUME NEW n \in 1 .. ExecuteAttempts, SaveTrace(n)
        PROVE  status' = "completed"
    BY <1>1, <1>2, KernelDocFacts DEF SaveTrace, FinalizeTrace, CanFinalize
  <1>3. ASSUME NEW s \in FinalStatuses, NEW n \in 1 .. FinalizeAttempts, FinalizeRun(s, n)
        PROVE  status' = s
    <2>1. FinalTrace(s, n).status = s
      BY DEF FinalTrace
    <2> QED BY <1>1, <1>3, <2>1 DEF FinalizeRun, FinalizeTrace, CanFinalize
  <1> QED BY <1>2, <1>3

LEMMA OutcomeIsTerminal ==
    \A t \in Attempts : t[1] \in Activities /\ Outcome(t[1]) \in TerminalStatuses
  BY DEF Attempts, Activities, Outcome, FinalStatuses, TerminalStatuses

LEMMA ReportsStayStored ==
    ASSUME IInv, ReportsAreStored, [Next]_vars
    PROVE  ReportsAreStored'
  <1> SUFFICES ASSUME NEW t \in Attempts, worker'[t].pc = "report"
               PROVE  status' = Outcome(t[1])
    BY DEF ReportsAreStored
  <1>1. CASE worker'[t] = worker[t]
    <2>1. status = Outcome(t[1]) /\ status \in TerminalStatuses
      BY <1>1, OutcomeIsTerminal DEF ReportsAreStored
    <2> QED BY <2>1, SettledStays
  <1>2. ASSUME NEW n \in 1 .. ExecuteAttempts, t = Exec(n), SaveTrace(n)
        PROVE  status' = Outcome(t[1])
    BY <1>2, SettlingSteps DEF Outcome, Exec
  <1>3. ASSUME NEW n \in 1 .. ExecuteAttempts, t = Exec(n), EmitEvent(n)
        PROVE  FALSE
    <2>1. worker \in [Attempts -> AttemptStates]
      BY DEF IInv, TypeOK
    <2>2. worker[t].pc = "append" /\ worker[t].seq \in 1 .. KernelLen
      BY <1>3 DEF EmitEvent, IInv, AttemptsProgress, KernelAttempt
    <2>3. \E pc \in {"tool", "save", "append"} :
             worker'[t] = Attempt(pc, worker[t].seq + 1, EmptyLog)
      BY <1>3, <2>1 DEF EmitEvent
    <2> QED BY <2>3 DEF Attempt
  <1>4. ASSUME NEW s \in FinalStatuses, NEW n \in 1 .. FinalizeAttempts, t = <<s, n>>,
               FinalizeRun(s, n)
        PROVE  status' = Outcome(t[1])
    BY <1>4, SettlingSteps DEF Outcome, FinalStatuses
  <1>5. ASSUME NEW s \in FinalStatuses, NEW n \in 1 .. FinalizeAttempts, t = <<s, n>>,
               ListEvents(s, n) \/ AppendStarted(s, n) \/ AppendTerminal(s, n)
        PROVE  FALSE
    <2>1. worker \in [Attempts -> AttemptStates]
      BY DEF IInv, TypeOK
    <2>2. \E pc \in {"begin", "end", "save"} : \E k, seen :
             worker'[t] = Attempt(pc, k, seen)
      BY <1>5, <2>1 DEF ListEvents, AppendStarted, AppendTerminal, FinalizerAppends
    <2> QED BY <2>2 DEF Attempt
  <1> QED
    BY <1>1, <1>2, <1>3, <1>4, <1>5, WorkerSteps DEF IInv, TypeOK

LEMMA ResultsStayStored ==
    ASSUME IInv, ReportsAreStored, ActivityResultIsStored, [Next]_vars
    PROVE  ActivityResultIsStored'
  <1>1. \A a \in Activities : act[a].state = "completed" => status = Outcome(a)
    BY DEF ActivityResultIsStored, Activities, Outcome, FinalStatuses
  <1>2. \A a \in Activities : Outcome(a) \in TerminalStatuses
    BY DEF Activities, Outcome, FinalStatuses, TerminalStatuses
  <1>3. act \in [Activities -> ActivityStates]
    BY DEF IInv, TypeOK
  <1>4. ASSUME NEW a \in Activities, act'[a].state = "completed"
        PROVE  status' = Outcome(a)
    <2>1. status = Outcome(a)
      BY <1>1, <1>3, <1>4, ServerSteps DEF ReportsAreStored
    <2> QED BY <1>2, <2>1, SettledStays
  <1>5. ASSUME wf' = "completed" PROVE trace' # NoTrace
    <2>1. wf = "completed" \/ \E a \in Activities : act[a].state = "completed"
      BY <1>3, <1>5, ServerSteps
    <2>2. trace # NoTrace /\ status \in TerminalStatuses
      BY <1>1, <1>2, <2>1 DEF ActivityResultIsStored, IInv, StatusAgreesWithTrace
    <2> QED BY <2>2, SettledStays
  <1> QED
    BY <1>4, <1>5 DEF ActivityResultIsStored, Activities, Outcome, FinalStatuses

LEMMA CompletedStaysExecuted ==
    ASSUME IInv, CompletedMeansExecuted, [Next]_vars
    PROVE  CompletedMeansExecuted'
  <1> SUFFICES ASSUME status' = "completed"
               PROVE  /\ tool' = 1
                      /\ \A k \in 1 .. KernelLen : log'[k] = KernelDoc(k)
    BY DEF CompletedMeansExecuted
  <1>1. SUFFICES /\ tool = 1
                 /\ \A k \in 1 .. KernelLen : log[k] = KernelDoc(k)
    <2>1. tool' = 1
      BY <1>1, RowSteps DEF Quiet, CreateIdempotent, RecordStartFailure, EmitEvent, InvokeTool,
                     SaveTrace, AppendStarted, AppendTerminal, FinalizerAppends, FinalizeRun
    <2>2. \A k \in 1 .. KernelLen : k \in Seqs /\ KernelDoc(k) # NoEvent
      BY KernelDocFacts DEF Seqs, KernelLen
    <2> QED BY <1>1, <2>1, <2>2, LogStays
  <1>2. CASE status = "completed"
    BY <1>2 DEF CompletedMeansExecuted
  <1>3. ASSUME NEW n \in 1 .. ExecuteAttempts, SaveTrace(n)
        PROVE  /\ tool = 1
               /\ \A k \in 1 .. KernelLen : log[k] = KernelDoc(k)
    <2>1. worker[Exec(n)].pc = "save" /\ KernelAttempt(n)
      BY <1>3 DEF SaveTrace, IInv, AttemptsProgress
    <2>2. worker[Exec(n)].seq = 9
      BY <2>1 DEF KernelAttempt, KernelLen
    <2> QED BY <2>1, <2>2 DEF KernelAttempt, KernelLen, Seqs
  <1>4. CASE status # "completed" /\ ~ \E n \in 1 .. ExecuteAttempts : SaveTrace(n)
    <2>1. ASSUME NEW r \in Requests, RecordStartFailure(r)
          PROVE  status' # "completed"
      BY <1>4, <2>1, StartFailureFacts DEF RecordStartFailure, FinalizeTrace
    <2>2. ASSUME NEW s \in FinalStatuses, NEW n \in 1 .. FinalizeAttempts, FinalizeRun(s, n)
          PROVE  status' # "completed"
      BY <2>2, SettlingSteps DEF FinalStatuses
    <2>3. ASSUME NEW r \in Requests, CreateIdempotent(r)
          PROVE  status' # "completed"
      BY <1>4, <2>3 DEF CreateIdempotent
    <2>4. ASSUME NEW k, NEW doc, AppendEvent(k, doc)
          PROVE  status' # "completed"
      BY <1>4, <2>4 DEF AppendEvent
    <2>5. ASSUME NEW n \in 1 .. ExecuteAttempts, EmitEvent(n) \/ InvokeTool(n)
          PROVE  status' # "completed"
      BY <1>4, <2>4, <2>5 DEF EmitEvent, InvokeTool
    <2>6. ASSUME NEW s \in FinalStatuses, NEW n \in 1 .. FinalizeAttempts,
                 AppendStarted(s, n) \/ AppendTerminal(s, n)
          PROVE  status' # "completed"
      BY <2>4, <2>6 DEF AppendStarted, AppendTerminal, FinalizerAppends
    <2>7. CASE Quiet
      BY <1>4, <2>7 DEF Quiet
    <2> QED BY <1>4, <2>1, <2>2, <2>3, <2>5, <2>6, <2>7, RowSteps
  <1> QED BY <1>2, <1>3, <1>4

-----------------------------------------------------------------------------
(* A failed start.                                                         *)

LEMMA DocumentFacts ==
    /\ NoEvent.by = "worker" /\ NoEvent.type \notin TerminalEvents
    /\ \A k \in 1 .. KernelLen : KernelDoc(k).by = "worker"
    /\ \A k \in 1 .. KernelLen : KernelDoc(k).type \in TerminalEvents => k = KernelLen
    /\ \A type : WorkerEvent(type).by = "worker" /\ WorkerEvent(type).type = type
    /\ WorkerEvent("run.started").type \notin TerminalEvents
    /\ \A r \in Requests :
          /\ StartFailureLog(r)[1].by = r /\ StartFailureLog(r)[2].by = r
          /\ r # "worker"
          /\ StartFailureLog(r)[1].type \notin TerminalEvents
          /\ StartFailureLog(r)[2].type \in TerminalEvents
    /\ \A s \in FinalStatuses : TerminalType(s) \in TerminalEvents
  <1>1. ASSUME NEW k \in 1 .. KernelLen
        PROVE  KernelDoc(k).by = "worker" /\ (KernelDoc(k).type \in TerminalEvents => k = KernelLen)
    <2>1. k = 1 \/ k = 2 \/ k = 3 \/ k = 4 \/ k = 5 \/ k = 6 \/ k = 7 \/ k = 8
      BY DEF KernelLen
    <2> QED BY <2>1 DEF KernelDoc, WorkerEvent, KernelEvents, TerminalEvents, KernelLen
  <1>2. \A r \in Requests :
          /\ StartFailureLog(r)[1].by = r /\ StartFailureLog(r)[2].by = r
          /\ r # "worker"
          /\ StartFailureLog(r)[1].type \notin TerminalEvents
          /\ StartFailureLog(r)[2].type \in TerminalEvents
    BY RequestsAssumption DEF StartFailureLog, Seqs, KernelLen, TerminalEvents
  <1> QED
    BY <1>1, <1>2 DEF NoEvent, TerminalEvents, WorkerEvent, FinalStatuses, TerminalType

\* An attempt of execute_run that is past its first event wrote that event.
LEMMA KernelBeganIt ==
    ASSUME IInv, NEW n \in 1 .. ExecuteAttempts,
           \/ worker[Exec(n)].pc = "tool"
           \/ worker[Exec(n)].pc = "append" /\ CanAppend(worker[Exec(n)].seq,
                                                          KernelDoc(worker[Exec(n)].seq))
    PROVE  log[1].by = "worker"
  <1> DEFINE w == worker[Exec(n)]
  <1>1. KernelAttempt(n)
    BY DEF IInv, AttemptsProgress
  <1>2. 1 \in Seqs /\ 1 \in 1 .. KernelLen
    BY DEF Seqs, KernelLen
  <1>3. CASE w.pc = "tool" \/ w.seq # 1
    <2>1. log[1] = KernelDoc(1)
      BY <1>1, <1>2, <1>3 DEF KernelAttempt, KernelLen
    <2> QED BY <2>1, <1>2, DocumentFacts
  <1>4. CASE w.pc = "append" /\ w.seq = 1
    BY <1>2, <1>4, DocumentFacts DEF CanAppend
  <1> QED BY <1>3, <1>4

\* The first event of a run that has none yet: the log is empty, and so is all
\* that follows from it.
LEMMA NothingYet ==
    ASSUME IInv, log[1] = NoEvent
    PROVE  /\ \A k \in Seqs : log[k] = NoEvent
           /\ trace = NoTrace /\ status \notin TerminalStatuses /\ tool = 0
  <1>1. \A k \in Seqs : log[k] = NoEvent
    BY DEF IInv, LogContiguous, Seqs, KernelLen
  <1>2. trace = NoTrace
    <2>1. ASSUME NEW k \in Seqs, log[k].type = TerminalType(status), status \in TerminalStatuses
          PROVE  FALSE
      BY <1>1, <2>1, NoTerminalIsNone
    <2> QED BY <2>1 DEF IInv, StatusAgreesWithTrace
  <1>3. tool = 0
    <2>1. 5 \in Seqs /\ KernelDoc(5) # NoEvent
      BY KernelDocFacts DEF Seqs, KernelLen
    <2>2. tool # 1
      BY <1>1, <2>1 DEF IInv, ToolResultOnce
    <2> QED BY <2>2 DEF IInv, ToolResultOnce, TypeOK
  <1> QED BY <1>1, <1>2, <1>3 DEF IInv, StatusAgreesWithTrace

LEMMA StartFailureBegins ==
    ASSUME IInv, NEW r \in Requests, RecordStartFailure(r), log[1].by = "worker",
           log'[1].by # "worker"
    PROVE  StartFailureIsWhole' /\ StartFailureIsClean'
  <1>1. log \in Logs /\ 1 \in Seqs /\ 2 \in Seqs
    BY DEF IInv, TypeOK, Seqs, KernelLen
  <1>2. /\ CanAppend(1, StartFailureLog(r)[1])
        /\ log' = [log EXCEPT ![1] = StartFailureLog(r)[1], ![2] = StartFailureLog(r)[2]]
        /\ FinalizeTrace(StartFailureTrace(r))
        /\ UNCHANGED tool
    BY DEF RecordStartFailure
  <1>3. log[1] = NoEvent
    BY <1>2, DocumentFacts DEF CanAppend
  <1>4. /\ log'[1] = StartFailureLog(r)[1] /\ log'[2] = StartFailureLog(r)[2]
        /\ \A k \in Seqs \ {1, 2} : log'[k].type = "none"
        /\ log'[1].by = r
    BY <1>1, <1>2, <1>3, NothingYet, DocumentFacts DEF Logs, NoEvent
  <1>5. trace' = StartFailureTrace(r) /\ status' = "failed" /\ tool' = 0
    BY <1>2, <1>3, NothingYet, StartFailureFacts DEF FinalizeTrace
  <1>6. StartFailureIsWhole'
    BY <1>4 DEF StartFailureIsWhole
  <1> QED BY <1>4, <1>5, <1>6 DEF StartFailureIsClean

LEMMA StartFailureStays ==
    ASSUME IInv, StartFailureIsWhole, StartFailureIsClean, [Next]_vars
    PROVE  StartFailureIsWhole' /\ StartFailureIsClean'
  <1> SUFFICES ASSUME log'[1].by # "worker"
               PROVE  StartFailureIsWhole' /\ StartFailureIsClean'
    BY DEF StartFailureIsWhole, StartFailureIsClean
  <1>1. log \in Logs /\ 1 \in Seqs /\ 2 \in Seqs /\ 1 \in 1 .. KernelLen
    BY DEF IInv, TypeOK, Seqs, KernelLen
  <1>2. ASSUME NEW n \in 1 .. ExecuteAttempts, EmitEvent(n), log[1].by # "worker"
        PROVE  FALSE
    BY <1>2, KernelBeganIt DEF EmitEvent, AppendEvent
  <1>3. ASSUME NEW n \in 1 .. ExecuteAttempts, InvokeTool(n), log[1].by # "worker"
        PROVE  FALSE
    BY <1>3, KernelBeganIt DEF InvokeTool
  <1>4. ASSUME NEW s \in FinalStatuses, NEW n \in 1 .. FinalizeAttempts, AppendStarted(s, n),
               log[1].by # "worker"
        PROVE  FALSE
    BY <1>4, DocumentFacts DEF AppendStarted, FinalizerAppends, AppendEvent, CanAppend
  <1>5. CASE log[1].by # "worker"
    <2>1. PICK r \in Requests : \A k \in {1, 2} : log[k] = StartFailureLog(r)[k]
      BY <1>5 DEF StartFailureIsWhole
    <2>2. log'[1] = log[1] /\ log'[2] = log[2]
      BY <1>1, <2>1, StartFailureFacts, TracesAreSomething, LogStays
    <2>3. StartFailureIsWhole'
      BY <2>1, <2>2 DEF StartFailureIsWhole
    <2>4. status' = "failed" /\ trace' = StartFailureTrace(log'[1].by)
      BY <1>5, <2>2, SettledStays DEF StartFailureIsClean, TerminalStatuses
    <2> DEFINE Clean ==
          tool' = 0 /\ \A k \in Seqs \ {1, 2} : log'[k].type \in TerminalEvents \cup {"none"}
    <2>5. Clean
      <3>1. tool = 0 /\ \A k \in Seqs \ {1, 2} : log[k].type \in TerminalEvents \cup {"none"}
        BY <1>5 DEF StartFailureIsClean
      <3>2. CASE Quiet \/ \E r2 \in Requests : CreateIdempotent(r2)
        BY <3>1, <3>2 DEF Quiet, CreateIdempotent
      <3>3. ASSUME NEW r2 \in Requests, RecordStartFailure(r2)
            PROVE  Clean
        <4>1. tool' = tool /\ \A k \in Seqs \ {1, 2} : log'[k] = log[k]
          BY <1>1, <3>3 DEF RecordStartFailure, Logs
        <4> QED BY <3>1, <4>1
      <3>4. ASSUME NEW n \in 1 .. ExecuteAttempts, SaveTrace(n)
            PROVE  Clean
        BY <3>1, <3>4 DEF SaveTrace
      <3>5. ASSUME NEW s \in FinalStatuses, NEW n \in 1 .. FinalizeAttempts, FinalizeRun(s, n)
            PROVE  Clean
        BY <3>1, <3>5 DEF FinalizeRun
      <3>6. ASSUME NEW s \in FinalStatuses, NEW n \in 1 .. FinalizeAttempts, AppendTerminal(s, n)
            PROVE  Clean
        <4> DEFINE q == worker[<<s, n>>].seq + 1
        <4>1. tool' = tool /\ log' = [log EXCEPT ![q] = WorkerEvent(TerminalType(s))]
          BY <3>6 DEF AppendTerminal, FinalizerAppends, AppendEvent
        <4>2. \A k \in Seqs : log'[k] = log[k] \/ log'[k].type \in TerminalEvents
          BY <1>1, <4>1, DocumentFacts DEF Logs
        <4> QED BY <3>1, <4>1, <4>2
      <3> QED BY <1>2, <1>3, <1>4, <1>5, <3>2, <3>3, <3>4, <3>5, <3>6, RowSteps
    <2> QED BY <2>3, <2>4, <2>5 DEF StartFailureIsClean
  <1>6. CASE log[1].by = "worker"
    <2>1. ASSUME NEW k, NEW doc, doc.by = "worker", AppendEvent(k, doc)
          PROVE  FALSE
      <3>1. log'[1] = log[1] \/ log'[1] = doc
        BY <1>1, <2>1 DEF AppendEvent, Logs
      <3> QED BY <1>6, <2>1, <3>1
    <2>2. ASSUME NEW n \in 1 .. ExecuteAttempts, EmitEvent(n)
          PROVE  FALSE
      <3>1. worker[Exec(n)].seq \in 1 .. KernelLen
        BY <2>2 DEF EmitEvent, IInv, AttemptsProgress, KernelAttempt
      <3> QED BY <2>1, <2>2, <3>1, DocumentFacts DEF EmitEvent
    <2>3. ASSUME NEW s \in FinalStatuses, NEW n \in 1 .. FinalizeAttempts,
                 AppendStarted(s, n) \/ AppendTerminal(s, n)
          PROVE  FALSE
      BY <2>1, <2>3, DocumentFacts DEF AppendStarted, AppendTerminal, FinalizerAppends
    <2>4. ASSUME UNCHANGED log PROVE FALSE
      BY <1>6, <2>4
    <2>5. \E r \in Requests : RecordStartFailure(r)
      BY <2>2, <2>3, <2>4, RowSteps DEF Quiet, CreateIdempotent, InvokeTool, SaveTrace, FinalizeRun
    <2> QED BY <1>6, <2>5, StartFailureBegins
  <1> QED BY <1>5, <1>6

-----------------------------------------------------------------------------
(* Terminal events.                                                        *)

\* The append of a finalizer that continues the log.
LEMMA TerminalIsAppended ==
    ASSUME IInv, NEW s \in FinalStatuses, NEW n \in 1 .. FinalizeAttempts, AppendTerminal(s, n)
    PROVE  LET q == worker[<<s, n>>].seq
           IN  /\ q \in 1 .. KernelLen /\ q \in Seqs /\ q + 1 \in Seqs
               /\ worker[<<s, n>>].pc = "end"
               /\ log[q] # NoEvent
               /\ log' = [log EXCEPT ![q + 1] = WorkerEvent(TerminalType(s))]
               /\ log[q + 1] = NoEvent \/ log' = log
               /\ act[s].state # "idle" /\ act' = act
  <1> DEFINE q == worker[<<s, n>>].seq
  <1>1. FinalizerAttempt(s, n) /\ worker[<<s, n>>].pc = "end"
    BY DEF IInv, AttemptsProgress, AppendTerminal
  <1>2. q \in 1 .. KernelLen /\ q \in Seqs /\ q + 1 \in Seqs /\ log[q] # NoEvent
    BY <1>1 DEF FinalizerAttempt, Seqs, KernelLen
  <1>3. /\ CanAppend(q + 1, WorkerEvent(TerminalType(s)))
        /\ log' = [log EXCEPT ![q + 1] = WorkerEvent(TerminalType(s))]
        /\ act' = act
    BY DEF AppendTerminal, FinalizerAppends, AppendEvent, temporal
  <1>4. log \in [Seqs -> Documents \cup {NoEvent}]
    BY DEF IInv, TypeOK, Logs
  <1>5. log[q + 1] = NoEvent \/ log' = log
    BY <1>2, <1>3, <1>4 DEF CanAppend
  <1>6. act[s].state # "idle"
    BY <1>1 DEF IInv, OneFinalizer
  <1> QED BY <1>1, <1>2, <1>3, <1>5, <1>6

\* The append of a kernel attempt.
LEMMA KernelAppends ==
    ASSUME IInv, NEW n \in 1 .. ExecuteAttempts, EmitEvent(n)
    PROVE  LET q == worker[Exec(n)].seq
           IN  /\ q \in 1 .. KernelLen /\ q \in Seqs
               /\ log' = [log EXCEPT ![q] = KernelDoc(q)]
               /\ log[q] = NoEvent \/ log' = log
               /\ \A k \in Seqs : k < q => log[k] = KernelDoc(k)
  <1> DEFINE q == worker[Exec(n)].seq
  <1>1. KernelAttempt(n) /\ worker[Exec(n)].pc = "append"
    BY DEF IInv, AttemptsProgress, EmitEvent
  <1>2. q \in 1 .. KernelLen /\ q \in Seqs /\ \A k \in Seqs : k < q => log[k] = KernelDoc(k)
    BY <1>1 DEF KernelAttempt, Seqs, KernelLen
  <1>3. CanAppend(q, KernelDoc(q)) /\ log' = [log EXCEPT ![q] = KernelDoc(q)]
    BY DEF EmitEvent, AppendEvent
  <1>4. log \in [Seqs -> Documents \cup {NoEvent}]
    BY DEF IInv, TypeOK, Logs
  <1>5. log[q] = NoEvent \/ log' = log
    BY <1>2, <1>3, <1>4 DEF CanAppend
  <1> QED BY <1>2, <1>3, <1>5

\* The first append of a finalizer, to a log it has found empty.
LEMMA StartedIsAppended ==
    ASSUME IInv, NEW s \in FinalStatuses, NEW n \in 1 .. FinalizeAttempts, AppendStarted(s, n)
    PROVE  /\ log' = [log EXCEPT ![1] = WorkerEvent("run.started")]
           /\ log[1] = NoEvent \/ log' = log
  <1>1. /\ CanAppend(1, WorkerEvent("run.started"))
        /\ log' = [log EXCEPT ![1] = WorkerEvent("run.started")]
    BY DEF AppendStarted, FinalizerAppends, AppendEvent
  <1>2. log \in [Seqs -> Documents \cup {NoEvent}] /\ 1 \in Seqs
    BY DEF IInv, TypeOK, Logs, Seqs, KernelLen
  <1> QED BY <1>1, <1>2 DEF CanAppend

\* The two events of a start failure, for a log that is empty or has them.
LEMMA FailureIsAppended ==
    ASSUME IInv, StartFailureIsWhole, NEW r \in Requests, RecordStartFailure(r)
    PROVE  \/ log' = log
           \/ /\ log[1] = NoEvent
              /\ log' = [log EXCEPT ![1] = StartFailureLog(r)[1], ![2] = StartFailureLog(r)[2]]
  <1>1. log \in [Seqs -> Documents \cup {NoEvent}] /\ 1 \in Seqs /\ 2 \in Seqs
    BY DEF IInv, TypeOK, Logs, Seqs, KernelLen
  <1>2. SUFFICES ASSUME /\ log[1] = StartFailureLog(r)[1]
                        /\ log' = [log EXCEPT ![1] = StartFailureLog(r)[1],
                                              ![2] = StartFailureLog(r)[2]]
                 PROVE  log' = log
    BY DEF RecordStartFailure, CanAppend
  <1>3. PICK o \in Requests : \A k \in {1, 2} : log[k] = StartFailureLog(o)[k]
    BY <1>2, DocumentFacts DEF StartFailureIsWhole
  <1>4. o = r
    BY <1>2, <1>3, DocumentFacts
  <1> QED BY <1>1, <1>2, <1>3, <1>4

LEMMA OriginsStay ==
    ASSUME IInv, StartFailureIsWhole, TerminalsHaveOrigin, [Next]_vars
    PROVE  TerminalsHaveOrigin'
  <1> DEFINE Kernels(k) == k = KernelLen /\ \A j \in 1 .. KernelLen : log'[j] = KernelDoc(j)
             Failed(k) == k = 2 /\ log'[1].by # "worker"
             Scheduled(k) == \E s \in FinalStatuses :
                                act'[s].state # "idle" /\ log'[k].type = TerminalType(s)
  <1> SUFFICES ASSUME NEW k \in Seqs, log'[k].type \in TerminalEvents
               PROVE  Kernels(k) \/ Failed(k) \/ Scheduled(k)
    BY DEF TerminalsHaveOrigin
  <1>1. log \in [Seqs -> Documents \cup {NoEvent}] /\ 1 \in Seqs /\ 2 \in Seqs
    BY DEF IInv, TypeOK, Logs, Seqs, KernelLen
  <1>2. CASE log[k].type \in TerminalEvents
    <2>1. log'[k] = log[k]
      BY <1>2, DocumentFacts, LogStays
    <2>2. CASE k = KernelLen /\ \A j \in 1 .. KernelLen : log[j] = KernelDoc(j)
      <3>1. \A j \in 1 .. KernelLen : j \in Seqs /\ KernelDoc(j) # NoEvent
        BY KernelDocFacts DEF Seqs, KernelLen
      <3> QED BY <2>2, <3>1, LogStays
    <2>3. CASE k = 2 /\ log[1].by # "worker"
      <3>1. log[1] # NoEvent
        BY <2>3, DocumentFacts
      <3> QED BY <1>1, <2>3, <3>1, LogStays
    <2>4. CASE \E s \in FinalStatuses :
                  act[s].state # "idle" /\ log[k].type = TerminalType(s)
      <3>1. act \in [Activities -> ActivityStates] /\ FinalStatuses \subseteq Activities
        BY DEF IInv, TypeOK, Activities
      <3> QED BY <2>1, <2>4, <3>1, ServerSteps
    <2> QED BY <1>2, <2>2, <2>3, <2>4 DEF TerminalsHaveOrigin
  <1>3. CASE log[k].type \notin TerminalEvents
    <2>1. ASSUME NEW n \in 1 .. ExecuteAttempts, EmitEvent(n)
          PROVE  Kernels(k)
      <3> DEFINE q == worker[Exec(n)].seq
      <3>1. /\ q \in 1 .. KernelLen /\ q \in Seqs
            /\ log' = [log EXCEPT ![q] = KernelDoc(q)]
            /\ \A j \in Seqs : j < q => log[j] = KernelDoc(j)
        BY <2>1, KernelAppends
      <3>2. k = q /\ log'[q] = KernelDoc(q)
        BY <1>1, <1>3, <3>1
      <3>3. q = KernelLen
        BY <3>1, <3>2, DocumentFacts
      <3>4. \A j \in 1 .. KernelLen : j \in Seqs
        BY DEF Seqs, KernelLen
      <3>5. ASSUME NEW j \in 1 .. KernelLen
            PROVE  log'[j] = KernelDoc(j)
        <4>1. CASE j = q
          BY <4>1, <3>2
        <4>2. CASE j # q
          <5>1. j \in Seqs /\ j < q
            BY <4>2, <3>3, <3>4 DEF KernelLen
          <5>2. log[j] = KernelDoc(j)
            BY <3>1, <5>1
          <5> QED BY <5>1, <5>2, <4>2, <1>1, <3>1
        <4> QED BY <4>1, <4>2
      <3> QED BY <3>2, <3>3, <3>5
    <2>2. ASSUME NEW r \in Requests, RecordStartFailure(r)
          PROVE  Failed(k)
      <3>1. log' = [log EXCEPT ![1] = StartFailureLog(r)[1], ![2] = StartFailureLog(r)[2]]
        BY <1>3, <2>2, FailureIsAppended
      <3> QED BY <1>1, <1>3, <3>1, DocumentFacts
    <2>3. ASSUME NEW s \in FinalStatuses, NEW n \in 1 .. FinalizeAttempts, AppendStarted(s, n)
          PROVE  FALSE
      <3>1. log' = [log EXCEPT ![1] = WorkerEvent("run.started")]
        BY <2>3, StartedIsAppended
      <3> QED BY <1>1, <1>3, <3>1, DocumentFacts
    <2>4. ASSUME NEW s \in FinalStatuses, NEW n \in 1 .. FinalizeAttempts, AppendTerminal(s, n)
          PROVE  Scheduled(k)
      <3> DEFINE q == worker[<<s, n>>].seq
      <3>1. /\ q + 1 \in Seqs
            /\ log' = [log EXCEPT ![q + 1] = WorkerEvent(TerminalType(s))]
            /\ act'[s].state # "idle"
        BY <2>4, TerminalIsAppended
      <3>2. k = q + 1 /\ log'[k] = WorkerEvent(TerminalType(s))
        BY <1>1, <1>3, <3>1
      <3> QED BY <3>1, <3>2, DocumentFacts
    <2>5. log' # log
      BY <1>3
    <2> QED BY <2>1, <2>2, <2>3, <2>4, <2>5, RowSteps
            DEF Quiet, CreateIdempotent, InvokeTool, SaveTrace, FinalizeRun
  <1> QED BY <1>2, <1>3

LEMMA FinalizersStayBehind ==
    ASSUME IInv, FinalizersContinue, [Next]_vars
    PROVE  FinalizersContinue'
  <1> SUFFICES ASSUME NEW s \in FinalStatuses, NEW n \in 1 .. FinalizeAttempts,
                      worker'[<<s, n>>].pc = "end"
               PROVE  log'[worker'[<<s, n>>].seq].type # TerminalType(s)
    BY DEF FinalizersContinue
  <1> DEFINE t == <<s, n>>
  <1>1. worker \in [Attempts -> AttemptStates] /\ t \in Attempts
        /\ log \in [Seqs -> Documents \cup {NoEvent}] /\ 1 \in Seqs
    BY AttemptKinds DEF IInv, TypeOK, Logs, Seqs, KernelLen
  <1>2. CASE worker'[t] = worker[t]
    <2>1. FinalizerAttempt(s, n)
      BY DEF IInv, AttemptsProgress
    <2>2. worker[t].seq \in Seqs /\ log[worker[t].seq] # NoEvent
      BY <1>2, <2>1 DEF FinalizerAttempt, Seqs, KernelLen
    <2> QED BY <1>2, <2>2, LogStays DEF FinalizersContinue
  <1>3. CASE ListEvents(s, n)
    <2>1. PICK k \in 0 .. KernelLen + 1 :
             worker' = [worker EXCEPT ![t] =
                          Attempt(IF k = 0 THEN "begin"
                                  ELSE IF log[k].type = TerminalType(s) THEN "save"
                                  ELSE "end", k, log)]
      BY <1>3 DEF ListEvents
    <2>2. worker'[t].seq = k /\ log[k].type # TerminalType(s)
      BY <1>1, <2>1 DEF Attempt
    <2> QED BY <1>3, <2>2 DEF ListEvents, store
  <1>4. CASE AppendStarted(s, n)
    <2>1. worker'[t].seq = 1
      BY <1>1, <1>4 DEF AppendStarted, FinalizerAppends, Attempt
    <2>2. log'[1] = WorkerEvent("run.started")
      BY <1>1, <1>4, StartedIsAppended
    <2> QED BY <2>1, <2>2, DocumentFacts
  <1>5. CASE AppendTerminal(s, n) \/ FinalizeRun(s, n)
    <2>1. worker'[t].pc = "save" \/ worker'[t].pc = "report"
      BY <1>1, <1>5 DEF AppendTerminal, FinalizerAppends, FinalizeRun, Attempt, AttemptStates
    <2> QED BY <2>1
  <1>6. \A m : t # Exec(m)
    BY DEF Exec, FinalStatuses
  <1>7. \A u \in FinalStatuses, m \in 1 .. FinalizeAttempts : t = <<u, m>> => u = s /\ m = n
    OBVIOUS
  <1> QED BY <1>1, <1>2, <1>3, <1>4, <1>5, <1>6, <1>7, WorkerSteps

LEMMA NothingFollows ==
    ASSUME IInv, StartFailureIsWhole, TerminalsHaveOrigin, FinalizersContinue,
           NothingAfterTerminal, [Next]_vars
    PROVE  NothingAfterTerminal'
  <1> SUFFICES ASSUME NEW k \in Seqs, NEW m \in Seqs, k < m,
                      log'[k].type \in TerminalEvents, log'[m] # NoEvent, log' # log
               PROVE  m = k + 1 /\ log'[m].type \in TerminalEvents
    <2>1. ASSUME log' = log PROVE NothingAfterTerminal'
      BY <2>1 DEF NothingAfterTerminal
    <2> QED BY <2>1 DEF NothingAfterTerminal
  <1>1. log \in [Seqs -> Documents \cup {NoEvent}] /\ 1 \in Seqs /\ 2 \in Seqs
    BY DEF IInv, TypeOK, Logs, Seqs, KernelLen
  <1>2. LogContiguous
    BY DEF IInv
  <1>3. ASSUME NEW n \in 1 .. ExecuteAttempts, EmitEvent(n)
        PROVE  FALSE
    <2> DEFINE q == worker[Exec(n)].seq
    <2>1. /\ q \in 1 .. KernelLen /\ q \in Seqs /\ log[q] = NoEvent
          /\ log' = [log EXCEPT ![q] = KernelDoc(q)]
          /\ \A j \in Seqs : j < q => log[j] = KernelDoc(j)
      BY <1>3, KernelAppends
    <2>2. m <= q
      BY <1>1, <1>2, <2>1 DEF LogContiguous, Seqs, KernelLen
    <2>3. k < q /\ k \in 1 .. KernelLen /\ k # KernelLen
      BY <2>1, <2>2 DEF Seqs, KernelLen
    <2>4. log'[k] = KernelDoc(k)
      BY <1>1, <2>1, <2>3
    <2> QED BY <2>3, <2>4, DocumentFacts
  <1>4. ASSUME NEW r \in Requests, RecordStartFailure(r)
        PROVE  FALSE
    <2>1. /\ log[1] = NoEvent
          /\ log' = [log EXCEPT ![1] = StartFailureLog(r)[1], ![2] = StartFailureLog(r)[2]]
      BY <1>4, FailureIsAppended
    <2>2. m = 1 \/ m = 2
      BY <1>1, <2>1, NothingYet
    <2>3. k = 1 /\ log'[1] = StartFailureLog(r)[1]
      BY <1>1, <2>1, <2>2 DEF Seqs, KernelLen
    <2> QED BY <2>3, DocumentFacts
  <1>5. ASSUME NEW s \in FinalStatuses, NEW n \in 1 .. FinalizeAttempts, AppendStarted(s, n)
        PROVE  FALSE
    <2>1. log[1] = NoEvent /\ log' = [log EXCEPT ![1] = WorkerEvent("run.started")]
      BY <1>5, StartedIsAppended
    <2>2. m = 1
      BY <1>1, <2>1, NothingYet
    <2> QED BY <2>2 DEF Seqs, KernelLen
  <1>6. ASSUME NEW s \in FinalStatuses, NEW n \in 1 .. FinalizeAttempts, AppendTerminal(s, n)
        PROVE  m = k + 1 /\ log'[m].type \in TerminalEvents
    <2> DEFINE q == worker[<<s, n>>].seq
    <2>1. /\ q \in 1 .. KernelLen /\ q \in Seqs /\ q + 1 \in Seqs
          /\ worker[<<s, n>>].pc = "end"
          /\ log[q] # NoEvent /\ log[q + 1] = NoEvent
          /\ log' = [log EXCEPT ![q + 1] = WorkerEvent(TerminalType(s))]
          /\ act[s].state # "idle"
      BY <1>6, TerminalIsAppended
    <2>2. m <= q + 1
      BY <1>1, <1>2, <2>1 DEF LogContiguous, Seqs, KernelLen
    <2>3. CASE m <= q
      <3>1. m # q + 1 /\ k # q + 1
        BY <2>1, <2>3 DEF Seqs, KernelLen
      <3>2. log'[m] = log[m] /\ log'[k] = log[k]
        BY <1>1, <2>1, <3>1
      <3> QED BY <3>2 DEF NothingAfterTerminal
    <2>4. CASE m = q + 1 /\ k = q
      BY <1>1, <2>1, <2>4, DocumentFacts
    <2>5. CASE m = q + 1 /\ k # q
      <3>1. k < q /\ k # q + 1
        BY <2>1, <2>5 DEF Seqs, KernelLen
      <3>2. log[k].type \in TerminalEvents
        BY <1>1, <2>1, <3>1
      <3>3. q = k + 1 /\ log[q].type \in TerminalEvents
        BY <2>1, <3>1, <3>2 DEF NothingAfterTerminal
      <3>4. CASE \A j \in 1 .. KernelLen : log[j] = KernelDoc(j)
        <4>1. k \in 1 .. KernelLen /\ k # KernelLen
          BY <2>1, <3>1 DEF Seqs, KernelLen
        <4> QED BY <3>2, <3>4, <4>1, DocumentFacts
      <3>5. CASE q = 2 /\ log[1].by # "worker"
        <4>1. k = 1 /\ \E r \in Requests : log[1] = StartFailureLog(r)[1]
          BY <3>3, <3>5 DEF StartFailureIsWhole, Seqs, KernelLen
        <4> QED BY <3>2, <4>1, DocumentFacts
      <3>6. CASE \E f \in FinalStatuses :
                    act[f].state # "idle" /\ log[q].type = TerminalType(f)
        <4>1. log[q].type = TerminalType(s)
          BY <2>1, <3>6 DEF IInv, OneFinalizer, FinalStatuses
        <4> QED BY <2>1, <4>1 DEF FinalizersContinue
      <3> QED BY <2>1, <3>3, <3>4, <3>5, <3>6 DEF TerminalsHaveOrigin
    <2> QED BY <2>1, <2>2, <2>3, <2>4, <2>5 DEF Seqs, KernelLen
  <1> QED BY <1>3, <1>4, <1>5, <1>6, RowSteps
          DEF Quiet, CreateIdempotent, InvokeTool, SaveTrace, FinalizeRun

-----------------------------------------------------------------------------
(* The invariant, and the theorems.                                        *)

LEMMA EndsBegin == Init => EndsInv
  <1> SUFFICES ASSUME Init PROVE EndsInv
    OBVIOUS
  <1>1. /\ \A k \in Seqs : log[k] = NoEvent
        /\ \A t \in Attempts : worker[t].pc = "idle"
        /\ \A a \in Activities : act[a].state = "idle"
        /\ status = "absent" /\ wf = "none" /\ 1 \in Seqs
    BY DEF Init, EmptyLog, Idle, Attempt, Seqs, KernelLen
  <1>2. ReportsAreStored /\ ActivityResultIsStored /\ CompletedMeansExecuted
    BY <1>1 DEF ReportsAreStored, ActivityResultIsStored, CompletedMeansExecuted, Activities
  <1>3. StartFailureIsWhole /\ StartFailureIsClean
    BY <1>1, DocumentFacts DEF StartFailureIsWhole, StartFailureIsClean
  <1>4. TerminalsHaveOrigin /\ NothingAfterTerminal
    BY <1>1, DocumentFacts DEF TerminalsHaveOrigin, NothingAfterTerminal
  <1>5. FinalizersContinue
    BY <1>1, AttemptKinds DEF FinalizersContinue
  <1> QED BY <1>2, <1>3, <1>4, <1>5 DEF EndsInv

\* Every reachable state satisfies the invariant of how runs end.
THEOREM EndsAreInvariant == Spec => []EndsInv
  <1>1. IInv /\ EndsInv /\ [Next]_vars => EndsInv'
    BY ReportsStayStored, ResultsStayStored, CompletedStaysExecuted, StartFailureStays,
       OriginsStay, FinalizersStayBehind, NothingFollows DEF EndsInv
  <1> QED BY EndsBegin, <1>1, InductiveInvariant, PTL DEF Spec

\* What the Temporal server took for a success is the outcome of the run.
THEOREM ResultsAreStored == Spec => []ActivityResultIsStored
  <1>1. EndsInv => ActivityResultIsStored
    BY DEF EndsInv
  <1> QED BY <1>1, EndsAreInvariant, PTL

\* A completed run was executed to the end, whoever else was under way.
THEOREM CompletedIsExecuted == Spec => []CompletedMeansExecuted
  <1>1. EndsInv => CompletedMeansExecuted
    BY DEF EndsInv
  <1> QED BY <1>1, EndsAreInvariant, PTL

\* Nothing is ever executed for a run whose start failed in the client's eyes.
THEOREM FailedStartIsClean == Spec => []StartFailureIsClean
  <1>1. EndsInv => StartFailureIsClean
    BY DEF EndsInv
  <1> QED BY <1>1, EndsAreInvariant, PTL

\* No zombie, retry or finalizer goes on behind a terminal event.
THEOREM TerminalEndsTheLog == Spec => []NothingAfterTerminal
  <1>1. EndsInv => NothingAfterTerminal
    BY DEF EndsInv
  <1> QED BY <1>1, EndsAreInvariant, PTL

-----------------------------------------------------------------------------
(* The contract speaks of the same documents.                              *)

LEMMA SameWords ==
    /\ Contract!Seqs = Seqs
    /\ Contract!EventTypes = EventTypes
    /\ Contract!TerminalEvents = TerminalEvents
    /\ Contract!NoEvent = NoEvent
    /\ Contract!EmptyLog = EmptyLog
    /\ Contract!NoTrace = NoTrace
    /\ \A e, k : Contract!IsLast(e, k) <=> IsLast(e, k)
    /\ \A e, k : Contract!UpTo(e, k) = UpTo(e, k)
    /\ \A type : Contract!WorkerEvent(type) = WorkerEvent(type)
  <1>1. Contract!KernelLen = KernelLen
    BY DEF Contract!KernelLen, KernelLen
  <1>2. Contract!Seqs = Seqs
    BY <1>1 DEF Contract!Seqs, Seqs
  <1>3. Contract!TerminalEvents = TerminalEvents
    BY DEF Contract!TerminalEvents, TerminalEvents
  <1>4. Contract!EventTypes = EventTypes
    BY <1>3 DEF Contract!EventTypes, EventTypes
  <1>5. Contract!NoEvent = NoEvent
    BY DEF Contract!NoEvent, NoEvent
  <1>6. Contract!EmptyLog = EmptyLog
    BY <1>2, <1>5 DEF Contract!EmptyLog, EmptyLog
  <1>7. Contract!NoTrace = NoTrace
    BY <1>6 DEF Contract!NoTrace, NoTrace
  <1>8. \A e, k : Contract!IsLast(e, k) <=> IsLast(e, k)
    BY <1>2, <1>5 DEF Contract!IsLast, IsLast
  <1>9. \A e, k : Contract!UpTo(e, k) = UpTo(e, k)
    BY <1>2, <1>5 DEF Contract!UpTo, UpTo
  <1>10. \A type : Contract!WorkerEvent(type) = WorkerEvent(type)
    BY DEF Contract!WorkerEvent, WorkerEvent
  <1> QED BY <1>2, <1>3, <1>4, <1>5, <1>6, <1>7, <1>8, <1>9, <1>10

LEMMA SameTraces ==
    /\ Contract!Traces = Traces
    /\ \A s \in TerminalStatuses : Contract!TerminalType(s) = TerminalType(s)
    /\ \A r : Contract!StartFailureTrace(r) = StartFailureTrace(r)
    /\ \A t, to : Contract!Deliveries(t, to) = Deliveries(t, to)
  <1>1. Contract!TerminalStatuses = TerminalStatuses
    BY DEF Contract!TerminalStatuses, TerminalStatuses
  <1>2. Contract!Writers = Writers
    BY DEF Contract!Writers, Writers
  <1>3. Contract!Documents = Documents
    BY <1>2, SameWords DEF Contract!Documents, Documents
  <1>4. Contract!Logs = Logs
    BY <1>3, SameWords DEF Contract!Logs, Logs
  <1>5. Contract!Traces = Traces
    BY <1>1, <1>2, <1>4 DEF Contract!Traces, Traces
  <1>6. \A s \in TerminalStatuses : Contract!TerminalType(s) = TerminalType(s)
    BY DEF Contract!TerminalType, TerminalType, TerminalStatuses
  <1>7. ASSUME NEW r PROVE Contract!StartFailureTrace(r) = StartFailureTrace(r)
    <2>1. Contract!StartFailureLog(r) = StartFailureLog(r)
      BY SameWords DEF Contract!StartFailureLog, StartFailureLog
    <2> QED BY <2>1 DEF Contract!StartFailureTrace, StartFailureTrace
  <1>8. ASSUME NEW t, NEW to PROVE Contract!Deliveries(t, to) = Deliveries(t, to)
    <2>1. Contract!LastTerminal(t.events) = LastTerminal(t.events)
      BY SameWords, Zenon DEF Contract!LastTerminal, LastTerminal
    <2> QED BY <2>1 DEF Contract!Deliveries, Deliveries
  <1> QED BY <1>5, <1>6, <1>7, <1>8

-----------------------------------------------------------------------------
(* Nobody works on a run that has no row.                                  *)

RowIsThere ==
    status = "absent" =>
        /\ \A r \in Requests : api[r] = "idle"
        /\ wf = "none"
        /\ \A a \in Activities : act[a].state = "idle"
        /\ \A t \in Attempts : worker[t].pc = "idle"

LEMMA RowIsThereStays ==
    ASSUME IInv, RowIsThere, [Next]_vars
    PROVE  RowIsThere'
  <1> SUFFICES ASSUME status' = "absent"
               PROVE  /\ \A r \in Requests : api'[r] = "idle"
                      /\ wf' = "none"
                      /\ \A a \in Activities : act'[a].state = "idle"
                      /\ \A t \in Attempts : worker'[t].pc = "idle"
    BY DEF RowIsThere
  <1> DEFINE Still == UNCHANGED <<api, wf, act, worker>>
  <1>1. CASE status = "absent"
    <2>0. /\ \A r \in Requests : api[r] = "idle"
          /\ wf = "none"
          /\ \A a \in Activities : act[a].state = "idle"
          /\ \A t \in Attempts : worker[t].pc = "idle"
      BY <1>1 DEF RowIsThere
    <2>1. ASSUME NEW r \in Requests, ApiStep(r) \/ StartLost(r)
          PROVE  FALSE
      BY <1>1, <2>0, <2>1 DEF ApiStep, CreateIdempotent, StartRun, StartRejected,
                              RecordStartFailure, MarkDurable, StartLost
    <2>2. CASE CancelStep \/ CancelRpcFails \/ WebhookStep \/ UNCHANGED vars
      <3>1. Still
        BY <2>2 DEF CancelStep, RequestCancel, Describe, SignalCancel, CancelRpcFails,
                    WebhookStep, Subscribe, Revoke, SetSubscription, temporal, vars
      <3> QED BY <2>0, <3>1
    <2>3. ~ WorkflowStep
      BY <2>0 DEF WorkflowStep, WorkflowBegins, ExecutionDone, CancelExecution, FinalizerDone
    <2>4. \A a \in Activities : ~ StartAttempt(a)
      BY <2>0 DEF StartAttempt
    <2>5. ASSUME NEW t \in Attempts
          PROVE  ~ AttemptStep(t) /\ ~ AttemptLost(t)
      <3>1. t[1] \in Activities /\ worker[t].pc = "idle" /\ act[t[1]].state = "idle"
        BY <2>0 DEF Attempts, Activities
      <3>2. t[1] = "execute" => t = Exec(t[2])
        BY AttemptKinds
      <3>3. t[1] \in FinalStatuses => t = <<t[1], t[2]>>
        BY AttemptKinds
      <3>4. t[1] = "execute" => ~ ExecuteRun(t[2])
        BY <3>1, <3>2 DEF ExecuteRun, EmitEvent, InvokeTool, SaveTrace, ExecConflicts
      <3>5. t[1] \in FinalStatuses => ~ FinalizeTerminalRun(t[1], t[2])
        BY <3>1, <3>3 DEF FinalizeTerminalRun, ListEvents, AppendStarted, AppendTerminal,
                          FinalizeRun, FinalizerConflicts
      <3>6. ~ AttemptReports(t) /\ ~ AttemptLost(t)
        BY <3>1 DEF AttemptReports, AttemptLost, IsCurrent
      <3> QED BY <3>4, <3>5, <3>6 DEF AttemptStep
    <2> QED BY <2>1, <2>2, <2>3, <2>4, <2>5 DEF Next, CalmNext, FaultNext, ServerStep
  <1>2. CASE status # "absent"
    <2>1. ASSUME NEW k, NEW doc, AppendEvent(k, doc)
          PROVE  FALSE
      BY <1>2, <2>1 DEF AppendEvent
    <2>2. ASSUME NEW t \in Traces, FinalizeTrace(t)
          PROVE  FALSE
      BY <1>2, <2>2 DEF FinalizeTrace, Traces, TerminalStatuses
    <2>3. ASSUME NEW r \in Requests, CreateIdempotent(r) \/ RecordStartFailure(r)
          PROVE  FALSE
      BY <1>2, <2>2, <2>3, StartFailureFacts DEF CreateIdempotent, RecordStartFailure
    <2>4. ASSUME NEW n \in 1 .. ExecuteAttempts, EmitEvent(n) \/ InvokeTool(n) \/ SaveTrace(n)
          PROVE  FALSE
      BY <1>2, <2>1, <2>2, <2>4, KernelDocFacts DEF EmitEvent, InvokeTool, SaveTrace
    <2>5. ASSUME NEW s \in FinalStatuses, NEW n \in 1 .. FinalizeAttempts,
                 AppendStarted(s, n) \/ AppendTerminal(s, n) \/ FinalizeRun(s, n)
          PROVE  FALSE
      <3>1. s \in TerminalStatuses
        BY DEF FinalStatuses, TerminalStatuses
      <3>2. ~ FinalizeTrace(FinalTrace(s, n))
        BY <1>2, <3>1 DEF FinalizeTrace, FinalTrace, TerminalStatuses
      <3> QED BY <2>1, <2>5, <3>2 DEF AppendStarted, AppendTerminal, FinalizeRun, FinalizerAppends
    <2> QED BY <1>2, <2>3, <2>4, <2>5, RowSteps DEF Quiet
  <1> QED BY <1>1, <1>2

-----------------------------------------------------------------------------
(* The two transactions of the attempts.                                   *)

\* An append is a step of the contract, if it is at the first free sequence
\* and of an event that may come there; or the event is there already.
LEMMA AppendIsRecord ==
    ASSUME IInv, RowIsThere, NEW k \in Seqs, NEW type \in EventTypes,
           AppendEvent(k, WorkerEvent(type)), UNCHANGED <<trace, tool, outbox>>,
           status # "absent",
           log[k] = NoEvent =>
              /\ \A j \in Seqs : j < k => log[j] # NoEvent
              /\ k = 1 <=> type = "run.started"
              /\ \A m \in Seqs : log[m].type \in TerminalEvents => type \in TerminalEvents
              /\ type = "tool.completed" => tool = 1
    PROVE  [Contract!Next]_Contract!rows
  <1>1. log \in Logs /\ WorkerEvent(type).type = type
    BY DEF IInv, TypeOK, WorkerEvent
  <1>2. CASE log[k] # NoEvent
    <2>1. log' = log /\ status' = status
      BY <1>1, <1>2 DEF AppendEvent, CanAppend, Logs
    <2> QED BY <2>1 DEF Contract!rows
  <1>3. CASE log[k] = NoEvent
    <2>1. IsLast(log, k - 1)
      <3>1. \A m \in Seqs : m > k - 1 => log[m] = NoEvent
        BY <1>3 DEF IInv, LogContiguous, Seqs, KernelLen
      <3>2. k - 1 # 0 => log[k - 1] # NoEvent
        BY <1>3 DEF Seqs, KernelLen
      <3> QED BY <3>1, <3>2 DEF IsLast
    <2>2. /\ log' = [log EXCEPT ![k] = WorkerEvent(type)]
          /\ status' = IF k = 1 /\ status = "queued" THEN "running" ELSE status
      BY <1>1, <1>3 DEF AppendEvent
    <2>3. Contract!HasTerminal(log) => type \in TerminalEvents
      BY <1>3, SameWords DEF Contract!HasTerminal
    <2>4. Contract!Record
      BY <1>3, <2>1, <2>2, <2>3, SameWords DEF Contract!Record
    <2> QED BY <2>4 DEF Contract!Next
  <1> QED BY <1>2, <1>3

\* A trace is stored once; the same trace again adds deliveries at most.
LEMMA FinalizeIsSettle ==
    ASSUME IInv, NEW t \in Traces, FinalizeTrace(t), UNCHANGED tool,
           status # "absent",
           \/ log' = log /\ t.by = "worker"
           \/ log = EmptyLog /\ log' = t.events /\ \E r \in Requests : t = StartFailureTrace(r),
           trace = t => log' = log,
           NEW k \in Seqs, t.events = UpTo(log', k),
           t.events[k].type = TerminalType(t.status),
           t.status = "completed" => tool = 1
    PROVE  [Contract!Next]_Contract!rows
  <1>1. t # NoTrace /\ t.status \in TerminalStatuses
    BY TracesAreSomething DEF Traces
  <1>2. CASE trace = t
    <2>1. log' = log /\ trace' = trace /\ status' = status
      BY <1>1, <1>2 DEF FinalizeTrace
    <2>2. outbox' = outbox \cup Contract!Deliveries(trace, Listening)
      BY <1>2, SameTraces DEF FinalizeTrace
    <2>3. Listening \in SUBSET Subscriptions
      BY DEF Listening
    <2>4. Contract!Deliver
      BY <1>1, <1>2, <2>1, <2>2, <2>3, SameWords DEF Contract!Deliver
    <2> QED BY <2>4 DEF Contract!Next
  <1>3. CASE trace # t
    <2>1. trace = NoTrace /\ trace' = t /\ status' = t.status
      BY <1>3 DEF FinalizeTrace, CanFinalize
    <2>2. status \in {"queued", "running"}
      BY <2>1 DEF IInv, TypeOK, StatusAgreesWithTrace
    <2>3. outbox' \in SUBSET Deliveries(t, Subscriptions)
      <3>1. outbox' = Deliveries(t, Listening)
        BY <2>1 DEF FinalizeTrace, IInv, OutboxOfTrace
      <3> QED BY <3>1 DEF Deliveries, Listening
    <2>4. Contract!Settle
      BY <1>1, <2>1, <2>2, <2>3, SameWords, SameTraces DEF Contract!Settle
    <2> QED BY <2>4 DEF Contract!Next
  <1> QED BY <1>2, <1>3

-----------------------------------------------------------------------------
(* Each of the steps that write.                                           *)

LEMMA CreateIsAccept ==
    ASSUME NEW r \in Requests, CreateIdempotent(r)
    PROVE  [Contract!Next]_Contract!rows
  BY DEF CreateIdempotent, Contract!Next, Contract!Accept, Contract!rows

LEMMA StartFailureIsSettle ==
    ASSUME IInv, EndsInv, RowIsThere, NEW r \in Requests, RecordStartFailure(r)
    PROVE  [Contract!Next]_Contract!rows
  <1> DEFINE t == StartFailureTrace(r)
  <1>1. CASE UNCHANGED <<log, status, trace, outbox>>
    BY <1>1 DEF RecordStartFailure, Contract!rows
  <1>2. CASE /\ CanAppend(1, StartFailureLog(r)[1])
             /\ CanAppend(2, StartFailureLog(r)[2])
             /\ FinalizeTrace(t)
             /\ log' = [log EXCEPT ![1] = StartFailureLog(r)[1], ![2] = StartFailureLog(r)[2]]
    <2>1. log \in Logs /\ UNCHANGED tool /\ status # "absent"
      BY DEF RecordStartFailure, IInv, TypeOK, RowIsThere
    <2>2. r # "worker" /\ StartFailureLog(r)[1].by = r
      BY RequestsAssumption DEF StartFailureLog, Seqs, KernelLen
    <2>3. /\ t \in Traces /\ t.status = "failed" /\ t.events = StartFailureLog(r)
          /\ t.events = UpTo(StartFailureLog(r), 2)
          /\ t.events[2].type = TerminalType("failed") /\ 2 \in Seqs
      BY StartFailureFacts DEF StartFailureTrace, StartFailureLog, UpTo, Seqs, KernelLen
    <2>4. CASE log[1] = NoEvent
      <3>1. log = EmptyLog
        <4>1. \A k \in Seqs : log[k] = NoEvent
          BY <2>4 DEF IInv, LogContiguous, Seqs, KernelLen
        <4> QED BY <2>1, <4>1 DEF Logs, EmptyLog
      <3>2. log' = StartFailureLog(r)
        BY <1>2, <3>1 DEF EmptyLog, StartFailureLog, Seqs, KernelLen
      <3>3. trace # t
        <4>1. \A k \in Seqs : \A s \in TerminalStatuses : log[k].type # TerminalType(s)
          BY <3>1, NoTerminalIsNone DEF EmptyLog
        <4>2. trace = NoTrace
          BY <4>1 DEF IInv, StatusAgreesWithTrace
        <4> QED BY <2>3, <4>2, TracesAreSomething
      <3> HIDE DEF t
      <3>4. t = StartFailureTrace(r)
        BY DEF t
      <3> QED BY <1>2, <2>1, <2>3, <3>1, <3>2, <3>3, <3>4, FinalizeIsSettle
    <2>5. CASE log[1] # NoEvent
      <3>1. log[1] = StartFailureLog(r)[1]
        BY <1>2, <2>5 DEF CanAppend
      <3>2. log[2] = StartFailureLog(r)[2]
        <4>1. PICK q \in Requests : \A k \in {1, 2} : log[k] = StartFailureLog(q)[k]
          BY <2>2, <3>1 DEF EndsInv, StartFailureIsWhole
        <4>2. StartFailureLog(q)[1].by = q
          BY DEF StartFailureLog, Seqs, KernelLen
        <4>3. q = r
          BY <2>2, <3>1, <4>1, <4>2
        <4> QED BY <4>1, <4>3
      <3>3. log' = log
        BY <1>2, <2>1, <3>1, <3>2 DEF Logs
      <3>4. trace = t
        BY <2>2, <3>1 DEF EndsInv, StartFailureIsClean
      <3>5. trace' = trace /\ status' = status /\ trace # NoTrace
        BY <1>2, <2>3, <3>4, TracesAreSomething DEF FinalizeTrace
      <3>6. /\ outbox' = outbox \cup Contract!Deliveries(trace, Listening)
            /\ Listening \in SUBSET Subscriptions
        BY <1>2, <3>4, SameTraces DEF FinalizeTrace, Listening
      <3>7. Contract!Deliver
        BY <2>1, <3>3, <3>5, <3>6, SameWords DEF Contract!Deliver
      <3> QED BY <3>7 DEF Contract!Next
    <2> QED BY <2>4, <2>5
  <1> QED BY <1>1, <1>2 DEF RecordStartFailure

LEMMA WorkingMeansThere ==
    ASSUME RowIsThere, NEW t \in Attempts, worker[t].pc # "idle"
    PROVE  status # "absent"
  BY DEF RowIsThere

LEMMA EmitIsRecord ==
    ASSUME IInv, RowIsThere, NEW n \in 1 .. ExecuteAttempts, EmitEvent(n)
    PROVE  [Contract!Next]_Contract!rows
  <1> DEFINE k == worker[Exec(n)].seq
  <1>1. /\ worker[Exec(n)].pc = "append" /\ AppendEvent(k, WorkerEvent(KernelEvents[k]))
        /\ UNCHANGED <<trace, tool, outbox>>
    BY DEF EmitEvent, KernelDoc
  <1>2. /\ k \in 1 .. KernelLen /\ status # "absent"
        /\ \A j \in Seqs : j < k => log[j] = KernelDoc(j)
        /\ k > 5 => tool = 1
    BY <1>1, AttemptKinds, WorkingMeansThere DEF IInv, AttemptsProgress, KernelAttempt
  <1> HIDE DEF k
  <1>3. /\ k \in Seqs /\ KernelEvents[k] \in EventTypes
        /\ k = 1 <=> KernelEvents[k] = "run.started"
        /\ KernelEvents[k] = "tool.completed" => k = 6
    <2>1. k = 1 \/ k = 2 \/ k = 3 \/ k = 4 \/ k = 5 \/ k = 6 \/ k = 7 \/ k = 8
      BY <1>2 DEF KernelLen
    <2> QED BY <2>1 DEF KernelEvents, EventTypes, TerminalEvents, Seqs, KernelLen
  <1>4. ASSUME log[k] = NoEvent
        PROVE  /\ \A j \in Seqs : j < k => log[j] # NoEvent
               /\ \A m \in Seqs : log[m].type \notin TerminalEvents
    <2>1. \A j \in Seqs : j < k => j \in 1 .. KernelLen - 1
      BY <1>2 DEF Seqs, KernelLen
    <2>2. \A j \in 1 .. KernelLen - 1 : KernelDoc(j).type \notin TerminalEvents
      <3> SUFFICES ASSUME NEW j \in 1 .. KernelLen - 1
                   PROVE  KernelDoc(j).type \notin TerminalEvents
        OBVIOUS
      <3>1. j = 1 \/ j = 2 \/ j = 3 \/ j = 4 \/ j = 5 \/ j = 6 \/ j = 7
        BY DEF KernelLen
      <3> QED BY <3>1 DEF KernelDoc, WorkerEvent, KernelEvents, TerminalEvents
    <2>3. \A m \in Seqs : m >= k => log[m] = NoEvent
      BY <1>3, <1>4 DEF IInv, LogContiguous, Seqs, KernelLen
    <2>4. \A m \in Seqs : log[m].type \notin TerminalEvents
      <3> SUFFICES ASSUME NEW m \in Seqs PROVE log[m].type \notin TerminalEvents
        OBVIOUS
      <3>1. m < k \/ m >= k
        BY <1>3 DEF Seqs, KernelLen
      <3> QED BY <1>2, <2>1, <2>2, <2>3, <3>1 DEF NoEvent, TerminalEvents
    <2>5. \A j \in 1 .. KernelLen : KernelDoc(j) # NoEvent
      BY KernelDocFacts
    <2> QED BY <1>2, <2>1, <2>4, <2>5 DEF KernelLen
  <1> QED BY <1>1, <1>2, <1>3, <1>4, AppendIsRecord

LEMMA ToolIsUsed ==
    ASSUME IInv, NEW n \in 1 .. ExecuteAttempts, InvokeTool(n)
    PROVE  [Contract!Next]_Contract!rows
  <1>1. CASE tool # 0
    BY <1>1 DEF InvokeTool, Contract!rows
  <1>2. CASE tool = 0
    <2>1. worker[Exec(n)].pc = "tool" /\ KernelAttempt(n)
      BY DEF InvokeTool, IInv, AttemptsProgress
    <2>2. 5 \in Seqs /\ log[5] = KernelDoc(5)
      BY <2>1 DEF KernelAttempt, Seqs, KernelLen
    <2>3. log[5].type = "tool.requested"
      BY <2>2 DEF KernelDoc, WorkerEvent, KernelEvents
    <2>4. Contract!UseTool
      BY <1>2, <2>2, <2>3, SameWords DEF InvokeTool, Contract!UseTool
    <2> QED BY <2>4 DEF Contract!Next
  <1> QED BY <1>1, <1>2

LEMMA SaveIsSettle ==
    ASSUME IInv, RowIsThere, NEW n \in 1 .. ExecuteAttempts, SaveTrace(n)
    PROVE  [Contract!Next]_Contract!rows
  <1>1. /\ worker[Exec(n)].pc = "save" /\ KernelAttempt(n) /\ status # "absent"
        /\ FinalizeTrace(KernelTrace) /\ log' = log /\ tool' = tool
    BY AttemptKinds, WorkingMeansThere DEF SaveTrace, IInv, AttemptsProgress
  <1>2. tool = 1 /\ \A k \in 1 .. KernelLen : log[k] = KernelDoc(k)
    BY <1>1 DEF KernelAttempt, Seqs, KernelLen
  <1>3. KernelTrace.events = UpTo(log, KernelLen)
    BY <1>2 DEF KernelTrace, UpTo, Seqs, KernelLen
  <1>4. /\ KernelLen \in Seqs /\ KernelTrace.by = "worker"
        /\ KernelTrace.events[KernelLen].type = TerminalType(KernelTrace.status)
    BY <1>2, <1>3, KernelDocFacts DEF KernelTrace, UpTo, Seqs, KernelLen
  <1> QED BY <1>1, <1>2, <1>3, <1>4, KernelDocFacts, FinalizeIsSettle

LEMMA FinalizerRefines ==
    ASSUME IInv, RowIsThere, NEW s \in FinalStatuses, NEW n \in 1 .. FinalizeAttempts,
           AppendStarted(s, n) \/ AppendTerminal(s, n) \/ FinalizeRun(s, n)
    PROVE  [Contract!Next]_Contract!rows
  <1> DEFINE w == worker[<<s, n>>]
  <1>1. /\ FinalizerAttempt(s, n) /\ status # "absent"
        /\ s \in TerminalStatuses /\ s # "completed" /\ w \in AttemptStates /\ log \in Logs
    <2>1. worker[<<s, n>>].pc # "idle" /\ <<s, n>> \in Attempts
      BY AttemptKinds DEF AppendStarted, AppendTerminal, FinalizeRun
    <2>2. status # "absent"
      BY <2>1, WorkingMeansThere
    <2> QED BY <2>1, <2>2 DEF IInv, TypeOK, AttemptsProgress, FinalStatuses, TerminalStatuses
  <1>2. CASE AppendStarted(s, n)
    <2>1. AppendEvent(1, WorkerEvent("run.started")) /\ UNCHANGED <<trace, tool, outbox>>
      BY <1>2 DEF AppendStarted, FinalizerAppends
    <2>2. 1 \in Seqs /\ "run.started" \in EventTypes /\ \A j \in Seqs : ~ j < 1
      BY DEF Seqs, KernelLen, EventTypes
    <2>3. log[1] = NoEvent => \A m \in Seqs : log[m].type \notin TerminalEvents
      <3>1. log[1] = NoEvent => \A m \in Seqs : log[m] = NoEvent
        BY DEF IInv, LogContiguous, Seqs, KernelLen
      <3> QED BY <3>1 DEF NoEvent, TerminalEvents
    <2> QED BY <1>1, <2>1, <2>2, <2>3, AppendIsRecord
  <1>3. CASE AppendTerminal(s, n)
    <2>1. /\ AppendEvent(w.seq + 1, WorkerEvent(TerminalType(s)))
          /\ UNCHANGED <<trace, tool, outbox>> /\ w.pc = "end"
      BY <1>3 DEF AppendTerminal, FinalizerAppends
    <2>2. w.seq \in 1 .. KernelLen /\ log[w.seq] # NoEvent
      BY <1>1, <2>1 DEF FinalizerAttempt
    <2>3. TerminalType(s) \in TerminalEvents
      BY <1>1, TerminalTypeFacts
    <2>4. PICK type \in EventTypes : type = TerminalType(s)
      BY <2>3 DEF EventTypes
    <2>5. PICK k \in Seqs : k = w.seq + 1
      BY <2>2 DEF Seqs, KernelLen
    <2>6. \A j \in Seqs : j < k => log[j] # NoEvent
      BY <2>2, <2>5 DEF IInv, LogContiguous, Seqs, KernelLen
    <2>7. k # 1 /\ type # "run.started" /\ type # "tool.completed" /\ type \in TerminalEvents
      BY <2>2, <2>3, <2>4, <2>5 DEF TerminalEvents, KernelLen
    <2> QED BY <1>1, <2>1, <2>4, <2>5, <2>6, <2>7, AppendIsRecord
  <1>4. CASE FinalizeRun(s, n)
    <2>1. /\ w.pc = "save" /\ FinalizeTrace(FinalTrace(s, n)) /\ log' = log /\ tool' = tool
      BY <1>4 DEF FinalizeRun
    <2>2. /\ w.seq \in Seqs /\ log[w.seq].type = TerminalType(s)
          /\ w.seen = UpTo(log, w.seq)
      BY <1>1, <2>1 DEF FinalizerAttempt
    <2>3. /\ FinalTrace(s, n) \in Traces /\ FinalTrace(s, n).status = s
          /\ FinalTrace(s, n).events = UpTo(log, w.seq) /\ FinalTrace(s, n).by = "worker"
      BY <1>1, <2>2 DEF FinalTrace, Traces, AttemptStates, Writers
    <2>4. UpTo(log, w.seq)[w.seq] = log[w.seq]
      BY <2>2 DEF UpTo, Seqs, KernelLen
    <2> QED BY <1>1, <2>1, <2>2, <2>3, <2>4, FinalizeIsSettle
  <1> QED BY <1>2, <1>3, <1>4

\* Readers of the rows may rely on RunContract, whoever writes them.
THEOREM LifecycleImplementsContract == Spec => ImplementsContract
  <1>1. Init => Contract!Init
    BY SameWords DEF Init, Contract!Init
  <1>2. Init => RowIsThere
    <2>1. \A t \in Attempts : Init => worker[t].pc = "idle"
      BY DEF Init, Idle, Attempt
    <2> QED BY <2>1 DEF Init, RowIsThere
  <1>3. IInv /\ RowIsThere /\ [Next]_vars => RowIsThere'
    BY RowIsThereStays
  <1>4. IInv /\ EndsInv /\ RowIsThere /\ [Next]_vars => [Contract!Next]_Contract!rows
    <2> SUFFICES ASSUME IInv, EndsInv, RowIsThere, [Next]_vars
                 PROVE  [Contract!Next]_Contract!rows
      OBVIOUS
    <2>1. CASE Quiet
      BY <2>1 DEF Quiet, Contract!rows
    <2>2. ASSUME NEW r \in Requests, CreateIdempotent(r) \/ RecordStartFailure(r)
          PROVE  [Contract!Next]_Contract!rows
      BY <2>2, CreateIsAccept, StartFailureIsSettle
    <2>3. ASSUME NEW n \in 1 .. ExecuteAttempts, EmitEvent(n) \/ InvokeTool(n) \/ SaveTrace(n)
          PROVE  [Contract!Next]_Contract!rows
      BY <2>3, EmitIsRecord, ToolIsUsed, SaveIsSettle
    <2>4. ASSUME NEW s \in FinalStatuses, NEW n \in 1 .. FinalizeAttempts,
                 AppendStarted(s, n) \/ AppendTerminal(s, n) \/ FinalizeRun(s, n)
          PROVE  [Contract!Next]_Contract!rows
      BY <2>4, FinalizerRefines
    <2> QED BY <2>1, <2>2, <2>3, <2>4, RowSteps
  <1> QED BY <1>1, <1>2, <1>3, <1>4, InductiveInvariant, EndsAreInvariant, PTL
          DEF Spec, ImplementsContract, Contract!Spec

=============================================================================
