----------------------------- MODULE RunRecord ------------------------------
(***************************************************************************)
(* The documents a run leaves in the store: run_events, run_traces and     *)
(* webhook_deliveries rows, as the worker and the control API build them.  *)
(* A document is abstracted to the fields that make two documents differ:  *)
(* an event to its type and its writer, a trace to its status, its events  *)
(* and its writer.  "worker" stands for every activity attempt: event ids  *)
(* and timestamps are derived from the run id, the sequence and the        *)
(* workflow's start time, so two attempts produce the same bytes.  A       *)
(* request of the control API stamps its own clock, so its documents       *)
(* differ from everyone else's.                                            *)
(***************************************************************************)
EXTENDS Integers, Sequences

CONSTANTS
    Requests,       \* POST /runs requests carrying the run's idempotency key
    Subscriptions,  \* webhook subscriptions of the run's agent
    Events          \* terminal event types each of them listens to

TerminalStatuses == {"completed", "failed", "cancelled"}
TerminalEvents   == {"run.completed", "run.failed", "run.cancelled"}

\* The terminal event type f"run.{status}".
TerminalType(s) ==
    CASE s = "completed" -> "run.completed"
      [] s = "failed"    -> "run.failed"
      [] s = "cancelled" -> "run.cancelled"

ASSUME RequestsAssumption   == "worker" \notin Requests
ASSUME EventsAssumption     == Events \in [Subscriptions -> SUBSET TerminalEvents]

\* The events AgentKernel.execute emits, by sequence number.
KernelEvents ==
    << "run.started", "node.started", "model.requested", "model.completed",
       "tool.requested", "tool.completed", "node.completed", "run.completed" >>

KernelLen == 8
Seqs      == 1 .. KernelLen + 1     \* a finalizer may append one event more

EventTypes == {"run.started", "node.started", "model.requested",
               "model.completed", "tool.requested", "tool.completed",
               "node.completed"} \cup TerminalEvents

Writers   == {"worker"} \cup Requests
Documents == [type : EventTypes, by : Writers]
NoEvent   == [type |-> "none", by |-> "worker"]
Logs      == [Seqs -> Documents \cup {NoEvent}]
EmptyLog  == [k \in Seqs |-> NoEvent]

Traces  == [status : TerminalStatuses, events : Logs, by : Writers]
NoTrace == [status |-> "none", events |-> EmptyLog, by |-> "worker"]

\* k is the last sequence of a list of events (0 when it is empty).
IsLast(events, k) ==
    /\ k # 0 => events[k] # NoEvent
    /\ \A m \in Seqs : m > k => events[m] = NoEvent

\* The events of a list, up to sequence k.
UpTo(events, k) == [m \in Seqs |-> IF m <= k THEN events[m] ELSE NoEvent]

WorkerEvent(type) == [type |-> type, by |-> "worker"]

\* What execute_run writes when it runs to the end.
KernelDoc(k) == WorkerEvent(KernelEvents[k])
KernelTrace ==
    [status |-> "completed",
     events |-> [k \in Seqs |-> IF k <= KernelLen THEN KernelDoc(k) ELSE NoEvent],
     by |-> "worker"]

\* What finalize_start_failure writes for request r.
StartFailureLog(r) ==
    [k \in Seqs |-> IF k = 1 THEN [type |-> "run.started", by |-> r]
                    ELSE IF k = 2 THEN [type |-> "run.failed", by |-> r]
                    ELSE NoEvent]
StartFailureTrace(r) ==
    [status |-> "failed", events |-> StartFailureLog(r), by |-> r]

\* WebhookRepository.enqueue_terminal: the last terminal event of the trace
\* gives a delivery its type and its sequence, the trace gives it its status.
\* `to` are the subscriptions found when the transaction looks for them; a
\* delivery that is there already is found again and not doubled.
M_LastTerminal(events) ==
    CHOOSE k \in Seqs :
        /\ events[k].type \in TerminalEvents
        /\ \A m \in Seqs : events[m].type \in TerminalEvents => m >= k
LastTerminal(events) ==
    CHOOSE k \in Seqs :
        /\ events[k].type \in TerminalEvents
        /\ \A m \in Seqs : events[m].type \in TerminalEvents => m <= k

Deliveries(t, to) ==
    LET k == LastTerminal(t.events)
    IN  { [to |-> s, seq |-> k, type |-> t.events[k].type, status |-> t.status] :
            s \in {u \in to : t.events[k].type \in Events[u]} }

=============================================================================
