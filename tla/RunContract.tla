---------------------------- MODULE RunContract -----------------------------
(***************************************************************************)
(* What the rows of a run promise to whoever reads them (the Studio, the   *)
(* SSE streams, the public API, the webhook dispatcher), whatever the      *)
(* processes that write them do: the record is queued once, its events are *)
(* appended one by one in sequence order and never rewritten, the tool     *)
(* result is stored at most once and between its two events, and the run   *)
(* is settled at most once, by a trace that is a prefix of the log ending  *)
(* in the event of its status, together with its webhook deliveries.  Of    *)
(* those there may be more later, when the same trace is stored again and a *)
(* subscription has come in between; they tell the same end.                *)
(*                                                                         *)
(* It does NOT promise that the log has a single terminal event: an event  *)
(* may be appended after a terminal one as long as it is terminal itself.  *)
(***************************************************************************)
EXTENDS RunRecord

VARIABLES status, log, trace, tool, outbox

rows == <<status, log, trace, tool, outbox>>

Init ==
    /\ status = "absent"
    /\ log = EmptyLog
    /\ trace = NoTrace
    /\ tool = 0
    /\ outbox = {}

Accept ==
    /\ status = "absent"
    /\ status' = "queued"
    /\ UNCHANGED <<log, trace, tool, outbox>>

HasTerminal(events) == \E m \in Seqs : events[m].type \in TerminalEvents

\* One more event, at the first free sequence.
Record ==
    \E k \in Seqs, type \in EventTypes :
        /\ IsLast(log, k - 1)
        /\ status # "absent"
        /\ (k = 1) <=> (type = "run.started")
        /\ HasTerminal(log) => type \in TerminalEvents
        /\ type = "tool.completed" => tool = 1
        /\ log' = [log EXCEPT ![k] = WorkerEvent(type)]
        /\ status' = IF k = 1 /\ status = "queued" THEN "running" ELSE status
        /\ UNCHANGED <<trace, tool, outbox>>

UseTool ==
    /\ tool = 0
    /\ \E k \in Seqs : log[k].type = "tool.requested"
    /\ tool' = 1
    /\ UNCHANGED <<status, log, trace, outbox>>

\* The run gets its trace: from a worker, of the events already in the log, or
\* of a failed start, whose two events are then the first ones of the log.
Settle ==
    /\ status \in {"queued", "running"}
    /\ trace = NoTrace
    /\ trace' \in Traces
    /\ status' = trace'.status
    /\ \/ UNCHANGED log /\ trace'.by = "worker"
       \/ /\ log = EmptyLog
          /\ \E r \in Requests : trace' = StartFailureTrace(r)
          /\ log' = trace'.events
    /\ \E k \in Seqs :
        /\ trace'.events = UpTo(log', k)
        /\ trace'.events[k].type = TerminalType(trace'.status)
    /\ trace'.status = "completed" => tool = 1
    /\ outbox' \in SUBSET Deliveries(trace', Subscriptions)
    /\ UNCHANGED tool

\* A delivery of the end there is, to a subscription made after it.
Deliver ==
    /\ trace # NoTrace
    /\ \E to \in SUBSET Subscriptions : outbox' = outbox \cup Deliveries(trace, to)
    /\ UNCHANGED <<status, log, trace, tool>>

Next == Accept \/ Record \/ UseTool \/ Settle \/ Deliver

Spec == Init /\ [][Next]_rows

=============================================================================
