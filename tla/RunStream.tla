------------------------------ MODULE RunStream ------------------------------
(***************************************************************************)
(* The Studio's view of a run: stream_run_events polls the rows and sends  *)
(* the events of the run over a Server-Sent Events connection, and the     *)
(* page (useRunEvents) shows them, reconnecting from the last sequence it  *)
(* has seen, until it has the terminal event; then it loads the trace.     *)
(*                                                                         *)
(* The rows are written by whoever keeps RunContract; the stream and the   *)
(* page only read them, one query at a time, so anything may be written    *)
(* between the query for the events and the query for the status.          *)
(***************************************************************************)
EXTENDS RunWriters

CONSTANTS
    MaxErrors,      \* failed connections in a row before the page gives up (8)
    TraceLoads,     \* times the page asks for the trace (10 in RunWorkspace, 1 in
                    \* DraftTestConsole)
    MaxLosses,      \* bound: lost connections and page reloads explored
    MaxRunOuts      \* bound: connections that use up their max_polls explored

ASSUME StreamAssumption ==
    /\ MaxErrors \in Nat \ {0}
    /\ TraceLoads \in Nat \ {0}
    /\ MaxLosses \in Nat
    /\ MaxRunOuts \in Nat

VARIABLES
    conn,       \* the generator stream_run_events behind the connection
    wire,       \* events sent and not yet read by the page
    page,       \* useRunEvents and the trace panel
    losses,     \* lost connections and reloads so far
    runOuts     \* connections that have used up their polls so far

bounds == <<losses, runOuts>>
vars == <<status, log, trace, tool, outbox, conn, wire, page, bounds>>

Frames == [seq : Seqs, doc : Documents]
Closed == [pc |-> "none", cursor |-> 0, upto |-> 0]
Opened == [state |-> "connecting", events |-> EmptyLog, cursor |-> 0, attempt |-> 0,
           received |-> FALSE, trace |-> "none", loads |-> 0]

TypeOK ==
    /\ conn \in [pc : {"none", "list", "send", "returned"}, cursor : Seqs \cup {0},
                 upto : Seqs \cup {0}]
    /\ wire \in Seq(Frames)
    /\ page \in [state : {"connecting", "live", "reconnecting", "complete", "error"},
                 events : Logs,
                 cursor : Seqs \cup {0},
                 attempt : Nat,
                 received : BOOLEAN,
                 trace : {"none", "shown", "given_up"},
                 loads : 0 .. TraceLoads]
    /\ losses \in 0 .. MaxLosses
    /\ runOuts \in 0 .. MaxRunOuts

Init ==
    /\ Store!Init
    /\ conn = Closed
    /\ wire = <<>>
    /\ page = Opened
    /\ losses = 0
    /\ runOuts = 0

Write == WriteRows /\ UNCHANGED <<conn, wire, page, bounds>>

-----------------------------------------------------------------------------
(* The server: one generator per connection.                               *)

\* list_events: the rows after the cursor, as of one query.
ListEvents ==
    /\ conn.pc = "list"
    /\ \E k \in Seqs \cup {0} :
          /\ IsLast(log, k)
          /\ conn' = [conn EXCEPT !.pc = "send", !.upto = IF k > conn.cursor THEN k ELSE conn.cursor]
    /\ UNCHANGED <<rows, wire, page, bounds>>

Yield ==
    /\ conn.pc = "send"
    /\ conn.cursor < conn.upto
    /\ LET k == conn.cursor + 1
       IN  /\ wire' = Append(wire, [seq |-> k, doc |-> log[k]])
           /\ conn' = [conn EXCEPT !.cursor = k,
                                   !.pc = IF log[k].type \in TerminalEvents THEN "returned" ELSE "send"]
    /\ UNCHANGED <<rows, page, bounds>>

\* Everything listed is sent; the status is read afterwards.
ReadStatus ==
    /\ conn.pc = "send"
    /\ conn.cursor = conn.upto
    /\ \/ status \in TerminalStatuses /\ conn' = [conn EXCEPT !.pc = "returned"]
       \/ status \notin TerminalStatuses /\ conn' = [conn EXCEPT !.pc = "list"]
    /\ UNCHANGED <<rows, wire, page, bounds>>

\* max_polls is used up.
RunOut ==
    /\ runOuts < MaxRunOuts
    /\ runOuts' = runOuts + 1
    /\ conn.pc = "send"
    /\ conn.cursor = conn.upto
    /\ status \notin TerminalStatuses
    /\ conn' = [conn EXCEPT !.pc = "returned"]
    /\ UNCHANGED <<rows, wire, page, losses>>

-----------------------------------------------------------------------------
(* The page.                                                               *)

Consuming == page.state \in {"connecting", "live", "reconnecting"}

\* The sequence the page acknowledges in Last-Event-ID.
M_LastEventId == page.cursor + 1
LastEventId == page.cursor

Connect ==
    /\ Consuming
    /\ conn.pc = "none"
    /\ status # "absent"
    /\ conn' = [pc |-> "list", cursor |-> LastEventId, upto |-> LastEventId]
    /\ page' = [page EXCEPT !.received = FALSE]
    /\ UNCHANGED <<rows, wire, bounds>>

Receive ==
    /\ Consuming
    /\ wire # <<>>
    /\ LET item == Head(wire)
           ended == item.doc.type \in TerminalEvents
       IN  /\ page' = [page EXCEPT
                         !.cursor = IF item.seq > @ THEN item.seq ELSE @,
                         !.events = IF @[item.seq] = NoEvent THEN [@ EXCEPT ![item.seq] = item.doc] ELSE @,
                         !.received = TRUE,
                         !.state = IF ended THEN "complete" ELSE "live"]
           /\ wire' = IF ended THEN <<>> ELSE Tail(wire)
           /\ conn' = IF ended THEN Closed ELSE conn
    /\ UNCHANGED <<rows, bounds>>

\* The response ended without the terminal event: connect again after a pause.
\* Above MaxErrors the counter's value makes no difference.
Bump(attempt) == IF attempt > MaxErrors THEN attempt ELSE attempt + 1

M_StreamEnded ==                    \* the end of the response is taken for the end of the run
    /\ conn.pc = "returned"
    /\ wire = <<>>
    /\ page' = [page EXCEPT !.attempt = 0, !.state = "live"]
    /\ UNCHANGED <<rows, conn, wire, bounds>>
StreamEnded ==
    /\ Consuming
    /\ conn.pc = "returned"
    /\ wire = <<>>
    /\ conn' = Closed
    /\ page' = [page EXCEPT !.attempt = IF page.received THEN 1 ELSE Bump(@),
                            !.state = "reconnecting"]
    /\ UNCHANGED <<rows, wire, bounds>>

\* The connection is refused or lost with whatever is still on the wire.
Lose ==
    /\ Consuming
    /\ losses < MaxLosses
    /\ losses' = losses + 1
    /\ conn' = Closed
    /\ wire' = <<>>
    /\ page' = [page EXCEPT !.attempt = Bump(@),
                            !.state = IF Bump(page.attempt) > MaxErrors THEN "error" ELSE "reconnecting"]
    /\ UNCHANGED <<rows, runOuts>>

Reload ==
    /\ losses < MaxLosses
    /\ losses' = losses + 1
    /\ conn' = Closed
    /\ wire' = <<>>
    /\ page' = Opened
    /\ UNCHANGED <<rows, runOuts>>

\* get_trace answers 409 or 503 until the run is settled.
LoadTrace ==
    /\ page.state = "complete"
    /\ page.trace = "none"
    /\ page' = [page EXCEPT
                  !.loads = @ + 1,
                  !.trace = IF trace # NoTrace THEN "shown"
                            ELSE IF page.loads + 1 < TraceLoads THEN "none" ELSE "given_up"]
    /\ UNCHANGED <<rows, conn, wire, bounds>>

StreamStep == ListEvents \/ Yield \/ ReadStatus
PageStep   == Connect \/ Receive \/ StreamEnded \/ LoadTrace

Next == Write \/ StreamStep \/ RunOut \/ PageStep \/ Lose \/ Reload

Spec == Init /\ [][Next]_vars

\* The server answers and the page goes on; nobody has to write or to fail.
FairSpec == Spec /\ WF_vars(StreamStep) /\ WF_vars(PageStep)

-----------------------------------------------------------------------------
(* Properties.                                                             *)

\* What the page shows is the log up to its cursor: no event is missing,
\* doubled or out of place, however often the connection is lost and resumed
\* (cursor and deduplication of stream_run_events and useRunEvents).
ShownIsPrefix == page.events = UpTo(log, page.cursor)

\* What is on its way continues what the page has.
WireContinues ==
    /\ \A i \in 1 .. Len(wire) :
          /\ wire[i].seq = page.cursor + i
          /\ log[wire[i].seq] = wire[i].doc
    /\ conn.pc # "none" => conn.cursor = page.cursor + Len(wire)
    /\ conn.pc = "none" => wire = <<>>
    /\ \A k \in Seqs : k <= conn.upto \/ k <= page.cursor => log[k] # NoEvent
    /\ conn.cursor <= conn.upto

\* A page that is still waiting for the trace has a load left.
LoadsLeft == page.trace = "none" => page.loads < TraceLoads

IInv == LogOK /\ TypeOK /\ ShownIsPrefix /\ WireContinues /\ LoadsLeft

\* A page that keeps watching a settled run gets to its terminal event.  The
\* other end of a watch is giving up, and no page gives up before at least
\* MaxErrors of its connections were lost or used up their polls (one more may
\* count: the connection that the end of the run itself cut short).
EveryWatcherFinishes ==
    (status \in TerminalStatuses)
        ~> (\/ page.state = "complete"
            \/ page.state = "error" /\ losses + runOuts >= MaxErrors)

=============================================================================
