---------------------------- MODULE PublicStream -----------------------------
(***************************************************************************)
(* The published app's view of a run: PublicService.stream_events sends    *)
(* sanitized events, whose type comes from the log and whose output comes  *)
(* from the run's row, read by another query; the page (createPublic-      *)
(* Transport and PublicAgentApp) takes its state and its result from them, *)
(* connects three times at the most, and asks for the run itself whenever  *)
(* a response ends without a terminal event.                               *)
(*                                                                         *)
(* The rows are written by whoever keeps RunContract.                      *)
(***************************************************************************)
EXTENDS RunWriters

CONSTANTS
    MaxConnections, \* connections the page opens (3)
    PollsRunOut,    \* whether a connection may use up its max_polls
    MaxLosses       \* bound: lost connections explored

ASSUME PublicStreamAssumption ==
    /\ MaxConnections \in Nat \ {0}
    /\ PollsRunOut \in BOOLEAN
    /\ MaxLosses \in Nat

VARIABLES
    conn,       \* the generator stream_events behind the connection
    wire,       \* events sent and not yet read by the page
    page,       \* transport.events and PublicAgentApp
    losses      \* lost connections so far

vars == <<status, log, trace, tool, outbox, conn, wire, page, losses>>

\* The result of a run is on its row once it is completed (output_document).
M_Output(s) == IF s \in TerminalStatuses THEN "result" ELSE "none"
Output(s) == IF s = "completed" THEN "result" ELSE "none"

PublicStatuses == {"running"} \cup TerminalStatuses

\* The status of a sanitized event.
PublicStatus(type) ==
    CASE type = "run.completed" -> "completed"
      [] type = "run.failed"    -> "failed"
      [] type = "run.cancelled" -> "cancelled"
      [] OTHER                  -> "running"

\* _sanitize_event: the event's type, the output of the run as it was last read.
Sanitize(k, run) ==
    [seq |-> k,
     status |-> PublicStatus(log[k].type),
     output |-> IF log[k].type = "run.completed" THEN Output(run) ELSE "none"]

Frames == [seq : Seqs, status : PublicStatuses, output : {"none", "result"}]

Statuses == {"absent", "queued", "running"} \cup TerminalStatuses
Closed == [pc |-> "none", cursor |-> 0, upto |-> 0, run |-> "absent"]
Opened == [pc |-> "connect", state |-> "running", output |-> "none", cursor |-> 0,
           ended |-> FALSE, connections |-> 0]

TypeOK ==
    /\ conn \in [pc : {"none", "list", "refresh", "send", "returned"},
                 cursor : Seqs \cup {0}, upto : Seqs \cup {0}, run : Statuses]
    /\ wire \in Seq(Frames)
    /\ page \in [pc : {"connect", "read", "ask", "done"},
                 state : {"running", "completed", "failed"},
                 output : {"none", "result"},
                 cursor : Seqs \cup {0},
                 ended : BOOLEAN,
                 connections : 0 .. MaxConnections]
    /\ losses \in 0 .. MaxLosses

Init ==
    /\ Store!Init
    /\ conn = Closed
    /\ wire = <<>>
    /\ page = Opened
    /\ losses = 0

Write == WriteRows /\ UNCHANGED <<conn, wire, page, losses>>

-----------------------------------------------------------------------------
(* The server.                                                             *)

\* list_events, and get_run again if there is any event.
ListEvents ==
    /\ conn.pc = "list"
    /\ \E k \in Seqs \cup {0} :
          /\ IsLast(log, k)
          /\ conn' = IF k > conn.cursor
                     THEN [conn EXCEPT !.pc = "refresh", !.upto = k]
                     ELSE [conn EXCEPT !.pc = "send"]
    /\ UNCHANGED <<rows, wire, page, losses>>

RefreshRun ==
    /\ conn.pc = "refresh"
    /\ conn' = [conn EXCEPT !.pc = "send", !.run = status]
    /\ UNCHANGED <<rows, wire, page, losses>>

Yield ==
    /\ conn.pc = "send"
    /\ conn.cursor < conn.upto
    /\ LET k == conn.cursor + 1
       IN  /\ wire' = Append(wire, Sanitize(k, conn.run))
           /\ conn' = [conn EXCEPT !.cursor = k,
                                   !.pc = IF log[k].type \in TerminalEvents THEN "returned" ELSE "send"]
    /\ UNCHANGED <<rows, page, losses>>

\* The batch is sent: look at the run as it was last read, or give up polling.
NextPoll ==
    /\ conn.pc = "send"
    /\ conn.cursor = conn.upto
    /\ conn' = [conn EXCEPT !.pc = IF conn.run \in TerminalStatuses THEN "returned" ELSE "list"]
    /\ UNCHANGED <<rows, wire, page, losses>>

RunOut ==
    /\ PollsRunOut
    /\ conn.pc = "send"
    /\ conn.cursor = conn.upto
    /\ conn' = [conn EXCEPT !.pc = "returned"]
    /\ UNCHANGED <<rows, wire, page, losses>>

-----------------------------------------------------------------------------
(* The page.                                                               *)

\* The sequence the page acknowledges in Last-Event-ID.
M_LastEventId == 0
LastEventId == page.cursor

Connect ==
    /\ page.pc = "connect"
    /\ status # "absent"
    /\ conn' = [pc |-> "list", cursor |-> LastEventId, upto |-> LastEventId, run |-> status]
    /\ page' = [page EXCEPT !.pc = "read", !.ended = FALSE]
    /\ UNCHANGED <<rows, wire, losses>>

\* handleEvent.
Handled(p, s, output) ==
    IF s = "completed" THEN [p EXCEPT !.state = "completed", !.output = output]
    ELSE IF s \in TerminalStatuses THEN [p EXCEPT !.state = "failed"]
    ELSE [p EXCEPT !.state = "running"]

Receive ==
    /\ page.pc = "read"
    /\ wire # <<>>
    /\ LET item == Head(wire)
       IN  page' = [Handled(page, item.status, item.output) EXCEPT
                      !.cursor = IF item.seq > @ THEN item.seq ELSE @,
                      !.ended = item.status \in TerminalStatuses]
    /\ wire' = Tail(wire)
    /\ UNCHANGED <<rows, conn, losses>>

M_StreamEnded ==                    \* the end of the response is taken for the end of the run
    /\ page.pc = "read"
    /\ conn.pc = "returned"
    /\ wire = <<>>
    /\ conn' = Closed
    /\ page' = [page EXCEPT !.pc = "done"]
    /\ UNCHANGED <<rows, wire, losses>>
StreamEnded ==
    /\ page.pc = "read"
    /\ conn.pc = "returned"
    /\ wire = <<>>
    /\ conn' = Closed
    /\ page' = [page EXCEPT !.pc = IF page.ended THEN "done" ELSE "ask"]
    /\ UNCHANGED <<rows, wire, losses>>

\* The response was not conclusive: read the run, connect again while it lasts.
ReadRun ==
    /\ page.pc = "ask"
    /\ page' = IF status \in TerminalStatuses
               THEN [Handled(page, status, Output(status)) EXCEPT !.pc = "done"]
               ELSE [page EXCEPT
                       !.connections = @ + 1,
                       !.pc = IF page.connections + 1 < MaxConnections THEN "connect" ELSE "done",
                       !.state = IF page.connections + 1 < MaxConnections THEN @ ELSE "failed"]
    /\ UNCHANGED <<rows, conn, wire, losses>>

\* A request is refused, or a response lost with whatever is on the wire: there
\* is no second try.
Lose ==
    /\ page.pc # "done"
    /\ losses < MaxLosses
    /\ losses' = losses + 1
    /\ conn' = Closed
    /\ wire' = <<>>
    /\ page' = [page EXCEPT !.pc = "done", !.state = "failed"]
    /\ UNCHANGED rows

StreamStep == ListEvents \/ RefreshRun \/ Yield \/ NextPoll
PageStep   == Connect \/ Receive \/ StreamEnded \/ ReadRun

Next == Write \/ StreamStep \/ RunOut \/ PageStep \/ Lose

Spec == Init /\ [][Next]_vars

\* The server answers and the page goes on; nobody has to write or to fail.
FairSpec == Spec /\ WF_vars(StreamStep) /\ WF_vars(PageStep)

-----------------------------------------------------------------------------
(* Properties.                                                             *)

\* The app never shows an outcome that the run does not have on record, and it
\* shows a result only of a completed run, whatever mixture of event, row and
\* status reads its state comes from.
OutcomeIsRecorded ==
    /\ page.state = "completed" => Logged("run.completed")
    /\ page.output = "result" => status = "completed"
    /\ page.state = "failed" =>
          \/ Logged("run.failed") \/ Logged("run.cancelled")
          \/ losses > 0 \/ page.connections = MaxConnections

\* The events of all connections together are the log, in order and once each.
WireContinues ==
    /\ \A i \in 1 .. Len(wire) : wire[i].seq = page.cursor + i
    /\ conn.pc # "none" => conn.cursor = page.cursor + Len(wire)

\* What they rest on: whatever was read of the run is still true of it, a frame
\* tells of an event in the log, and only a page that reads has a connection.
ReadsAreRecorded ==
    /\ conn.run = "completed" => status = "completed"
    /\ \A i \in 1 .. Len(wire) :
          /\ \A s \in TerminalStatuses : wire[i].status = s => Logged(TerminalType(s))
          /\ wire[i].output = "result" => status = "completed"

OneConnection ==
    /\ page.pc # "read" => conn.pc = "none" /\ wire = <<>>
    /\ page.pc # "done" => page.connections < MaxConnections

IInv ==
    /\ TypeOK /\ LogOK /\ StatusOK
    /\ ReadsAreRecorded /\ OneConnection
    /\ OutcomeIsRecorded /\ WireContinues

\* With the connection intact, the app gets to the end of every settled run.
PublicFinishes == (status \in TerminalStatuses) ~> (page.pc = "done" /\ page.state # "running")

=============================================================================
