----------------------------- MODULE RunWriters ------------------------------
(***************************************************************************)
(* Whoever writes the rows of a run, as its readers meet them: any step    *)
(* RunContract allows, of a log short enough to explore.  Readers do not   *)
(* tell progress events apart, so a few of their types stand for all.      *)
(***************************************************************************)
EXTENDS RunRecord

CONSTANTS
    ProgressTypes,  \* bound: the progress events explored besides run.started
    MaxEvents       \* bound: length of the log explored

ASSUME WritersAssumption ==
    /\ ProgressTypes \subseteq EventTypes
    /\ MaxEvents \in Seqs

VARIABLES status, log, trace, tool, outbox

Store == INSTANCE RunContract

rows == <<status, log, trace, tool, outbox>>

Explored ==
    \A k \in Seqs : log'[k] # NoEvent =>
        /\ k <= MaxEvents
        /\ log'[k].type \in {"run.started"} \cup TerminalEvents \cup ProgressTypes

\* The traces a run with this log can be settled by.
Candidates ==
    [status : TerminalStatuses, events : {UpTo(log, k) : k \in Seqs}, by : {"worker"}]
        \cup {StartFailureTrace(r) : r \in Requests}

WriteRows ==
    /\ \/ Store!Accept
       \/ Store!Record
       \/ Store!UseTool
       \/ trace' \in Candidates /\ Store!Settle
       \/ Store!Deliver
    /\ Explored

\* RunContract keeps the log well formed and without a hole.
LogOK ==
    /\ log \in Logs
    /\ \A k, m \in Seqs : m < k /\ log[k] # NoEvent => log[m] # NoEvent

\* A run that has its outcome has the event of it in its log.
Logged(type) == \E k \in Seqs : log[k].type = type
StatusOK ==
    /\ status \in {"absent", "queued", "running"} \cup TerminalStatuses
    /\ status \in TerminalStatuses => Logged(TerminalType(status))

=============================================================================
