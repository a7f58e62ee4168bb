------------------------- MODULE PublicStreamProofs -------------------------
(***************************************************************************)
(* PublicStream, for any number of connections and losses, any length of   *)
(* log and any writers that keep RunContract.                              *)
(*                                                                         *)
(* The argument: what a connection has read of the run, a frame says or    *)
(* the page shows was true when it was read, and stays true, because the   *)
(* log only grows and an outcome is final (LogStep, StatusStep); and only  *)
(* a page that reads has anything on the wire.                             *)
(***************************************************************************)
EXTENDS PublicStream, TLAPS

-----------------------------------------------------------------------------
(* What readers may rely on while a run is written: whoever keeps          *)
(* RunContract only appends to the log, and a run that has its status has  *)
(* the event of that status in its log.                                    *)

\* The steps of the writers: the log stays well formed, and an event that is
\* in it stays where and what it is.
LogGrows == \A k \in Seqs : log[k] # NoEvent => log'[k] = log[k]

LEMMA SeqsAreNats == Seqs = 1 .. 9
  BY DEF Seqs, KernelLen

LEMMA NoEventIsNone == NoEvent \notin Documents
  BY DEF NoEvent, Documents, EventTypes, TerminalEvents

\* The names RunContract uses are those of RunRecord.
LEMMA SameRecord ==
    /\ Store!Seqs = Seqs
    /\ Store!EventTypes = EventTypes
    /\ Store!EmptyLog = EmptyLog
    /\ \A k : Store!IsLast(log, k) <=> IsLast(log, k)
    /\ \A type : Store!WorkerEvent(type) = WorkerEvent(type)
<1>1. Store!KernelLen = KernelLen
  BY DEF Store!KernelLen, KernelLen
<1>2. Store!Seqs = Seqs
  BY <1>1 DEF Store!Seqs, Seqs
<1>3. Store!EventTypes = EventTypes
  BY DEF Store!EventTypes, EventTypes, Store!TerminalEvents, TerminalEvents
<1>4. Store!NoEvent = NoEvent
  BY DEF Store!NoEvent, NoEvent
<1>5. Store!EmptyLog = EmptyLog
  BY <1>2, <1>4 DEF Store!EmptyLog, EmptyLog
<1>6. \A k : Store!IsLast(log, k) <=> IsLast(log, k)
  BY <1>2, <1>4 DEF Store!IsLast, IsLast
<1>7. \A type : Store!WorkerEvent(type) = WorkerEvent(type)
  BY DEF Store!WorkerEvent, WorkerEvent
<1> QED
  BY <1>2, <1>3, <1>5, <1>6, <1>7

LEMMA SameStartFailure ==
    \A r : Store!StartFailureTrace(r).events = StartFailureLog(r)
<1> SUFFICES ASSUME NEW r
             PROVE  Store!StartFailureTrace(r).events = StartFailureLog(r)
  OBVIOUS
<1>1. Store!StartFailureTrace(r).events = Store!StartFailureLog(r)
  BY DEF Store!StartFailureTrace
<1>2. Store!StartFailureLog(r) = StartFailureLog(r)
  BY SameRecord DEF Store!StartFailureLog, StartFailureLog, Store!NoEvent, NoEvent
<1> QED
  BY <1>1, <1>2

LEMMA WritersKeepContract == WriteRows => Store!Next
  BY DEF WriteRows, Store!Next

LEMMA LogStep ==
    ASSUME LogOK, Store!Next
    PROVE  LogOK' /\ LogGrows
<1>1. log \in Logs
  BY DEF LogOK
<1>2. CASE log' = log
  BY <1>2 DEF LogOK, LogGrows
<1>3. CASE Store!Record
  <2>1. PICK k \in Seqs, type \in EventTypes :
          /\ IsLast(log, k - 1)
          /\ log' = [log EXCEPT ![k] = WorkerEvent(type)]
    BY <1>3, SameRecord DEF Store!Record
  <2>2. WorkerEvent(type) \in Documents /\ WorkerEvent(type) # NoEvent
    BY NoEventIsNone DEF WorkerEvent, Documents, Writers
  <2>3. /\ log[k] = NoEvent
        /\ \A m \in Seqs : m >= k => log[m] = NoEvent
        /\ k # 1 => k - 1 \in Seqs /\ log[k - 1] # NoEvent
    BY <2>1, SeqsAreNats DEF IsLast
  <2>4. \A m \in Seqs : m < k => log[m] # NoEvent
    BY <2>3, SeqsAreNats DEF LogOK
  <2>5. \A m \in Seqs : log'[m] = IF m = k THEN WorkerEvent(type) ELSE log[m]
    BY <1>1, <2>1 DEF Logs
  <2>6. log' \in Logs
    BY <1>1, <2>1, <2>2 DEF Logs
  <2>7. LogGrows
    BY <2>3, <2>5 DEF LogGrows
  <2> QED
    BY <2>2, <2>3, <2>4, <2>5, <2>6, <2>7, SeqsAreNats DEF LogOK
<1>4. CASE log = EmptyLog /\ Store!Settle /\ log' # log
  <2>1. PICK r \in Requests : log' = StartFailureLog(r)
    BY <1>4, SameRecord, SameStartFailure DEF Store!Settle
  <2>2. /\ [type |-> "run.started", by |-> r] \in Documents
        /\ [type |-> "run.failed", by |-> r] \in Documents
    BY DEF Documents, EventTypes, TerminalEvents, Writers
  <2>3. log' \in Logs
    BY <2>1, <2>2 DEF StartFailureLog, Logs
  <2>4. \A k, m \in Seqs : m < k /\ log'[k] # NoEvent => log'[m] # NoEvent
    BY <2>1, <2>2, NoEventIsNone, SeqsAreNats DEF StartFailureLog
  <2>5. LogGrows
    BY <1>4 DEF LogGrows, EmptyLog
  <2> QED
    BY <2>3, <2>4, <2>5 DEF LogOK
<1>5. Store!Settle /\ log' # log => log = EmptyLog
  BY SameRecord DEF Store!Settle
<1> QED
  BY <1>2, <1>3, <1>4, <1>5 DEF Store!Next, Store!Accept, Store!UseTool, Store!Record,
                                   Store!Deliver

\* The outcome of a run is final, and whatever its log says stays there.
LEMMA StatusStep ==
    ASSUME LogOK, StatusOK, WriteRows
    PROVE  /\ LogOK' /\ StatusOK'
           /\ status \in TerminalStatuses => status' = status
           /\ \A s \in TerminalStatuses : Logged(TerminalType(s)) => Logged(TerminalType(s))'
<1>1. LogOK' /\ LogGrows
  BY LogStep, WritersKeepContract
<1>2. \A s \in TerminalStatuses : TerminalType(s) # "none"
  BY DEF TerminalStatuses, TerminalType
<1>3. /\ LogOK'
      /\ \A s \in TerminalStatuses : Logged(TerminalType(s)) => Logged(TerminalType(s))'
  BY <1>1, <1>2 DEF Logged, LogGrows, NoEvent
<1>4. CASE Store!Settle
  <2>1. /\ trace' \in Store!Traces /\ status' = trace'.status
        /\ status \in {"queued", "running"}
    BY <1>4 DEF Store!Settle
  <2>2. PICK k \in Seqs : /\ trace'.events = Store!UpTo(log', k)
                         /\ trace'.events[k].type = Store!TerminalType(status')
    BY <1>4, <2>1, SameRecord DEF Store!Settle
  <2>3. status' \in TerminalStatuses
    BY <2>1 DEF Store!Traces, Store!TerminalStatuses, TerminalStatuses
  <2>4. Store!TerminalType(status') = TerminalType(status')
    BY <2>3 DEF Store!TerminalType, TerminalType, TerminalStatuses
  <2>5. trace'.events[k] = log'[k]
    BY <2>2, SameRecord, SeqsAreNats DEF Store!UpTo
  <2>6. \E m \in Seqs : log'[m].type = TerminalType(status')
    BY <2>2, <2>4, <2>5
  <2>7. StatusOK'
    BY <2>3, <2>6 DEF StatusOK, Logged
  <2> QED
    BY <1>3, <2>1, <2>7 DEF TerminalStatuses
<1>5. CASE ~ Store!Settle
  <2>1. \/ status' = status
        \/ status \in {"absent", "queued"} /\ status' \in {"queued", "running"}
    BY <1>5 DEF WriteRows, Store!Accept, Store!Record, Store!UseTool, Store!Deliver
  <2>2. CASE status' = status
    <3>1. status \in TerminalStatuses => Logged(TerminalType(status))'
      BY <1>3, <2>2 DEF StatusOK, Logged
    <3> QED
      BY <1>3, <2>2, <3>1 DEF StatusOK
  <2>3. CASE status \in {"absent", "queued"} /\ status' \in {"queued", "running"}
    BY <1>3, <2>3 DEF StatusOK, TerminalStatuses
  <2> QED
    BY <2>1, <2>2, <2>3
<1> QED
  BY <1>4, <1>5

ConnRecords == [pc : {"none", "list", "refresh", "send", "returned"},
                cursor : Seqs \cup {0}, upto : Seqs \cup {0}, run : Statuses]
PageRecords == [pc : {"connect", "read", "ask", "done"},
                state : {"running", "completed", "failed"},
                output : {"none", "result"},
                cursor : Seqs \cup {0},
                ended : BOOLEAN,
                connections : 0 .. MaxConnections]

LEMMA TypeParts ==
    TypeOK <=> /\ conn \in ConnRecords
               /\ wire \in Seq(Frames)
               /\ page \in PageRecords
               /\ losses \in 0 .. MaxLosses
  BY DEF TypeOK, ConnRecords, PageRecords

LEMMA CursorsAreNats == Seqs \cup {0} = 0 .. 9
  BY SeqsAreNats

-----------------------------------------------------------------------------
(* The invariant, one lemma per group of actions.                          *)

LEMMA InitInvariant == Init => IInv
<1> SUFFICES ASSUME Init PROVE IInv
  OBVIOUS
<1>1. log = EmptyLog /\ status = "absent"
  BY SameRecord DEF Init, Store!Init
<1>2. LogOK /\ StatusOK
  <2>1. EmptyLog \in Logs
    BY DEF EmptyLog, Logs
  <2>2. LogOK
    BY <1>1, <2>1, SeqsAreNats DEF LogOK, EmptyLog
  <2> QED
    BY <1>1, <2>2 DEF StatusOK, TerminalStatuses
<1>3. TypeOK
  BY PublicStreamAssumption DEF Init, TypeOK, Closed, Opened, Statuses
<1>4. ReadsAreRecorded /\ OneConnection /\ OutcomeIsRecorded /\ WireContinues
  BY PublicStreamAssumption
     DEF Init, Closed, Opened, ReadsAreRecorded, OneConnection, OutcomeIsRecorded, WireContinues
<1> QED
  BY <1>2, <1>3, <1>4 DEF IInv

\* What has been read stays true while the run is written.
LEMMA WriteKeepsInvariant == IInv /\ Write => IInv'
<1> SUFFICES ASSUME IInv, Write PROVE IInv'
  OBVIOUS
<1>1. /\ LogOK /\ StatusOK /\ WriteRows
      /\ UNCHANGED <<conn, wire, page, losses>>
  BY DEF IInv, Write
<1>2. /\ LogOK' /\ StatusOK'
      /\ status = "completed" => status' = "completed"
      /\ \A s \in TerminalStatuses : Logged(TerminalType(s)) => Logged(TerminalType(s))'
  BY <1>1, StatusStep DEF TerminalStatuses
<1>3. /\ Logged("run.completed") => Logged("run.completed")'
      /\ Logged("run.failed") => Logged("run.failed")'
      /\ Logged("run.cancelled") => Logged("run.cancelled")'
  BY <1>2 DEF TerminalStatuses, TerminalType
<1>4. TypeOK' /\ OneConnection' /\ WireContinues'
  BY <1>1 DEF IInv, TypeOK, OneConnection, WireContinues
<1>5. ReadsAreRecorded'
  BY <1>1, <1>2 DEF IInv, ReadsAreRecorded
<1>6. OutcomeIsRecorded'
  BY <1>1, <1>2, <1>3 DEF IInv, OutcomeIsRecorded
<1> QED
  BY <1>2, <1>4, <1>5, <1>6 DEF IInv

\* Steps that change only the connection, and read of the run what it is.
LEMMA ServerKeepsInvariant ==
    ASSUME IInv, UNCHANGED <<rows, wire, page, losses>>,
           conn' \in ConnRecords,
           conn.pc # "none",
           conn'.cursor = conn.cursor,
           conn'.run \in {conn.run, status}
    PROVE  IInv'
<1>1. TypeOK' /\ LogOK' /\ StatusOK'
  BY DEF IInv, TypeOK, ConnRecords, LogOK, StatusOK, Logged, rows
<1>2. WireContinues' /\ OutcomeIsRecorded'
  BY DEF IInv, WireContinues, OutcomeIsRecorded, Logged, rows
<1>3. ReadsAreRecorded'
  BY DEF IInv, ReadsAreRecorded, Logged, rows
<1>4. OneConnection'
  BY DEF IInv, OneConnection
<1> QED
  BY <1>1, <1>2, <1>3, <1>4 DEF IInv

LEMMA PollKeepsInvariant ==
    IInv /\ (ListEvents \/ RefreshRun \/ NextPoll \/ RunOut) => IInv'
<1> SUFFICES ASSUME IInv, ListEvents \/ RefreshRun \/ NextPoll \/ RunOut PROVE IInv'
  OBVIOUS
<1>1. conn \in ConnRecords /\ status \in Statuses
  BY TypeParts DEF IInv, StatusOK, Statuses
<1>2. /\ conn' \in ConnRecords /\ conn.pc # "none"
      /\ conn'.cursor = conn.cursor /\ conn'.run \in {conn.run, status}
  <2>1. CASE ListEvents
    BY <1>1, <2>1 DEF ListEvents, ConnRecords
  <2>2. CASE RefreshRun
    BY <1>1, <2>2 DEF RefreshRun, ConnRecords
  <2>3. CASE NextPoll \/ RunOut
    BY <1>1, <2>3 DEF NextPoll, RunOut, ConnRecords
  <2> QED
    BY <2>1, <2>2, <2>3
<1> QED
  BY <1>2, ServerKeepsInvariant DEF ListEvents, RefreshRun, NextPoll, RunOut

\* A frame says of the run what the connection has read of it.
LEMMA SanitizeTellsTheTruth ==
    ASSUME NEW k \in Seqs, NEW run \in Statuses
    PROVE  LET frame == Sanitize(k, run)
           IN  /\ frame \in Frames
               /\ frame.seq = k
               /\ \A s \in TerminalStatuses : frame.status = s => Logged(TerminalType(s))
               /\ frame.output = "result" => run = "completed"
<1>1. PublicStatus(log[k].type) \in PublicStatuses
  BY DEF PublicStatus, PublicStatuses, TerminalStatuses
<1>2. Output(run) \in {"none", "result"} /\ (Output(run) = "result" => run = "completed")
  BY DEF Output
<1>3. \A s \in TerminalStatuses :
        PublicStatus(log[k].type) = s => log[k].type = TerminalType(s)
  BY DEF PublicStatus, TerminalType, TerminalStatuses
<1> QED
  BY <1>1, <1>2, <1>3 DEF Sanitize, Frames, Logged

LEMMA YieldKeepsInvariant == IInv /\ Yield => IInv'
<1> SUFFICES ASSUME IInv, Yield PROVE IInv'
  OBVIOUS
<1> DEFINE k == conn.cursor + 1
           frame == Sanitize(k, conn.run)
<1>1. /\ conn \in ConnRecords /\ wire \in Seq(Frames) /\ page \in PageRecords
  BY TypeParts DEF IInv
<1>2. k \in Seqs /\ conn.run \in Statuses
  BY <1>1, CursorsAreNats, SeqsAreNats DEF Yield, ConnRecords
<1>3. /\ frame \in Frames /\ frame.seq = k
      /\ \A s \in TerminalStatuses : frame.status = s => Logged(TerminalType(s))
      /\ frame.output = "result" => conn.run = "completed"
  BY <1>2, SanitizeTellsTheTruth
<1>4. wire' = Append(wire, frame) /\ UNCHANGED <<rows, page, losses>>
  BY DEF Yield
<1>5. conn' \in ConnRecords /\ conn'.cursor = k /\ conn'.run = conn.run /\ conn'.pc # "none"
  BY <1>1, <1>2 DEF Yield, ConnRecords
<1>6. conn.pc # "none" /\ page.pc = "read"
  BY DEF IInv, OneConnection, Yield
<1>7. conn.cursor = page.cursor + Len(wire)
  BY <1>6 DEF IInv, WireContinues
<1> HIDE DEF frame
<1>8. /\ wire' \in Seq(Frames) /\ Len(wire') = Len(wire) + 1
      /\ \A i \in 1 .. Len(wire') : wire'[i] = IF i = Len(wire) + 1 THEN frame ELSE wire[i]
  BY <1>1, <1>3, <1>4
<1>9. page.cursor \in Nat /\ Len(wire) \in Nat
  BY <1>1, CursorsAreNats DEF PageRecords
<1>10. k = page.cursor + (Len(wire) + 1)
  BY <1>7, <1>9
<1> HIDE DEF k
<1>11. TypeOK' /\ LogOK' /\ StatusOK'
  BY <1>4, <1>5, <1>8 DEF IInv, TypeOK, ConnRecords, LogOK, StatusOK, Logged, rows
<1>12. ASSUME NEW i \in 1 .. Len(wire')
       PROVE  /\ wire'[i].seq = page.cursor + i
              /\ \A s \in TerminalStatuses : wire'[i].status = s => Logged(TerminalType(s))
              /\ wire'[i].output = "result" => status = "completed"
  <2>1. CASE i = Len(wire) + 1
    BY <1>3, <1>8, <1>10, <2>1 DEF IInv, ReadsAreRecorded
  <2>2. CASE i # Len(wire) + 1
    <3>1. i \in 1 .. Len(wire) /\ wire'[i] = wire[i]
      BY <1>8, <1>9, <2>2
    <3> QED
      BY <3>1 DEF IInv, ReadsAreRecorded, WireContinues
  <2> QED
    BY <2>1, <2>2
<1>13. ReadsAreRecorded'
  BY <1>4, <1>5, <1>12 DEF IInv, ReadsAreRecorded, Logged, rows
<1>14. WireContinues'
  BY <1>4, <1>5, <1>8, <1>10, <1>12 DEF WireContinues
<1>15. OneConnection' /\ OutcomeIsRecorded'
  BY <1>4, <1>6 DEF IInv, OneConnection, OutcomeIsRecorded, Logged, rows
<1> QED
  BY <1>11, <1>13, <1>14, <1>15 DEF IInv

LEMMA ConnectKeepsInvariant == IInv /\ Connect => IInv'
<1> SUFFICES ASSUME IInv, Connect PROVE IInv'
  OBVIOUS
<1>1. page \in PageRecords /\ status \in Statuses /\ page.pc = "connect"
  BY TypeParts DEF IInv, StatusOK, Statuses, Connect
<1>2. wire = <<>> /\ page.connections < MaxConnections
  BY <1>1 DEF IInv, OneConnection
<1>3. /\ conn' \in ConnRecords
      /\ conn'.cursor = page.cursor /\ conn'.run = status /\ conn'.pc = "list"
  BY <1>1 DEF Connect, LastEventId, ConnRecords, PageRecords
<1>4. /\ page' \in PageRecords
      /\ page'.cursor = page.cursor /\ page'.connections = page.connections
      /\ page'.state = page.state /\ page'.output = page.output /\ page'.pc = "read"
  BY <1>1 DEF Connect, PageRecords
<1>5. UNCHANGED <<rows, wire, losses>> /\ Len(wire') = 0
  BY <1>2 DEF Connect
<1>6. TypeOK' /\ LogOK' /\ StatusOK'
  BY <1>3, <1>4, <1>5 DEF IInv, TypeOK, ConnRecords, PageRecords, LogOK, StatusOK, Logged, rows
<1>7. ReadsAreRecorded' /\ OneConnection'
  BY <1>2, <1>3, <1>4, <1>5 DEF ReadsAreRecorded, OneConnection, rows
<1>8. OutcomeIsRecorded'
  BY <1>4, <1>5 DEF IInv, OutcomeIsRecorded, Logged, rows
<1>9. page.cursor = page.cursor + 0
  BY <1>1, CursorsAreNats DEF PageRecords
<1>10. WireContinues'
  BY <1>3, <1>4, <1>5, <1>9 DEF WireContinues
<1> QED
  BY <1>6, <1>7, <1>8, <1>10 DEF IInv

\* The page takes its state from what it hears, an event or the run itself.
LEMMA HandledIsRecorded ==
    ASSUME NEW p \in PageRecords, NEW s \in Statuses \cup PublicStatuses,
           NEW output \in {"none", "result"},
           s \in TerminalStatuses => Logged(TerminalType(s)),
           p.output = "result" => status = "completed",
           output = "result" => status = "completed"
    PROVE  LET q == Handled(p, s, output)
           IN  /\ q \in PageRecords
               /\ q.pc = p.pc /\ q.cursor = p.cursor /\ q.connections = p.connections
               /\ q.state = "completed" => Logged("run.completed")
               /\ q.output = "result" => status = "completed"
               /\ q.state = "failed" => Logged("run.failed") \/ Logged("run.cancelled")
<1>1. CASE s = "completed"
  <2>1. Logged("run.completed")
    BY <1>1 DEF TerminalStatuses, TerminalType
  <2> QED
    BY <1>1, <2>1 DEF Handled, PageRecords
<1>2. CASE s \in TerminalStatuses /\ s # "completed"
  <2>1. Logged("run.failed") \/ Logged("run.cancelled")
    BY <1>2 DEF TerminalStatuses, TerminalType
  <2> QED
    BY <1>2, <2>1 DEF Handled, PageRecords
<1>3. CASE s \notin TerminalStatuses
  BY <1>3 DEF Handled, PageRecords, TerminalStatuses
<1> QED
  BY <1>1, <1>2, <1>3

LEMMA ReceiveKeepsInvariant == IInv /\ Receive => IInv'
<1> SUFFICES ASSUME IInv, Receive PROVE IInv'
  OBVIOUS
<1> DEFINE item == Head(wire)
           heard == Handled(page, item.status, item.output)
<1>1. /\ conn \in ConnRecords /\ wire \in Seq(Frames) /\ page \in PageRecords
      /\ wire # <<>> /\ page.pc = "read"
  BY TypeParts DEF IInv, Receive
<1>2. 1 \in 1 .. Len(wire) /\ item = wire[1] /\ item \in Frames
  BY <1>1
<1>3. item.seq = page.cursor + 1 /\ item.seq \in Seqs
  BY <1>2 DEF IInv, WireContinues, Frames
<1>4. page.cursor < item.seq /\ page.cursor \in Nat /\ Len(wire) \in Nat
  BY <1>1, <1>3, CursorsAreNats DEF PageRecords
<1>5. /\ item.status \in PublicStatuses /\ item.output \in {"none", "result"}
      /\ item.status \in TerminalStatuses => Logged(TerminalType(item.status))
      /\ item.output = "result" => status = "completed"
  BY <1>2 DEF Frames, IInv, ReadsAreRecorded
<1>6. page.output = "result" => status = "completed"
  BY DEF IInv, OutcomeIsRecorded
<1>7. /\ heard \in PageRecords
      /\ heard.pc = page.pc /\ heard.connections = page.connections
      /\ heard.cursor = page.cursor
      /\ heard.state = "completed" => Logged("run.completed")
      /\ heard.output = "result" => status = "completed"
      /\ heard.state = "failed" => Logged("run.failed") \/ Logged("run.cancelled")
  <2> HIDE DEF item
  <2> QED
    BY <1>1, <1>5, <1>6, HandledIsRecorded
<1>8. page' = [heard EXCEPT !.cursor = IF item.seq > @ THEN item.seq ELSE @,
                            !.ended = item.status \in TerminalStatuses]
  BY DEF Receive
<1> HIDE DEF heard
<1>9. /\ page' \in PageRecords
      /\ page'.cursor = item.seq /\ page'.pc = "read"
      /\ page'.connections = page.connections
      /\ page'.state = heard.state /\ page'.output = heard.output
  <2> HIDE DEF item
  <2>1. PICK k \in Seqs : k = item.seq /\ k > page.cursor
    BY <1>3, <1>4, SeqsAreNats
  <2>2. PICK ended \in BOOLEAN : ended = (item.status \in TerminalStatuses)
    <3> DEFINE e == item.status \in TerminalStatuses
    <3>1. e \in BOOLEAN
      OBVIOUS
    <3> HIDE DEF e
    <3>2. \E ended \in BOOLEAN : ended = e
      BY <3>1
    <3> QED
      BY <3>2 DEF e
  <2>3. page' = [heard EXCEPT !.cursor = k, !.ended = ended]
    BY <1>7, <1>8, <2>1, <2>2
  <2> QED
    BY <1>1, <1>7, <2>1, <2>3 DEF PageRecords
<1>10. /\ wire' = Tail(wire) /\ UNCHANGED <<rows, conn, losses>>
       /\ wire' \in Seq(Frames) /\ Len(wire') = Len(wire) - 1
       /\ \A i \in 1 .. Len(wire') : wire'[i] = wire[i + 1] /\ i + 1 \in 1 .. Len(wire)
  <2>1. wire' = Tail(wire) /\ UNCHANGED <<rows, conn, losses>>
    BY DEF Receive
  <2> QED
    BY <1>1, <2>1
<1> HIDE DEF item
<1>11. TypeOK' /\ LogOK' /\ StatusOK'
  BY <1>9, <1>10 DEF IInv, TypeOK, PageRecords, LogOK, StatusOK, Logged, rows
<1>12. ReadsAreRecorded'
  BY <1>10 DEF IInv, ReadsAreRecorded, Logged, rows
<1>13. OneConnection'
  BY <1>1, <1>9 DEF IInv, OneConnection
<1>14. OutcomeIsRecorded'
  BY <1>7, <1>9, <1>10 DEF OutcomeIsRecorded, Logged, rows
<1>15. \A i \in 1 .. Len(wire') : wire'[i].seq = item.seq + i
  <2> TAKE i \in 1 .. Len(wire')
  <2>1. wire'[i].seq = page.cursor + (i + 1)
    BY <1>10 DEF IInv, WireContinues
  <2> QED
    BY <1>3, <1>4, <2>1
<1>16. conn.pc # "none" => conn.cursor = item.seq + Len(wire')
  BY <1>3, <1>4, <1>10 DEF IInv, WireContinues
<1>17. WireContinues'
  BY <1>9, <1>10, <1>15, <1>16 DEF WireContinues
<1> QED
  BY <1>11, <1>12, <1>13, <1>14, <1>17 DEF IInv

\* Steps behind which there is no connection.
LEMMA ClosingKeepsInvariant ==
    ASSUME IInv, UNCHANGED rows, wire' = <<>>, conn' = Closed,
           page' \in PageRecords, losses' \in 0 .. MaxLosses,
           page'.pc # "done" => page'.connections < MaxConnections,
           OutcomeIsRecorded'
    PROVE  IInv'
<1>1. conn'.pc = "none" /\ conn'.run = "absent" /\ conn' \in ConnRecords /\ Len(wire') = 0
  BY DEF Closed, ConnRecords, Statuses
<1>2. TypeOK' /\ LogOK' /\ StatusOK'
  BY <1>1 DEF IInv, TypeOK, ConnRecords, PageRecords, LogOK, StatusOK, Logged, rows
<1>3. ReadsAreRecorded' /\ OneConnection' /\ WireContinues'
  BY <1>1 DEF ReadsAreRecorded, OneConnection, WireContinues
<1> QED
  BY <1>2, <1>3 DEF IInv

LEMMA EndingKeepsInvariant == IInv /\ (StreamEnded \/ Lose) => IInv'
<1> SUFFICES ASSUME IInv, StreamEnded \/ Lose PROVE IInv'
  OBVIOUS
<1>1. page \in PageRecords /\ losses \in 0 .. MaxLosses
  BY TypeParts DEF IInv
<1>2. CASE StreamEnded
  <2>1. /\ page' \in PageRecords /\ page'.connections = page.connections
        /\ page'.state = page.state /\ page'.output = page.output /\ page.pc = "read"
    BY <1>1, <1>2 DEF StreamEnded, PageRecords
  <2>2. UNCHANGED <<rows, losses>> /\ wire' = <<>> /\ conn' = Closed
    BY <1>2 DEF StreamEnded
  <2>3. OutcomeIsRecorded'
    BY <2>1, <2>2 DEF IInv, OutcomeIsRecorded, Logged, rows
  <2>4. page'.connections < MaxConnections
    BY <2>1 DEF IInv, OneConnection
  <2> QED
    BY <1>1, <2>1, <2>2, <2>3, <2>4, ClosingKeepsInvariant
<1>3. CASE Lose
  <2>1. /\ page' \in PageRecords /\ page'.pc = "done"
        /\ page'.state = "failed" /\ page'.output = page.output
    BY <1>1, <1>3 DEF Lose, PageRecords
  <2>2. /\ UNCHANGED rows /\ wire' = <<>> /\ conn' = Closed
        /\ losses' \in 0 .. MaxLosses /\ losses' > 0
    BY <1>1, <1>3, PublicStreamAssumption DEF Lose
  <2>3. OutcomeIsRecorded'
    BY <2>1, <2>2 DEF IInv, OutcomeIsRecorded, rows
  <2> QED
    BY <2>1, <2>2, <2>3, ClosingKeepsInvariant
<1> QED
  BY <1>2, <1>3

LEMMA ReadRunKeepsInvariant == IInv /\ ReadRun => IInv'
<1> SUFFICES ASSUME IInv, ReadRun PROVE IInv'
  OBVIOUS
<1>1. page \in PageRecords /\ page.pc = "ask" /\ status \in Statuses
  BY TypeParts DEF IInv, StatusOK, Statuses, ReadRun
<1>2. /\ conn.pc = "none" /\ wire = <<>> /\ page.connections < MaxConnections
      /\ UNCHANGED <<rows, conn, wire, losses>>
  BY <1>1 DEF IInv, OneConnection, ReadRun
<1>3. /\ page' \in PageRecords /\ page'.cursor = page.cursor /\ page'.pc # "read"
      /\ page'.pc # "done" => page'.connections < MaxConnections
      /\ OutcomeIsRecorded'
  <2>1. CASE status \in TerminalStatuses
    <3> DEFINE told == Handled(page, status, Output(status))
    <3>1. page.output = "result" => status = "completed"
      BY DEF IInv, OutcomeIsRecorded
    <3>2. Output(status) \in {"none", "result"} /\ (Output(status) = "result" => status = "completed")
      BY DEF Output
    <3>3. Logged(TerminalType(status))
      BY <2>1 DEF IInv, StatusOK
    <3>4. /\ told \in PageRecords /\ told.cursor = page.cursor
          /\ told.state = "completed" => Logged("run.completed")
          /\ told.output = "result" => status = "completed"
          /\ told.state = "failed" => Logged("run.failed") \/ Logged("run.cancelled")
      BY <1>1, <3>1, <3>2, <3>3, HandledIsRecorded
    <3>5. page' = [told EXCEPT !.pc = "done"]
      BY <2>1 DEF ReadRun
    <3> HIDE DEF told
    <3>6. /\ page' \in PageRecords /\ page'.cursor = page.cursor /\ page'.pc = "done"
          /\ page'.state = told.state /\ page'.output = told.output
      BY <3>4, <3>5 DEF PageRecords
    <3>7. OutcomeIsRecorded'
      BY <1>2, <3>4, <3>6 DEF OutcomeIsRecorded, Logged, rows
    <3> QED
      BY <3>6, <3>7
  <2>2. CASE status \notin TerminalStatuses
    <3> DEFINE more == page.connections + 1 < MaxConnections
    <3>1. page.connections + 1 \in 0 .. MaxConnections
      BY <1>1, <1>2, PublicStreamAssumption DEF PageRecords
    <3>2. page' = [page EXCEPT !.connections = page.connections + 1,
                              !.pc = IF more THEN "connect" ELSE "done",
                              !.state = IF more THEN page.state ELSE "failed"]
      BY <2>2 DEF ReadRun
    <3>3. ~ more => page.connections + 1 = MaxConnections
      BY <3>1, PublicStreamAssumption
    <3>4. /\ page' \in PageRecords /\ page'.cursor = page.cursor
          /\ page'.connections = page.connections + 1 /\ page'.output = page.output
          /\ page'.pc = (IF more THEN "connect" ELSE "done")
          /\ page'.state = (IF more THEN page.state ELSE "failed")
      <4> HIDE DEF more
      <4> QED
        BY <1>1, <3>1, <3>2 DEF PageRecords
    <3>5. page.connections # MaxConnections
      BY <1>1, <1>2, PublicStreamAssumption DEF PageRecords
    <3>6. OutcomeIsRecorded'
      <4>1. CASE more
        <5> HIDE DEF more
        <5> QED
          BY <1>2, <3>4, <3>5, <4>1 DEF IInv, OutcomeIsRecorded, Logged, rows
      <4>2. CASE ~ more
        <5>1. page'.connections = MaxConnections /\ page'.state = "failed"
          BY <3>3, <3>4, <4>2
        <5> QED
          BY <1>2, <3>4, <5>1 DEF IInv, OutcomeIsRecorded, rows
      <4> QED
        BY <4>1, <4>2
    <3> QED
      BY <3>4, <3>6
  <2> QED
    BY <2>1, <2>2
<1>4. TypeOK' /\ LogOK' /\ StatusOK'
  BY <1>2, <1>3 DEF IInv, TypeOK, PageRecords, LogOK, StatusOK, Logged, rows
<1>5. ReadsAreRecorded' /\ OneConnection' /\ WireContinues'
  BY <1>2, <1>3 DEF IInv, ReadsAreRecorded, OneConnection, WireContinues, rows, Logged
<1> QED
  BY <1>3, <1>4, <1>5 DEF IInv

-----------------------------------------------------------------------------
(* The theorems.                                                           *)

LEMMA NextKeepsInvariant == IInv /\ [Next]_vars => IInv'
<1> SUFFICES ASSUME IInv, [Next]_vars PROVE IInv'
  OBVIOUS
<1>1. CASE Next
  BY <1>1, WriteKeepsInvariant, PollKeepsInvariant, YieldKeepsInvariant,
     ConnectKeepsInvariant, ReceiveKeepsInvariant, EndingKeepsInvariant,
     ReadRunKeepsInvariant
     DEF Next, StreamStep, PageStep
<1>2. CASE UNCHANGED vars
  BY <1>2 DEF vars, IInv, LogOK, StatusOK, Logged, TypeOK, ReadsAreRecorded, OneConnection,
              OutcomeIsRecorded, WireContinues
<1> QED
  BY <1>1, <1>2

\* IInv holds in every state of a run that the published app watches: what it
\* has read of the run, by event or by row, is still true (stream_events,
\* PublicAgentApp).
THEOREM InductiveInvariant == Spec => []IInv
<1> QED
  BY InitInvariant, NextKeepsInvariant, PTL DEF Spec

\* The app shows only outcomes that are on record, and a result only of a
\* completed run, for any number of connections and losses (handleEvent,
\* _sanitize_event).
THEOREM ShownIsRecorded == Spec => []OutcomeIsRecorded
<1>1. IInv => OutcomeIsRecorded
  BY DEF IInv
<1> QED
  BY <1>1, InductiveInvariant, PTL

\* No connection skips or repeats an event, whatever was written between two
\* of them (Last-Event-ID).
THEOREM EventsAreConsecutive == Spec => []WireContinues
<1>1. IInv => WireContinues
  BY DEF IInv
<1> QED
  BY <1>1, InductiveInvariant, PTL

=============================================================================
