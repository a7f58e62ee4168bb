--------------------------- MODULE RunStreamProofs ---------------------------
(***************************************************************************)
(* RunStream, for any number of lost connections, reloads and errors, any  *)
(* length of log and any writers that keep RunContract.                    *)
(*                                                                         *)
(* The argument: the log only grows behind its last event (LogStep), what  *)
(* the page has acknowledged and what the server has listed are inside it, *)
(* and the frames on the wire are numbered from the page's cursor on.      *)
(***************************************************************************)
EXTENDS RunStream, TLAPS

-----------------------------------------------------------------------------
(* What readers may rely on while a run is written: whoever keeps          *)
(* RunContract only appends to the log.                                    *)

\* The steps of the writers: the log stays well formed, and an event that is
\* in it stays where and what it is.
LogGrows == \A k \in Seqs : log[k] # NoEvent => log'[k] = log[k]

LEMMA SeqsAreNats == Seqs = 1 .. 9
  BY DEF Seqs, KernelLen

LEMMA NoEventIsNone == NoEvent \notin Documents
  BY DEF NoEvent, Documents, EventTypes, TerminalEvents

\* The names RunContract uses are those of RunRecord.
LEMMA SameRecord ==
    /\ Store!Seqs = Seqs
    /\ Store!EventTypes = EventTypes
    /\ Store!EmptyLog = EmptyLog
    /\ \A k : Store!IsLast(log, k) <=> IsLast(log, k)
    /\ \A type : Store!WorkerEvent(type) = WorkerEvent(type)
<1>1. Store!KernelLen = KernelLen
  BY DEF Store!KernelLen, KernelLen
<1>2. Store!Seqs = Seqs
  BY <1>1 DEF Store!Seqs, Seqs
<1>3. Store!EventTypes = EventTypes
  BY DEF Store!EventTypes, EventTypes, Store!TerminalEvents, TerminalEvents
<1>4. Store!NoEvent = NoEvent
  BY DEF Store!NoEvent, NoEvent
<1>5. Store!EmptyLog = EmptyLog
  BY <1>2, <1>4 DEF Store!EmptyLog, EmptyLog
<1>6. \A k : Store!IsLast(log, k) <=> IsLast(log, k)
  BY <1>2, <1>4 DEF Store!IsLast, IsLast
<1>7. \A type : Store!WorkerEvent(type) = WorkerEvent(type)
  BY DEF Store!WorkerEvent, WorkerEvent
<1> QED
  BY <1>2, <1>3, <1>5, <1>6, <1>7

LEMMA SameStartFailure ==
    \A r : Store!StartFailureTrace(r) = StartFailureTrace(r)
<1> SUFFICES ASSUME NEW r
             PROVE  Store!StartFailureTrace(r) = StartFailureTrace(r)
  OBVIOUS
<1>1. Store!StartFailureLog(r) = StartFailureLog(r)
  BY SameRecord DEF Store!StartFailureLog, StartFailureLog, Store!NoEvent, NoEvent
<1> QED
  BY <1>1 DEF Store!StartFailureTrace, StartFailureTrace

LEMMA WritersKeepContract == WriteRows => Store!Next
  BY DEF WriteRows, Store!Next

LEMMA LogStep ==
    ASSUME LogOK, Store!Next
    PROVE  LogOK' /\ LogGrows
<1>1. log \in Logs
  BY DEF LogOK
<1>2. CASE log' = log
  BY <1>2 DEF LogOK, LogGrows
<1>3. CASE Store!Record
  <2>1. PICK k \in Seqs, type \in EventTypes :
          /\ IsLast(log, k - 1)
          /\ log' = [log EXCEPT ![k] = WorkerEvent(type)]
    BY <1>3, SameRecord DEF Store!Record
  <2>2. WorkerEvent(type) \in Documents /\ WorkerEvent(type) # NoEvent
    BY NoEventIsNone DEF WorkerEvent, Documents, Writers
  <2>3. /\ log[k] = NoEvent
        /\ \A m \in Seqs : m >= k => log[m] = NoEvent
        /\ k # 1 => k - 1 \in Seqs /\ log[k - 1] # NoEvent
    BY <2>1, SeqsAreNats DEF IsLast
  <2>4. \A m \in Seqs : m < k => log[m] # NoEvent
    BY <2>3, SeqsAreNats DEF LogOK
  <2>5. \A m \in Seqs : log'[m] = IF m = k THEN WorkerEvent(type) ELSE log[m]
    BY <1>1, <2>1 DEF Logs
  <2>6. log' \in Logs
    BY <1>1, <2>1, <2>2 DEF Logs
  <2>7. LogGrows
    BY <2>3, <2>5 DEF LogGrows
  <2> QED
    BY <2>2, <2>3, <2>4, <2>5, <2>6, <2>7, SeqsAreNats DEF LogOK
<1>4. CASE log = EmptyLog /\ Store!Settle /\ log' # log
  <2>1. PICK r \in Requests : log' = StartFailureLog(r)
    BY <1>4, SameRecord, SameStartFailure DEF Store!Settle, StartFailureTrace
  <2>2. /\ [type |-> "run.started", by |-> r] \in Documents
        /\ [type |-> "run.failed", by |-> r] \in Documents
    BY DEF Documents, EventTypes, TerminalEvents, Writers
  <2>3. log' \in Logs
    BY <2>1, <2>2 DEF StartFailureLog, Logs
  <2>4. \A k, m \in Seqs : m < k /\ log'[k] # NoEvent => log'[m] # NoEvent
    BY <2>1, <2>2, NoEventIsNone, SeqsAreNats DEF StartFailureLog
  <2>5. LogGrows
    BY <1>4 DEF LogGrows, EmptyLog
  <2> QED
    BY <2>3, <2>4, <2>5 DEF LogOK
<1>5. Store!Settle /\ log' # log => log = EmptyLog
  BY SameRecord DEF Store!Settle
<1> QED
  BY <1>2, <1>3, <1>4, <1>5 DEF Store!Next, Store!Accept, Store!UseTool, Store!Record,
                                   Store!Deliver

-----------------------------------------------------------------------------
(* The invariant, one lemma per group of actions.                          *)

ConnRecords == [pc : {"none", "list", "send", "returned"}, cursor : Seqs \cup {0},
                upto : Seqs \cup {0}]
PageRecords == [state : {"connecting", "live", "reconnecting", "complete", "error"},
                events : Logs,
                cursor : Seqs \cup {0},
                attempt : Nat,
                received : BOOLEAN,
                trace : {"none", "shown", "given_up"},
                loads : 0 .. TraceLoads]

LEMMA TypeParts ==
    TypeOK <=> /\ conn \in ConnRecords
               /\ wire \in Seq(Frames)
               /\ page \in PageRecords
               /\ losses \in 0 .. MaxLosses
               /\ runOuts \in 0 .. MaxRunOuts
  BY DEF TypeOK, ConnRecords, PageRecords

LEMMA CursorsAreNats == Seqs \cup {0} = 0 .. 9
  BY SeqsAreNats

LEMMA EmptyIsLog == EmptyLog \in Logs
  BY DEF EmptyLog, Logs

LEMMA InitInvariant == Init => IInv
<1> SUFFICES ASSUME Init PROVE IInv
  OBVIOUS
<1> USE DEF Init, Closed, Opened
<1>1. log = EmptyLog
  BY SameRecord DEF Store!Init
<1>2. LogOK
  BY <1>1, EmptyIsLog, SeqsAreNats DEF LogOK, EmptyLog
<1>3. conn \in ConnRecords /\ wire \in Seq(Frames)
  BY DEF ConnRecords
<1>4. page \in PageRecords /\ losses \in 0 .. MaxLosses /\ runOuts \in 0 .. MaxRunOuts
  BY EmptyIsLog, StreamAssumption DEF PageRecords
<1>5. TypeOK
  BY <1>3, <1>4, TypeParts
<1>6. ShownIsPrefix
  BY <1>1 DEF ShownIsPrefix, UpTo, EmptyLog
<1>7. WireContinues /\ LoadsLeft
  BY SeqsAreNats, StreamAssumption DEF WireContinues, LoadsLeft
<1> QED
  BY <1>2, <1>5, <1>6, <1>7 DEF IInv

\* The writers append behind everything listed, sent or shown.
LEMMA WriteKeepsInvariant == IInv /\ Write => IInv'
<1> SUFFICES ASSUME IInv, Write PROVE IInv'
  OBVIOUS
<1>1. /\ LogOK' /\ LogGrows
      /\ UNCHANGED <<conn, wire, page, losses, runOuts>>
  BY LogStep, WritersKeepContract DEF IInv, Write, bounds
<1>2. TypeOK'
  BY <1>1 DEF IInv, TypeOK
<1>3. \A k \in Seqs : k <= page.cursor => log'[k] = log[k]
  BY <1>1 DEF IInv, WireContinues, LogGrows
<1>4. ShownIsPrefix'
  BY <1>1, <1>3 DEF IInv, ShownIsPrefix, UpTo
<1>5. \A i \in 1 .. Len(wire) : wire[i].seq \in Seqs /\ wire[i].doc # NoEvent
  <2>1. \A i \in 1 .. Len(wire) : wire[i] \in Frames
    BY DEF IInv, TypeOK
  <2> QED
    BY <2>1, NoEventIsNone DEF Frames
<1>6. \A i \in 1 .. Len(wire) : log'[wire[i].seq] = wire[i].doc
  BY <1>1, <1>5 DEF IInv, WireContinues, LogGrows
<1>7. \A k \in Seqs : log[k] # NoEvent => log'[k] # NoEvent
  BY <1>1 DEF LogGrows
<1>8. WireContinues'
  BY <1>1, <1>6, <1>7 DEF IInv, WireContinues
<1>9. LoadsLeft'
  BY <1>1 DEF IInv, LoadsLeft
<1> QED
  BY <1>1, <1>2, <1>4, <1>8, <1>9 DEF IInv

\* Steps that change only the connection, and only within the log.
LEMMA ServerKeepsInvariant ==
    ASSUME IInv, UNCHANGED <<rows, wire, page, losses>>,
           runOuts' \in 0 .. MaxRunOuts,
           conn' \in ConnRecords,
           conn'.pc # "none", conn.pc # "none",
           conn'.cursor = conn.cursor,
           conn'.cursor <= conn'.upto,
           \A k \in Seqs : k <= conn'.upto => log[k] # NoEvent
    PROVE  IInv'
<1>1. TypeOK'
  BY DEF IInv, TypeOK, ConnRecords
<1>2. LogOK' /\ ShownIsPrefix' /\ LoadsLeft'
  BY DEF IInv, LogOK, ShownIsPrefix, UpTo, LoadsLeft, rows
<1>3. WireContinues'
  BY DEF IInv, WireContinues, rows
<1> QED
  BY <1>1, <1>2, <1>3 DEF IInv

LEMMA ListEventsKeepsInvariant == IInv /\ ListEvents => IInv'
<1> SUFFICES ASSUME IInv, ListEvents PROVE IInv'
  OBVIOUS
<1>1. conn \in ConnRecords /\ log \in Logs
  BY TypeParts DEF IInv, LogOK
<1>2. PICK k \in Seqs \cup {0} :
        /\ IsLast(log, k)
        /\ conn' = [conn EXCEPT !.pc = "send",
                               !.upto = IF k > conn.cursor THEN k ELSE conn.cursor]
  BY DEF ListEvents
<1>3. \A m \in Seqs : m <= k => log[m] # NoEvent
  BY <1>2, SeqsAreNats DEF IInv, LogOK, IsLast
<1>4. \A m \in Seqs : m <= conn.cursor => log[m] # NoEvent
  BY <1>1, CursorsAreNats, SeqsAreNats DEF IInv, WireContinues, ConnRecords
<1>5. conn' \in ConnRecords /\ conn'.cursor = conn.cursor /\ conn'.pc = "send"
  BY <1>1, <1>2 DEF ConnRecords
<1>6. conn'.upto = IF k > conn.cursor THEN k ELSE conn.cursor
  BY <1>1, <1>2 DEF ConnRecords
<1>7. conn'.cursor <= conn'.upto /\ \A m \in Seqs : m <= conn'.upto => log[m] # NoEvent
  BY <1>1, <1>2, <1>3, <1>4, <1>5, <1>6, CursorsAreNats DEF ConnRecords
<1> QED
  BY <1>5, <1>7, ServerKeepsInvariant DEF IInv, TypeOK, ListEvents, bounds

LEMMA ReadStatusKeepsInvariant == IInv /\ (ReadStatus \/ RunOut) => IInv'
<1> SUFFICES ASSUME IInv, ReadStatus \/ RunOut PROVE IInv'
  OBVIOUS
<1>1. conn \in ConnRecords
  BY TypeParts DEF IInv
<1>2. /\ conn' \in ConnRecords /\ conn'.pc # "none"
      /\ conn'.cursor = conn.cursor /\ conn'.upto = conn.upto
  BY <1>1 DEF ReadStatus, RunOut, ConnRecords
<1>3. \A k \in Seqs : k <= conn'.upto => log[k] # NoEvent
  BY <1>2 DEF IInv, WireContinues
<1>4. conn'.cursor <= conn'.upto
  BY <1>2 DEF IInv, WireContinues
<1>5. runOuts' \in 0 .. MaxRunOuts
  BY StreamAssumption DEF IInv, TypeOK, ReadStatus, RunOut, bounds
<1> QED
  BY <1>2, <1>3, <1>4, <1>5, ServerKeepsInvariant DEF ReadStatus, RunOut, bounds

LEMMA YieldKeepsInvariant == IInv /\ Yield => IInv'
<1> SUFFICES ASSUME IInv, Yield PROVE IInv'
  OBVIOUS
<1> DEFINE k == conn.cursor + 1
           frame == [seq |-> k, doc |-> log[k]]
<1>1. /\ conn \in ConnRecords /\ wire \in Seq(Frames) /\ page \in PageRecords
      /\ log \in Logs
  BY TypeParts DEF IInv, LogOK
<1>2. k \in Seqs /\ k <= conn.upto
  BY <1>1, CursorsAreNats, SeqsAreNats DEF Yield, ConnRecords
<1>3. log[k] \in Documents
  BY <1>1, <1>2 DEF IInv, WireContinues, Logs
<1>4. frame \in Frames
  BY <1>2, <1>3 DEF Frames
<1>5. wire' = Append(wire, frame)
  BY DEF Yield
<1>6. wire' \in Seq(Frames) /\ Len(wire') = Len(wire) + 1
  BY <1>1, <1>4, <1>5
<1>7. \A i \in 1 .. Len(wire') : wire'[i] = IF i = Len(wire) + 1 THEN frame ELSE wire[i]
  BY <1>1, <1>4, <1>5
<1>8. /\ conn' \in ConnRecords
      /\ conn'.cursor = k /\ conn'.upto = conn.upto /\ conn'.pc # "none"
  BY <1>1, <1>2 DEF Yield, ConnRecords
<1>9. TypeOK'
  BY <1>6, <1>8 DEF IInv, TypeOK, ConnRecords, Yield, bounds
<1>10. LogOK' /\ ShownIsPrefix' /\ LoadsLeft'
  BY DEF IInv, LogOK, ShownIsPrefix, UpTo, LoadsLeft, Yield, rows
<1>11. conn.cursor = page.cursor + Len(wire)
  BY DEF IInv, WireContinues, Yield
<1>12. \A i \in 1 .. Len(wire') : /\ wire'[i].seq = page.cursor + i
                                  /\ log[wire'[i].seq] = wire'[i].doc
  <2> SUFFICES ASSUME NEW i \in 1 .. Len(wire')
               PROVE  wire'[i].seq = page.cursor + i /\ log[wire'[i].seq] = wire'[i].doc
    OBVIOUS
  <2>0. Len(wire) \in Nat /\ page.cursor \in Nat
    BY <1>1, CursorsAreNats DEF PageRecords
  <2>1. CASE i = Len(wire) + 1
    <3>1. wire'[i] = frame
      BY <1>7, <2>1
    <3>2. wire'[i].seq = k /\ wire'[i].doc = log[k]
      BY <3>1
    <3>3. k = page.cursor + i
      BY <1>11, <2>0, <2>1
    <3> HIDE DEF k, frame
    <3> QED
      BY <3>2, <3>3
  <2>2. CASE i # Len(wire) + 1
    <3>1. i \in 1 .. Len(wire)
      BY <1>6, <2>0, <2>2
    <3> QED
      BY <1>7, <2>2, <3>1 DEF IInv, WireContinues
  <2> QED
    BY <2>1, <2>2
<1>13. k = page.cursor + (Len(wire) + 1)
  BY <1>1, <1>11, CursorsAreNats DEF PageRecords
<1>14. WireContinues'
  BY <1>2, <1>6, <1>8, <1>12, <1>13 DEF IInv, WireContinues, Yield, rows
<1> QED
  BY <1>9, <1>10, <1>14 DEF IInv

\* Steps behind which there is no connection: the page keeps what it shows.
LEMMA ClosingKeepsInvariant ==
    ASSUME IInv, UNCHANGED <<rows, runOuts>>, conn' = Closed, wire' = <<>>,
           page' \in PageRecords, losses' \in 0 .. MaxLosses,
           page'.events = UpTo(log, page'.cursor),
           page'.cursor <= page.cursor,
           LoadsLeft'
    PROVE  IInv'
<1>1. conn' \in ConnRecords /\ wire' \in Seq(Frames)
  BY DEF Closed, ConnRecords
<1>2. TypeOK'
  BY <1>1 DEF IInv, TypeOK, ConnRecords, PageRecords
<1>3. LogOK' /\ ShownIsPrefix'
  BY DEF IInv, LogOK, ShownIsPrefix, UpTo, rows
<1>4. page \in PageRecords
  BY TypeParts DEF IInv
<1>5. \A k \in Seqs : k <= 0 \/ k <= page'.cursor => log[k] # NoEvent
  <2>1. page.cursor \in 0 .. 9 /\ page'.cursor \in 0 .. 9
    BY <1>4, CursorsAreNats DEF PageRecords
  <2>2. \A k \in Seqs : k <= page.cursor => log[k] # NoEvent
    BY DEF IInv, WireContinues
  <2> QED
    BY <2>1, <2>2, SeqsAreNats
<1>6. conn'.pc = "none" /\ conn'.cursor = 0 /\ conn'.upto = 0 /\ Len(wire') = 0
  BY DEF Closed
<1>7. WireContinues'
  BY <1>5, <1>6 DEF WireContinues, rows
<1> QED
  BY <1>2, <1>3, <1>7 DEF IInv

LEMMA BumpIsNat == \A attempt \in Nat : Bump(attempt) \in Nat
  BY DEF Bump

LEMMA LosingKeepsInvariant == IInv /\ (StreamEnded \/ Lose \/ Reload) => IInv'
<1> SUFFICES ASSUME IInv, StreamEnded \/ Lose \/ Reload PROVE IInv'
  OBVIOUS
<1>1. page \in PageRecords /\ losses \in 0 .. MaxLosses
  BY TypeParts DEF IInv
<1>2. Bump(page.attempt) \in Nat
  BY <1>1, BumpIsNat DEF PageRecords
<1>3. CASE StreamEnded
  <2>1. page' \in PageRecords /\ page'.events = page.events /\ page'.cursor = page.cursor
    BY <1>1, <1>2, <1>3 DEF StreamEnded, PageRecords
  <2>2. wire' = <<>> /\ conn' = Closed /\ losses' = losses /\ UNCHANGED <<rows, runOuts>>
    BY <1>3 DEF StreamEnded, bounds
  <2>3. LoadsLeft'
    BY <1>1, <1>3 DEF IInv, LoadsLeft, StreamEnded, PageRecords
  <2> QED
    BY <1>1, <2>1, <2>2, <2>3, CursorsAreNats, ClosingKeepsInvariant
       DEF IInv, ShownIsPrefix, PageRecords
<1>4. CASE Lose
  <2>1. page' \in PageRecords /\ page'.events = page.events /\ page'.cursor = page.cursor
    BY <1>1, <1>2, <1>4 DEF Lose, PageRecords
  <2>2. losses' \in 0 .. MaxLosses
    BY <1>1, <1>4, StreamAssumption DEF Lose
  <2>3. wire' = <<>> /\ conn' = Closed /\ UNCHANGED <<rows, runOuts>>
    BY <1>4 DEF Lose
  <2>4. LoadsLeft'
    BY <1>1, <1>4 DEF IInv, LoadsLeft, Lose, PageRecords
  <2> QED
    BY <1>1, <2>1, <2>2, <2>3, <2>4, CursorsAreNats, ClosingKeepsInvariant
       DEF IInv, ShownIsPrefix, PageRecords
<1>5. CASE Reload
  <2>1. page' \in PageRecords /\ page'.events = EmptyLog /\ page'.cursor = 0
    BY <1>5, EmptyIsLog, StreamAssumption DEF Reload, Opened, PageRecords
  <2>2. losses' \in 0 .. MaxLosses
    BY <1>1, <1>5, StreamAssumption DEF Reload
  <2>3. UpTo(log, 0) = EmptyLog
    BY SeqsAreNats DEF UpTo, EmptyLog
  <2>4. 0 <= page.cursor
    BY <1>1, CursorsAreNats DEF PageRecords
  <2>5. wire' = <<>> /\ conn' = Closed /\ UNCHANGED <<rows, runOuts>>
    BY <1>5 DEF Reload
  <2>6. LoadsLeft'
    BY <1>5, StreamAssumption DEF LoadsLeft, Reload, Opened
  <2> QED
    BY <2>1, <2>2, <2>3, <2>4, <2>5, <2>6, ClosingKeepsInvariant
<1> QED
  BY <1>3, <1>4, <1>5

LEMMA ConnectKeepsInvariant == IInv /\ Connect => IInv'
<1> SUFFICES ASSUME IInv, Connect PROVE IInv'
  OBVIOUS
<1>1. page \in PageRecords /\ wire = <<>>
  BY TypeParts DEF IInv, WireContinues, Connect
<1>2. /\ conn' = [pc |-> "list", cursor |-> page.cursor, upto |-> page.cursor]
      /\ conn' \in ConnRecords
  BY <1>1 DEF Connect, LastEventId, ConnRecords, PageRecords
<1>3. /\ page' \in PageRecords
      /\ page'.events = page.events /\ page'.cursor = page.cursor
      /\ page'.trace = page.trace /\ page'.loads = page.loads
  BY <1>1 DEF Connect, PageRecords
<1>4. TypeOK'
  BY <1>2, <1>3 DEF IInv, TypeOK, ConnRecords, PageRecords, Connect, bounds
<1>5. LogOK' /\ ShownIsPrefix' /\ LoadsLeft'
  BY <1>1, <1>3 DEF IInv, LogOK, ShownIsPrefix, UpTo, LoadsLeft, Connect, PageRecords, rows
<1>6. Len(wire') = 0 /\ page.cursor = page.cursor + 0
  BY <1>1, CursorsAreNats DEF Connect, PageRecords
<1>7. conn'.pc = "list" /\ conn'.cursor = page.cursor /\ conn'.upto = page.cursor
  BY <1>2
<1>8. page.cursor <= page.cursor
  BY <1>1, CursorsAreNats DEF PageRecords
<1>9. \A k \in Seqs : k <= page.cursor => log[k] # NoEvent
  BY DEF IInv, WireContinues
<1>10. WireContinues'
  BY <1>3, <1>6, <1>7, <1>8, <1>9 DEF WireContinues, Connect, rows
<1> QED
  BY <1>4, <1>5, <1>10 DEF IInv

LEMMA LoadTraceKeepsInvariant == IInv /\ LoadTrace => IInv'
<1> SUFFICES ASSUME IInv, LoadTrace PROVE IInv'
  OBVIOUS
<1>1. page \in PageRecords
  BY TypeParts DEF IInv
<1>2. PICK t \in {"none", "shown", "given_up"} :
        /\ page' = [page EXCEPT !.loads = page.loads + 1, !.trace = t]
        /\ t = "none" => page.loads + 1 < TraceLoads
  BY DEF LoadTrace
<1>3. page.loads + 1 \in 0 .. TraceLoads
  BY <1>1, StreamAssumption DEF IInv, LoadsLeft, LoadTrace, PageRecords
<1>4. /\ page' \in PageRecords
      /\ page'.events = page.events /\ page'.cursor = page.cursor
      /\ page'.trace = t /\ page'.loads = page.loads + 1
  BY <1>1, <1>2, <1>3 DEF PageRecords
<1>5. TypeOK' /\ LoadsLeft'
  BY <1>2, <1>4 DEF IInv, TypeOK, PageRecords, LoadTrace, LoadsLeft, bounds
<1> QED
  BY <1>4, <1>5 DEF IInv, LogOK, ShownIsPrefix, UpTo, WireContinues, LoadTrace, rows

LEMMA ReceiveKeepsInvariant == IInv /\ Receive => IInv'
<1> SUFFICES ASSUME IInv, Receive PROVE IInv'
  OBVIOUS
<1> DEFINE item == Head(wire)
           ended == item.doc.type \in TerminalEvents
<1>1. /\ conn \in ConnRecords /\ wire \in Seq(Frames) /\ page \in PageRecords
      /\ log \in Logs /\ wire # <<>>
  BY TypeParts DEF IInv, LogOK, Receive
<1>2. 1 \in 1 .. Len(wire) /\ item = wire[1] /\ item \in Frames
  BY <1>1
<1>3. item.seq = page.cursor + 1 /\ item.doc = log[item.seq]
  BY <1>2 DEF IInv, WireContinues
<1>4. item.seq \in Seqs /\ item.doc \in Documents /\ item.doc # NoEvent
  BY <1>2, NoEventIsNone DEF Frames
<1>5. page.events[item.seq] = NoEvent
  BY <1>3, <1>4, SeqsAreNats, CursorsAreNats, <1>1
     DEF IInv, ShownIsPrefix, UpTo, PageRecords
<1>6. page.cursor < item.seq
  BY <1>1, <1>3, CursorsAreNats DEF PageRecords
<1>7. page' = [page EXCEPT !.cursor = item.seq,
                          !.events = [page.events EXCEPT ![item.seq] = item.doc],
                          !.received = TRUE,
                          !.state = IF ended THEN "complete" ELSE "live"]
  BY <1>5, <1>6 DEF Receive
<1>8. [page.events EXCEPT ![item.seq] = item.doc] \in Logs
  BY <1>1, <1>4 DEF PageRecords, Logs
<1>9. /\ page' \in PageRecords
      /\ page'.cursor = item.seq
      /\ page'.events = [page.events EXCEPT ![item.seq] = item.doc]
      /\ page'.trace = page.trace /\ page'.loads = page.loads
  <2> HIDE DEF item, ended
  <2> QED
    BY <1>1, <1>4, <1>7, <1>8 DEF PageRecords
<1>10. ShownIsPrefix'
  <2>1. page.events = UpTo(log, page.cursor)
    BY DEF IInv, ShownIsPrefix
  <2>2. \A m \in Seqs : m <= item.seq <=> (m <= page.cursor \/ m = item.seq)
    BY <1>1, <1>3, <1>4, SeqsAreNats, CursorsAreNats DEF PageRecords
  <2>3. [page.events EXCEPT ![item.seq] = item.doc] = UpTo(log, item.seq)
    <3> HIDE DEF item
    <3> QED
      BY <1>3, <1>4, <1>6, <2>1, <2>2 DEF UpTo
  <2>4. log' = log
    BY DEF Receive, rows
  <2> QED
    BY <1>9, <2>3, <2>4 DEF ShownIsPrefix, UpTo
<1>11. LogOK' /\ LoadsLeft'
  BY <1>9 DEF IInv, LogOK, LoadsLeft, Receive, rows
<1>12. CASE ended
  <2>1. conn' = Closed /\ wire' = <<>> /\ losses' = losses /\ runOuts' = runOuts /\ UNCHANGED rows
    BY <1>12 DEF Receive, bounds
  <2>2. TypeOK'
    BY <1>9, <2>1 DEF IInv, TypeOK, PageRecords, Closed
  <2>3. \A k \in Seqs : k <= 0 \/ k <= item.seq => log[k] # NoEvent
    BY <1>3, <1>4, SeqsAreNats DEF IInv, LogOK
  <2>4. conn'.pc = "none" /\ conn'.cursor = 0 /\ conn'.upto = 0 /\ Len(wire') = 0
    BY <2>1 DEF Closed
  <2>5. WireContinues'
    <3> HIDE DEF item
    <3> QED
      BY <1>9, <2>1, <2>3, <2>4 DEF WireContinues, rows
  <2> QED
    BY <1>10, <1>11, <2>2, <2>5 DEF IInv
<1>13. CASE ~ended
  <2>1. conn' = conn /\ wire' = Tail(wire) /\ losses' = losses /\ runOuts' = runOuts /\ UNCHANGED rows
    BY <1>13 DEF Receive, bounds
  <2>2. wire' \in Seq(Frames) /\ Len(wire') = Len(wire) - 1
    BY <1>1, <2>1
  <2>3. \A i \in 1 .. Len(wire') : wire'[i] = wire[i + 1] /\ i + 1 \in 1 .. Len(wire)
    BY <1>1, <2>1, <2>2
  <2>4. TypeOK'
    BY <1>9, <2>1, <2>2 DEF IInv, TypeOK, PageRecords
  <2>5. \A i \in 1 .. Len(wire') : /\ wire'[i].seq = page.cursor + (i + 1)
                                   /\ log[wire'[i].seq] = wire'[i].doc
    BY <2>3 DEF IInv, WireContinues
  <2>0. page.cursor \in Nat /\ Len(wire) \in Nat /\ Len(wire') \in Nat
    BY <1>1, <2>2, CursorsAreNats DEF PageRecords
  <2>6. \A i \in 1 .. Len(wire') : page.cursor + (i + 1) = item.seq + i
    <3> HIDE DEF item
    <3> QED
      BY <1>3, <2>0
  <2>7. \A k \in Seqs : k <= conn.upto \/ k <= item.seq => log[k] # NoEvent
    BY <1>3, <1>4, SeqsAreNats DEF IInv, LogOK, WireContinues
  <2>8. conn.pc # "none"
    BY <1>1 DEF IInv, WireContinues
  <2>9. conn.cursor = item.seq + Len(wire')
    <3>1. conn.cursor = page.cursor + Len(wire)
      BY <2>8 DEF IInv, WireContinues
    <3> HIDE DEF item
    <3> QED
      BY <1>3, <2>0, <2>2, <3>1
  <2>10. WireContinues'
    <3> HIDE DEF item
    <3>1. conn.cursor <= conn.upto
      BY DEF IInv, WireContinues
    <3> QED
      BY <1>9, <2>1, <2>5, <2>6, <2>7, <2>8, <2>9, <3>1 DEF WireContinues, rows
  <2> QED
    BY <1>10, <1>11, <2>4, <2>10 DEF IInv
<1> QED
  BY <1>12, <1>13

-----------------------------------------------------------------------------
(* The theorems.                                                           *)

LEMMA NextKeepsInvariant == IInv /\ [Next]_vars => IInv'
<1> SUFFICES ASSUME IInv, [Next]_vars PROVE IInv'
  OBVIOUS
<1>1. CASE Next
  BY <1>1, WriteKeepsInvariant, ListEventsKeepsInvariant, YieldKeepsInvariant,
     ReadStatusKeepsInvariant, ConnectKeepsInvariant, ReceiveKeepsInvariant,
     LosingKeepsInvariant, LoadTraceKeepsInvariant
     DEF Next, StreamStep, PageStep
<1>2. CASE UNCHANGED vars
  BY <1>2 DEF vars, bounds, IInv, LogOK, TypeOK, ShownIsPrefix, UpTo, WireContinues, LoadsLeft
<1> QED
  BY <1>1, <1>2

\* IInv holds in every state of a watched run: the page's cursor, the frames
\* on the wire and the server's cursor are always consecutive stretches of the
\* log (stream_run_events and useRunEvents).
THEOREM InductiveInvariant == Spec => []IInv
<1>1. Init => IInv
  BY InitInvariant
<1>2. IInv /\ [Next]_vars => IInv'
  BY NextKeepsInvariant
<1> QED
  BY <1>1, <1>2, PTL DEF Spec

\* The connection and the page stay within their states, and the page never
\* asks for the trace more often than it may (useRunEvents, RunWorkspace).
THEOREM TypeCorrect == Spec => []TypeOK
<1>1. IInv => TypeOK
  BY DEF IInv
<1> QED
  BY <1>1, InductiveInvariant, PTL

\* However often the connection is lost and resumed and whatever is written
\* meanwhile, the page shows exactly the log up to its cursor: no event is
\* missing, doubled or out of place (mergeRunEvents and Last-Event-ID).
THEOREM PageShowsPrefix == Spec => []ShownIsPrefix
<1>1. IInv => ShownIsPrefix
  BY DEF IInv
<1> QED
  BY <1>1, InductiveInvariant, PTL

\* With the bounds as large as they can be, the writers a run is watched with
\* are all that keep RunContract, the ones of RunLifecycle among them: nothing
\* an activity, a finalizer or an API request commits is left out of what is
\* shown of the streams (runs/service.py, activities/execution.py).
THEOREM AllWritersAreWatched ==
    ASSUME ProgressTypes = EventTypes, MaxEvents = KernelLen + 1, LogOK
    PROVE  WriteRows <=> Store!Next
<1>1. WriteRows => Store!Next
  BY DEF WriteRows, Store!Next
<1>2. Store!Next => LogOK'
  BY LogStep
<1>3. ASSUME Store!Next PROVE Explored
  <2>1. log' \in Logs
    BY <1>2, <1>3 DEF LogOK
  <2>2. ASSUME NEW k \in Seqs, log'[k] # NoEvent
        PROVE  k <= MaxEvents /\ log'[k].type \in {"run.started"} \cup TerminalEvents \cup ProgressTypes
    <3>1. k <= MaxEvents
      BY DEF Seqs, KernelLen
    <3>2. log'[k] \in Documents
      BY <2>1, <2>2 DEF Logs
    <3> QED
      BY <3>1, <3>2 DEF Documents
  <2> QED
    BY <2>2 DEF Explored
<1>4. ASSUME Store!Settle PROVE trace' \in Candidates
  <2>1. PICK t \in Store!Traces : t = trace'
    BY <1>4 DEF Store!Settle
  <2>2. t.status \in TerminalStatuses
    BY DEF Store!Traces, Store!TerminalStatuses, TerminalStatuses
  <2>3. CASE log' = log /\ t.by = "worker"
    <3>1. PICK k \in Seqs : t.events = Store!UpTo(log, k)
      BY <1>4, <2>1, <2>3, SameRecord DEF Store!Settle
    <3>2. Store!UpTo(log, k) = UpTo(log, k)
      BY SameRecord DEF Store!UpTo, UpTo, Store!NoEvent, NoEvent
    <3>3. t \in [status : TerminalStatuses, events : {UpTo(log, i) : i \in Seqs}, by : {"worker"}]
      BY <2>2, <2>3, <3>1, <3>2 DEF Store!Traces
    <3> QED
      BY <2>1, <3>3 DEF Candidates
  <2>4. CASE \E r \in Requests : t = Store!StartFailureTrace(r)
    <3>1. \A r : Store!StartFailureTrace(r) = StartFailureTrace(r)
      BY SameStartFailure
    <3> QED
      BY <2>1, <2>4, <3>1 DEF Candidates
  <2> QED
    BY <1>4, <2>1, <2>3, <2>4 DEF Store!Settle
<1> QED
  BY <1>1, <1>3, <1>4 DEF WriteRows, Store!Next

=============================================================================
