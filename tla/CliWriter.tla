------------------------------- MODULE CliWriter -------------------------------
(***************************************************************************)
(* `tsf write` and `tsf new` (cli/src/main.rs): standard input, or the two *)
(* output pipes of a child, are read in chunks, cut into records, either   *)
(* lines or blocks of bytes, and submitted to a durable writer, no further *)
(* ahead of its acknowledgements than a window.  Ctrl-C stops the input,   *)
(* lets what was received become durable, and a second one gives up.       *)
(*                                                                         *)
(* The durable writer is external here; its promise, that tickets resolve  *)
(* in the order of the submissions and fail once it has failed, is what    *)
(* ReliableAppend states.  All tasks share one thread (current_thread), so *)
(* another one runs only while the writing task waits.                     *)
(***************************************************************************)
EXTENDS Integers, Sequences, SequencesExt

CONSTANTS
  Inputs,          \* a set of [mode, buffering, text]
  MaxPayload,      \* MAX_RECORD_PAYLOAD_BYTES
  WindowRecords,   \* MAX_WRITER_IN_FLIGHT_RECORDS
  WindowBytes,     \* MAX_WRITER_IN_FLIGHT_PAYLOAD_BYTES
  ChannelCap,      \* capacity of the chunk channel
  MaxChunk,        \* bound: bytes in a chunk, STDIN_READ_BYTES
  MaxInterrupts    \* bound: times Ctrl-C is pressed

ASSUME CliAssumption ==
  /\ \A j \in Inputs : /\ j.mode \in {"stdin", "command"}
                       /\ j.buffering \in {"bytes", "lines"}
                       /\ \A p \in DOMAIN j.text : j.text[p] \in Seq({"x", "\n"})
  /\ {MaxPayload, WindowRecords, WindowBytes, ChannelCap, MaxChunk} \subseteq Nat \ {0}
  /\ MaxInterrupts \in Nat

VARIABLES
  \* the input
  job,          \* the member of Inputs, and where its child is
  read,         \* pipe -> bytes read from it
  hand,         \* pipe -> the chunk its reader waits to send, or <<>>
  reader,       \* pipe -> "running", "ended", or "failed"
  chan,         \* the chunk channel
  closed,       \* chunk_rx.close() was called
  child,        \* "running", "exited", "killed"; always "exited" for stdin
  \* Ctrl-C
  pressed,
  interrupted,  \* WriteInterrupt.triggered
  ignored,      \* one was pressed and nothing listened
  \* the writing task
  pc,           \* where it waits, or what it is about to do
  rest,         \* the bytes of the current chunk that are not pushed yet
  buf,          \* the appender's pending bytes
  deadline,     \* the byte appender's linger deadline is set
  batch,        \* the record about to be submitted
  back,         \* where it goes on afterwards
  \* WriterSession
  tickets,      \* pending: [records, bytes]
  pendRecords, pendBytes, records,
  \* the durable writer (external)
  accepted,     \* the records submitted
  durable,      \* how many of them are durable
  broken,       \* it has failed
  \* history
  input         \* the bytes the writing task has received

readerVars == <<read, hand, reader>>
interruptVars == <<pressed, interrupted, ignored>>
appendVars == <<rest, buf, deadline, batch, back>>
sessionVars == <<tickets, pendRecords, pendBytes, records, accepted>>
writerVars == <<durable, broken>>
vars == <<job, readerVars, chan, closed, child, interruptVars, pc, appendVars,
          sessionVars, writerVars, input>>

Pipes == DOMAIN job.text
Lines == job.buffering = "lines"
IsNewline(byte) == job.text[byte[1]][byte[2]] = "\n"

\* A batch holds the physical records of one line, or one block.
RecordCount(bytes) ==
  IF bytes = <<>> THEN 1 ELSE (Len(bytes) + MaxPayload - 1) \div MaxPayload

Ended == {"done", "aborted", "failed"}

\* Where the writing task waits and others run.
Waiting == pc \in {"receive", "wait", "join", "finish"}

Init ==
  /\ job \in Inputs
  /\ read = [p \in Pipes |-> 0] /\ hand = [p \in Pipes |-> <<>>]
  /\ reader = [p \in Pipes |-> "running"]
  /\ chan = <<>> /\ closed = FALSE
  /\ child = IF job.mode = "stdin" THEN "exited" ELSE "running"
  /\ pressed = 0 /\ interrupted = FALSE /\ ignored = FALSE
  /\ pc = "receive" /\ rest = <<>> /\ buf = <<>> /\ deadline = FALSE
  /\ batch = <<>> /\ back = "receive"
  /\ tickets = <<>> /\ pendRecords = 0 /\ pendBytes = 0 /\ records = 0
  /\ accepted = <<>> /\ durable = 0 /\ broken = FALSE
  /\ input = <<>>

-----------------------------------------------------------------------------
(* read_pipe_chunks, and the child.                                        *)

Read(p) ==
  /\ Waiting /\ reader[p] = "running" /\ hand[p] = <<>>
  /\ \E n \in 1..MaxChunk :
       /\ read[p] + n <= Len(job.text[p])
       /\ hand' = [hand EXCEPT ![p] = [i \in 1..n |-> <<p, read[p] + i>>]]
       /\ read' = [read EXCEPT ![p] = @ + n]
  /\ UNCHANGED <<job, reader, chan, closed, child, interruptVars, pc, appendVars,
                 sessionVars, writerVars, input>>

\* The end of the pipe, which a killed child may not have filled, or an error.
ReadEnd(p) ==
  /\ Waiting /\ reader[p] = "running" /\ hand[p] = <<>>
  /\ \/ /\ read[p] = Len(job.text[p]) \/ child = "killed"
        /\ reader' = [reader EXCEPT ![p] = "ended"]
     \/ reader' = [reader EXCEPT ![p] = "failed"]
  /\ UNCHANGED <<job, read, hand, chan, closed, child, interruptVars, pc, appendVars,
                 sessionVars, writerVars, input>>

\* The receiver is gone when the channel is closed.
Send(p) ==
  /\ Waiting /\ reader[p] = "running" /\ hand[p] # <<>>
  /\ IF closed
       THEN /\ reader' = [reader EXCEPT ![p] = "ended"]
            /\ UNCHANGED <<chan, hand>>
       ELSE /\ Len(chan) < ChannelCap
            /\ chan' = Append(chan, hand[p])
            /\ hand' = [hand EXCEPT ![p] = <<>>]
            /\ UNCHANGED reader
  /\ UNCHANGED <<job, read, closed, child, interruptVars, pc, appendVars, sessionVars,
                 writerVars, input>>

ChildExits ==
  /\ Waiting /\ child = "running"
  /\ child' = "exited"
  /\ UNCHANGED <<job, readerVars, chan, closed, interruptVars, pc, appendVars,
                 sessionVars, writerVars, input>>

-----------------------------------------------------------------------------
(* Ctrl-C, by who listens for it: the standard input task while it reads,  *)
(* the select around the writing of a child's output, or finish_write.     *)

StdinListens == job.mode = "stdin" /\ \E p \in Pipes : reader[p] = "running"
CommandListens == job.mode = "command" /\ pc \in {"receive", "wait"} /\ ~interrupted
FinishListens == pc = "finish"

\* The reader is dropped, and with it the sender.
InterruptStdin ==
  /\ StdinListens
  /\ reader' = [p \in Pipes |-> "ended"] /\ hand' = [p \in Pipes |-> <<>>]
  /\ interrupted' = TRUE
  /\ UNCHANGED <<child, pc, ignored>>

\* The child is killed before the writing goes on.
InterruptCommand ==
  /\ CommandListens
  /\ interrupted' = TRUE
  /\ child' = IF child = "running" THEN "killed" ELSE child
  /\ UNCHANGED <<reader, hand, pc, ignored>>

InterruptFinish ==
  /\ FinishListens
  /\ pc' = "aborted"
  /\ UNCHANGED <<reader, hand, child, interrupted, ignored>>

\* The runtime has taken the signal over and nobody waits for it.
InterruptLost ==
  /\ ~StdinListens /\ ~CommandListens /\ ~FinishListens
  /\ ignored' = TRUE
  /\ UNCHANGED <<reader, hand, child, interrupted, pc>>

CtrlC ==
  /\ Waiting /\ pressed < MaxInterrupts
  /\ pressed' = pressed + 1
  /\ InterruptStdin \/ InterruptCommand \/ InterruptFinish \/ InterruptLost
  /\ UNCHANGED <<job, read, chan, closed, appendVars, sessionVars, writerVars, input>>

-----------------------------------------------------------------------------
(* WriterSession.                                                          *)

\* Tickets at the front that have resolved; a failed writer resolves them all.
Resolved == durable - (Len(accepted) - Len(tickets))
TicketFailed == broken /\ Resolved < Len(tickets)

Total(ns) ==
  LET sum[n \in 0..Len(ns)] == IF n = 0 THEN 0 ELSE sum[n - 1] + ns[n]
  IN sum[Len(ns)]
SumRecords(ts) == Total([i \in DOMAIN ts |-> ts[i].records])
SumBytes(ts) == Total([i \in DOMAIN ts |-> ts[i].bytes])

\* remove_oldest, `n` times.
RemoveOldest(n) ==
  /\ tickets' = SubSeq(tickets, n + 1, Len(tickets))
  /\ pendRecords' = pendRecords - SumRecords(SubSeq(tickets, 1, n))
  /\ pendBytes' = pendBytes - SumBytes(SubSeq(tickets, 1, n))

\* Variant: what is asked for now is not counted.
RoomBefore == pendRecords <= WindowRecords /\ pendBytes <= WindowBytes

\* There is room for the batch in the window.
Room ==
  /\ pendRecords + RecordCount(batch) <= WindowRecords
  /\ pendBytes + Len(batch) <= WindowBytes

Fail == pc' = "failed"

\* submit_batch, once it does not wait; the writer itself takes any number.
Submit ==
  IF broken
    THEN /\ Fail /\ UNCHANGED <<sessionVars, batch>>
    ELSE /\ accepted' = Append(accepted, batch)
         /\ tickets' = Append(tickets, [records |-> RecordCount(batch), bytes |-> Len(batch)])
         /\ records' = records + RecordCount(batch)
         /\ pendRecords' = pendRecords + RecordCount(batch)
         /\ pendBytes' = pendBytes + Len(batch)
         /\ batch' = <<>>
         /\ pc' = back

\* drain_ready_tickets, and a turn of the loop of wait_for_capacity.
Admit ==
  /\ pc = "admit"
  /\ \/ /\ Resolved = 0 /\ ~TicketFailed
        /\ tickets = <<>> \/ interrupted \/ Room
        /\ Submit
     \/ /\ Resolved = 0 /\ ~TicketFailed
        /\ tickets # <<>> /\ ~interrupted /\ ~Room
        /\ pc' = "wait" /\ UNCHANGED <<sessionVars, batch>>
     \/ /\ Resolved > 0 /\ ~TicketFailed
        /\ RemoveOldest(Resolved) /\ UNCHANGED <<records, accepted, batch, pc>>
     \/ TicketFailed /\ Fail /\ UNCHANGED <<sessionVars, batch>>
  /\ UNCHANGED <<job, readerVars, chan, closed, child, interruptVars, rest, buf, deadline,
                 back, writerVars, input>>

\* The wait for capacity ends: what has resolved is removed, and after an interrupt
\* there is room.
WaitForOldest ==
  /\ pc = "wait" /\ (interrupted \/ Resolved > 0 \/ TicketFailed)
  /\ pc' = "admit"
  /\ UNCHANGED <<job, readerVars, chan, closed, child, interruptVars, appendVars,
                 sessionVars, writerVars, input>>

-----------------------------------------------------------------------------
(* stream_byte_chunks_to_writer, stream_line_chunks_to_writer.             *)

\* The record is submitted, then the task goes on at `next`.
AppendRecord(record, next) ==
  /\ batch' = record /\ back' = next /\ pc' = "admit"
  /\ buf' = <<>> /\ deadline' = FALSE

\* Variant: the first pipe that ends ends the input.
FirstPipeEnds == chan = <<>> /\ \E p \in Pipes : reader[p] # "running"

\* Every sender is gone and the channel is empty.
InputEnds == chan = <<>> /\ \A p \in Pipes : reader[p] # "running"

Receive ==
  /\ pc = "receive"
  /\ \/ /\ interrupted \/ InputEnds
        /\ pc' = "flush"
        /\ UNCHANGED <<chan, appendVars, input>>
     \/ /\ ~interrupted /\ chan # <<>>
        /\ rest' = Head(chan) /\ chan' = Tail(chan) /\ input' = input \o Head(chan)
        /\ pc' = "push"
        /\ UNCHANGED <<buf, deadline, batch, back>>
  /\ UNCHANGED <<job, readerVars, closed, child, interruptVars, sessionVars, writerVars>>

\* sleep_until(deadline).
Linger ==
  /\ pc = "receive" /\ ~interrupted /\ ~InputEnds /\ chan = <<>> /\ deadline
  /\ AppendRecord(buf, "receive")
  /\ UNCHANGED <<job, readerVars, chan, closed, child, interruptVars, rest, sessionVars,
                 writerVars, input>>

\* Variant: what a full record cannot take is dropped.
NothingAfter(n) == <<>>

After(n) == SubSeq(rest, n + 1, Len(rest))

\* ByteRecordAppender::push_bytes, one turn.
PushBytes ==
  LET space == MaxPayload - Len(buf)
      taken == IF space < Len(rest) THEN space ELSE Len(rest)
      filled == buf \o SubSeq(rest, 1, taken)
  IN /\ rest' = After(taken)
     /\ IF Len(filled) = MaxPayload
          THEN AppendRecord(filled, "push")
          ELSE /\ buf' = filled /\ deadline' = TRUE
               /\ UNCHANGED <<batch, back, pc>>

\* LineRecordAppender::push_bytes, one turn.
PushLine ==
  LET ends == {i \in 1..Len(rest) : IsNewline(rest[i])}
      first == CHOOSE i \in ends : \A j \in ends : i <= j
  IN IF ends = {}
       THEN /\ buf' = buf \o rest /\ rest' = <<>>
            /\ UNCHANGED <<deadline, batch, back, pc>>
       ELSE /\ AppendRecord(buf \o SubSeq(rest, 1, first - 1), "push")
            /\ rest' = After(first)

Push ==
  /\ pc = "push"
  /\ \/ rest # <<>> /\ Lines /\ PushLine
     \/ rest # <<>> /\ ~Lines /\ PushBytes
     \/ rest = <<>> /\ pc' = "receive" /\ UNCHANGED appendVars
  /\ UNCHANGED <<job, readerVars, chan, closed, child, interruptVars, sessionVars,
                 writerVars, input>>

\* What is pending when the input has ended or is interrupted.
Flush ==
  /\ pc = "flush"
  /\ IF buf # <<>>
       THEN AppendRecord(buf, "join") /\ UNCHANGED rest
       ELSE pc' = "join" /\ UNCHANGED appendVars
  /\ UNCHANGED <<job, readerVars, chan, closed, child, interruptVars, sessionVars,
                 writerVars, input>>

-----------------------------------------------------------------------------
(* The end.                                                                *)

\* Variant: the readers are awaited with the channel still open.
LeavesOpen == FALSE

ClosesChannel == job.mode = "command" /\ interrupted

\* The reader tasks, and the child, are awaited.
CloseChannel ==
  /\ pc = "join" /\ ClosesChannel /\ ~closed
  /\ closed' = TRUE
  /\ UNCHANGED <<job, readerVars, chan, child, interruptVars, pc, appendVars, sessionVars,
                 writerVars, input>>

Join ==
  /\ pc = "join" /\ (ClosesChannel => closed)
  /\ \/ (\E p \in Pipes : reader[p] = "failed") /\ Fail
     \/ (\A p \in Pipes : reader[p] = "ended") /\ child # "running" /\ pc' = "finish"
  /\ UNCHANGED <<job, readerVars, chan, closed, child, interruptVars, appendVars,
                 sessionVars, writerVars, input>>

\* finish_write: WriterSession::finish, then TsfWriter::close.
Finish ==
  /\ pc = "finish"
  /\ \/ /\ tickets # <<>> /\ Resolved > 0
        /\ RemoveOldest(1) /\ UNCHANGED <<records, accepted, pc>>
     \/ tickets # <<>> /\ Resolved = 0 /\ broken /\ Fail /\ UNCHANGED sessionVars
     \/ tickets = <<>> /\ ~broken /\ pc' = "done" /\ UNCHANGED sessionVars
     \/ tickets = <<>> /\ broken /\ Fail /\ UNCHANGED sessionVars
  /\ UNCHANGED <<job, readerVars, chan, closed, child, interruptVars, appendVars,
                 writerVars, input>>

-----------------------------------------------------------------------------
(* The durable writer (external).                                          *)

MakeDurable ==
  /\ Waiting /\ ~broken /\ durable < Len(accepted)
  /\ durable' = durable + 1
  /\ UNCHANGED <<job, readerVars, chan, closed, child, interruptVars, pc, appendVars,
                 sessionVars, broken, input>>

WriterFails ==
  /\ Waiting /\ ~broken
  /\ broken' = TRUE
  /\ UNCHANGED <<job, readerVars, chan, closed, child, interruptVars, pc, appendVars,
                 sessionVars, durable, input>>

-----------------------------------------------------------------------------
WritingTask == \/ Receive \/ Push \/ Flush \/ Admit \/ WaitForOldest
               \/ CloseChannel \/ Join \/ Finish

Readers == \E p \in Pipes : Read(p) \/ ReadEnd(p) \/ Send(p)

Finished == pc \in Ended /\ UNCHANGED vars

Next == \/ WritingTask \/ Linger \/ Readers \/ ChildExits \/ CtrlC
        \/ MakeDurable \/ WriterFails \/ Finished

\* Tasks are polled, records become durable, and an interrupted child leaves its
\* pipes to nobody else.
Fairness ==
  /\ WF_vars(WritingTask) /\ WF_vars(MakeDurable)
  /\ WF_vars(job.mode = "command" /\ interrupted /\ Readers)

Spec == Init /\ [][Next]_vars /\ Fairness

-----------------------------------------------------------------------------
(* Properties.                                                             *)

(* Every variable has its type; pending bytes of a byte stream always have *)
(* their linger deadline running, so they do not wait for more input.      *)
TypeOK ==
  /\ job \in Inputs
  /\ \A p \in Pipes : /\ read[p] \in 0..Len(job.text[p])
                      /\ reader[p] \in {"running", "ended", "failed"}
                      /\ Len(hand[p]) <= MaxChunk
  /\ Len(chan) <= ChannelCap
  /\ {closed, interrupted, ignored, broken} \subseteq BOOLEAN
  /\ child \in {"running", "exited", "killed"}
  /\ pressed \in 0..MaxInterrupts
  /\ pc \in Ended \cup {"receive", "push", "admit", "wait", "flush", "join", "finish"}
  /\ back \in {"receive", "push", "join"}
  /\ {pendRecords, pendBytes, records} \subseteq Nat
  /\ durable \in 0..Len(accepted)
  /\ deadline <=> (~Lines /\ buf # <<>>)

\* The records written so far, the one that waits for capacity included.
Written == IF pc \in {"admit", "wait"} THEN Append(accepted, batch) ELSE accepted

Newline == <<"newline", 0>>
Erased(bytes) == [i \in DOMAIN bytes |-> IF IsNewline(bytes[i]) THEN Newline ELSE bytes[i]]

\* The record behind the last newline has none.
LastLineOpen ==
  /\ pc \in {"join", "finish", "done"} \/ (pc \in {"admit", "wait"} /\ back = "join")
  /\ input # <<>> /\ ~IsNewline(input[Len(input)])

(* Every byte received is in exactly one record, in order, or still in the *)
(* appender or the chunk, wherever the linger deadline, the end of a       *)
(* chunk, a wait for capacity, or the interrupt cut in; a line is a        *)
(* record.  What was received is, of each pipe, what it carried first: a   *)
(* byte comes once, and behind the one before it.                          *)
InputPreserved ==
  /\ pc \notin {"failed", "aborted"} =>
       IF Lines
         THEN FlattenSeq([k \in DOMAIN Written |-> Append(Written[k], Newline)])
                \o buf \o Erased(rest)
              = Erased(input) \o IF LastLineOpen THEN <<Newline>> ELSE <<>>
         ELSE FlattenSeq(Written) \o buf \o rest = input
  /\ \A k \in DOMAIN input :
       /\ input[k][2] = 1 \/ \E j \in 1..(k - 1) : input[j] = <<input[k][1], input[k][2] - 1>>
       /\ \A j \in 1..(k - 1) : input[j] # input[k]

(* "N records durable" is true: each is, nothing received is left behind,  *)
(* and without an interrupt the whole input was received.                  *)
ReportIsTrue ==
  pc = "done" =>
    /\ durable = Len(accepted) /\ buf = <<>> /\ rest = <<>>
    /\ records = Total([k \in DOMAIN accepted |-> RecordCount(accepted[k])])
    /\ ~interrupted => \A p \in Pipes : \A i \in DOMAIN job.text[p] :
                         \E k \in DOMAIN input : input[k] = <<p, i>>

(* Input waits for the acknowledgements: the counters are those of the     *)
(* pending tickets, and beyond the window there is one large record alone, *)
(* or what was left of the chunk that an interrupt found.  A partial       *)
(* record of bytes does not wait for more input (TypeOK).                  *)
WindowKept ==
  /\ TypeOK
  /\ pendRecords = SumRecords(tickets) /\ pendBytes = SumBytes(tickets)
  /\ (pendRecords > WindowRecords \/ pendBytes > WindowBytes) =>
       (Len(tickets) = 1 \/ interrupted)

(* After an interrupt the command ends: no reader that is blocked on a     *)
(* full channel, and no wait for capacity, keeps it.                       *)
InterruptEnds == interrupted ~> pc \in Ended

(* "On Ctrl-C, `tsf` stops input, flushes the current input chunk, waits    *)
(* for durability acknowledgements" (README.md): after one the task does   *)
(* not wait for room for more input, as if it had not been pressed.        *)
InterruptHeard == ~(ignored /\ ~interrupted /\ pc = "wait")
=============================================================================
