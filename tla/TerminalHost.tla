------------------------------ MODULE TerminalHost ------------------------------
(***************************************************************************)
(* The terminal host of the CLI (cli/src/terminal.rs).  A native thread    *)
(* reads the PTY and hands its output to the host's event loop through a   *)
(* bounded channel; PtyOutputHandoff (a mutex, a condition variable and a  *)
(* Notify) stops the thread around a resize and recovers the chunk it is   *)
(* blocked on when the output is cut off.  The loop queues output events   *)
(* for the publisher task, which makes them durable in order; the input    *)
(* forwarder applies input records one at a time.                          *)
(*                                                                         *)
(* A chunk is its number in reading order, the PTY size it was read under  *)
(* and the size it was let through the gate under; a size is the number of *)
(* resizes applied before.                                                 *)
(***************************************************************************)
EXTENDS Integers, Sequences, FiniteSets

CONSTANTS
  QueueLen,         \* PTY_OUTPUT_QUEUE, of the output and the command channel
  MaxUnacked,       \* MAX_PENDING_OUTPUT_RECORDS
  Interval,         \* TERMINAL_CHECKPOINT_RECORD_INTERVAL
  Checkpointable,   \* every attempt to emit a checkpoint succeeds
  Input,            \* the input stream: records [writer, seq, kind]
  MaxInputWriters,  \* MAX_INPUT_WRITERS
  MaxChunks,        \* bound: chunks the PTY delivers
  MaxHeartbeats     \* bound: heartbeats that tick

ASSUME HostAssumption ==
  /\ QueueLen \in Nat \ {0} /\ MaxUnacked \in Nat \ {0} /\ Interval \in Nat \ {0}
  /\ Checkpointable \in BOOLEAN /\ MaxInputWriters \in Nat
  /\ MaxChunks \in Nat /\ MaxHeartbeats \in Nat
  /\ Len(Input) \in Nat /\ DOMAIN Input = 1..Len(Input)
  /\ \A i \in DOMAIN Input : /\ Input[i].seq \in Nat
                             /\ Input[i].kind \in {"data", "resize"}

VARIABLES
  \* the output thread and the PTY
  tpc,          \* "reading", "entering", "parked", "sending", "sent" or "ended"
  held,         \* the chunk in its hands, or NoChunk
  sendOk,       \* what blocking_send returned
  chunksRead,   \* chunks read so far
  size,         \* resizes applied to the PTY
  \* PtyOutputHandoff and the channels between the thread and the loop
  closing, resizing, sending,
  notify,       \* the Notify: "empty", "permit", "armed" or "ready"
  rx,           \* the output channel
  rxClosed,     \* its receiver is closed or dropped
  closeAck,     \* the close channel: <<>> or <<what the thread sent>>
  \* the host
  hpc,          \* where host is
  pending,      \* PendingTerminalOutput.events
  since,        \* TerminalCheckpointEmitter.pending_records
  outputOpen, exited, truncated, interrupted,
  waitInFlight, \* close_and_queue_pty_output must wait for the close channel
  heartbeats,   \* heartbeats so far
  \* the publisher and the output stream
  ppc,          \* "running", "flushing", "done" or "failed"
  commands,     \* the command channel
  submitted,    \* events submitted to the durable writer
  durable,      \* how many of them are durable
  \* the input forwarder and the input thread
  fpc,          \* "next", "writing", "resizing" or "stopped"
  inputPos,     \* input records taken
  positions,    \* writer_positions: highest sequence number per writer seen
  ptyInput,     \* the input channel
  resizes,      \* the resize channel
  applied       \* input records that took effect on the PTY, in order

threadVars == <<tpc, held, sendOk, chunksRead>>
handoffVars == <<closing, resizing, sending, notify, rx, rxClosed, closeAck>>
loopVars == <<pending, since, outputOpen, exited, truncated, interrupted,
              waitInFlight, heartbeats>>
outputVars == <<ppc, commands, submitted, durable>>
inputVars == <<fpc, inputPos, positions, ptyInput, resizes>>
ptyVars == <<size, applied>>
vars == <<threadVars, handoffVars, hpc, loopVars, outputVars, inputVars, ptyVars>>

NoChunk == [n |-> 0, size |-> 0, gate |-> 0]
Event(kind, c) == [kind |-> kind, n |-> c.n, size |-> c.size, gate |-> c.gate]
Started == Event("started", NoChunk)
Exited == Event("exited", NoChunk)
Checkpoint == Event("checkpoint", NoChunk)
Heartbeat == Event("heartbeat", NoChunk)
Resized(s) == Event("resize", [NoChunk EXCEPT !.size = s])

Ended == {"done", "failed"}
Looping == hpc \notin {"starting", "final", "joining"} \cup Ended

\* The child runs, `started` is on its way to the publisher; the threads start
\* once it is durable.
Init ==
  /\ tpc = "reading" /\ held = NoChunk /\ sendOk = TRUE /\ chunksRead = 0
  /\ size = 0 /\ applied = <<>>
  /\ closing = FALSE /\ resizing = FALSE /\ sending = FALSE /\ notify = "empty"
  /\ rx = <<>> /\ rxClosed = FALSE /\ closeAck = <<>>
  /\ hpc = "starting" /\ pending = <<>> /\ since = 0 /\ outputOpen = TRUE
  /\ exited = FALSE /\ truncated = FALSE /\ interrupted = FALSE
  /\ waitInFlight = FALSE /\ heartbeats = 0
  /\ ppc = "running" /\ commands = <<Started>> /\ submitted = <<>> /\ durable = 0
  /\ fpc = "next" /\ inputPos = 0 /\ positions = <<>> /\ ptyInput = <<>>
  /\ resizes = <<>>

-----------------------------------------------------------------------------
(* The output thread: pty_reader.read and send_pty_output.                 *)

ReadChunk ==
  /\ hpc # "starting" /\ tpc = "reading" /\ chunksRead < MaxChunks
  /\ chunksRead' = chunksRead + 1
  /\ held' = [n |-> chunksRead + 1, size |-> size, gate |-> size]
  /\ tpc' = "entering"
  /\ UNCHANGED <<sendOk, handoffVars, hpc, loopVars, outputVars, inputVars, ptyVars>>

\* End of file: every holder of the terminal is gone.
ReadEnd ==
  /\ hpc # "starting" /\ tpc = "reading"
  /\ held' = NoChunk
  /\ tpc' = "ended"
  /\ UNCHANGED <<sendOk, chunksRead, handoffVars, hpc, loopVars, outputVars,
                 inputVars, ptyVars>>

\* The gate, under the lock: wait while a resize runs, give up when closing.
EnterSend ==
  /\ tpc = "entering"
  /\ tpc' = IF closing THEN "ended" ELSE IF resizing THEN "parked" ELSE "sending"
  /\ sending' = (~closing /\ ~resizing)
  /\ held' = [held EXCEPT !.gate = size]
  /\ UNCHANGED <<sendOk, chunksRead, closing, resizing, notify, rx, rxClosed,
                 closeAck, hpc, loopVars, outputVars, inputVars, ptyVars>>

\* blocking_send: into the channel, or back once the receiver is closed.
BlockingSend ==
  /\ tpc = "sending"
  /\ rxClosed \/ Len(rx) < QueueLen
  /\ rx' = IF rxClosed THEN rx ELSE Append(rx, held)
  /\ sendOk' = ~rxClosed
  /\ tpc' = "sent"
  /\ UNCHANGED <<held, chunksRead, closing, resizing, sending, notify, rxClosed,
                 closeAck, hpc, loopVars, outputVars, inputVars, ptyVars>>

\* Variant: the end of a send does not notify.
SilentSend == notify

\* notify_one: a waiter becomes ready, or a permit is left for the next.
NotifyOne == IF notify \in {"armed", "ready"} THEN "ready" ELSE "permit"

\* Variant: an unsent chunk is not handed back.
LostUnsent == <<NoChunk>>

\* What goes to the close channel: the chunk that could not be sent, if any.
Unsent == <<IF sendOk THEN NoChunk ELSE held>>

AfterSend ==
  /\ tpc = "sent"
  /\ sending' = FALSE
  /\ notify' = NotifyOne
  /\ closeAck' = IF closing THEN Unsent ELSE closeAck
  /\ held' = NoChunk
  /\ tpc' = IF closing \/ ~sendOk THEN "ended" ELSE "reading"
  /\ UNCHANGED <<sendOk, chunksRead, closing, resizing, rx, rxClosed, hpc, loopVars,
                 outputVars, inputVars, ptyVars>>

Thread == ReadChunk \/ ReadEnd \/ EnterSend \/ BlockingSend \/ AfterSend

\* notify_all on the condition variable.
Unparked == IF tpc = "parked" THEN "entering" ELSE tpc

-----------------------------------------------------------------------------
(* PendingTerminalOutput: an event, and the checkpoint it makes due.       *)

QueueEvent(e, flush) ==
  /\ pending' = pending \o <<e>> \o
                  (IF flush /\ Checkpointable THEN <<Checkpoint>> ELSE <<>>)
  /\ since' = IF flush THEN 0 ELSE since + 1

\* Variant: one event too late.
FlushBeyond(n) == n > Interval

\* TerminalCheckpointEmitter attempts a checkpoint at the record interval.
IntervalReached(n) == n >= Interval

\* push_pty_data; the byte interval may be reached at any chunk.
QueueData(c) ==
  \E bytesReached \in BOOLEAN :
    QueueEvent(Event("data", c), bytesReached \/ IntervalReached(since + 1))

-----------------------------------------------------------------------------
(* host: startup.                                                          *)

StartDurable ==
  /\ hpc = "starting" /\ ppc = "running" /\ submitted # <<>>
  /\ hpc' = "select"
  /\ UNCHANGED <<threadVars, handoffVars, loopVars, outputVars, inputVars, ptyVars>>

(* The arms of the loop's select.                                          *)

SelectArm == hpc = "select" /\ (~exited \/ outputOpen)

\* A permit of the command channel.
EnqueueCommand ==
  /\ SelectArm \/ hpc = "final"
  /\ pending # <<>> /\ Len(commands) < QueueLen /\ ppc # "failed"
  /\ commands' = Append(commands, Head(pending))
  /\ pending' = Tail(pending)
  /\ UNCHANGED <<threadVars, handoffVars, hpc, since, outputOpen, exited, truncated,
                 interrupted, waitInFlight, heartbeats, ppc, submitted, durable,
                 inputVars, ptyVars>>

RecvChunk ==
  /\ SelectArm /\ outputOpen /\ pending = <<>> /\ rx # <<>>
  /\ QueueData(Head(rx))
  /\ rx' = Tail(rx)
  /\ UNCHANGED <<threadVars, closing, resizing, sending, notify, rxClosed, closeAck,
                 hpc, outputOpen, exited, truncated, interrupted, waitInFlight,
                 heartbeats, outputVars, inputVars, ptyVars>>

\* The thread has ended and dropped its sender.
RecvEnd ==
  /\ SelectArm /\ outputOpen /\ pending = <<>> /\ rx = <<>> /\ tpc = "ended"
  /\ outputOpen' = FALSE
  /\ UNCHANGED <<threadVars, handoffVars, hpc, pending, since, exited, truncated,
                 interrupted, waitInFlight, heartbeats, outputVars, inputVars, ptyVars>>

\* Variant: the thread is not stopped before the resize.
UnpausedResize == resizing

PausedResize == TRUE

\* A resize request: pause_and_queue_pty_output begins.
BeginResize ==
  /\ SelectArm /\ ~exited /\ pending = <<>> /\ resizes # <<>>
  /\ resizing' = PausedResize
  /\ hpc' = "pause"
  /\ UNCHANGED <<threadVars, closing, sending, notify, rx, rxClosed, closeAck, loopVars,
                 outputVars, inputVars, ptyVars>>

ChildExits ==
  /\ SelectArm /\ ~exited
  /\ exited' = TRUE
  /\ fpc' = "stopped"                      \* input_task.abort()
  /\ UNCHANGED <<threadVars, handoffVars, hpc, pending, since, outputOpen, truncated,
                 interrupted, waitInFlight, heartbeats, outputVars, inputPos, positions,
                 ptyInput, resizes, ptyVars>>

HeartbeatTick ==
  /\ SelectArm /\ ~exited /\ pending = <<>> /\ heartbeats < MaxHeartbeats
  /\ heartbeats' = heartbeats + 1
  /\ QueueEvent(Heartbeat, IntervalReached(since + 1))
  /\ UNCHANGED <<threadVars, handoffVars, hpc, outputOpen, exited, truncated,
                 interrupted, waitInFlight, outputVars, inputVars, ptyVars>>

\* The first interrupt kills the child, a second one ends the process.
Interrupt ==
  /\ SelectArm /\ ~exited
  /\ interrupted' = TRUE
  /\ hpc' = IF interrupted THEN "failed" ELSE hpc
  /\ UNCHANGED <<threadVars, handoffVars, pending, since, outputOpen, exited, truncated,
                 waitInFlight, heartbeats, outputVars, inputVars, ptyVars>>

\* Variant: the cutoff never waits for a send in flight.
NoInFlightWait == FALSE

\* Variant: it waits whether or not a send is in flight.
AlwaysWait == TRUE

\* Only a send in flight answers on the close channel.
MustWait == sending

\* close_and_queue_pty_output, under the lock.
BeginCutoff ==
  /\ closing' = TRUE /\ resizing' = FALSE
  /\ tpc' = Unparked
  /\ waitInFlight' = MustWait
  /\ hpc' = "close"
  /\ UNCHANGED <<held, sendOk, chunksRead, sending, notify, rx, rxClosed, closeAck,
                 pending, since, outputOpen, exited, truncated, interrupted, heartbeats,
                 outputVars, inputVars, ptyVars>>

\* Nothing arrived for PTY_EXIT_DRAIN_IDLE_TIMEOUT.
IdleCutoff ==
  /\ SelectArm /\ exited /\ outputOpen /\ pending = <<>> /\ rx = <<>>
  /\ BeginCutoff

\* PTY_EXIT_DRAIN_MAX_TIMEOUT after the child's exit.
MaxCutoff ==
  /\ SelectArm /\ exited /\ outputOpen
  /\ BeginCutoff

-----------------------------------------------------------------------------
(* pause_and_queue_pty_output and the resize.                              *)

\* Notified::enable registers the waiter, or takes a permit that was left.
PauseEnable ==
  /\ hpc = "pause"
  /\ notify' = IF notify = "permit" THEN "ready" ELSE "armed"
  /\ hpc' = "check"
  /\ UNCHANGED <<threadVars, closing, resizing, sending, rx, rxClosed, closeAck, loopVars,
                 outputVars, inputVars, ptyVars>>

\* Read under the lock; a waiter that is dropped may pass its wakeup on.
PauseCheck ==
  /\ hpc = "check"
  /\ IF sending
       THEN hpc' = "wait" /\ UNCHANGED notify
       ELSE /\ hpc' = "drain"
            /\ notify' \in {"empty"} \cup IF notify = "ready" THEN {"permit"} ELSE {}
  /\ UNCHANGED <<threadVars, closing, resizing, sending, rx, rxClosed, closeAck, loopVars,
                 outputVars, inputVars, ptyVars>>

PauseNotified ==
  /\ hpc = "wait" /\ notify = "ready"
  /\ notify' = "empty"
  /\ hpc' = "pause"
  /\ UNCHANGED <<threadVars, closing, resizing, sending, rx, rxClosed, closeAck, loopVars,
                 outputVars, inputVars, ptyVars>>

PauseRecv ==
  /\ hpc = "wait" /\ rx # <<>>
  /\ QueueData(Head(rx))
  /\ rx' = Tail(rx)
  /\ notify' \in {"empty"} \cup IF notify = "ready" THEN {"permit"} ELSE {}
  /\ hpc' = "pause"
  /\ UNCHANGED <<threadVars, closing, resizing, sending, rxClosed, closeAck, outputOpen,
                 exited, truncated, interrupted, waitInFlight, heartbeats, outputVars,
                 inputVars, ptyVars>>

\* try_recv until the channel is empty.
PauseDrain ==
  /\ hpc = "drain" /\ rx # <<>>
  /\ QueueData(Head(rx))
  /\ rx' = Tail(rx)
  /\ UNCHANGED <<threadVars, closing, resizing, sending, notify, rxClosed, closeAck, hpc,
                 outputOpen, exited, truncated, interrupted, waitInFlight, heartbeats,
                 outputVars, inputVars, ptyVars>>

\* Empty, or disconnected: the PTY is resized, its event queued, the thread let go
\* and the forwarder told, all without an await.
ApplyResize ==
  /\ hpc = "drain" /\ rx = <<>>
  /\ outputOpen' = (tpc # "ended")
  /\ \/ /\ size' = size + 1
        /\ applied' = Append(applied, Head(resizes))
        /\ QueueEvent(Resized(size + 1), TRUE)
        /\ fpc' = "next"
     \/ /\ fpc' = "stopped"                \* the PTY refuses: the forwarder fails
        /\ UNCHANGED <<ptyVars, pending, since>>
  /\ resizes' = Tail(resizes)
  /\ resizing' = FALSE /\ tpc' = Unparked    \* resume_pty_output
  /\ hpc' = "select"
  /\ UNCHANGED <<held, sendOk, chunksRead, closing, sending, notify, rx, rxClosed,
                 closeAck, exited, truncated, interrupted, waitInFlight, heartbeats,
                 outputVars, inputPos, positions, ptyInput>>

-----------------------------------------------------------------------------
(* close_and_queue_pty_output, after the lock.                             *)

CloseChannel ==
  /\ hpc = "close"
  /\ rxClosed' = TRUE
  /\ hpc' = "cutoff"
  /\ UNCHANGED <<threadVars, closing, resizing, sending, notify, rx, closeAck, loopVars,
                 outputVars, inputVars, ptyVars>>

CutoffRecv ==
  /\ hpc = "cutoff" /\ rx # <<>>
  /\ QueueData(Head(rx))
  /\ rx' = Tail(rx)
  /\ UNCHANGED <<threadVars, closing, resizing, sending, notify, rxClosed, closeAck, hpc,
                 outputOpen, exited, truncated, interrupted, waitInFlight, heartbeats,
                 outputVars, inputVars, ptyVars>>

\* Variant: the cutoff is not reported.
UnreportedCutoff == truncated

CutoffReported == TRUE

CutoffDone ==
  /\ hpc = "cutoff" /\ rx = <<>>
  /\ waitInFlight => closeAck # <<>>
  /\ IF waitInFlight /\ closeAck[1] # NoChunk
       THEN QueueData(closeAck[1])
       ELSE UNCHANGED <<pending, since>>
  /\ outputOpen' = FALSE /\ truncated' = CutoffReported
  /\ hpc' = "select"
  /\ UNCHANGED <<threadVars, handoffVars, exited, interrupted, waitInFlight, heartbeats,
                 outputVars, inputVars, ptyVars>>

-----------------------------------------------------------------------------
(* host: the end.                                                          *)

\* Variant: `exited` overtakes the events that wait.
ExitFirst(events) == <<Exited>> \o events

ExitLast(events) == events \o <<Exited>>

\* The loop is left: a last checkpoint, then `exited`.
LeaveLoop ==
  /\ hpc = "select" /\ exited /\ ~outputOpen
  /\ pending' = ExitLast(pending \o
                  (IF since > 0 /\ Checkpointable THEN <<Checkpoint>> ELSE <<>>))
  /\ since' = 0
  /\ rxClosed' = TRUE
  /\ hpc' = "final"
  /\ UNCHANGED <<threadVars, closing, resizing, sending, notify, rx, closeAck, outputOpen,
                 exited, truncated, interrupted, waitInFlight, heartbeats, outputVars,
                 inputVars, ptyVars>>

DropCommands ==
  /\ hpc = "final" /\ pending = <<>>
  /\ hpc' = "joining"
  /\ UNCHANGED <<threadVars, handoffVars, loopVars, outputVars, inputVars, ptyVars>>

Join ==
  /\ hpc = "joining" /\ ppc = "done"
  /\ hpc' = "done"
  /\ UNCHANGED <<threadVars, handoffVars, loopVars, outputVars, inputVars, ptyVars>>

\* host returns an error or the process exits; its channels are dropped.
Fail ==
  /\ hpc' = "failed"
  /\ rxClosed' = TRUE /\ rx' = <<>>
  /\ UNCHANGED <<threadVars, closing, resizing, sending, notify, closeAck, loopVars,
                 outputVars, inputVars, ptyVars>>

\* The publisher stopped, or before the child's exit the input forwarder did.
TaskStopped ==
  /\ \/ (SelectArm \/ hpc \in {"starting", "final", "joining"}) /\ ppc = "failed"
     \/ SelectArm /\ ~exited /\ fpc = "stopped"
  /\ Fail

\* An interrupt outside the loop, a PTY read error, a failed wait or kill.
HostFails ==
  /\ hpc \in {"starting", "select", "wait", "drain", "cutoff", "final", "joining"}
  /\ Fail

Host == \/ StartDurable \/ EnqueueCommand \/ RecvChunk \/ RecvEnd \/ BeginResize
        \/ PauseEnable \/ PauseCheck \/ PauseNotified \/ PauseRecv \/ PauseDrain
        \/ ApplyResize \/ CloseChannel \/ CutoffRecv \/ CutoffDone
        \/ LeaveLoop \/ DropCommands \/ Join \/ TaskStopped

-----------------------------------------------------------------------------
(* run_output_publisher over the durable writer (see DurableWriter), whose *)
(* tickets resolve in order.                                               *)

PublishCommand ==
  /\ ppc = "running" /\ commands # <<>>
  /\ Len(submitted) - durable < MaxUnacked
  /\ submitted' = Append(submitted, Head(commands))
  /\ commands' = Tail(commands)
  /\ ppc' = IF Head(commands) = Started THEN "flushing" ELSE "running"
  /\ UNCHANGED <<threadVars, handoffVars, hpc, loopVars, durable, inputVars, ptyVars>>

\* The flush that `started` asks for, and the close after the last command.
Flushed ==
  /\ durable = Len(submitted)
  /\ \/ ppc = "flushing" /\ ppc' = "running"
     \/ ppc = "running" /\ commands = <<>> /\ hpc = "joining" /\ ppc' = "done"
  /\ UNCHANGED <<threadVars, handoffVars, hpc, loopVars, commands, submitted, durable,
                 inputVars, ptyVars>>

MakeDurable ==
  /\ durable < Len(submitted) /\ ppc \in {"running", "flushing"}
  /\ durable' = durable + 1
  /\ UNCHANGED <<threadVars, handoffVars, hpc, loopVars, ppc, commands, submitted,
                 inputVars, ptyVars>>

PublisherFails ==
  /\ ppc \in {"running", "flushing"} /\ hpc \notin Ended
  /\ ppc' = "failed"
  /\ UNCHANGED <<threadVars, handoffVars, hpc, loopVars, commands, submitted, durable,
                 inputVars, ptyVars>>

Publisher == PublishCommand \/ Flushed \/ MakeDurable

-----------------------------------------------------------------------------
(* forward_terminal_input and the input thread.                            *)

Next_Input == Input[inputPos + 1]

ForwardReady == fpc = "next" /\ inputPos < Len(Input) /\ Looping

\* Variant: any sequence number other than the last one is new.
NewUnlessLast(r) ==
  r.writer \in DOMAIN positions => r.seq # positions[r.writer]

IsNew(r) == r.writer \in DOMAIN positions => r.seq > positions[r.writer]

SkipInput ==
  /\ ForwardReady /\ ~IsNew(Next_Input)
  /\ inputPos' = inputPos + 1
  /\ UNCHANGED <<threadVars, handoffVars, hpc, loopVars, outputVars, fpc, positions,
                 ptyInput, resizes, ptyVars>>

\* Each record is handed on and its confirmation awaited.
ForwardInput ==
  /\ ForwardReady /\ IsNew(Next_Input)
  /\ \/ Next_Input.writer \in DOMAIN positions
     \/ Cardinality(DOMAIN positions) < MaxInputWriters
  /\ positions' = [w \in DOMAIN positions \cup {Next_Input.writer} |->
                     IF w = Next_Input.writer THEN Next_Input.seq ELSE positions[w]]
  /\ inputPos' = inputPos + 1
  /\ IF Next_Input.kind = "data"
       THEN ptyInput' = Append(ptyInput, inputPos + 1) /\ fpc' = "writing" /\ UNCHANGED resizes
       ELSE resizes' = Append(resizes, inputPos + 1) /\ fpc' = "resizing" /\ UNCHANGED ptyInput
  /\ UNCHANGED <<threadVars, handoffVars, hpc, loopVars, outputVars, ptyVars>>

\* Too many writers, or a reader, record or worker failure.
ForwardFails ==
  /\ Looping /\ fpc \in {"next", "writing"}
  /\ fpc' = "stopped"
  /\ UNCHANGED <<threadVars, handoffVars, hpc, loopVars, outputVars, inputPos, positions,
                 ptyInput, resizes, ptyVars>>

\* The input thread writes, flushes and confirms.
WriteInput ==
  /\ ptyInput # <<>> /\ Looping
  /\ applied' = Append(applied, Head(ptyInput))
  /\ ptyInput' = Tail(ptyInput)
  /\ fpc' = IF fpc = "writing" THEN "next" ELSE fpc
  /\ UNCHANGED <<threadVars, handoffVars, hpc, loopVars, outputVars, inputPos, positions,
                 resizes, size>>

InputSide == SkipInput \/ ForwardInput \/ ForwardFails \/ WriteInput

-----------------------------------------------------------------------------
Deadlines == IdleCutoff \/ MaxCutoff
Outside == ChildExits \/ HeartbeatTick \/ Interrupt \/ HostFails \/ PublisherFails

\* The host has returned; the native threads are detached.
Finished == hpc \in Ended /\ UNCHANGED vars

Next == Thread \/ Host \/ Deadlines \/ Publisher \/ InputSide \/ Outside \/ Finished

Spec == Init /\ [][Next]_vars

(* The runtime polls the host and the publisher, the thread runs except in *)
(* a read that never returns, the durable writer makes progress, and the   *)
(* drain deadline passes.                                                  *)
Fairness ==
  /\ WF_vars(Host) /\ WF_vars(Publisher) /\ WF_vars(MaxCutoff)
  /\ WF_vars(EnterSend) /\ WF_vars(BlockingSend) /\ WF_vars(AfterSend)

FairSpec == Spec /\ Fairness

-----------------------------------------------------------------------------
(* Properties.                                                             *)

Chunks == [n : 0..MaxChunks, size : Nat, gate : Nat]
Events == [kind : {"started", "data", "resize", "heartbeat", "checkpoint", "exited"},
           n : 0..MaxChunks, size : Nat, gate : Nat]

\* The output history: what the publisher submitted, and what is on its way.
History == submitted \o commands \o pending
IsData(e) == e.kind = "data"

\* Events of a kind among the first i.
CountTo(events, kind, i) == Cardinality({j \in 1..i : events[j].kind = kind})
ChunksQueued == CountTo(History, "data", Len(History))

ThreadTypeOK ==
  /\ tpc \in {"reading", "entering", "parked", "sending", "sent", "ended"}
  /\ held \in Chunks /\ sendOk \in BOOLEAN /\ chunksRead \in 0..MaxChunks

HandoffTypeOK ==
  /\ {closing, resizing, sending, rxClosed} \subseteq BOOLEAN
  /\ notify \in {"empty", "permit", "armed", "ready"}
  /\ rx \in Seq(Chunks) /\ Len(rx) <= QueueLen
  /\ closeAck \in Seq(Chunks) /\ Len(closeAck) <= 1

LoopTypeOK ==
  /\ hpc \in {"starting", "select", "pause", "check", "wait", "drain", "close", "cutoff",
             "final", "joining"} \cup Ended
  /\ pending \in Seq(Events)
  /\ since \in 0..(Interval - 1) /\ heartbeats \in 0..MaxHeartbeats
  /\ {outputOpen, exited, truncated, interrupted, waitInFlight} \subseteq BOOLEAN

OutputTypeOK ==
  /\ ppc \in {"running", "flushing", "done", "failed"}
  /\ commands \in Seq(Events) /\ Len(commands) <= QueueLen
  /\ submitted \in Seq(Events) /\ durable \in 0..Len(submitted)

InputTypeOK ==
  /\ fpc \in {"next", "writing", "resizing", "stopped"}
  /\ inputPos \in 0..Len(Input)
  /\ Cardinality(DOMAIN positions) <= MaxInputWriters
  /\ ptyInput \in Seq(DOMAIN Input) /\ resizes \in Seq(DOMAIN Input)
  /\ applied \in Seq(DOMAIN Input) /\ size \in Nat

(* Every variable has its type, the channels their bounds, and a           *)
(* checkpoint was attempted whenever the interval was reached.             *)
TypeOK ==
  ThreadTypeOK /\ HandoffTypeOK /\ LoopTypeOK /\ OutputTypeOK /\ InputTypeOK

\* Chunks the thread was let through with: not one that waits at the gate, and
\* not one the closed gate turned away.
LetThrough ==
  chunksRead - (IF tpc \in {"entering", "parked"} \/ (tpc = "ended" /\ held # NoChunk)
                  THEN 1 ELSE 0)

\* The chunk the thread is blocked with, and the one it gave back when the output
\* was cut off.
InHands == IF tpc = "sending" \/ (tpc = "sent" /\ ~sendOk) THEN <<held>> ELSE <<>>
Returned ==
  IF hpc = "cutoff" /\ closeAck \notin {<<>>, <<NoChunk>>} THEN closeAck ELSE <<>>

\* Chunks between the gate and the history.
Behind == rx \o Returned \o InHands

(* Every chunk the thread started to send is queued exactly once and in    *)
(* reading order, through the channel, a pause, or the close channel: the  *)
(* cutoff recovers the chunk the thread is blocked on.                     *)
NothingLost ==
  hpc # "failed" =>
    /\ \A i \in DOMAIN History :
         IsData(History[i]) => History[i].n = CountTo(History, "data", i)
    /\ \A k \in DOMAIN Behind : Behind[k].n = ChunksQueued + k
    /\ ChunksQueued + Len(Behind) = LetThrough

(* An `exited` event that does not report truncation ends a history with   *)
(* every chunk that was read from the PTY, up to its end of file.          *)
TruncationHonest ==
  Exited \in {History[i] : i \in DOMAIN History} /\ ~truncated =>
    ChunksQueued = chunksRead /\ tpc = "ended"

(* A history begins with `started`, and nothing follows `exited`           *)
(* (docs/protocol.md); a host that returns without an error has made all   *)
(* of it durable.                                                          *)
Lifecycle ==
  /\ hpc # "starting" => History # <<>> /\ History[1] = Started
  /\ \A i \in DOMAIN History :
       /\ History[i] = Started => i = 1
       /\ History[i] = Exited => i = Len(History)
  /\ hpc = "done" => /\ History = submitted /\ durable = Len(submitted)
                     /\ submitted[Len(submitted)] = Exited

(* A resize event separates the output of two sizes: a chunk whose sending *)
(* began under a size appears after that size's event and before the next  *)
(* one's, and at most one chunk, the one that waited at the gate, follows  *)
(* an event although it was read before the resize.                        *)
ResizeBoundary ==
  LET before(i) == CountTo(History, "resize", i)
      data == {i \in DOMAIN History : IsData(History[i])}
      late(i) == History[i].size < before(i)
  IN hpc # "failed" =>
       /\ \A i \in data : History[i].gate = before(i)
       /\ \A i, j \in data : before(i) = before(j) /\ late(i) /\ late(j) => i = j

(* Among any Interval + 1 consecutive events of the history there is a     *)
(* checkpoint, or its beginning: what a consumer that reads a tail of that *)
(* length relies on (docs/protocol.md).  The variables have their types.   *)
CheckpointInReach ==
  /\ TypeOK
  /\ Checkpointable =>
       \A i \in 1..(Len(submitted) - Interval) :
         \E j \in i..(i + Interval) : submitted[j].kind \in {"checkpoint", "started"}

\* The logical input: records of the stream that repeat no earlier one.
Fresh(i) ==
  \A j \in 1..(i - 1) : Input[j].writer = Input[i].writer => Input[j].seq < Input[i].seq
Logical == {i \in 1..inputPos : Fresh(i)}

(* The input that took effect is the logical input, in its order: a record *)
(* is applied once although the stream may hold copies of it, and never    *)
(* before the one in front of it, although writes and resizes take         *)
(* different threads.                                                      *)
InputOnce ==
  /\ \A i \in DOMAIN applied : applied[i] \in Logical
  /\ \A i, j \in DOMAIN applied : i < j => applied[i] < applied[j]
  /\ fpc = "next" => Cardinality(Logical) = Len(applied)

(* A resize never waits for a wakeup that was lost: pausing the output     *)
(* ends.                                                                   *)
PauseEnds ==
  hpc \in {"pause", "check", "wait", "drain"} ~> hpc \notin {"pause", "check", "wait", "drain"}

(* Once the child has exited the host ends, whoever still holds the PTY    *)
(* open and however the thread is blocked.                                 *)
ExitPublished == exited ~> hpc \in Ended
=============================================================================
