--------------------------- MODULE TerminalHostProofs ---------------------------
(***************************************************************************)
(* The types, the input, the shape of the output history and the way of    *)
(* the output into it, for every queue length, interval, number of chunks  *)
(* and input stream.                                                       *)
(***************************************************************************)
EXTENDS TerminalHostInvariants, FiniteSetTheorems, TLAPS

LEMMA Bounds ==
  /\ QueueLen \in Nat \ {0} /\ MaxUnacked \in Nat \ {0} /\ Interval \in Nat \ {0}
  /\ Checkpointable \in BOOLEAN /\ MaxInputWriters \in Nat
  /\ MaxChunks \in Nat /\ MaxHeartbeats \in Nat
  /\ Len(Input) \in Nat /\ DOMAIN Input = 1..Len(Input)
  /\ \A i \in DOMAIN Input : Input[i].seq \in Nat /\ Input[i].kind \in {"data", "resize"}
BY HostAssumption

LEMMA SeqFacts ==
  ASSUME NEW S, NEW s \in Seq(S)
  PROVE  /\ Len(s) \in Nat /\ DOMAIN s = 1..Len(s)
         /\ \A i \in DOMAIN s : s[i] \in S
         /\ s # <<>> => 1 \in DOMAIN s /\ Head(s) = s[1] /\ Head(s) \in S /\ Tail(s) \in Seq(S)
                        /\ Len(Tail(s)) = Len(s) - 1
         /\ s = <<>> <=> Len(s) = 0
OBVIOUS

LEMMA TailFacts ==
  ASSUME NEW S, NEW s \in Seq(S), s # <<>>
  PROVE  /\ DOMAIN Tail(s) = 1..(Len(s) - 1)
         /\ \A i \in 1..(Len(s) - 1) : Tail(s)[i] = s[i + 1]
OBVIOUS

LEMMA AppendFacts ==
  ASSUME NEW S, NEW s \in Seq(S), NEW x \in S
  PROVE  /\ Append(s, x) \in Seq(S) /\ Len(Append(s, x)) = Len(s) + 1
         /\ DOMAIN Append(s, x) = 1..(Len(s) + 1)
         /\ \A i \in 1..Len(s) : Append(s, x)[i] = s[i]
         /\ Append(s, x)[Len(s) + 1] = x
OBVIOUS

LEMMA ConcatFacts ==
  ASSUME NEW S, NEW s \in Seq(S), NEW t \in Seq(S)
  PROVE  /\ s \o t \in Seq(S) /\ Len(s \o t) = Len(s) + Len(t)
         /\ DOMAIN (s \o t) = 1..(Len(s) + Len(t))
         /\ \A i \in 1..Len(s) : (s \o t)[i] = s[i]
         /\ \A i \in 1..Len(t) : (s \o t)[Len(s) + i] = t[i]
OBVIOUS

\* Two sequences of the same length and elements.
LEMMA SeqEqual ==
  ASSUME NEW S, NEW s \in Seq(S), NEW t \in Seq(S), Len(s) = Len(t),
         \A i \in 1..Len(s) : s[i] = t[i]
  PROVE  s = t
OBVIOUS

\* An element moves from the front of one channel to the end of the one before it.
LEMMA Moved ==
  ASSUME NEW S, NEW s \in Seq(S), NEW t \in Seq(S), t # <<>>
  PROVE  Append(s, Head(t)) \o Tail(t) = s \o t
<1>. DEFINE l == Append(s, Head(t)) \o Tail(t)
            r == s \o t
<1>1. /\ Head(t) \in S /\ Head(t) = t[1] /\ Tail(t) \in Seq(S) /\ Len(Tail(t)) = Len(t) - 1
      /\ Len(t) \in Nat /\ Len(s) \in Nat /\ Len(t) # 0
  BY SeqFacts
<1>2. /\ Append(s, Head(t)) \in Seq(S) /\ Len(Append(s, Head(t))) = Len(s) + 1
      /\ \A i \in 1..Len(s) : Append(s, Head(t))[i] = s[i]
      /\ Append(s, Head(t))[Len(s) + 1] = Head(t)
  BY <1>1, AppendFacts
<1>3. /\ l \in Seq(S) /\ Len(l) = Len(s) + 1 + (Len(t) - 1)
      /\ \A i \in 1..(Len(s) + 1) : l[i] = Append(s, Head(t))[i]
      /\ \A i \in 1..(Len(t) - 1) : l[Len(s) + 1 + i] = Tail(t)[i]
  BY <1>1, <1>2, ConcatFacts
<1>4. /\ r \in Seq(S) /\ Len(r) = Len(s) + Len(t)
      /\ \A i \in 1..Len(s) : r[i] = s[i]
      /\ \A i \in 1..Len(t) : r[Len(s) + i] = t[i]
  BY ConcatFacts
<1>. HIDE DEF l, r
<1>5. ASSUME NEW i \in 1..Len(l) PROVE l[i] = r[i]
  <2>1. CASE i \in 1..Len(s)
    <3>1. i \in 1..(Len(s) + 1)
      BY <1>1, <2>1
    <3>2. l[i] = Append(s, Head(t))[i]
      BY <1>3, <3>1
    <3>3. Append(s, Head(t))[i] = s[i]
      BY <1>2, <2>1
    <3>. QED BY <1>4, <2>1, <3>2, <3>3
  <2>2. CASE i = Len(s) + 1
    <3>1. l[i] = Head(t)
      BY <1>1, <1>2, <1>3, <2>2
    <3>2. r[i] = t[1]
      BY <1>1, <1>4, <2>2
    <3>. QED BY <1>1, <3>1, <3>2
  <2>3. CASE i > Len(s) + 1
    <3>. DEFINE k == i - Len(s) - 1
    <3>1. k \in 1..(Len(t) - 1) /\ i = Len(s) + 1 + k /\ i = Len(s) + (k + 1) /\ k + 1 \in 1..Len(t)
      BY <1>1, <1>3, <2>3
    <3>2. l[i] = Tail(t)[k] /\ r[i] = t[k + 1]
      BY <1>3, <1>4, <3>1
    <3>3. Tail(t)[k] = t[k + 1]
      BY <1>1, <3>1, TailFacts
    <3>. QED BY <3>2, <3>3
  <2>. QED BY <1>1, <1>3, <2>1, <2>2, <2>3
<1>6. Len(l) = Len(r)
  BY <1>1, <1>3, <1>4
<1>7. l = r
  BY <1>3, <1>4, <1>5, <1>6, SeqEqual
<1>. QED BY <1>7 DEF l, r

LEMMA ConcatAssoc ==
  ASSUME NEW S, NEW s \in Seq(S), NEW t \in Seq(S), NEW u \in Seq(S)
  PROVE  (s \o t) \o u = s \o (t \o u)
OBVIOUS

LEMMA NoChunkType == NoChunk \in Chunks
BY Bounds DEF NoChunk, Chunks

-----------------------------------------------------------------------------
(* Types.                                                                  *)

\* Who moves which variables.
LEMMA ThreadSteps == Next => ReadChunk \/ ReadEnd \/ EnterSend \/ BlockingSend \/
  AfterSend \/ BeginCutoff \/ ApplyResize \/ UNCHANGED threadVars
BY DEF Fail, Finished, Next, Thread, Host, Deadlines, Publisher, InputSide, Outside,
  vars, threadVars, StartDurable, EnqueueCommand, RecvChunk, RecvEnd, BeginResize,
  PauseEnable, PauseCheck, PauseNotified, PauseRecv, PauseDrain, CloseChannel,
  CutoffRecv, CutoffDone, LeaveLoop, DropCommands, Join, TaskStopped, HostFails,
  IdleCutoff, MaxCutoff, PublishCommand, Flushed, MakeDurable, PublisherFails,
  SkipInput, ForwardInput, ForwardFails, WriteInput, ChildExits, HeartbeatTick,
  Interrupt

LEMMA HandoffSteps == Next => EnterSend \/ BlockingSend \/ AfterSend \/ RecvChunk \/
  BeginResize \/ BeginCutoff \/ PauseEnable \/ PauseCheck \/ PauseNotified \/ PauseRecv
  \/ PauseDrain \/ ApplyResize \/ CloseChannel \/ CutoffRecv \/ LeaveLoop \/ Fail \/
  UNCHANGED handoffVars
BY DEF Finished, Next, Thread, Host, Deadlines, Publisher, InputSide, Outside, vars,
  handoffVars, ReadChunk, ReadEnd, StartDurable, EnqueueCommand, RecvEnd, CutoffDone,
  DropCommands, Join, TaskStopped, HostFails, IdleCutoff, MaxCutoff, PublishCommand,
  Flushed, MakeDurable, PublisherFails, SkipInput, ForwardInput, ForwardFails,
  WriteInput, ChildExits, HeartbeatTick, Interrupt

LEMMA LoopSteps == Next => StartDurable \/ EnqueueCommand \/ RecvChunk \/ RecvEnd \/
  BeginResize \/ ChildExits \/ HeartbeatTick \/ Interrupt \/ BeginCutoff \/ PauseEnable
  \/ PauseCheck \/ PauseNotified \/ PauseRecv \/ PauseDrain \/ ApplyResize \/
  CloseChannel \/ CutoffRecv \/ CutoffDone \/ LeaveLoop \/ DropCommands \/ Join \/ Fail
  \/ UNCHANGED <<loopVars, hpc>>
BY DEF Finished, Next, Thread, Host, Deadlines, Publisher, InputSide, Outside, vars,
  loopVars, ReadChunk, ReadEnd, EnterSend, BlockingSend, AfterSend,
  TaskStopped, HostFails, IdleCutoff, MaxCutoff, PublishCommand, Flushed, MakeDurable,
  PublisherFails, SkipInput, ForwardInput, ForwardFails, WriteInput

LEMMA OutputSteps == Next => EnqueueCommand \/ PublishCommand \/ Flushed \/ MakeDurable
  \/ PublisherFails \/ UNCHANGED outputVars
BY DEF Fail, BeginCutoff, Finished, Next, Thread, Host, Deadlines, Publisher, InputSide,
  Outside, vars, outputVars, ReadChunk, ReadEnd, EnterSend, BlockingSend, AfterSend,
  StartDurable, RecvChunk, RecvEnd, BeginResize, PauseEnable, PauseCheck, PauseNotified,
  PauseRecv, PauseDrain, ApplyResize, CloseChannel, CutoffRecv, CutoffDone, LeaveLoop,
  DropCommands, Join, TaskStopped, HostFails, IdleCutoff, MaxCutoff, SkipInput,
  ForwardInput, ForwardFails, WriteInput, ChildExits, HeartbeatTick, Interrupt

LEMMA InputSteps == Next => ChildExits \/ ApplyResize \/ SkipInput \/ ForwardInput \/
  ForwardFails \/ WriteInput \/ UNCHANGED <<inputVars, ptyVars>>
BY DEF Fail, BeginCutoff, Finished, Next, Thread, Host, Deadlines, Publisher, InputSide,
  Outside, vars, inputVars, ptyVars, ReadChunk, ReadEnd, EnterSend, BlockingSend,
  AfterSend, StartDurable, EnqueueCommand, RecvChunk, RecvEnd, BeginResize, PauseEnable,
  PauseCheck, PauseNotified, PauseRecv, PauseDrain, CloseChannel, CutoffRecv,
  CutoffDone, LeaveLoop, DropCommands, Join, TaskStopped, HostFails, IdleCutoff,
  MaxCutoff, PublishCommand, Flushed, MakeDurable, PublisherFails, HeartbeatTick,
  Interrupt

LEMMA ThreadTypes == TypeInv /\ Next => ThreadTypeOK'
<1>. SUFFICES ASSUME TypeInv, Next PROVE ThreadTypeOK'
  OBVIOUS
<1>. USE DEF TypeInv, TypeOK, ThreadTypeOK
<1>1. /\ held \in Chunks /\ chunksRead \in 0..MaxChunks /\ size \in Nat
      /\ NoChunk \in Chunks /\ MaxChunks \in Nat
  BY NoChunkType, Bounds DEF InputTypeOK
<1>2. CASE ReadChunk
  BY <1>1, <1>2 DEF ReadChunk, Chunks
<1>3. CASE ReadEnd
  BY <1>1, <1>3 DEF ReadEnd
<1>4. CASE EnterSend
  <2>1. held' \in Chunks
    BY <1>1, <1>4 DEF EnterSend, Chunks
  <2>. QED BY <1>4, <2>1 DEF EnterSend
<1>5. CASE BlockingSend
  <2>1. rxClosed \in BOOLEAN
    BY DEF HandoffTypeOK
  <2>. QED BY <1>5, <2>1 DEF BlockingSend
<1>6. CASE AfterSend
  BY <1>1, <1>6 DEF AfterSend
<1>7. CASE BeginCutoff
  BY <1>7 DEF BeginCutoff, Unparked
<1>8. CASE ApplyResize
  BY <1>8 DEF ApplyResize, Unparked
<1>9. CASE UNCHANGED threadVars
  BY <1>9 DEF threadVars
<1>. QED BY <1>2, <1>3, <1>4, <1>5, <1>6, <1>7, <1>8, <1>9, ThreadSteps

LEMMA HandoffTypes == TypeInv /\ Next => HandoffTypeOK'
<1>. SUFFICES ASSUME TypeInv, Next PROVE HandoffTypeOK'
  OBVIOUS
<1>. USE DEF TypeInv, TypeOK, HandoffTypeOK
<1>1. /\ held \in Chunks /\ NoChunk \in Chunks /\ QueueLen \in Nat
      /\ rx \in Seq(Chunks) /\ Len(rx) \in Nat
  BY NoChunkType, Bounds, SeqFacts DEF ThreadTypeOK
<1>2. rx # <<>> => Tail(rx) \in Seq(Chunks) /\ Len(Tail(rx)) = Len(rx) - 1
  BY <1>1, SeqFacts
<1>3. CASE EnterSend
  BY <1>3 DEF EnterSend
<1>4. CASE BlockingSend
  <2>1. rx' \in Seq(Chunks) /\ Len(rx') <= QueueLen
    BY <1>1, <1>4, AppendFacts DEF BlockingSend
  <2>. QED BY <1>4, <2>1 DEF BlockingSend
<1>5. CASE AfterSend
  <2>1. closeAck' \in Seq(Chunks) /\ Len(closeAck') <= 1
    BY <1>1, <1>5 DEF AfterSend, Unsent
  <2>2. notify' \in {"empty", "permit", "armed", "ready"}
    BY <1>5 DEF AfterSend, NotifyOne
  <2>. QED BY <1>5, <2>1, <2>2 DEF AfterSend
<1>6. CASE RecvChunk
  BY <1>1, <1>2, <1>6 DEF RecvChunk
<1>7. CASE BeginResize
  BY <1>7 DEF BeginResize, PausedResize
<1>8. CASE BeginCutoff
  BY <1>8 DEF BeginCutoff
<1>9. CASE PauseEnable \/ PauseCheck \/ PauseNotified
  BY <1>9 DEF PauseEnable, PauseCheck, PauseNotified
<1>10. CASE PauseRecv
  BY <1>1, <1>2, <1>10 DEF PauseRecv
<1>11. CASE PauseDrain
  BY <1>1, <1>2, <1>11 DEF PauseDrain
<1>12. CASE ApplyResize
  BY <1>12 DEF ApplyResize
<1>13. CASE CloseChannel
  BY <1>13 DEF CloseChannel
<1>14. CASE CutoffRecv
  BY <1>1, <1>2, <1>14 DEF CutoffRecv
<1>15. CASE LeaveLoop
  BY <1>15 DEF LeaveLoop
<1>16. CASE Fail
  BY <1>1, <1>16 DEF Fail
<1>17. CASE UNCHANGED handoffVars
  BY <1>17 DEF handoffVars
<1>. QED BY <1>3, <1>4, <1>5, <1>6, <1>7, <1>8, <1>9, <1>10, <1>11, <1>12, <1>13, <1>14,
            <1>15, <1>16, <1>17, HandoffSteps

\* What QueueEvent does to the types, and by how much the history grows.
LEMMA QueueTypes ==
  ASSUME TypeInv, NEW e \in Events, NEW flush \in BOOLEAN, QueueEvent(e, flush),
         flush \/ since + 1 < Interval
  PROVE  pending' \in Seq(Events) /\ since' \in 0..(Interval - 1)
<1>1. pending \in Seq(Events) /\ since \in 0..(Interval - 1) /\ Interval \in Nat \ {0}
  BY Bounds DEF TypeInv, TypeOK, LoopTypeOK
<1>2. Checkpoint \in Events
  BY Bounds DEF Checkpoint, Event, NoChunk, Events
<1>. DEFINE more == IF flush /\ Checkpointable THEN <<Checkpoint>> ELSE <<>>
<1>3. more \in Seq(Events) /\ <<e>> \in Seq(Events)
  BY <1>2
<1>. HIDE DEF more
<1>4. pending' = pending \o <<e>> \o more
  BY DEF QueueEvent, more
<1>5. pending \o <<e>> \in Seq(Events)
  BY <1>1, <1>3, ConcatFacts
<1>6. pending' \in Seq(Events)
  BY <1>3, <1>4, <1>5, ConcatFacts
<1>7. since' \in 0..(Interval - 1)
  BY <1>1 DEF QueueEvent
<1>. QED BY <1>6, <1>7

\* The events the loop queues.
LEMMA QueueDataGives ==
  ASSUME TypeInv, NEW c \in Chunks, QueueData(c)
  PROVE  \E flush \in BOOLEAN : /\ QueueEvent(Event("data", c), flush)
                                /\ flush \/ since + 1 < Interval
<1>1. PICK bytes \in BOOLEAN :
        QueueEvent(Event("data", c), bytes \/ IntervalReached(since + 1))
  BY DEF QueueData
<1>2. since \in Nat /\ Interval \in Nat
  BY Bounds DEF TypeInv, TypeOK, LoopTypeOK
<1>. DEFINE f == bytes \/ IntervalReached(since + 1)
<1>3. f \in BOOLEAN /\ (f \/ since + 1 < Interval)
  BY <1>2 DEF IntervalReached
<1>4. QueueEvent(Event("data", c), f)
  BY <1>1
<1>. HIDE DEF f
<1>. QED BY <1>3, <1>4

LEMMA DataEvent ==
  ASSUME NEW c \in Chunks PROVE Event("data", c) \in Events
BY DEF Event, Events, Chunks

LEMMA OtherEvents ==
  /\ {Started, Exited, Checkpoint, Heartbeat} \subseteq Events
  /\ \A s \in Nat : Resized(s) \in Events
BY Bounds DEF Started, Exited, Checkpoint, Heartbeat, Resized, Event, NoChunk, Events

Late == Leaving \/ hpc = "failed"

\* An event of the loop is queued, with the checkpoint it makes due.
Queues ==
  \E e \in Events, flush \in BOOLEAN :
    /\ e.kind \in {"data", "heartbeat", "resize"}
    /\ QueueEvent(e, flush)
    /\ flush \/ since + 1 < Interval

\* What a step may do to the pending events.
PendingStep ==
  \/ pending' = pending /\ since' = since
  \/ EnqueueCommand
  \/ Queues /\ UNCHANGED outputVars /\ ~Late /\ ~Late'
  \/ LeaveLoop

LEMMA DataQueues ==
  ASSUME TypeInv, rx # <<>>, QueueData(Head(rx))
  PROVE  Queues
<1>1. Head(rx) \in Chunks
  BY SeqFacts DEF TypeInv, TypeOK, HandoffTypeOK
<1>2. PICK flush \in BOOLEAN : /\ QueueEvent(Event("data", Head(rx)), flush)
                               /\ flush \/ since + 1 < Interval
  BY <1>1, QueueDataGives
<1>3. Event("data", Head(rx)) \in Events /\ Event("data", Head(rx)).kind = "data"
  BY <1>1, DataEvent DEF Event
<1>. QED BY <1>2, <1>3 DEF Queues

LEMMA PendingSteps == TypeInv /\ Next => PendingStep
<1>. SUFFICES ASSUME TypeInv, Next PROVE PendingStep
  OBVIOUS
<1>. USE DEF PendingStep
<1>1. CASE EnqueueCommand \/ LeaveLoop
  BY <1>1
<1>2. CASE \/ StartDurable \/ RecvEnd \/ BeginResize \/ ChildExits \/ Interrupt \/ BeginCutoff
           \/ PauseEnable \/ PauseCheck \/ PauseNotified \/ CloseChannel \/ DropCommands
           \/ Join \/ Fail \/ UNCHANGED <<loopVars, hpc>>
  BY <1>2 DEF StartDurable, RecvEnd, BeginResize, ChildExits, Interrupt, BeginCutoff,
    PauseEnable, PauseCheck, PauseNotified, CloseChannel, DropCommands, Join, Fail, loopVars
<1>3. CASE RecvChunk \/ PauseRecv \/ PauseDrain \/ CutoffRecv
  <2>1. /\ rx # <<>> /\ QueueData(Head(rx)) /\ UNCHANGED outputVars
        /\ hpc \in {"select", "wait", "drain", "cutoff"}
        /\ hpc' \in {"select", "pause", "drain", "cutoff"}
    BY <1>3 DEF RecvChunk, PauseRecv, PauseDrain, CutoffRecv, SelectArm
  <2>2. Queues
    BY <2>1, DataQueues
  <2>. QED BY <2>1, <2>2 DEF Late, Leaving
<1>4. CASE HeartbeatTick
  <2>1. since \in Nat /\ Interval \in Nat
    BY Bounds DEF TypeInv, TypeOK, LoopTypeOK
  <2>. DEFINE f == IntervalReached(since + 1)
  <2>2. f \in BOOLEAN /\ (f \/ since + 1 < Interval)
    BY <2>1 DEF IntervalReached
  <2>3. QueueEvent(Heartbeat, f)
    BY <1>4 DEF HeartbeatTick
  <2>. HIDE DEF f
  <2>4. Heartbeat \in Events /\ Heartbeat.kind = "heartbeat"
    BY OtherEvents DEF Heartbeat, Event
  <2>5. Queues
    BY <2>2, <2>3, <2>4 DEF Queues
  <2>. QED BY <1>4, <2>5 DEF HeartbeatTick, SelectArm, Late, Leaving
<1>5. CASE ApplyResize
  <2>1. CASE UNCHANGED <<pending, since>>
    BY <2>1
  <2>2. CASE QueueEvent(Resized(size + 1), TRUE)
    <3>1. Resized(size + 1) \in Events /\ Resized(size + 1).kind = "resize"
      <4>1. size + 1 \in Nat
        BY DEF TypeInv, TypeOK, InputTypeOK
      <4>. QED BY <4>1, OtherEvents DEF Resized, Event
    <3>2. Queues
      BY <2>2, <3>1 DEF Queues
    <3>. QED BY <1>5, <3>2 DEF ApplyResize, Late, Leaving
  <2>. QED BY <1>5, <2>1, <2>2 DEF ApplyResize
<1>6. CASE CutoffDone
  <2>1. CASE UNCHANGED <<pending, since>>
    BY <2>1
  <2>2. CASE waitInFlight /\ QueueData(closeAck[1])
    <3>1. closeAck[1] \in Chunks
      BY <1>6, <2>2, SeqFacts DEF CutoffDone, TypeInv, TypeOK, HandoffTypeOK
    <3>2. PICK flush \in BOOLEAN : /\ QueueEvent(Event("data", closeAck[1]), flush)
                                   /\ flush \/ since + 1 < Interval
      BY <2>2, <3>1, QueueDataGives
    <3>3. Event("data", closeAck[1]) \in Events /\ Event("data", closeAck[1]).kind = "data"
      BY <3>1, DataEvent DEF Event
    <3>4. Queues
      BY <3>2, <3>3 DEF Queues
    <3>. QED BY <1>6, <3>4 DEF CutoffDone, Late, Leaving
  <2>. QED BY <1>6, <2>1, <2>2 DEF CutoffDone
<1>. QED BY <1>1, <1>2, <1>3, <1>4, <1>5, <1>6, LoopSteps

LEMMA LoopTypes == TypeInv /\ Next => LoopTypeOK'
<1>. SUFFICES ASSUME TypeInv, Next PROVE LoopTypeOK'
  OBVIOUS
<1>1. /\ pending \in Seq(Events) /\ since \in 0..(Interval - 1) /\ LoopTypeOK
      /\ Interval \in Nat \ {0} /\ MaxHeartbeats \in Nat
  BY Bounds DEF TypeInv, TypeOK, LoopTypeOK
<1>2. pending' \in Seq(Events) /\ since' \in 0..(Interval - 1)
  <2>1. CASE pending' = pending /\ since' = since
    BY <1>1, <2>1
  <2>2. CASE EnqueueCommand
    BY <1>1, <2>2, SeqFacts DEF EnqueueCommand
  <2>3. CASE Queues
    BY <2>3, QueueTypes DEF Queues
  <2>4. CASE LeaveLoop
    <3>1. PICK more \in Seq(Events) : pending' = (pending \o more) \o <<Exited>>
      <4>1. (IF since > 0 /\ Checkpointable THEN <<Checkpoint>> ELSE <<>>) \in Seq(Events)
        BY OtherEvents
      <4>. QED BY <2>4, <4>1 DEF LeaveLoop, ExitLast
    <3>2. <<Exited>> \in Seq(Events) /\ pending \o more \in Seq(Events)
      BY <1>1, OtherEvents, ConcatFacts
    <3>3. pending' \in Seq(Events)
      BY <3>1, <3>2, ConcatFacts
    <3>. QED BY <1>1, <2>4, <3>3 DEF LeaveLoop
  <2>. QED BY <2>1, <2>2, <2>3, <2>4, PendingSteps DEF PendingStep
<1>3. hpc' \in {"starting", "select", "pause", "check", "wait", "drain", "close", "cutoff",
                "final", "joining"} \cup Ended
  BY <1>1, LoopSteps DEF LoopTypeOK, Ended, StartDurable, EnqueueCommand, RecvChunk, RecvEnd,
    BeginResize, ChildExits, HeartbeatTick, Interrupt, BeginCutoff, PauseEnable, PauseCheck,
    PauseNotified, PauseRecv, PauseDrain, ApplyResize, CloseChannel, CutoffRecv, CutoffDone,
    LeaveLoop, DropCommands, Join, Fail
<1>4. heartbeats' \in 0..MaxHeartbeats
  <2>1. CASE HeartbeatTick
    BY <1>1, <2>1 DEF HeartbeatTick, LoopTypeOK
  <2>2. CASE heartbeats' = heartbeats
    BY <1>1, <2>2 DEF LoopTypeOK
  <2>. QED BY <2>1, <2>2, LoopSteps DEF loopVars, StartDurable, EnqueueCommand, RecvChunk,
    RecvEnd, BeginResize, ChildExits, Interrupt, BeginCutoff, PauseEnable, PauseCheck,
    PauseNotified, PauseRecv, PauseDrain, ApplyResize, CloseChannel, CutoffRecv, CutoffDone,
    LeaveLoop, DropCommands, Join, Fail
<1>5. {outputOpen, exited, truncated, interrupted, waitInFlight}' \subseteq BOOLEAN
  <2>1. CASE BeginCutoff
    BY <1>1, <2>1 DEF BeginCutoff, MustWait, LoopTypeOK, TypeInv, TypeOK, HandoffTypeOK
  <2>2. CASE \/ StartDurable \/ EnqueueCommand \/ RecvChunk \/ RecvEnd \/ BeginResize
             \/ ChildExits \/ HeartbeatTick \/ Interrupt \/ PauseEnable \/ PauseCheck
             \/ PauseNotified \/ PauseRecv \/ PauseDrain
    BY <1>1, <2>2 DEF LoopTypeOK, StartDurable, EnqueueCommand, RecvChunk, RecvEnd,
      BeginResize, ChildExits, HeartbeatTick, Interrupt, PauseEnable, PauseCheck,
      PauseNotified, PauseRecv, PauseDrain, loopVars
  <2>3. CASE \/ ApplyResize \/ CloseChannel \/ CutoffRecv \/ CutoffDone \/ LeaveLoop
             \/ DropCommands \/ Join \/ Fail \/ UNCHANGED <<loopVars, hpc>>
    BY <1>1, <2>3 DEF LoopTypeOK, ApplyResize, CloseChannel, CutoffRecv, CutoffDone,
      LeaveLoop, DropCommands, Join, Fail, loopVars, CutoffReported
  <2>. QED BY <2>1, <2>2, <2>3, LoopSteps
<1>. QED BY <1>2, <1>3, <1>4, <1>5 DEF LoopTypeOK

LEMMA OutputTypes == TypeInv /\ Next => OutputTypeOK'
<1>. SUFFICES ASSUME TypeInv, Next PROVE OutputTypeOK'
  OBVIOUS
<1>1. /\ OutputTypeOK /\ QueueLen \in Nat /\ pending \in Seq(Events)
      /\ commands \in Seq(Events) /\ submitted \in Seq(Events) /\ Len(submitted) \in Nat
      /\ Len(commands) \in Nat
  BY Bounds, SeqFacts DEF TypeInv, TypeOK, LoopTypeOK, OutputTypeOK
<1>2. CASE EnqueueCommand
  <2>1. commands' \in Seq(Events) /\ Len(commands') = Len(commands) + 1
    BY <1>1, <1>2, SeqFacts, AppendFacts DEF EnqueueCommand
  <2>. QED BY <1>1, <1>2, <2>1 DEF EnqueueCommand, OutputTypeOK
<1>3. CASE PublishCommand
  <2>1. /\ commands' \in Seq(Events) /\ Len(commands') <= Len(commands)
        /\ submitted' \in Seq(Events) /\ Len(submitted') = Len(submitted) + 1
    BY <1>1, <1>3, SeqFacts, AppendFacts DEF PublishCommand
  <2>. QED BY <1>1, <1>3, <2>1 DEF PublishCommand, OutputTypeOK
<1>4. CASE Flushed
  BY <1>1, <1>4 DEF Flushed, OutputTypeOK
<1>5. CASE MakeDurable
  BY <1>1, <1>5 DEF MakeDurable, OutputTypeOK
<1>6. CASE PublisherFails
  BY <1>1, <1>6 DEF PublisherFails, OutputTypeOK
<1>7. CASE UNCHANGED outputVars
  BY <1>1, <1>7 DEF outputVars, OutputTypeOK
<1>. QED BY <1>2, <1>3, <1>4, <1>5, <1>6, <1>7, OutputSteps

\* The channels to the PTY as sequences of numbers.
LEMMA InputFacts ==
  ASSUME TypeInv
  PROVE  /\ ptyInput \in Seq(DOMAIN Input) /\ resizes \in Seq(DOMAIN Input)
         /\ applied \in Seq(DOMAIN Input) /\ Len(applied) \in Nat
         /\ Len(ptyInput) \in Nat /\ Len(resizes) \in Nat
         /\ ptyInput = <<>> <=> Len(ptyInput) = 0
         /\ resizes = <<>> <=> Len(resizes) = 0
         /\ inputPos \in 0..Len(Input) /\ size \in Nat
         /\ InputTypeOK /\ ForwarderOK /\ IsFiniteSet(DOMAIN positions)
BY SeqFacts DEF TypeInv, TypeOK, InputTypeOK

\* A writer more, unless it is known.
LEMMA PositionsGrow ==
  ASSUME TypeInv, ForwardInput
  PROVE  /\ IsFiniteSet(DOMAIN positions') /\ Cardinality(DOMAIN positions') <= MaxInputWriters
         /\ DOMAIN positions' = DOMAIN positions \cup {Next_Input.writer}
<1>1. IsFiniteSet(DOMAIN positions) /\ Cardinality(DOMAIN positions) <= MaxInputWriters
  BY InputFacts DEF InputTypeOK
<1>2. DOMAIN positions' = DOMAIN positions \cup {Next_Input.writer}
  BY DEF ForwardInput
<1>3. Cardinality(DOMAIN positions) \in Nat
  BY <1>1, FS_CardinalityType
<1>4. CASE Next_Input.writer \in DOMAIN positions
  <2>1. DOMAIN positions' = DOMAIN positions
    BY <1>2, <1>4
  <2>. QED BY <1>1, <1>2, <2>1
<1>5. CASE Next_Input.writer \notin DOMAIN positions
  <2>1. Cardinality(DOMAIN positions) < MaxInputWriters
    BY <1>5 DEF ForwardInput
  <2>2. /\ IsFiniteSet(DOMAIN positions')
        /\ Cardinality(DOMAIN positions') = Cardinality(DOMAIN positions) + 1
    BY <1>1, <1>2, <1>5, FS_AddElement
  <2>. QED BY <1>2, <1>3, <2>1, <2>2, Bounds
<1>. QED BY <1>4, <1>5

LEMMA InputTypes ==
  TypeInv /\ Next => InputTypeOK' /\ IsFiniteSet(DOMAIN positions')
<1>. SUFFICES ASSUME TypeInv, Next PROVE InputTypeOK' /\ IsFiniteSet(DOMAIN positions')
  OBVIOUS
<1>1. CASE ChildExits
  BY <1>1, InputFacts DEF ChildExits, InputTypeOK, ptyVars
<1>2. CASE ApplyResize
  <2>1. resizes # <<>> /\ Head(resizes) \in DOMAIN Input /\ Tail(resizes) \in Seq(DOMAIN Input)
    <3>1. resizes # <<>>
      BY <1>2, InputFacts DEF ApplyResize, ForwarderOK, Pausing
    <3>. QED BY <3>1, InputFacts, SeqFacts
  <2>2. applied' \in Seq(DOMAIN Input) /\ size' \in Nat
    <3>1. Append(applied, Head(resizes)) \in Seq(DOMAIN Input)
      BY <2>1, InputFacts, AppendFacts
    <3>2. \/ applied' = Append(applied, Head(resizes)) /\ size' = size + 1
          \/ applied' = applied /\ size' = size
      BY <1>2 DEF ApplyResize, ptyVars
    <3>3. applied \in Seq(DOMAIN Input) /\ size \in Nat /\ size + 1 \in Nat
      BY InputFacts
    <3>. QED BY <3>1, <3>2, <3>3
  <2>. QED BY <1>2, <2>1, <2>2, InputFacts DEF ApplyResize, InputTypeOK
<1>3. CASE SkipInput
  BY <1>3, InputFacts, Bounds DEF SkipInput, ForwardReady, InputTypeOK, ptyVars
<1>4. CASE ForwardInput
  <2>1. inputPos' = inputPos + 1 /\ inputPos + 1 \in DOMAIN Input /\ inputPos' \in 0..Len(Input)
    BY <1>4, InputFacts, Bounds DEF ForwardInput, ForwardReady
  <2>2. ptyInput' \in Seq(DOMAIN Input) /\ resizes' \in Seq(DOMAIN Input)
    <3>1. /\ Append(ptyInput, inputPos + 1) \in Seq(DOMAIN Input)
          /\ Append(resizes, inputPos + 1) \in Seq(DOMAIN Input)
      BY <2>1, InputFacts, AppendFacts
    <3>2. /\ ptyInput' = Append(ptyInput, inputPos + 1) \/ ptyInput' = ptyInput
          /\ resizes' = Append(resizes, inputPos + 1) \/ resizes' = resizes
      BY <1>4 DEF ForwardInput
    <3>. QED BY <3>1, <3>2, InputFacts
  <2>3. fpc' \in {"writing", "resizing"} /\ UNCHANGED ptyVars
    BY <1>4 DEF ForwardInput
  <2>. QED BY <1>4, <2>1, <2>2, <2>3, PositionsGrow, InputFacts DEF InputTypeOK, ptyVars
<1>5. CASE ForwardFails
  BY <1>5, InputFacts DEF ForwardFails, InputTypeOK, ptyVars
<1>6. CASE WriteInput
  <2>1. Head(ptyInput) \in DOMAIN Input /\ Tail(ptyInput) \in Seq(DOMAIN Input)
    BY <1>6, InputFacts, SeqFacts DEF WriteInput
  <2>2. applied' \in Seq(DOMAIN Input)
    BY <1>6, <2>1, InputFacts, AppendFacts DEF WriteInput
  <2>. QED BY <1>6, <2>1, <2>2, InputFacts DEF WriteInput, InputTypeOK
<1>7. CASE UNCHANGED <<inputVars, ptyVars>>
  BY <1>7, InputFacts DEF InputTypeOK, inputVars, ptyVars
<1>. QED BY <1>1, <1>2, <1>3, <1>4, <1>5, <1>6, <1>7, InputSteps

\* One record is under way, and none overtakes it.
LEMMA Forwarding == TypeInv /\ Next => ForwarderOK'
<1>. SUFFICES ASSUME TypeInv, Next PROVE ForwarderOK'
  OBVIOUS
<1>1. InputTypeOK' /\ ForwarderOK
  BY InputTypes, InputFacts
<1>2. Len(ptyInput') \in Nat /\ Len(resizes') \in Nat
      /\ (ptyInput' = <<>> <=> Len(ptyInput') = 0) /\ (resizes' = <<>> <=> Len(resizes') = 0)
  BY <1>1, SeqFacts DEF InputTypeOK
<1>. DEFINE Channels == /\ fpc = "next" => ptyInput = <<>> /\ resizes = <<>>
                        /\ fpc = "writing" => Len(ptyInput) = 1 /\ resizes = <<>>
                        /\ fpc = "resizing" => ptyInput = <<>> /\ Len(resizes) = 1
                        /\ fpc = "stopped" => /\ Len(ptyInput) + Len(resizes) <= 1
                                              /\ resizes # <<>> => exited
<1>3. exited => exited'
  BY LoopSteps DEF loopVars, StartDurable, EnqueueCommand,
    RecvChunk, RecvEnd, BeginResize, ChildExits, HeartbeatTick, Interrupt, BeginCutoff,
    PauseEnable, PauseCheck, PauseNotified, PauseRecv, PauseDrain, ApplyResize, CloseChannel,
    CutoffRecv, CutoffDone, LeaveLoop, DropCommands, Join, Fail
<1>. DEFINE few == Len(ptyInput) + Len(resizes) <= 1
<1>31. few
  <2>1. /\ fpc \in {"next", "writing", "resizing", "stopped"}
        /\ ptyInput = <<>> => Len(ptyInput) = 0
        /\ resizes = <<>> => Len(resizes) = 0
    BY InputFacts DEF InputTypeOK
  <2>2. CASE fpc = "stopped"
    BY <1>1, <2>2 DEF ForwarderOK
  <2>3. CASE fpc = "next"
    BY <1>1, <2>1, <2>3 DEF ForwarderOK
  <2>4. CASE fpc = "writing"
    <3>1. Len(ptyInput) = 1 /\ resizes = <<>>
      BY <1>1, <2>4 DEF ForwarderOK
    <3>2. Len(resizes) = 0
      BY <2>1, <3>1
    <3>. QED BY <3>1, <3>2
  <2>5. CASE fpc = "resizing"
    <3>1. ptyInput = <<>> /\ Len(resizes) = 1
      BY <1>1, <2>5 DEF ForwarderOK
    <3>2. Len(ptyInput) = 0
      BY <2>1, <3>1
    <3>. QED BY <3>1, <3>2
  <2>. QED BY <2>1, <2>2, <2>3, <2>4, <2>5
<1>4. CASE ChildExits
  <2>1. Channels'
    <3>1. fpc' = "stopped" /\ exited' = TRUE /\ ptyInput' = ptyInput /\ resizes' = resizes
      BY <1>4 DEF ChildExits
    <3>. QED BY <1>31, <3>1
  <2>2. ~Pausing'
    BY <1>4 DEF ChildExits, SelectArm, Pausing
  <2>. QED BY <2>1, <2>2 DEF ForwarderOK
<1>5. CASE ApplyResize
  <2>1. fpc = "resizing" /\ ptyInput = <<>> /\ Len(resizes) = 1
    BY <1>1, <1>5 DEF ApplyResize, ForwarderOK, Pausing
  <2>2. resizes' = <<>> /\ ptyInput' = <<>>
    BY <1>2, <1>5, <2>1, InputFacts, SeqFacts DEF ApplyResize
  <2>3. fpc' \in {"next", "stopped"} /\ hpc' = "select"
    BY <1>5 DEF ApplyResize
  <2>. QED BY <1>2, <2>2, <2>3 DEF ForwarderOK, Pausing
<1>6. CASE SkipInput
  BY <1>1, <1>6 DEF SkipInput, loopVars, ForwarderOK, Pausing
<1>7. CASE ForwardInput
  <2>1. fpc = "next" /\ ptyInput = <<>> /\ resizes = <<>> /\ ~Pausing
    BY <1>1, <1>7 DEF ForwardInput, ForwardReady, ForwarderOK
  <2>2. \/ fpc' = "writing" /\ Len(ptyInput') = 1 /\ resizes' = <<>>
        \/ fpc' = "resizing" /\ ptyInput' = <<>> /\ Len(resizes') = 1
    BY <1>7, <2>1 DEF ForwardInput
  <2>3. ~Pausing'
    BY <1>7, <2>1 DEF ForwardInput, Pausing
  <2>. QED BY <2>2, <2>3 DEF ForwarderOK
<1>8. CASE ForwardFails
  <2>1. fpc' = "stopped" /\ ptyInput' = ptyInput /\ resizes' = resizes /\ hpc' = hpc
    BY <1>8 DEF ForwardFails
  <2>2. resizes = <<>> /\ ~Pausing
    BY <1>1, <1>8 DEF ForwardFails, ForwarderOK
  <2>. QED BY <1>31, <2>1, <2>2 DEF ForwarderOK, Pausing
<1>9. CASE WriteInput
  <2>1. /\ ptyInput # <<>> /\ resizes = <<>> /\ Len(ptyInput) = 1 /\ fpc \in {"writing", "stopped"}
    <3>1. /\ fpc \in {"next", "writing", "resizing", "stopped"}
          /\ Len(ptyInput) \in Nat /\ Len(resizes) \in Nat
          /\ ptyInput = <<>> <=> Len(ptyInput) = 0
          /\ resizes = <<>> <=> Len(resizes) = 0
      BY InputFacts DEF InputTypeOK
    <3>2. ptyInput # <<>>
      BY <1>9 DEF WriteInput
    <3>3. CASE fpc = "writing"
      BY <1>1, <3>2, <3>3 DEF ForwarderOK
    <3>4. CASE fpc = "stopped"
      <4>1. Len(ptyInput) + Len(resizes) <= 1 /\ Len(ptyInput) # 0
        BY <1>1, <3>1, <3>2, <3>4 DEF ForwarderOK
      <4>2. Len(ptyInput) = 1 /\ Len(resizes) = 0
        <5>1. Len(ptyInput) \in Nat /\ Len(resizes) \in Nat
          BY <3>1
        <5>. QED BY <4>1, <5>1
      <4>. QED BY <3>1, <3>2, <3>4, <4>2
    <3>. QED BY <1>1, <3>1, <3>2, <3>3, <3>4 DEF ForwarderOK
  <2>2. ptyInput' = <<>> /\ resizes' = <<>> /\ fpc' \in {"next", "stopped"}
    BY <1>2, <1>9, <2>1, InputFacts, SeqFacts DEF WriteInput
  <2>3. ~Pausing'
    BY <1>1, <1>9, <2>1 DEF WriteInput, ForwarderOK, Pausing
  <2>. QED BY <1>2, <2>2, <2>3 DEF ForwarderOK
<1>10. CASE UNCHANGED <<inputVars, ptyVars>>
  <2>1. UNCHANGED <<fpc, ptyInput, resizes>>
    BY <1>10 DEF inputVars
  <2>2. Channels'
    BY <1>1, <1>3, <2>1 DEF ForwarderOK
  <2>3. Pausing' => Pausing \/ BeginResize
    BY LoopSteps DEF loopVars, Pausing, Ended, StartDurable, EnqueueCommand,
      RecvChunk, RecvEnd, ChildExits, HeartbeatTick, Interrupt, BeginCutoff, PauseEnable,
      PauseCheck, PauseNotified, PauseRecv, PauseDrain, ApplyResize, CloseChannel, CutoffRecv,
      CutoffDone, LeaveLoop, DropCommands, Join, Fail
  <2>4. BeginResize => fpc = "resizing"
    BY <1>1, InputFacts DEF BeginResize, ForwarderOK, InputTypeOK
  <2>. QED BY <1>1, <2>1, <2>2, <2>3, <2>4 DEF ForwarderOK
<1>. QED BY <1>4, <1>5, <1>6, <1>7, <1>8, <1>9, <1>10, InputSteps

LEMMA TypeInvInit == Init => TypeInv
<1>. SUFFICES ASSUME Init PROVE TypeInv
  OBVIOUS
<1>. USE Bounds, NoChunkType, OtherEvents DEF Init
<1>1. ThreadTypeOK
  BY DEF ThreadTypeOK
<1>7. HandoffTypeOK
  <2>1. rx \in Seq(Chunks) /\ closeAck \in Seq(Chunks) /\ Len(rx) = 0 /\ Len(closeAck) = 0
    OBVIOUS
  <2>2. {closing, resizing, sending, rxClosed} \subseteq BOOLEAN
    OBVIOUS
  <2>. QED BY <2>1, <2>2 DEF HandoffTypeOK
<1>8. LoopTypeOK
  <2>1. pending \in Seq(Events) /\ since \in 0..(Interval - 1) /\ heartbeats \in 0..MaxHeartbeats
    OBVIOUS
  <2>. QED BY <2>1 DEF LoopTypeOK
<1>2. OutputTypeOK
  BY DEF OutputTypeOK
<1>3. DOMAIN positions = {}
  OBVIOUS
<1>4. IsFiniteSet(DOMAIN positions) /\ Cardinality(DOMAIN positions) = 0
  BY <1>3, FS_EmptySet
<1>5. InputTypeOK
  BY <1>4 DEF InputTypeOK
<1>6. ForwarderOK
  BY DEF ForwarderOK, Pausing
<1>. QED BY <1>1, <1>2, <1>4, <1>5, <1>6, <1>7, <1>8 DEF TypeInv, TypeOK

LEMMA TypeInvStep == TypeInv /\ [Next]_vars => TypeInv'
<1>1. ASSUME TypeInv, Next PROVE TypeInv'
  BY <1>1, ThreadTypes, HandoffTypes, LoopTypes, OutputTypes, InputTypes, Forwarding
  DEF TypeInv, TypeOK
<1>2. ASSUME TypeInv, UNCHANGED vars PROVE TypeInv'
  BY <1>2 DEF TypeInv, TypeOK, ThreadTypeOK, HandoffTypeOK, LoopTypeOK, OutputTypeOK,
    InputTypeOK, ForwarderOK, Pausing, vars, threadVars, handoffVars, loopVars, outputVars,
    inputVars, ptyVars
<1>. QED BY <1>1, <1>2

\* TypeInv is an invariant.
THEOREM HostTypes == Spec => []TypeInv
BY TypeInvInit, TypeInvStep, PTL DEF Spec

-----------------------------------------------------------------------------
(* The input.                                                              *)

\* Behind what took effect there is one record or none.
LEMMA FlightFacts ==
  ASSUME NEW S, NEW a \in Seq(S), NEW p \in Seq(S), NEW r \in Seq(S)
  PROVE  /\ p = <<>> /\ r = <<>> => a \o p \o r = a
         /\ Len(p) = 1 /\ r = <<>> => p # <<>> /\ a \o p \o r = Append(a, Head(p))
         /\ p = <<>> /\ Len(r) = 1 => r # <<>> /\ a \o p \o r = Append(a, Head(r))
<1>1. ASSUME NEW q \in Seq(S), Len(q) = 1 PROVE q # <<>> /\ a \o q = Append(a, Head(q))
  <2>1. q # <<>> /\ Tail(q) \in Seq(S) /\ Len(Tail(q)) = 0 /\ Head(q) \in S
    BY <1>1, SeqFacts
  <2>2. Tail(q) = <<>>
    BY <2>1, SeqFacts
  <2>3. Append(a, Head(q)) \o Tail(q) = a \o q
    BY <2>1, Moved
  <2>4. Append(a, Head(q)) \in Seq(S)
    BY <2>1, AppendFacts
  <2>5. Append(a, Head(q)) \o <<>> = Append(a, Head(q))
    BY <2>4
  <2>. QED BY <2>1, <2>2, <2>3, <2>5
<1>2. a \o <<>> = a /\ p \o <<>> = p /\ (a \o p) \o <<>> = a \o p
  <2>1. a \o p \in Seq(S)
    BY ConcatFacts
  <2>. QED BY <2>1
<1>. QED BY <1>1, <1>2

LEMMA LogicalFacts ==
  ASSUME TypeInv
  PROVE  /\ IsFiniteSet(Logical) /\ Cardinality(Logical) \in Nat
         /\ Logical \subseteq 1..inputPos /\ inputPos \in Nat /\ inputPos <= Len(Input)
<1>1. inputPos \in Nat /\ inputPos <= Len(Input)
  BY Bounds DEF TypeInv, TypeOK, InputTypeOK
<1>2. Logical \subseteq 1..inputPos
  BY DEF Logical
<1>3. IsFiniteSet(1..inputPos)
  BY <1>1, FS_Interval
<1>4. IsFiniteSet(Logical)
  BY <1>2, <1>3, FS_Subset
<1>. QED BY <1>1, <1>2, <1>4, FS_CardinalityType

\* A record is new to the forwarder exactly when it repeats no earlier one.
LEMMA NewIsFresh ==
  ASSUME TypeInv, PositionsOK, inputPos < Len(Input)
  PROVE  IsNew(Next_Input) <=> Fresh(inputPos + 1)
<1>. DEFINE n == inputPos + 1
            r == Input[n]
<1>1. n \in Nat /\ n - 1 = inputPos /\ inputPos \in Nat /\ n \in DOMAIN Input /\ r.seq \in Nat
  BY LogicalFacts, Bounds
<1>2. r = Next_Input
  BY DEF Next_Input
<1>3. ASSUME IsNew(r), NEW j \in 1..inputPos, Input[j].writer = r.writer
      PROVE  Input[j].seq < r.seq
  <2>1. Input[j].writer \in DOMAIN positions /\ Input[j].seq <= positions[Input[j].writer]
    BY DEF PositionsOK
  <2>2. r.seq > positions[r.writer]
    BY <1>3, <2>1 DEF IsNew
  <2>3. j \in DOMAIN Input /\ Input[j].seq \in Nat
    BY <1>1, Bounds
  <2>4. PICK k \in 1..inputPos : Input[k].seq = positions[r.writer]
    BY <1>3, <2>1 DEF PositionsOK
  <2>5. k \in DOMAIN Input /\ positions[r.writer] \in Nat
    BY <1>1, <2>4, Bounds
  <2>. QED BY <1>1, <1>3, <2>1, <2>2, <2>3, <2>5
<1>4. ASSUME Fresh(n), r.writer \in DOMAIN positions PROVE r.seq > positions[r.writer]
  <2>1. PICK k \in 1..inputPos : Input[k].writer = r.writer /\ Input[k].seq = positions[r.writer]
    BY <1>4 DEF PositionsOK
  <2>2. k \in 1..(n - 1) /\ k \in DOMAIN Input /\ Input[k].seq \in Nat
    BY <1>1, <2>1, Bounds
  <2>3. Input[k].seq < r.seq
    BY <1>4, <2>1, <2>2 DEF Fresh
  <2>. QED BY <1>1, <2>1, <2>2, <2>3
<1>5. IsNew(r) => Fresh(n)
  BY <1>1, <1>3 DEF Fresh
<1>6. Fresh(n) => IsNew(r)
  BY <1>4 DEF IsNew
<1>. QED BY <1>2, <1>5, <1>6

\* The next record joins the logical input if it is fresh.
LEMMA LogicalGrows ==
  ASSUME TypeInv, inputPos < Len(Input), inputPos' = inputPos + 1
  PROVE  /\ Fresh(inputPos + 1) => /\ Logical' = Logical \cup {inputPos + 1}
                                   /\ Cardinality(Logical') = Cardinality(Logical) + 1
         /\ ~Fresh(inputPos + 1) => Logical' = Logical
<1>. DEFINE n == inputPos + 1
<1>1. inputPos \in Nat /\ Logical \subseteq 1..inputPos /\ IsFiniteSet(Logical)
  BY LogicalFacts
<1>2. n \notin Logical /\ 1..n = (1..inputPos) \cup {n}
  BY <1>1
<1>3. Logical' = {i \in 1..n : Fresh(i)}
  BY DEF Logical
<1>4. ASSUME Fresh(n)
      PROVE  Logical' = Logical \cup {n} /\ Cardinality(Logical') = Cardinality(Logical) + 1
  <2>1. Logical' = Logical \cup {n}
    BY <1>2, <1>3, <1>4, Zenon DEF Logical
  <2>. QED BY <1>1, <1>2, <2>1, FS_AddElement
<1>5. ASSUME ~Fresh(n) PROVE Logical' = Logical
  BY <1>2, <1>3, <1>5, Zenon DEF Logical
<1>. QED BY <1>4, <1>5

LEMMA PositionsStep == TypeInv /\ InputInv /\ Next => PositionsOK'
<1>. SUFFICES ASSUME TypeInv, InputInv, Next PROVE PositionsOK'
  OBVIOUS
<1>1. PositionsOK /\ inputPos \in Nat
  BY LogicalFacts DEF InputInv
<1>2. CASE SkipInput
  <2>. DEFINE r == Next_Input
  <2>1. /\ inputPos < Len(Input) /\ ~IsNew(r) /\ inputPos' = inputPos + 1 /\ positions' = positions
    BY <1>2 DEF SkipInput, ForwardReady
  <2>2. r = Input[inputPos'] /\ inputPos' \in DOMAIN Input /\ r.seq \in Nat
    BY <1>1, <2>1, Bounds DEF Next_Input
  <2>3. r.writer \in DOMAIN positions /\ ~(r.seq > positions[r.writer])
    BY <2>1 DEF IsNew
  <2>4. PICK k \in 1..inputPos : Input[k].seq = positions[r.writer]
    BY <1>1, <2>3 DEF PositionsOK
  <2>5. positions[r.writer] \in Nat
    BY <1>1, <2>1, <2>4, Bounds
  <2>6. r.seq <= positions[r.writer]
    BY <2>2, <2>3, <2>5
  <2>7. 1..inputPos' = (1..inputPos) \cup {inputPos'} /\ 1..inputPos \subseteq 1..inputPos'
    BY <1>1, <2>1
  <2>. HIDE DEF r
  <2>. QED BY <1>1, <2>1, <2>2, <2>3, <2>6, <2>7 DEF PositionsOK
<1>3. CASE ForwardInput
  <2>. DEFINE r == Next_Input
  <2>1. /\ inputPos < Len(Input) /\ IsNew(r) /\ inputPos' = inputPos + 1
        /\ DOMAIN positions' = DOMAIN positions \cup {r.writer}
        /\ \A w \in DOMAIN positions' :
             positions'[w] = IF w = r.writer THEN r.seq ELSE positions[w]
    BY <1>3 DEF ForwardInput, ForwardReady
  <2>2. r = Input[inputPos'] /\ inputPos' \in DOMAIN Input /\ r.seq \in Nat
    BY <1>1, <2>1, Bounds DEF Next_Input
  <2>3. 1..inputPos' = (1..inputPos) \cup {inputPos'} /\ 1..inputPos \subseteq 1..inputPos'
    BY <1>1, <2>1
  <2>4. Fresh(inputPos')
    BY <1>1, <2>1, NewIsFresh
  <2>. HIDE DEF r
  <2>5. ASSUME NEW i \in 1..inputPos'
        PROVE  /\ Input[i].writer \in DOMAIN positions'
               /\ Input[i].seq <= positions'[Input[i].writer]
    <3>1. CASE i = inputPos'
      <4>1. positions'[r.writer] = r.seq /\ r.writer \in DOMAIN positions'
        BY <2>1
      <4>. QED BY <2>2, <3>1, <4>1
    <3>2. CASE i \in 1..inputPos /\ Input[i].writer = r.writer
      <4>1. positions'[r.writer] = r.seq /\ r.writer \in DOMAIN positions'
        BY <2>1
      <4>2. i \in 1..(inputPos' - 1) /\ i \in DOMAIN Input /\ Input[i].seq \in Nat
        BY <1>1, <2>1, <3>2, Bounds
      <4>3. Input[i].seq < r.seq
        BY <2>2, <2>4, <3>2, <4>2 DEF Fresh
      <4>. QED BY <2>2, <3>2, <4>1, <4>2, <4>3
    <3>3. CASE i \in 1..inputPos /\ Input[i].writer # r.writer
      <4>1. Input[i].writer \in DOMAIN positions /\ Input[i].seq <= positions[Input[i].writer]
        BY <1>1, <3>3 DEF PositionsOK
      <4>. QED BY <2>1, <3>3, <4>1
    <3>. QED BY <2>3, <3>1, <3>2, <3>3
  <2>6. ASSUME NEW w \in DOMAIN positions'
        PROVE  \E i \in 1..inputPos' : Input[i].writer = w /\ Input[i].seq = positions'[w]
    <3>1. CASE w = r.writer
      <4>1. positions'[w] = r.seq /\ inputPos' \in 1..inputPos'
        BY <1>1, <2>1, <3>1
      <4>. QED BY <2>2, <3>1, <4>1
    <3>2. CASE w # r.writer
      <4>1. w \in DOMAIN positions /\ positions'[w] = positions[w]
        BY <2>1, <3>2
      <4>2. PICK i \in 1..inputPos : Input[i].writer = w /\ Input[i].seq = positions[w]
        BY <1>1, <4>1 DEF PositionsOK
      <4>. QED BY <2>3, <4>1, <4>2
    <3>. QED BY <3>1, <3>2
  <2>. QED BY <2>5, <2>6 DEF PositionsOK
<1>4. CASE inputPos' = inputPos /\ positions' = positions
  BY <1>1, <1>4 DEF PositionsOK
<1>. QED BY <1>2, <1>3, <1>4, InputSteps DEF ChildExits, ApplyResize, ForwardFails, WriteInput,
  inputVars

\* A sequence of numbers of the logical input, in its order.
Ordered(t) ==
  /\ \A i \in DOMAIN t : t[i] \in Logical
  /\ \A i, j \in DOMAIN t : i < j => t[i] < t[j]

\* What a step may do to the input that is taken.
LEMMA TakenSteps ==
  ASSUME TypeInv, InputInv, Next
  PROVE  \/ Taken' = Taken /\ Logical' = Logical /\ (fpc' # "stopped" => fpc # "stopped")
         \/ Taken' = applied /\ Logical' = Logical /\ fpc' = "stopped"
         \/ /\ inputPos < Len(Input) /\ inputPos' = inputPos + 1 /\ Fresh(inputPos + 1)
            /\ fpc = "next" /\ Taken' = Append(Taken, inputPos + 1)
<1>1. TypeInv'
  BY TypeInvStep
<1>2. /\ applied \in Seq(DOMAIN Input) /\ ptyInput \in Seq(DOMAIN Input)
      /\ resizes \in Seq(DOMAIN Input)
      /\ applied' \in Seq(DOMAIN Input) /\ ptyInput' \in Seq(DOMAIN Input)
      /\ resizes' \in Seq(DOMAIN Input)
  BY <1>1 DEF TypeInv, TypeOK, InputTypeOK
<1>3. /\ ptyInput = <<>> /\ resizes = <<>> => Taken = applied
      /\ Len(ptyInput) = 1 /\ resizes = <<>> =>
           ptyInput # <<>> /\ Taken = Append(applied, Head(ptyInput))
      /\ ptyInput = <<>> /\ Len(resizes) = 1 =>
           resizes # <<>> /\ Taken = Append(applied, Head(resizes))
  <2>1. PICK a \in Seq(DOMAIN Input), p \in Seq(DOMAIN Input), r \in Seq(DOMAIN Input) :
          a = applied /\ p = ptyInput /\ r = resizes
    BY <1>2
  <2>2. /\ p = <<>> /\ r = <<>> => a \o p \o r = a
        /\ Len(p) = 1 /\ r = <<>> => p # <<>> /\ a \o p \o r = Append(a, Head(p))
        /\ p = <<>> /\ Len(r) = 1 => r # <<>> /\ a \o p \o r = Append(a, Head(r))
    BY FlightFacts
  <2>3. Taken = a \o p \o r
    BY <2>1 DEF Taken
  <2>. QED BY <2>1, <2>2, <2>3, Zenon
<1>4. /\ ptyInput' = <<>> /\ resizes' = <<>> => Taken' = applied'
      /\ Len(ptyInput') = 1 /\ resizes' = <<>> =>
           ptyInput' # <<>> /\ Taken' = Append(applied', Head(ptyInput'))
      /\ ptyInput' = <<>> /\ Len(resizes') = 1 =>
           resizes' # <<>> /\ Taken' = Append(applied', Head(resizes'))
  <2>1. PICK a \in Seq(DOMAIN Input), p \in Seq(DOMAIN Input), r \in Seq(DOMAIN Input) :
          a = applied' /\ p = ptyInput' /\ r = resizes'
    BY <1>2
  <2>2. /\ p = <<>> /\ r = <<>> => a \o p \o r = a
        /\ Len(p) = 1 /\ r = <<>> => p # <<>> /\ a \o p \o r = Append(a, Head(p))
        /\ p = <<>> /\ Len(r) = 1 => r # <<>> /\ a \o p \o r = Append(a, Head(r))
    BY FlightFacts
  <2>3. Taken' = a \o p \o r
    BY <2>1 DEF Taken
  <2>. QED BY <2>1, <2>2, <2>3, Zenon
<1>5. ForwarderOK /\ ForwarderOK' /\ PositionsOK
  BY <1>1 DEF TypeInv, InputInv
<1>6. inputPos' = inputPos => Logical' = Logical
  BY DEF Logical
<1>7. CASE ChildExits \/ ForwardFails \/ UNCHANGED <<inputVars, ptyVars>>
  <2>1. UNCHANGED <<inputPos, applied, ptyInput, resizes>>
    BY <1>7 DEF ChildExits, ForwardFails, inputVars, ptyVars
  <2>2. fpc' # "stopped" => fpc # "stopped"
    BY <1>7 DEF ChildExits, ForwardFails, inputVars
  <2>3. Taken' = Taken
    BY <2>1 DEF Taken
  <2>. QED BY <1>6, <2>1, <2>2, <2>3
<1>8. CASE ApplyResize
  <2>1. fpc = "resizing" /\ ptyInput = <<>> /\ Len(resizes) = 1
    BY <1>5, <1>8 DEF ApplyResize, ForwarderOK, Pausing
  <2>2. ptyInput' = <<>> /\ resizes' = <<>>
    <3>1. resizes' = Tail(resizes) /\ ptyInput' = ptyInput
      BY <1>8 DEF ApplyResize
    <3>2. resizes # <<>> /\ Len(Tail(resizes)) = 0 /\ Tail(resizes) \in Seq(DOMAIN Input)
      BY <1>2, <1>3, <2>1, SeqFacts
    <3>. QED BY <2>1, <3>1, <3>2, SeqFacts
  <2>3. inputPos' = inputPos
    BY <1>8 DEF ApplyResize
  <2>4. \/ applied' = Append(applied, Head(resizes))
        \/ applied' = applied /\ fpc' = "stopped"
    BY <1>8 DEF ApplyResize, ptyVars
  <2>5. Taken' = applied' /\ Taken = Append(applied, Head(resizes))
    BY <1>3, <1>4, <2>1, <2>2
  <2>. QED BY <1>6, <2>1, <2>3, <2>4, <2>5
<1>9. CASE SkipInput
  <2>1. /\ inputPos < Len(Input) /\ inputPos' = inputPos + 1 /\ ~IsNew(Next_Input)
        /\ UNCHANGED <<fpc, applied, ptyInput, resizes>>
    BY <1>9 DEF SkipInput, ForwardReady, ptyVars
  <2>2. Logical' = Logical
    BY <1>5, <2>1, NewIsFresh, LogicalGrows
  <2>3. Taken' = Taken
    BY <2>1 DEF Taken
  <2>. QED BY <2>1, <2>2, <2>3
<1>10. CASE ForwardInput
  <2>1. /\ inputPos < Len(Input) /\ inputPos' = inputPos + 1 /\ IsNew(Next_Input)
        /\ fpc = "next" /\ applied' = applied
    BY <1>10 DEF ForwardInput, ForwardReady, ptyVars
  <2>2. ptyInput = <<>> /\ resizes = <<>> /\ Taken = applied
    BY <1>3, <1>5, <2>1 DEF ForwarderOK
  <2>3. \/ ptyInput' = <<inputPos + 1>> /\ resizes' = <<>>
        \/ resizes' = <<inputPos + 1>> /\ ptyInput' = <<>>
    BY <1>10, <2>2 DEF ForwardInput
  <2>4. Taken' = Append(applied, inputPos + 1)
    BY <1>4, <2>1, <2>3
  <2>5. Fresh(inputPos + 1)
    BY <1>5, <2>1, NewIsFresh
  <2>. QED BY <2>1, <2>2, <2>4, <2>5
<1>11. CASE WriteInput
  <2>1. /\ ptyInput # <<>> /\ applied' = Append(applied, Head(ptyInput))
        /\ ptyInput' = Tail(ptyInput) /\ UNCHANGED <<inputPos, resizes>>
    BY <1>11 DEF WriteInput
  <2>2. fpc' # "stopped" => fpc # "stopped"
    BY <1>11 DEF WriteInput
  <2>3. Len(ptyInput) = 1 /\ resizes = <<>>
    <3>1. Len(ptyInput) \in Nat /\ Len(resizes) \in Nat /\ Len(ptyInput) # 0
      BY <1>2, <2>1, SeqFacts
    <3>2. fpc \in {"next", "writing", "resizing", "stopped"}
      BY DEF TypeInv, TypeOK, InputTypeOK
    <3>3. CASE fpc = "writing"
      BY <1>5, <3>3 DEF ForwarderOK
    <3>4. CASE fpc = "stopped"
      <4>1. Len(ptyInput) + Len(resizes) <= 1
        BY <1>5, <3>4 DEF ForwarderOK
      <4>2. PICK m \in Nat, n \in Nat : m = Len(ptyInput) /\ n = Len(resizes)
        BY <3>1
      <4>3. m = 1 /\ n = 0
        BY <3>1, <4>1, <4>2
      <4>. QED BY <1>2, <4>2, <4>3, SeqFacts
    <3>. QED BY <1>5, <2>1, <3>2, <3>3, <3>4 DEF ForwarderOK
  <2>4. ptyInput' = <<>>
    <3>1. Len(Tail(ptyInput)) = 0 /\ Tail(ptyInput) \in Seq(DOMAIN Input)
      BY <1>2, <2>1, <2>3, SeqFacts
    <3>. QED BY <2>1, <3>1, SeqFacts
  <2>5. Taken' = applied' /\ Taken = Append(applied, Head(ptyInput))
    BY <1>3, <1>4, <2>1, <2>3, <2>4
  <2>. QED BY <1>6, <2>1, <2>2, <2>5
<1>. QED BY <1>7, <1>8, <1>9, <1>10, <1>11, InputSteps

LEMMA InputInvStep == TypeInv /\ InputInv /\ Next => InputInv'
<1>. SUFFICES ASSUME TypeInv, InputInv, Next PROVE InputInv'
  OBVIOUS
<1>1. TypeInv' /\ PositionsOK'
  BY TypeInvStep, PositionsStep
<1>2. applied \in Seq(DOMAIN Input) /\ Taken \in Seq(DOMAIN Input)
  <2>1. /\ applied \in Seq(DOMAIN Input) /\ ptyInput \in Seq(DOMAIN Input)
        /\ resizes \in Seq(DOMAIN Input)
    BY DEF TypeInv, TypeOK, InputTypeOK
  <2>2. applied \o ptyInput \in Seq(DOMAIN Input)
    BY <2>1, ConcatFacts
  <2>. QED BY <2>1, <2>2, ConcatFacts DEF Taken
<1>3. Ordered(Taken) /\ (fpc # "stopped" => Cardinality(Logical) = Len(Taken))
  BY DEF InputInv, Ordered
<1>4. Ordered(applied)
  <2>1. \A i \in DOMAIN applied : i \in DOMAIN Taken /\ applied[i] = Taken[i]
    <3>1. ptyInput \in Seq(DOMAIN Input) /\ resizes \in Seq(DOMAIN Input)
      BY DEF TypeInv, TypeOK, InputTypeOK
    <3>2. ptyInput \o resizes \in Seq(DOMAIN Input) /\ Taken = applied \o (ptyInput \o resizes)
      BY <1>2, <3>1, ConcatFacts, ConcatAssoc DEF Taken
    <3>3. /\ DOMAIN applied = 1..Len(applied) /\ Len(applied) \in Nat
          /\ Len(ptyInput \o resizes) \in Nat
      BY <1>2, <3>2, SeqFacts
    <3>. QED BY <1>2, <3>2, <3>3, ConcatFacts
  <2>. QED BY <1>3, <2>1 DEF Ordered
<1>5. CASE Taken' = Taken /\ Logical' = Logical /\ (fpc' # "stopped" => fpc # "stopped")
  BY <1>1, <1>3, <1>5 DEF InputInv, Ordered
<1>6. CASE Taken' = applied /\ Logical' = Logical /\ fpc' = "stopped"
  BY <1>1, <1>4, <1>6 DEF InputInv, Ordered
<1>7. CASE /\ inputPos < Len(Input) /\ inputPos' = inputPos + 1 /\ Fresh(inputPos + 1)
           /\ fpc = "next" /\ Taken' = Append(Taken, inputPos + 1)
  <2>. DEFINE n == inputPos + 1
  <2>1. Logical' = Logical \cup {n} /\ Cardinality(Logical') = Cardinality(Logical) + 1
    BY <1>7, LogicalGrows
  <2>2. Logical \subseteq 1..inputPos /\ inputPos \in Nat /\ n \in DOMAIN Input
    BY <1>7, LogicalFacts, Bounds
  <2>3. /\ DOMAIN Taken' = 1..(Len(Taken) + 1) /\ Len(Taken') = Len(Taken) + 1
        /\ \A i \in 1..Len(Taken) : Taken'[i] = Taken[i]
        /\ Taken'[Len(Taken) + 1] = n
        /\ Len(Taken) \in Nat /\ DOMAIN Taken = 1..Len(Taken)
    BY <1>2, <1>7, <2>2, AppendFacts, SeqFacts
  <2>4. \A i \in DOMAIN Taken : Taken[i] \in Logical /\ Taken[i] < n /\ Taken[i] \in Nat
    <3>1. \A x \in Logical : x \in Nat /\ x < n
      BY <2>2
    <3>. QED BY <1>3, <3>1 DEF Ordered
  <2>. HIDE DEF n
  <2>5. \A i \in DOMAIN Taken' : Taken'[i] \in Logical'
    BY <2>1, <2>3, <2>4
  <2>6. ASSUME NEW i \in DOMAIN Taken', NEW j \in DOMAIN Taken', i < j
        PROVE  Taken'[i] < Taken'[j]
    <3>1. i \in DOMAIN Taken /\ Taken'[i] = Taken[i]
      BY <2>3, <2>6
    <3>2. CASE j = Len(Taken) + 1
      BY <2>3, <2>4, <3>1, <3>2
    <3>3. CASE j \in DOMAIN Taken
      BY <1>3, <2>3, <2>6, <3>1, <3>3 DEF Ordered
    <3>. QED BY <2>3, <3>2, <3>3
  <2>7. Cardinality(Logical') = Len(Taken')
    BY <1>3, <1>7, <2>1, <2>3
  <2>. QED BY <1>1, <2>5, <2>6, <2>7 DEF InputInv
<1>. QED BY <1>5, <1>6, <1>7, TakenSteps

\* Input takes effect once and in order: InputOnce.
THEOREM InputAppliedOnce == Spec => []InputOnce
<1>1. Init => InputInv
  <2>. SUFFICES ASSUME Init PROVE InputInv
    OBVIOUS
  <2>1. Taken = <<>> /\ Logical = {} /\ DOMAIN positions = {}
    BY DEF Init, Taken, Logical
  <2>2. Cardinality(Logical) = 0 /\ Len(Taken) = 0 /\ DOMAIN Taken = {}
    BY <2>1, FS_EmptySet
  <2>3. PositionsOK
    BY <2>1 DEF Init, PositionsOK
  <2>. QED BY <2>2, <2>3 DEF InputInv
<1>2. TypeInv /\ InputInv /\ [Next]_vars => InputInv'
  <2>1. ASSUME InputInv, UNCHANGED vars PROVE InputInv'
    <3>1. /\ UNCHANGED <<fpc, inputPos, positions, applied, ptyInput, resizes>>
      BY <2>1 DEF vars, inputVars, ptyVars
    <3>2. Taken' = Taken /\ Logical' = Logical
      BY <3>1 DEF Taken, Logical
    <3>. QED BY <2>1, <3>1, <3>2 DEF InputInv, PositionsOK
  <2>. QED BY <2>1, InputInvStep
<1>3. TypeInv /\ InputInv => InputOnce
  <2>. SUFFICES ASSUME TypeInv, InputInv PROVE InputOnce
    OBVIOUS
  <2>1. /\ applied \in Seq(DOMAIN Input) /\ ptyInput \in Seq(DOMAIN Input)
        /\ resizes \in Seq(DOMAIN Input)
    BY DEF TypeInv, TypeOK, InputTypeOK
  <2>2. \A i \in DOMAIN applied : i \in DOMAIN Taken /\ applied[i] = Taken[i]
    <3>1. ptyInput \o resizes \in Seq(DOMAIN Input) /\ Taken = applied \o (ptyInput \o resizes)
      BY <2>1, ConcatFacts, ConcatAssoc DEF Taken
    <3>2. /\ DOMAIN applied = 1..Len(applied) /\ Len(applied) \in Nat
          /\ Len(ptyInput \o resizes) \in Nat
      BY <2>1, <3>1, SeqFacts
    <3>. QED BY <2>1, <3>1, <3>2, ConcatFacts
  <2>3. fpc = "next" => Taken = applied
    BY <2>1, FlightFacts DEF TypeInv, ForwarderOK, Taken
  <2>. QED BY <2>2, <2>3 DEF InputInv, InputOnce
<1>. QED BY <1>1, <1>2, <1>3, HostTypes, PTL DEF Spec

-----------------------------------------------------------------------------
(* The output history.                                                     *)

LEMMA AppendIsConcat ==
  ASSUME NEW S, NEW s \in Seq(S), NEW x \in S PROVE s \o <<x>> = Append(s, x)
OBVIOUS

LEMMA ConcatAppend ==
  ASSUME NEW S, NEW x \in Seq(S), NEW y \in Seq(S), NEW e \in S
  PROVE  x \o (y \o <<e>>) = Append(x \o y, e)
OBVIOUS

LEMMA HistoryType ==
  ASSUME TypeInv
  PROVE  /\ History \in Seq(Events) /\ Len(History) \in Nat /\ DOMAIN History = 1..Len(History)
         /\ pending \in Seq(Events) /\ commands \in Seq(Events) /\ submitted \in Seq(Events)
         /\ submitted \o commands \in Seq(Events)
<1>1. pending \in Seq(Events) /\ commands \in Seq(Events) /\ submitted \in Seq(Events)
  BY DEF TypeInv, TypeOK, LoopTypeOK, OutputTypeOK
<1>2. submitted \o commands \in Seq(Events)
  BY <1>1, ConcatFacts
<1>3. History \in Seq(Events)
  BY <1>1, <1>2, ConcatFacts DEF History
<1>. QED BY <1>1, <1>2, <1>3, SeqFacts

\* How a step may change the history: not at all, by an event and the checkpoint it
\* makes due, or by its end.
Extends(e, flush) ==
  /\ since' = IF flush THEN 0 ELSE since + 1
  /\ History' = IF flush /\ Checkpointable THEN Append(Append(History, e), Checkpoint)
                                           ELSE Append(History, e)
HistoryStep ==
  \/ History' = History /\ since' = since
  \/ /\ ~Late /\ ~Late'
     /\ \E e \in Events, flush \in BOOLEAN :
          /\ e.kind \in {"data", "heartbeat", "resize"}
          /\ flush \/ since + 1 < Interval
          /\ QueueEvent(e, flush) /\ Extends(e, flush)
EndStep ==
  /\ since' = 0
  /\ History' = IF since > 0 /\ Checkpointable THEN Append(Append(History, Checkpoint), Exited)
                                               ELSE Append(History, Exited)

\* What is pending moves on to the publisher.
LEMMA HistoryMoves ==
  ASSUME TypeInv,
         \/ EnqueueCommand
         \/ PublishCommand
         \/ UNCHANGED <<pending, commands, submitted>>
  PROVE  History' = History
<1>1. CASE EnqueueCommand
  <2>1. pending # <<>> /\ submitted' = submitted
        /\ commands' = Append(commands, Head(pending)) /\ pending' = Tail(pending)
    BY <1>1 DEF EnqueueCommand
  <2>2. submitted \in Seq(Events) /\ commands \in Seq(Events) /\ pending \in Seq(Events)
    BY HistoryType
  <2>3. commands' \in Seq(Events) /\ pending' \in Seq(Events)
    BY <2>1, <2>2, SeqFacts, AppendFacts
  <2>4. commands' \o pending' = commands \o pending
    BY <2>1, <2>2, Moved
  <2>5. (submitted \o commands') \o pending' = (submitted \o commands) \o pending
    <3>1. (submitted \o commands') \o pending' = submitted \o (commands' \o pending')
      <4>1. PICK c \in Seq(Events), p \in Seq(Events) : c = commands' /\ p = pending'
        BY <2>3
      <4>2. (submitted \o c) \o p = submitted \o (c \o p)
        BY <2>2, ConcatAssoc, SMTT(30)
      <4>. QED BY <4>1, <4>2, Zenon
    <3>2. (submitted \o commands) \o pending = submitted \o (commands \o pending)
      BY <2>2, ConcatAssoc, SMTT(30)
    <3>. QED BY <2>4, <3>1, <3>2, Zenon
  <2>. QED BY <2>1, <2>5 DEF History
<1>2. CASE PublishCommand
  <2>1. commands # <<>> /\ pending' = pending
        /\ submitted' = Append(submitted, Head(commands)) /\ commands' = Tail(commands)
    BY <1>2 DEF PublishCommand, loopVars
  <2>2. Append(submitted, Head(commands)) \o Tail(commands) = submitted \o commands
    BY <2>1, Moved
  <2>. QED BY <2>1, <2>2 DEF History
<1>3. CASE UNCHANGED <<pending, commands, submitted>>
  BY <1>3 DEF History
<1>. QED BY <1>1, <1>2, <1>3

\* An event that is queued extends the history, with the checkpoint it makes due.
LEMMA QueuedExtends ==
  ASSUME TypeInv, NEW e \in Events, NEW flush \in BOOLEAN, QueueEvent(e, flush),
         UNCHANGED <<commands, submitted>>
  PROVE  Extends(e, flush)
<1>0. Checkpoint \in Events
  BY OtherEvents
<1>. DEFINE x == submitted \o commands
<1>1. x \in Seq(Events) /\ pending \in Seq(Events) /\ History = x \o pending
  BY HistoryType DEF History
<1>2. History' = x \o pending'
  BY DEF History
<1>. HIDE DEF x
<1>3. CASE flush /\ Checkpointable
  <2>1. pending' = (pending \o <<e>>) \o <<Checkpoint>>
    BY <1>3 DEF QueueEvent
  <2>2. PICK p : p = pending \o <<e>>
    OBVIOUS
  <2>3. p \in Seq(Events)
    BY <1>1, <2>2
  <2>4. x \o p = Append(x \o pending, e)
    BY <1>1, <2>2, ConcatAppend
  <2>5. x \o (p \o <<Checkpoint>>) = Append(x \o p, Checkpoint)
    BY <1>0, <1>1, <2>3, ConcatAppend
  <2>6. x \o pending' = Append(Append(x \o pending, e), Checkpoint)
    BY <2>1, <2>2, <2>4, <2>5, Zenon
  <2>. QED BY <1>1, <1>2, <1>3, <2>6 DEF Extends, QueueEvent
<1>4. CASE ~(flush /\ Checkpointable)
  <2>1. pending' = (pending \o <<e>>) \o <<>>
    BY <1>4 DEF QueueEvent
  <2>2. pending \o <<e>> \in Seq(Events)
    BY <1>1
  <2>3. pending' = pending \o <<e>>
    BY <2>1, <2>2
  <2>4. x \o pending' = Append(x \o pending, e)
    BY <1>1, <2>3, ConcatAppend
  <2>. QED BY <1>1, <1>2, <1>4, <2>4 DEF Extends, QueueEvent
<1>. QED BY <1>3, <1>4

LEMMA HistorySteps ==
  ASSUME TypeInv, Next
  PROVE  /\ LeaveLoop => EndStep
         /\ ~LeaveLoop => HistoryStep
<1>0. Checkpoint \in Events /\ Exited \in Events
  BY OtherEvents
<1>. DEFINE x == submitted \o commands
<1>2. x \in Seq(Events) /\ pending \in Seq(Events) /\ History = x \o pending
  BY HistoryType DEF History
<1>1. ASSUME submitted' \o commands' = x PROVE History' = x \o pending'
  BY <1>1 DEF History
<1>. HIDE DEF x
<1>3. ASSUME LeaveLoop PROVE EndStep
  <2>1. submitted' \o commands' = x /\ since' = 0
    BY <1>3 DEF LeaveLoop, outputVars, x
  <2>2. CASE since > 0 /\ Checkpointable
    <3>1. pending' = (pending \o <<Checkpoint>>) \o <<Exited>>
      BY <1>3, <2>2 DEF LeaveLoop, ExitLast
    <3>2. x \o pending' = Append(Append(x \o pending, Checkpoint), Exited)
      <4>1. PICK p : p = pending \o <<Checkpoint>>
        OBVIOUS
      <4>2. p \in Seq(Events)
        BY <1>0, <1>2, <4>1
      <4>3. x \o p = Append(x \o pending, Checkpoint)
        BY <1>0, <1>2, <4>1, ConcatAppend
      <4>4. x \o (p \o <<Exited>>) = Append(x \o p, Exited)
        BY <1>0, <1>2, <4>2, ConcatAppend
      <4>. QED BY <3>1, <4>1, <4>3, <4>4, Zenon
    <3>. QED BY <1>1, <1>2, <2>1, <2>2, <3>2 DEF EndStep
  <2>3. CASE ~(since > 0 /\ Checkpointable)
    <3>1. pending' = (pending \o <<>>) \o <<Exited>>
      BY <1>3, <2>3 DEF LeaveLoop, ExitLast
    <3>2. pending \o <<>> = pending
      OBVIOUS
    <3>3. pending' = pending \o <<Exited>>
      BY <3>1, <3>2, Zenon
    <3>4. x \o pending' = Append(x \o pending, Exited)
      BY <1>0, <1>2, <3>3, ConcatAppend
    <3>. QED BY <1>1, <1>2, <2>1, <2>3, <3>4 DEF EndStep
  <2>. QED BY <2>2, <2>3
<1>4. ASSUME ~LeaveLoop PROVE HistoryStep
  <2>1. CASE Queues /\ UNCHANGED outputVars /\ ~Late /\ ~Late'
    <3>1. PICK e \in Events, flush \in BOOLEAN :
            /\ e.kind \in {"data", "heartbeat", "resize"}
            /\ QueueEvent(e, flush)
            /\ flush \/ since + 1 < Interval
      BY <2>1 DEF Queues
    <3>2. Extends(e, flush)
      BY <2>1, <3>1, QueuedExtends DEF outputVars
    <3>. QED BY <2>1, <3>1, <3>2 DEF HistoryStep
  <2>2. CASE EnqueueCommand
    BY <2>2, HistoryMoves DEF HistoryStep, EnqueueCommand
  <2>3. CASE pending' = pending /\ since' = since
    <3>1. CASE EnqueueCommand \/ PublishCommand
      BY <2>3, <3>1, HistoryMoves DEF HistoryStep
    <3>2. CASE UNCHANGED <<commands, submitted>>
      BY <2>3, <3>2, HistoryMoves DEF HistoryStep
    <3>. QED BY <3>1, <3>2, OutputSteps DEF Flushed, MakeDurable, PublisherFails, outputVars
  <2>. QED BY <1>4, <2>1, <2>2, <2>3, PendingSteps DEF PendingStep
<1>. QED BY <1>3, <1>4

\* The stages of the host.
LEMMA Stages ==
  ASSUME Next
  PROVE  /\ Leaving' => Leaving \/ LeaveLoop
         /\ Late => Late'
         /\ LeaveLoop => ~Late /\ Leaving'
         /\ hpc \in {"joining", "done", "failed"} => hpc' \in {"joining", "done", "failed"}
         /\ hpc' \in {"joining", "done"} => hpc \in {"joining", "done"} \/ DropCommands
         /\ hpc' = "done" => hpc = "done" \/ Join
<1>. USE DEF Leaving, Late, loopVars, SelectArm, Ended
<1>0. LeaveLoop => ~Late /\ Leaving'
  BY DEF LeaveLoop
<1>. SUFFICES /\ Leaving' => Leaving \/ LeaveLoop
              /\ Late => Late'
              /\ hpc \in {"joining", "done", "failed"} => hpc' \in {"joining", "done", "failed"}
              /\ hpc' \in {"joining", "done"} => hpc \in {"joining", "done"} \/ DropCommands
              /\ hpc' = "done" => hpc = "done" \/ Join
  BY <1>0
<1>1. CASE \/ StartDurable \/ EnqueueCommand \/ RecvChunk \/ RecvEnd \/ BeginResize
           \/ ChildExits \/ HeartbeatTick \/ Interrupt
  BY <1>1 DEF StartDurable, EnqueueCommand, RecvChunk, RecvEnd, BeginResize, ChildExits,
    HeartbeatTick, Interrupt
<1>2. CASE IdleCutoff \/ MaxCutoff
  BY <1>2 DEF IdleCutoff, MaxCutoff, BeginCutoff
<1>3. CASE PauseEnable \/ PauseCheck \/ PauseNotified \/ PauseRecv \/ PauseDrain \/ ApplyResize
  BY <1>3 DEF PauseEnable, PauseCheck, PauseNotified, PauseRecv, PauseDrain, ApplyResize
<1>4. CASE CloseChannel \/ CutoffRecv \/ CutoffDone \/ LeaveLoop \/ DropCommands \/ Join
  BY <1>4 DEF CloseChannel, CutoffRecv, CutoffDone, LeaveLoop, DropCommands, Join
<1>5. CASE TaskStopped \/ HostFails
  BY <1>5 DEF TaskStopped, HostFails, Fail
<1>6. CASE UNCHANGED hpc
  BY <1>6 DEF LeaveLoop
<1>7. Thread \/ Publisher \/ PublisherFails \/ InputSide \/ Finished => UNCHANGED hpc
  BY DEF Thread, ReadChunk, ReadEnd, EnterSend, BlockingSend, AfterSend, Publisher,
    PublishCommand, Flushed, MakeDurable, PublisherFails, InputSide, SkipInput, ForwardInput,
    ForwardFails, WriteInput, Finished, vars
<1>. QED BY <1>1, <1>2, <1>3, <1>4, <1>5, <1>6, <1>7 DEF Next, Host, Deadlines, Outside

\* Two sequences of events with one element more.
LEMMA HistoryAppend ==
  ASSUME NEW h \in Seq(Events), NEW e \in Events
  PROVE  /\ Append(h, e) \in Seq(Events) /\ Len(Append(h, e)) = Len(h) + 1 /\ Len(h) \in Nat
         /\ DOMAIN h = 1..Len(h) /\ DOMAIN Append(h, e) = 1..(Len(h) + 1)
         /\ \A i \in 1..Len(h) : Append(h, e)[i] = h[i]
         /\ Append(h, e)[Len(h) + 1] = e
BY AppendFacts, SeqFacts

BeginsWith(h) ==
  /\ h # <<>> /\ h[1] = Started
  /\ \A i \in DOMAIN h : h[i] = Started => i = 1
Endless(h) == \A i \in DOMAIN h : h[i] # Exited
EndsWith(h) ==
  /\ h[Len(h)] = Exited
  /\ \A i \in DOMAIN h : h[i] = Exited => i = Len(h)

LEMMA BeginsAppend ==
  ASSUME NEW h \in Seq(Events), NEW e \in Events, BeginsWith(h), e # Started
  PROVE  BeginsWith(Append(h, e))
<1>1. Len(h) # 0 /\ 1 \in DOMAIN h
  BY SeqFacts DEF BeginsWith
<1>2. PICK g \in Seq(Events) : g = Append(h, e)
  BY HistoryAppend
<1>3. /\ Len(g) = Len(h) + 1 /\ Len(h) \in Nat
      /\ DOMAIN h = 1..Len(h) /\ DOMAIN g = 1..(Len(h) + 1)
      /\ \A i \in 1..Len(h) : g[i] = h[i]
      /\ g[Len(h) + 1] = e
  BY <1>2, HistoryAppend
<1>4. g # <<>>
  BY <1>3, SeqFacts
<1>. QED BY <1>1, <1>2, <1>3, <1>4 DEF BeginsWith

LEMMA EndlessAppend ==
  ASSUME NEW h \in Seq(Events), NEW e \in Events, Endless(h)
  PROVE  /\ e # Exited => Endless(Append(h, e))
         /\ e = Exited => EndsWith(Append(h, e))
<1>1. PICK g \in Seq(Events) : g = Append(h, e)
  BY HistoryAppend
<1>2. /\ Len(g) = Len(h) + 1 /\ Len(h) \in Nat
      /\ DOMAIN h = 1..Len(h) /\ DOMAIN g = 1..(Len(h) + 1)
      /\ \A i \in 1..Len(h) : g[i] = h[i]
      /\ g[Len(h) + 1] = e
  BY <1>1, HistoryAppend
<1>. QED BY <1>1, <1>2 DEF Endless, EndsWith

LEMMA EventKinds ==
  /\ Started.kind = "started" /\ Exited.kind = "exited" /\ Checkpoint.kind = "checkpoint"
  /\ Checkpoint \in Events /\ Exited \in Events /\ Started \in Events
BY OtherEvents DEF Started, Exited, Checkpoint, Event

\* The shape of the history, by what is behind it.
LEMMA ShapeStep ==
  ASSUME TypeInv, LifecycleInv, Next
  PROVE  BeginsOnce' /\ EndsOnce'
<1>1. /\ BeginsWith(History) /\ (~Late => Endless(History)) /\ (Leaving => EndsWith(History))
      /\ History \in Seq(Events)
  BY HistoryType DEF LifecycleInv, BeginsOnce, BeginsWith, EndsOnce, Endless, EndsWith, Late
<1>2. SUFFICES /\ BeginsWith(History') /\ (~Late' => Endless(History'))
               /\ Leaving' => EndsWith(History')
               /\ Late' => Endless(History') \/ EndsWith(History')
  BY <1>2 DEF BeginsOnce, BeginsWith, EndsOnce, Endless, EndsWith, Late
<1>3. Late => Endless(History) \/ EndsWith(History)
  BY HistoryType DEF LifecycleInv, EndsOnce, Endless, EndsWith
<1>4. CASE LeaveLoop
  <2>1. ~Late /\ Late' /\ Endless(History)
    BY <1>1, <1>4, Stages DEF Late
  <2>2. PICK g \in Seq(Events) :
          /\ g = History \/ g = Append(History, Checkpoint)
          /\ History' = Append(g, Exited)
    BY <1>1, <1>4, HistorySteps, HistoryAppend, EventKinds DEF EndStep
  <2>3. BeginsWith(g) /\ Endless(g)
    BY <1>1, <2>1, <2>2, BeginsAppend, EndlessAppend, EventKinds
  <2>4. BeginsWith(History') /\ EndsWith(History')
    BY <2>2, <2>3, BeginsAppend, EndlessAppend, EventKinds
  <2>. QED BY <2>1, <2>4
<1>5. CASE ~LeaveLoop
  <2>1. (Leaving' => Leaving) /\ (Late => Late')
    BY <1>5, Stages
  <2>2. CASE History' = History
    BY <1>1, <1>3, <2>1, <2>2
  <2>3. CASE ~Late /\ ~Late' /\ \E e \in Events, flush \in BOOLEAN :
               e.kind \in {"data", "heartbeat", "resize"} /\ Extends(e, flush)
    <3>1. PICK e \in Events, flush \in BOOLEAN :
            e.kind \in {"data", "heartbeat", "resize"} /\ Extends(e, flush)
      BY <2>3
    <3>2. e # Started /\ e # Exited
      BY <3>1, EventKinds
    <3>3. PICK g \in Seq(Events) : g = Append(History, e)
      BY <1>1, HistoryAppend
    <3>4. BeginsWith(g) /\ Endless(g)
      BY <1>1, <2>3, <3>2, <3>3, BeginsAppend, EndlessAppend
    <3>5. History' = g \/ History' = Append(g, Checkpoint)
      BY <3>1, <3>3 DEF Extends
    <3>6. BeginsWith(History') /\ Endless(History')
      BY <3>4, <3>5, BeginsAppend, EndlessAppend, EventKinds
    <3>. QED BY <2>3, <3>6 DEF Late
  <2>. QED BY <1>5, <2>2, <2>3, HistorySteps DEF HistoryStep
<1>. QED BY <1>4, <1>5

LEMMA EndStepOK ==
  ASSUME TypeInv, LifecycleInv, Next
  PROVE  EndOK'
<1>1. EndOK
  BY DEF LifecycleInv
<1>2. hpc' \in {"joining", "done"} => pending' = <<>>
  <2>. SUFFICES ASSUME hpc' \in {"joining", "done"} PROVE pending' = <<>>
    OBVIOUS
  <2>1. CASE DropCommands
    BY <2>1 DEF DropCommands, loopVars
  <2>2. CASE hpc \in {"joining", "done"}
    <3>1. pending = <<>> /\ Late
      BY <1>1, <2>2 DEF EndOK, Late, Leaving
    <3>2. ~EnqueueCommand
      BY <3>1 DEF EnqueueCommand
    <3>3. ~LeaveLoop
      BY <3>1, Stages
    <3>. QED BY <3>1, <3>2, <3>3, PendingSteps DEF PendingStep
  <2>. QED BY <2>1, <2>2, Stages
<1>3. ppc = "done" => ppc' = "done"
  BY OutputSteps DEF EnqueueCommand, PublishCommand, Flushed, MakeDurable, PublisherFails,
    outputVars
<1>4. ppc' = "done" => /\ commands' = <<>> /\ durable' = Len(submitted')
                       /\ hpc' \in {"joining", "done", "failed"}
  <2>. SUFFICES ASSUME ppc' = "done"
                PROVE  /\ commands' = <<>> /\ durable' = Len(submitted')
                       /\ hpc' \in {"joining", "done", "failed"}
    OBVIOUS
  <2>1. CASE Flushed
    BY <2>1 DEF Flushed, loopVars
  <2>2. CASE EnqueueCommand
    BY <1>1, <2>2 DEF EnqueueCommand, EndOK, SelectArm
  <2>3. CASE PublishCommand \/ MakeDurable \/ PublisherFails
    BY <2>3 DEF PublishCommand, MakeDurable, PublisherFails
  <2>4. CASE UNCHANGED outputVars
    BY <1>1, <2>4, Stages DEF EndOK, outputVars
  <2>. QED BY <2>1, <2>2, <2>3, <2>4, OutputSteps
<1>5. hpc' = "done" => ppc' = "done"
  BY <1>1, <1>3, Stages DEF EndOK, Join, outputVars
<1>. QED BY <1>2, <1>4, <1>5 DEF EndOK

LEMMA LifecycleInvInit == Init => LifecycleInv
<1>. SUFFICES ASSUME Init PROVE LifecycleInv
  OBVIOUS
<1>1. submitted = <<>> /\ commands = <<Started>> /\ pending = <<>>
  BY DEF Init
<1>2. History = <<Started>>
  BY <1>1 DEF History
<1>3. Started # Exited /\ Len(<<Started>>) = 1 /\ DOMAIN <<Started>> = {1} /\ <<Started>>[1] = Started
  BY EventKinds
<1>4. BeginsOnce
  BY <1>2, <1>3 DEF BeginsOnce
<1>5. EndsOnce
  BY <1>2, <1>3 DEF EndsOnce, Init, Leaving
<1>6. EndOK
  BY DEF EndOK, Init
<1>. QED BY <1>4, <1>5, <1>6 DEF LifecycleInv

LEMMA LifecycleInvStep == TypeInv /\ LifecycleInv /\ [Next]_vars => LifecycleInv'
<1>1. ASSUME TypeInv, LifecycleInv, Next PROVE LifecycleInv'
  BY <1>1, ShapeStep, EndStepOK DEF LifecycleInv
<1>2. ASSUME LifecycleInv, UNCHANGED vars PROVE LifecycleInv'
  BY <1>2 DEF vars, loopVars, outputVars, LifecycleInv, BeginsOnce, EndsOnce, EndOK, History,
    Leaving
<1>. QED BY <1>1, <1>2

\* The history begins and ends as the protocol says: Lifecycle.
THEOREM HistoryShape == Spec => []Lifecycle
<1>1. TypeInv /\ LifecycleInv => Lifecycle
  <2>. SUFFICES ASSUME TypeInv, LifecycleInv PROVE Lifecycle
    OBVIOUS
  <2>1. /\ History # <<>> /\ History[1] = Started
        /\ \A i \in DOMAIN History : /\ History[i] = Started => i = 1
                                     /\ History[i] = Exited => i = Len(History)
    BY DEF LifecycleInv, BeginsOnce, EndsOnce
  <2>2. ASSUME hpc = "done"
        PROVE  /\ History = submitted /\ durable = Len(submitted)
               /\ submitted[Len(submitted)] = Exited
    <3>1. pending = <<>> /\ commands = <<>> /\ durable = Len(submitted)
      BY <2>2 DEF LifecycleInv, EndOK
    <3>2. submitted \in Seq(Events)
      BY HistoryType
    <3>3. (submitted \o <<>>) \o <<>> = submitted
      BY <3>2
    <3>4. History = submitted
      BY <3>1, <3>3 DEF History
    <3>. QED BY <2>2, <3>1, <3>4 DEF LifecycleInv, EndsOnce, Leaving
  <2>. QED BY <2>1, <2>2 DEF Lifecycle
<1>. QED BY <1>1, LifecycleInvInit, LifecycleInvStep, HostTypes, PTL DEF Spec

-----------------------------------------------------------------------------
(* Checkpoints.                                                            *)

\* The last mark of a history is n events before its end.
MarkAt(h, n) == n < Len(h) /\ Mark(h[Len(h) - n])

LEMMA WindowsAppend ==
  ASSUME NEW h \in Seq(Events), NEW e \in Events, Windows(h), NEW n \in Nat,
         Mark(e) \/ (n < Interval /\ MarkAt(h, n))
  PROVE  /\ Windows(Append(h, e))
         /\ Mark(e) => MarkAt(Append(h, e), 0)
         /\ MarkAt(h, n) => MarkAt(Append(h, e), n + 1)
<1>1. PICK g \in Seq(Events) : g = Append(h, e)
  BY HistoryAppend
<1>2. /\ Len(g) = Len(h) + 1 /\ Len(h) \in Nat
      /\ DOMAIN h = 1..Len(h) /\ DOMAIN g = 1..(Len(h) + 1)
      /\ \A i \in 1..Len(h) : g[i] = h[i]
      /\ g[Len(h) + 1] = e
  BY <1>1, HistoryAppend
<1>3. PICK m \in Nat : m = Len(h)
  BY <1>2
<1>4. Interval \in Nat \ {0}
  BY Bounds
<1>5. ASSUME NEW i \in 1..(m + 1 - Interval) PROVE \E j \in i..(i + Interval) : Mark(g[j])
  <2>1. CASE i <= m - Interval
    <3>1. i \in 1..(Len(h) - Interval)
      BY <1>3, <1>4, <2>1
    <3>2. PICK j \in i..(i + Interval) : Mark(h[j])
      BY <3>1 DEF Windows
    <3>3. j \in 1..Len(h)
      BY <1>3, <1>4, <2>1, <3>2
    <3>. QED BY <1>2, <3>2, <3>3
  <2>2. CASE i = m + 1 - Interval /\ Mark(e)
    <3>1. m + 1 \in i..(i + Interval)
      BY <1>4, <2>2
    <3>. QED BY <1>2, <1>3, <2>2, <3>1
  <2>3. CASE i = m + 1 - Interval /\ n < Interval /\ MarkAt(h, n)
    <3>1. m - n \in i..(i + Interval) /\ m - n \in 1..m /\ Mark(h[m - n])
      BY <1>3, <1>4, <2>3 DEF MarkAt
    <3>. QED BY <1>2, <1>3, <3>1
  <2>. QED BY <1>4, <2>1, <2>2, <2>3
<1>6. Windows(g)
  <2>. SUFFICES ASSUME NEW i \in 1..(Len(g) - Interval)
                PROVE  \E j \in i..(i + Interval) : Mark(g[j])
    BY Zenon DEF Windows
  <2>1. i \in 1..(m + 1 - Interval)
    <3>1. Len(g) = m + 1
      BY <1>2, <1>3
    <3>. QED BY <1>4, <3>1
  <2>. QED BY <1>5, <2>1
<1>7. Mark(e) => MarkAt(g, 0)
  BY <1>2 DEF MarkAt
<1>8. MarkAt(h, n) => MarkAt(g, n + 1)
  <2>. SUFFICES ASSUME MarkAt(h, n) PROVE MarkAt(g, n + 1)
    OBVIOUS
  <2>1. n < m /\ Mark(h[m - n]) /\ m - n \in 1..m
    BY <1>3 DEF MarkAt
  <2>2. Len(g) - (n + 1) = m - n /\ n + 1 < Len(g)
    BY <1>2, <1>3, <2>1
  <2>. QED BY <1>2, <1>3, <2>1, <2>2 DEF MarkAt
<1>. QED BY <1>1, <1>6, <1>7, <1>8

LEMMA CheckpointInvStep ==
  ASSUME TypeInv, CheckpointInv, Next
  PROVE  CheckpointInv'
<1>. SUFFICES ASSUME Checkpointable
              PROVE  Windows(History') /\ (~Late' => MarkAt(History', since'))
  BY DEF CheckpointInv, MarkAt, Late, Windows
<1>1. /\ Windows(History) /\ (~Late => MarkAt(History, since))
      /\ History \in Seq(Events) /\ since \in Nat /\ since < Interval
  BY HistoryType, Bounds DEF CheckpointInv, MarkAt, Late, TypeInv, TypeOK, LoopTypeOK
<1>2. Mark(Checkpoint) /\ Checkpoint \in Events /\ Exited \in Events /\ 0 \in Nat /\ 0 < Interval
  BY EventKinds, Bounds DEF Mark
<1>3. CASE LeaveLoop
  <2>1. ~Late /\ Late' /\ EndStep
    BY <1>3, Stages, HistorySteps DEF Late
  <2>2. CASE since > 0
    <3>1. PICK g \in Seq(Events) : g = Append(History, Checkpoint)
      BY <1>1, <1>2, HistoryAppend
    <3>2. Windows(g) /\ MarkAt(g, 0)
      BY <1>1, <1>2, <3>1, WindowsAppend
    <3>3. History' = Append(g, Exited)
      BY <2>1, <2>2, <3>1 DEF EndStep
    <3>4. Windows(Append(g, Exited))
      BY <1>2, <3>2, WindowsAppend
    <3>. QED BY <2>1, <3>3, <3>4
  <2>3. CASE since = 0
    <3>1. History' = Append(History, Exited)
      BY <2>1, <2>3 DEF EndStep
    <3>2. MarkAt(History, 0)
      BY <1>1, <2>1, <2>3
    <3>3. Windows(Append(History, Exited))
      BY <1>1, <1>2, <3>2, WindowsAppend
    <3>. QED BY <2>1, <3>1, <3>3
  <2>. QED BY <1>1, <2>2, <2>3
<1>4. CASE ~LeaveLoop
  <2>1. CASE History' = History /\ since' = since
    BY <1>1, <1>4, <2>1, Stages
  <2>2. CASE ~Late /\ \E e \in Events, flush \in BOOLEAN :
               (flush \/ since + 1 < Interval) /\ Extends(e, flush)
    <3>1. PICK e \in Events, flush \in BOOLEAN :
            (flush \/ since + 1 < Interval) /\ Extends(e, flush)
      BY <2>2
    <3>2. PICK g \in Seq(Events) : g = Append(History, e)
      BY <1>1, HistoryAppend
    <3>3. Windows(g) /\ MarkAt(g, since + 1)
      BY <1>1, <2>2, <3>2, WindowsAppend
    <3>4. CASE flush
      <4>1. History' = Append(g, Checkpoint) /\ since' = 0
        BY <3>1, <3>2, <3>4 DEF Extends
      <4>2. Windows(Append(g, Checkpoint)) /\ MarkAt(Append(g, Checkpoint), 0)
        BY <1>2, <3>3, WindowsAppend
      <4>. QED BY <4>1, <4>2
    <3>5. CASE ~flush
      <4>1. History' = g /\ since' = since + 1
        BY <3>1, <3>2, <3>5 DEF Extends
      <4>. QED BY <3>3, <4>1
    <3>. QED BY <3>4, <3>5
  <2>. QED BY <1>4, <2>1, <2>2, HistorySteps DEF HistoryStep
<1>. QED BY <1>3, <1>4

\* A reader of the last Interval + 1 events finds a checkpoint or the beginning:
\* CheckpointInReach, and TypeOK.
THEOREM CheckpointReached == Spec => []CheckpointInReach
<1>1. Init => CheckpointInv
  <2>. SUFFICES ASSUME Init PROVE CheckpointInv
    OBVIOUS
  <2>1. History = <<Started>> /\ since = 0
    BY DEF Init, History
  <2>2. Len(<<Started>>) = 1 /\ <<Started>>[1] = Started /\ Mark(Started)
    BY EventKinds DEF Mark
  <2>3. Windows(<<Started>>)
    BY <2>2, Bounds DEF Windows
  <2>. QED BY <2>1, <2>2, <2>3 DEF CheckpointInv
<1>2. TypeInv /\ CheckpointInv /\ [Next]_vars => CheckpointInv'
  <2>1. ASSUME CheckpointInv, UNCHANGED vars PROVE CheckpointInv'
    BY <2>1 DEF vars, loopVars, outputVars, CheckpointInv, History, Windows, Leaving
  <2>. QED BY <2>1, CheckpointInvStep
<1>3. TypeInv /\ CheckpointInv => CheckpointInReach
  <2>. SUFFICES ASSUME TypeInv, CheckpointInv, Checkpointable,
                       NEW i \in 1..(Len(submitted) - Interval)
                PROVE  \E j \in i..(i + Interval) : submitted[j].kind \in {"checkpoint", "started"}
    BY DEF CheckpointInReach, TypeInv
  <2>1. /\ submitted \in Seq(Events) /\ commands \in Seq(Events) /\ pending \in Seq(Events)
        /\ Len(submitted) \in Nat /\ Interval \in Nat
    BY HistoryType, SeqFacts, Bounds
  <2>2. /\ commands \o pending \in Seq(Events) /\ History = submitted \o (commands \o pending)
        /\ Len(commands \o pending) \in Nat
    <3>1. commands \o pending \in Seq(Events)
      BY <2>1, ConcatFacts
    <3>2. Len(commands \o pending) \in Nat
      BY <3>1, SeqFacts
    <3>3. (submitted \o commands) \o pending = submitted \o (commands \o pending)
      BY <2>1, ConcatAssoc
    <3>. QED BY <3>1, <3>2, <3>3, Zenon DEF History
  <2>3. /\ Len(History) = Len(submitted) + Len(commands \o pending)
        /\ \A k \in 1..Len(submitted) : History[k] = submitted[k]
    BY <2>1, <2>2, ConcatFacts
  <2>4. i \in 1..(Len(History) - Interval)
    BY <2>1, <2>2, <2>3
  <2>5. PICK j \in i..(i + Interval) : Mark(History[j])
    BY <2>4 DEF CheckpointInv, Windows
  <2>6. j \in 1..Len(submitted)
    BY <2>1, <2>5
  <2>. QED BY <2>3, <2>5, <2>6 DEF Mark
<1>. QED BY <1>1, <1>2, <1>3, HostTypes, PTL DEF Spec

-----------------------------------------------------------------------------
(* The output on its way: no chunk is lost between the PTY and the history,*)
(* `exited` is honest about truncation, and resizes separate the output.   *)


\* What the handoff is made of.
handoffState == <<threadVars, handoffVars, hpc, exited, outputOpen, truncated, waitInFlight>>

LEMMA HandoffVarsTypes ==
  ASSUME TypeInv
  PROVE  /\ tpc \in {"reading", "entering", "parked", "sending", "sent", "ended"}
         /\ sendOk \in BOOLEAN /\ closing \in BOOLEAN /\ resizing \in BOOLEAN
         /\ sending \in BOOLEAN /\ rxClosed \in BOOLEAN /\ waitInFlight \in BOOLEAN
         /\ outputOpen \in BOOLEAN /\ exited \in BOOLEAN /\ truncated \in BOOLEAN
         /\ chunksRead \in Nat /\ held \in Chunks /\ size \in Nat
         /\ rx \in Seq(Chunks) /\ closeAck \in Seq(Chunks)
         /\ hpc \in {"starting", "select", "pause", "check", "wait", "drain", "close",
                     "cutoff", "final", "joining", "done", "failed"}
BY Bounds DEF TypeInv, TypeOK, ThreadTypeOK, HandoffTypeOK, LoopTypeOK, InputTypeOK, Ended

\* Who moves the handoff.
LEMMA HandoffMoves ==
  Next => \/ Thread
          \/ StartDurable \/ RecvChunk \/ RecvEnd \/ BeginResize \/ ChildExits \/ Interrupt
          \/ IdleCutoff \/ MaxCutoff
          \/ PauseEnable \/ PauseCheck \/ PauseNotified \/ PauseRecv \/ PauseDrain \/ ApplyResize
          \/ CloseChannel \/ CutoffRecv \/ CutoffDone
          \/ LeaveLoop \/ DropCommands \/ Join
          \/ TaskStopped \/ HostFails
          \/ UNCHANGED handoffState
BY DEF Next, Host, Deadlines, Publisher, Outside, InputSide, Finished, handoffState, vars,
  threadVars, handoffVars, loopVars, EnqueueCommand, HeartbeatTick, PublishCommand, Flushed,
  MakeDurable, PublisherFails, SkipInput, ForwardInput, ForwardFails, WriteInput

\* Cutting the output off wakes the thread that waits at the gate.
LEMMA CutoffBegins ==
  ASSUME IdleCutoff \/ MaxCutoff
  PROVE  /\ hpc = "select" /\ exited /\ outputOpen /\ hpc' = "close"
         /\ closing' = TRUE /\ resizing' = FALSE /\ waitInFlight' = sending
         /\ tpc' = Unparked
         /\ UNCHANGED <<held, sendOk, chunksRead, sending, notify, rx, rxClosed, closeAck,
                        outputOpen, exited, truncated, size, pending, commands, submitted>>
BY DEF IdleCutoff, MaxCutoff, BeginCutoff, SelectArm, MustWait, outputVars, ptyVars

LEMMA GateStep ==
  ASSUME TypeInv, HandoffInv, Next
  PROVE  GateOK'
<1>1. GateOK /\ CutoffOK
  BY DEF HandoffInv
<1>. USE HandoffVarsTypes DEF Pausing, threadVars, loopVars
<1>2. CASE ReadChunk
  <2>1. /\ tpc = "reading" /\ tpc' = "entering" /\ chunksRead' = chunksRead + 1
        /\ held'.n = chunksRead + 1 /\ UNCHANGED <<sendOk, handoffVars, hpc>>
    BY <1>2 DEF ReadChunk
  <2>. QED BY <1>1, <2>1 DEF GateOK, handoffVars
<1>3. CASE ReadEnd
  BY <1>1, <1>3 DEF GateOK, ReadEnd, handoffVars
<1>4. CASE EnterSend
  <2>1. /\ tpc = "entering" /\ held'.n = held.n
        /\ tpc' = IF closing THEN "ended" ELSE IF resizing THEN "parked" ELSE "sending"
        /\ sending' = (~closing /\ ~resizing)
        /\ UNCHANGED <<sendOk, chunksRead, closing, resizing, rxClosed, closeAck, hpc>>
    BY <1>4 DEF EnterSend, Chunks
  <2>. QED BY <1>1, <2>1 DEF GateOK
<1>5. CASE BlockingSend
  BY <1>1, <1>5 DEF GateOK, BlockingSend
<1>6. CASE AfterSend
  BY <1>1, <1>6 DEF GateOK, AfterSend, Unsent
<1>7. CASE IdleCutoff \/ MaxCutoff
  <2>1. /\ closing' = TRUE /\ resizing' = FALSE /\ hpc' = "close"
        /\ tpc' = IF tpc = "parked" THEN "entering" ELSE tpc
        /\ UNCHANGED <<held, sendOk, chunksRead, sending, rxClosed, closeAck>>
    BY <1>7, CutoffBegins DEF Unparked
  <2>. QED BY <1>1, <2>1 DEF GateOK
<1>8. CASE \/ StartDurable \/ RecvChunk \/ RecvEnd \/ BeginResize \/ ChildExits \/ Interrupt
  BY <1>1, <1>8 DEF GateOK, StartDurable, RecvChunk, RecvEnd, BeginResize, ChildExits,
    Interrupt, SelectArm, PausedResize, handoffVars
<1>9. CASE PauseEnable \/ PauseCheck \/ PauseNotified \/ PauseRecv \/ PauseDrain
  BY <1>1, <1>9 DEF GateOK, PauseEnable, PauseCheck, PauseNotified, PauseRecv, PauseDrain
<1>10. CASE ApplyResize
  BY <1>1, <1>10 DEF GateOK, ApplyResize, Unparked
<1>11. CASE CloseChannel \/ CutoffRecv \/ CutoffDone
  BY <1>1, <1>11 DEF GateOK, CloseChannel, CutoffRecv, CutoffDone, handoffVars
<1>12. CASE LeaveLoop \/ DropCommands \/ Join
  BY <1>1, <1>12 DEF GateOK, LeaveLoop, DropCommands, Join, handoffVars
<1>13. CASE TaskStopped \/ HostFails
  BY <1>1, <1>13 DEF GateOK, TaskStopped, HostFails, Fail
<1>14. CASE UNCHANGED handoffState
  BY <1>1, <1>14 DEF GateOK, handoffState, handoffVars
<1>. QED BY <1>2, <1>3, <1>4, <1>5, <1>6, <1>7, <1>8, <1>9, <1>10, <1>11, <1>12, <1>13, <1>14,
            HandoffMoves DEF Thread

LEMMA CutoffStep ==
  ASSUME TypeInv, HandoffInv, Next
  PROVE  CutoffOK'
<1>1. GateOK /\ CutoffOK
  BY DEF HandoffInv
<1>2. /\ sending <=> tpc \in {"sending", "sent"}
      /\ closeAck # <<>> => closing /\ tpc = "ended" /\ held = NoChunk
      /\ ~rxClosed => sendOk
      /\ hpc # "failed" => (resizing <=> Pausing) /\ (tpc = "parked" => resizing)
      /\ tpc \in {"entering", "parked", "sending", "sent"} => held.n = chunksRead /\ chunksRead > 0
  BY <1>1 DEF GateOK
<1>. USE HandoffVarsTypes DEF Cutting, Leaving, Pausing
<1>3. CASE ReadChunk
  <2>1. /\ tpc = "reading" /\ tpc' = "entering"
        /\ UNCHANGED <<sendOk, hpc, closing, resizing, sending, rx, rxClosed, closeAck,
                       outputOpen, exited, truncated, waitInFlight>>
    BY <1>3 DEF ReadChunk, handoffVars, loopVars
  <2>. QED BY <1>1, <1>2, <2>1 DEF CutoffOK
<1>4. CASE ReadEnd
  <2>1. /\ tpc = "reading" /\ tpc' = "ended" /\ held' = NoChunk
        /\ UNCHANGED <<sendOk, hpc, closing, resizing, sending, rx, rxClosed, closeAck,
                       outputOpen, exited, truncated, waitInFlight>>
    BY <1>4 DEF ReadEnd, handoffVars, loopVars
  <2>. QED BY <1>1, <1>2, <2>1 DEF CutoffOK
<1>5. CASE EnterSend
  <2>1. /\ tpc = "entering"
        /\ tpc' = IF closing THEN "ended" ELSE IF resizing THEN "parked" ELSE "sending"
        /\ sending' = (~closing /\ ~resizing)
        /\ UNCHANGED <<sendOk, hpc, closing, resizing, rx, rxClosed, closeAck,
                       outputOpen, exited, truncated, waitInFlight>>
    BY <1>5 DEF EnterSend, loopVars
  <2>. QED BY <1>1, <1>2, <2>1 DEF CutoffOK
<1>6. CASE BlockingSend
  <2>1. /\ tpc = "sending" /\ tpc' = "sent" /\ sendOk' = ~rxClosed
        /\ rxClosed => rx' = rx
        /\ UNCHANGED <<held, hpc, closing, resizing, sending, rxClosed, closeAck,
                       outputOpen, exited, truncated, waitInFlight>>
    BY <1>6 DEF BlockingSend, loopVars
  <2>. QED BY <1>1, <1>2, <2>1 DEF CutoffOK
<1>7. CASE AfterSend
  <2>1. /\ tpc = "sent" /\ tpc' = (IF closing \/ ~sendOk THEN "ended" ELSE "reading")
        /\ sending' = FALSE /\ held' = NoChunk
        /\ closing => closeAck' # <<>> /\ closeAck'[1] = IF sendOk THEN NoChunk ELSE held
        /\ ~closing => closeAck' = closeAck
        /\ UNCHANGED <<sendOk, hpc, closing, resizing, rx, rxClosed,
                       outputOpen, exited, truncated, waitInFlight>>
    BY <1>7 DEF AfterSend, Unsent, loopVars
  <2>2. held # NoChunk
    BY <1>2, <2>1 DEF NoChunk
  <2>. QED BY <1>1, <1>2, <2>1, <2>2 DEF CutoffOK
<1>8. CASE IdleCutoff \/ MaxCutoff
  <2>1. /\ hpc = "select" /\ exited /\ outputOpen /\ hpc' = "close"
        /\ closing' = TRUE /\ resizing' = FALSE /\ waitInFlight' = sending
        /\ tpc' = IF tpc = "parked" THEN "entering" ELSE tpc
        /\ UNCHANGED <<held, sendOk, sending, rx, rxClosed, closeAck, outputOpen, exited, truncated>>
    BY <1>8, CutoffBegins DEF Unparked
  <2>. QED BY <1>1, <1>2, <2>1 DEF CutoffOK
<1>9. CASE StartDurable \/ RecvChunk \/ BeginResize \/ ChildExits \/ Interrupt
  <2>1. /\ hpc \in {"starting", "select"}
        /\ hpc' \in {"select", "pause", "failed"}
        /\ exited => exited'
        /\ hpc' = "pause" => ~exited'
        /\ rx = <<>> => rx' = rx
        /\ UNCHANGED <<tpc, held, sendOk, closing, sending, rxClosed, closeAck,
                       outputOpen, truncated, waitInFlight>>
    BY <1>9 DEF StartDurable, RecvChunk, BeginResize, ChildExits, Interrupt, SelectArm,
      handoffVars, loopVars, threadVars
  <2>. QED BY <1>1, <1>2, <2>1 DEF CutoffOK
<1>10. CASE RecvEnd
  <2>1. /\ hpc = "select" /\ rx = <<>> /\ tpc = "ended" /\ outputOpen' = FALSE /\ outputOpen
        /\ UNCHANGED <<hpc, tpc, held, sendOk, closing, sending, rx, rxClosed, closeAck,
                       exited, truncated, waitInFlight>>
    BY <1>10 DEF RecvEnd, SelectArm, handoffVars, threadVars
  <2>. QED BY <1>1, <1>2, <2>1 DEF CutoffOK
<1>11. CASE PauseEnable \/ PauseCheck \/ PauseNotified \/ PauseRecv \/ PauseDrain
  <2>1. /\ Pausing /\ Pausing'
        /\ rx = <<>> => rx' = rx
        /\ UNCHANGED <<tpc, held, sendOk, closing, sending, rxClosed, closeAck, exited,
                       outputOpen, truncated, waitInFlight>>
    BY <1>11 DEF PauseEnable, PauseCheck, PauseNotified, PauseRecv, PauseDrain, Pausing,
      threadVars, loopVars
  <2>. QED BY <1>1, <1>2, <2>1 DEF CutoffOK, Pausing
<1>12. CASE ApplyResize
  <2>1. /\ hpc = "drain" /\ rx = <<>> /\ outputOpen' = (tpc # "ended")
        /\ tpc' = IF tpc = "parked" THEN "entering" ELSE tpc
        /\ hpc' = "select"
        /\ UNCHANGED <<held, sendOk, closing, sending, rx, rxClosed, closeAck, exited,
                       truncated, waitInFlight>>
    BY <1>12 DEF ApplyResize, Unparked
  <2>2. ~closing
    BY <1>1, <1>12 DEF ApplyResize, CutoffOK
  <2>. QED BY <1>1, <1>2, <2>1, <2>2 DEF CutoffOK
<1>13. CASE CloseChannel
  <2>1. /\ hpc = "close" /\ hpc' = "cutoff" /\ rxClosed' = TRUE
        /\ UNCHANGED <<tpc, held, sendOk, closing, sending, rx, closeAck, exited,
                       outputOpen, truncated, waitInFlight>>
    BY <1>13 DEF CloseChannel, threadVars, loopVars
  <2>. QED BY <1>1, <1>2, <2>1 DEF CutoffOK
<1>14. CASE CutoffRecv
  <2>1. /\ hpc = "cutoff" /\ UNCHANGED <<hpc, tpc, held, sendOk, closing, sending, rxClosed,
           closeAck, exited, outputOpen, truncated, waitInFlight>>
    BY <1>14 DEF CutoffRecv, threadVars
  <2>. QED BY <1>1, <1>2, <2>1 DEF CutoffOK
<1>15. CASE CutoffDone
  <2>1. /\ hpc = "cutoff" /\ rx = <<>> /\ hpc' = "select"
        /\ waitInFlight => closeAck # <<>>
        /\ outputOpen' = FALSE /\ truncated' = TRUE
        /\ UNCHANGED <<tpc, held, sendOk, closing, sending, rx, rxClosed, closeAck, exited,
                       waitInFlight>>
    BY <1>15 DEF CutoffDone, CutoffReported, threadVars, handoffVars
  <2>. QED BY <1>1, <1>2, <2>1 DEF CutoffOK
<1>16. CASE LeaveLoop
  <2>1. /\ hpc = "select" /\ exited /\ ~outputOpen /\ rxClosed' = TRUE /\ hpc' = "final"
        /\ UNCHANGED <<tpc, held, sendOk, closing, sending, rx, closeAck, exited,
                       outputOpen, truncated, waitInFlight>>
    BY <1>16 DEF LeaveLoop, threadVars
  <2>. QED BY <1>1, <1>2, <2>1 DEF CutoffOK
<1>17. CASE DropCommands \/ Join
  <2>1. /\ hpc \in {"final", "joining"} /\ hpc' \in {"joining", "done"}
        /\ UNCHANGED <<tpc, held, sendOk, closing, sending, rx, rxClosed, closeAck, exited,
                       outputOpen, truncated, waitInFlight>>
    BY <1>17 DEF DropCommands, Join, threadVars, handoffVars, loopVars
  <2>. QED BY <1>1, <1>2, <2>1 DEF CutoffOK
<1>18. CASE TaskStopped \/ HostFails
  BY <1>18 DEF CutoffOK, TaskStopped, HostFails, Fail
<1>19. CASE UNCHANGED handoffState
  <2>1. UNCHANGED <<hpc, tpc, held, sendOk, closing, sending, rx, rxClosed, closeAck,
                    exited, outputOpen, truncated, waitInFlight>>
    BY <1>19 DEF handoffState, handoffVars, threadVars
  <2>. QED BY <1>1, <2>1 DEF CutoffOK
<1>. QED BY <1>3, <1>4, <1>5, <1>6, <1>7, <1>8, <1>9, <1>10, <1>11, <1>12, <1>13, <1>14, <1>15,
            <1>16, <1>17, <1>18, <1>19, HandoffMoves DEF Thread

LEMMA HandoffInvStep == TypeInv /\ HandoffInv /\ [Next]_vars => HandoffInv'
<1>1. ASSUME TypeInv, HandoffInv, Next PROVE HandoffInv'
  BY <1>1, GateStep, CutoffStep DEF HandoffInv
<1>2. ASSUME HandoffInv, UNCHANGED vars PROVE HandoffInv'
  BY <1>2 DEF HandoffInv, GateOK, CutoffOK, Pausing, Cutting, Leaving, vars, threadVars,
    handoffVars, loopVars
<1>. QED BY <1>1, <1>2

LEMMA HandoffInvInit == Init => HandoffInv
BY DEF Init, HandoffInv, GateOK, CutoffOK, Pausing, Cutting, Leaving

-----------------------------------------------------------------------------
(* The chunks on their way.                                                *)

LEMMA EmptyConcat ==
  ASSUME NEW S, NEW s \in Seq(S)
  PROVE  s \o <<>> = s /\ <<>> \o s = s /\ <<>> \in Seq(S)
OBVIOUS

\* The front of a queue in front of a second one.
LEMMA TailConcat ==
  ASSUME NEW S, NEW s \in Seq(S), NEW t \in Seq(S), s # <<>>
  PROVE  /\ s \o t # <<>> /\ Head(s \o t) = Head(s)
         /\ Tail(s) \o t = Tail(s \o t)
<1>1. PICK u \in Seq(S) : u = Tail(s)
  BY SeqFacts
<1>2. /\ Len(s) \in Nat /\ Len(s) # 0 /\ Len(t) \in Nat /\ Head(s) = s[1]
      /\ Len(u) = Len(s) - 1 /\ \A i \in 1..(Len(s) - 1) : u[i] = s[i + 1]
  BY <1>1, SeqFacts, TailFacts
<1>3. PICK v \in Seq(S) : v = s \o t
  BY ConcatFacts
<1>4. /\ Len(v) = Len(s) + Len(t) /\ \A i \in 1..Len(s) : v[i] = s[i]
      /\ \A i \in 1..Len(t) : v[Len(s) + i] = t[i]
  BY <1>3, ConcatFacts
<1>5. v # <<>> /\ Head(v) = Head(s)
  <2>1. Len(v) # 0 /\ v[1] = s[1]
    BY <1>2, <1>4
  <2>. QED BY <1>2, <2>1, SeqFacts
<1>6. PICK w \in Seq(S) : w = Tail(v)
  BY <1>5, SeqFacts
<1>7. Len(w) = Len(v) - 1 /\ \A i \in 1..(Len(v) - 1) : w[i] = v[i + 1]
  BY <1>5, <1>6, SeqFacts, TailFacts
<1>8. PICK y \in Seq(S) : y = u \o t
  BY ConcatFacts
<1>9. /\ Len(y) = Len(u) + Len(t) /\ \A i \in 1..Len(u) : y[i] = u[i]
      /\ \A i \in 1..Len(t) : y[Len(u) + i] = t[i]
  BY <1>8, ConcatFacts
<1>10. ASSUME NEW i \in 1..Len(y) PROVE y[i] = w[i]
  <2>1. CASE i \in 1..Len(u)
    <3>1. i \in 1..(Len(s) - 1) /\ i + 1 \in 1..Len(s) /\ i \in 1..(Len(v) - 1)
      BY <1>2, <1>4, <2>1
    <3>. QED BY <1>2, <1>4, <1>7, <1>9, <2>1, <3>1
  <2>2. CASE i > Len(u)
    <3>. DEFINE k == i - Len(u)
    <3>1. k \in 1..Len(t) /\ i = Len(u) + k /\ i + 1 = Len(s) + k /\ i \in 1..(Len(v) - 1)
      BY <1>2, <1>4, <1>9, <2>2
    <3>2. y[i] = t[k] /\ w[i] = v[i + 1] /\ v[i + 1] = t[k]
      BY <1>4, <1>7, <1>9, <3>1
    <3>. QED BY <3>2
  <2>. QED BY <1>2, <2>1, <2>2
<1>11. y = w
  <2>1. Len(y) = Len(w)
    BY <1>2, <1>4, <1>7, <1>9
  <2>. QED BY <1>10, <2>1, SeqEqual
<1>. QED BY <1>1, <1>3, <1>5, <1>6, <1>8, <1>11

LEMMA OneElement ==
  ASSUME NEW S, NEW s \in Seq(S), Len(s) <= 1, s # <<>>
  PROVE  Len(s) = 1 /\ s[1] \in S /\ s = <<s[1]>> /\ Head(s) = s[1] /\ Tail(s) = <<>>
<1>. DEFINE n == Len(s)
<1>1. n \in Nat /\ n # 0 /\ n <= 1 /\ s[1] \in S /\ Head(s) = s[1]
  BY SeqFacts
<1>. HIDE DEF n
<1>2. n = 1
  BY <1>1
<1>3. Len(s) = 1
  BY <1>2 DEF n
<1>4. <<s[1]>> \in Seq(S) /\ Len(<<s[1]>>) = 1 /\ \A i \in 1..1 : s[i] = <<s[1]>>[i]
  BY <1>1
<1>5. s = <<s[1]>>
  BY <1>3, <1>4, SeqEqual
<1>6. Tail(s) \in Seq(S) /\ Len(Tail(s)) = 0
  BY <1>3, SeqFacts
<1>. QED BY <1>1, <1>3, <1>5, <1>6, SeqFacts

LEMMA BehindFacts ==
  ASSUME TypeInv, HandoffInv
  PROVE  /\ rx \in Seq(Chunks) /\ Returned \in Seq(Chunks) /\ InHands \in Seq(Chunks)
         /\ Behind \in Seq(Chunks) /\ rx \o Returned \in Seq(Chunks)
         /\ held \in Chunks /\ chunksRead \in Nat /\ LetThrough \in Int
         /\ tpc # "ended" => closeAck = <<>> /\ Returned = <<>> /\ Behind = rx \o InHands
         /\ InHands = <<>> => Behind = rx \o Returned
         /\ Returned = <<>> => Behind = rx \o InHands
<1>1. rx \in Seq(Chunks) /\ closeAck \in Seq(Chunks) /\ held \in Chunks /\ chunksRead \in Nat
  BY HandoffVarsTypes
<1>2. Returned \in Seq(Chunks) /\ InHands \in Seq(Chunks)
  BY <1>1 DEF Returned, InHands
<1>3. rx \o Returned \in Seq(Chunks)
  BY <1>1, <1>2, ConcatFacts
<1>4. Behind \in Seq(Chunks)
  BY <1>2, <1>3, ConcatFacts DEF Behind
<1>5. InHands = <<>> => Behind = rx \o Returned
  BY <1>3, EmptyConcat DEF Behind
<1>6. Returned = <<>> => Behind = rx \o InHands
  BY <1>1, EmptyConcat DEF Behind
<1>7. tpc # "ended" => closeAck = <<>> /\ Returned = <<>>
  BY DEF HandoffInv, GateOK, Returned
<1>8. LetThrough \in Int
  BY <1>1 DEF LetThrough
<1>. QED BY <1>1, <1>2, <1>3, <1>4, <1>5, <1>6, <1>7, <1>8

\* What a step does to the chunks on their way: nothing, one is let through the gate,
\* or the first of them is queued.
Keeps == Behind' = Behind /\ LetThrough' = LetThrough
Enters ==
  /\ Behind' = Append(Behind, held') /\ LetThrough' = LetThrough + 1
  /\ held' \in Chunks /\ held'.n = LetThrough + 1
  /\ EnterSend
Leaves(c) ==
  /\ Behind # <<>> /\ c = Head(Behind) /\ Behind' = Tail(Behind)
  /\ LetThrough' = LetThrough
  /\ UNCHANGED <<commands, submitted>>

LEMMA ReadKeeps ==
  ASSUME TypeInv, HandoffInv, ReadChunk \/ ReadEnd
  PROVE  Keeps
<1>1. tpc = "reading" /\ UNCHANGED <<rx, hpc, closeAck, sendOk>>
  BY DEF ReadChunk, ReadEnd, handoffVars
<1>2. InHands' = InHands
  BY <1>1 DEF ReadChunk, ReadEnd, InHands
<1>3. Behind' = Behind
  BY <1>1, <1>2 DEF Behind, Returned
<1>4. LetThrough' = LetThrough
  BY <1>1, BehindFacts DEF ReadChunk, ReadEnd, LetThrough
<1>. QED BY <1>3, <1>4 DEF Keeps

LEMMA EnterKeepsOrEnters ==
  ASSUME TypeInv, HandoffInv, TypeInv', EnterSend
  PROVE  Keeps \/ Enters
<1>1. /\ tpc = "entering" /\ UNCHANGED <<rx, hpc, closeAck, sendOk, chunksRead>>
      /\ tpc' = IF closing THEN "ended" ELSE IF resizing THEN "parked" ELSE "sending"
      /\ held'.n = held.n
  BY HandoffVarsTypes DEF EnterSend, Chunks
<1>2. held.n = chunksRead /\ chunksRead > 0 /\ closeAck = <<>>
  BY <1>1 DEF HandoffInv, GateOK
<1>3. held' # NoChunk /\ held' \in Chunks
  <2>1. held'.n # 0
    BY <1>1, <1>2, HandoffVarsTypes
  <2>2. held' \in Chunks
    BY DEF TypeInv, TypeOK, ThreadTypeOK
  <2>3. NoChunk.n = 0
    BY DEF NoChunk
  <2>. QED BY <2>1, <2>2, <2>3
<1>4. Returned = <<>> /\ Returned' = <<>> /\ InHands = <<>>
  BY <1>1, <1>2 DEF Returned, InHands
<1>5. Behind = rx
  <2>1. Behind = rx \o <<>>
    BY <1>4, BehindFacts
  <2>. QED BY <2>1, BehindFacts, EmptyConcat
<1>6. CASE tpc' = "sending"
  <2>1. InHands' = <<held'>>
    BY <1>6 DEF InHands
  <2>2. Behind' = (rx \o <<>>) \o <<held'>>
    BY <1>1, <1>4, <2>1 DEF Behind
  <2>3. Behind' = rx \o <<held'>>
    BY <2>2, BehindFacts, EmptyConcat
  <2>4. Behind' = Append(Behind, held')
    BY <1>3, <1>5, <2>3, BehindFacts, AppendIsConcat
  <2>5. LetThrough' = LetThrough + 1 /\ LetThrough = chunksRead - 1
    BY <1>1, <1>6, BehindFacts DEF LetThrough
  <2>6. held'.n = LetThrough + 1
    BY <1>1, <1>2, <2>5, BehindFacts
  <2>. QED BY <1>3, <2>4, <2>5, <2>6 DEF Enters
<1>7. CASE tpc' \in {"parked", "ended"}
  <2>1. InHands' = <<>>
    BY <1>7 DEF InHands
  <2>2. Behind' = (rx \o <<>>) \o <<>>
    BY <1>1, <1>4, <2>1 DEF Behind
  <2>3. Behind' = Behind
    BY <1>5, <2>2, BehindFacts, EmptyConcat
  <2>4. LetThrough' = LetThrough
    BY <1>1, <1>3, <1>7 DEF LetThrough
  <2>. QED BY <2>3, <2>4 DEF Keeps
<1>. QED BY <1>1, <1>6, <1>7

LEMMA SendKeeps ==
  ASSUME TypeInv, HandoffInv, BlockingSend
  PROVE  Keeps
<1>1. /\ tpc = "sending" /\ tpc' = "sent" /\ UNCHANGED <<held, hpc, closeAck, chunksRead>>
      /\ sendOk' = ~rxClosed /\ rx' = IF rxClosed THEN rx ELSE Append(rx, held)
  BY DEF BlockingSend
<1>2. closeAck = <<>> /\ Returned = <<>> /\ Returned' = <<>> /\ InHands = <<held>>
  BY <1>1, BehindFacts DEF Returned, InHands
<1>3. Behind = rx \o <<held>>
  BY <1>2, BehindFacts
<1>4. LetThrough' = LetThrough
  BY <1>1 DEF LetThrough
<1>5. CASE rxClosed
  <2>1. InHands' = InHands /\ rx' = rx
    BY <1>1, <1>2, <1>5 DEF InHands
  <2>. QED BY <1>2, <1>4, <2>1 DEF Keeps, Behind
<1>6. CASE ~rxClosed
  <2>1. InHands' = <<>> /\ rx' = Append(rx, held)
    BY <1>1, <1>6, HandoffVarsTypes DEF InHands
  <2>2. Append(rx, held) \in Seq(Chunks) /\ rx \o <<held>> = Append(rx, held)
    BY BehindFacts, AppendFacts, AppendIsConcat
  <2>3. Behind' = (Append(rx, held) \o <<>>) \o <<>>
    BY <1>2, <2>1 DEF Behind
  <2>4. Behind' = Append(rx, held)
    BY <2>2, <2>3, EmptyConcat
  <2>. QED BY <1>3, <1>4, <2>2, <2>4 DEF Keeps
<1>. QED BY <1>5, <1>6

LEMMA AfterSendKeeps ==
  ASSUME TypeInv, HandoffInv, AfterSend, hpc # "failed"
  PROVE  Keeps
<1>1. /\ tpc = "sent" /\ UNCHANGED <<rx, hpc, chunksRead, sendOk>>
      /\ held' = NoChunk /\ tpc' = IF closing \/ ~sendOk THEN "ended" ELSE "reading"
      /\ closeAck' = IF closing THEN <<IF sendOk THEN NoChunk ELSE held>> ELSE closeAck
  BY DEF AfterSend, Unsent
<1>2. closeAck = <<>> /\ Returned = <<>> /\ held # NoChunk
  BY <1>1, BehindFacts DEF HandoffInv, GateOK, NoChunk
<1>3. LetThrough' = LetThrough
  BY <1>1 DEF LetThrough
<1>4. InHands' = <<>>
  BY <1>1 DEF InHands
<1>5. CASE sendOk
  <2>1. InHands = <<>> /\ Returned' = <<>>
    BY <1>1, <1>2, <1>5 DEF InHands, Returned
  <2>. QED BY <1>1, <1>2, <1>3, <1>4, <2>1 DEF Keeps, Behind
<1>6. CASE ~sendOk
  <2>1. closing /\ hpc = "cutoff"
    <3>1. sending /\ rxClosed
      BY <1>1, <1>6, HandoffVarsTypes DEF HandoffInv, GateOK
    <3>2. closing /\ (waitInFlight <=> sending \/ closeAck # <<>>)
      BY <1>6 DEF HandoffInv, CutoffOK
    <3>3. Cutting
      BY <1>2, <3>1, <3>2 DEF HandoffInv, CutoffOK
    <3>4. rxClosed <=> hpc = "cutoff" \/ Leaving \/ (closing /\ ~Cutting)
      BY DEF HandoffInv, CutoffOK
    <3>. QED BY <3>1, <3>2, <3>3, <3>4 DEF Cutting, Leaving
  <2>2. InHands = <<held>> /\ Returned' = <<held>>
    BY <1>1, <1>2, <1>6, <2>1 DEF InHands, Returned
  <2>3. Behind = rx \o <<held>>
    BY <1>2, <2>2, BehindFacts
  <2>4. Behind' = (rx \o <<held>>) \o <<>> /\ rx \o <<held>> \in Seq(Chunks)
    BY <1>1, <1>4, <2>2, BehindFacts, ConcatFacts DEF Behind
  <2>5. Behind' = rx \o <<held>>
    BY <2>4, EmptyConcat
  <2>. QED BY <1>3, <2>3, <2>5 DEF Keeps
<1>. QED BY <1>5, <1>6, HandoffVarsTypes

\* The host takes the first chunk from the channel.
Takes == RecvChunk \/ PauseRecv \/ PauseDrain \/ CutoffRecv

LEMMA TakesLeaves ==
  ASSUME TypeInv, HandoffInv, Takes
  PROVE  /\ rx # <<>> /\ Leaves(Head(rx)) /\ QueueData(Head(rx))
         /\ ~Late /\ ~Late' /\ UNCHANGED size
<1>1. /\ rx # <<>> /\ rx' = Tail(rx) /\ QueueData(Head(rx))
      /\ UNCHANGED <<tpc, held, sendOk, closeAck, chunksRead, commands, submitted, size>>
      /\ (hpc' = "cutoff") = (hpc = "cutoff")
  BY DEF Takes, RecvChunk, PauseRecv, PauseDrain, CutoffRecv, SelectArm, threadVars,
    outputVars, ptyVars
<1>2. ~Late /\ ~Late'
  BY DEF Takes, RecvChunk, PauseRecv, PauseDrain, CutoffRecv, SelectArm, Late, Leaving
<1>3. Returned' = Returned /\ InHands' = InHands /\ LetThrough' = LetThrough
  BY <1>1 DEF Returned, InHands, LetThrough
<1>4. PICK b : b = rx \o Returned
  OBVIOUS
<1>5. /\ b \in Seq(Chunks) /\ b # <<>> /\ Head(b) = Head(rx) /\ Tail(rx) \o Returned = Tail(b)
  BY <1>1, <1>4, BehindFacts, TailConcat
<1>6. /\ b \o InHands # <<>> /\ Head(b \o InHands) = Head(b)
      /\ Tail(b) \o InHands = Tail(b \o InHands)
  BY <1>5, BehindFacts, TailConcat
<1>7. Behind = b \o InHands
  BY <1>4, Zenon DEF Behind
<1>8. Behind' = Tail(b) \o InHands
  BY <1>1, <1>3, <1>5, Zenon DEF Behind
<1>9. Leaves(Head(rx))
  BY <1>1, <1>3, <1>5, <1>6, <1>7, <1>8, Zenon DEF Leaves
<1>. QED BY <1>1, <1>2, <1>9

\* The cutoff queues the chunk that was given back, if there is one.
LEMMA CutoffLeaves ==
  ASSUME TypeInv, HandoffInv, CutoffDone
  PROVE  /\ UNCHANGED size /\ ~Late /\ ~Late'
         /\ \/ Keeps /\ UNCHANGED <<pending, since, commands, submitted>>
            \/ /\ rx = <<>> /\ Returned # <<>> /\ Returned[1] = closeAck[1]
               /\ closeAck[1] \in Chunks /\ Leaves(closeAck[1]) /\ QueueData(closeAck[1])
<1>1. /\ hpc = "cutoff" /\ hpc' = "select" /\ rx = <<>>
      /\ waitInFlight => closeAck # <<>>
      /\ IF waitInFlight /\ closeAck[1] # NoChunk
           THEN QueueData(closeAck[1])
           ELSE UNCHANGED <<pending, since>>
      /\ UNCHANGED <<rx, tpc, held, sendOk, closeAck, chunksRead, commands, submitted, size>>
  BY DEF CutoffDone, threadVars, handoffVars, outputVars, ptyVars
<1>2. ~Late /\ ~Late'
  BY <1>1 DEF Late, Leaving
<1>3. Returned' = <<>> /\ InHands' = InHands /\ LetThrough' = LetThrough
  BY <1>1 DEF Returned, InHands, LetThrough
<1>4. closeAck \in Seq(Chunks) /\ Len(closeAck) <= 1
  BY DEF TypeInv, TypeOK, HandoffTypeOK
<1>5. closeAck # <<>> =>
        closeAck[1] \in Chunks /\ closeAck = <<closeAck[1]>> /\ Head(closeAck) = closeAck[1]
        /\ Tail(closeAck) = <<>>
  BY <1>4, OneElement
<1>6. CASE waitInFlight /\ closeAck[1] # NoChunk
  <2>1. closeAck # <<>> /\ tpc = "ended" /\ InHands = <<>>
    BY <1>1, <1>6 DEF HandoffInv, GateOK, InHands
  <2>2. closeAck # <<NoChunk>>
    BY <1>6
  <2>3. Returned = closeAck
    BY <1>1, <2>1, <2>2 DEF Returned
  <2>4. Behind = closeAck /\ Behind' = <<>>
    <3>1. Behind = (<<>> \o closeAck) \o <<>> /\ Behind' = (<<>> \o <<>>) \o <<>>
      BY <1>1, <1>3, <2>1, <2>3 DEF Behind
    <3>2. <<>> \o closeAck = closeAck /\ closeAck \o <<>> = closeAck
      BY <1>4, EmptyConcat
    <3>. QED BY <3>1, <3>2
  <2>6. Leaves(closeAck[1])
    BY <1>1, <1>3, <1>5, <2>1, <2>4 DEF Leaves
  <2>. QED BY <1>1, <1>2, <1>5, <1>6, <2>1, <2>3, <2>6
<1>7. CASE ~(waitInFlight /\ closeAck[1] # NoChunk)
  <2>1. Returned = <<>>
    <3>1. CASE closeAck = <<>>
      BY <3>1 DEF Returned
    <3>2. CASE closeAck # <<>>
      <4>1. waitInFlight
        BY <1>1, <3>2 DEF HandoffInv, GateOK, CutoffOK
      <4>2. closeAck = <<NoChunk>>
        BY <1>5, <1>7, <3>2, <4>1
      <4>. QED BY <4>2 DEF Returned
    <3>. QED BY <3>1, <3>2
  <2>2. Behind' = Behind
    BY <1>1, <1>3, <2>1 DEF Behind
  <2>. QED BY <1>1, <1>2, <1>3, <1>7, <2>2 DEF Keeps
<1>. QED BY <1>6, <1>7

\* Other steps of the host that move no chunk.
LEMMA HostKeeps ==
  ASSUME TypeInv, HandoffInv, hpc' # "failed",
         \/ StartDurable \/ RecvEnd \/ BeginResize \/ ChildExits \/ Interrupt
         \/ IdleCutoff \/ MaxCutoff
         \/ PauseEnable \/ PauseCheck \/ PauseNotified \/ ApplyResize
         \/ CloseChannel
         \/ LeaveLoop \/ DropCommands \/ Join
         \/ UNCHANGED handoffState
  PROVE  Keeps
<1>1. UNCHANGED <<rx, held, sendOk, closeAck, chunksRead>>
  BY CutoffBegins DEF StartDurable, RecvEnd, BeginResize, ChildExits, Interrupt, PauseEnable,
    PauseCheck, PauseNotified, ApplyResize, CloseChannel, LeaveLoop, DropCommands, Join,
    handoffState, threadVars, handoffVars
<1>2. tpc' = tpc \/ (tpc = "parked" /\ tpc' = "entering")
  BY CutoffBegins DEF StartDurable, RecvEnd, BeginResize, ChildExits, Interrupt, PauseEnable,
    PauseCheck, PauseNotified, ApplyResize, CloseChannel, LeaveLoop, DropCommands, Join,
    handoffState, threadVars, Unparked
<1>3. InHands' = InHands /\ LetThrough' = LetThrough
  BY <1>1, <1>2 DEF InHands, LetThrough
<1>4. \/ hpc' = "cutoff" <=> hpc = "cutoff"
      \/ CloseChannel
  BY CutoffBegins DEF StartDurable, RecvEnd, BeginResize, ChildExits, Interrupt, PauseEnable,
    PauseCheck, PauseNotified, ApplyResize, LeaveLoop, DropCommands, Join,
    handoffState, SelectArm
<1>5. CASE hpc' = "cutoff" <=> hpc = "cutoff"
  BY <1>1, <1>3, <1>5 DEF Returned, Keeps, Behind
<1>6. CASE CloseChannel
  <2>1. closeAck # <<>> => closeAck[1] = NoChunk
    BY <1>6, HandoffVarsTypes DEF CloseChannel, HandoffInv, GateOK, CutoffOK, Cutting, Leaving
  <2>2. closeAck \in {<<>>, <<NoChunk>>}
    <3>1. closeAck \in Seq(Chunks) /\ Len(closeAck) <= 1
      BY DEF TypeInv, TypeOK, HandoffTypeOK
    <3>2. CASE closeAck # <<>>
      <4>1. closeAck = <<closeAck[1]>>
        BY <3>1, <3>2, OneElement
      <4>. QED BY <2>1, <3>2, <4>1
    <3>. QED BY <3>2
  <2>3. Returned = <<>> /\ Returned' = <<>>
    BY <1>1, <2>2 DEF Returned
  <2>. QED BY <1>1, <1>3, <2>3 DEF Keeps, Behind
<1>. QED BY <1>4, <1>5, <1>6

LEMMA FailedStays ==
  ASSUME Next, hpc' # "failed"
  PROVE  hpc # "failed"
BY Stages DEF Late, Leaving

\* What a step does to the history, and to the chunks that are not in it yet.
LEMMA HandoffHistory ==
  ASSUME TypeInv, TypeInv', HandoffInv, Next, hpc' # "failed"
  PROVE  \/ Keeps /\ History' = History /\ size' = size
         \/ Keeps /\ EndStep /\ LeaveLoop /\ size' = size
         \/ /\ Keeps /\ HeartbeatTick /\ size' = size
            /\ \E flush \in BOOLEAN : Extends(Heartbeat, flush)
         \/ Keeps /\ ApplyResize /\ size' = size + 1 /\ Extends(Resized(size + 1), TRUE)
         \/ Enters /\ History' = History /\ size' = size
         \/ /\ Takes \/ (CutoffDone /\ rx = <<>> /\ Returned # <<>>)
            /\ size' = size
            /\ \E c \in Chunks, flush \in BOOLEAN :
                 Leaves(c) /\ Extends(Event("data", c), flush)
<1>1. hpc # "failed"
  BY FailedStays
<1>2. ASSUME NEW c \in Chunks, QueueData(c), UNCHANGED <<commands, submitted>>
      PROVE  \E flush \in BOOLEAN : Extends(Event("data", c), flush)
  <2>1. PICK flush \in BOOLEAN : QueueEvent(Event("data", c), flush)
    BY <1>2, QueueDataGives
  <2>2. Extends(Event("data", c), flush)
    BY <1>2, <2>1, DataEvent, QueuedExtends
  <2>. QED BY <2>2
<1>3. CASE Takes
  <2>1. Head(rx) \in Chunks
    BY <1>3, TakesLeaves, BehindFacts, SeqFacts
  <2>2. Leaves(Head(rx)) /\ QueueData(Head(rx)) /\ size' = size
    BY <1>3, TakesLeaves
  <2>3. PICK flush \in BOOLEAN : Extends(Event("data", Head(rx)), flush)
    BY <1>2, <2>1, <2>2 DEF Leaves
  <2>. QED BY <1>3, <2>1, <2>2, <2>3
<1>4. CASE CutoffDone
  <2>1. CASE Keeps /\ UNCHANGED <<pending, since, commands, submitted>>
    BY <1>4, <2>1, CutoffLeaves, HistoryMoves
  <2>2. CASE /\ rx = <<>> /\ Returned # <<>> /\ closeAck[1] \in Chunks
             /\ Leaves(closeAck[1]) /\ QueueData(closeAck[1])
    <3>1. PICK flush \in BOOLEAN : Extends(Event("data", closeAck[1]), flush)
      BY <1>2, <2>2 DEF Leaves
    <3>. QED BY <1>4, <2>2, <3>1, CutoffLeaves
  <2>. QED BY <1>4, <2>1, <2>2, CutoffLeaves
<1>5. CASE HeartbeatTick
  <2>1. UNCHANGED handoffState /\ size' = size /\ UNCHANGED <<commands, submitted>>
    BY <1>5 DEF HeartbeatTick, handoffState, ptyVars, outputVars
  <2>2. \E flush \in BOOLEAN : QueueEvent(Heartbeat, flush)
    <3>. DEFINE f == IntervalReached(since + 1)
    <3>1. QueueEvent(Heartbeat, f)
      BY <1>5 DEF HeartbeatTick
    <3>2. f \in BOOLEAN
      BY DEF IntervalReached
    <3>. HIDE DEF f
    <3>. QED BY <3>1, <3>2
  <2>3. PICK flush \in BOOLEAN : Extends(Heartbeat, flush)
    BY <2>1, <2>2, OtherEvents, QueuedExtends
  <2>. QED BY <1>5, <2>1, <2>3, HostKeeps
<1>6. CASE ApplyResize
  <2>1. UNCHANGED <<commands, submitted>>
    BY <1>6 DEF ApplyResize, outputVars
  <2>2. CASE size' = size + 1 /\ QueueEvent(Resized(size + 1), TRUE)
    <3>1. Resized(size + 1) \in Events
      BY OtherEvents, HandoffVarsTypes
    <3>. QED BY <1>6, <2>1, <2>2, <3>1, HostKeeps, QueuedExtends
  <2>3. CASE UNCHANGED <<ptyVars, pending, since>>
    <3>1. History' = History
      BY <2>1, <2>3, HistoryMoves
    <3>2. size' = size
      BY <2>3 DEF ptyVars
    <3>3. Keeps
      BY <1>6, HostKeeps
    <3>. QED BY <3>1, <3>2, <3>3
  <2>. QED BY <1>6, <2>2, <2>3 DEF ApplyResize
<1>7. CASE LeaveLoop
  <2>1. size' = size
    BY <1>7 DEF LeaveLoop, ptyVars
  <2>. QED BY <1>7, <2>1, HostKeeps, HistorySteps
<1>8. CASE Thread
  <2>1. size' = size /\ UNCHANGED <<pending, commands, submitted>>
    BY <1>8 DEF Thread, ReadChunk, ReadEnd, EnterSend, BlockingSend, AfterSend, ptyVars,
      loopVars, outputVars
  <2>2. History' = History
    BY <2>1, HistoryMoves
  <2>3. Keeps \/ Enters
    BY <1>1, <1>8, ReadKeeps, EnterKeepsOrEnters, SendKeeps, AfterSendKeeps DEF Thread
  <2>. QED BY <2>1, <2>2, <2>3
<1>9. CASE \/ StartDurable \/ RecvEnd \/ BeginResize \/ ChildExits \/ Interrupt
           \/ IdleCutoff \/ MaxCutoff
           \/ PauseEnable \/ PauseCheck \/ PauseNotified
           \/ CloseChannel \/ DropCommands \/ Join
  <2>1. UNCHANGED <<size, pending, commands, submitted>>
    BY <1>9, CutoffBegins DEF StartDurable, RecvEnd, BeginResize, ChildExits, Interrupt,
      PauseEnable, PauseCheck, PauseNotified, CloseChannel, DropCommands, Join, ptyVars,
      loopVars, outputVars
  <2>. QED BY <1>9, <2>1, HostKeeps, HistoryMoves
<1>10. CASE /\ \/ EnqueueCommand \/ PublishCommand \/ Flushed \/ MakeDurable \/ PublisherFails
               \/ InputSide \/ Finished
            /\ UNCHANGED handoffState
  <2>1. size' = size
    BY <1>10 DEF EnqueueCommand, PublishCommand, Flushed, MakeDurable, PublisherFails, InputSide,
      SkipInput, ForwardInput, ForwardFails, WriteInput, Finished, vars, ptyVars
  <2>2. \/ EnqueueCommand \/ PublishCommand
        \/ UNCHANGED <<pending, commands, submitted>>
    BY <1>10 DEF Flushed, MakeDurable, PublisherFails, InputSide,
      SkipInput, ForwardInput, ForwardFails, WriteInput, Finished, vars, loopVars, outputVars
  <2>. QED BY <1>10, <2>1, <2>2, HostKeeps, HistoryMoves
<1>11. CASE TaskStopped \/ HostFails
  BY <1>11 DEF TaskStopped, HostFails, Fail
<1>12. \/ EnqueueCommand \/ PublishCommand \/ Flushed \/ MakeDurable \/ PublisherFails
       \/ InputSide \/ Finished
       => UNCHANGED handoffState
  BY DEF handoffState, EnqueueCommand, PublishCommand, Flushed, MakeDurable, PublisherFails,
    InputSide, SkipInput, ForwardInput, ForwardFails, WriteInput, Finished, vars, threadVars,
    handoffVars, loopVars
<1>. QED BY <1>3, <1>4, <1>5, <1>6, <1>7, <1>8, <1>9, <1>10, <1>11, <1>12
  DEF Next, Host, Deadlines, Publisher, Outside, Takes

-----------------------------------------------------------------------------
(* Every chunk is queued once, in reading order.                           *)

LEMMA CountType ==
  ASSUME NEW h, NEW kind, NEW i \in Nat
  PROVE  IsFiniteSet({j \in 1..i : h[j].kind = kind}) /\ CountTo(h, kind, i) \in Nat
<1>1. IsFiniteSet(1..i)
  BY FS_Interval
<1>2. IsFiniteSet({j \in 1..i : h[j].kind = kind})
  BY <1>1, FS_Subset
<1>. QED BY <1>2, FS_CardinalityType DEF CountTo

LEMMA CountAppend ==
  ASSUME NEW h \in Seq(Events), NEW e \in Events, NEW kind
  PROVE  /\ \A i \in 0..Len(h) : CountTo(Append(h, e), kind, i) = CountTo(h, kind, i)
         /\ CountTo(Append(h, e), kind, Len(h) + 1) =
              CountTo(h, kind, Len(h)) + (IF e.kind = kind THEN 1 ELSE 0)
         /\ CountTo(h, kind, Len(h)) \in Nat
<1>1. PICK g \in Seq(Events) : g = Append(h, e)
  BY HistoryAppend
<1>2. /\ Len(h) \in Nat /\ \A i \in 1..Len(h) : g[i] = h[i]
      /\ g[Len(h) + 1] = e
  BY <1>1, HistoryAppend
<1>3. ASSUME NEW i \in 0..Len(h)
      PROVE  {j \in 1..i : g[j].kind = kind} = {j \in 1..i : h[j].kind = kind}
  <2>1. \A j \in 1..i : g[j] = h[j]
    BY <1>2
  <2>. QED BY <2>1
<1>4. \A i \in 0..Len(h) : CountTo(g, kind, i) = CountTo(h, kind, i)
  BY <1>3 DEF CountTo
<1>. DEFINE n == Len(h) + 1
            old == {j \in 1..Len(h) : h[j].kind = kind}
            new == {j \in 1..n : g[j].kind = kind}
<1>5. n \notin old /\ IsFiniteSet(old) /\ Len(h) \in 0..Len(h) /\ 1..n = (1..Len(h)) \cup {n}
  <2>1. IsFiniteSet(old)
    BY <1>2, CountType
  <2>2. n \notin old /\ Len(h) \in 0..Len(h) /\ 1..n = (1..Len(h)) \cup {n}
    BY <1>2
  <2>. QED BY <2>1, <2>2
<1>6. {j \in 1..Len(h) : g[j].kind = kind} = old
  BY <1>3, <1>5
<1>7. new = IF e.kind = kind THEN old \cup {n} ELSE old
  <2>1. new = {j \in 1..Len(h) : g[j].kind = kind} \cup {j \in {n} : g[j].kind = kind}
    BY <1>5
  <2>2. {j \in {n} : g[j].kind = kind} = IF e.kind = kind THEN {n} ELSE {}
    BY <1>2
  <2>. HIDE DEF new, old, n
  <2>. QED BY <1>6, <2>1, <2>2
<1>8. Cardinality(new) = Cardinality(old) + (IF e.kind = kind THEN 1 ELSE 0)
  <2>1. CASE e.kind = kind
    BY <1>5, <1>7, <2>1, FS_AddElement
  <2>2. CASE e.kind # kind
    <3>1. Cardinality(old) \in Nat
      BY <1>5, FS_CardinalityType
    <3>2. new = old
      BY <1>7, <2>2
    <3>. HIDE DEF new, old
    <3>. QED BY <2>2, <3>1, <3>2
  <2>. QED BY <2>1, <2>2
<1>9. CountTo(g, kind, Len(h) + 1) = CountTo(h, kind, Len(h)) + (IF e.kind = kind THEN 1 ELSE 0)
  BY <1>8 DEF CountTo
<1>10. CountTo(h, kind, Len(h)) \in Nat
  BY <1>2, CountType
<1>. QED BY <1>1, <1>4, <1>9, <1>10

\* The data of a history are numbered as they were read.
Numbered(h) ==
  \A i \in DOMAIN h : IsData(h[i]) => h[i].n = CountTo(h, "data", i)
Total(h) == CountTo(h, "data", Len(h))

LEMMA NumberedAppend ==
  ASSUME NEW h \in Seq(Events), NEW e \in Events, Numbered(h),
         e.kind = "data" => e.n = Total(h) + 1
  PROVE  /\ Numbered(Append(h, e)) /\ Total(h) \in Nat
         /\ Total(Append(h, e)) = Total(h) + (IF e.kind = "data" THEN 1 ELSE 0)
<1>1. PICK g \in Seq(Events) : g = Append(h, e)
  BY HistoryAppend
<1>2. /\ Len(h) \in Nat /\ Len(g) = Len(h) + 1 /\ DOMAIN g = 1..(Len(h) + 1)
      /\ DOMAIN h = 1..Len(h)
      /\ \A i \in 1..Len(h) : g[i] = h[i]
      /\ g[Len(h) + 1] = e
  BY <1>1, HistoryAppend
<1>3. /\ \A i \in 0..Len(h) : CountTo(g, "data", i) = CountTo(h, "data", i)
      /\ CountTo(g, "data", Len(h) + 1) = Total(h) + (IF e.kind = "data" THEN 1 ELSE 0)
      /\ Total(h) \in Nat
  <2>1. /\ \A i \in 0..Len(h) : CountTo(Append(h, e), "data", i) = CountTo(h, "data", i)
        /\ CountTo(Append(h, e), "data", Len(h) + 1) =
             CountTo(h, "data", Len(h)) + (IF e.kind = "data" THEN 1 ELSE 0)
        /\ CountTo(h, "data", Len(h)) \in Nat
    BY CountAppend, Zenon
  <2>. QED BY ONLY <1>1, <2>1, Zenon DEF Total
<1>4. ASSUME NEW i \in DOMAIN g, IsData(g[i]) PROVE g[i].n = CountTo(g, "data", i)
  <2>1. CASE i = Len(h) + 1
    BY <1>2, <1>3, <1>4, <2>1 DEF IsData
  <2>2. CASE i # Len(h) + 1
    <3>1. i \in 1..Len(h) /\ i \in 0..Len(h)
      BY <1>2, <2>2
    <3>2. g[i] = h[i] /\ CountTo(g, "data", i) = CountTo(h, "data", i)
      BY <1>2, <1>3, <3>1
    <3>3. h[i].n = CountTo(h, "data", i)
      BY <1>2, <1>4, <3>1, <3>2 DEF Numbered
    <3>. QED BY <3>2, <3>3
  <2>. QED BY <2>1, <2>2
<1>5. Total(g) = Total(h) + (IF e.kind = "data" THEN 1 ELSE 0)
  BY <1>2, <1>3 DEF Total
<1>. QED BY <1>1, <1>3, <1>4, <1>5 DEF Numbered

\* An event and the checkpoint behind it.
LEMMA NumberedExtends ==
  ASSUME TypeInv, NEW e \in Events, NEW flush \in BOOLEAN, Extends(e, flush),
         Numbered(History), e.kind = "data" => e.n = Total(History) + 1
  PROVE  /\ Numbered(History') /\ Total(History) \in Nat
         /\ Total(History') = Total(History) + (IF e.kind = "data" THEN 1 ELSE 0)
<1>1. PICK h \in Seq(Events) : h = History
  BY HistoryType
<1>2. PICK g \in Seq(Events) : g = Append(h, e)
  BY <1>1, HistoryAppend
<1>3. /\ Numbered(g) /\ Total(h) \in Nat
      /\ Total(g) = Total(h) + (IF e.kind = "data" THEN 1 ELSE 0)
  BY <1>1, <1>2, NumberedAppend
<1>4. Numbered(Append(g, Checkpoint)) /\ Total(Append(g, Checkpoint)) = Total(g)
  <2>1. Checkpoint \in Events /\ Checkpoint.kind = "checkpoint"
    BY EventKinds
  <2>2. /\ Numbered(Append(g, Checkpoint)) /\ Total(g) \in Nat
        /\ Total(Append(g, Checkpoint)) = Total(g) + 0
    BY <1>3, <2>1, NumberedAppend
  <2>3. PICK t : t = Total(g)
    OBVIOUS
  <2>. QED BY <2>2
<1>5. \/ History' = g
      \/ History' = Append(g, Checkpoint)
  BY <1>1, <1>2 DEF Extends
<1>. QED BY <1>1, <1>3, <1>4, <1>5

LEMMA NumberedEnd ==
  ASSUME TypeInv, EndStep, Numbered(History)
  PROVE  Numbered(History') /\ Total(History') = Total(History)
<1>1. PICK h \in Seq(Events) : h = History
  BY HistoryType
<1>2. /\ Checkpoint \in Events /\ Checkpoint.kind = "checkpoint"
      /\ Exited \in Events /\ Exited.kind = "exited"
  BY EventKinds
<1>3. ASSUME NEW s \in Seq(Events), NEW x \in {Checkpoint, Exited}, Numbered(s)
      PROVE  Append(s, x) \in Seq(Events) /\ Numbered(Append(s, x)) /\ Total(Append(s, x)) = Total(s)
  <2>1. x \in Events /\ x.kind # "data"
    BY <1>2
  <2>2. Numbered(Append(s, x)) /\ Total(s) \in Nat /\ Total(Append(s, x)) = Total(s) + 0
    BY <1>3, <2>1, NumberedAppend
  <2>. QED BY <2>1, <2>2, HistoryAppend
<1>4. \/ History' = Append(h, Exited)
      \/ History' = Append(Append(h, Checkpoint), Exited)
  BY <1>1 DEF EndStep
<1>5. CASE History' = Append(h, Exited)
  BY <1>1, <1>3, <1>5
<1>6. CASE History' = Append(Append(h, Checkpoint), Exited)
  <2>1. PICK g : g = Append(h, Checkpoint)
    OBVIOUS
  <2>2. g \in Seq(Events) /\ Numbered(g) /\ Total(g) = Total(h)
    BY <1>1, <1>3, <2>1
  <2>3. Numbered(Append(g, Exited)) /\ Total(Append(g, Exited)) = Total(g)
    BY <1>3, <2>2
  <2>. QED BY <1>1, <1>6, <2>1, <2>2, <2>3
<1>. QED BY <1>4, <1>5, <1>6

\* The chunks that follow t chunks, up to the last one let through.
Follow(q, t, last) ==
  /\ \A k \in DOMAIN q : q[k].n = t + k
  /\ t + Len(q) = last

LEMMA FollowAppend ==
  ASSUME NEW q \in Seq(Chunks), NEW t \in Nat, NEW last \in Int, NEW c \in Chunks,
         Follow(q, t, last), c.n = last + 1
  PROVE  Follow(Append(q, c), t, last + 1)
<1>1. PICK p \in Seq(Chunks) : p = Append(q, c)
  BY AppendFacts
<1>2. /\ Len(q) \in Nat /\ Len(p) = Len(q) + 1 /\ DOMAIN p = 1..(Len(q) + 1)
      /\ DOMAIN q = 1..Len(q)
      /\ \A i \in 1..Len(q) : p[i] = q[i]
      /\ p[Len(q) + 1] = c
  BY <1>1, AppendFacts, SeqFacts
<1>3. ASSUME NEW k \in DOMAIN p PROVE p[k].n = t + k
  <2>1. CASE k = Len(q) + 1
    BY <1>2, <2>1 DEF Follow
  <2>2. CASE k \in 1..Len(q)
    BY <1>2, <2>2 DEF Follow
  <2>. QED BY <1>2, <2>1, <2>2
<1>4. t + Len(p) = last + 1
  BY <1>2 DEF Follow
<1>. QED BY <1>1, <1>3, <1>4 DEF Follow

LEMMA FollowTail ==
  ASSUME NEW q \in Seq(Chunks), NEW t \in Nat, NEW last \in Int, q # <<>>, Follow(q, t, last)
  PROVE  /\ Head(q) \in Chunks /\ Head(q).n = t + 1
         /\ Follow(Tail(q), t + 1, last)
<1>1. PICK p \in Seq(Chunks) : p = Tail(q)
  BY SeqFacts
<1>2. /\ Len(q) \in Nat /\ Len(q) # 0 /\ DOMAIN q = 1..Len(q) /\ 1 \in DOMAIN q
      /\ Head(q) = q[1] /\ Head(q) \in Chunks
      /\ Len(p) = Len(q) - 1 /\ DOMAIN p = 1..(Len(q) - 1)
      /\ \A i \in 1..(Len(q) - 1) : p[i] = q[i + 1]
  BY <1>1, SeqFacts, TailFacts
<1>3. Head(q).n = t + 1
  BY <1>2 DEF Follow
<1>4. ASSUME NEW k \in DOMAIN p PROVE p[k].n = (t + 1) + k
  <2>1. k \in 1..(Len(q) - 1) /\ k + 1 \in DOMAIN q
    BY <1>2
  <2>2. p[k] = q[k + 1] /\ q[k + 1].n = t + (k + 1)
    BY <1>2, <2>1 DEF Follow
  <2>. QED BY <2>1, <2>2
<1>5. (t + 1) + Len(p) = last
  BY <1>2 DEF Follow
<1>. QED BY <1>1, <1>2, <1>3, <1>4, <1>5 DEF Follow

Lossless == Numbered(History) /\ Follow(Behind, Total(History), LetThrough)

LEMMA LosslessMeans ==
  NothingLost <=> (hpc # "failed" => Lossless)
BY DEF NothingLost, Lossless, Numbered, Follow, Total, ChunksQueued

LEMMA NothingLostStep ==
  TypeInv /\ HandoffInv /\ NothingLost /\ [Next]_vars => NothingLost'
<1>1. ASSUME TypeInv, HandoffInv, NothingLost, Next, hpc' # "failed" PROVE Lossless'
  <2>. USE <1>1
  <2>0. hpc # "failed" /\ TypeInv'
    BY FailedStays, TypeInvStep
  <2>1. Numbered(History) /\ Follow(Behind, Total(History), LetThrough)
    BY <2>0, LosslessMeans DEF Lossless
  <2>2. /\ Behind \in Seq(Chunks) /\ LetThrough \in Int /\ Total(History) \in Nat
    <3>1. Total(History) \in Nat
      BY HistoryType, CountType DEF Total
    <3>. QED BY <3>1, BehindFacts
  <2>3. CASE Keeps /\ History' = History
    BY <2>1, <2>3 DEF Lossless, Keeps
  <2>4. CASE Keeps /\ EndStep
    BY <2>1, <2>4, NumberedEnd DEF Lossless, Keeps
  <2>5. CASE Keeps /\ \E e \in Events, flush \in BOOLEAN : e.kind # "data" /\ Extends(e, flush)
    <3>1. PICK e \in Events, flush \in BOOLEAN : e.kind # "data" /\ Extends(e, flush)
      BY <2>5
    <3>2. Numbered(History') /\ Total(History') = Total(History) + 0
      BY <2>1, <3>1, NumberedExtends
    <3>3. Total(History') = Total(History)
      BY <2>2, <3>2
    <3>. QED BY <2>1, <2>5, <3>2, <3>3 DEF Lossless, Keeps
  <2>6. CASE Enters /\ History' = History
    BY <2>1, <2>2, <2>6, FollowAppend DEF Lossless, Enters
  <2>7. CASE \E c \in Chunks, flush \in BOOLEAN : Leaves(c) /\ Extends(Event("data", c), flush)
    <3>1. PICK c \in Chunks, flush \in BOOLEAN : Leaves(c) /\ Extends(Event("data", c), flush)
      BY <2>7
    <3>2. /\ c.n = Total(History) + 1 /\ Behind' = Tail(Behind) /\ LetThrough' = LetThrough
          /\ Follow(Tail(Behind), Total(History) + 1, LetThrough)
      BY <2>1, <2>2, <3>1, FollowTail DEF Leaves
    <3>3. /\ Event("data", c) \in Events /\ Event("data", c).kind = "data"
          /\ Event("data", c).n = c.n
      BY DataEvent DEF Event
    <3>4. Numbered(History') /\ Total(History') = Total(History) + 1
      BY <2>1, <3>1, <3>2, <3>3, NumberedExtends
    <3>. QED BY <3>2, <3>4 DEF Lossless
  <2>8. /\ Heartbeat \in Events /\ Heartbeat.kind # "data"
        /\ \A s \in Nat : Resized(s) \in Events /\ Resized(s).kind # "data"
        /\ size + 1 \in Nat
    BY OtherEvents, HandoffVarsTypes DEF Heartbeat, Resized, Event
  <2>9. CASE Keeps /\ \E flush \in BOOLEAN : Extends(Heartbeat, flush)
    BY <2>5, <2>8, <2>9
  <2>10. CASE Keeps /\ Extends(Resized(size + 1), TRUE)
    BY <2>5, <2>8, <2>10
  <2>. QED BY <2>0, <2>3, <2>4, <2>6, <2>7, <2>9, <2>10, HandoffHistory
<1>2. ASSUME NothingLost, UNCHANGED vars PROVE NothingLost'
  BY <1>2 DEF NothingLost, History, Behind, Returned, InHands, ChunksQueued, CountTo, LetThrough,
    vars, threadVars, handoffVars, loopVars, outputVars
<1>3. ASSUME hpc' # "failed" => Lossless' PROVE NothingLost'
  BY <1>3 DEF NothingLost, Lossless, Numbered, Follow, Total, ChunksQueued
<1>. QED BY <1>1, <1>2, <1>3

LEMMA StartState ==
  ASSUME Init
  PROVE  History = <<Started>> /\ Behind = <<>> /\ LetThrough = 0
<1>1. History = (<<>> \o <<Started>>) \o <<>>
  BY DEF Init, History
<1>2. <<Started>> \in Seq(Events) /\ <<>> \in Seq(Chunks)
  BY EventKinds
<1>3. History = <<Started>>
  BY <1>1, <1>2
<1>4. Behind = (<<>> \o <<>>) \o <<>>
  BY DEF Init, Behind, Returned, InHands
<1>5. Behind = <<>>
  BY <1>4, EmptyConcat
<1>6. LetThrough = 0
  <2>1. tpc = "reading" /\ chunksRead = 0
    BY DEF Init
  <2>2. ~(tpc \in {"entering", "parked"} \/ (tpc = "ended" /\ held # NoChunk))
    BY <2>1
  <2>3. LetThrough = chunksRead - 0
    BY <2>2, Zenon DEF LetThrough
  <2>. QED BY <2>1, <2>3
<1>. QED BY <1>3, <1>5, <1>6

LEMMA NothingLostInit == Init => NothingLost
<1>. SUFFICES ASSUME Init PROVE Lossless
  BY LosslessMeans
<1>1. History = <<Started>> /\ Behind = <<>> /\ LetThrough = 0
  BY StartState
<1>2. Len(<<Started>>) = 1 /\ DOMAIN <<Started>> = {1} /\ <<Started>>[1].kind # "data"
  BY EventKinds
<1>3. Total(<<Started>>) = 0
  <2>1. {j \in 1..1 : <<Started>>[j].kind = "data"} = {}
    BY <1>2
  <2>. QED BY <1>2, <2>1, FS_EmptySet DEF Total, CountTo
<1>4. Numbered(<<Started>>)
  BY <1>2 DEF Numbered, IsData
<1>. QED BY <1>1, <1>3, <1>4 DEF Lossless, Follow

\* Every chunk the thread started to send is queued once, in reading order: NothingLost.
THEOREM OutputLossless == Spec => []NothingLost
<1>1. Init => HandoffInv /\ NothingLost
  BY HandoffInvInit, NothingLostInit
<1>2. TypeInv /\ HandoffInv /\ NothingLost /\ [Next]_vars => HandoffInv' /\ NothingLost'
  BY HandoffInvStep, NothingLostStep
<1>. QED BY <1>1, <1>2, HostTypes, PTL DEF Spec

-----------------------------------------------------------------------------
(* What `exited` says of the output.                                       *)

HasExited == Exited \in {History[i] : i \in DOMAIN History}

LEMMA NoExitBeforeEnd ==
  ASSUME LifecycleInv, HasExited
  PROVE  Late
BY DEF LifecycleInv, EndsOnce, HasExited, Late

\* Only the end of the loop queues `exited`.
LEMMA ExitedNew ==
  ASSUME TypeInv, Next, ~HasExited, HasExited'
  PROVE  LeaveLoop
<1>. SUFFICES ASSUME ~LeaveLoop PROVE FALSE
  OBVIOUS
<1>1. HistoryStep
  BY HistorySteps
<1>2. \A h, e : h \in Seq(Events) /\ e \in Events /\ Endless(h) /\ e # Exited =>
        Append(h, e) \in Seq(Events) /\ Endless(Append(h, e))
  BY HistoryAppend, EndlessAppend
<1>3. PICK h \in Seq(Events) : h = History
  BY HistoryType
<1>4. Endless(h)
  BY <1>3 DEF HasExited, Endless
<1>5. ~Endless(History')
  BY DEF HasExited, Endless
<1>6. PICK e \in Events, flush \in BOOLEAN :
        e.kind \in {"data", "heartbeat", "resize"} /\ Extends(e, flush)
  BY <1>1, <1>3, <1>4, <1>5 DEF HistoryStep
<1>7. e # Exited /\ Checkpoint # Exited /\ Checkpoint \in Events
  BY <1>6, EventKinds
<1>8. Endless(Append(h, e)) /\ Append(h, e) \in Seq(Events)
  BY <1>2, <1>4, <1>7
<1>9. Endless(Append(Append(h, e), Checkpoint))
  BY <1>2, <1>7, <1>8
<1>. QED BY <1>3, <1>5, <1>6, <1>8, <1>9 DEF Extends

\* The thread that has ended reads no more.
LEMMA EndedStays ==
  ASSUME TypeInv, Next, tpc = "ended"
  PROVE  tpc' = "ended" /\ chunksRead' = chunksRead
<1>1. CASE Thread
  BY <1>1 DEF Thread, ReadChunk, ReadEnd, EnterSend, BlockingSend, AfterSend
<1>2. CASE IdleCutoff \/ MaxCutoff
  BY <1>2, CutoffBegins DEF Unparked
<1>3. CASE ApplyResize
  BY <1>3 DEF ApplyResize, Unparked
<1>4. CASE UNCHANGED threadVars
  BY <1>4 DEF threadVars
<1>5. CASE UNCHANGED handoffState
  BY <1>5 DEF handoffState, threadVars
<1>. QED BY <1>1, <1>2, <1>3, <1>4, <1>5, HandoffMoves DEF StartDurable, RecvChunk, RecvEnd,
  BeginResize, ChildExits, Interrupt, PauseEnable, PauseCheck, PauseNotified, PauseRecv,
  PauseDrain, CloseChannel, CutoffRecv, CutoffDone, LeaveLoop, DropCommands, Join,
  TaskStopped, HostFails, Fail

\* What was said of the output stands.
LEMMA TruncationStays ==
  ASSUME TypeInv, Next, Late
  PROVE  truncated' = truncated
<1>1. ~CutoffDone
  BY DEF CutoffDone, Late, Leaving
<1>2. CASE Thread
  BY <1>2 DEF Thread, ReadChunk, ReadEnd, EnterSend, BlockingSend, AfterSend, loopVars
<1>3. CASE UNCHANGED handoffState
  BY <1>3 DEF handoffState
<1>. QED BY <1>1, <1>2, <1>3, HandoffMoves, CutoffBegins DEF StartDurable, RecvChunk, RecvEnd,
  BeginResize, ChildExits, Interrupt, PauseEnable, PauseCheck, PauseNotified, PauseRecv,
  PauseDrain, ApplyResize, CloseChannel, CutoffRecv, LeaveLoop, DropCommands, Join,
  TaskStopped, HostFails, Fail, loopVars

LEMMA LateHistory ==
  ASSUME TypeInv, Next, Late
  PROVE  History' = History
BY HistorySteps, Stages DEF HistoryStep

LEMMA TruncationStep ==
  ASSUME TypeInv, LifecycleInv, HandoffInv, NothingLost, TruncationHonest, Next
  PROVE  TruncationHonest'
<1>. SUFFICES ASSUME HasExited', ~truncated'
              PROVE  Total(History') = chunksRead' /\ tpc' = "ended"
  BY DEF TruncationHonest, HasExited, Total, ChunksQueued
<1>1. CASE HasExited
  <2>1. Late
    BY <1>1, NoExitBeforeEnd
  <2>2. History' = History /\ ~truncated
    BY <2>1, LateHistory, TruncationStays
  <2>3. Total(History) = chunksRead /\ tpc = "ended"
    BY <1>1, <2>2 DEF TruncationHonest, HasExited, Total, ChunksQueued
  <2>. QED BY <2>2, <2>3, EndedStays
<1>2. CASE ~HasExited
  <2>1. LeaveLoop
    BY <1>2, ExitedNew
  <2>2. /\ hpc = "select" /\ ~outputOpen /\ ~truncated
        /\ tpc' = tpc /\ chunksRead' = chunksRead
    BY <2>1 DEF LeaveLoop, threadVars
  <2>3. ~closing /\ sendOk /\ tpc = "ended" /\ held = NoChunk /\ rx = <<>>
    BY <2>2, HandoffVarsTypes DEF HandoffInv, CutoffOK, Cutting
  <2>4. Returned = <<>> /\ InHands = <<>> /\ LetThrough = chunksRead - 0
    BY <2>2, <2>3, Zenon DEF Returned, InHands, LetThrough
  <2>5. Behind = <<>>
    <3>1. Behind = rx \o InHands
      BY <2>4, BehindFacts
    <3>. QED BY <2>3, <2>4, <3>1, BehindFacts, EmptyConcat
  <2>6. /\ Numbered(History) /\ Total(History) + Len(<<>>) = LetThrough
        /\ Total(History) \in Nat
    <3>1. Lossless
      BY <2>2, LosslessMeans
    <3>2. Total(History) \in Nat
      BY HistoryType, CountType DEF Total
    <3>. QED BY <2>5, <3>1, <3>2 DEF Lossless, Follow
  <2>7. Total(History') = Total(History)
    BY <2>1, <2>6, NumberedEnd, HistorySteps
  <2>8. chunksRead \in Nat
    BY BehindFacts
  <2>. QED BY <2>2, <2>3, <2>4, <2>6, <2>7, <2>8
<1>. QED BY <1>1, <1>2

\* `exited` without truncation ends a history with all the output that was read:
\* TruncationHonest.
THEOREM ExitHonest == Spec => []TruncationHonest
<1>1. Init => TruncationHonest
  <2>. SUFFICES ASSUME Init PROVE ~HasExited
    BY DEF TruncationHonest, HasExited
  <2>1. LifecycleInv /\ ~Late
    BY LifecycleInvInit DEF Init, Late, Leaving
  <2>. QED BY <2>1, NoExitBeforeEnd
<1>2. TypeInv /\ LifecycleInv /\ HandoffInv /\ NothingLost /\ TruncationHonest /\ [Next]_vars
      => TruncationHonest'
  <2>1. ASSUME TruncationHonest, UNCHANGED vars PROVE TruncationHonest'
    BY <2>1 DEF TruncationHonest, History, ChunksQueued, CountTo, vars, threadVars, loopVars,
      outputVars
  <2>. QED BY <2>1, TruncationStep
<1>3. Init => LifecycleInv /\ HandoffInv /\ NothingLost
  BY LifecycleInvInit, HandoffInvInit, NothingLostInit
<1>4. TypeInv /\ LifecycleInv /\ HandoffInv /\ NothingLost /\ [Next]_vars
      => LifecycleInv' /\ HandoffInv' /\ NothingLost'
  BY LifecycleInvStep, HandoffInvStep, NothingLostStep
<1>. QED BY <1>1, <1>2, <1>3, <1>4, HostTypes, PTL DEF Spec

-----------------------------------------------------------------------------
(* Resizes separate the output.                                            *)

\* A history after s resizes, and whether a chunk of the last size is in it.
Segmented(h, s) ==
  /\ CountTo(h, "resize", Len(h)) = s
  /\ \A i \in DOMAIN h :
       IsData(h[i]) => h[i].gate = CountTo(h, "resize", i) /\ h[i].gate <= s
  /\ \A i, j \in DOMAIN h :
       IsData(h[i]) /\ IsData(h[j]) /\ i < j /\ h[i].gate = h[j].gate => h[j].size = h[j].gate
Begun(h, s) == \E i \in DOMAIN h : IsData(h[i]) /\ h[i].gate = s

LEMMA SegmentedAppend ==
  ASSUME NEW h \in Seq(Events), NEW e \in Events, NEW s \in Nat, Segmented(h, s)
  PROVE  /\ e.kind \notin {"data", "resize"} =>
              Segmented(Append(h, e), s) /\ (Begun(Append(h, e), s) <=> Begun(h, s))
         /\ e.kind = "resize" => Segmented(Append(h, e), s + 1) /\ ~Begun(Append(h, e), s + 1)
         /\ e.kind = "data" /\ e.gate = s /\ (Begun(h, s) => e.size = s) =>
              Segmented(Append(h, e), s) /\ Begun(Append(h, e), s)
<1>1. PICK g \in Seq(Events) : g = Append(h, e)
  BY HistoryAppend
<1>2. /\ Len(h) \in Nat /\ Len(g) = Len(h) + 1 /\ DOMAIN g = 1..(Len(h) + 1)
      /\ DOMAIN h = 1..Len(h)
      /\ \A i \in 1..Len(h) : g[i] = h[i]
      /\ g[Len(h) + 1] = e
  BY <1>1, HistoryAppend
<1>3. /\ \A i \in 0..Len(h) : CountTo(g, "resize", i) = CountTo(h, "resize", i)
      /\ CountTo(g, "resize", Len(h) + 1) = s + (IF e.kind = "resize" THEN 1 ELSE 0)
  BY <1>1, CountAppend DEF Segmented
<1>4. /\ \A i \in 1..Len(h) : IsData(h[i]) =>
           /\ h[i].gate = CountTo(h, "resize", i) /\ h[i].gate <= s /\ h[i].gate \in Nat
      /\ \A i, j \in 1..Len(h) :
           IsData(h[i]) /\ IsData(h[j]) /\ i < j /\ h[i].gate = h[j].gate => h[j].size = h[j].gate
  <2>1. \A i \in 1..Len(h) : h[i].gate \in Nat
    <3>1. \A i \in 1..Len(h) : h[i] \in Events
      BY <1>2, SeqFacts
    <3>2. \A x \in Events : x.gate \in Nat
      BY DEF Events
    <3>. QED BY <3>1, <3>2
  <2>. QED BY <1>2, <2>1 DEF Segmented
<1>5. /\ \A i \in 1..Len(h) : IsData(g[i]) =>
           g[i].gate = CountTo(g, "resize", i) /\ g[i].gate <= s /\ g[i].gate \in Nat
      /\ \A i, j \in 1..Len(h) :
           IsData(g[i]) /\ IsData(g[j]) /\ i < j /\ g[i].gate = g[j].gate => g[j].size = g[j].gate
  <2>1. \A i \in 1..Len(h) : g[i] = h[i] /\ CountTo(g, "resize", i) = CountTo(h, "resize", i)
    BY <1>2, <1>3
  <2>. QED BY <1>4, <2>1
<1>6. \A i \in DOMAIN g : i \in 1..Len(h) \/ i = Len(h) + 1
  BY <1>2
<1>7. Begun(h, s) <=> \E i \in 1..Len(h) : IsData(g[i]) /\ g[i].gate = s
  BY <1>2 DEF Begun
<1>8. CASE e.kind \notin {"data", "resize"}
  <2>1. ~IsData(g[Len(h) + 1])
    BY <1>2, <1>8 DEF IsData
  <2>2. CountTo(g, "resize", Len(g)) = s
    BY <1>2, <1>3, <1>8
  <2>3. Segmented(g, s)
    BY <1>5, <1>6, <2>1, <2>2 DEF Segmented
  <2>4. Begun(g, s) <=> Begun(h, s)
    BY <1>2, <1>6, <1>7, <2>1 DEF Begun
  <2>. QED BY <1>1, <1>8, <2>3, <2>4
<1>9. CASE e.kind = "resize"
  <2>1. ~IsData(g[Len(h) + 1])
    BY <1>2, <1>9 DEF IsData
  <2>2. CountTo(g, "resize", Len(g)) = s + 1
    BY <1>2, <1>3, <1>9
  <2>3. \A i \in 1..Len(h) : IsData(g[i]) => g[i].gate <= s + 1 /\ g[i].gate # s + 1
    BY <1>5
  <2>4. Segmented(g, s + 1)
    BY <1>5, <1>6, <2>1, <2>2, <2>3 DEF Segmented
  <2>5. ~Begun(g, s + 1)
    BY <1>6, <2>1, <2>3 DEF Begun
  <2>. QED BY <1>1, <1>9, <2>4, <2>5
<1>10. CASE e.kind = "data" /\ e.gate = s /\ (Begun(h, s) => e.size = s)
  <2>1. /\ IsData(g[Len(h) + 1]) /\ g[Len(h) + 1].gate = s
        /\ Begun(h, s) => g[Len(h) + 1].size = s
    BY <1>2, <1>10 DEF IsData
  <2>2. CountTo(g, "resize", Len(h) + 1) = s /\ CountTo(g, "resize", Len(g)) = s
    BY <1>2, <1>3, <1>10
  <2>3. \A i \in DOMAIN g :
          IsData(g[i]) => g[i].gate = CountTo(g, "resize", i) /\ g[i].gate <= s
    BY <1>5, <1>6, <2>1, <2>2
  <2>4. ASSUME NEW i \in DOMAIN g, NEW j \in DOMAIN g,
               IsData(g[i]), IsData(g[j]), i < j, g[i].gate = g[j].gate
        PROVE  g[j].size = g[j].gate
    <3>1. CASE j \in 1..Len(h)
      <4>1. i \in 1..Len(h)
        BY <1>2, <2>4, <3>1
      <4>. QED BY <1>5, <2>4, <3>1, <4>1
    <3>2. CASE j = Len(h) + 1
      <4>1. i \in 1..Len(h)
        BY <1>2, <2>4, <3>2
      <4>2. g[j].gate = s /\ g[i].gate = s
        BY <2>1, <2>4, <3>2
      <4>3. Begun(h, s)
        BY <1>7, <2>4, <4>1, <4>2
      <4>. QED BY <2>1, <3>2, <4>2, <4>3
    <3>. QED BY <1>6, <3>1, <3>2
  <2>5. Segmented(g, s)
    BY <2>2, <2>3, <2>4 DEF Segmented
  <2>6. Begun(g, s)
    BY <1>2, <2>1 DEF Begun
  <2>. QED BY <1>1, <1>10, <2>5, <2>6
<1>. QED BY <1>8, <1>9, <1>10

\* The chunks that are not queued yet were let through under the current size, and only
\* the first of its segment may have been read under an earlier one.
Coming(q, begun, s) ==
  \A k \in DOMAIN q : q[k].gate = s /\ (begun \/ k > 1 => q[k].size = s)
\* The chunk that waits to be let through.
Waits(q, begun, s) ==
  tpc \in {"entering", "parked"} /\ (begun \/ q # <<>>) => held.size = s

Resizing ==
  /\ Segmented(History, size)
  /\ Coming(Behind, Begun(History, size), size)
  /\ Waits(Behind, Begun(History, size), size)

LEMMA ResizingMeans == ResizeInv <=> (hpc # "failed" => Resizing)
BY DEF ResizeInv, ResizesOK, QueuedSizesOK, ComingSizesOK, SegmentBegun, Resizing, Segmented,
  Begun, Coming, Waits

\* The chunk at the gate changes hands only there.
LEMMA AtGate ==
  ASSUME TypeInv, TypeInv', HandoffInv, Next, tpc' \in {"entering", "parked"}
  PROVE  \/ ReadChunk /\ held'.size = size
         \/ tpc \in {"entering", "parked"} /\ held'.size = held.size
<1>1. CASE ReadChunk
  BY <1>1 DEF ReadChunk
<1>2. CASE ReadEnd \/ BlockingSend \/ AfterSend
  BY <1>2 DEF ReadEnd, BlockingSend, AfterSend
<1>3. CASE EnterSend
  BY <1>3, HandoffVarsTypes DEF EnterSend, Chunks
<1>4. CASE IdleCutoff \/ MaxCutoff
  BY <1>4, CutoffBegins DEF Unparked
<1>5. CASE ApplyResize
  BY <1>5 DEF ApplyResize, Unparked
<1>6. CASE UNCHANGED threadVars
  BY <1>6 DEF threadVars
<1>7. CASE UNCHANGED handoffState
  BY <1>7 DEF handoffState, threadVars
<1>. QED BY <1>1, <1>2, <1>3, <1>4, <1>5, <1>6, <1>7, HandoffMoves DEF StartDurable, RecvChunk,
  RecvEnd, BeginResize, ChildExits, Interrupt, PauseEnable, PauseCheck, PauseNotified, PauseRecv,
  PauseDrain, CloseChannel, CutoffRecv, CutoffDone, LeaveLoop, DropCommands, Join,
  TaskStopped, HostFails, Fail, Thread

\* An event other than output and resizes, and the checkpoint behind any event.
LEMMA SegmentedExtends ==
  ASSUME TypeInv, NEW e \in Events, NEW flush \in BOOLEAN, Extends(e, flush),
         Segmented(History, size)
  PROVE  /\ e.kind \notin {"data", "resize"} =>
              Segmented(History', size) /\ (Begun(History', size) <=> Begun(History, size))
         /\ e.kind = "resize" => Segmented(History', size + 1) /\ ~Begun(History', size + 1)
         /\ e.kind = "data" /\ e.gate = size /\ (Begun(History, size) => e.size = size) =>
              Segmented(History', size) /\ Begun(History', size)
<1>1. PICK h \in Seq(Events) : h = History
  BY HistoryType
<1>2. PICK g \in Seq(Events) : g = Append(h, e)
  BY HistoryAppend
<1>3. size \in Nat /\ size + 1 \in Nat /\ Checkpoint \in Events /\ Checkpoint.kind = "checkpoint"
  BY HandoffVarsTypes, EventKinds
<1>4. ASSUME NEW s \in Nat, Segmented(g, s)
      PROVE  Segmented(History', s) /\ (Begun(History', s) <=> Begun(g, s))
  <2>1. History' = g \/ History' = Append(g, Checkpoint)
    BY <1>1, <1>2 DEF Extends
  <2>2. /\ Segmented(Append(g, Checkpoint), s)
        /\ Begun(Append(g, Checkpoint), s) <=> Begun(g, s)
    BY <1>3, <1>4, SegmentedAppend
  <2>. QED BY <1>4, <2>1, <2>2
<1>5. CASE e.kind \notin {"data", "resize"}
  <2>1. Segmented(g, size) /\ (Begun(g, size) <=> Begun(h, size))
    BY <1>1, <1>2, <1>3, <1>5, SegmentedAppend
  <2>. QED BY <1>1, <1>3, <1>4, <1>5, <2>1
<1>6. CASE e.kind = "resize"
  <2>1. Segmented(g, size + 1) /\ ~Begun(g, size + 1)
    BY <1>1, <1>2, <1>3, <1>6, SegmentedAppend
  <2>. QED BY <1>3, <1>4, <1>6, <2>1
<1>7. CASE e.kind = "data" /\ e.gate = size /\ (Begun(History, size) => e.size = size)
  <2>1. Segmented(g, size) /\ Begun(g, size)
    BY <1>1, <1>2, <1>3, <1>7, SegmentedAppend
  <2>. QED BY <1>3, <1>4, <1>7, <2>1
<1>. QED BY <1>5, <1>6, <1>7

LEMMA SegmentedEnd ==
  ASSUME TypeInv, EndStep, Segmented(History, size)
  PROVE  Segmented(History', size) /\ (Begun(History', size) <=> Begun(History, size))
<1>1. PICK h \in Seq(Events) : h = History
  BY HistoryType
<1>2. /\ Checkpoint \in Events /\ Checkpoint.kind = "checkpoint"
      /\ Exited \in Events /\ Exited.kind = "exited" /\ size \in Nat
  BY EventKinds, HandoffVarsTypes
<1>3. ASSUME NEW s \in Seq(Events), NEW x \in {Checkpoint, Exited}, Segmented(s, size)
      PROVE  /\ Append(s, x) \in Seq(Events) /\ Segmented(Append(s, x), size)
             /\ Begun(Append(s, x), size) <=> Begun(s, size)
  <2>1. x \in Events /\ x.kind \notin {"data", "resize"}
    BY <1>2
  <2>. QED BY <1>2, <1>3, <2>1, SegmentedAppend, HistoryAppend
<1>4. \/ History' = Append(h, Exited)
      \/ History' = Append(Append(h, Checkpoint), Exited)
  BY <1>1 DEF EndStep
<1>5. CASE History' = Append(h, Exited)
  BY <1>1, <1>3, <1>5
<1>6. CASE History' = Append(Append(h, Checkpoint), Exited)
  <2>1. PICK g : g = Append(h, Checkpoint)
    OBVIOUS
  <2>2. g \in Seq(Events) /\ Segmented(g, size) /\ (Begun(g, size) <=> Begun(h, size))
    BY <1>1, <1>3, <2>1
  <2>3. Segmented(Append(g, Exited), size) /\ (Begun(Append(g, Exited), size) <=> Begun(g, size))
    BY <1>3, <2>2
  <2>. QED BY <1>1, <1>6, <2>1, <2>2, <2>3
<1>. QED BY <1>4, <1>5, <1>6

\* At a resize no chunk is on its way.
LEMMA ResizeEmpty ==
  ASSUME TypeInv, HandoffInv, ApplyResize
  PROVE  Behind = <<>>
<1>1. hpc = "drain" /\ rx = <<>>
  BY DEF ApplyResize
<1>2. ~sending /\ tpc \notin {"sending", "sent"}
  BY <1>1, HandoffVarsTypes DEF HandoffInv, GateOK
<1>3. Returned = <<>> /\ InHands = <<>>
  BY <1>1, <1>2 DEF Returned, InHands
<1>4. Behind = rx \o InHands
  BY <1>3, BehindFacts
<1>. QED BY <1>1, <1>3, <1>4, BehindFacts, EmptyConcat

LEMMA ComingAppend ==
  ASSUME NEW q \in Seq(Chunks), NEW c \in Chunks, NEW begun \in BOOLEAN, NEW s \in Nat,
         Coming(q, begun, s), c.gate = s, begun \/ q # <<>> => c.size = s
  PROVE  Coming(Append(q, c), begun, s) /\ Append(q, c) # <<>>
<1>1. PICK p \in Seq(Chunks) : p = Append(q, c)
  BY AppendFacts
<1>2. /\ Len(q) \in Nat /\ Len(p) = Len(q) + 1 /\ DOMAIN p = 1..(Len(q) + 1)
      /\ DOMAIN q = 1..Len(q) /\ (q = <<>> => Len(q) = 0) /\ (Len(q) = 0 => q = <<>>)
      /\ \A i \in 1..Len(q) : p[i] = q[i]
      /\ p[Len(q) + 1] = c
  BY <1>1, AppendFacts, SeqFacts
<1>3. ASSUME NEW k \in DOMAIN p PROVE p[k].gate = s /\ (begun \/ k > 1 => p[k].size = s)
  <2>1. CASE k = Len(q) + 1
    <3>1. k > 1 => q # <<>>
      BY <1>2, <2>1
    <3>. QED BY <1>2, <2>1, <3>1
  <2>2. CASE k \in 1..Len(q)
    BY <1>2, <2>2 DEF Coming
  <2>. QED BY <1>2, <2>1, <2>2
<1>4. p # <<>>
  BY <1>2
<1>. QED BY <1>1, <1>3, <1>4 DEF Coming

LEMMA ComingTail ==
  ASSUME NEW q \in Seq(Chunks), NEW begun \in BOOLEAN, NEW s \in Nat, q # <<>>,
         Coming(q, begun, s)
  PROVE  /\ Head(q).gate = s /\ (begun => Head(q).size = s)
         /\ Coming(Tail(q), TRUE, s)
<1>1. PICK p \in Seq(Chunks) : p = Tail(q)
  BY SeqFacts
<1>2. /\ Len(q) \in Nat /\ Len(q) # 0 /\ DOMAIN q = 1..Len(q) /\ 1 \in DOMAIN q
      /\ Head(q) = q[1] /\ Len(p) = Len(q) - 1 /\ DOMAIN p = 1..(Len(q) - 1)
      /\ \A i \in 1..(Len(q) - 1) : p[i] = q[i + 1]
  BY <1>1, SeqFacts, TailFacts
<1>3. ASSUME NEW k \in DOMAIN p PROVE p[k].gate = s /\ p[k].size = s
  <2>1. k \in 1..(Len(q) - 1) /\ k + 1 \in DOMAIN q /\ k + 1 > 1
    BY <1>2
  <2>. QED BY <1>2, <2>1 DEF Coming
<1>4. Head(q).gate = s /\ (begun => Head(q).size = s)
  BY <1>2 DEF Coming
<1>. QED BY <1>1, <1>3, <1>4 DEF Coming

LEMMA ResizeStep ==
  TypeInv /\ HandoffInv /\ ResizeInv /\ [Next]_vars => ResizeInv'
<1>1. ASSUME TypeInv, HandoffInv, ResizeInv, Next, hpc' # "failed" PROVE Resizing'
  <2>. USE <1>1
  <2>0. hpc # "failed" /\ TypeInv'
    BY FailedStays, TypeInvStep
  <2>. DEFINE begun == Begun(History, size)
  <2>1. /\ Segmented(History, size) /\ Coming(Behind, begun, size) /\ Waits(Behind, begun, size)
        /\ begun \in BOOLEAN /\ size \in Nat /\ Behind \in Seq(Chunks)
    <3>1. Resizing
      BY <2>0, ResizingMeans
    <3>2. begun \in BOOLEAN
      BY DEF Begun
    <3>. QED BY <3>1, <3>2, BehindFacts, HandoffVarsTypes DEF Resizing
  <2>. HIDE DEF begun
  <2>2. /\ tpc' \in {"entering", "parked"} =>
             \/ ReadChunk /\ held'.size = size
             \/ tpc \in {"entering", "parked"} /\ held'.size = held.size
    BY <2>0, AtGate
  <2>3. ASSUME NEW b \in BOOLEAN, Segmented(History', size), Begun(History', size) <=> b,
               size' = size, Coming(Behind', b, size),
               b \/ Behind' # <<>> => begun \/ Behind # <<>>
        PROVE  Resizing'
    <3>1. tpc' \in {"entering", "parked"} /\ (b \/ Behind' # <<>>) => held'.size = size
      BY <2>1, <2>2, <2>3 DEF Waits
    <3>2. Begun(History', size) = b
      BY <2>3 DEF Begun
    <3>3. Segmented(History', size') /\ Coming(Behind', Begun(History', size'), size')
      BY <2>3, <3>2
    <3>. QED BY <2>3, <3>1, <3>2, <3>3 DEF Resizing, Waits
  <2>4. CASE Keeps /\ size' = size /\ Segmented(History', size) /\ (Begun(History', size) <=> begun)
    BY <2>1, <2>3, <2>4 DEF Keeps
  <2>5. CASE Keeps /\ size' = size /\ History' = History
    BY <2>1, <2>4, <2>5 DEF begun
  <2>6. CASE Keeps /\ size' = size /\ EndStep
    BY <2>1, <2>4, <2>6, SegmentedEnd DEF begun
  <2>7. CASE Keeps /\ size' = size /\ \E flush \in BOOLEAN : Extends(Heartbeat, flush)
    <3>1. Heartbeat \in Events /\ Heartbeat.kind \notin {"data", "resize"}
      BY OtherEvents DEF Heartbeat, Event
    <3>2. PICK flush \in BOOLEAN : Extends(Heartbeat, flush)
      BY <2>7
    <3>3. Segmented(History', size) /\ (Begun(History', size) <=> begun)
      BY <2>1, <3>1, <3>2, SegmentedExtends DEF begun
    <3>. QED BY <2>4, <2>7, <3>3
  <2>8. CASE Keeps /\ ApplyResize /\ size' = size + 1 /\ Extends(Resized(size + 1), TRUE)
    <3>1. Resized(size + 1) \in Events /\ Resized(size + 1).kind = "resize"
      BY <2>1, OtherEvents DEF Resized, Event
    <3>2. Segmented(History', size') /\ ~Begun(History', size')
      BY <2>1, <2>8, <3>1, SegmentedExtends
    <3>3. Behind' = <<>>
      BY <2>8, ResizeEmpty DEF Keeps
    <3>4. Coming(<<>>, Begun(History', size'), size')
      BY DEF Coming
    <3>. QED BY <3>2, <3>3, <3>4 DEF Resizing, Waits
  <2>9. CASE Enters /\ History' = History /\ size' = size
    <3>1. /\ Behind' = Append(Behind, held') /\ held' \in Chunks /\ tpc = "entering"
          /\ held'.gate = size /\ held'.size = held.size /\ EnterSend
      BY <2>9, HandoffVarsTypes DEF Enters, EnterSend, Chunks
    <3>2. begun \/ Behind # <<>> => held'.size = size
      BY <2>1, <3>1 DEF Waits
    <3>3. Coming(Behind', begun, size)
      BY <2>1, <3>1, <3>2, ComingAppend
    <3>4. tpc' = "sending"
      <4>1. LetThrough' # LetThrough
        BY <2>9, BehindFacts DEF Enters
      <4>2. chunksRead' = chunksRead /\ tpc' \in {"ended", "parked", "sending"}
        BY <3>1 DEF EnterSend
      <4>3. held' # NoChunk
        <5>1. held'.n = held.n /\ held.n # 0
          BY <3>1, HandoffVarsTypes DEF EnterSend, Chunks, HandoffInv, GateOK
        <5>2. NoChunk.n = 0
          BY DEF NoChunk
        <5>. QED BY <5>1, <5>2
      <4>. QED BY <3>1, <4>1, <4>2, <4>3 DEF LetThrough
    <3>5. Segmented(History', size') /\ Begun(History', size') = begun
      BY <2>1, <2>9 DEF begun
    <3>. QED BY <2>9, <3>3, <3>4, <3>5 DEF Resizing, Waits
  <2>10. CASE /\ size' = size
              /\ \E c \in Chunks, flush \in BOOLEAN :
                   Leaves(c) /\ Extends(Event("data", c), flush)
    <3>1. PICK c \in Chunks, flush \in BOOLEAN : Leaves(c) /\ Extends(Event("data", c), flush)
      BY <2>10
    <3>2. /\ Behind # <<>> /\ c = Head(Behind) /\ Behind' = Tail(Behind)
      BY <3>1 DEF Leaves
    <3>3. c.gate = size /\ (begun => c.size = size) /\ Coming(Behind', TRUE, size)
      BY <2>1, <3>2, ComingTail
    <3>4. /\ Event("data", c) \in Events /\ Event("data", c).kind = "data"
          /\ Event("data", c).gate = c.gate /\ Event("data", c).size = c.size
      BY DataEvent DEF Event
    <3>5. Segmented(History', size) /\ Begun(History', size)
      BY <2>1, <3>1, <3>3, <3>4, SegmentedExtends DEF begun
    <3>. QED BY <2>3, <2>10, <3>2, <3>3, <3>5
  <2>. QED BY <2>0, <2>5, <2>6, <2>7, <2>8, <2>9, <2>10, HandoffHistory
<1>2. ASSUME ResizeInv, UNCHANGED vars PROVE ResizeInv'
  <2>1. History' = History /\ Behind' = Behind
    BY <1>2 DEF History, Behind, Returned, InHands, vars, threadVars, handoffVars, loopVars,
      outputVars
  <2>2. UNCHANGED <<hpc, size, tpc, held>>
    BY <1>2 DEF vars, threadVars, ptyVars
  <2>. QED BY <1>2, <2>1, <2>2 DEF ResizeInv, ResizesOK, QueuedSizesOK, ComingSizesOK,
    SegmentBegun
<1>3. ASSUME hpc' # "failed" => Resizing' PROVE ResizeInv'
  BY <1>3 DEF ResizeInv, ResizesOK, QueuedSizesOK, ComingSizesOK, SegmentBegun, Resizing,
    Segmented, Begun, Coming, Waits
<1>. QED BY <1>1, <1>2, <1>3

LEMMA ResizeInit == Init => ResizeInv
<1>. SUFFICES ASSUME Init PROVE Resizing
  BY ResizingMeans
<1>1. History = <<Started>> /\ Behind = <<>>
  BY StartState
<1>2. Len(<<Started>>) = 1 /\ DOMAIN <<Started>> = {1} /\ <<Started>>[1].kind = "started"
  BY EventKinds
<1>3. CountTo(<<Started>>, "resize", 1) = 0
  <2>1. {j \in 1..1 : <<Started>>[j].kind = "resize"} = {}
    BY <1>2
  <2>. QED BY <2>1, FS_EmptySet DEF CountTo
<1>4. size = 0 /\ tpc = "reading"
  BY DEF Init
<1>. QED BY <1>1, <1>2, <1>3, <1>4 DEF Resizing, Segmented, Begun, Coming, Waits, IsData

\* Resize events separate the output of different sizes: ResizeBoundary.
THEOREM ResizesSeparate == Spec => []ResizeBoundary
<1>1. TypeInv /\ ResizeInv => ResizeBoundary
  <2>. SUFFICES ASSUME TypeInv, ResizeInv, hpc # "failed"
                PROVE  /\ \A i \in DOMAIN History : IsData(History[i]) =>
                            History[i].gate = CountTo(History, "resize", i)
                       /\ \A i, j \in DOMAIN History :
                            /\ IsData(History[i]) /\ IsData(History[j])
                            /\ CountTo(History, "resize", i) = CountTo(History, "resize", j)
                            /\ History[i].size < CountTo(History, "resize", i)
                            /\ History[j].size < CountTo(History, "resize", j)
                            => i = j
    BY DEF ResizeBoundary
  <2>1. Resizing
    BY ResizingMeans
  <2>2. ASSUME NEW i \in DOMAIN History, NEW j \in DOMAIN History, i < j,
               IsData(History[i]), IsData(History[j]),
               CountTo(History, "resize", i) = CountTo(History, "resize", j)
        PROVE  History[j].size = CountTo(History, "resize", j)
    BY <2>1, <2>2 DEF Resizing, Segmented
  <2>3. \A i \in DOMAIN History : i \in Nat
    BY HistoryType
  <2>4. \A i \in DOMAIN History : CountTo(History, "resize", i) \in Nat
    BY <2>3, CountType
  <2>5. \A i \in DOMAIN History : IsData(History[i]) =>
          History[i].gate = CountTo(History, "resize", i)
    BY <2>1 DEF Resizing, Segmented
  <2>. QED BY <2>2, <2>3, <2>4, <2>5
<1>2. TypeInv /\ HandoffInv /\ ResizeInv /\ [Next]_vars => HandoffInv' /\ ResizeInv'
  BY HandoffInvStep, ResizeStep
<1>3. Init => HandoffInv /\ ResizeInv
  BY HandoffInvInit, ResizeInit
<1>. QED BY <1>1, <1>2, <1>3, HostTypes, PTL DEF Spec

================================================================================
