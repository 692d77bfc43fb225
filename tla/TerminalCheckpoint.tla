--------------------------- MODULE TerminalCheckpoint ---------------------------
(***************************************************************************)
(* The checkpoints of a terminal's output: TerminalCheckpointEmitter       *)
(* (cli/src/terminal/checkpoint.rs) behind PendingTerminalOutput           *)
(* (cli/src/terminal.rs), the events they put into the output channel, and *)
(* an observer that joins at a checkpoint and replays what comes after it. *)
(*                                                                         *)
(* The emitter keeps two programs that restore the terminal: one that it   *)
(* can compute from the screen as long as its vt100 knows all that was     *)
(* shown, and one that repeats the output since that was last so.          *)
(***************************************************************************)
EXTENDS Emulator, TerminalEvents

CONSTANTS
  Sizes,         \* sizes a controller asks for
  InitialSize,
  Reads,         \* what one read of the PTY may bring
  ByteInterval,  \* CHECKPOINT_BYTE_INTERVAL
  Interval,      \* TERMINAL_CHECKPOINT_RECORD_INTERVAL
  MaxEvents      \* bound: ordinary events of a behaviour

ASSUME CheckpointAssumption ==
  /\ ByteInterval \in Nat /\ Interval \in Nat \ {0} /\ MaxEvents \in Nat
  /\ SizeValid(InitialSize) /\ Sizes \subseteq Nat \X Nat

VARIABLES
  emitter,   \* TerminalCheckpointEmitter
  shown,     \* what a viewer sees who has followed the output from `started`
  observer,  \* and one who joined at a checkpoint, or NotJoined
  midway,    \* whose program was computed within an escape sequence
  broken,    \* an event could not be encoded or decoded
  count,     \* ordinary events so far
  ended

vars == <<emitter, shown, observer, midway, broken, count, ended>>

None == <<"none">>         \* a program that is not there
NoRestore == [mode |-> "none"]
NotJoined == [size |-> <<0, 0>>]

-----------------------------------------------------------------------------
(* What can be compacted.                                                  *)

NewEmitter(size) ==
  [vt |-> Fresh(size),
   known |-> TRUE,              \* CheckpointCallbacks.compatible
   compatible |-> TRUE,         \* CheckpointCompatibility.compatible
   passthrough |-> [m \in PassthroughModes |-> "unset"],
   size |-> size, restore |-> <<>>,          \* restore_columns, _rows, _state
   primary |-> NoRestore,                    \* alternate_restore
   within |-> FALSE,            \* auxiliary: `restore` was computed within a sequence
   bytes |-> 0, records |-> 0]

CanCompact(e) == e.known /\ e.compatible
OnAlternate(e) == e.vt.on = "alternate"
Reject(e) == [e EXCEPT !.compatible = FALSE]

EnterSequence(mode) == <<"?", IF mode = "1049" THEN "1049" ELSE "47", "h">>

PassthroughProgram(e) ==
  FoldLeft(LAMBDA program, m :
             IF e.passthrough[m] = "unset" THEN program
             ELSE program \o <<"?", m, e.passthrough[m]>>,
           <<>>, SetToSeq(PassthroughModes))

\* What goes before the program of the active screen.
Beneath(e) ==
  IF OnAlternate(e) THEN e.primary.program \o EnterSequence(e.primary.mode) ELSE <<>>

CompactState(e) ==
  IF ~CanCompact(e) \/ (OnAlternate(e) /\ e.primary = NoRestore) THEN None
  ELSE LET program == Beneath(e) \o Formatted(e.vt) \o PassthroughProgram(e) IN
       IF Len(program) <= MaxState THEN program ELSE None

Rebase(e) ==
  IF CompactState(e) # None THEN 
    [e EXCEPT !.size = e.vt.size, !.restore = CompactState(e), !.within = FALSE]
  ELSE IF CanCompact(e) THEN [e EXCEPT !.restore = None] ELSE e

\* append_restore_data.
Repeat(e, symbol) ==
  IF e.restore = None THEN e
  ELSE IF Len(e.restore) + 1 > MaxState THEN [e EXCEPT !.restore = None]
  ELSE [e EXCEPT !.restore = Append(@, symbol)]

-----------------------------------------------------------------------------
(* Output, symbol by symbol.  The source works on the segments between the *)
(* ends of sequences; nothing looks at the emitter within one.             *)

\* process_segment, with the vt100's callbacks for what it does not know: a command (the
\* title is none of those, and not modelled), a mode, a sequence.
Serializable == VtKnows \cup PassthroughModes \cup {"1047"}
Unhandled(vt, symbol) ==
  \/ symbol = "k"
  \/ vt.seq # <<>> /\ symbol \in {"h", "l"} /\ \E i \in 2..Len(vt.seq) : vt.seq[i] \notin Serializable
  \/ vt.seq # <<>> /\ symbol \notin Modes \cup Escapes \cup {"h", "l", "?"}

Segment(e, symbol) ==
  Repeat([e EXCEPT !.vt = Step(@, symbol, VtKnows),
                   !.known = @ /\ ~Unhandled(e.vt, symbol)], symbol)

Translate(e, mode, final) ==
  IF mode # "1047" THEN e
  ELSE [e EXCEPT !.vt = Run(@, <<"?", "47", final>>, VtKnows), !.known = TRUE]

\* Variant: a screen that cannot be saved does not end compaction.
KeptOnEnter(e, mode) == e

\* The primary screen cannot be saved: compaction is over.
RejectedOnEnter(e, mode) == IF CanCompact(e) /\ ~OnAlternate(e) THEN e ELSE Reject(e)

Enter(e, mode) ==
  LET program == IF CanCompact(e) /\ ~OnAlternate(e) THEN Formatted(e.vt) ELSE None
      t == Translate(Segment(RejectedOnEnter(e, mode), "h"), mode, "h")
      u == IF OnAlternate(t) THEN t ELSE Reject(t)
      saved == IF program # None /\ OnAlternate(u)
               THEN [mode |-> mode, program |-> program, size |-> u.vt.size] ELSE NoRestore
  IN Rebase([u EXCEPT !.primary = saved])

Exit(e, mode) ==
  LET matching == CanCompact(e) /\ OnAlternate(e) /\ e.primary.mode = mode
      t == Translate(Segment(IF matching THEN e ELSE Reject(e), "l"), mode, "l")
  IN Rebase(IF OnAlternate(t) THEN Reject([t EXCEPT !.primary = NoRestore])
            ELSE [t EXCEPT !.primary = NoRestore])

\* CheckpointCompatibility: csi_dispatch and esc_dispatch.
Compatible(e, symbol) ==
  LET modes == Range(Tail(e.vt.seq))
      ends == e.vt.seq # <<>> /\ symbol \in {"h", "l"}
  IN CASE ends ->
            [e EXCEPT !.passthrough = [m \in DOMAIN @ |-> IF m \in modes THEN symbol ELSE @[m]],
                      !.compatible = @ /\ modes # {} /\ modes \cap {"6", "69"} = {}
                                       /\ (modes \cap AlternateModes # {} => Len(e.vt.seq) = 2)]
       [] symbol \in {"7", "8"} -> Reject(e)
       [] symbol = "c" -> [e EXCEPT !.passthrough = [m \in DOMAIN @ |-> "unset"]]
       [] OTHER -> e

Process(e, symbol) ==
  LET c == Compatible(e, symbol)
      mode == Last(e.vt.seq)
  IN IF e.vt.seq # <<>> /\ symbol \in {"h", "l"} /\ mode \in AlternateModes /\ c.compatible
     THEN IF symbol = "h" THEN Enter(c, mode) ELSE Exit(c, mode)
     ELSE Segment(c, symbol)

-----------------------------------------------------------------------------
(* The emitter's operations: what it keeps, and whether it flushes.        *)

ProcessData(e, data) ==
  [FoldLeft(Process, e, data) EXCEPT !.bytes = @ + Len(data), !.records = @ + 1]

Due(e) == e.bytes >= ByteInterval \/ e.records >= Interval

\* AlternateRestore::resize: the saved screen is run, resized and formatted again.
ResizedRestore(e, size) ==
  Formatted(SetSize(Run(Fresh(e.primary.size), e.primary.program, VtKnows), size))

Resized(e, size) ==
  LET resized == ResizedRestore(e, size)
      f == CASE e.vt.size = size -> e
             [] e.vt.size # size /\ OnAlternate(e) /\ CanCompact(e) /\ e.primary # NoRestore ->
                  IF Len(resized) > MaxState THEN Reject([e EXCEPT !.restore = None])
                  ELSE [e EXCEPT !.primary.program = resized, !.primary.size = size]
             [] e.vt.size # size /\ (OnAlternate(e) => ~CanCompact(e) \/ e.primary = NoRestore) ->
                  IF OnAlternate(e) \/ ~CanCompact(e) THEN [e EXCEPT !.restore = None] ELSE e
  IN [f EXCEPT !.vt = SetSize(@, size), !.records = @ + 1]

Flushed(e) ==
  LET f == [e EXCEPT !.bytes = 0, !.records = 0] IN
  IF e.records = 0 \/ ~CanCompact(e) THEN f
  ELSE IF CompactState(e) = None THEN [f EXCEPT !.restore = None]
  ELSE [f EXCEPT !.size = e.vt.size, !.restore = CompactState(e), !.within = e.vt.seq # <<>>]

\* push_checkpoint: behind the event, when there is one.
CheckpointOf(e) ==
  IF e.records = 0 \/ Flushed(e).restore = None THEN <<>>
  ELSE <<Checkpoint(Flushed(e).size, Flushed(e).restore)>>

-----------------------------------------------------------------------------
(* The output channel.                                                     *)

\* What a viewer does with an event; a checkpoint changes nothing for who is there.
View(s, event) ==
  CASE event.type = "data" -> Run(s, event.data, ObserverKnows)
    [] event.type = "resize" -> SetSize(s, event.size)
    [] OTHER -> s

\* A viewer who joins resets its emulator and runs the program.
Restored(event) == Run(Fresh(event.size), event.state, ObserverKnows)

\* At any checkpoint.  A program computed within an escape sequence does not hold how it
\* began, nor does what is repeated behind such a one; nothing tells the observer.
Joins(e, event) == observer' = Restored(event) /\ midway' = Flushed(e).within

\* `flushes`: whether the emitter, now e, is asked for a checkpoint.
Publish(e, event, flushes) ==
  LET checkpoint == IF flushes THEN CheckpointOf(e) ELSE <<>>
      arrived == [i \in 1..(1 + Len(checkpoint)) |->
                    DecodeOutput(EncodeOutput((<<event>> \o checkpoint)[i]))]
      follows == IF observer = NotJoined THEN observer ELSE View(observer, arrived[1])
  IN /\ emitter' = IF flushes THEN Flushed(e) ELSE e
     /\ broken' = (Invalid \in Range(arrived))
     /\ shown' = View(shown, arrived[1])
     /\ \/ observer' = follows /\ UNCHANGED midway
        \/ checkpoint # <<>> /\ ~broken' /\ Joins(e, arrived[2])
     /\ count' = count + 1
     /\ UNCHANGED ended

Init ==
  /\ emitter = NewEmitter(InitialSize)
  /\ shown = Fresh(DecodeOutput(EncodeOutput(Started(InitialSize))).size)
  /\ observer = NotJoined /\ midway = FALSE
  /\ broken = FALSE /\ count = 0 /\ ended = FALSE

Running == ~ended /\ ~broken /\ count < MaxEvents

\* push_pty_data.
PushData(data) ==
  LET e == ProcessData(emitter, data) IN
  /\ Running
  /\ Publish(e, Data(data), Due(e))

\* push_resize, of a size that a controller sent and that could be read.
PushResize(size) ==
  LET input == DecodeInput(EncodeInput(Resize(size))) IN
  /\ Running /\ input # Invalid
  /\ Publish(Resized(emitter, input.size), Resize(input.size), TRUE)

PushHeartbeat ==
  LET e == [emitter EXCEPT !.records = @ + 1] IN
  /\ Running
  /\ Publish(e, Heartbeat, e.records >= Interval)

\* flush_checkpoint, then the end of the lifecycle.
Finish ==
  /\ ~ended /\ ~broken
  /\ LET sent == CheckpointOf(emitter) \o <<Exited(0, FALSE)>>
         arrived == [i \in DOMAIN sent |-> DecodeOutput(EncodeOutput(sent[i]))]
     IN /\ broken' = (Invalid \in Range(arrived))
        /\ \/ UNCHANGED <<observer, midway>>
           \/ Len(sent) = 2 /\ ~broken' /\ Joins(emitter, arrived[1])
  /\ emitter' = Flushed(emitter) /\ ended' = TRUE
  /\ UNCHANGED <<shown, count>>

Next ==
  \/ \E data \in Reads : PushData(data)
  \/ \E size \in Sizes : PushResize(size)
  \/ PushHeartbeat
  \/ Finish

Spec == Init /\ [][Next]_vars

-----------------------------------------------------------------------------

\* "Readers can restore the latest checkpoint and replay later events instead of
\* reconstructing the full output history" (rust/README.md): whoever joins at a checkpoint
\* that was not computed within an escape sequence sees from then on what is seen by who
\* has been there from the beginning: on either screen, through resizes, after leaving
\* the alternate screen, and within a sequence that begins later;
\* and no event, a checkpoint of whatever size the screen makes it included, is refused
\* by the codec (TerminalCheckpointEmitter, encode_terminal_output).
ObserverAgrees ==
  /\ ~broken
  /\ observer # NotJoined /\ ~midway =>
       Visible(observer) = Visible(shown) /\ observer.seq = shown.seq

\* The same sentence, of every checkpoint there is.  It does not hold: `flush` computes one
\* wherever a read of the PTY ends, and its program has forgotten how a sequence began that
\* the next read goes on with; what is left of the sequence is shown as text.
EveryCheckpointRestores == observer # NotJoined => Visible(observer) = Visible(shown)
=============================================================================
