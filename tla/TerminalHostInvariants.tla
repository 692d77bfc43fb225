------------------------- MODULE TerminalHostInvariants -------------------------
(***************************************************************************)
(* The inductive invariants behind the safety properties of TerminalHost:  *)
(* the input that is under way, the shape of the output history, and the   *)
(* handoff of chunks between the output thread and the host.               *)
(***************************************************************************)
EXTENDS TerminalHost

Pausing == hpc \in {"pause", "check", "wait", "drain"}
Cutting == hpc \in {"close", "cutoff"}
Leaving == hpc \in {"final", "joining", "done"}

-----------------------------------------------------------------------------
(* The input.                                                              *)

\* At most one record is between the forwarder and the PTY.
ForwarderOK ==
  /\ fpc = "next" => ptyInput = <<>> /\ resizes = <<>>
  /\ fpc = "writing" => Len(ptyInput) = 1 /\ resizes = <<>>
  /\ fpc = "resizing" => ptyInput = <<>> /\ Len(resizes) = 1
  /\ fpc = "stopped" => Len(ptyInput) + Len(resizes) <= 1 /\ (resizes # <<>> => exited)
  /\ Pausing => fpc = "resizing"

TypeInv == TypeOK /\ ForwarderOK /\ IsFiniteSet(DOMAIN positions)

\* What took effect, and what is about to.
Taken == applied \o ptyInput \o resizes

\* The position of a writer is the highest sequence number seen of it.
PositionsOK ==
  /\ \A i \in 1..inputPos : /\ Input[i].writer \in DOMAIN positions
                            /\ Input[i].seq <= positions[Input[i].writer]
  /\ \A w \in DOMAIN positions :
       \E i \in 1..inputPos : Input[i].writer = w /\ Input[i].seq = positions[w]

InputInv ==
  /\ PositionsOK
  /\ \A i \in DOMAIN Taken : Taken[i] \in Logical
  /\ \A i, j \in DOMAIN Taken : i < j => Taken[i] < Taken[j]
  /\ fpc # "stopped" => Cardinality(Logical) = Len(Taken)

-----------------------------------------------------------------------------
(* The output history.                                                     *)

BeginsOnce ==
  /\ History # <<>> /\ History[1] = Started
  /\ \A i \in DOMAIN History : History[i] = Started => i = 1

EndsOnce ==
  /\ \A i \in DOMAIN History :
       History[i] = Exited => i = Len(History) /\ (Leaving \/ hpc = "failed")
  /\ Leaving => History[Len(History)] = Exited

\* The tasks end in order, and leave nothing behind.
EndOK ==
  /\ hpc \in {"joining", "done"} => pending = <<>>
  /\ ppc = "done" => /\ commands = <<>> /\ durable = Len(submitted)
                     /\ hpc \in {"joining", "done", "failed"}
  /\ hpc = "done" => ppc = "done"

LifecycleInv == BeginsOnce /\ EndsOnce /\ EndOK

\* What a window of the history has to contain.
Mark(e) == e.kind \in {"checkpoint", "started"}
Windows(events) ==
  \A i \in 1..(Len(events) - Interval) : \E j \in i..(i + Interval) : Mark(events[j])

\* `since` counts the events behind the last checkpoint.
CheckpointInv ==
  Checkpointable =>
    /\ Windows(History)
    /\ ~Leaving /\ hpc # "failed" =>
         since < Len(History) /\ Mark(History[Len(History) - since])

-----------------------------------------------------------------------------
(* The handoff.                                                            *)

\* The thread, and what the mutex guards.
GateOK ==
  /\ sending <=> tpc \in {"sending", "sent"}
  /\ hpc # "failed" => (resizing <=> Pausing)
  /\ hpc # "failed" /\ tpc = "parked" => resizing
  /\ hpc = "drain" => ~sending
  /\ tpc \in {"entering", "parked", "sending", "sent"} =>
       held.n = chunksRead /\ chunksRead > 0
  /\ closeAck # <<>> => closing /\ tpc = "ended" /\ held = NoChunk
  /\ ~rxClosed => sendOk

\* Before, during and after the cutoff.
CutoffOK ==
  hpc # "failed" =>
    /\ closing => exited /\ (waitInFlight <=> sending \/ closeAck # <<>>)
    /\ Cutting => closing
    /\ Pausing => ~exited
    /\ rxClosed <=> hpc = "cutoff" \/ Leaving \/ (closing /\ ~Cutting)
    /\ Leaving => ~outputOpen
    /\ ~closing => /\ sendOk /\ (tpc = "ended" => held = NoChunk)
                   /\ ~outputOpen => tpc = "ended" /\ rx = <<>>
    /\ closing /\ ~Cutting => /\ ~outputOpen /\ truncated /\ rx = <<>>
                              /\ waitInFlight => closeAck # <<>>
    /\ ~sendOk => closing /\ tpc \in {"sent", "ended"}
    /\ closeAck # <<>> => (closeAck[1] = NoChunk <=> sendOk)

HandoffInv == GateOK /\ CutoffOK

-----------------------------------------------------------------------------
(* Resizes.                                                                *)

\* Some chunk of the current size is queued.
SegmentBegun ==
  \E i \in DOMAIN History : IsData(History[i]) /\ History[i].gate = size

ResizesOK ==
  /\ CountTo(History, "resize", Len(History)) = size
  /\ \A i \in DOMAIN History :
       IsData(History[i]) => /\ History[i].gate = CountTo(History, "resize", i)
                             /\ History[i].gate <= size

QueuedSizesOK ==
  \A i, j \in DOMAIN History :
    /\ IsData(History[i]) /\ IsData(History[j]) /\ i < j
    /\ History[i].gate = History[j].gate
    => History[j].size = History[j].gate

\* Behind the queued chunks: at most the first of a segment is late.
ComingSizesOK ==
  /\ \A k \in DOMAIN Behind :
       Behind[k].gate = size /\ (SegmentBegun \/ k > 1 => Behind[k].size = size)
  /\ tpc \in {"entering", "parked"} /\ (SegmentBegun \/ Behind # <<>>) => held.size = size

ResizeInv ==
  hpc # "failed" => ResizesOK /\ QueuedSizesOK /\ ComingSizesOK

=============================================================================
