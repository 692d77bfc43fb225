---------------------------- MODULE TerminalEvents ----------------------------
(***************************************************************************)
(* The terminal events that byte records carry, and their encoding         *)
(* (rust/src/protocol/terminal.rs).  A payload is a sequence of cells, one *)
(* for each field of fixed width and one for each byte of data.            *)
(***************************************************************************)
EXTENDS Naturals, Sequences

CONSTANTS
  MaxColumns, MaxRows, MaxCells,   \* MAX_TERMINAL_COLUMNS, _ROWS, _CELLS
  MaxRecord                        \* MAX_RECORD_PAYLOAD_BYTES

Version == 1
DataType == 1
ResizeType == 2
StartedType == 3
ExitedType == 4
HeartbeatType == 5
CheckpointType == 6

SizeEventLen == 4
ExitedEventLen == 4
MaxState == MaxRecord - SizeEventLen   \* MAX_CHECKPOINT_STATE_BYTES

Invalid == [type |-> "invalid"]        \* TerminalProtocolError

Data(data) == [type |-> "data", data |-> data]
Resize(size) == [type |-> "resize", size |-> size]
Started(size) == [type |-> "started", size |-> size]
Exited(status, truncated) == [type |-> "exited", status |-> status, truncated |-> truncated]
Heartbeat == [type |-> "heartbeat"]
Checkpoint(size, state) == [type |-> "checkpoint", size |-> size, state |-> state]

\* validate_terminal_size, of columns and rows.
SizeValid(size) ==
  size[1] \in 1..MaxColumns /\ size[2] \in 1..MaxRows /\ size[1] * size[2] <= MaxCells

-----------------------------------------------------------------------------
(* Encoding: <<>> is the error.                                            *)

EncodeSize(type, size) == IF SizeValid(size) THEN <<Version, type>> \o size ELSE <<>>

EncodeCheckpoint(size, state) ==
  IF SizeValid(size) /\ Len(state) <= MaxState
  THEN <<Version, CheckpointType>> \o size \o state ELSE <<>>

EncodeInput(event) ==
  IF event.type = "data" THEN <<Version, DataType>> \o event.data
  ELSE EncodeSize(ResizeType, event.size)

EncodeOutput(event) ==
  CASE event.type = "data" -> <<Version, DataType>> \o event.data
    [] event.type = "resize" -> EncodeSize(ResizeType, event.size)
    [] event.type = "started" -> EncodeSize(StartedType, event.size)
    [] event.type = "exited" ->
         <<Version, ExitedType, event.status, IF event.truncated THEN 1 ELSE 0>>
    [] event.type = "heartbeat" -> <<Version, HeartbeatType>>
    [] OTHER -> EncodeCheckpoint(event.size, event.state)

-----------------------------------------------------------------------------
(* Decoding.                                                               *)

Body(payload) == SubSeq(payload, 3, Len(payload))

HasHeader(payload) == Len(payload) >= 2 /\ payload[1] = Version

DecodedSize(payload) == <<payload[3], payload[4]>>
HasSize(payload) == Len(payload) = SizeEventLen /\ SizeValid(DecodedSize(payload))

DecodeInput(payload) ==
  IF ~HasHeader(payload) THEN Invalid
  ELSE CASE payload[2] = DataType -> Data(Body(payload))
         [] payload[2] = ResizeType /\ HasSize(payload) -> Resize(DecodedSize(payload))
         [] OTHER -> Invalid

DecodeOutput(payload) ==
  IF ~HasHeader(payload) THEN Invalid
  ELSE CASE payload[2] = DataType -> Data(Body(payload))
         [] payload[2] = ResizeType /\ HasSize(payload) -> Resize(DecodedSize(payload))
         [] payload[2] = StartedType /\ HasSize(payload) -> Started(DecodedSize(payload))
         [] payload[2] = ExitedType /\ Len(payload) = ExitedEventLen /\ payload[4] \in {0, 1} ->
              Exited(payload[3], payload[4] = 1)
         [] payload[2] = HeartbeatType /\ Len(payload) = 2 -> Heartbeat
         [] payload[2] = CheckpointType /\ Len(payload) >= SizeEventLen
                                        /\ SizeValid(DecodedSize(payload)) ->
              Checkpoint(DecodedSize(payload), SubSeq(payload, SizeEventLen + 1, Len(payload)))
         [] OTHER -> Invalid
=============================================================================
