------------------------------ MODULE Frames ------------------------------
(***************************************************************************)
(* The binary codec of tsf.v1 (rust/src/protocol/ws/frame.rs) and the JSON *)
(* batch of an event stream (rust/src/client.rs, protocol/rest.rs).        *)
(*                                                                         *)
(* A message is a sequence of cells.  A cell stands for one field of fixed *)
(* width, or for one byte of a payload: what happens within a field is the *)
(* same for all its values, a message that breaks off inside one breaks    *)
(* off before it.  The limits and the width of a number are parameters.    *)
(***************************************************************************)
EXTENDS Integers, Sequences, SequencesExt, Functions

CONSTANTS
  U64Max,        \* u64::MAX
  SafeMax,       \* MAX_SAFE_INTEGER_U64
  FinalBit,      \* PartHeader::FINAL_BIT
  MaxRecord,     \* MAX_RECORD_PAYLOAD_BYTES
  MaxPayload,    \* MAX_FRAME_PAYLOAD_BYTES
  AppendRecords, \* MAX_APPEND_FRAME_RECORDS
  ReadRecords,   \* MAX_READ_FRAME_RECORDS
  Secrets        \* canonical link secrets

ASSUME FramesAssumption ==
  /\ SafeMax \in Nat /\ U64Max \in Nat /\ SafeMax <= U64Max
  /\ FinalBit \in Nat \ {0} /\ MaxRecord \in Nat \ {0} /\ MaxPayload \in Nat
  /\ AppendRecords \in Nat \ {0} /\ ReadRecords \in Nat \ {0}
  /\ Secrets \subseteq Nat

OpenReadOp == 1
OpenWriteOp == 2
AppendBatchOp == 3
ReadyOp == 128
AppendAckOp == 129
ReadBatchOp == 130
HeartbeatOp == 131
CaughtUpOp == 132
StreamMetadataOp == 133

Invalid == [op |-> "invalid"]      \* FrameCodecError
None == -1

-----------------------------------------------------------------------------
(* PartHeader and the split of a logical record.                           *)

MaxIndex == FinalBit - 1
PartRaw(index, final) == IF final THEN FinalBit + index ELSE index
Unsplit == PartRaw(0, TRUE)
PartIndex(raw) == raw % FinalBit
IsFinal(raw) == (raw \div FinalBit) % 2 = 1

\* split_record_payloads, div_ceil and a slice for each part.
PartCount(data) ==
  IF data = <<>> THEN 1 ELSE (Len(data) + MaxRecord - 1) \div MaxRecord

Slice(data, index) ==
  SubSeq(data, index * MaxRecord + 1,
         IF (index + 1) * MaxRecord < Len(data) THEN (index + 1) * MaxRecord ELSE Len(data))

\* A record of more parts than an index has numbers for is refused.
SplitValid(data) == PartCount(data) <= MaxIndex + 1

SplitRecord(data) ==
  IF ~SplitValid(data) THEN <<>>
  ELSE [i \in 1..PartCount(data) |->
          [part |-> PartRaw(i - 1, i = PartCount(data)), data |-> Slice(data, i - 1)]]

-----------------------------------------------------------------------------
(* Bounds.                                                                 *)

RecordLenValid(data) == Len(data) <= MaxRecord

\* The payloads, laid out one behind the other.
Payloads(records) == FlattenSeq([i \in DOMAIN records |-> records[i].data])
PayloadBytes(records) == Len(Payloads(records))

BatchCountValid(records, max) == Len(records) \in 1..max

BatchValid(records, max) ==
  /\ BatchCountValid(records, max)
  /\ \A i \in DOMAIN records : RecordLenValid(records[i].data)
  /\ PayloadBytes(records) <= MaxPayload

\* Variant: a gap in front is not noticed.
OrderedSequence(records) ==
  \A i \in 2..Len(records) : records[i].seq > records[i - 1].seq

\* checked_add: nothing follows the last number.
SequenceContiguous(records) ==
  \A i \in 2..Len(records) :
    records[i - 1].seq # U64Max /\ records[i].seq = records[i - 1].seq + 1

WriterSeqValid(seq) == seq # U64Max

\* AppendBatch::from_records, what a durable writer takes.
SubmissionValid(records) ==
  records # <<>> /\ \A i \in DOMAIN records : RecordLenValid(records[i].data)

AppendValid(records) ==
  /\ BatchValid(records, AppendRecords)
  /\ \A i \in DOMAIN records : WriterSeqValid(records[i].wseq)

ReadValid(records) == BatchValid(records, ReadRecords) /\ SequenceContiguous(records)

-----------------------------------------------------------------------------
(* ReadBatch: metadata over one buffer, whole frame or concatenation.      *)

Meta(r, start) ==
  [seq |-> r.seq, ts |-> r.ts, writer |-> r.writer, wseq |-> r.wseq, part |-> r.part,
   start |-> start, len |-> Len(r.data)]

View(batch) ==
  [i \in DOMAIN batch.records |->
     LET m == batch.records[i] IN
     [seq |-> m.seq, ts |-> m.ts, writer |-> m.writer, wseq |-> m.wseq, part |-> m.part,
      data |-> SubSeq(batch.payload, m.start + 1, m.start + m.len)]]

\* try_from_records.
BatchOf(records) ==
  [payload |-> Payloads(records),
   records |-> [i \in DOMAIN records |->
                  Meta(records[i], PayloadBytes(SubSeq(records, 1, i - 1)))]]

-----------------------------------------------------------------------------
(* ClientFrame::encode.  A frame that cannot be encoded is Invalid, and so *)
(* is its message <<>>.                                                    *)

OpenRead(secret) == [op |-> "open_read", secret |-> secret]
OpenWrite(writer, expected, secret) ==
  [op |-> "open_write", writer |-> writer, expected |-> expected, secret |-> secret]
AppendBatch(records) == [op |-> "append_batch", records |-> records]

AppendCells(r) == <<2 + Len(r.data), r.wseq, r.part>> \o r.data

EncodeAppend(records) ==
  IF ~AppendValid(records) THEN <<>>
  ELSE <<AppendBatchOp>> \o FlattenSeq([i \in DOMAIN records |-> AppendCells(records[i])])

EncodeClient(frame) ==
  CASE frame.op = "open_read" ->
         IF frame.secret = None THEN <<OpenReadOp, 0>> ELSE <<OpenReadOp, 1, frame.secret>>
    [] frame.op = "open_write" ->
         IF frame.expected = None THEN <<OpenWriteOp, 0, frame.writer, frame.secret>>
         ELSE IF frame.expected > SafeMax THEN <<>>
         ELSE <<OpenWriteOp, 1, frame.writer, frame.expected, frame.secret>>
    [] OTHER -> EncodeAppend(frame.records)

-----------------------------------------------------------------------------
(* ServerFrame::encode.  Its batches have been validated before.           *)

Ready(kind) == [op |-> "ready", kind |-> kind]
AppendAck(writerStart, writerEnd, start, end) ==
  [op |-> "append_ack", ack |-> <<writerStart, writerEnd, start, end>>]
ReadBatch(batch) == [op |-> "read_batch", batch |-> batch]
Heartbeat == [op |-> "heartbeat"]
CaughtUp(next, last) == [op |-> "caught_up", next |-> next, last |-> last]
StreamMetadata(stream, kind) == [op |-> "stream_metadata", stream |-> stream, kind |-> kind]

Kinds == 0..2                      \* stream_kind_byte: transcript, bytes, terminal
Json(stream, kind) == 10 * stream + kind
JsonValid(cell) == cell % 10 \in Kinds

ReadCells(r) == <<5 + Len(r.data), r.seq, r.ts, r.writer, r.wseq, r.part>> \o r.data

EncodeServer(frame) ==
  CASE frame.op = "ready" -> <<ReadyOp, frame.kind>>
    [] frame.op = "append_ack" -> <<AppendAckOp>> \o frame.ack
    [] frame.op = "read_batch" ->
         <<ReadBatchOp>> \o FlattenSeq([i \in DOMAIN frame.batch.records |->
                                         ReadCells(View(frame.batch)[i])])
    [] frame.op = "heartbeat" -> <<HeartbeatOp>>
    [] frame.op = "caught_up" -> <<CaughtUpOp, frame.next, frame.last>>
    [] OTHER -> <<StreamMetadataOp, Json(frame.stream, frame.kind)>>

-----------------------------------------------------------------------------
(* Decoding.                                                               *)

\* record_body_ranges: first and last cell of each record body.  A length that is
\* zero or reaches beyond the message ends the walk with an empty body.
Bodies(message) ==
  LET from[at \in 2..(Len(message) + 1)] ==
        IF at > Len(message) THEN <<>>
        ELSE IF message[at] = 0 \/ at + message[at] > Len(message) THEN << <<at, at - 1>> >>
        ELSE << <<at + 1, at + message[at]>> >> \o from[at + message[at] + 1]
  IN from[2]

\* Each body is there and holds its fixed fields; there are not too many.
BodiesValid(bodies, header, max) ==
  /\ BatchCountValid(bodies, max)
  /\ \A i \in DOMAIN bodies : bodies[i][2] - bodies[i][1] + 1 >= header

DecodeAppend(message) ==
  LET bodies == Bodies(message)
      records == [i \in DOMAIN bodies |->
        LET at == bodies[i][1] IN
        [wseq |-> message[at], part |-> message[at + 1],
         data |-> SubSeq(message, at + 2, bodies[i][2])]]
  IN IF BodiesValid(bodies, 2, AppendRecords) /\ AppendValid(records)
     THEN AppendBatch(records) ELSE Invalid

DecodeOpenRead(message) ==
  IF Len(message) = 2 /\ message[2] = 0 THEN OpenRead(None)
  ELSE IF Len(message) = 3 /\ message[2] = 1 /\ message[3] \in Secrets THEN OpenRead(message[3])
  ELSE Invalid

\* The secret is the rest of the message, of a length that is checked with it.
DecodeOpenWrite(message) ==
  IF Len(message) = 4 /\ message[2] = 0 /\ message[4] \in Secrets
  THEN OpenWrite(message[3], None, message[4])
  ELSE IF Len(message) = 5 /\ message[2] = 1 /\ message[4] <= SafeMax /\ message[5] \in Secrets
  THEN OpenWrite(message[3], message[4], message[5])
  ELSE Invalid

DecodeClient(message) ==
  IF message = <<>> THEN Invalid
  ELSE CASE message[1] = OpenReadOp -> DecodeOpenRead(message)
         [] message[1] = OpenWriteOp -> DecodeOpenWrite(message)
         [] message[1] = AppendBatchOp -> DecodeAppend(message)
         [] OTHER -> Invalid

\* The batch keeps the whole message as its buffer.
DecodeReadBatch(message) ==
  LET bodies == Bodies(message)
      DataStart(i) == bodies[i][1] + 4
      Record(i) ==
        LET at == bodies[i][1] IN
        [seq |-> message[at], ts |-> message[at + 1], writer |-> message[at + 2],
         wseq |-> message[at + 3], part |-> message[at + 4],
         data |-> SubSeq(message, DataStart(i) + 1, bodies[i][2])]
      records == [i \in DOMAIN bodies |-> Record(i)]
  IN IF BodiesValid(bodies, 5, ReadRecords) /\ ReadValid(records)
     THEN ReadBatch([payload |-> message,
                     records |-> [i \in DOMAIN bodies |-> Meta(records[i], DataStart(i))]])
     ELSE Invalid

DecodeServer(message) ==
  IF message = <<>> THEN Invalid
  ELSE CASE message[1] = ReadyOp ->
              IF Len(message) = 2 /\ message[2] \in Kinds THEN Ready(message[2]) ELSE Invalid
         [] message[1] = AppendAckOp ->
              IF Len(message) = 5 THEN AppendAck(message[2], message[3], message[4], message[5])
              ELSE Invalid
         [] message[1] = ReadBatchOp -> DecodeReadBatch(message)
         [] message[1] = HeartbeatOp -> IF Len(message) = 1 THEN Heartbeat ELSE Invalid
         [] message[1] = CaughtUpOp ->
              IF Len(message) = 3 THEN CaughtUp(message[2], message[3]) ELSE Invalid
         [] message[1] = StreamMetadataOp ->
              IF Len(message) = 2 /\ JsonValid(message[2])
              THEN StreamMetadata(message[2] \div 10, message[2] % 10) ELSE Invalid
         [] OTHER -> Invalid

-----------------------------------------------------------------------------
(* The records of an event stream are JSON: a part that may be left out,   *)
(* and one of two forms of the payload.                                    *)

Absent == <<-1>>
JsonRecord(r, part, text, bytes) ==
  [seq |-> r.seq, ts |-> r.ts, writer |-> r.writer, wseq |-> r.wseq,
   part |-> part, text |-> text, bytes |-> bytes]

\* What a service may write for a record.
JsonForms(r) ==
  LET part == <<PartIndex(r.part), IsFinal(r.part)>>
      parts == {part} \cup (IF r.part = Unsplit THEN {<<>>} ELSE {})
  IN {JsonRecord(r, p, r.data, Absent) : p \in parts}
       \cup {JsonRecord(r, p, Absent, r.data) : p \in parts}

JsonPayload(j) == IF j.text # Absent THEN j.text ELSE j.bytes

JsonRecordValid(j) ==
  /\ (j.text = Absent) # (j.bytes = Absent)
  /\ j.part # <<>> => j.part[1] <= MaxIndex

JsonPart(part) == IF part = <<>> THEN Unsplit ELSE PartRaw(part[1], part[2])

\* sse_read_batch: payloads are laid out one behind the other; try_from_parts.
SseReadBatch(json) ==
  LET records == [i \in DOMAIN json |->
        [seq |-> json[i].seq, ts |-> json[i].ts, writer |-> json[i].writer,
         wseq |-> json[i].wseq, part |-> JsonPart(json[i].part), data |-> JsonPayload(json[i])]]
  IN IF (\A i \in DOMAIN json : JsonRecordValid(json[i])) /\ ReadValid(records)
     THEN ReadBatch(BatchOf(records)) ELSE Invalid

=============================================================================
