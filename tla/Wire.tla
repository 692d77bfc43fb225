------------------------------ MODULE Wire ------------------------------
(***************************************************************************)
(* What is between the wire and the sessions of the Rust SDK               *)
(* (rust/src/client.rs): the handshake and the frames of a read socket and *)
(* of TsfWriteSession, the low-level write session, and the parser that    *)
(* cuts an event stream, which arrives in chunks of any size, into events. *)
(*                                                                         *)
(* The service and the network are external: a socket brings a message,    *)
(* whole, as it was sent or not; a body brings the next bytes.  The        *)
(* service reads a client's messages with the codec of the SDK.            *)
(***************************************************************************)
EXTENDS Frames, FiniteSets

CONSTANTS
  Transports,    \* a subset of {"read socket", "write session", "event stream"}
  Selected,      \* stream the session is about
  Batches,       \* record sequences a service reads from its log
  Answers,       \* other frames it may send
  Submissions,   \* record sequences an application sends
  Openings,      \* opening frames
  Closes,        \* close codes and reasons
  Alphabet,      \* bytes of an event stream
  MaxEvent,      \* MAX_SSE_EVENT_BYTES
  MaxTail,       \* MAX_SSE_UNTERMINATED_EVENT_BYTES
  CompactAt,     \* offset from which the buffer is compacted
  MaxChunk,      \* bound: bytes of a chunk
  MaxBody        \* bound: bytes of a body

Numbers == 0..U64Max
Headers == 0..(2 * FinalBit - 1)

(* What the service and the application may send is made of numbers of the *)
(* widths of the fields; both limits of an event are 2 MiB.                *)
ASSUME WireAssumption ==
  /\ Headers \subseteq Numbers
  /\ Batches \subseteq Seq([seq : Numbers, ts : Numbers, writer : Numbers, wseq : Numbers,
                            part : Headers, data : Seq(Numbers)])
  /\ \A b \in Batches : \A i \in DOMAIN b : 5 + Len(b[i].data) \in Numbers
  /\ Answers \subseteq [op : {"ready"}, kind : Kinds] \cup [op : {"heartbeat"}]
       \cup [op : {"append_ack"}, ack : Numbers \X Numbers \X Numbers \X Numbers]
       \cup [op : {"caught_up"}, next : Numbers, last : Numbers]
       \cup [op : {"stream_metadata"}, stream : Nat, kind : Kinds]
  /\ Submissions \subseteq Seq([wseq : Numbers, part : Headers, data : Seq(Numbers)])
  /\ Openings \subseteq [op : {"open_read"}, secret : Nat \cup {None}]
       \cup [op : {"open_write"}, writer : Numbers, expected : Nat \cup {None}, secret : Nat]
  /\ MaxEvent \in Nat /\ MaxTail \in 0..MaxEvent /\ CompactAt \in Nat /\ MaxChunk \in Nat

VARIABLES
  transport,
  \* a socket
  phase,         \* "new", "opening", "ready", "open", "closed" or "failed"
  kind,          \* from the Ready frame
  sent,          \* what the peer, or the application, put into the last message
  message,       \* the message
  outcome,       \* what its reader made of it
  \* an event stream
  body,          \* bytes that have arrived
  parser,        \* [buffer, offset, tail]
  events,        \* delivered
  error          \* the last push failed

socketVars == <<phase, kind, sent, message, outcome>>
streamVars == <<body, parser, events, error>>
vars == <<transport, socketVars, streamVars>>

Nothing == [op |-> "nothing"]
NoKind == -1

-----------------------------------------------------------------------------
(* Messages (external): what a frame is encoded to, or anything near it.   *)

\* A service that breaks the contract puts records into a frame unchecked.
RawBatch(records) ==
  <<ReadBatchOp>> \o FlattenSeq([i \in DOMAIN records |-> ReadCells(records[i])])

Contents == {[op |-> "records", records |-> b] : b \in Batches} \cup Answers

MessageOf(content) ==
  IF content.op = "records" THEN RawBatch(content.records) ELSE EncodeServer(content)

\* As it is, cut off, one cell more, one cell another.
Near(m) ==
  {m} \cup {SubSeq(m, 1, n) : n \in 0..(Len(m) - 1)} \cup {Append(m, 0)}
    \cup {[m EXCEPT ![i] = @ + 1] : i \in {i \in DOMAIN m : m[i] # U64Max}}
    \cup {[m EXCEPT ![i] = @ - 1] : i \in {i \in DOMAIN m : m[i] > 0}}

-----------------------------------------------------------------------------
(* Opening a session; frames of a socket.                                  *)

Init ==
  /\ transport \in Transports
  /\ phase = "new" /\ kind = NoKind
  /\ sent = Nothing /\ message = <<>> /\ outcome = Nothing
  /\ body = <<>> /\ parser = [buffer |-> <<>>, offset |-> 0, tail |-> 0]
  /\ events = <<>> /\ error = FALSE

\* A client's message, as the SDK or another client writes it, and its reader.
Deliver(frame, encoded) ==
  \E m \in Near(encoded) :
    /\ sent' = (IF m = encoded THEN frame ELSE Nothing) /\ message' = m
    /\ outcome' = DecodeClient(m)

\* The opening frame goes out first.
Open(frame) ==
  /\ transport # "event stream" /\ phase = "new"
  /\ phase' = IF EncodeClient(frame) = <<>> THEN "failed" ELSE "opening"
  /\ Deliver(frame, EncodeClient(frame))
  /\ UNCHANGED <<transport, kind, streamVars>>

\* expect_ready, expect_read_handshake: Ready, and for a reader metadata of the same
\* kind and of the stream it asked for.
Handshake(frame) ==
  CASE phase = "opening" /\ frame.op = "ready" ->
         /\ kind' = frame.kind
         /\ phase' = IF transport = "read socket" THEN "ready" ELSE "open"
    [] phase = "ready" /\ frame.op = "stream_metadata" ->
         /\ phase' = IF frame.kind = kind /\ frame.stream = Selected THEN "open" ELSE "failed"
         /\ UNCHANGED kind
    [] OTHER -> phase' = "failed" /\ UNCHANGED kind

\* AppendAck::record_count.
AckValid(ack) == ack[2] - ack[1] > 0 /\ ack[2] - ack[1] = ack[4] - ack[3]

\* next_read_socket_frame, recv_ack: a heartbeat is nothing, what is not expected an error.
Expected(frame) ==
  IF transport = "read socket" THEN frame.op \in {"read_batch", "caught_up", "heartbeat"}
  ELSE frame.op = "append_ack" /\ AckValid(frame.ack)

\* A binary message, next_server_frame.
RecvMessage(content, m) ==
  LET frame == DecodeServer(m) IN
  /\ transport # "event stream" /\ phase \in {"opening", "ready", "open"}
  /\ sent' = (IF m = MessageOf(content) THEN content ELSE Nothing) /\ message' = m
  /\ outcome' = frame
  /\ IF phase # "open" THEN Handshake(frame)
     ELSE phase' = (IF Expected(frame) THEN phase ELSE "failed") /\ UNCHANGED kind
  /\ UNCHANGED <<transport, streamVars>>

\* A text message, and a close: normal ends are None, which no handshake accepts.
RecvText ==
  /\ transport # "event stream" /\ phase \in {"opening", "ready", "open"}
  /\ phase' = "failed"
  /\ UNCHANGED <<transport, kind, sent, message, outcome, streamVars>>

NormalClose(close) == close.code \in {None, 1000}

CloseError(close) ==
  IF close.code = 1008 /\ close.reason = "sequence_mismatch" THEN [op |-> "sequence_mismatch"]
  ELSE [op |-> "closed", code |-> close.code]

RecvClose(close) ==
  /\ transport # "event stream" /\ phase \in {"opening", "ready", "open"}
  /\ IF NormalClose(close)
     THEN /\ phase' = IF phase = "open" THEN "closed" ELSE "failed"
          /\ outcome' = Nothing
     ELSE phase' = "failed" /\ outcome' = CloseError(close)
  /\ sent' = Nothing /\ message' = <<>>
  /\ UNCHANGED <<transport, kind, streamVars>>

\* TsfWriteSession::send: what cannot be encoded is not sent, and the session goes on.
Send(records) ==
  /\ transport = "write session" /\ phase = "open"
  /\ Deliver(AppendBatch(records), EncodeAppend(records))
  /\ UNCHANGED <<transport, phase, kind, streamVars>>

-----------------------------------------------------------------------------
(* SseParser.                                                              *)

LF == 10
CR == 13
Colon == 58

From(s, offset) == SubSeq(s, offset + 1, Len(s))

\* Where a terminator ends that begins in `s`: after two LF, or two CR LF.
Terminates(s, at) ==
  /\ s[at] = LF
  /\ \/ at >= 2 /\ s[at - 1] = LF
     \/ at >= 4 /\ s[at - 1] = CR /\ s[at - 2] = LF /\ s[at - 3] = CR

\* sse_boundary: end and length of the first one, or 0.
Boundary(s) ==
  LET ends == {at \in DOMAIN s : Terminates(s, at)} IN
  IF ends = {} THEN [end |-> 0, length |-> 0]
  ELSE [end |-> Min(ends), length |-> IF s[Min(ends) - 1] = LF THEN 2 ELSE 4]

Compact(p) ==
  IF p.offset >= CompactAt /\ p.offset >= Len(p.buffer) \div 2
  THEN [buffer |-> From(p.buffer, p.offset), offset |-> 0, tail |-> p.tail - p.offset]
  ELSE p

\* Variant: two bytes of what was there before are scanned again.
ShortOverlap == 2

\* A terminator of four bytes may begin in three that are there.
Overlap == 3

ScanFrom(p, pushed, tail) ==
  LET before == Len(p.buffer) - pushed - Overlap IN
  IF before > tail THEN before ELSE tail

\* validate_new_bytes: where the unterminated event begins, and whether a limit is passed.
Scan(p, pushed) ==
  LET scan[tail \in 0..Len(p.buffer)] ==
        LET pos == ScanFrom(p, pushed, tail)
            end == pos + Boundary(From(p.buffer, pos)).end
        IN IF end = pos THEN [tail |-> tail, ok |-> Len(p.buffer) - tail <= MaxTail]
           ELSE IF end - tail > MaxEvent THEN [tail |-> tail, ok |-> FALSE]
           ELSE scan[end]
  IN scan[p.tail]

PushChunk(p, chunk) ==
  LET q == Compact(p)
      r == [q EXCEPT !.buffer = @ \o chunk]
  IN [parser |-> [r EXCEPT !.tail = Scan(r, Len(chunk)).tail], ok |-> Scan(r, Len(chunk)).ok]

\* str::lines: a CR belongs to the LF behind it, and to the line when there is none.
LineEnds(block) == {at \in DOMAIN block : block[at] = LF} \cup {Len(block) + 1}
LineStart(block, end) ==
  LET before == {at \in LineEnds(block) : at < end} IN
  IF before = {} THEN 1 ELSE 1 + Max(before)
Line(block, end) ==
  LET cut == IF end <= Len(block) /\ end > LineStart(block, end) /\ block[end - 1] = CR
             THEN end - 2 ELSE end - 1
  IN SubSeq(block, LineStart(block, end), cut)
Lines(block) ==
  LET ends == SetToSortSeq(LineEnds(block), <) IN
  [i \in DOMAIN ends |-> Line(block, ends[i])]

\* parse_sse_block: the data lines; comments, other fields and blocks without data are
\* passed over.  A byte of the alphabet above Colon stands for a field's name and value.
IsData(line) == line # <<>> /\ line[1] > Colon
ParseBlock(block) == SelectSeq(Lines(block), IsData)

\* The event of a block, if it has one.
Delivered(block) == IF ParseBlock(block) = <<>> THEN <<>> ELSE <<ParseBlock(block)>>

\* One round of next_event's loop, which stays within what has been validated.
NextBlock(p) == Boundary(SubSeq(p.buffer, p.offset + 1, p.tail))

Blocks(p) == NextBlock(p).end > 0

\* The body brings a chunk when the parser has no event left; after an error the caller
\* may go on.
Push(chunk) ==
  /\ transport = "event stream" /\ ~Blocks(parser)
  /\ Len(body) + Len(chunk) <= MaxBody
  /\ body' = body \o chunk
  /\ parser' = PushChunk(parser, chunk).parser
  /\ error' = ~PushChunk(parser, chunk).ok
  /\ UNCHANGED <<transport, socketVars, events>>

NextEvent ==
  LET b == NextBlock(parser)
      block == SubSeq(parser.buffer, parser.offset + 1, parser.offset + b.end - b.length)
  IN /\ transport = "event stream" /\ Blocks(parser)
     /\ parser' = [parser EXCEPT !.offset = @ + b.end]
     /\ events' = events \o Delivered(block)
     /\ UNCHANGED <<transport, socketVars, body, error>>

-----------------------------------------------------------------------------

Chunks == UNION {[1..n -> Alphabet] : n \in 1..MaxChunk}

Socket ==
  \/ \E frame \in Openings : Open(frame)
  \/ \E content \in Contents :
       \E m \in Near(MessageOf(content)) : RecvMessage(content, m)
  \/ RecvText \/ \E close \in Closes : RecvClose(close)
  \/ \E records \in Submissions : Send(records)

Next == Socket \/ (\E chunk \in Chunks : Push(chunk)) \/ NextEvent

Spec == Init /\ [][Next]_vars

-----------------------------------------------------------------------------
(* Properties.                                                             *)

\* What docs/protocol.md asks of a batch of records.
ProtocolBatch(records) ==
  /\ BatchValid(records, ReadRecords)
  /\ records[1].seq + Len(records) - 1 <= U64Max
  /\ \A i \in DOMAIN records : records[i].seq = records[1].seq + i - 1

\* A frame that could have been built, and so encoded.
Constructible(frame) ==
  CASE frame.op = "read_batch" -> ProtocolBatch(View(frame.batch))
    [] frame.op = "append_batch" -> AppendValid(frame.records)
    [] frame.op = "open_write" -> frame.expected <= SafeMax
    [] OTHER -> TRUE

Reencoded(frame) ==
  IF frame.op \in {"open_read", "open_write", "append_batch"} THEN EncodeClient(frame)
  ELSE EncodeServer(frame)

JsonOf(records) ==
  LET forms == [i \in DOMAIN records |-> JsonForms(records[i])] IN
  {f \in [DOMAIN records -> UNION Range(forms)] : \A i \in DOMAIN records : f[i] \in forms[i]}

\* What a message is taken for is exactly what it says: a frame comes through encoding
\* and decoding unchanged, batches with every payload from the right place of the shared
\* buffer; a message that is read at all is the encoding of what is read, nothing left
\* over; records outside the limits or with a gap are refused, by the sender of an
\* append before it sends, and on both transports alike (frame.rs, sse_read_batch).
FramesExact ==
  /\ outcome.op \notin {"nothing", "invalid", "sequence_mismatch", "closed"} =>
       Constructible(outcome) /\ Reencoded(outcome) = message
  /\ sent.op = "records" =>
       LET valid == ProtocolBatch(sent.records) IN
       /\ (outcome # Invalid) = valid
       /\ valid => View(outcome.batch) = sent.records
       /\ \A json \in JsonOf(sent.records) :
            /\ (SseReadBatch(json) # Invalid) = valid
            /\ valid => View(SseReadBatch(json).batch) = sent.records
  /\ sent.op = "append_batch" =>
       outcome = IF AppendValid(sent.records) THEN sent ELSE Invalid
  /\ sent.op \notin {"nothing", "records", "append_batch"} /\ outcome # Invalid => outcome = sent

\* The terminators of a body, found without a parser: [from, to] of each event.
Terminated(s) ==
  LET Ends(start) == {at \in (start + 2)..Len(s) :
                        /\ s[at] = LF
                        /\ \/ s[at - 1] = LF
                           \/ at >= start + 4 /\ SubSeq(s, at - 3, at) = <<CR, LF, CR, LF>>}
      rest[start \in 0..Len(s)] ==
        IF Ends(start) = {} THEN << <<start + 1, Len(s)>> >>
        ELSE << <<start + 1, Min(Ends(start))>> >> \o rest[Min(Ends(start))]
  IN rest[0]

\* What the event stream delivers does not depend on how the network cuts it: its events
\* are those of the whole body so far, in order, all of them when the parser is drained
\* and no error is pending, and none from behind an event that is too large; and the
\* body is refused exactly when one is, whether it arrives at once or in pieces
\* (SseParser, which scans each byte once and compacts its buffer in between).
EventsExact ==
  transport = "event stream" =>
  LET parts == Terminated(body)
      Size(i) == parts[i][2] - parts[i][1] + 1
      complete == {i \in DOMAIN parts : i < Len(parts)}
      large == {i \in complete : Size(i) > MaxEvent} \cup
               {i \in {Len(parts)} : Size(i) > MaxTail}
      Block(i) == SubSeq(body, parts[i][1],
                         parts[i][2] - Boundary(SubSeq(body, parts[i][1], parts[i][2])).length)
      fine == {i \in complete : \A j \in large : i < j}
      whole == FlattenSeq([i \in 1..Cardinality(fine) |-> Delivered(Block(i))])
  IN /\ error = (large # {})
     /\ IsPrefix(events, whole)
     /\ ~Blocks(parser) => events = whole

=============================================================================
