# tailsurf: specifications, model checks and proofs

tailsurf streams a terminal, a pipe or any record sequence to readers over a
hosted append-only stream service. The repository holds the clients: the Rust SDK
(`rust/`), the `tsf` command (`cli/`), the TypeScript SDK (`typescript/`) and the
protocol document (`docs/protocol.md`). The service itself is not in the
repository; wherever it appears below it is *external*, modelled from how the
clients use it and from what `docs/protocol.md` lets them rely on.

This directory holds TLA+ modules for the parts of these clients that are hard to
get right, the TLC configurations that check them on small instances, and TLAPS
proofs of what matters most. `PROJECT.json` ties every definition to the source
lines it models, every property to the run that checks it and to a plausible bug
that breaks it, and every hazard of the code to the properties that would notice.

Contents: [inventory](#1-inventory) · [modules](#2-modules-and-the-code) ·
[runs](#3-runs-what-is-checked-and-the-bounds) · [fairness](#4-fairness) ·
[proofs](#5-what-is-proved) · [findings](#6-findings) ·
[not modelled](#7-what-is-not-modelled) · [left to do](#8-left-to-do)

## 1. Inventory

### How the parts interact

```
 tsf host:  PTY --thread--> host loop --channel--> publisher --+
                  (PtyOutputHandoff)                           |
            PTY <--thread-- input forwarder <--+               v
                                               |      durable writer (run_writer)
 tsf write: stdin / child pipes --> appenders -+------>        |  WebSocket, frames
                                               |               v
                                               |            service (external)
 tsf read, observers: record assembler <-- read session <------+
                                           (WebSocket or SSE, REST for links, stateless appends)
```

A durable writer numbers every physical record and repeats what is not
acknowledged after a reconnect, so a stream may hold copies. Every reader
therefore drops a record whose sequence number is not above the highest one it has
seen of that writer, and the logical record assembler joins what large records
were split into. The terminal host is an application of both: its output is
written by a durable writer and its input is a stream that others write.

### Components

For each: its state, its operations, what is hard about it, and what makes it correct.

**Durable writer** (`rust/src/client.rs`: `TsfProducer`, `TsfWriter`,
`AppendTicket`, `run_writer`). *State:* the shared writer state, read/write lock and
retained error; the command channel; the queue of pending submissions with their
sent and acknowledged markers; the sequence cursor; the in-flight window with its
progress deadline; the reconnect count; the socket. *Operations:* submit (by any
number of producer handles), close, abort/drop; inside the actor: drain commands,
fill frames, flush, process an acknowledgement, reconnect, finish. *Hard:*
producers, controller, actor and a peer interleave; the connection may fail, fall
silent, or deliver a frame after it has been given up; acknowledgements cover parts
of batches and several batches; the actor may be cancelled at any await. *Correct
when:* tickets report only what is durable, at the positions where it is; a reader
that drops copies sees each record once and in order; the window never drifts; the
actor never waits for something that cannot come; every ticket settles; a
successful close means that everything is durable.

**Terminal host** (`cli/src/terminal.rs`). *State:* a native thread with a chunk in
its hands; `PtyOutputHandoff` (mutex with `closing`/`resizing`/`sending`, condition
variable, `Notify`, close channel); the host loop's pending events, exit and cutoff
flags; the publisher task; the input forwarder's positions and channels.
*Operations:* read and send a chunk, queue an event, enqueue a command, pause and
resize, drain after the child's exit, cut the output off, finish; publish, flush;
forward one input record. *Hard:* a blocking thread and an async loop share a lock,
a condition variable and a wakeup; a resize must stop the thread at a chunk boundary;
after the child's exit a descendant may hold the PTY open forever; every task may
fail at any time. *Correct when:* no chunk is lost, duplicated or reordered, a
resize event separates the output of two sizes, a history begins with `started` and
ends with `exited`, truncation is reported, input is applied once and in order, and
the host ends.

**Output channel claim** (`cli/src/terminal.rs` with `rust/src/client.rs`).
*State:* the expected sequence number a writer opens with. *Hard:* it must hold
across a lost connection. *Correct when:* one host's `started` is in the stream.

**Logical record assembler** (`rust/src/logical_records.rs`, and the TypeScript
twin `typescript/packages/protocol/src/logical-records.ts`). *State:* per writer the
highest sequence number seen and a partial record; totals of retained bytes and
parts. *Operations:* push a physical record. *Hard:* a read begins anywhere, also
inside a split record; copies arrive in the middle of parts; a limit may drop a
partial record. *Correct when:* each whole record comes out once, in order, never
made of fragments, and the totals the limits are checked against are exact.

**Read sessions** (`rust/src/client.rs`: `TsfReadSession` over WebSocket,
`TsfSseReadSession`; `reader.ts`, `sse.ts`). *State:* next position, remaining count,
reconnect budget, last event cursor. *Operations:* next batch, reconnect, stop.
*Hard:* resuming without a gap or a repetition, cancellation inside a reconnect, a
catch-up event against a terminal one. *Correct when:* what is delivered over all
connections is one contiguous run from the requested start.

**REST client** (`rust/src/client.rs`). *State:* the call under way with its attempt,
its delay and its idempotency key, the page cursor and what a listing has collected.
*Operations:* create, get, update and delete a stream, create and revoke a link, list
all links, a stateless append. *Hard:* retrying what may already have happened; a
request that was given up and arrives later; pages that change while they are listed.
*Correct when:* nothing happens twice, what a success says is so, a listing is free of
repetitions or fails, and every call returns.

**Wire codec and low-level write session** (`rust/src/protocol/ws/frame.rs`, `ws.rs`,
`rust/src/client.rs`). *State:* where a session is in its handshake; the buffer of the
event stream parser. *Operations:* encode and decode each frame, split a record,
receive and send on a socket, push a chunk of a body. *Hard:* a batch is checked field
by field at its limits, and payloads are offsets; the terminator of an event may be
spread over chunks. *Correct when:* what is accepted is what was sent, what nobody
could have sent is refused, and nothing depends on how a body is cut.

**Terminal checkpoint emitter** (`cli/src/terminal/checkpoint.rs`). *State:* the
screen parser, a compaction for the alternate screen, event and byte counts. *Hard:*
a checkpoint must reproduce the screen after it, also across a resize on the
alternate screen, an unknown sequence, or a program that is too long. *Correct when:*
restoring from a checkpoint and from the beginning show the same screen.

**Start of a terminal** (`cli/src/terminal.rs`, `run`). *State:* whether the start is
confirmed and whether the user has seen the owner link. *Hard:* the stream exists
before the host does, and the confirmation races failures and interrupts. *Correct
when:* no stream stays behind that nobody owns, and none that runs is deleted.

**CLI writers** (`cli/src/main.rs`: `WriterSession`, byte and line appenders, the
child's two pipes, the interrupt). *State:* partial record and its linger deadline,
tickets in a window, interrupt flag. *Hard:* deadline, input and interrupt race.
*Correct when:* bytes are appended once and in order and everything accepted is
awaited before the exit.

**CLI update hint** (`cli/src/main.rs`). *State:* a cache file shared by processes.
*Hard:* read and write are two steps. *Correct when:* at most one check per day.

**TypeScript durable writer and frame socket** (`writer.ts`, `socket.ts`). *State:*
the queue, sent and acknowledged counts, an ambiguity mark; a decode pipeline, a
receive queue, one waiter, a terminal error. *Hard:* asynchronous decoding against
close and overload; which error to report when durability is ambiguous. *Correct
when:* the same promise as the Rust writer holds and frames that arrived before the
end are delivered before it.

Without state across steps: identifiers, links, titles and permissions, the CLI's
argument parsing and printing, build and release.

### What the modules have to say about the hazards

`PROJECT.json` lists them line by line, each with the properties that would notice it
going wrong. Four have none, and each carries the reason in a note. What a ticket says
when `abort` races an acknowledgement, and a late update, are orders for which neither
code nor documentation makes a promise. A writer whose channel never runs empty would need
submissions without end: the limit of a drain is modelled, but the two submissions of a
run end a drain without it. The update hint is not modelled
([section 7](#7-what-is-not-modelled)).

## 2. Modules and the code

| module | what it is | composes |
|---|---|---|
| `ReliableAppend` | abstract: what a durable writer promises | - |
| `DurableWriter` | producers, controller, `run_writer`, network, service | - |
| `DurableWriterRefinement` | the mapping of `DurableWriter` to `ReliableAppend` | both |
| `FaultyService` | `DurableWriter` with a service that also acknowledges out of turn | `DurableWriter` |
| `DurableWriterInvariants` | the inductive invariant | `DurableWriterRefinement` |
| `DurableWriterProofs` | theorems, the refinement among them, and their proofs | `DurableWriterInvariants`, `FaultyService` |
| `TerminalHost` | output thread, hand-off, host loop, publisher, input | uses the writer's promise |
| `TerminalHostInvariants` | its inductive invariants | `TerminalHost` |
| `TerminalHostProofs` | theorems and their proofs | `TerminalHostInvariants` |
| `OutputClaim` | several hosts that claim one output channel | - |
| `LogicalRecords` | the assembler over a stream with copies | uses `NoGap` of the writer |
| `LogicalRecordsProofs` | its inductive invariants, theorems and proofs | `LogicalRecords` |
| `ReadSession` | the two resumable readers of the Rust SDK | - |
| `ReadSessionProofs` | their inductive invariant, theorems and proofs | `ReadSession` |
| `RestClient` | REST calls, retries, link listing; network and service | - |
| `TerminalStart` | `tsf terminal` up to its host, and the clean-up | `RestClient` |
| `RestClientInvariants` | the inductive invariants | `TerminalStart` |
| `RestClientProofs` | theorems and their proofs | `RestClientInvariants` |
| `Frames` | pure: the codec of `tsf.v1`, the split of a record | - |
| `Wire` | handshake, frames of a socket, the event stream parser | `Frames` |
| `WireProofs` | the event stream: its inductive invariant, theorem and proof | `Wire` |
| `FramesProofs` | the frames and the split of a record: theorems and proofs | `WireProofs` |
| `TerminalEvents` | pure: the codec of the terminal events | - |
| `Emulator` | external: an abstract terminal emulator | - |
| `TerminalCheckpoint` | the checkpoint emitter, its events, an observer | `Emulator`, `TerminalEvents` |
| `CliWriter` | `tsf write`: input, records, window, Ctrl-C | uses the writer's promise |
| `CliWriterProofs` | its inductive invariant, theorems and proofs | `CliWriter` |
| `MC*` | instances for TLC | the module they are named after |

Modules meet in their promises. `DurableWriter` shows that its stream has no gap and
that tickets resolve in order; `TerminalHost` uses the latter as its publisher's
writer (`submitted`, `durable`), and `LogicalRecords` uses the former as the stream it
reads: the next record of a writer or a copy of an earlier one. `TerminalStart` runs
`RestClient` as its library, and ends where `TerminalHost` begins.

### DurableWriter

*Data.* A record is its writer sequence number, a payload its size
(`PayloadOffset`), a batch an identity and a length, a frame an interval
`[lo, hi)`, a connection the sequence of frames that are sent and not yet stored.

| variable | code |
|---|---|
| `state`, `terminalError` | `WriterShared.state`, `terminal_error` |
| `cmds`, `rxOpen` | the unbounded command channel and its receiver |
| `ticket` | each `AppendTicket`'s oneshot channel, with the range and the receipts |
| `producer` | whether a `TsfProducer` is between the check and the send under its read lock |
| `controller`, `closeResult` | where `close`/`abort` is and what `close` returned |
| `pc` | where the loop of `run_writer` is: `send` before `send_pending`, `fed` inside it with frames fed and not flushed, `select` at the select, `drain` inside `drain_queued_commands`, `recover` inside `recover_pending_appends`, then `exiting`, `shutdown`, `done` as its guards drop |
| `pending`, `closing`, `nextSeq`, `inFlight`, `attempts` | `pending`, `close_tx`, `WriterCursor`, `InFlightWindow`, `reconnect_attempts` |
| `drained` | what the running drain has taken |
| `wires`, `stored`, `acks`, `silent`, `log` | external: network and service |

| action | code |
|---|---|
| `SubmitCheck`, `SubmitSend` | `TsfProducer::submit`: the state check and the send are two steps |
| `CloseMark`, `CloseSend`, `CloseJoin`, `Abort` | `TsfWriter::close` (write lock, then command, then join) and `abort`, `Drop` or a dropped close future |
| `AdmitSubmission`, `SequenceExhausted`, `AdmitClose`, `DrainEmpty` | `drain_queued_commands` with `WriterCursor::reserve`, one command per step because producers keep sending |
| `FeedFrame`, `SendDone` | `send_pending`, `take_frame`, `buffer_batch`, flush, arming the deadline |
| `RecvAck`, `RecvInvalidAck` | `dispatch_ack`: whole validation first, then receipts, tickets, window |
| `ConnectionFails`, `AckDeadline`, `FatalError` | the three ways the acknowledgement arm or a send ends |
| `ReconnectFails`, `Reconnect` | `recover_pending_appends`: rewind markers, new window, new socket |
| `CloseDone`, `Cancelled`, `CommandsClosed`, `Shutdown`, `DropReceiver` | the exits of `run_writer`, in the order its values drop |
| `StoreRecord`, `SendAck`, `ForeignAppend`, `GoSilent` | external: the service stores a frame record by record, also from abandoned connections; it acknowledges a contiguous run it stored on this connection |

### TerminalHost

A chunk is its number in reading order with the PTY size it was read under and the
size it passed the gate under. `tpc` is where the thread is in its loop and
`send_pty_output`; `parked` means waiting at the condition variable. `notify`
distinguishes a permit left behind, a registered waiter and a waiter that has been
notified, because `pause_and_queue_pty_output` enables its `Notified` before it reads
`sending`, and a waiter that is dropped passes its wakeup on or not depending on when
it was notified. `hpc` is where `host` is: `select` at the loop's select, `pause`,
`check`, `wait`, `drain` inside the pause, `close`, `cutoff` inside
`close_and_queue_pty_output`, then `final`, `joining`. Each arm of the select is an
action (`EnqueueCommand`, `RecvChunk`, `RecvEnd`, `BeginResize`, `ChildExits`,
`HeartbeatTick`, `Interrupt`, `IdleCutoff`, `MaxCutoff`, `TaskStopped`).
`QueueEvent` is `PendingTerminalOutput` together with the checkpoint the emitter
attempts; whether the byte interval is reached is a free choice. The publisher
(`PublishCommand`, `MakeDurable`, `Flushed`) stands on the durable writer's promise
that tickets resolve in order. The input side (`SkipInput`, `ForwardInput`,
`WriteInput`) hands one record on and awaits its confirmation.

`OutputClaim` keeps, for each claimant, the option `expected_next_seq_num` as the
client holds it, and the expectation the service attached to its session.

### LogicalRecords

`writers`, `bytes`, `parts` are the assembler's map and `pending_totals`; each action
is one path of `push_record` (`RefuseWriter`, `Suppress`, `Unsplit`, `Orphan`,
`Retain`, `Complete`). `top` and `from` are the stream: how much each durable writer
has stored, and how much it had when the read started. `WellSplit` is the layout
`split_record_payloads` produces. `RawRecords` are parts a low-level write session may
store at any sequence number. A part's index occupies 31 bits of its header, so the
branch of `push_record` for an index that overflows 32 bits cannot be reached through
a decoded record and is left out. `logical` and `refused` are history variables.

### ReadSession

One module for both sessions, since what they promise is the same and what differs is
what they remember: `transport` says which one runs.

| variable | code |
|---|---|
| `start`, `left` | `options.start`, `options.stop.count`, which each batch advances |
| `request` | the options the session began with; an SSE session reopens its original URL |
| `cursor` | `last_event`, of SSE; the position and the records consumed |
| `caughtUp`, `finished`, `retries` | `last_caught_up`, `finished`, `BoundedReadReconnects.retries` |
| `delay` | whether `reconnect_delay` is set, of WebSocket: a reconnect is due |
| `pc`, `tries` | the await `next_batch` is at; the failed attempts of `retry_transient` |
| `conn`, `log` | external: the connection (`live`, `broken`: an error waits to be read, `dead`: it has been read, `ended`: by the service) and the stream |
| `got`, `result`, `failed`, `opened` | history: what the caller has seen, and the tail the read began at |

`Call` to `RecvBatch`, `CallEnds` or an error is one `next_batch`. `Cancel` is
`next_batch_with_timeout` or a dropped future, at either of the two awaits. `RecvBatch`,
`RecvCaughtUp`, `RecvEnd`, `RecvBroken`, `RecvFatal` are the arms of its match, and
`RecvDead` is the same match on a connection that has already reported its error.
`Interrupted` is `require_reconnect` or, for SSE, the call of `next_delay`; the two
part in `ReconnectDue` and in `RetriesAfterHandshake`. `ConnectOk`, `ConnectFails`,
`ConnectRefused` are the outcomes of one attempt. The service resolves a selector,
delivers contiguous batches below the stop conditions, reports when the reader is at
the tail, ends a finite read, and honours `Last-Event-ID`, as `docs/protocol.md` says.

### CliWriter

| variable | code |
|---|---|
| `job` | the input: `stdin` or `command`, lines or bytes (`write_buffering`), and what each pipe carries |
| `read`, `hand`, `reader` | each `read_pipe_chunks` task: position, the chunk it waits to send, whether it ended or failed |
| `chan`, `closed` | the chunk channel, and `chunk_rx.close()` |
| `interrupted`, `pressed`, `ignored` | `WriteInterrupt.triggered`; history: presses, and whether one met no listener |
| `pc`, `rest`, `batch`, `back` | the writing task: `receive`, `wait` (for capacity), `join`, `finish` are where it waits; `push`, `admit`, `flush` run in between |
| `buf`, `deadline` | the appender's pending bytes and linger deadline |
| `tickets`, `pendRecords`, `pendBytes`, `records` | `WriterSession` |
| `accepted`, `durable`, `broken` | external: the durable writer, whose tickets resolve in order |

`main` runs on a `current_thread` runtime, so the other tasks run only while the writing
task waits (`Waiting`); in particular the flag and the wake-up of `WriteInterrupt::trigger`
are one step. `CtrlC` is split by who listens: the standard input task, the select
around a child's output, `finish_write`, or nobody. `PushBytes` and `PushLine` are one
turn of the two `push_bytes`; a record may be submitted in each turn and may wait.

### RestClient and TerminalStart

| variable | code |
|---|---|
| `call` | the future of one logical call: `retry_when` with its `attempt`, whether it `waits` for a response or `sleeps`; of `list_all_links` also the listing so far |
| `reply` | the response to the current attempt |
| `wire` | external: requests the service has not processed, also of attempts that timed out |
| `service` | external: streams with their idempotency keys, links with the order of their creation, the log of stateless appends |
| `results` | history: what each call that has returned was asked, and its outcome |
| `pc`, `record`, `started`, `ownerShown` | `run`: where it is, whether `started` is durable, the flag host sets, whether the owner link is on the screen |

`Begin` is a public method up to its first `send_request`; `AttemptFails` is the loop of
`retry_when`, with `Jittered` for `reconnect_delay` and `Capped` for `Retry-After`.
`Receive` reads a whole response: the status, `json_response`, `PageArrives` with the
four checks of `list_all_links`, `RangeValid`. The service may process a request and
answer, process it and fail, or fail before; the client tells none of these apart.

### Frames and Wire

A message is a sequence of cells, one for each field of fixed width and one for each
byte of a payload; the limits and the width of a number are parameters. `EncodeClient`,
`EncodeServer`, `DecodeClient` and `DecodeServer` are the four directions, with every
check of the code in its order of effect; a refused one is `Invalid`. `Wire` delivers
what the peer encoded, or a message that is cut off, longer, or one off in one cell, to
the handshake or to a session. The event stream parser keeps its buffer, offset and tail
as the code does, and `Blocks` is what it must find: the events of the body at once.

### TerminalCheckpoint

`emitter` is `TerminalCheckpointEmitter`: its own emulator, whether it understood
everything so far, the programs it keeps and its counts. `shown` is a viewer's emulator
that has followed the output from `started`; `observer` one that was restored from a
checkpoint, any checkpoint, and `midway` says that its program was computed within an
escape sequence. `Emulator` is small: one run of cells for each of two screens, a cursor and
a saved one, some modes the emitter's emulator knows and some only the observer's does.
Of what is outside the grid it has a colour of the palette, which `vt100` reports as
unknown (`unhandled_osc`), and not the title (see [observations](#observations)).
A read of the PTY may bring whole sequences, or begin or end within one.

## 3. Runs: what is checked, and the bounds

Every cfg makes the limits small so that each of them is met, and lets the
interesting events happen at least once more than is needed for their effect.

**`durable_writer`** (`MCDurableWriter`, over `FaultyService`). Two producers, two batches of one or two
records with payloads 1, 2, 0; a window of two records and three bytes, frames of two
records and two bytes, three sequence numbers, two connections, one foreign record.
Every batch of two with a large record exceeds a frame, two batches exceed the window,
two of two exceed the sequence numbers; one reconnect leaves an abandoned connection that still delivers.
A further connection adds no new kind of state, since the writer knows only the
current one and abandoned ones never hear from it again; the proof of `NoGap` covers
any number. Producers and batches are symmetric (no property names one).
`TypeOK`: `acked <= sent <= len`, window within limits. `WindowExact`: the window is
the records sent here and not acknowledged, in records and bytes. `NoStall`: the actor
never blocks with pending records unless something is in flight and the deadline is
armed. `NoGap`: no record before its predecessor. `ReceiptsMatchBatch`,
`ReceiptsDurable`: one receipt per record, naming a position that holds it.
`CloseDurable`: a successful close leaves no unresolved or failed ticket.
`ResendsOnlyUnacked`: no frame repeats what a receipt covers. The service keeps its
contract, except that after a reconnect it may also acknowledge records out of turn:
those it has from earlier connections, acknowledged before or not, and ranges whose two
lengths differ. What the writer does not refuse must leave all of the above intact.

**`durable_writer_live`** (`MCDurableWriterLive`). One producer, no symmetry (it is
not sound for liveness), one reconnect, and a window of two bytes, which a single batch
exceeds. `TicketsSettle`, `CloseReturns`, and
`ImplementsReliableAppend`: with *visible* as the stream seen by a reader that drops
copies, every step is a step of `ReliableAppend` or a stutter.

**`terminal_host`** (`MCTerminalHost`). Queues of one, one unacknowledged event, a
checkpoint after every event, two chunks, a write and a resize and a resent copy of the
write, one heartbeat, both cutoffs, an interrupt, and a failure of any task at any
await. Two chunks are what the thread can have in its hands and in the channel; one
resize between them is what a late chunk could cross. `NothingLost`, `ResizeBoundary`,
`TruncationHonest`, `Lifecycle`, `CheckpointInReach`, `InputOnce`. `PauseEnds`: a resize
does not wait for a lost wakeup. `ExitPublished`: after the child's exit the host ends
though the PTY stays open. A longer interval and more chunks change nothing the
liveness properties depend on, and the safety properties are proved for any of both.

**`logical_records`** (`MCLogicalRecords`). A writer with two split records and an
unsplit one, a writer with an empty part, and a third that numbers parts at will; at
most two writers, three parts and five bytes are retained, so that each limit rejects
something; ten reads, more than the stream has records, starting anywhere.
`TotalsExact`: the totals are what is retained. `WholeRecords`: what is returned are the
nonempty parts of one record, from the first to the last. `ExactlyOnce`: every whole record that begins
after the start of the read is returned once and in order, or was refused with an error.

**`read_session`** (`MCReadSession`). Streams of up to three records with two
timestamps that may go back, every kind of start selector, a count of two or none, a
time limit or none, batches of up to two, three attempts. Two records are enough to be
interrupted between batches and inside the count, three to read past them; three
attempts distinguish the first, a later and the last one. `Contiguous`: what is
delivered over all connections and calls is one run of the stream from where the
selector pointed. `WithinStops`: the count and the time limit hold for the read as a
whole. `ConformingAccepted`: what a conforming service sends is never refused, so the
session checks against what it asked for. `WebSocketEndsHonestly`: a read is reported
as ended only if it is. `SseRetriesEnd`: one call does not reconnect for ever without
progress; it is a statement about behaviours that contain infinitely many handshakes
and needs no fairness. The WebSocket session has no such promise: every handshake
resets its count.

**`cli_writer`** (`MCCliWriter`). Five inputs: five bytes; lines of one and no byte and
an open one; a line larger than the window; two pipes with bytes, and with lines.
Records of two bytes, a window of two records and three bytes, a channel of one chunk,
chunks of up to three bytes, two interrupts. `InputPreserved`: the records, the appender
and the rest of the chunk are the bytes received, in order, a line being a record.
`ReportIsTrue`: "N records durable". `WindowKept`: input waits for acknowledgements.
`InterruptEnds`: after an interrupt the command ends.

**`rest`** (`MCRestClient`). Six applications of one or two calls and a terminal that
starts; two attempts, a service that fails with a retryable status with and without a
`Retry-After` beyond the maximum, pages of one or two links and three pages that break
the contract, one change by others. Two attempts are enough for a late first one and for
a retry of what was done; a listing of three links in pages of one or two meets every
check. `OnceOnly`: a creation makes one stream, an append with a precondition one copy.
`ResultsTrue`: what a call reported as done is done, at that place, and stays so.
`StartupLeavesNothing`: see the start of a terminal. `CallsEnd`.

**`wire`** (`MCWire`). Numbers up to nine, records of up to two bytes, batches of up to
three records with every kind of part at every limit, and each message as it was
encoded, cut off at every cell, longer by one, and with one cell one higher or lower.
`FramesExact`: what is accepted is what was sent or another message some peer can send,
and nothing a conforming peer sends is refused. Event streams of up to seven bytes over
line feeds, carriage returns, colons and data, in chunks of up to three, with an event
limit of five. `EventsExact`: the same events and the same error as from the whole body.

**`checkpoint`** (`MCTerminalCheckpoint`). A terminal of one to two columns and rows,
21 writes of up to four symbols, resizes, a checkpoint every two events or six bytes,
four events. `ObserverAgrees`: an observer that restores a checkpoint and replays what
follows shows what a viewer from the beginning shows, and no event fails to encode. It is
about checkpoints computed outside escape sequences; the others have a run of their own,
on the same instance.

**`output_claim`**, **`sse_end`** and **`checkpoint_midway`** are expected to find a
violation: see [findings](#6-findings).

Deadlock is checked except in `output_claim`, `rest`, `wire`, `checkpoint` and
`checkpoint_midway`, where the
claimants, the application, the message or the output simply end. A behaviour that has ended stutters in an explicit `Finished` or `ReadEnds`, so
an actor that waits for something that cannot come is a deadlock.

*Bounds by name:* `MaxConnections`, `MaxForeign` (connections opened, records of
others), `BackoffCap` (above it the reconnect counter shows no change), `MaxChunks`,
`MaxHeartbeats`, `MaxReads`, `MaxBatch`, `MaxRecords`, `MaxTime`,
`MaxChunk`, `MaxInterrupts`, `MaxForeign`, `MaxBody`, `MaxEvents`; `Programs` is finite, and so are the inputs of `Wire`. The connection bound does not close the system in a way
liveness could lean on: the last connection is only assumed not to fail, that is, the
service eventually stays reachable.

## 4. Fairness

`DurableWriter!Fairness`. The runtime polls a task that can go on: `WF(RunWriter)`
(weak fairness of the whole actor; which arm its select takes is not fair). A held
read lock is released and a command sent by code that never waits:
`WF(SubmitSend(p))`, `WF(CloseSend)`; a finished task is joined: `WF(CloseJoin)`. A
reachable service stores and acknowledges what the current connection brings:
`WF(StoreRecord(Current))`, `WF(SendAck)`; nothing is assumed of abandoned
connections. A timer that is armed fires when nothing else happens:
`WF(silent /\ AckDeadline)`. A connect attempt eventually succeeds: it is the
`Reconnect` in `RunWriter`. `SubmitCheck`, `CloseMark`, `Abort` and every failure are
never forced to happen.

`TerminalHost!Fairness`. `WF(Host)`, `WF(Publisher)`: tasks are polled and the
durable writer makes progress. `WF(EnterSend)`, `WF(BlockingSend)`, `WF(AfterSend)`:
a native thread runs when it is not blocked. Not fair: `ReadChunk` and `ReadEnd`,
since a read of the PTY may never return while a descendant holds it open.
`ReadSession` assumes no fairness.

`RestClient!Fairness`. `WF(TimesOut)`, `WF(Retry)`: the timers of the runtime fire. No
response is ever assumed to arrive; that calls end follows from the time limit of an
attempt, the bound on attempts, and the finite inventory.

`CliWriter!Fairness`. `WF(WritingTask)`, `WF(MakeDurable)`: the task is polled and
records become durable or the writer fails. The readers of a child's pipes are fair only
after an interrupt: the child has been killed, and is assumed to leave its pipes to
nobody else. With a descendant that keeps them open the command waits for it.
`WF(MaxCutoff)`: the maximum drain deadline passes; the idle deadline is not needed.

## 5. What is proved

`DurableWriterProofs`, for every number of producers and batches, all limits,
connections and sequence numbers that satisfy `WriterAssumption`:

| theorem | states |
|---|---|
| `WriterInvariant` | `WriterInv`, the inductive invariant |
| `TypeCorrect` | `TypeOK`, with the bounds of markers and window |
| `StreamHasNoGap` | `NoGap`, what every reader's suppression of copies relies on |
| `NeverStalls` | `NoStall` |
| `WindowIsExact` | `WindowExact` |

*Assumption.* `WriterAssumption`, which TLC evaluates in every run of the writer:
batches are not empty (`AppendBatch::from_records`), the limits are numbers, one
record fits both the window and a frame, and `PayloadOffset` is monotonic.

*Why an invariant is needed.* `NoGap` is not inductive: it says nothing of what is
still on the network, and a frame of an abandoned connection may be stored at any
time. Nor is `WindowExact`: that the window equals what the markers say depends on
the queue being contiguous and on acknowledgements leaving the front only.

*The argument.* Two points of the writer's sequence summarise everything: `AckPoint`,
the first number not acknowledged, and `SentPoint`, `inFlight.records` further.
`QueueInv`: the pending submissions tile the numbers up to the cursor, only the front
one is partly acknowledged, each sent marker is what lies below `SentPoint`, and the
window's bytes are those between the points. `WireInv`: the frames of each connection
follow one another, and everything below its first one is already in the stream. This is
what makes a late frame harmless, because it can only repeat records or add the
next one. `StoredInv`: what is stored and not acknowledged is a contiguous run that
ends where the next frame begins, and an acknowledgement covers only what is in the
stream. `CurrentInv`: the stream holds everything below `AckPoint`, and the current
connection's frames end at `SentPoint`; so a reconnect, which starts its frames at
`AckPoint`, starts them behind nothing that is missing. `DeadlineInv`: whenever the
actor may block with records in flight the deadline is armed. The proof has a lemma
for each action that disturbs one of these (`FeedFrameInv`, `AdmitSubmissionInv`,
`StoreRecordInv`, `SendAckInv`, `RecvAckInv`, `ReconnectInv`, ...), and lemmas for
groups of actions that do not.

And in the same module, from the same assumption:

| theorem | states |
|---|---|
| `ReceiptsAreDurable` | `ReceiptsDurable` |
| `ReceiptsAreComplete` | `ReceiptsMatchBatch` |
| `CloseIsDurable` | `CloseDurable` |
| `ResendsNothingAcknowledged` | `ResendsOnlyUnacked` |
| `WriterImplementsReliableAppend` | `ImplementsReliableAppend`, the refinement |
| `FaultyServiceIsHarmless` | all seven invariants of the run, of `FaultySpec` |
| `FaultyServiceResends` | `ResendsOnlyUnacked`, of `FaultySpec` |
| `FaultyServiceStaysReliable` | `ImplementsReliableAppend`, of `FaultySpec` |

*Receipts.* `ReceiptInv` is inductive given `WriterInv`. `DurableInv`: each element
of `stored`, each number an acknowledgement covers and each receipt names a position
that holds its record; positions of a log that only grows stay right, and the service
acknowledges consecutive positions only (`DurableAck`). `MatchInv`: a submission is in
the channel or in the queue, once, its ticket waits, and a pending one has one receipt
for each record of its acknowledged prefix, which an acknowledgement extends
(`OneEachMore`) and a reconnect keeps. `CoveredInv`: what a ticket has a receipt for
lies below `AckPoint`, and a frame starts at `SentPoint` (`FrameStart`). `CloseInv`: the
close transition is granted only when no producer holds the lock, so the close command
is the last in the channel, and while the actor lives a ticket without an outcome is in
the channel or in the queue: when both are empty, none waits.

*The refinement.* `MappingInv` is what the mapping needs beside these. `VisibleInv`: what
a reader has kept that drops copies is `Ramp(n)`, the numbers below `n` in order, where
`n` is above every number of the stream and the stream holds all below `n`.
`NumberedInv`: a frame carries numbers that were given out. So the next record stored is
a copy or somebody else's, and the reader keeps nothing, or it is exactly the next number,
which is `Show` (`VisibleMore`). That `Deduplicated`, a recursive function over the
stream, keeps of a longer stream what it kept before and perhaps the new record
(`DeduplicatedAppend`) is an induction over the length, made with the least
counterexample (`LeastNumber`, from the well-foundedness of `<`), because the library's
induction theorems take an operator as a parameter. Then every action is a step of
`ReliableAppend` (`StepImplements`): `SubmitSend` accepts, `AdmitSubmission` numbers,
`RecvAck` succeeds for the tickets whose last record is below what was acknowledged and
hence visible, the ends of the actor fail the tickets that wait, and `CloseDone` succeeds
because no ticket does. A close that has reported success is never made a failure
(`FailImplements`).

*A service that acknowledges out of turn.* `FaultySpec` has one more action, the service's
`OutOfTurnAck`: a range over the last records of the stream, sent on this connection or
not, acknowledged before or not, with two lengths that agree or not. It is true of the
stream, and that is why it is harmless: `FaultyInv`, which is `WriterInv`, `ReceiptInv`,
`MappingInv` and `LogBounded` (every record of the stream has a number that an
acknowledgement can end behind), is kept by it (`OutOfTurnStep`), and what the writer makes of the
range is a step of `DurableWriter` already, for which the invariants say what they need:
`RecvAck` takes only a range that the markers know as sent, `RecvInvalidAck` ends the
actor. So the check of `validate_ack` is all that the writer needs against a service that
acknowledges what it has not been asked for.

`ReadSessionProofs`, for every log of timestamps, selector, stop condition, batch size
and number of attempts that satisfy `ReadAssumption`, and for both transports:

| theorem | states |
|---|---|
| `TypeCorrect` | `TypeOK`, with the bounds of both retry counters |
| `DeliversContiguously` | `Contiguous` |
| `StopsHold` | `WithinStops` |
| `NeverRefuses` | `ConformingAccepted` |
| `EndIsReal` | `WebSocketEndsHonestly` |

*The argument.* `ReadInv` relates three positions. `PositionOK`: the session's options,
its cursor and what has been delivered say the same; before the first record, a position
that a caught-up event set is one the selector may stand for (`Anchor`), because all
earlier records are below its timestamp. `ConnOK`: a *live* connection is at the session's
position with the session's count, or still at the selector it began with; a connection
that is not live may be anywhere, which is why a call can be given up at any await.
`FlowOK`: on a WebSocket a connection whose error has been read leaves a reconnect due
or a final error behind it. From the first two every conforming batch passes
`BatchValid` (`BatchAccepted`, `CaughtUpAccepted`); the steps are grouped by what they
move (`AppendKeeps`, `CallsKeep`, `EndsKeep`, `BatchKeeps`, `CaughtUpKeeps`,
`ConnectKeeps`).

`TerminalHostProofs`, for every capacity of the channels,
number of unacknowledged records, checkpoint interval, input stream and number of chunks
and heartbeats that satisfy `HostAssumption` (the input is a sequence of records with
numbers): every safety property of the terminal host.

| theorem | states |
|---|---|
| `HostTypes` | `TypeInv`: `TypeOK` and what the input channels may hold |
| `InputAppliedOnce` | `InputOnce` |
| `HistoryShape` | `Lifecycle` |
| `CheckpointReached` | `CheckpointInReach` |
| `OutputLossless` | `NothingLost` |
| `ExitHonest` | `TruncationHonest` |
| `ResizesSeparate` | `ResizeBoundary` |

*The argument.* Every action is either a step of the history or leaves it alone
(`HistorySteps`): an event moves on to the publisher, one is appended with the checkpoint
it makes due, or the loop ends. `LifecycleInv` and `CheckpointInv` are about appending to
a sequence; the latter says that `since` counts the events behind the last checkpoint.
`InputInv`: the records that took effect and the one on its way are the logical input, in
order; there is one at most, because the forwarder waits for each confirmation
(`ForwarderOK`), and the position of a writer is the highest number seen of it, so a record
is new exactly when it repeats no earlier one (`NewIsFresh`). `HandoffInv` is what the mutex
guards: `GateOK` ties `sending` to where the thread is and `resizing` to where the loop is;
`CutoffOK` says that the cutoff waits exactly when the thread will answer, that a send
fails only after the output channel was closed by the cutoff, and that the loop otherwise
ends only with the thread. The chunks between the gate and the history form one queue
(`Behind`: the channel, then the chunk given back or the one in the thread's hands); each
step keeps it, appends the chunk that is let through, or queues its first
(`HandoffHistory`). `NothingLost` is inductive about this queue, and `ResizeInv` says that
only the first chunk of a segment can be late in it, and that it is empty at a resize.

`RestClientProofs`, for every set of programs, batches, statuses, pages and every number
of attempts that satisfy `RestAssumption`, over `TerminalStart`:

| theorem | states |
|---|---|
| `TypeCorrect` | `TypeOK` |
| `AtMostOnce` | `OnceOnly` |
| `ResultsStayTrue` | `ResultsTrue` |
| `NothingLeft` | `StartupLeavesNothing` |

*Assumption.* `RestAssumption`, which TLC evaluates in run `rest`: besides the ranges of
the constants, that nobody else draws a link id of the application (they are random),
that a status the service fails with is not a success, and that the pages listed as
breaking the contract do not count as keeping it.

*The argument.* `RestInv` says what of a call can exist and where: a request in `wire`
and a record in the log belong to a call that has begun and to one of its attempts, the
attempts of the call under way are not ahead of it, a key names one call, and for an
append under a precondition the log has reached the expected length only once, so at
most one attempt found it so. A request given up and processed at any later time changes
nothing in this account.

`TruthInv` carries a truth from the service to the result. `Evolves` is what no step of
the service takes back: streams stay where they are and are deleted for good, a link is
changed only by becoming inactive, an order is given out once, the log grows at its end
(`ServiceMoves`). So an answer that is true when it is given is true when it is read, and
what is said of a result is true for good (`AnswerOK`, `Lasting`). The delicate case is a
link that is gone: a late creation would make it again. The service of the model removes a
revoked link only when no request that names it is on its way, and a link that a later
call makes has a higher order than what the result is about. For a listing, `Seen` says that what was there all along and is newer than the cursor
has been listed, and `PageOK` that an honest page holds what lies between two cursors,
also while others create and remove links; together they give a whole inventory.
`StartInv` says where a start is in terms of the results so far, and that the stream is
active until the clean-up has sent its deletion (`Undisturbed`): up to there no request of
the command deletes anything, so none can arrive late.

`CliWriterProofs`, for every set of inputs, payload limit, window, channel capacity, chunk
size and number of interrupts that satisfy `CliAssumption` (the limits are positive, and
an input is a stream or a child with lines or bytes in its pipes): every safety property of
`tsf write`.

| theorem | states |
|---|---|
| `InputIsPreserved` | `InputPreserved` |
| `ReportsTruth` | `ReportIsTrue` |
| `WindowIsKept` | `WindowKept`, with `TypeOK` |

*The argument.* None of the three is inductive. `InputPreserved` says nothing of a byte
before it is received, `ReportIsTrue` speaks of the last state only, and what is beyond the
window depends on why the task did not wait. `CliInv` has, besides the types, three
accounts, each kept by a lemma of its own (`WindowStep`, `TaskStep`, `FlowStep` with
`EndStep`). `WindowInv`: tickets resolve from the front, the counters are the sums over the
others, and `records` is the sum over all that was submitted. `PlaceInv` and `ContentInv`
say what the appender and the chunk may hold where the task is (an unfinished line has no
newline, an unfinished block has room, nothing is pending once the task waits for its
readers), so that records, pending bytes and the rest of the chunk are the input; for lines
both sides are compared with the newline that ended each record, and an open last line has
one more (`LastLineOpen`). `PipeInv` follows a byte from the pipe through its reader's hand
and the channel: it is in one place only (`OnceInv`), the byte before it is ahead of it
(`OrderInv`), none is lost unless an interrupt dropped it (`KeptInv`), and when the task
has stopped receiving without one, every pipe was read to its end (`EndInv`).

Two operators are defined by recursion, the sum `Total` and `FlattenSeq` of the community
modules. What the steps need of them (`TotalSplit`, `TotalAppend`, `FlattenAppend`) is
proved by least counterexample: if a property fails at some number up to the length, there
is a least one (`LeastNumber`), and the step from the number before contradicts it. The
same is done for `Deduplicated` in `DurableWriterProofs`.

`LogicalRecordsProofs`, for every set of writers, layout of split records, records of
others, and limits that satisfy `AssemblerAssumption`:

| theorem | states |
|---|---|
| `RecordsExactlyOnce` | `ExactlyOnce` |
| `TotalsStayExact` | `TotalsExact`, with `TypeOK` |
| `OnlyWholeRecords` | `WholeRecords` |

*The argument.* Two inductive invariants. `RecordInv` says where each logical record stands. `OrderOK`: what was
returned or refused starts at or below the writer's highest number and below its pending
record (`Passed`), so the next record to come out starts above it; a record of a writer
that was not admitted is refused for good, because with all states in use none is added
(`FullStep`). `WriterOK`: once a record of a durable writer has been stored after the read
began, its state stands at the last of them, and each record that began since is
returned, refused, or in progress: pending from its first part on, with the parts so far
and none of them final (`InProgress`). The next part then continues it (`NextRecord`): by
`WellSplit` the part behind one that is not final has the next index, so the count of
parts and the start that `Continues` compares agree. A copy changes nothing of this
(`CopyRecord`): it is below the highest number, unless it comes before the first new record.

`PartsInv` says what is retained. `AccountOK`: the totals are the sums over all writers of
their pending records, whose lengths are those of their chunks; a step moves one term of
each sum (`SumMoved`). `ChunksOK`: a pending record's chunks are of one writer and one
start, in order and before the part awaited (`OfOneRecord`), and those of a durable writer
are all that the first parts of one of its records hold, none of them final
(`FirstParts`). So the final part that continues it is the first final one behind the
start, which is `End`, and what is returned is the whole record (`NextPart`, `WholePush`);
this needs no assumption on where the read began. The sums of the community modules
(`MapThenSumSet`, `FoldFunction`) are recursive functions over subsets that take out a
chosen element; that any element may be taken out first (`SumRemove`) is proved by a least
counterexample in the number of elements.

`WireProofs`, for every alphabet, body, size of its chunks, both limits of an event and
every offset of compaction: `StreamIsExact` states `EventsExact`.

*Why an invariant is needed.* `EventsExact` speaks of what has been delivered and of the
body, not of what the parser has in hand: a buffer whose front has been cut off, an offset
and a tail in it. And it speaks of the body by `Terminated`, a search from its beginning,
while the parser searches what it has, and from three bytes before what is new.

*The argument.* The bridge are the *points* of a body (`Points`): where the search finds the
end of each event, one behind the other, until no terminator is left. They exist
(`PartsOf` gives `Terminated`), are the only ones (`OnePoints`), and those of a body stay
where they are when more of it arrives (`PointsStay`): a terminator ends where it ends, and a
new one can only end in what is new. `StreamInv` says that the buffer is the end of the
body (`Window`), that the offset stands at one point and the tail at another, up to which
no event is too large, that the error says whether the next one is, and that what was
delivered are the events up to the offset (`Fits`). A push validates from point to point and
finds each, because it looks back far enough for a terminator that came in two chunks
(`PushKeeps`); the next event is what lies between two points, and compaction moves the
buffer but no point (`NextKeeps`).

`FramesProofs`, for all widths of the fields, limits of a batch and a payload, and all
batches, answers, openings and submissions that satisfy `FramesAssumption` and
`WireAssumption`:

| theorem | states |
|---|---|
| `FramesAreExact` | `FramesExact` |
| `SplitExact` | the parts of a record |

*Assumptions.* The fields of a record and of a frame are as wide as their Rust types
(`Numbers`, `Headers`), an encoded record's length fits its field, the limits are
positive, and the tail's limit is not above the event's.

*The argument.* `FramesExact` speaks of one message, what was put into it and what its
reader made of it, so it needs no strengthening; the work is in the codecs. A batch is a
message whose records are *laid* one behind the other (`Laid`: where the cells of each
begin), and reading one is a *walk* from length to length (`BodiesWalk`). Records that are
laid out in a message are what is read from it, if they are valid (`ReadLaid`,
`AppendLaid`), and a message that is read is laid out with some records (`ReadIsLaid`,
`AppendIsLaid`): a walk that reaches the end exactly. So a frame that is encoded is
decoded to itself (`ReadBatchComes`, `AppendComes`), and a message that is decoded is the
encoding of what came out (`ServerExact`, `ClientExact`), whatever was cut off, added or
changed on the way (`NearIs`). Each payload is a range of the shared buffer, and is shown
to be the record's (`InsideIs`, `PayloadsLaid`). The two transports agree because each is
compared with the protocol's own condition, `ProtocolBatch`: the frame by `ReadBatchComes`,
and by `JsonComes` every JSON form of the records, whichever form each of them takes.

`SplitExact`, for every record, limit of a payload and width of a part index: the parts of
a record that `split_record_payloads` accepts are a submission that the codec accepts,
numbered from zero, final exactly at the end, none too long and all but the last full, and
their payloads are the record's bytes in their order. This is the layout that
`LogicalRecords` assumes of a durable writer (`WellSplit`).

The inductive invariants that are formulas over small sets were first checked with TLC on
the instances of the runs; those of the pure parts (`StreamInv`, `Laid`) quantify over
functions and were not, but the properties they serve were.

*Only model-checked.* Liveness (`TicketsSettle`, `CloseReturns`, `PauseEnds`,
`ExitPublished`, `InterruptEnds`, `CallsEnd`, `SseRetriesEnd`): fairness and `ENABLED` are
out of the prover's reach. One invariant: `ObserverAgrees`, that an observer who joins at
a checkpoint (outside an escape sequence) sees what one sees who was there from the
beginning. It is an induction over
all output behind the checkpoint, through the interpreter of `Emulator` with each of its
sequences and modes, for two terminals at once; it is not proved.

## 6. Findings

**The claim of the output channel does not survive a reconnect.**
`docs/protocol.md:317` says that an expected sequence of zero prevents a second host
from claiming the output channel. The client drops the expectation with the first
`Ready` (`rust/src/client.rs:599`, as `docs/protocol.md:456` asks), before anything
was appended. Run `output_claim`: a host is interrupted after `Ready`, another claims
and appends `started`, the first one reopens without a precondition and appends its
own. `tsf` itself creates a fresh stream for each host, so a second claimant is
another user of the public `connect_terminal_output_writer`.

**An interrupted SSE read may report a normal end.** `rust/src/client.rs:1987-1989`
says that interruptions reconnect and that `None` means normal completion or a stop
condition. `TsfSseReadSession` keeps the old body until a reconnect succeeds and, unlike
the WebSocket session with its `reconnect_delay`, has no record that one is due. Run
`sse_end`: the body of a finite read reports an error, the reconnect is given up with
the call (or its attempts fail), and the next call finds the body at its end
(`rust/src/client.rs:2035`) and returns `None`, though records remain. That a body
ends once it has reported its error is what the HTTP library's body for HTTP/1 does;
the model also lets it fail again (`RecvDead`), after which the session resumes
properly.

**A checkpoint may be computed within an escape sequence.** `rust/README.md:111` says
"Terminal output checkpoints are self-contained restoration programs." and "Readers can
restore the latest checkpoint and replay later events instead of reconstructing the full
output history." One read of the PTY may end within a sequence, and a checkpoint may be
due there (`flush`, `cli/src/terminal/checkpoint.rs:115-142`). Its program holds the
screen, not the beginning of the sequence, and nothing tells an observer. Run
`checkpoint_midway`: a read brings the introducer of a private mode, the checkpoint is
published and restored, and the rest of the sequence appears as text. A later program
that repeats output behind such a one inherits this (`within`).

### Observations

These are not runs of their own: two were met while a module was written, the others are
read off the code.

*Ctrl-C between the end of the input and the end of the submission.* `README.md:141` says
that on Ctrl-C `tsf` stops input, flushes the current chunk and waits for durability. The
listener is part of the standard input task (`cli/src/main.rs:926-938`), which returns at
end of file; the next one is in `finish_write`. Between the two the signal is taken over
by the runtime and lost. `CliWriter` has the press that nobody hears (`ignored`): `stdin`
has ended, a chunk that is already read waits for room in the window, and Ctrl-C changes
nothing, however often it is pressed. While the service does not acknowledge, the durable
writer keeps recovering, so only another signal ends the command. The model has one more
such place, after a child has closed its pipes and while `tsf` waits for it.
`InterruptHeard` states the sentence; no run checks it, and TLC refutes it on the instance
of `cli_writer`. This is why `InterruptEnds` is about an interrupt that was heard.

*The title of a terminal.* The emitter gives up compaction for output its parser does not
know. `vt100` 0.16 hands titles and icon names (operating system commands 0, 1 and 2) to
callbacks of their own, and `CheckpointCallbacks` (`cli/src/terminal/checkpoint.rs:324-362`)
has only those for what is unknown. So a title that ends with BEL leaves compaction on, and
the next program, `state_formatted`, sets no title: whoever restores it has none until the
next one is set. `Emulator` has no title, and `ObserverAgrees` says nothing of it. The
library is not in the repository; what it does is taken from its version 0.16.

*A slow publisher and the maximum drain deadline.* `docs/protocol.md:315` says that
`output_truncated` is true when another process keeps the PTY open past the bounded
drain. The deadline (`cli/src/terminal.rs:813`) is polled also while events wait for the
publisher, when the loop does not poll the PTY channel; it may then cut off a PTY that
has reached its end of file. Nothing is lost, and the flag says more than happened.
`TruncationHonest` is the direction that matters: nothing is cut off without it.

*A late update.* An `update_stream` that timed out for good may still be applied after
the success of a later one (`rust/src/client.rs:269`). `RestClient` lets it arrive.

*A link file that cannot be written.* `tsf link create` writes the credential after the
link exists (`cli/src/main.rs:1595`); when that fails, the link stays and its credential
is lost.

## 7. What is not modelled

Everywhere: the service beyond its contract; TLS, HTTP and WebSocket as such (a
connection is a FIFO that may fail or fall silent); the values of payloads where no
property is about them; text and formats; durations, except that a delay is bounded;
metrics and logging; the in-flight permits of `tokio`; failures of memory allocation. In
the terminal host: the local observer and the signals of the platform. In the read
sessions: the metadata a session keeps, and the HTTP 204 of a reopened read whose count
is exhausted, since `next_batch` returns before it would reopen one. In the checkpoints:
the vt100 and vte libraries, of which `Emulator` keeps two screens, a cursor, a saved
one, a few modes and no title; that a program restores colours, margins, or what 1049 saved, and
that `?47` keeps the contents of the alternate screen, is beyond it.

Components that are not modelled, and why:

- *CLI readers.* What they add to `ReadSession` and `LogicalRecords` is a channel with
  one writer and one reader, and the wording of the output.
- *CLI commands and output, identifiers, links, titles, permissions, decimal strings in
  JSON.* Values in, values out; unit tests reach them.
- *CLI update hint.* One read and one write of a cache file; two processes that race
  make one request too many (`cli/src/main.rs:669`).
- *TypeScript.* The writer, socket, readers and REST client promise what their Rust
  twins do, in callbacks and promises whose order is the language runtime's. The modules
  here are translations of the Rust source, action by action; read against the
  TypeScript they would be claims about code they do not translate. Only
  `logical-records.ts` follows its twin step for step.
- *Build, release, fixtures.* Scripts and data.

## 8. Left to do

In order of importance.

1. The TypeScript writer against `ReliableAppend`, with its account of ambiguous
   durability (`writer.ts:229`), and its frame socket (`socket.ts:134`), as modules of
   their own.
2. An abstract resumable read that both sessions of `ReadSession` implement.
