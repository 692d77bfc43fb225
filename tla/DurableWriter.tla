----------------------------- MODULE DurableWriter -----------------------------
(***************************************************************************)
(* The durable writer of the Rust SDK (rust/src/client.rs): producer       *)
(* handles and the controller submit batches to one actor, run_writer,     *)
(* which numbers every physical record, keeps it until the service has     *)
(* acknowledged it, and sends it again on a fresh connection after a       *)
(* transient interruption.                                                 *)
(*                                                                         *)
(* The service is not in the repository.  It is modelled from the way the  *)
(* client uses it and from docs/protocol.md: a connection delivers frames  *)
(* in order, a frame is stored record by record and not atomically, an     *)
(* acknowledgement covers a contiguous run of stored records, and a        *)
(* connection the client has given up may still store what it received.    *)
(*                                                                         *)
(* Payloads are abstracted to their sizes: the record with writer sequence *)
(* number w occupies PayloadOffset[w + 1] - PayloadOffset[w] bytes.        *)
(***************************************************************************)
EXTENDS Integers, Sequences, FiniteSets

CONSTANTS
  Producers,           \* handles that submit concurrently
  Submissions,         \* identities of the batches that may be submitted
  BatchLens,           \* numbers of records a batch may have
  PayloadOffset,       \* payload bytes of all records below a sequence number
  MaxInFlightRecords,  \* MAX_WRITER_IN_FLIGHT_RECORDS
  MaxInFlightBytes,    \* MAX_WRITER_IN_FLIGHT_PAYLOAD_BYTES
  MaxFrameRecords,     \* MAX_APPEND_FRAME_RECORDS
  MaxFrameBytes,       \* MAX_FRAME_PAYLOAD_BYTES
  MaxRecordBytes,      \* MAX_RECORD_PAYLOAD_BYTES
  MaxWriterSeq,        \* u64::MAX, the last representable acknowledgement boundary
  BackoffCap,          \* retries after which the reconnect delay stops growing
  MaxConnections,      \* bound: connections a behaviour opens
  MaxForeign           \* bound: records other writers append to the stream

(* What the code knows of its constants: a batch is never empty            *)
(* (AppendBatch::from_records), and one record fits both the window and a  *)
(* frame, which is what keeps the sender from stalling.                    *)
ASSUME WriterAssumption ==
  /\ BatchLens \subseteq Nat \ {0}
  /\ MaxWriterSeq \in Nat /\ BackoffCap \in Nat
  /\ MaxConnections \in Nat /\ MaxForeign \in Nat
  /\ MaxInFlightRecords \in Nat \ {0} /\ MaxFrameRecords \in Nat \ {0}
  /\ MaxInFlightBytes \in Nat /\ MaxFrameBytes \in Nat /\ MaxRecordBytes \in Nat
  /\ MaxRecordBytes <= MaxInFlightBytes /\ MaxRecordBytes <= MaxFrameBytes
  /\ PayloadOffset \in [0..MaxWriterSeq -> Nat]
  /\ \A lo, hi \in 0..MaxWriterSeq :
       lo <= hi => PayloadOffset[lo] <= PayloadOffset[hi]
  /\ \A w \in 0..(MaxWriterSeq - 1) :
       PayloadOffset[w + 1] - PayloadOffset[w] <= MaxRecordBytes

VARIABLES
  \* shared by the controller, the producers and the actor (WriterShared)
  state,          \* "open", "closing" or "done"
  terminalError,  \* the retained terminal_error is set
  cmds,           \* the command channel
  rxOpen,         \* the actor still holds the channel's receiver
  ticket,         \* per submission: its oneshot channel and its receipts
  \* producers and controller
  producer,       \* "idle", or "checked": holds the read lock, saw state = "open"
  controller,     \* where TsfWriter::close or abort is
  closeResult,    \* what close returned
  \* the actor, run_writer
  pc,             \* where its loop is
  pending,        \* VecDeque<PendingSubmission>
  closing,        \* close_tx.is_some()
  nextSeq,        \* WriterCursor
  inFlight,       \* InFlightWindow
  drained,        \* records and bytes the running drain has taken
  attempts,       \* reconnect_attempts, up to BackoffCap
  \* the network and the service
  wires,          \* per connection: frames sent and not yet stored
  stored,         \* current connection: records stored and not yet acknowledged
  acks,           \* current connection: acknowledgements not yet received
  silent,         \* the current connection no longer carries anything
  log             \* the stream: writer sequence numbers, or Foreign

sharedVars == <<state, terminalError, cmds, rxOpen, ticket>>
callerVars == <<producer, controller, closeResult>>
actorVars  == <<pc, pending, closing, nextSeq, inFlight, drained, attempts>>
netVars    == <<wires, stored, acks, silent, log>>
vars == <<sharedVars, callerVars, actorVars, netVars>>

Foreign == -1
NoWindow == [records |-> 0, bytes |-> 0, armed |-> FALSE]
NoDrain == [records |-> 0, bytes |-> 0]
NewTicket == [st |-> "none", start |-> 0, len |-> 0, receipts |-> {}]
CloseCommand == [kind |-> "close"]
SubmitCommand(id, len) == [kind |-> "submit", id |-> id, len |-> len]

Min2(a, b) == IF a < b THEN a ELSE b
Max2(a, b) == IF a < b THEN b ELSE a

\* Payload bytes of the records lo, ..., hi - 1.
Bytes(lo, hi) == PayloadOffset[hi] - PayloadOffset[lo]

Current == Len(wires)
Settled == {"exiting", "shutdown", "done"}    \* run_writer has returned
Alive == pc \notin Settled

Init ==
  /\ state = "open" /\ terminalError = FALSE /\ cmds = <<>> /\ rxOpen = TRUE
  /\ ticket = [id \in Submissions |-> NewTicket]
  /\ producer = [p \in Producers |-> "idle"]
  /\ controller = "open" /\ closeResult = "none"
  /\ pc = "send" /\ pending = <<>> /\ closing = FALSE /\ nextSeq = 0
  /\ inFlight = NoWindow /\ drained = NoDrain /\ attempts = 0
  /\ wires = << <<>> >> /\ stored = <<>> /\ acks = <<>> /\ silent = FALSE
  /\ log = <<>>

-----------------------------------------------------------------------------
(* Producers: TsfProducer::submit.  The check of the state and the send of *)
(* the command are two steps under one read lock.  A submission that finds *)
(* the writer closed returns an error and changes nothing.                 *)

SubmitCheck(p) ==
  /\ producer[p] = "idle" /\ state = "open"
  /\ \E id \in Submissions : ticket[id].st = "none"
  /\ producer' = [producer EXCEPT ![p] = "checked"]
  /\ UNCHANGED <<sharedVars, controller, closeResult, actorVars, netVars>>

SubmitSend(p) ==
  /\ producer[p] = "checked"
  /\ producer' = [producer EXCEPT ![p] = "idle"]
  /\ \/ /\ rxOpen
        /\ \E id \in Submissions, len \in BatchLens :
             /\ ticket[id].st = "none"
             /\ cmds' = Append(cmds, SubmitCommand(id, len))
             /\ ticket' = [ticket EXCEPT ![id].st = "waiting", ![id].len = len]
     \/ /\ ~rxOpen \/ \A id \in Submissions : ticket[id].st # "none"
        /\ UNCHANGED <<cmds, ticket>>
  /\ UNCHANGED <<state, terminalError, rxOpen, controller, closeResult,
                 actorVars, netVars>>

-----------------------------------------------------------------------------
(* The controller: TsfWriter::close and TsfWriter::abort.                  *)

\* Variant: close does not wait out the submissions that hold the read lock.
NoWriteLock == TRUE

\* A writer lock is granted only when no producer holds the read lock.
WriteLockFree == \A p \in Producers : producer[p] = "idle"

CloseMark ==
  /\ controller = "open" /\ WriteLockFree
  /\ state' = IF state = "open" THEN "closing" ELSE state
  /\ controller' = "marked"
  /\ UNCHANGED <<terminalError, cmds, rxOpen, ticket, producer, closeResult,
                 actorVars, netVars>>

CloseSend ==
  /\ controller = "marked"
  /\ IF rxOpen
       THEN /\ cmds' = Append(cmds, CloseCommand)
            /\ controller' = "joining"
            /\ UNCHANGED closeResult
       ELSE /\ closeResult' = "error"
            /\ controller' = "returned"
            /\ UNCHANGED cmds
  /\ UNCHANGED <<state, terminalError, rxOpen, ticket, producer, actorVars, netVars>>

\* The joined task has sent its outcome, or dropped the channel.
CloseJoin ==
  /\ controller = "joining" /\ pc = "done"
  /\ controller' = "returned"
  /\ closeResult' = IF closeResult = "none" THEN "error" ELSE closeResult
  /\ UNCHANGED <<sharedVars, producer, actorVars, netVars>>

\* abort, the controller's Drop, or a close future dropped while it joins: the
\* error is retained, the state is final, and the task is cancelled, which the
\* actor notices only at its next await.
Abort ==
  /\ controller \in {"open", "joining"}
  /\ controller' = "aborted"
  /\ terminalError' = TRUE
  /\ state' = "done"
  /\ UNCHANGED <<cmds, rxOpen, ticket, producer, closeResult, actorVars, netVars>>

-----------------------------------------------------------------------------
(* The ends of the actor.                                                  *)

\* The tickets of `ids` are resolved with `outcome`.
Resolve(ids, outcome) ==
  [id \in Submissions |->
     IF id \in ids THEN [ticket[id] EXCEPT !.st = outcome] ELSE ticket[id]]

PendingIds == {pending[i].id : i \in DOMAIN pending}
QueuedIds == {cmds[i].id : i \in {j \in DOMAIN cmds : cmds[j].kind = "submit"}}

\* Variant: the pending tickets are forgotten.
ForgottenTickets(lost) == Resolve(lost, "dropped")

\* fail_pending answers every pending ticket; the channels in `lost` just close.
FailedTickets(lost) ==
  [id \in Submissions |->
     IF id \in PendingIds THEN [ticket[id] EXCEPT !.st = "error"]
     ELSE IF id \in lost THEN [ticket[id] EXCEPT !.st = "dropped"]
     ELSE ticket[id]]

\* finish_writer_error: retain the error, then fail every pending ticket, then
\* answer a pending close.  `lost` are tickets whose channel the error drops.
FinishWriterError(lost) ==
  /\ terminalError' = TRUE
  /\ ticket' = FailedTickets(lost)
  /\ closeResult' = IF closing THEN "error" ELSE closeResult
  /\ closing' = FALSE
  /\ pending' = <<>>
  /\ inFlight' = NoWindow /\ drained' = NoDrain
  /\ pc' = "exiting"

\* Every queued record is durable and close was asked for.
CloseDone ==
  /\ pc = "select" /\ closing /\ pending = <<>>
  /\ closeResult' = "ok"
  /\ closing' = FALSE
  /\ pc' = "exiting"
  /\ UNCHANGED <<sharedVars, producer, controller, pending, nextSeq, inFlight,
                 drained, attempts, netVars>>

\* ShutdownGuard's drop, on every exit path.
Shutdown ==
  /\ pc = "exiting"
  /\ pc' = "shutdown"
  /\ state' = "done"
  /\ UNCHANGED <<terminalError, cmds, rxOpen, ticket, callerVars, pending, closing,
                 nextSeq, inFlight, drained, attempts, netVars>>

\* The receiver goes last, with the commands nobody took and their tickets.
DropReceiver ==
  /\ pc = "shutdown"
  /\ pc' = "done"
  /\ rxOpen' = FALSE
  /\ cmds' = <<>>
  /\ ticket' = Resolve(QueuedIds, "dropped")
  /\ UNCHANGED <<state, terminalError, callerVars, pending, closing, nextSeq,
                 inFlight, drained, attempts, netVars>>

\* The cancelled task drops everything it owns.
Cancelled ==
  /\ controller = "aborted" /\ Alive
  /\ ticket' = Resolve(PendingIds, "dropped")
  /\ pending' = <<>> /\ closing' = FALSE
  /\ inFlight' = NoWindow /\ drained' = NoDrain
  /\ pc' = "exiting"
  /\ UNCHANGED <<state, terminalError, cmds, rxOpen, callerVars, nextSeq,
                 attempts, netVars>>

\* Every handle is gone before the cancellation is noticed: the channel ends.
CommandsClosed ==
  /\ controller = "aborted" /\ WriteLockFree
  /\ pc = "select" /\ ~closing /\ cmds = <<>>
  /\ ticket' = FailedTickets({})
  /\ pending' = <<>>
  /\ inFlight' = NoWindow /\ drained' = NoDrain
  /\ pc' = "exiting"
  /\ UNCHANGED <<state, terminalError, cmds, rxOpen, callerVars, closing, nextSeq,
                 attempts, netVars>>

-----------------------------------------------------------------------------
(* drain_queued_commands: the command that woke the actor and those behind *)
(* it, one per step because producers keep sending, until the channel is   *)
(* empty, a close is taken, or the drained submissions fill the window.    *)

DrainTurn ==
  /\ pc = "drain" \/ (pc = "select" /\ ~closing)
  /\ cmds # <<>>

AdmitSubmission ==
  /\ DrainTurn /\ Head(cmds).kind = "submit"
  /\ LET c == Head(cmds)
         end == nextSeq + c.len                       \* WriterCursor::reserve
         taken == [records |-> drained.records + c.len,
                   bytes |-> drained.bytes + Bytes(nextSeq, end)]
         full == \/ taken.records >= MaxInFlightRecords
                 \/ taken.bytes >= MaxInFlightBytes
     IN /\ end <= MaxWriterSeq
        /\ pending' = Append(pending, [id |-> c.id, start |-> nextSeq, len |-> c.len,
                                       acked |-> 0, sent |-> 0, receipts |-> {}])
        /\ ticket' = [ticket EXCEPT ![c.id].start = nextSeq]
        /\ nextSeq' = end
        /\ drained' = IF full THEN NoDrain ELSE taken
        /\ pc' = IF full THEN "send" ELSE "drain"
  /\ cmds' = Tail(cmds)
  /\ UNCHANGED <<state, terminalError, rxOpen, callerVars, closing, inFlight,
                 attempts, netVars>>

\* The range would end past the last sequence number.
SequenceExhausted ==
  /\ DrainTurn /\ Head(cmds).kind = "submit"
  /\ nextSeq + Head(cmds).len > MaxWriterSeq
  /\ FinishWriterError({Head(cmds).id})
  /\ cmds' = Tail(cmds)
  /\ UNCHANGED <<state, rxOpen, producer, controller, nextSeq, attempts, netVars>>

AdmitClose ==
  /\ DrainTurn /\ Head(cmds).kind = "close"
  /\ cmds' = Tail(cmds)
  /\ closing' = TRUE
  /\ drained' = NoDrain
  /\ pc' = "send"
  /\ UNCHANGED <<state, terminalError, rxOpen, ticket, callerVars, pending, nextSeq,
                 inFlight, attempts, netVars>>

DrainEmpty ==
  /\ pc = "drain" /\ cmds = <<>>
  /\ drained' = NoDrain
  /\ pc' = "send"
  /\ UNCHANGED <<sharedVars, callerVars, pending, closing, nextSeq, inFlight,
                 attempts, netVars>>

-----------------------------------------------------------------------------
(* send_pending: frames of unsent records while the window has room, then  *)
(* one flush, which arms the acknowledgement deadline.                     *)

End(p) == p.start + p.len
Unsent == {i \in DOMAIN pending : pending[i].sent < pending[i].len}
\* take_frame starts at the first record not yet sent.
StartsFrame(lo) ==
  \/ Unsent = {} /\ lo = nextSeq
  \/ \E i \in Unsent : /\ \A k \in Unsent : i <= k
                      /\ lo = pending[i].start + pending[i].sent

\* Variant: the window check is late by one record.
FitsFrameOffByOne(lo, hi) ==
  /\ inFlight.records + (hi - lo) <= MaxInFlightRecords + 1
  /\ inFlight.bytes + Bytes(lo, hi) <= MaxInFlightBytes
  /\ hi - lo <= MaxFrameRecords
  /\ hi - lo > 1 => Bytes(lo, hi) <= MaxFrameBytes

\* It stops before the record that ends at `hi` when that breaks a limit.
FitsFrame(lo, hi) ==
  /\ inFlight.records + (hi - lo) <= MaxInFlightRecords
  /\ inFlight.bytes + Bytes(lo, hi) <= MaxInFlightBytes
  /\ hi - lo <= MaxFrameRecords
  /\ hi - lo > 1 => Bytes(lo, hi) <= MaxFrameBytes

\* The greedy frame [lo, hi); an empty one when not even one record fits.
IsFrame(lo, hi) ==
  /\ StartsFrame(lo)
  /\ hi \in lo..nextSeq
  /\ hi > lo => FitsFrame(lo, hi)
  /\ hi < nextSeq => ~FitsFrame(lo, hi + 1)

\* The submission's sent marker after a frame that ends at `hi`.
SentUpTo(p, hi) == [p EXCEPT !.sent = Max2(@, Min2(p.len, hi - p.start))]

\* take_frame charges the window, buffer_batch feeds the socket.
FeedFrame ==
  /\ pc \in {"send", "fed"}
  /\ \E lo, hi \in 0..nextSeq :
       /\ IsFrame(lo, hi) /\ lo < hi
       /\ pending' = [i \in DOMAIN pending |-> SentUpTo(pending[i], hi)]
       /\ inFlight' = [inFlight EXCEPT !.records = @ + (hi - lo),
                                       !.bytes = @ + Bytes(lo, hi)]
       /\ wires' = [wires EXCEPT ![Current] = Append(@, [lo |-> lo, hi |-> hi])]
  /\ pc' = "fed"
  /\ UNCHANGED <<sharedVars, callerVars, closing, nextSeq, drained, attempts,
                 stored, acks, silent, log>>

\* Variant: a flush does not arm the deadline.
UnarmedWindow == inFlight

\* InFlightWindow::arm: an armed deadline is not pushed back.
ArmedWindow == [inFlight EXCEPT !.armed = TRUE]

\* Nothing more fits: flush if anything was fed, and arm the deadline unless an
\* earlier send has.
SendDone ==
  /\ pc \in {"send", "fed"}
  /\ \E lo \in 0..nextSeq : IsFrame(lo, lo)
  /\ inFlight' = IF pc = "fed" THEN ArmedWindow ELSE inFlight
  /\ pc' = "select"
  /\ UNCHANGED <<sharedVars, callerVars, pending, closing, nextSeq, drained,
                 attempts, netVars>>

-----------------------------------------------------------------------------
(* dispatch_ack: the whole range is validated before anything changes.     *)

Unacked(p) == p.start + p.acked

\* The walk over pending covers the range `a` without a gap, and `a` counts no
\* more records than this connection has in flight.
AckValid(a) ==
  /\ a.ws < a.we /\ a.we - a.ws = a.de - a.ds
  /\ a.we - a.ws <= inFlight.records
  /\ \E k \in DOMAIN pending :
       /\ Unacked(pending[1]) = a.ws
       /\ \A i \in 1..(k - 1) : /\ End(pending[i]) = Unacked(pending[i + 1])
                                /\ End(pending[i]) < a.we
       /\ a.we <= End(pending[k])

\* The records are taken from the front of the queue, as many as `a` counts; the
\* j-th of them gets the j-th sequence number of both ranges of `a`.
AckedUpTo(a) == Unacked(pending[1]) + (a.we - a.ws)
\* Variant: every record gets the range's first durable number.
ReceiptForRange(w, a) == [w  |-> a.ws + (w - Unacked(pending[1])), at |-> a.ds]

ReceiptFor(w, a) == [w  |-> a.ws + (w - Unacked(pending[1])),
                     at |-> a.ds + (w - Unacked(pending[1]))]

\* Variant: a later acknowledgement replaces the receipts of an earlier one.
ReplacedReceipts(earlier, new) == new

AllReceipts(earlier, new) == earlier \cup new

Acknowledged(p, a) ==
  LET end == Max2(Unacked(p), Min2(End(p), AckedUpTo(a)))
      new == {ReceiptFor(w, a) : w \in Unacked(p)..(end - 1)}
  IN [p EXCEPT !.acked = end - p.start, !.receipts = AllReceipts(@, new)]

DispatchAck(a) ==
  \E done \in 0..Len(pending) :         \* submissions completed, from the front
    /\ \A i \in 1..done : End(pending[i]) <= AckedUpTo(a)
    /\ \A i \in (done + 1)..Len(pending) : End(pending[i]) > AckedUpTo(a)
    /\ pending' = [i \in 1..(Len(pending) - done) |->
                     Acknowledged(pending[done + i], a)]
    /\ ticket' = [id \in Submissions |->
                    IF \E i \in 1..done : pending[i].id = id
                      THEN LET i == CHOOSE j \in 1..done : pending[j].id = id
                           IN [ticket[id] EXCEPT
                                 !.st = "ok",
                                 !.receipts = Acknowledged(pending[i], a).receipts]
                      ELSE ticket[id]]
    /\ inFlight' =
         LET records == inFlight.records - (a.we - a.ws)
         IN [records |-> records,
             bytes |-> inFlight.bytes - Bytes(Unacked(pending[1]), AckedUpTo(a)),
             armed |-> records > 0]     \* InFlightWindow::restart

\* The select arm that polls next_ack.
AwaitsAck == pc = "select" /\ inFlight.records > 0

RecvAck ==
  /\ AwaitsAck /\ ~silent
  /\ acks # <<>> /\ AckValid(Head(acks))
  /\ DispatchAck(Head(acks))
  /\ acks' = Tail(acks)
  /\ attempts' = 0
  /\ pc' = "send"
  /\ UNCHANGED <<state, terminalError, cmds, rxOpen, callerVars, closing, nextSeq,
                 drained, wires, stored, silent, log>>

RecvInvalidAck ==
  /\ AwaitsAck /\ ~silent
  /\ acks # <<>> /\ ~AckValid(Head(acks))
  /\ FinishWriterError({})
  /\ acks' = Tail(acks)
  /\ UNCHANGED <<state, cmds, rxOpen, producer, controller, nextSeq, attempts,
                 wires, stored, silent, log>>

\* A retryable error, a normal close, or a failed write.  The bound leaves a
\* connection to recover on.
ConnectionFails ==
  /\ AwaitsAck \/ pc = "fed"
  /\ Current < MaxConnections
  /\ pc' = "recover"
  /\ UNCHANGED <<sharedVars, callerVars, pending, closing, nextSeq, inFlight,
                 drained, attempts, netVars>>

\* No acknowledgement within the progress timeout; the answer may be on its way.
AckDeadline ==
  /\ AwaitsAck /\ inFlight.armed
  /\ Current < MaxConnections
  /\ pc' = "recover"
  /\ UNCHANGED <<sharedVars, callerVars, pending, closing, nextSeq, inFlight,
                 drained, attempts, netVars>>

\* A non-retryable error: a policy close, an unexpected frame, another stream kind.
FatalError ==
  /\ AwaitsAck \/ pc \in {"fed", "recover"}
  /\ FinishWriterError({})
  /\ UNCHANGED <<state, cmds, rxOpen, producer, controller, nextSeq, attempts, netVars>>

-----------------------------------------------------------------------------
(* recover_pending_appends.                                                *)

\* One connect attempt fails in a retryable way; below the cap so that the
\* counter shows a change.
ReconnectFails ==
  /\ pc = "recover" /\ attempts < BackoffCap
  /\ attempts' = attempts + 1
  /\ UNCHANGED <<sharedVars, callerVars, pc, pending, closing, nextSeq, inFlight,
                 drained, netVars>>

\* Variant: the sent markers do not rewind.
KeptMarker(p) == p

\* Variant: the sent markers rewind past the acknowledged prefix.
RewoundToStart(p) == [p EXCEPT !.sent = 0]

\* What is sent again on a new connection: all but the acknowledged prefix.
Rewound(p) == [p EXCEPT !.sent = p.acked]

\* Variant: the window of the dead socket is carried over.
CarriedWindow == [inFlight EXCEPT !.armed = FALSE]

\* A fresh socket carries nothing, and its deadline is not armed.
FreshWindow == NoWindow

Reconnect ==
  /\ pc = "recover"
  /\ attempts' = Min2(attempts + 1, BackoffCap)
  /\ pending' = [i \in DOMAIN pending |-> Rewound(pending[i])]
  /\ inFlight' = FreshWindow
  /\ wires' = Append(wires, <<>>)
  /\ stored' = <<>> /\ acks' = <<>> /\ silent' = FALSE
  /\ pc' = "send"
  /\ UNCHANGED <<sharedVars, callerVars, closing, nextSeq, drained, log>>

-----------------------------------------------------------------------------
(* The service and the network (external).                                 *)

\* The service stores the first record of the first frame of connection `e`,
\* also of one the writer has abandoned.
StoreRecord(e) ==
  /\ e \in DOMAIN wires /\ wires[e] # <<>>
  /\ e = Current => ~silent
  /\ LET f == Head(wires[e])
     IN /\ log' = Append(log, f.lo)
        /\ wires' = [wires EXCEPT ![e] =
                       IF f.lo + 1 = f.hi THEN Tail(@)
                       ELSE <<[f EXCEPT !.lo = @ + 1]>> \o Tail(@)]
        /\ stored' = IF e = Current
                       THEN Append(stored, [w |-> f.lo, at |-> Len(log)])
                       ELSE stored
  /\ UNCHANGED <<sharedVars, callerVars, actorVars, acks, silent>>

\* It acknowledges a contiguous durable run of what this connection stored.
SendAck ==
  /\ ~silent
  /\ \E k \in 1..Len(stored) :
       /\ \A i \in 1..k : stored[i].at = stored[1].at + i - 1
       /\ acks' = Append(acks, [ws |-> stored[1].w, we |-> stored[1].w + k,
                                ds |-> stored[1].at, de |-> stored[1].at + k])
       /\ stored' = SubSeq(stored, k + 1, Len(stored))
  /\ UNCHANGED <<sharedVars, callerVars, actorVars, wires, silent, log>>

\* Another writer's record.
ForeignAppend ==
  /\ Cardinality({i \in DOMAIN log : log[i] = Foreign}) < MaxForeign
  /\ log' = Append(log, Foreign)
  /\ UNCHANGED <<sharedVars, callerVars, actorVars, wires, stored, acks, silent>>

\* The peer vanishes without an error the socket would report.
GoSilent ==
  /\ ~silent /\ Current < MaxConnections
  /\ silent' = TRUE
  /\ UNCHANGED <<sharedVars, callerVars, actorVars, wires, stored, acks, log>>

-----------------------------------------------------------------------------

Caller == (\E p \in Producers : SubmitCheck(p) \/ SubmitSend(p))
          \/ CloseMark \/ CloseSend \/ CloseJoin \/ Abort

RunWriter == \/ AdmitSubmission \/ AdmitClose \/ DrainEmpty \/ SequenceExhausted
             \/ FeedFrame \/ SendDone
             \/ RecvAck \/ RecvInvalidAck
             \/ Reconnect
             \/ CloseDone \/ Shutdown \/ DropReceiver \/ Cancelled \/ CommandsClosed

Environment == \/ ConnectionFails \/ AckDeadline \/ FatalError \/ ReconnectFails
               \/ (\E e \in DOMAIN wires : StoreRecord(e))
               \/ SendAck \/ ForeignAppend \/ GoSilent

\* Nothing is left to do: the handle is gone and so is the actor.
Finished ==
  /\ controller \in {"returned", "aborted"} /\ pc = "done"
  /\ UNCHANGED vars

Next == Caller \/ RunWriter \/ Environment \/ Finished

Spec == Init /\ [][Next]_vars

(* The runtime polls the actor, a held lock is released and a command sent *)
(* by code that never waits, a reachable service stores and acknowledges   *)
(* what the current connection brings it, the deadline fires when it does  *)
(* not, and some connect attempt succeeds (Reconnect, in RunWriter).       *)
Fairness ==
  /\ WF_vars(RunWriter)
  /\ \A p \in Producers : WF_vars(SubmitSend(p))
  /\ WF_vars(CloseSend) /\ WF_vars(CloseJoin)
  /\ WF_vars(StoreRecord(Current)) /\ WF_vars(SendAck)
  /\ WF_vars(silent /\ AckDeadline)

FairSpec == Spec /\ Fairness

-----------------------------------------------------------------------------
(* Properties.                                                             *)

(* Every variable has its type; the window and the markers stay in their   *)
(* bounds: acked <= sent <= len for every pending submission (the          *)
(* debug_assert of dispatch_ack), and the window within its two limits.    *)
SeqNums == 0..MaxWriterSeq
Receipts == [w : SeqNums, at : Nat]
Tickets == [st : {"none", "waiting", "ok", "error", "dropped"},
            start : SeqNums, len : Nat, receipts : SUBSET Receipts]
PendingSubmissions == [id : Submissions, start : SeqNums, len : Nat,
                       acked : Nat, sent : Nat, receipts : SUBSET Receipts]
Commands == {CloseCommand} \cup {SubmitCommand(id, len) : id \in Submissions, len \in BatchLens}
Frames == [lo : SeqNums, hi : SeqNums]

CallerTypeOK ==
  /\ state \in {"open", "closing", "done"}
  /\ terminalError \in BOOLEAN /\ rxOpen \in BOOLEAN
  /\ producer \in [Producers -> {"idle", "checked"}]
  /\ controller \in {"open", "marked", "joining", "returned", "aborted"}
  /\ closeResult \in {"none", "ok", "error"}

ChannelTypeOK ==
  /\ cmds \in Seq(Commands)
  /\ ticket \in [Submissions -> Tickets]

ActorTypeOK ==
  /\ pc \in {"send", "fed", "select", "drain", "recover"} \cup Settled
  /\ closing \in BOOLEAN
  /\ nextSeq \in SeqNums
  /\ inFlight \in [records : 0..MaxInFlightRecords, bytes : 0..MaxInFlightBytes,
                   armed : BOOLEAN]
  /\ drained \in [records : Nat, bytes : Nat]
  /\ attempts \in 0..BackoffCap

PendingTypeOK ==
  /\ pending \in Seq(PendingSubmissions)
  /\ \A i \in DOMAIN pending : /\ pending[i].acked <= pending[i].sent
                               /\ pending[i].sent <= pending[i].len

NetTypeOK ==
  /\ wires \in Seq(Seq(Frames)) \ {<<>>}
  /\ stored \in Seq([w : SeqNums, at : Nat])
  /\ acks \in Seq([ws : SeqNums, we : SeqNums, ds : Nat, de : Nat])
  /\ silent \in BOOLEAN
  /\ log \in Seq(SeqNums \cup {Foreign})

TypeOK ==
  CallerTypeOK /\ ChannelTypeOK /\ ActorTypeOK /\ PendingTypeOK /\ NetTypeOK

(* The window counts exactly the records sent on this connection and not   *)
(* yet acknowledged, in records and in bytes, across partial batches,      *)
(* partial acknowledgements and reconnects (take_frame charges it,         *)
(* dispatch_ack discharges it, recover_pending_appends replaces it).       *)
OnTheWire == {w \in 0..(nextSeq - 1) :
                \E i \in DOMAIN pending :
                  /\ Unacked(pending[i]) <= w
                  /\ w < pending[i].start + pending[i].sent}

WindowExact ==
  Alive => /\ inFlight.records = Cardinality(OnTheWire)
           /\ OnTheWire # {} =>
                \E lo, hi \in OnTheWire :
                  /\ \A w \in OnTheWire : lo <= w /\ w <= hi
                  /\ inFlight.bytes = Bytes(lo, hi + 1)
           /\ OnTheWire = {} => inFlight.bytes = 0

(* The actor never waits for the application alone while records are       *)
(* pending: something is in flight and the deadline that recovers from a   *)
(* silent service is armed (run_writer's select polls the acknowledgement  *)
(* arm only while records are in flight).                                  *)
NoStall ==
  pc = "select" /\ pending # <<>> => inFlight.records > 0 /\ inFlight.armed

(* The stream never shows a record before its predecessor of the same      *)
(* writer, whatever was resent or arrives late from abandoned connections: *)
(* a reader that keeps the records above the highest sequence number seen  *)
(* gets every record once and in submission order.                         *)
NoGap ==
  \A i \in DOMAIN log :
    log[i] > 0 => \E j \in 1..(i - 1) : log[j] = log[i] - 1

\* One receipt for each of the records lo, ..., hi - 1.
OneEach(receipts, lo, hi) ==
  /\ {r.w : r \in receipts} = lo..(hi - 1)
  /\ \A r, q \in receipts : r.w = q.w => r = q

(* A ticket that resolves has exactly one receipt for each record of its   *)
(* batch, under the writer sequence number that record was sent with.      *)
ReceiptsMatchBatch ==
  \A id \in Submissions : ticket[id].st = "ok" =>
    OneEach(ticket[id].receipts, ticket[id].start, End(ticket[id]))

(* Each receipt of a ticket names a position of the stream that holds that *)
(* record: success means durable, whichever connection stored the copy.    *)
ReceiptsDurable ==
  \A id \in Submissions : \A r \in ticket[id].receipts :
    r.at < Len(log) /\ log[r.at + 1] = r.w

(* close returns success only when every batch any producer got a ticket   *)
(* for is durable: the close command is the last one in the channel        *)
(* (submit_lock makes the close transition the linearization point).       *)
CloseDurable ==
  closeResult = "ok" => \A id \in Submissions : ticket[id].st \in {"none", "ok"}

NewFrameUncovered ==
  \A e \in DOMAIN wires :
    Len(wires'[e]) > Len(wires[e]) =>
      LET f == wires'[e][Len(wires'[e])]
      IN /\ \A id \in Submissions : \A r \in ticket[id].receipts : r.w < f.lo
         /\ \A i \in DOMAIN pending : \A r \in pending[i].receipts : r.w < f.lo

(* A new frame never carries a record that a resolved receipt or a pending *)
(* submission's acknowledged prefix already covers: recovery resends only  *)
(* the unacknowledged suffix (docs/protocol.md).                           *)
ResendsOnlyUnacked == [][NewFrameUncovered]_vars

(* Every ticket settles: with its receipts, or with the error that ended   *)
(* the writer; no interruption, silent peer or cancellation leaves one     *)
(* pending forever.                                                        *)
TicketsSettle ==
  \A id \in Submissions : ticket[id].st = "waiting" ~> ticket[id].st # "waiting"

(* A close returns, or its caller gives it up.                             *)
CloseReturns ==
  controller \in {"marked", "joining"} ~> controller \in {"returned", "aborted"}

=============================================================================
