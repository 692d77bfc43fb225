----------------------- MODULE DurableWriterInvariants -----------------------
(***************************************************************************)
(* The inductive invariant of the durable writer.  It says in terms of two *)
(* points of the writer's sequence what the per-submission markers, the    *)
(* window and the frames on the network say piecemeal: everything below    *)
(* the acknowledged point is in the stream, and everything between it and  *)
(* the sent point is in flight on the current connection.                  *)
(***************************************************************************)
EXTENDS DurableWriterRefinement

AckPoint == IF pending = <<>> THEN nextSeq ELSE Unacked(pending[1])
SentPoint == AckPoint + inFlight.records

\* How much of `p` lies below the point `hi`.
PrefixBelow(p, hi) ==
  IF hi <= p.start THEN 0 ELSE IF End(p) <= hi THEN p.len ELSE hi - p.start

(* The pending submissions tile the numbers up to the cursor, only the     *)
(* front one is partly acknowledged, and the sent markers and the window   *)
(* agree on one sent point.                                                *)
QueueInv ==
  /\ \A i \in DOMAIN pending :
       /\ pending[i].acked < pending[i].len
       /\ End(pending[i]) <= nextSeq
       /\ i > 1 => pending[i].acked = 0
       /\ i = Len(pending) => End(pending[i]) = nextSeq
       /\ i < Len(pending) => End(pending[i]) = pending[i + 1].start
       /\ pending[i].sent = PrefixBelow(pending[i], SentPoint)
  /\ \A i, j \in DOMAIN pending : i < j => End(pending[i]) <= pending[j].start
  /\ AckPoint \in 0..nextSeq /\ SentPoint \in AckPoint..nextSeq
  /\ inFlight.bytes = Bytes(AckPoint, SentPoint)

\* Whenever the actor may block with records in flight, the deadline is armed.
DeadlineInv ==
  /\ pc \in {"send", "select", "drain"} /\ inFlight.records > 0 => inFlight.armed
  /\ pc = "select" /\ pending # <<>> => inFlight.records > 0

\* The stream `records` holds every record below `n`.
Holds(records, n) == \A w \in 0..(n - 1) : \E j \in DOMAIN records : records[j] = w
PresentBelow(n) == Holds(log, n)

(* The frames of a connection follow one another, and whatever precedes    *)
(* the first of them is in the stream, for abandoned connections too.      *)
WireInv ==
  \A e \in DOMAIN wires :
    /\ \A i \in DOMAIN wires[e] :
         /\ wires[e][i].lo < wires[e][i].hi
         /\ i < Len(wires[e]) => wires[e][i].hi = wires[e][i + 1].lo
    /\ wires[e] # <<>> => PresentBelow(wires[e][1].lo)

(* What the service stored on the current connection is a contiguous run   *)
(* that ends where the connection's next frame begins.                     *)
StoredInv ==
  /\ \A i \in DOMAIN stored :
       /\ stored[i].w = stored[1].w + i - 1
       /\ stored[i].w < MaxWriterSeq
       /\ PresentBelow(stored[i].w + 1)
  /\ stored # <<>> /\ wires[Current] # <<>> =>
       wires[Current][1].lo = stored[Len(stored)].w + 1
  /\ \A i \in DOMAIN acks : PresentBelow(acks[i].we)

(* The current connection's stream of records ends at the sent point.      *)
CurrentInv ==
  Alive =>
    /\ PresentBelow(AckPoint)
    /\ wires[Current] # <<>> => wires[Current][Len(wires[Current])].hi = SentPoint
    /\ wires[Current] = <<>> => PresentBelow(SentPoint)
    /\ wires[Current] = <<>> /\ stored # <<>> => stored[Len(stored)].w + 1 = SentPoint

WriterInv ==
  /\ TypeOK
  /\ Alive => QueueInv
  /\ ~Alive => pending = <<>>
  /\ DeadlineInv
  /\ WireInv
  /\ StoredInv
  /\ CurrentInv
  /\ NoGap

-----------------------------------------------------------------------------
(* What receipts, tickets and close rest on, given WriterInv.              *)

\* The stream `records` holds the record of `r` at the position it names.
RecordedIn(records, r) == r.at < Len(records) /\ records[r.at + 1] = r.w

(* What is stored, acknowledged and received names records of the stream.  *)
DurableInv ==
  /\ \A i \in DOMAIN stored : RecordedIn(log, stored[i])
  /\ \A i \in DOMAIN acks : \A w \in acks[i].ws..(acks[i].we - 1) :
       RecordedIn(log, [w |-> w, at |-> acks[i].ds + (w - acks[i].ws)])
  /\ \A i \in DOMAIN pending : \A r \in pending[i].receipts : RecordedIn(log, r)
  /\ ReceiptsDurable

Queued == {i \in DOMAIN cmds : cmds[i].kind = "submit"}

\* A pending submission has the receipts of its acknowledged prefix.
PendingMatch ==
  \A i \in DOMAIN pending :
    LET p == pending[i]
    IN /\ ticket[p.id].st = "waiting"
       /\ ticket[p.id].start = p.start /\ ticket[p.id].len = p.len
       /\ OneEach(p.receipts, p.start, p.start + p.acked)

QueuedMatch ==
  \A i \in Queued : ticket[cmds[i].id].st = "waiting" /\ ticket[cmds[i].id].len = cmds[i].len

\* A submission is queued or pending once.
DistinctIds ==
  /\ \A i, j \in DOMAIN pending : pending[i].id = pending[j].id => i = j
  /\ \A i, j \in Queued : cmds[i].id = cmds[j].id => i = j
  /\ \A i \in DOMAIN pending, j \in Queued : pending[i].id # cmds[j].id

(* A ticket whose submission is queued or pending waits, and one that is   *)
(* answered has the receipts of the whole batch.                           *)
MatchInv == PendingMatch /\ QueuedMatch /\ DistinctIds /\ ReceiptsMatchBatch

(* Nothing that a ticket has a receipt for is sent again.                  *)
CoveredInv ==
  Alive => \A id \in Submissions : \A r \in ticket[id].receipts : r.w < AckPoint

\* No producer will send another command.
NoMoreSubmits == state # "open" /\ WriteLockFree

\* The controller has sent its close, or given up.
CloseSent == NoMoreSubmits /\ controller \notin {"open", "marked"}

\* No ticket has failed, and one without an outcome is in a queue.
TicketsOpen ==
  \A id \in Submissions :
    /\ ticket[id].st \in {"none", "waiting", "ok"}
    /\ ticket[id].st = "waiting" => id \in PendingIds \cup QueuedIds

(* The close command is the last one: when the actor has taken it and its  *)
(* queue is empty, no ticket waits.                                        *)
CloseInv ==
  /\ controller = "marked" => NoMoreSubmits
  /\ \A i \in DOMAIN cmds : cmds[i].kind = "close" => i = Len(cmds) /\ CloseSent
  /\ closing => cmds = <<>> /\ CloseSent
  /\ Alive => TicketsOpen
  /\ closeResult = "ok" => /\ CloseSent /\ ~Alive /\ cmds = <<>>
                          /\ \A id \in Submissions : ticket[id].st \in {"none", "ok"}

ReceiptInv == DurableInv /\ MatchInv /\ CoveredInv /\ CloseInv

-----------------------------------------------------------------------------
(* What the mapping to ReliableAppend rests on, given the above.           *)

\* The numbers below `n`, in order.
Ramp(n) == [i \in 1..n |-> i - 1]

\* A reader has kept the numbers up to the highest one in the stream.
VisibleInv ==
  /\ Len(Visible) \in Nat /\ Visible = Ramp(Len(Visible))
  /\ \A j \in DOMAIN log : log[j] < Len(Visible)
  /\ PresentBelow(Len(Visible))

\* Frames carry numbers that were given out; only an actor that ended has
\* answered a close.
NumberedInv ==
  /\ \A e \in DOMAIN wires : \A i \in DOMAIN wires[e] : wires[e][i].hi <= nextSeq
  /\ Alive => closeResult = "none"
  /\ ~rxOpen => pc = "done"

MappingInv == VisibleInv /\ NumberedInv

\* Every record of the stream can be acknowledged.
LogBounded == \A j \in DOMAIN log : log[j] < MaxWriterSeq
=============================================================================
