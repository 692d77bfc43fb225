-------------------------- MODULE DurableWriterProofs --------------------------
(***************************************************************************)
(* Safety of the durable writer for every number of producers, batches,    *)
(* connections and records and every window.  WriterInv is inductive;      *)
(* given it, so is ReceiptInv, what the tickets and the close promise,     *)
(* whose four parts are proved one after the other.  With them the writer  *)
(* is shown to implement ReliableAppend, step by step; and so is a writer  *)
(* whose service acknowledges out of turn (FaultySpec).                    *)
(***************************************************************************)
EXTENDS DurableWriterInvariants, FaultyService, SequenceTheorems, FiniteSetTheorems,
        WellFoundedInduction, TLAPS

\* What of the assumption the arithmetic needs, without its quantifiers.
LEMMA Bounds ==
  /\ MaxWriterSeq \in Nat /\ BackoffCap \in Nat
  /\ MaxInFlightRecords \in Nat \ {0} /\ MaxFrameRecords \in Nat \ {0}
  /\ MaxInFlightBytes \in Nat /\ MaxFrameBytes \in Nat /\ MaxRecordBytes \in Nat
  /\ MaxRecordBytes <= MaxInFlightBytes /\ MaxRecordBytes <= MaxFrameBytes
BY WriterAssumption

LEMMA BytesType ==
  ASSUME NEW lo \in SeqNums, NEW hi \in SeqNums, lo <= hi
  PROVE  Bytes(lo, hi) \in Nat
BY WriterAssumption DEF Bytes, SeqNums

LEMMA BytesSplit ==
  ASSUME NEW lo \in SeqNums, NEW mid \in SeqNums, NEW hi \in SeqNums
  PROVE  Bytes(lo, mid) + Bytes(mid, hi) = Bytes(lo, hi)
BY WriterAssumption DEF Bytes, SeqNums

LEMMA BytesOfRecord ==
  ASSUME NEW lo \in SeqNums, lo + 1 \in SeqNums
  PROVE  Bytes(lo, lo + 1) <= MaxRecordBytes
<1>1. lo \in 0..(MaxWriterSeq - 1)
  BY Bounds DEF SeqNums
<1>. QED BY <1>1, WriterAssumption DEF Bytes

\* Sequences, in the terms the steps use them.
LEMMA SeqFacts ==
  ASSUME NEW S, NEW s \in Seq(S)
  PROVE  /\ Len(s) \in Nat /\ DOMAIN s = 1..Len(s)
         /\ \A i \in DOMAIN s : s[i] \in S
         /\ (s = <<>>) <=> (Len(s) = 0)
OBVIOUS

LEMMA TupleFacts ==
  ASSUME NEW S, NEW n \in Nat, NEW f \in [1..n -> S]
  PROVE  f \in Seq(S) /\ Len(f) = n
OBVIOUS

LEMMA TailFacts ==
  ASSUME NEW S, NEW s \in Seq(S), s # <<>>
  PROVE  /\ Tail(s) \in Seq(S) /\ Len(Tail(s)) = Len(s) - 1 /\ Len(s) \in Nat \ {0}
         /\ DOMAIN Tail(s) = 1..(Len(s) - 1)
         /\ \A i \in DOMAIN Tail(s) : Tail(s)[i] = s[i + 1] /\ i + 1 \in DOMAIN s
<1>1. Tail(s) \in Seq(S) /\ Len(Tail(s)) = Len(s) - 1 /\ Len(s) \in Nat \ {0}
  BY HeadTailProperties
<1>2. DOMAIN s = 1..Len(s) /\ DOMAIN Tail(s) = 1..(Len(s) - 1)
  BY <1>1, SeqFacts
<1>3. \A i \in 1..(Len(s) - 1) : Tail(s)[i] = s[i + 1]
  OBVIOUS
<1>. QED BY <1>1, <1>2, <1>3

LEMMA SuffixFacts ==
  ASSUME NEW S, NEW s \in Seq(S), NEW k \in 1..Len(s)
  PROVE  LET t == SubSeq(s, k + 1, Len(s))
         IN /\ t \in Seq(S) /\ Len(t) = Len(s) - k
            /\ DOMAIN t = 1..(Len(s) - k)
            /\ \A i \in DOMAIN t : t[i] = s[i + k] /\ i + k \in DOMAIN s
<1>. DEFINE t == SubSeq(s, k + 1, Len(s))
<1>1. Len(s) \in Nat /\ DOMAIN s = 1..Len(s) /\ \A i \in DOMAIN s : s[i] \in S
  BY SeqFacts
<1>2. t = [i \in 1..(Len(s) - k) |-> s[i + k]]
  <2>1. t = [i \in 1..(1 + Len(s) - (k + 1)) |-> s[i + (k + 1) - 1]]
    BY <1>1
  <2>2. 1 + Len(s) - (k + 1) = Len(s) - k
    BY <1>1
  <2>3. \A i \in 1..(Len(s) - k) : i + (k + 1) - 1 = i + k
    BY <1>1
  <2>. QED BY <2>1, <2>2, <2>3
<1>. HIDE DEF t
<1>3. \A i \in 1..(Len(s) - k) : i + k \in DOMAIN s
  BY <1>1
<1>4. t \in [1..(Len(s) - k) -> S] /\ Len(s) - k \in Nat
  BY <1>1, <1>2, <1>3
<1>5. t \in Seq(S) /\ Len(t) = Len(s) - k
  BY <1>4
<1>. QED BY <1>2, <1>3, <1>4, <1>5 DEF t

LEMMA PendingFacts ==
  ASSUME PendingTypeOK
  PROVE  /\ DOMAIN pending = 1..Len(pending) /\ Len(pending) \in Nat
         /\ \A i \in DOMAIN pending :
              /\ pending[i] \in PendingSubmissions
              /\ pending[i].start \in Nat /\ pending[i].len \in Nat
              /\ pending[i].acked \in Nat /\ pending[i].sent \in Nat
              /\ pending[i].acked <= pending[i].sent
              /\ pending[i].sent <= pending[i].len
<1>1. /\ DOMAIN pending = 1..Len(pending) /\ Len(pending) \in Nat
      /\ \A i \in DOMAIN pending : /\ pending[i] \in PendingSubmissions
                                   /\ pending[i].acked <= pending[i].sent
                                   /\ pending[i].sent <= pending[i].len
  BY DEF PendingTypeOK
<1>2. SeqNums \subseteq Nat
  BY Bounds DEF SeqNums
<1>. QED BY <1>1, <1>2 DEF PendingSubmissions

-----------------------------------------------------------------------------

LEMMA InitInv == Init => WriterInv
<1> SUFFICES ASSUME Init PROVE WriterInv
  OBVIOUS
<1> USE DEF Init
<1>1. TypeOK
  <2>1. CallerTypeOK
    BY DEF CallerTypeOK
  <2>2. ChannelTypeOK
    <3>1. NewTicket \in Tickets
      BY WriterAssumption DEF NewTicket, Tickets, SeqNums
    <3>. QED BY <3>1 DEF ChannelTypeOK
  <2>3. ActorTypeOK
    <3>1. NoWindow \in [records : 0..MaxInFlightRecords, bytes : 0..MaxInFlightBytes,
                        armed : BOOLEAN]
      BY WriterAssumption DEF NoWindow
    <3>2. NoDrain \in [records : Nat, bytes : Nat]
      BY DEF NoDrain
    <3>3. nextSeq \in SeqNums /\ attempts \in 0..BackoffCap
      BY WriterAssumption DEF SeqNums
    <3>. QED BY <3>1, <3>2, <3>3 DEF ActorTypeOK
  <2>4. PendingTypeOK
    BY DEF PendingTypeOK
  <2>5. NetTypeOK
    <3>1. << <<>> >> \in Seq(Seq(Frames)) /\ << <<>> >> # <<>>
      OBVIOUS
    <3>2. stored = <<>> /\ acks = <<>> /\ log = <<>> /\ silent = FALSE
      OBVIOUS
    <3>3. stored \in Seq([w : SeqNums, at : Nat])
      BY <3>2
    <3>4. acks \in Seq([ws : SeqNums, we : SeqNums, ds : Nat, de : Nat])
      BY <3>2
    <3>5. log \in Seq(SeqNums \cup {Foreign})
      BY <3>2
    <3>. QED BY <3>1, <3>2, <3>3, <3>4, <3>5, Zenon DEF NetTypeOK, Init
  <2>. QED BY <2>1, <2>2, <2>3, <2>4, <2>5 DEF TypeOK
<1>2. QueueInv
  BY WriterAssumption DEF QueueInv, AckPoint, SentPoint, NoWindow, Bytes
<1>3. DeadlineInv /\ WireInv /\ StoredInv /\ NoGap
  BY DEF DeadlineInv, WireInv, StoredInv, NoGap, NoWindow
<1>4. CurrentInv
  BY DEF CurrentInv, PresentBelow, Holds, AckPoint, SentPoint, NoWindow, Current
<1>. QED BY <1>1, <1>2, <1>3, <1>4 DEF WriterInv, Alive, Settled

-----------------------------------------------------------------------------
(* Steps that touch neither the queue, nor the window, nor the stream.     *)

LEMMA QuietStep ==
  ASSUME WriterInv,
         UNCHANGED <<pending, nextSeq, wires, stored, acks, log>>,
         inFlight'.records = inFlight.records, inFlight'.bytes = inFlight.bytes,
         Alive' => Alive, ~Alive' => pending = <<>>
  PROVE  /\ Alive' => QueueInv'
         /\ ~Alive' => pending' = <<>>
         /\ WireInv' /\ StoredInv' /\ CurrentInv' /\ NoGap'
<1>1. Alive' => QueueInv'
  BY DEF WriterInv, QueueInv, AckPoint, SentPoint, PrefixBelow, End, Unacked, Bytes
<1>2. WireInv' /\ StoredInv' /\ NoGap'
  BY DEF WriterInv, WireInv, StoredInv, NoGap, PresentBelow, Current
<1>3. CurrentInv'
  BY DEF WriterInv, CurrentInv, AckPoint, SentPoint, Unacked, PresentBelow, Current
<1>. QED BY <1>1, <1>2, <1>3

\* The types of the state such a step may change are left to each action.
LEMMA QuietTypes ==
  ASSUME TypeOK,
         UNCHANGED <<pending, wires, stored, acks, log>>, silent' \in BOOLEAN
  PROVE  PendingTypeOK' /\ NetTypeOK'
BY DEF TypeOK, PendingTypeOK, NetTypeOK

LEMMA ActorUnchanged ==
  ASSUME WriterInv, UNCHANGED <<actorVars, wires, stored, acks, log>>,
         silent' \in BOOLEAN, CallerTypeOK', ChannelTypeOK'
  PROVE  WriterInv'
<1>1. /\ UNCHANGED <<pending, nextSeq, inFlight, wires, stored, acks, log, pc>>
      /\ Alive' = Alive
  BY DEF actorVars, Alive, Settled
<1>2. /\ Alive' => QueueInv'
      /\ ~Alive' => pending' = <<>>
      /\ WireInv' /\ StoredInv' /\ CurrentInv' /\ NoGap'
  BY <1>1, QuietStep DEF WriterInv
<1>3. DeadlineInv'
  BY <1>1 DEF WriterInv, DeadlineInv
<1>4. ActorTypeOK' /\ PendingTypeOK' /\ NetTypeOK'
  BY <1>1, QuietTypes DEF WriterInv, TypeOK, ActorTypeOK, actorVars, Settled
<1>. QED BY <1>2, <1>3, <1>4 DEF WriterInv, TypeOK

LEMMA CallerInv == WriterInv /\ Caller => WriterInv'
<1> SUFFICES ASSUME WriterInv, Caller PROVE WriterInv'
  OBVIOUS
<1> USE DEF WriterInv, TypeOK
<1>1. /\ UNCHANGED <<actorVars, wires, stored, acks, log, silent>>
      /\ silent' \in BOOLEAN
  BY DEF Caller, SubmitCheck, SubmitSend, CloseMark, CloseSend, CloseJoin, Abort,
         netVars, NetTypeOK
<1>2. CallerTypeOK'
  <2>1. ASSUME NEW p \in Producers, SubmitCheck(p) PROVE CallerTypeOK'
    BY <2>1 DEF SubmitCheck, CallerTypeOK, sharedVars
  <2>2. ASSUME NEW p \in Producers, SubmitSend(p) PROVE CallerTypeOK'
    BY <2>2 DEF SubmitSend, CallerTypeOK
  <2>3. CASE CloseMark \/ CloseSend \/ CloseJoin \/ Abort
    BY <2>3 DEF CloseMark, CloseSend, CloseJoin, Abort, CallerTypeOK, sharedVars
  <2>. QED BY <2>1, <2>2, <2>3 DEF Caller
<1>3. ChannelTypeOK'
  <2>1. ASSUME NEW p \in Producers, SubmitCheck(p) PROVE ChannelTypeOK'
    BY <2>1 DEF SubmitCheck, ChannelTypeOK, sharedVars
  <2>2. ASSUME NEW p \in Producers, SubmitSend(p) PROVE ChannelTypeOK'
    <3>1. ASSUME NEW id \in Submissions, NEW len \in BatchLens,
                 cmds' = Append(cmds, SubmitCommand(id, len)),
                 ticket' = [ticket EXCEPT ![id].st = "waiting", ![id].len = len]
          PROVE  ChannelTypeOK'
      <4>1. SubmitCommand(id, len) \in Commands
        BY DEF Commands
      <4>2. cmds' \in Seq(Commands)
        BY <3>1, <4>1, AppendProperties DEF ChannelTypeOK
      <4>3. len \in Nat
        BY WriterAssumption
      <4>4. ticket' \in [Submissions -> Tickets]
        BY <3>1, <4>3 DEF ChannelTypeOK, Tickets
      <4>. QED BY <4>2, <4>4 DEF ChannelTypeOK
    <3>. QED BY <2>2, <3>1 DEF SubmitSend, ChannelTypeOK
  <2>3. CASE CloseMark \/ CloseJoin \/ Abort
    BY <2>3 DEF CloseMark, CloseJoin, Abort, ChannelTypeOK, sharedVars
  <2>4. CASE CloseSend
    <3>1. CloseCommand \in Commands
      BY DEF Commands
    <3>2. cmds' \in Seq(Commands)
      BY <2>4, <3>1, AppendProperties DEF CloseSend, ChannelTypeOK
    <3>. QED BY <2>4, <3>2 DEF CloseSend, ChannelTypeOK
  <2>. QED BY <2>1, <2>2, <2>3, <2>4 DEF Caller
<1>. QED BY <1>1, <1>2, <1>3, ActorUnchanged

-----------------------------------------------------------------------------
(* Steps of the actor that only change where its loop is.                  *)

ControlStep == \/ CloseDone \/ Shutdown \/ DropReceiver
               \/ AdmitClose \/ DrainEmpty
               \/ ConnectionFails \/ AckDeadline \/ ReconnectFails

LEMMA ControlInv == WriterInv /\ ControlStep => WriterInv'
<1> SUFFICES ASSUME WriterInv, ControlStep PROVE WriterInv'
  OBVIOUS
<1> USE DEF WriterInv, TypeOK
<1>1. UNCHANGED <<pending, nextSeq, inFlight, wires, stored, acks, log, silent>>
  BY DEF ControlStep, CloseDone, Shutdown, DropReceiver, AdmitClose, DrainEmpty,
         ConnectionFails, AckDeadline, ReconnectFails, netVars
<1>2. (Alive' => Alive) /\ (~Alive' => pending = <<>>)
  BY DEF ControlStep, CloseDone, Shutdown, DropReceiver, AdmitClose, DrainEmpty,
         DrainTurn, ConnectionFails, AckDeadline, ReconnectFails, Alive, Settled, AwaitsAck
<1>3. /\ Alive' => QueueInv'
      /\ ~Alive' => pending' = <<>>
      /\ WireInv' /\ StoredInv' /\ CurrentInv' /\ NoGap'
  BY <1>1, <1>2, QuietStep
<1>4. DeadlineInv'
  BY <1>1 DEF DeadlineInv, ControlStep, CloseDone, Shutdown, DropReceiver, AdmitClose,
              DrainEmpty, DrainTurn, ConnectionFails, AckDeadline, ReconnectFails
<1>5. PendingTypeOK' /\ NetTypeOK'
  BY <1>1, QuietTypes DEF NetTypeOK
<1>6. CallerTypeOK'
  BY DEF CallerTypeOK, ControlStep, CloseDone, Shutdown, DropReceiver, AdmitClose,
         DrainEmpty, ConnectionFails, AckDeadline, ReconnectFails, sharedVars, callerVars
<1>7. ActorTypeOK'
  <2>1. /\ pc' \in {"send", "fed", "select", "drain", "recover"} \cup Settled
        /\ closing' \in BOOLEAN
    BY DEF ActorTypeOK, ControlStep, CloseDone, Shutdown, DropReceiver, AdmitClose,
        DrainEmpty, ConnectionFails, AckDeadline, ReconnectFails, Settled
  <2>2. drained' = drained \/ drained' = NoDrain
    BY DEF ControlStep, CloseDone, Shutdown, DropReceiver, AdmitClose,
           DrainEmpty, ConnectionFails, AckDeadline, ReconnectFails
  <2>3. drained' \in [records : Nat, bytes : Nat]
    BY <2>2 DEF ActorTypeOK, NoDrain
  <2>4. BackoffCap \in Nat
    BY WriterAssumption
  <2>5. attempts' \in 0..BackoffCap
    BY <2>4 DEF ActorTypeOK, ControlStep, CloseDone, Shutdown, DropReceiver, AdmitClose,
                DrainEmpty, ConnectionFails, AckDeadline, ReconnectFails
  <2>. QED BY <1>1, <2>1, <2>3, <2>5 DEF ActorTypeOK
<1>8. ChannelTypeOK'
  <2>1. CASE DropReceiver
    <3>1. Resolve(QueuedIds, "dropped") \in [Submissions -> Tickets]
      BY DEF Resolve, ChannelTypeOK, Tickets
    <3>2. cmds' = <<>> /\ ticket' = Resolve(QueuedIds, "dropped")
      BY <2>1 DEF DropReceiver
    <3>. QED BY <3>1, <3>2 DEF ChannelTypeOK
  <2>2. CASE AdmitClose
    BY <2>2, HeadTailProperties DEF AdmitClose, DrainTurn, ChannelTypeOK
  <2>3. CASE ~DropReceiver /\ ~AdmitClose
    BY <2>3 DEF ChannelTypeOK, ControlStep, CloseDone, Shutdown, DrainEmpty,
                ConnectionFails, AckDeadline, ReconnectFails, sharedVars
  <2>. QED BY <2>1, <2>2, <2>3
<1>. QED BY <1>3, <1>4, <1>5, <1>6, <1>7, <1>8

LEMMA GoSilentInv == WriterInv /\ GoSilent => WriterInv'
BY ActorUnchanged DEF GoSilent, WriterInv, TypeOK, CallerTypeOK, ChannelTypeOK,
                      sharedVars, callerVars

-----------------------------------------------------------------------------
(* The ends of the actor: nothing is pending any more.                     *)

EndStep == \/ FatalError \/ RecvInvalidAck \/ SequenceExhausted
           \/ Cancelled \/ CommandsClosed

LEMMA EndInv == WriterInv /\ EndStep => WriterInv'
<1> SUFFICES ASSUME WriterInv, EndStep PROVE WriterInv'
  OBVIOUS
<1> USE DEF WriterInv, TypeOK
<1>1. /\ pc' = "exiting" /\ pending' = <<>>
      /\ inFlight' = NoWindow /\ drained' = NoDrain /\ closing' = FALSE
      /\ UNCHANGED <<nextSeq, attempts, wires, stored, log, silent>>
  BY DEF EndStep, FatalError, RecvInvalidAck, SequenceExhausted, Cancelled,
         CommandsClosed,          FinishWriterError, netVars
<1>2. acks' = acks \/ (acks # <<>> /\ acks' = Tail(acks))
  BY DEF EndStep, FatalError, RecvInvalidAck, SequenceExhausted, Cancelled,
         CommandsClosed, netVars
<1>3. ~Alive' /\ CurrentInv' /\ DeadlineInv'
  BY <1>1 DEF Alive, Settled, CurrentInv, DeadlineInv
<1>4. WireInv' /\ NoGap'
  BY <1>1 DEF WireInv, NoGap, PresentBelow
<1>5. StoredInv'
  <2>1. \A i \in DOMAIN acks' : PresentBelow(acks'[i].we)
    <3>1. CASE acks' = acks
      BY <3>1 DEF StoredInv
    <3>2. CASE acks # <<>> /\ acks' = Tail(acks)
      <4>1. /\ DOMAIN acks' = 1..(Len(acks) - 1)
            /\ \A i \in 1..(Len(acks) - 1) : acks'[i] = acks[i + 1]
        BY <3>2, HeadTailProperties DEF NetTypeOK
      <4>2. DOMAIN acks = 1..Len(acks) /\ Len(acks) \in Nat
        BY DEF NetTypeOK
      <4>3. \A i \in DOMAIN acks : PresentBelow(acks[i].we)
        BY DEF StoredInv
      <4>4. ASSUME NEW i \in DOMAIN acks' PROVE PresentBelow(acks'[i].we)
        <5>1. i + 1 \in DOMAIN acks /\ acks'[i] = acks[i + 1]
          BY <4>1, <4>2
        <5>. QED BY <4>3, <5>1
      <4>. QED BY <4>4
    <3>. QED BY <1>2, <3>1, <3>2
  <2>. QED BY <1>1, <2>1 DEF StoredInv, PresentBelow, Current
<1>6. PendingTypeOK' /\ NetTypeOK'
  <2>1. PendingTypeOK'
    <3>1. pending' \in Seq(PendingSubmissions) /\ DOMAIN pending' = {}
      BY <1>1
    <3>. QED BY <3>1 DEF PendingTypeOK
  <2>2. acks' \in Seq([ws : SeqNums, we : SeqNums, ds : Nat, de : Nat])
    <3>. DEFINE Acks == [ws : SeqNums, we : SeqNums, ds : Nat, de : Nat]
    <3>1. acks \in Seq(Acks)
      BY DEF NetTypeOK
    <3>2. acks # <<>> => Tail(acks) \in Seq(Acks)
      <4>. HIDE DEF Acks
      <4>. QED BY <3>1
    <3>. QED BY <1>2, <3>1, <3>2
  <2>. QED BY <1>1, <2>1, <2>2 DEF NetTypeOK
<1>7. ActorTypeOK'
  <2>1. NoWindow \in [records : 0..MaxInFlightRecords, bytes : 0..MaxInFlightBytes,
                      armed : BOOLEAN]
    BY WriterAssumption DEF NoWindow
  <2>2. NoDrain \in [records : Nat, bytes : Nat]
    BY DEF NoDrain
  <2>. QED BY <1>1, <2>1, <2>2 DEF ActorTypeOK, Settled
<1>8. CallerTypeOK'
  BY DEF CallerTypeOK, EndStep, FatalError, RecvInvalidAck, SequenceExhausted,
         Cancelled, CommandsClosed, FinishWriterError, callerVars
<1>9. ChannelTypeOK'
  <2>1. cmds' \in Seq(Commands)
    BY DEF ChannelTypeOK, EndStep, FatalError, RecvInvalidAck, SequenceExhausted,
           Cancelled, CommandsClosed, DrainTurn
  <2>2. ticket' \in [Submissions -> Tickets]
    <3>1. \A lost : FailedTickets(lost) \in [Submissions -> Tickets]
      BY DEF FailedTickets, ChannelTypeOK, Tickets
    <3>2. Resolve(PendingIds, "dropped") \in [Submissions -> Tickets]
      BY DEF Resolve, ChannelTypeOK, Tickets
    <3>. QED BY <3>1, <3>2 DEF EndStep, FatalError, RecvInvalidAck, SequenceExhausted,
                               Cancelled, CommandsClosed, FinishWriterError
  <2>. QED BY <2>1, <2>2 DEF ChannelTypeOK
<1>. QED BY <1>1, <1>3, <1>4, <1>5, <1>6, <1>7, <1>8, <1>9

-----------------------------------------------------------------------------
(* send_pending.                                                           *)

\* What the queue's shape says about the first record not yet sent.
LEMMA FrameStart ==
  ASSUME TypeOK, QueueInv, NEW lo, StartsFrame(lo)
  PROVE  /\ lo = SentPoint
         /\ pending # <<>> /\ inFlight.records = 0 => SentPoint < nextSeq
<1> USE DEF TypeOK
<1>1. /\ DOMAIN pending = 1..Len(pending) /\ Len(pending) \in Nat
      /\ \A i \in DOMAIN pending :
           /\ pending[i].start \in Nat /\ pending[i].len \in Nat
           /\ pending[i].acked \in Nat /\ pending[i].sent \in Nat
  BY PendingFacts
<1>2. nextSeq \in Nat /\ inFlight.records \in Nat
  BY Bounds DEF ActorTypeOK, SeqNums
<1>3. AckPoint \in 0..nextSeq /\ SentPoint \in AckPoint..nextSeq
  BY DEF QueueInv
<1>4. \A i \in DOMAIN pending :
        /\ pending[i].acked < pending[i].len
        /\ i > 1 => pending[i].acked = 0
        /\ i = Len(pending) => End(pending[i]) = nextSeq
        /\ i < Len(pending) => End(pending[i]) = pending[i + 1].start
        /\ pending[i].sent = PrefixBelow(pending[i], SentPoint)
  BY DEF QueueInv
<1>5. pending # <<>> => AckPoint = pending[1].start + pending[1].acked
  BY DEF AckPoint, Unacked
<1>6. CASE Unsent = {} /\ lo = nextSeq
  <2>1. CASE pending = <<>>
    BY <1>2, <1>3, <1>6, <2>1 DEF AckPoint
  <2>2. CASE pending # <<>>
    <3>. DEFINE n == Len(pending)
    <3>1. n \in DOMAIN pending /\ 1 \in DOMAIN pending
      BY <1>1, <2>2
    <3>2. pending[n].sent >= pending[n].len
      BY <1>1, <1>6, <3>1 DEF Unsent
    <3>3. End(pending[n]) = nextSeq /\ pending[n].len > 0
      BY <1>1, <1>4, <3>1
    <3>4. SentPoint >= nextSeq
      BY <1>1, <1>2, <1>3, <1>4, <3>1, <3>2, <3>3 DEF PrefixBelow, End
    <3>5. inFlight.records # 0
      <4>1. AckPoint < nextSeq
        BY SMTT(30), <1>1, <1>4, <1>5, <2>2, <3>1 DEF QueueInv, End
      <4>. QED BY <1>2, <1>3, <3>4, <4>1 DEF SentPoint
    <3>. QED BY <1>2, <1>3, <1>6, <3>4, <3>5
  <2>. QED BY <2>1, <2>2
<1>7. ASSUME NEW i \in Unsent, \A k \in Unsent : i <= k,
             lo = pending[i].start + pending[i].sent
      PROVE  lo = SentPoint /\ SentPoint < nextSeq
  <2>1. i \in DOMAIN pending /\ pending[i].sent < pending[i].len
    BY DEF Unsent
  <2>2. SentPoint < End(pending[i])
    BY <1>1, <1>2, <1>3, <1>4, <2>1 DEF PrefixBelow, End
  <2>3. SentPoint >= pending[i].start
    <3>1. CASE i = 1
      BY <1>1, <1>2, <1>3, <1>5, <2>1, <3>1
    <3>2. CASE i > 1
      <4>1. i - 1 \in DOMAIN pending /\ i - 1 < Len(pending)
        BY <1>1, <2>1, <3>2
      <4>2. pending[i - 1].sent >= pending[i - 1].len
        BY <1>1, <1>7, <2>1, <4>1 DEF Unsent
      <4>3. SentPoint >= End(pending[i - 1])
        BY <1>1, <1>2, <1>3, <1>4, <4>1, <4>2 DEF PrefixBelow, End
      <4>4. End(pending[i - 1]) = pending[i].start
        BY <1>1, <1>4, <4>1, <2>1
      <4>. QED BY <4>3, <4>4
    <3>. QED BY <1>1, <2>1, <3>1, <3>2
  <2>4. End(pending[i]) <= nextSeq
    BY <2>1 DEF QueueInv
  <2>. QED BY <1>1, <1>2, <1>3, <1>4, <1>7, <2>1, <2>2, <2>3, <2>4 DEF PrefixBelow, End
<1>. QED BY <1>6, <1>7 DEF StartsFrame

LEMMA SendDoneInv == WriterInv /\ SendDone => WriterInv'
<1> SUFFICES ASSUME WriterInv, SendDone PROVE WriterInv'
  OBVIOUS
<1>. USE DEF WriterInv, TypeOK
<1>1. /\ UNCHANGED <<pending, nextSeq, wires, stored, acks, log, silent>>
      /\ UNCHANGED <<sharedVars, callerVars, closing, drained, attempts>>
      /\ pc' = "select" /\ pc \in {"send", "fed"}
  BY DEF SendDone, netVars
<1>2. /\ inFlight'.records = inFlight.records /\ inFlight'.bytes = inFlight.bytes
      /\ inFlight'.armed \in BOOLEAN
      /\ inFlight' \in [records : 0..MaxInFlightRecords, bytes : 0..MaxInFlightBytes,
                       armed : BOOLEAN]
      /\ inFlight.records > 0 => inFlight'.armed
  BY DEF SendDone, ActorTypeOK, ArmedWindow, DeadlineInv
<1>3. Alive /\ Alive'
  BY <1>1 DEF Alive, Settled
<1>4. /\ QueueInv' /\ WireInv' /\ StoredInv' /\ CurrentInv' /\ NoGap'
  BY <1>1, <1>2, <1>3, QuietStep
<1>5. ASSUME pending # <<>> PROVE inFlight.records > 0
  <2>1. SUFFICES ASSUME inFlight.records = 0 PROVE FALSE
    BY Bounds DEF ActorTypeOK
  <2>2. PICK lo \in 0..nextSeq : IsFrame(lo, lo)
    BY DEF SendDone
  <2>3. lo = SentPoint /\ lo < nextSeq
    BY <1>3, <1>5, <2>1, <2>2, FrameStart DEF IsFrame
  <2>4. ~FitsFrame(lo, lo + 1)
    BY <2>2, <2>3 DEF IsFrame
  <2>5. lo \in SeqNums /\ lo + 1 \in SeqNums
    BY Bounds, <2>2, <2>3 DEF ActorTypeOK, SeqNums
  <2>6. AckPoint = SentPoint
    BY <1>3, <2>1 DEF SentPoint, QueueInv
  <2>7. inFlight.bytes = 0
    BY <1>3, <2>3, <2>5, <2>6, WriterAssumption DEF QueueInv, Bytes, SeqNums
  <2>8. Bytes(lo, lo + 1) <= MaxRecordBytes /\ Bytes(lo, lo + 1) \in Nat
    BY <2>5, BytesOfRecord, BytesType, Bounds DEF SeqNums
  <2>9. lo + 1 - lo = 1
    BY <2>2
  <2>. QED BY <2>1, <2>4, <2>7, <2>8, <2>9, Bounds DEF FitsFrame
<1>6. DeadlineInv'
  BY <1>1, <1>2, <1>5 DEF DeadlineInv
<1>7. PendingTypeOK' /\ NetTypeOK'
  BY <1>1, QuietTypes DEF NetTypeOK
<1>8. CallerTypeOK' /\ ChannelTypeOK'
  BY <1>1 DEF CallerTypeOK, ChannelTypeOK, sharedVars, callerVars
<1>9. ActorTypeOK'
  BY <1>1, <1>2 DEF ActorTypeOK
<1>. QED BY <1>3, <1>4, <1>6, <1>7, <1>8, <1>9

\* The sent marker of one submission after a frame that ends at `hi`.
LEMMA MarkerMoves ==
  ASSUME NEW p \in PendingSubmissions, NEW lo \in Nat, NEW hi \in Nat, lo < hi,
         p.sent = PrefixBelow(p, lo)
  PROVE  LET q == SentUpTo(p, hi)
         IN /\ q \in PendingSubmissions
            /\ q.start = p.start /\ q.len = p.len /\ q.acked = p.acked
            /\ q.sent = PrefixBelow(p, hi)
            /\ p.sent <= q.sent /\ q.sent <= p.len
<1>1. p.start \in Nat /\ p.len \in Nat /\ p.sent \in Nat
  BY Bounds DEF PendingSubmissions, SeqNums
<1>2. Max2(p.sent, Min2(p.len, hi - p.start)) = PrefixBelow(p, hi)
  BY <1>1 DEF Max2, Min2, PrefixBelow, End
<1>3. PrefixBelow(p, hi) \in Nat /\ PrefixBelow(p, hi) <= p.len
  BY <1>1 DEF PrefixBelow, End
<1>4. PrefixBelow(p, lo) <= PrefixBelow(p, hi)
  BY <1>1 DEF PrefixBelow, End
<1>5. SentUpTo(p, hi) = [p EXCEPT !.sent = PrefixBelow(p, hi)]
  BY <1>2 DEF SentUpTo
<1>. HIDE DEF PrefixBelow
<1>. QED BY <1>1, <1>3, <1>4, <1>5 DEF PendingSubmissions

LEMMA FeedFrameInv == WriterInv /\ FeedFrame => WriterInv'
<1> SUFFICES ASSUME WriterInv, FeedFrame PROVE WriterInv'
  OBVIOUS
<1>. USE DEF WriterInv, TypeOK
<1>1. PICK lo \in 0..nextSeq, hi \in 0..nextSeq :
        /\ IsFrame(lo, hi) /\ lo < hi
        /\ pending' = [i \in DOMAIN pending |-> SentUpTo(pending[i], hi)]
        /\ inFlight' = [inFlight EXCEPT !.records = @ + (hi - lo),
                                        !.bytes = @ + Bytes(lo, hi)]
        /\ wires' = [wires EXCEPT ![Current] = Append(@, [lo |-> lo, hi |-> hi])]
  BY DEF FeedFrame
<1>2. /\ pc \in {"send", "fed"} /\ pc' = "fed"
      /\ UNCHANGED <<sharedVars, callerVars, closing, nextSeq, drained, attempts,
                     stored, acks, silent, log>>
  BY DEF FeedFrame
<1>3. Alive /\ Alive'
  BY <1>2 DEF Alive, Settled
<1>4. lo = SentPoint /\ FitsFrame(lo, hi)
  BY <1>1, <1>3, FrameStart DEF IsFrame
<1>5. /\ nextSeq \in Nat /\ inFlight.records \in Nat /\ inFlight.bytes \in Nat
      /\ nextSeq \in SeqNums
      /\ lo \in Nat /\ hi \in Nat /\ lo \in SeqNums /\ hi \in SeqNums
  BY <1>1, Bounds DEF ActorTypeOK, SeqNums
<1>6. /\ inFlight'.records = inFlight.records + (hi - lo)
      /\ inFlight'.bytes = inFlight.bytes + Bytes(lo, hi)
      /\ inFlight' \in [records : 0..MaxInFlightRecords, bytes : 0..MaxInFlightBytes,
                       armed : BOOLEAN]
  <2>1. Bytes(lo, hi) \in Nat
    BY <1>1, <1>5, BytesType
  <2>2. /\ inFlight.records + (hi - lo) \in 0..MaxInFlightRecords
        /\ inFlight.bytes + Bytes(lo, hi) \in 0..MaxInFlightBytes
    <3>1. /\ inFlight.records + (hi - lo) <= MaxInFlightRecords
          /\ inFlight.bytes + Bytes(lo, hi) <= MaxInFlightBytes
      BY <1>4 DEF FitsFrame
    <3>2. hi - lo \in Nat /\ MaxInFlightRecords \in Nat /\ MaxInFlightBytes \in Nat
      BY <1>1, <1>5, Bounds
    <3>. QED BY SMTT(30), <1>5, <2>1, <3>1, <3>2
  <2>3. inFlight \in [records : 0..MaxInFlightRecords, bytes : 0..MaxInFlightBytes,
                     armed : BOOLEAN]
    BY DEF ActorTypeOK
  <2>. QED BY <1>1, <2>2, <2>3
<1>7. /\ DOMAIN pending = 1..Len(pending) /\ Len(pending) \in Nat
      /\ \A i \in DOMAIN pending : pending[i] \in PendingSubmissions
  BY DEF PendingTypeOK
<1>8. /\ DOMAIN pending' = DOMAIN pending
      /\ pending' \in Seq(PendingSubmissions) /\ Len(pending') = Len(pending)
      /\ \A i \in DOMAIN pending :
           /\ pending'[i].start = pending[i].start
           /\ pending'[i].len = pending[i].len
           /\ pending'[i].acked = pending[i].acked
           /\ pending'[i].sent = PrefixBelow(pending[i], hi)
           /\ pending[i].sent <= pending'[i].sent /\ pending'[i].sent <= pending[i].len
  <2>1. ASSUME NEW i \in DOMAIN pending
        PROVE  /\ pending'[i] \in PendingSubmissions
               /\ pending'[i].start = pending[i].start
               /\ pending'[i].len = pending[i].len
               /\ pending'[i].acked = pending[i].acked
               /\ pending'[i].sent = PrefixBelow(pending[i], hi)
               /\ pending[i].sent <= pending'[i].sent /\ pending'[i].sent <= pending[i].len
    <3>1. pending[i].sent = PrefixBelow(pending[i], lo)
      BY <1>3, <1>4 DEF QueueInv
    <3>2. pending'[i] = SentUpTo(pending[i], hi) /\ pending[i] \in PendingSubmissions
      BY <1>1, <1>7
    <3>. QED BY <1>1, <1>5, <3>1, <3>2, MarkerMoves
  <2>2. DOMAIN pending' = 1..Len(pending)
    BY <1>1, <1>7
  <2>3. pending' \in [1..Len(pending) -> PendingSubmissions]
    <3>1. pending' = [i \in 1..Len(pending) |-> pending'[i]]
      BY <1>1, <1>7
    <3>. QED BY <1>7, <2>1, <3>1
  <2>4. pending' \in Seq(PendingSubmissions) /\ Len(pending') = Len(pending)
    BY <1>7, <2>2, <2>3
  <2>. QED BY <1>7, <2>1, <2>2, <2>4
<1>9. AckPoint' = AckPoint /\ SentPoint' = hi
  <2>1. (pending' = <<>>) = (pending = <<>>)
    BY <1>7, <1>8
  <2>2. pending # <<>> => 1 \in DOMAIN pending
    BY <1>7
  <2>3. AckPoint' = AckPoint
    BY <1>2, <1>8, <2>1, <2>2 DEF AckPoint, Unacked
  <2>4. AckPoint \in Nat
    BY <1>3, <1>5 DEF QueueInv
  <2>. QED BY <1>1, <1>4, <1>5, <1>6, <2>3, <2>4 DEF SentPoint
<1>10. QueueInv'
  <2>1. \A i \in DOMAIN pending' :
          /\ pending'[i].acked < pending'[i].len
          /\ End(pending'[i]) <= nextSeq'
          /\ i > 1 => pending'[i].acked = 0
          /\ i = Len(pending') => End(pending'[i]) = nextSeq'
          /\ i < Len(pending') => End(pending'[i]) = pending'[i + 1].start
          /\ pending'[i].sent = PrefixBelow(pending'[i], SentPoint')
    BY <1>2, <1>3, <1>7, <1>8, <1>9 DEF QueueInv, End, PrefixBelow
  <2>2. \A i, j \in DOMAIN pending' : i < j => End(pending'[i]) <= pending'[j].start
    BY <1>3, <1>8 DEF QueueInv, End
  <2>3. AckPoint' \in 0..nextSeq' /\ SentPoint' \in AckPoint'..nextSeq'
    BY <1>1, <1>2, <1>3, <1>4, <1>5, <1>9 DEF QueueInv
  <2>4. inFlight'.bytes = Bytes(AckPoint, hi)
    <3>1. AckPoint \in SeqNums
      BY <1>3, <1>5, Bounds DEF QueueInv, SeqNums
    <3>2. inFlight.bytes = Bytes(AckPoint, lo)
      BY <1>3, <1>4 DEF QueueInv
    <3>. QED BY <1>5, <1>6, <3>1, <3>2, BytesSplit
  <2>5. inFlight'.bytes = Bytes(AckPoint', SentPoint')
    BY <2>4, <1>9
  <2>. QED BY <2>1, <2>2, <2>3, <2>5 DEF QueueInv, Bytes
<1>11. DeadlineInv'
  BY <1>2 DEF DeadlineInv
<1>12. /\ Current \in DOMAIN wires /\ Current' = Current
       /\ DOMAIN wires' = DOMAIN wires /\ wires' \in Seq(Seq(Frames)) \ {<<>>}
       /\ \A e \in DOMAIN wires : e # Current => wires'[e] = wires[e]
       /\ wires[Current] \in Seq(Frames)
       /\ wires'[Current] = Append(wires[Current], [lo |-> lo, hi |-> hi])
  <2>1. [lo |-> lo, hi |-> hi] \in Frames
    BY <1>5 DEF Frames
  <2>2. wires \in Seq(Seq(Frames)) \ {<<>>}
    BY DEF NetTypeOK
  <2>. HIDE DEF Frames
  <2>3. Current \in DOMAIN wires /\ wires[Current] \in Seq(Frames)
    BY <2>2 DEF Current
  <2>4. Append(wires[Current], [lo |-> lo, hi |-> hi]) \in Seq(Frames)
    BY <2>1, <2>3, AppendProperties
  <2>5. wires' \in Seq(Seq(Frames)) /\ Len(wires') = Len(wires)
    BY <1>1, <2>2, <2>3, <2>4
  <2>. QED BY <1>1, <2>2, <2>3, <2>5 DEF Current
<1>13. /\ Len(wires[Current]) \in Nat
       /\ DOMAIN wires[Current] = 1..Len(wires[Current])
       /\ Len(wires'[Current]) = Len(wires[Current]) + 1
       /\ DOMAIN wires'[Current] = 1..(Len(wires[Current]) + 1)
       /\ \A i \in DOMAIN wires[Current] : wires'[Current][i] = wires[Current][i]
       /\ wires'[Current][Len(wires[Current]) + 1] = [lo |-> lo, hi |-> hi]
  <2>. HIDE DEF Frames
  <2>. QED BY <1>12
<1>14. WireInv'
  <2>2. ASSUME NEW e \in DOMAIN wires, e # Current
        PROVE  /\ \A i \in DOMAIN wires'[e] :
                    /\ wires'[e][i].lo < wires'[e][i].hi
                    /\ i < Len(wires'[e]) => wires'[e][i].hi = wires'[e][i + 1].lo
               /\ wires'[e] # <<>> => Holds(log', wires'[e][1].lo)
    BY <1>2, <1>12, <2>2 DEF WireInv, PresentBelow
  <2>3. ASSUME NEW i \in DOMAIN wires'[Current]
        PROVE  /\ wires'[Current][i].lo < wires'[Current][i].hi
               /\ i < Len(wires'[Current]) =>
                    wires'[Current][i].hi = wires'[Current][i + 1].lo
    <3>1. CASE i = Len(wires[Current]) + 1
      BY <1>1, <1>13, <3>1
    <3>2. CASE i = Len(wires[Current])
      <4>1. i \in DOMAIN wires[Current] /\ wires[Current] # <<>>
        BY <1>13, <2>3, <3>2
      <4>2. wires[Current][i].hi = SentPoint
        BY <1>3, <3>2, <4>1 DEF CurrentInv
      <4>. QED BY <1>4, <1>12, <1>13, <3>2, <4>1, <4>2 DEF WireInv
    <3>3. CASE i < Len(wires[Current])
      <4>1. i \in DOMAIN wires[Current] /\ i + 1 \in DOMAIN wires[Current]
        BY <1>13, <2>3, <3>3
      <4>. QED BY <1>12, <1>13, <3>3, <4>1 DEF WireInv
    <3>. QED BY <1>13, <2>3, <3>1, <3>2, <3>3
  <2>4. Holds(log', wires'[Current][1].lo)
    <3>1. CASE wires[Current] = <<>>
      <4>1. PresentBelow(lo)
        BY <1>3, <1>4, <3>1 DEF CurrentInv
      <4>2. wires'[Current][1].lo = lo
        BY <1>13, <3>1
      <4>. QED BY <1>2, <4>1, <4>2 DEF PresentBelow
    <3>2. CASE wires[Current] # <<>>
      <4>1. 1 \in DOMAIN wires[Current]
        BY <1>12, <1>13, <3>2
      <4>2. PresentBelow(wires[Current][1].lo)
        BY <1>12, <3>2 DEF WireInv
      <4>. QED BY <1>2, <1>13, <4>1, <4>2 DEF PresentBelow
    <3>. QED BY <3>1, <3>2
  <2>. QED BY <1>12, <2>2, <2>3, <2>4 DEF WireInv, PresentBelow
<1>15. StoredInv'
  <2>1. stored # <<>> => wires'[Current][1].lo = stored[Len(stored)].w + 1
    <3>1. CASE wires[Current] = <<>>
      BY <1>3, <1>4, <1>13, <3>1 DEF CurrentInv
    <3>2. CASE wires[Current] # <<>>
      <4>1. 1 \in DOMAIN wires[Current]
        BY <1>12, <1>13, <3>2
      <4>. QED BY <1>13, <3>2, <4>1 DEF StoredInv
    <3>. QED BY <3>1, <3>2
  <2>. QED BY <1>2, <1>12, <2>1 DEF StoredInv, PresentBelow
<1>16. CurrentInv'
  <2>1. wires'[Current] # <<>> /\ wires'[Current][Len(wires'[Current])].hi = hi
    BY <1>13
  <2>2. PresentBelow(AckPoint)'
    BY <1>2, <1>3, <1>9 DEF CurrentInv, PresentBelow
  <2>. QED BY <1>9, <1>12, <2>1, <2>2 DEF CurrentInv
<1>17. NoGap'
  BY <1>2 DEF NoGap
<1>18. PendingTypeOK'
  <2>1. \A i \in DOMAIN pending : /\ pending[i].acked \in Nat /\ pending[i].sent \in Nat
                                  /\ pending[i].len \in Nat
    BY <1>7 DEF PendingSubmissions
  <2>2. \A i \in DOMAIN pending' : pending'[i] \in PendingSubmissions
    BY <1>8
  <2>3. \A i \in DOMAIN pending' : pending'[i].sent \in Nat
    BY <2>2 DEF PendingSubmissions
  <2>. QED BY <1>8, <2>1, <2>3 DEF PendingTypeOK
<1>19. ActorTypeOK'
  BY <1>2, <1>6 DEF ActorTypeOK
<1>20. NetTypeOK'
  BY <1>2, <1>12 DEF NetTypeOK
<1>21. CallerTypeOK' /\ ChannelTypeOK'
  BY <1>2 DEF CallerTypeOK, ChannelTypeOK, sharedVars, callerVars
<1>. QED BY <1>3, <1>10, <1>11, <1>14, <1>15, <1>16, <1>17, <1>18, <1>19, <1>20, <1>21

-----------------------------------------------------------------------------
(* The stream grows.                                                       *)

LEMMA HoldsMore ==
  ASSUME NEW S, NEW records \in Seq(S), NEW w, NEW n, Holds(records, n)
  PROVE  Holds(Append(records, w), n)
<1>1. /\ DOMAIN records \subseteq DOMAIN Append(records, w)
      /\ \A j \in DOMAIN records : Append(records, w)[j] = records[j]
  OBVIOUS
<1>. QED BY <1>1 DEF Holds

LEMMA HoldsNext ==
  ASSUME NEW S, NEW records \in Seq(S), NEW n \in Nat, Holds(records, n)
  PROVE  Holds(Append(records, n), n + 1)
<1>1. /\ DOMAIN records \subseteq DOMAIN Append(records, n)
      /\ \A j \in DOMAIN records : Append(records, n)[j] = records[j]
      /\ Len(records) + 1 \in DOMAIN Append(records, n)
      /\ Append(records, n)[Len(records) + 1] = n
  OBVIOUS
<1>2. \A w \in 0..(n + 1 - 1) : w \in 0..(n - 1) \/ w = n
  OBVIOUS
<1>. QED BY <1>1, <1>2 DEF Holds

\* A record may be appended when all below it are there.
LEMMA NoGapMore ==
  ASSUME TypeOK, NoGap, NEW w \in SeqNums \cup {Foreign}, w > 0 => Holds(log, w),
         log' = Append(log, w)
  PROVE  NoGap'
<1>1. /\ log \in Seq(SeqNums \cup {Foreign}) /\ Len(log) \in Nat
      /\ DOMAIN log = 1..Len(log) /\ DOMAIN log' = 1..(Len(log) + 1)
      /\ \A i \in DOMAIN log : log'[i] = log[i]
      /\ log'[Len(log) + 1] = w
  BY DEF TypeOK, NetTypeOK
<1>2. ASSUME NEW i \in DOMAIN log', log'[i] > 0
      PROVE  \E j \in 1..(i - 1) : log'[j] = log'[i] - 1
  <2>1. CASE i \in DOMAIN log
    <3>1. PICK j \in 1..(i - 1) : log[j] = log[i] - 1
      BY <1>1, <1>2, <2>1 DEF NoGap
    <3>2. j \in DOMAIN log
      BY <1>1, <2>1, <3>1
    <3>. QED BY <1>1, <2>1, <3>1, <3>2
  <2>2. CASE i = Len(log) + 1
    <3>1. w \in Nat \ {0}
      BY <1>1, <1>2, <2>2, Bounds DEF SeqNums, Foreign
    <3>2. w - 1 \in 0..(w - 1)
      BY <3>1
    <3>3. PICK j \in DOMAIN log : log[j] = w - 1
      BY <3>1, <3>2 DEF Holds
    <3>. QED BY <1>1, <2>2, <3>3
  <2>. QED BY <1>1, <1>2, <2>1, <2>2
<1>. QED BY <1>2 DEF NoGap

LEMMA ForeignAppendInv == WriterInv /\ ForeignAppend => WriterInv'
<1> SUFFICES ASSUME WriterInv, ForeignAppend PROVE WriterInv'
  OBVIOUS
<1>. USE DEF WriterInv, TypeOK
<1>1. /\ UNCHANGED <<sharedVars, callerVars, actorVars, wires, stored, acks, silent>>
      /\ log' = Append(log, Foreign)
  BY DEF ForeignAppend
<1>2. log \in Seq(SeqNums \cup {Foreign})
  BY DEF NetTypeOK
<1>3. \A n : Holds(log, n) => Holds(log', n)
  BY <1>1, <1>2, HoldsMore
<1>4. NoGap'
  <2>1. ~(Foreign > 0)
    BY DEF Foreign
  <2>. QED BY <1>1, <2>1, NoGapMore
<1>5. WireInv' /\ StoredInv'
  BY <1>1, <1>3 DEF WireInv, StoredInv, PresentBelow, Current
<1>6. CurrentInv' /\ (Alive' => QueueInv') /\ (~Alive' => pending' = <<>>) /\ DeadlineInv'
  <2>1. UNCHANGED <<pc, pending, nextSeq, inFlight>> /\ Alive' = Alive
    BY <1>1 DEF actorVars, Alive, Settled
  <2>2. CurrentInv'
    BY <1>1, <1>3, <2>1 DEF CurrentInv, AckPoint, SentPoint, Unacked, PresentBelow, Current
  <2>. QED BY <2>1, <2>2 DEF QueueInv, DeadlineInv, AckPoint, SentPoint, PrefixBelow, End,
                             Unacked, Bytes
<1>7. log' \in Seq(SeqNums \cup {Foreign})
  <2>. DEFINE Entries == SeqNums \cup {Foreign}
  <2>1. log \in Seq(Entries) /\ Foreign \in Entries
    BY <1>2
  <2>. HIDE DEF Entries
  <2>2. Append(log, Foreign) \in Seq(Entries)
    BY <2>1, AppendProperties
  <2>. QED BY <1>1, <2>2 DEF Entries
<1>8. NetTypeOK'
  BY <1>1, <1>7 DEF NetTypeOK
<1>9. CallerTypeOK' /\ ChannelTypeOK' /\ ActorTypeOK' /\ PendingTypeOK'
  BY <1>1 DEF CallerTypeOK, ChannelTypeOK, ActorTypeOK, PendingTypeOK, sharedVars,
              callerVars, actorVars, Settled
<1>. QED BY <1>4, <1>5, <1>6, <1>8, <1>9

-----------------------------------------------------------------------------
(* recover_pending_appends.                                                *)

LEMMA ReconnectInv == WriterInv /\ Reconnect => WriterInv'
<1> SUFFICES ASSUME WriterInv, Reconnect PROVE WriterInv'
  OBVIOUS
<1>. USE DEF WriterInv, TypeOK
<1>1. /\ pc = "recover" /\ pc' = "send" /\ inFlight' = NoWindow
      /\ pending' = [i \in DOMAIN pending |-> [pending[i] EXCEPT !.sent = pending[i].acked]]
      /\ wires' = Append(wires, <<>>)
      /\ stored' = <<>> /\ acks' = <<>> /\ silent' = FALSE
      /\ UNCHANGED <<sharedVars, callerVars, closing, nextSeq, drained, log>>
  BY DEF Reconnect, Rewound, FreshWindow
<1>2. Alive /\ Alive' /\ QueueInv
  BY <1>1 DEF Alive, Settled
<1>3. /\ DOMAIN pending = 1..Len(pending) /\ Len(pending) \in Nat
      /\ \A i \in DOMAIN pending : pending[i] \in PendingSubmissions
      /\ \A i \in DOMAIN pending :
           /\ pending[i].start \in Nat /\ pending[i].len \in Nat
           /\ pending[i].acked \in Nat /\ pending[i].sent \in Nat
           /\ pending[i].acked <= pending[i].sent /\ pending[i].sent <= pending[i].len
  BY PendingFacts
<1>4. nextSeq \in Nat /\ nextSeq \in SeqNums
  BY Bounds DEF ActorTypeOK, SeqNums
<1>5. /\ DOMAIN pending' = DOMAIN pending
      /\ pending' \in Seq(PendingSubmissions) /\ Len(pending') = Len(pending)
      /\ \A i \in DOMAIN pending :
           /\ pending'[i].start = pending[i].start
           /\ pending'[i].len = pending[i].len
           /\ pending'[i].acked = pending[i].acked
           /\ pending'[i].sent = pending[i].acked
  <2>1. ASSUME NEW i \in DOMAIN pending
        PROVE  /\ pending'[i] \in PendingSubmissions
               /\ pending'[i].start = pending[i].start
               /\ pending'[i].len = pending[i].len
               /\ pending'[i].acked = pending[i].acked
               /\ pending'[i].sent = pending[i].acked
    BY <1>1, <1>3 DEF PendingSubmissions
  <2>2. pending' \in [1..Len(pending) -> PendingSubmissions]
    BY <1>1, <1>3, <2>1
  <2>3. pending' \in Seq(PendingSubmissions) /\ Len(pending') = Len(pending)
    BY <1>3, <2>2
  <2>. QED BY <1>1, <2>1, <2>3
<1>6. AckPoint' = AckPoint /\ SentPoint' = AckPoint /\ AckPoint \in Nat
  <2>1. (pending' = <<>>) = (pending = <<>>) /\ (pending # <<>> => 1 \in DOMAIN pending)
    BY <1>3, <1>5
  <2>2. AckPoint' = AckPoint
    BY <1>1, <1>5, <2>1 DEF AckPoint, Unacked
  <2>3. AckPoint \in Nat
    BY <1>2, <1>4 DEF QueueInv
  <2>. QED BY <1>1, <2>2, <2>3 DEF SentPoint, NoWindow
<1>7. QueueInv'
  <2>1. ASSUME NEW i \in DOMAIN pending
        PROVE  pending[i].acked = PrefixBelow(pending[i], AckPoint)
    <3>1. pending # <<>> /\ 1 \in DOMAIN pending
      BY <1>3
    <3>2. AckPoint = pending[1].start + pending[1].acked
      BY <3>1 DEF AckPoint, Unacked
    <3>3. pending[1].acked < pending[1].len
      BY <1>2, <3>1 DEF QueueInv
    <3>4. CASE i = 1
      BY <1>3, <3>1, <3>2, <3>3, <3>4 DEF PrefixBelow, End
    <3>5. CASE i > 1
      <4>1. pending[i].acked = 0 /\ End(pending[1]) <= pending[i].start
        BY <1>2, <1>3, <3>1, <3>5 DEF QueueInv
      <4>. QED BY <1>3, <3>1, <3>2, <3>3, <4>1 DEF PrefixBelow, End
    <3>. QED BY <1>3, <3>4, <3>5
  <2>2. \A i \in DOMAIN pending' :
          /\ pending'[i].acked < pending'[i].len
          /\ End(pending'[i]) <= nextSeq'
          /\ i > 1 => pending'[i].acked = 0
          /\ i = Len(pending') => End(pending'[i]) = nextSeq'
          /\ i < Len(pending') => End(pending'[i]) = pending'[i + 1].start
          /\ pending'[i].sent = PrefixBelow(pending'[i], SentPoint')
    <3>1. \A i \in DOMAIN pending :
            pending'[i].sent = PrefixBelow(pending'[i], SentPoint')
      BY <1>5, <1>6, <2>1 DEF PrefixBelow, End
    <3>. HIDE DEF PrefixBelow
    <3>2. \A i \in DOMAIN pending : i < Len(pending) => i + 1 \in DOMAIN pending
      BY <1>3
    <3>. QED BY <1>1, <1>2, <1>5, <3>1, <3>2 DEF QueueInv, End
  <2>3. \A i, j \in DOMAIN pending' : i < j => End(pending'[i]) <= pending'[j].start
    BY <1>2, <1>5 DEF QueueInv, End
  <2>4. AckPoint' \in 0..nextSeq' /\ SentPoint' \in AckPoint'..nextSeq'
    BY <1>1, <1>2, <1>4, <1>6 DEF QueueInv
  <2>5. Bytes(AckPoint, AckPoint) = 0
    <3>1. AckPoint \in SeqNums
      BY <1>2, <1>4, Bounds DEF QueueInv, SeqNums
    <3>. QED BY <3>1, WriterAssumption DEF Bytes, SeqNums
  <2>6. inFlight'.bytes = Bytes(AckPoint', SentPoint')
    BY <1>1, <1>6, <2>5 DEF NoWindow
  <2>. QED BY <2>2, <2>3, <2>4, <2>6 DEF QueueInv, Bytes
<1>8. /\ wires' \in Seq(Seq(Frames)) \ {<<>>}
      /\ Current' = Current + 1 /\ Current \in Nat
      /\ DOMAIN wires = 1..Current /\ DOMAIN wires' = 1..(Current + 1)
      /\ wires'[Current'] = <<>>
      /\ \A e \in DOMAIN wires : wires'[e] = wires[e]
  <2>1. wires \in Seq(Seq(Frames)) /\ <<>> \in Seq(Frames)
    BY DEF NetTypeOK
  <2>. HIDE DEF Frames
  <2>2. wires' \in Seq(Seq(Frames)) /\ wires' # <<>>
    BY <1>1, <2>1, AppendProperties
  <2>. QED BY <1>1, <2>1, <2>2 DEF Current
<1>9. WireInv' /\ StoredInv' /\ NoGap' /\ DeadlineInv'
  <2>1. WireInv'
    BY SMTT(30), <1>1, <1>8 DEF WireInv, PresentBelow
  <2>2. StoredInv' /\ NoGap'
    BY <1>1 DEF StoredInv, NoGap
  <2>. QED BY <1>1, <2>1, <2>2 DEF DeadlineInv, NoWindow
<1>10. CurrentInv'
  <2>1. PresentBelow(AckPoint) /\ Alive'
    BY <1>2 DEF CurrentInv
  <2>. QED BY <1>1, <1>6, <1>8, <2>1 DEF CurrentInv, PresentBelow
<1>11. PendingTypeOK'
  BY <1>3, <1>5 DEF PendingTypeOK
<1>12. ActorTypeOK'
  <2>1. NoWindow \in [records : 0..MaxInFlightRecords, bytes : 0..MaxInFlightBytes,
                      armed : BOOLEAN]
    BY Bounds DEF NoWindow
  <2>2. attempts' \in 0..BackoffCap
    BY Bounds DEF Reconnect, ActorTypeOK, Min2
  <2>. QED BY <1>1, <2>1, <2>2 DEF ActorTypeOK
<1>13. NetTypeOK'
  <2>1. stored' \in Seq([w : SeqNums, at : Nat])
    BY <1>1
  <2>2. acks' \in Seq([ws : SeqNums, we : SeqNums, ds : Nat, de : Nat])
    BY <1>1
  <2>3. log' \in Seq(SeqNums \cup {Foreign}) /\ silent' \in BOOLEAN
    BY <1>1 DEF NetTypeOK
  <2>. QED BY <1>8, <2>1, <2>2, <2>3, Zenon DEF NetTypeOK
<1>14. CallerTypeOK' /\ ChannelTypeOK'
  BY <1>1 DEF CallerTypeOK, ChannelTypeOK, sharedVars, callerVars
<1>. QED BY <1>2, <1>7, <1>9, <1>10, <1>11, <1>12, <1>13, <1>14

-----------------------------------------------------------------------------
(* drain_queued_commands.                                                  *)

LEMMA AdmitSubmissionInv == WriterInv /\ AdmitSubmission => WriterInv'
<1> SUFFICES ASSUME WriterInv, AdmitSubmission PROVE WriterInv'
  OBVIOUS
<1>. USE DEF WriterInv, TypeOK
<1>. DEFINE c == Head(cmds)
            end == nextSeq + c.len
            p == [id |-> c.id, start |-> nextSeq, len |-> c.len,
                  acked |-> 0, sent |-> 0, receipts |-> {}]
<1>1. /\ end <= MaxWriterSeq /\ cmds # <<>> /\ c.kind = "submit"
      /\ pending' = Append(pending, p)
      /\ ticket' = [ticket EXCEPT ![c.id].start = nextSeq]
      /\ nextSeq' = end /\ cmds' = Tail(cmds)
      /\ pc \in {"select", "drain"} /\ pc' \in {"send", "drain"}
      /\ UNCHANGED <<state, terminalError, rxOpen, callerVars, closing, inFlight,
                     attempts, netVars>>
  BY DEF AdmitSubmission, DrainTurn
<1>2. Alive /\ Alive' /\ QueueInv
  BY <1>1 DEF Alive, Settled
<1>3. /\ cmds' \in Seq(Commands)
      /\ c.id \in Submissions /\ c.len \in Nat \ {0}
  <2>1. cmds \in Seq(Commands)
    BY DEF ChannelTypeOK
  <2>2. c \in Commands /\ Tail(cmds) \in Seq(Commands)
    <3>. HIDE DEF c
    <3>. QED BY <1>1, <2>1, HeadTailProperties DEF c
  <2>3. PICK id \in Submissions, len \in BatchLens : c = SubmitCommand(id, len)
    BY <1>1, <2>2 DEF Commands, CloseCommand
  <2>4. c.id = id /\ c.len = len
    BY <2>3 DEF SubmitCommand
  <2>. QED BY <1>1, <2>2, <2>4, WriterAssumption
<1>. HIDE DEF c
<1>4. /\ nextSeq \in Nat /\ nextSeq \in SeqNums /\ end \in SeqNums /\ end > nextSeq
      /\ inFlight.records \in Nat
  <2>1. nextSeq \in Nat /\ MaxWriterSeq \in Nat /\ nextSeq <= MaxWriterSeq
    BY Bounds DEF ActorTypeOK, SeqNums
  <2>2. inFlight.records \in Nat
    BY Bounds DEF ActorTypeOK
  <2>3. end <= MaxWriterSeq /\ end = nextSeq + c.len /\ c.len \in Nat \ {0}
    BY <1>1, <1>3
  <2>4. end \in 0..MaxWriterSeq /\ nextSeq \in 0..MaxWriterSeq /\ end > nextSeq
    BY ONLY <2>1, <2>3
  <2>. QED BY <2>1, <2>2, <2>4 DEF SeqNums
<1>5. /\ DOMAIN pending = 1..Len(pending) /\ Len(pending) \in Nat
      /\ \A i \in DOMAIN pending : pending[i] \in PendingSubmissions
      /\ \A i \in DOMAIN pending :
           /\ pending[i].start \in Nat /\ pending[i].len \in Nat
           /\ pending[i].acked \in Nat /\ pending[i].sent \in Nat
  BY PendingFacts
<1>6. p \in PendingSubmissions
  BY <1>3, <1>4 DEF PendingSubmissions
<1>7. /\ pending' \in Seq(PendingSubmissions)
      /\ Len(pending') = Len(pending) + 1
      /\ DOMAIN pending' = 1..(Len(pending) + 1)
      /\ \A i \in DOMAIN pending : pending'[i] = pending[i]
      /\ pending'[Len(pending) + 1] = p
  <2>1. pending \in Seq(PendingSubmissions)
    BY DEF PendingTypeOK
  <2>. HIDE DEF p
  <2>. QED BY <1>1, <1>6, <2>1, AppendProperties
<1>8. AckPoint' = AckPoint /\ SentPoint' = SentPoint
  <2>1. CASE pending = <<>>
    <3>1. Len(pending) = 0
      BY <2>1
    <3>2. pending'[1] = p /\ Len(pending') = 1
      BY <1>7, <3>1
    <3>3. pending' # <<>>
      BY <1>7, <3>2
    <3>. QED BY <1>1, <1>4, <2>1, <3>2, <3>3 DEF AckPoint, SentPoint, Unacked
  <2>2. CASE pending # <<>>
    <3>1. pending'[1] = pending[1] /\ pending' # <<>>
      BY <1>5, <1>7, <2>2
    <3>. QED BY <1>1, <2>2, <3>1 DEF AckPoint, SentPoint, Unacked
  <2>. QED BY <2>1, <2>2
<1>9. AckPoint \in Nat /\ SentPoint \in Nat /\ AckPoint <= SentPoint /\ SentPoint <= nextSeq
  BY <1>2, <1>4 DEF QueueInv
<1>10. QueueInv'
  <2>1. ASSUME NEW i \in DOMAIN pending
        PROVE  /\ pending'[i].acked < pending'[i].len
               /\ End(pending'[i]) <= nextSeq'
               /\ i > 1 => pending'[i].acked = 0
               /\ i = Len(pending') => End(pending'[i]) = nextSeq'
               /\ i < Len(pending') => End(pending'[i]) = pending'[i + 1].start
               /\ pending'[i].sent = PrefixBelow(pending'[i], SentPoint')
    <3>1. pending'[i] = pending[i] /\ i < Len(pending')
      BY <1>5, <1>7
    <3>2. End(pending[i]) <= nextSeq'
      <4>1. End(pending[i]) <= nextSeq /\ End(pending[i]) \in Nat
        BY <1>2, <1>5 DEF QueueInv, End
      <4>. QED BY <1>1, <1>3, <1>4, <4>1
    <3>3. End(pending[i]) = pending'[i + 1].start
      <4>1. CASE i = Len(pending)
        BY <1>2, <1>7, <4>1 DEF QueueInv
      <4>2. CASE i < Len(pending)
        <5>1. pending'[i + 1] = pending[i + 1]
          BY <1>5, <1>7, <4>2
        <5>. QED BY <1>2, <4>2, <5>1 DEF QueueInv
      <4>. QED BY <1>5, <4>1, <4>2
    <3>. QED BY <1>2, <1>5, <1>7, <1>8, <3>1, <3>2, <3>3 DEF QueueInv, PrefixBelow, End
  <2>2. /\ p.acked < p.len /\ End(p) = nextSeq' /\ p.acked = 0
        /\ p.sent = PrefixBelow(p, SentPoint)
    BY <1>1, <1>3, <1>4, <1>9 DEF End, PrefixBelow
  <2>3. ASSUME NEW i \in DOMAIN pending', NEW j \in DOMAIN pending', i < j
        PROVE  End(pending'[i]) <= pending'[j].start
    <3>1. i \in DOMAIN pending /\ pending'[i] = pending[i]
      BY <1>5, <1>7, <2>3
    <3>2. CASE j \in DOMAIN pending
      BY <1>2, <1>7, <2>3, <3>1, <3>2 DEF QueueInv
    <3>3. CASE j = Len(pending) + 1
      BY <1>2, <1>7, <3>1, <3>3 DEF QueueInv
    <3>. QED BY <1>5, <1>7, <3>2, <3>3
  <2>4. \A i \in DOMAIN pending' :
          /\ pending'[i].acked < pending'[i].len
          /\ End(pending'[i]) <= nextSeq'
          /\ i > 1 => pending'[i].acked = 0
          /\ i = Len(pending') => End(pending'[i]) = nextSeq'
          /\ i < Len(pending') => End(pending'[i]) = pending'[i + 1].start
          /\ pending'[i].sent = PrefixBelow(pending'[i], SentPoint')
    <3>1. nextSeq' \in Nat
      BY <1>1, <1>3, <1>4
    <3>2. ASSUME NEW i \in DOMAIN pending' PROVE i \in DOMAIN pending \/ i = Len(pending')
      BY <1>5, <1>7
    <3>3. pending'[Len(pending')] = p /\ Len(pending') \in Nat
      BY <1>5, <1>7
    <3>. HIDE DEF p
    <3>4. ASSUME NEW i \in DOMAIN pending', i = Len(pending')
          PROVE  /\ pending'[i].acked < pending'[i].len
                 /\ End(pending'[i]) <= nextSeq'
                 /\ i > 1 => pending'[i].acked = 0
                 /\ i = Len(pending') => End(pending'[i]) = nextSeq'
                 /\ i < Len(pending') => End(pending'[i]) = pending'[i + 1].start
                 /\ pending'[i].sent = PrefixBelow(pending'[i], SentPoint')
      BY <1>8, <2>2, <3>1, <3>3, <3>4
    <3>. QED BY <2>1, <3>2, <3>4
  <2>5. inFlight'.bytes = Bytes(AckPoint', SentPoint')
    BY <1>1, <1>2, <1>8 DEF QueueInv
  <2>6. AckPoint' \in 0..nextSeq' /\ SentPoint' \in AckPoint'..nextSeq'
    BY <1>1, <1>3, <1>4, <1>8, <1>9
  <2>. QED BY <2>3, <2>4, <2>5, <2>6 DEF QueueInv, Bytes
<1>11. DeadlineInv'
  BY <1>1 DEF DeadlineInv
<1>12. WireInv' /\ StoredInv' /\ NoGap'
  BY <1>1 DEF WireInv, StoredInv, NoGap, PresentBelow, Current, netVars
<1>13. CurrentInv'
  BY <1>1, <1>2, <1>8 DEF CurrentInv, PresentBelow, Current, netVars
<1>14. PendingTypeOK'
  <2>1. ASSUME NEW i \in DOMAIN pending' PROVE pending'[i].acked <= pending'[i].sent
                                              /\ pending'[i].sent <= pending'[i].len
    <3>1. CASE i \in DOMAIN pending
      BY <1>7, <3>1 DEF PendingTypeOK
    <3>2. CASE i = Len(pending) + 1
      BY <1>3, <1>7, <3>2
    <3>. QED BY <1>5, <1>7, <3>1, <3>2
  <2>. QED BY <1>7, <2>1 DEF PendingTypeOK
<1>15. ActorTypeOK'
  <2>1. drained' \in [records : Nat, bytes : Nat]
    <3>1. Bytes(nextSeq, end) \in Nat
      BY <1>3, <1>4, BytesType
    <3>. QED BY <1>3, <3>1 DEF AdmitSubmission, ActorTypeOK, NoDrain, c
  <2>. QED BY <1>1, <1>4, <2>1 DEF ActorTypeOK
<1>16. ChannelTypeOK'
  BY <1>1, <1>3, <1>4 DEF ChannelTypeOK, Tickets
<1>17. CallerTypeOK' /\ NetTypeOK'
  BY <1>1 DEF CallerTypeOK, NetTypeOK, callerVars, netVars
<1>. QED BY <1>2, <1>10, <1>11, <1>12, <1>13, <1>14, <1>15, <1>16, <1>17

-----------------------------------------------------------------------------
(* The service.                                                            *)

LEMMA StoreRecordInv ==
  ASSUME WriterInv, NEW e \in DOMAIN wires, StoreRecord(e)
  PROVE  WriterInv'
<1>. USE DEF WriterInv, TypeOK
<1>. DEFINE W == wires[e]
            f == Head(W)
            V == wires'[e]
<1>1. /\ W # <<>> /\ log' = Append(log, f.lo)
      /\ wires' = [wires EXCEPT ![e] =
                     IF f.lo + 1 = f.hi THEN Tail(@) ELSE <<[f EXCEPT !.lo = @ + 1]>> \o Tail(@)]
      /\ stored' = IF e = Current
                     THEN Append(stored, [w |-> f.lo, at |-> Len(log)]) ELSE stored
      /\ UNCHANGED <<sharedVars, callerVars, actorVars, acks, silent>>
  BY DEF StoreRecord
<1>2. /\ wires \in Seq(Seq(Frames)) \ {<<>>} /\ Current \in DOMAIN wires
      /\ W \in Seq(Frames) /\ f \in Frames /\ f = W[1]
      /\ Len(W) \in Nat \ {0} /\ DOMAIN W = 1..Len(W)
      /\ \A i \in DOMAIN W : W[i] \in Frames
      /\ \A i \in DOMAIN W : W[i].lo \in Nat /\ W[i].hi \in Nat
  <2>1. wires \in Seq(Seq(Frames)) \ {<<>>}
    BY DEF NetTypeOK
  <2>2. \A x \in Frames : x.lo \in Nat /\ x.hi \in Nat
    BY Bounds DEF Frames, SeqNums
  <2>. HIDE DEF Frames
  <2>3. W \in Seq(Frames) /\ Current \in DOMAIN wires
    BY <2>1 DEF Current
  <2>. HIDE DEF W
  <2>4. \A i \in DOMAIN W : W[i] \in Frames
    BY <2>3, SeqFacts
  <2>5. Len(W) \in Nat \ {0} /\ DOMAIN W = 1..Len(W)
    BY <1>1, <2>3, SeqFacts
  <2>6. f = W[1] /\ 1 \in DOMAIN W
    BY <2>5
  <2>. HIDE DEF f
  <2>. QED BY <2>1, <2>2, <2>3, <2>4, <2>5, <2>6
<1>3. /\ f.lo \in Nat /\ f.hi \in Nat /\ f.lo < f.hi
      /\ f.lo \in SeqNums /\ f.lo + 1 \in SeqNums /\ f.lo < MaxWriterSeq
  <2>1. f.lo < f.hi
    BY <1>2 DEF WireInv
  <2>. QED BY <1>2, <2>1, Bounds DEF Frames, SeqNums
<1>4. V = IF f.lo + 1 = f.hi THEN Tail(W) ELSE <<[f EXCEPT !.lo = @ + 1]>> \o Tail(W)
  BY <1>1, <1>2
<1>5. /\ V \in Seq(Frames) /\ Len(V) \in Nat /\ DOMAIN V = 1..Len(V)
      /\ V # <<>> => V[1].lo = f.lo + 1 /\ V[Len(V)].hi = W[Len(W)].hi
      /\ V = <<>> => W[Len(W)].hi = f.lo + 1
      /\ \A i \in DOMAIN V : /\ V[i].lo < V[i].hi
                             /\ i < Len(V) => V[i].hi = V[i + 1].lo
  <2>1. /\ Tail(W) \in Seq(Frames) /\ Len(Tail(W)) = Len(W) - 1
        /\ DOMAIN Tail(W) = 1..(Len(W) - 1)
        /\ \A i \in 1..(Len(W) - 1) : Tail(W)[i] = W[i + 1] /\ i + 1 \in DOMAIN W
    <3>. HIDE DEF Frames, W
    <3>. QED BY <1>1, <1>2, TailFacts
  <2>2. \A i \in DOMAIN W : /\ W[i].lo < W[i].hi
                            /\ i < Len(W) => W[i].hi = W[i + 1].lo
    BY DEF WireInv
  <2>3. CASE f.lo + 1 = f.hi
    <3>1. /\ V = Tail(W) /\ Len(V) = Len(W) - 1 /\ V \in Seq(Frames)
          /\ DOMAIN V = 1..Len(V)
          /\ \A i \in DOMAIN V : V[i] = W[i + 1] /\ i + 1 \in DOMAIN W
      <4>1. V = Tail(W)
        BY <1>4, <2>3
      <4>. HIDE DEF V, W
      <4>. QED BY <2>1, <4>1
    <3>. HIDE DEF V, W, f, Frames
    <3>7. (V = <<>>) <=> (Len(V) = 0)
      BY <3>1, SeqFacts
    <3>2. \A i \in DOMAIN V : i < Len(V) => V[i + 1] = W[i + 2] /\ i + 1 < Len(W)
      BY <1>2, <3>1
    <3>3. V = <<>> => Len(W) = 1
      BY <1>2, <3>1, <3>7
    <3>4. V # <<>> => 1 \in DOMAIN V /\ Len(V) \in DOMAIN V /\ 1 \in DOMAIN W /\ 1 < Len(W)
      <4>1. Len(V) = Len(W) - 1 /\ DOMAIN V = 1..Len(V) /\ DOMAIN W = 1..Len(W)
            /\ Len(W) \in Nat \ {0}
        BY <1>2, <3>1
      <4>. QED BY ONLY <3>7, <4>1
    <3>5. ASSUME V # <<>> PROVE V[1].lo = f.lo + 1 /\ V[Len(V)].hi = W[Len(W)].hi
      <4>1. V[1] = W[2] /\ V[Len(V)] = W[Len(W)]
        BY <1>2, <3>1, <3>4, <3>5
      <4>2. W[1].hi = W[2].lo
        BY <2>2, <3>4, <3>5
      <4>. QED BY <1>2, <2>3, <4>1, <4>2
    <3>6. \A i \in DOMAIN V : /\ V[i].lo < V[i].hi
                              /\ i < Len(V) => V[i].hi = V[i + 1].lo
      BY <1>2, <2>2, <3>1, <3>2
    <3>8. V = <<>> => W[Len(W)].hi = f.lo + 1
      BY <1>2, <2>3, <3>3
    <3>9. V \in Seq(Frames) /\ Len(V) \in Nat /\ DOMAIN V = 1..Len(V)
      BY <1>2, <3>1
    <3>. QED BY <3>5, <3>6, <3>8, <3>9, Zenon
  <2>4. CASE f.lo + 1 # f.hi
    <3>. DEFINE g == [f EXCEPT !.lo = @ + 1]
    <3>1. g \in Frames /\ g.lo = f.lo + 1 /\ g.hi = f.hi
      BY <1>2, <1>3 DEF Frames
    <3>2. V = <<g>> \o Tail(W)
      BY <1>4, <2>4
    <3>. HIDE DEF g, V, W, f, Frames
    <3>3. /\ V \in Seq(Frames) /\ Len(V) = Len(W) /\ V[1] = g
          /\ \A i \in 2..Len(W) : V[i] = W[i]
      <4>1. <<g>> \in Seq(Frames) /\ Len(<<g>>) = 1 /\ <<g>>[1] = g
        BY <3>1
      <4>. QED BY <1>2, <2>1, <3>2, <4>1, ConcatProperties
    <3>4. DOMAIN V = 1..Len(W) /\ V # <<>> /\ Len(V) \in Nat
      BY <1>2, <3>3
    <3>5. V[1].lo = f.lo + 1 /\ V[Len(V)].hi = W[Len(W)].hi
      <4>1. CASE Len(W) = 1
        BY <1>2, <3>1, <3>3, <4>1
      <4>2. CASE Len(W) # 1
        <5>1. Len(W) \in 2..Len(W)
          BY <1>2, <4>2
        <5>2. V[Len(W)] = W[Len(W)]
          BY <3>3, <5>1
        <5>. QED BY <3>1, <3>3, <5>2
      <4>. QED BY <4>1, <4>2
    <3>6. ASSUME NEW i \in DOMAIN V
          PROVE  /\ V[i].lo < V[i].hi
                 /\ i < Len(V) => V[i].hi = V[i + 1].lo
      <4>1. \A j \in 2..Len(W) : V[j] = W[j] /\ j \in DOMAIN W
        BY <1>2, <3>3
      <4>2. 1 < Len(W) => V[2] = W[2] /\ W[1].hi = W[2].lo
        <5>1. ASSUME 1 < Len(W) PROVE 2 \in 2..Len(W) /\ 1 \in DOMAIN W /\ 1 + 1 = 2
          BY <1>2, <5>1
        <5>2. 1 < Len(W) => W[1].hi = W[1 + 1].lo
          BY <2>2, <5>1
        <5>. QED BY <4>1, <5>1, <5>2
      <4>3. CASE i = 1
        <5>1. g.lo < g.hi
          BY <1>3, <2>4, <3>1
        <5>2. 1 < Len(W) => g.hi = V[2].lo
          BY <1>2, <3>1, <4>2
        <5>3. V[1] = g /\ Len(V) = Len(W) /\ i + 1 = 2
          BY <3>3, <4>3
        <5>. QED BY <4>3, <5>1, <5>2, <5>3
      <4>4. CASE i > 1
        <5>1. i \in 2..Len(W) /\ i \in DOMAIN W
          BY <1>2, <3>4, <4>4
        <5>2. i < Len(W) => i + 1 \in 2..Len(W)
          BY <1>2, <5>1
        <5>. QED BY <2>2, <3>3, <4>1, <5>1, <5>2
      <4>. QED BY <3>4, <4>3, <4>4
    <3>. QED BY <3>3, <3>4, <3>5, <3>6
  <2>. QED BY <2>3, <2>4
<1>6. /\ wires' \in Seq(Seq(Frames)) \ {<<>>} /\ DOMAIN wires' = DOMAIN wires
      /\ Current' = Current
      /\ \A d \in DOMAIN wires : d # e => wires'[d] = wires[d]
  <2>. DEFINE Streams == Seq(Frames)
  <2>1. wires \in Seq(Streams) \ {<<>>} /\ V \in Streams
    BY <1>2, <1>5
  <2>2. wires' = [wires EXCEPT ![e] = V]
    BY <1>1, <1>4
  <2>. HIDE DEF Streams, V
  <2>3. wires' \in Seq(Streams) /\ Len(wires') = Len(wires) /\ DOMAIN wires' = DOMAIN wires
    BY <2>1, <2>2
  <2>4. wires' # <<>>
    BY <2>1, <2>3
  <2>. QED BY <2>1, <2>2, <2>3, <2>4 DEF Current, Streams
<1>. HIDE DEF V, W, f
<1>7. /\ \A n : PresentBelow(n) => Holds(log', n)
      /\ Holds(log', f.lo + 1) /\ NoGap'
  <2>1. log \in Seq(SeqNums \cup {Foreign})
    BY DEF NetTypeOK
  <2>2. Holds(log, f.lo)
    BY <1>1, <1>2 DEF WireInv, PresentBelow, W
  <2>3. NoGap'
    BY <1>1, <1>3, <2>2, NoGapMore
  <2>4. \A n : PresentBelow(n) => Holds(log', n)
    BY <1>1, <2>1, HoldsMore DEF PresentBelow
  <2>. QED BY <1>1, <1>3, <2>1, <2>2, <2>3, <2>4, HoldsNext
<1>8. WireInv'
  <2>1. ASSUME NEW d \in DOMAIN wires
        PROVE  /\ \A i \in DOMAIN wires'[d] :
                    /\ wires'[d][i].lo < wires'[d][i].hi
                    /\ i < Len(wires'[d]) => wires'[d][i].hi = wires'[d][i + 1].lo
               /\ wires'[d] # <<>> => Holds(log', wires'[d][1].lo)
    <3>1. CASE d = e
      BY <1>5, <1>7, <3>1 DEF V
    <3>2. CASE d # e
      BY <1>6, <1>7, <3>2 DEF WireInv
    <3>. QED BY <3>1, <3>2
  <2>. QED BY <1>6, <2>1 DEF WireInv, PresentBelow
<1>9. /\ stored \in Seq([w : SeqNums, at : Nat]) /\ Len(stored) \in Nat
      /\ DOMAIN stored = 1..Len(stored) /\ Len(log) \in Nat
      /\ \A i \in DOMAIN stored : stored[i].w \in Nat
  <2>1. stored \in Seq([w : SeqNums, at : Nat]) /\ log \in Seq(SeqNums \cup {Foreign})
    BY DEF NetTypeOK
  <2>2. \A i \in DOMAIN stored : stored[i] \in [w : SeqNums, at : Nat]
    BY <2>1, SeqFacts
  <2>3. \A i \in DOMAIN stored : stored[i].w \in Nat
    BY <2>2, Bounds DEF SeqNums
  <2>. QED BY <2>1, <2>3
<1>10. ASSUME e = Current
       PROVE  /\ stored' \in Seq([w : SeqNums, at : Nat])
              /\ Len(stored') = Len(stored) + 1 /\ DOMAIN stored' = 1..(Len(stored) + 1)
              /\ \A i \in DOMAIN stored : stored'[i] = stored[i]
              /\ stored'[Len(stored) + 1].w = f.lo
  <2>. DEFINE Stored == [w : SeqNums, at : Nat]
              r == [w |-> f.lo, at |-> Len(log)]
  <2>1. r \in Stored /\ r.w = f.lo /\ stored \in Seq(Stored) /\ stored' = Append(stored, r)
    BY <1>1, <1>3, <1>9, <1>10
  <2>. HIDE DEF Stored, r
  <2>2. /\ stored' \in Seq(Stored) /\ Len(stored') = Len(stored) + 1
        /\ DOMAIN stored' = 1..(Len(stored) + 1)
        /\ \A i \in DOMAIN stored : stored'[i] = stored[i]
        /\ stored'[Len(stored) + 1] = r
    BY <1>9, <2>1, AppendProperties
  <2>. QED BY <2>1, <2>2 DEF Stored
<1>11. StoredInv'
  <2>1. \A i \in DOMAIN acks' : Holds(log', acks'[i].we)
    BY <1>1, <1>7 DEF StoredInv
  <2>2. CASE e # Current
    BY <1>1, <1>6, <1>7, <2>1, <2>2 DEF StoredInv, PresentBelow
  <2>3. CASE e = Current
    <3>1. stored # <<>> => f.lo = stored[Len(stored)].w + 1
      BY <1>1, <1>2, <2>3 DEF StoredInv, W
    <3>2. ASSUME NEW i \in DOMAIN stored'
          PROVE  /\ stored'[i].w = stored'[1].w + i - 1
                 /\ stored'[i].w < MaxWriterSeq
                 /\ Holds(log', stored'[i].w + 1)
      <4>1. CASE i \in DOMAIN stored
        <5>1. 1 \in DOMAIN stored
          BY <1>9, <4>1
        <5>. QED BY <1>7, <1>10, <2>3, <4>1, <5>1 DEF StoredInv
      <4>2. CASE i = Len(stored) + 1
        <5>1. stored'[i].w = stored'[1].w + i - 1
          <6>1. CASE Len(stored) = 0
            BY <1>3, <1>10, <2>3, <4>2, <6>1
          <6>2. CASE Len(stored) # 0
            <7>1. 1 \in DOMAIN stored /\ Len(stored) \in DOMAIN stored /\ stored # <<>>
              BY <1>9, <6>2
            <7>2. stored[Len(stored)].w = stored[1].w + Len(stored) - 1
              BY <7>1 DEF StoredInv
            <7>. QED BY <1>9, <1>10, <2>3, <3>1, <4>2, <7>1, <7>2
          <6>. QED BY <6>1, <6>2
        <5>. QED BY <1>3, <1>7, <1>10, <2>3, <4>2, <5>1
      <4>. QED BY <1>9, <1>10, <2>3, <3>2, <4>1, <4>2
    <3>3. wires'[Current] # <<>> =>
            wires'[Current][1].lo = stored'[Len(stored')].w + 1
      BY <1>5, <1>10, <2>3 DEF V
    <3>. QED BY <1>6, <2>1, <3>2, <3>3 DEF StoredInv, PresentBelow
  <2>. QED BY <2>2, <2>3
<1>12. /\ UNCHANGED <<pc, pending, nextSeq, inFlight>> /\ Alive' = Alive
       /\ AckPoint' = AckPoint /\ SentPoint' = SentPoint
  BY <1>1 DEF actorVars, Alive, Settled, AckPoint, SentPoint, Unacked
<1>13. CurrentInv'
  <2>1. SUFFICES ASSUME Alive
                 PROVE  /\ Holds(log', AckPoint)
                        /\ wires'[Current] # <<>> =>
                             wires'[Current][Len(wires'[Current])].hi = SentPoint
                        /\ wires'[Current] = <<>> => Holds(log', SentPoint)
                        /\ wires'[Current] = <<>> /\ stored' # <<>> =>
                             stored'[Len(stored')].w + 1 = SentPoint
    BY <1>6, <1>12 DEF CurrentInv, PresentBelow
  <2>2. Holds(log', AckPoint)
    BY <1>7, <2>1 DEF CurrentInv
  <2>3. CASE e # Current
    BY <1>1, <1>2, <1>6, <1>7, <2>1, <2>2, <2>3 DEF CurrentInv
  <2>4. CASE e = Current
    <3>1. W # <<>> /\ W[Len(W)].hi = SentPoint
      BY <1>1, <2>1, <2>4 DEF CurrentInv, W
    <3>. QED BY <1>5, <1>7, <1>10, <2>2, <2>4, <3>1 DEF V
  <2>. QED BY <2>3, <2>4
<1>14. (Alive' => QueueInv') /\ (~Alive' => pending' = <<>>) /\ DeadlineInv'
  BY <1>12 DEF QueueInv, DeadlineInv, PrefixBelow, End, Unacked, Bytes
<1>15. NetTypeOK'
  <2>1. stored' \in Seq([w : SeqNums, at : Nat])
    BY <1>1, <1>9, <1>10
  <2>2. log' \in Seq(SeqNums \cup {Foreign})
    <3>. DEFINE Entries == SeqNums \cup {Foreign}
    <3>1. log \in Seq(Entries) /\ f.lo \in Entries
      BY <1>3 DEF NetTypeOK
    <3>. HIDE DEF Entries
    <3>2. Append(log, f.lo) \in Seq(Entries)
      BY <3>1, AppendProperties
    <3>. QED BY <1>1, <3>2 DEF Entries
  <2>3. /\ acks' \in Seq([ws : SeqNums, we : SeqNums, ds : Nat, de : Nat])
        /\ silent' \in BOOLEAN
    BY <1>1 DEF NetTypeOK
  <2>. QED BY <1>6, <2>1, <2>2, <2>3, Zenon DEF NetTypeOK
<1>16. CallerTypeOK' /\ ChannelTypeOK' /\ ActorTypeOK' /\ PendingTypeOK'
  BY <1>1 DEF CallerTypeOK, ChannelTypeOK, ActorTypeOK, PendingTypeOK, sharedVars,
              callerVars, actorVars, Settled
<1>. QED BY <1>7, <1>8, <1>11, <1>13, <1>14, <1>15, <1>16

LEMMA SendAckInv == WriterInv /\ SendAck => WriterInv'
<1> SUFFICES ASSUME WriterInv, SendAck PROVE WriterInv'
  OBVIOUS
<1>. USE DEF WriterInv, TypeOK
<1>1. PICK k \in 1..Len(stored) :
        /\ acks' = Append(acks, [ws |-> stored[1].w, we |-> stored[1].w + k,
                                 ds |-> stored[1].at, de |-> stored[1].at + k])
        /\ stored' = SubSeq(stored, k + 1, Len(stored))
  BY DEF SendAck
<1>2. UNCHANGED <<sharedVars, callerVars, actorVars, wires, silent, log>>
  BY DEF SendAck
<1>. DEFINE a == [ws |-> stored[1].w, we |-> stored[1].w + k,
                  ds |-> stored[1].at, de |-> stored[1].at + k]
            Stored == [w : SeqNums, at : Nat]
            Acks == [ws : SeqNums, we : SeqNums, ds : Nat, de : Nat]
<1>3. /\ stored \in Seq(Stored) /\ Len(stored) \in Nat /\ DOMAIN stored = 1..Len(stored)
      /\ \A i \in DOMAIN stored : stored[i] \in Stored
      /\ \A i \in DOMAIN stored : stored[i].w \in Nat /\ stored[i].at \in Nat
  <2>1. stored \in Seq(Stored)
    BY DEF NetTypeOK
  <2>2. \A i \in DOMAIN stored : stored[i] \in Stored
    BY <2>1, SeqFacts
  <2>. QED BY <2>1, <2>2, Bounds DEF SeqNums
<1>4. 1 \in DOMAIN stored /\ k \in DOMAIN stored
  BY <1>3
<1>5. /\ stored[k].w = stored[1].w + k - 1 /\ stored[k].w < MaxWriterSeq
      /\ PresentBelow(stored[k].w + 1)
  BY <1>4 DEF StoredInv
<1>6. a \in Acks /\ PresentBelow(a.we)
  <2>1. a.we = stored[k].w + 1
    BY <1>3, <1>4, <1>5
  <2>. QED BY SMTT(30), <1>3, <1>4, <1>5, <2>1, Bounds DEF SeqNums
<1>7. /\ acks \in Seq(Acks) /\ acks' \in Seq(Acks)
      /\ DOMAIN acks' = DOMAIN acks \cup {Len(acks) + 1}
      /\ \A i \in DOMAIN acks : acks'[i] = acks[i]
      /\ acks'[Len(acks) + 1] = a
  <2>1. acks \in Seq(Acks) /\ acks' = Append(acks, a)
    BY <1>1 DEF NetTypeOK
  <2>. HIDE DEF Acks, a
  <2>. QED BY <1>6, <2>1, AppendProperties
<1>8. /\ stored' \in Seq(Stored) /\ Len(stored') = Len(stored) - k
      /\ DOMAIN stored' = 1..(Len(stored) - k)
      /\ \A i \in DOMAIN stored' : stored'[i] = stored[i + k] /\ i + k \in DOMAIN stored
  <2>1. stored \in Seq(Stored) /\ stored' = SubSeq(stored, k + 1, Len(stored))
    BY <1>1, <1>3
  <2>. HIDE DEF Stored
  <2>. QED BY <1>3, <2>1, SuffixFacts
<1>. HIDE DEF a
<1>13. stored' # <<>> => stored'[Len(stored')] = stored[Len(stored)] /\ stored # <<>>
  <2>1. SUFFICES ASSUME stored' # <<>>
                 PROVE  stored'[Len(stored')] = stored[Len(stored)]
    BY <1>3, <1>4, SeqFacts
  <2>2. Len(stored') \in Nat \ {0} /\ Len(stored') + k = Len(stored)
    <3>1. stored' \in Seq(Stored)
      BY <1>8
    <3>. HIDE DEF Stored
    <3>2. Len(stored') \in Nat /\ Len(stored') # 0
      BY <2>1, <3>1, SeqFacts
    <3>3. Len(stored') = Len(stored) - k
      BY <1>8
    <3>4. k \in Nat /\ Len(stored) \in Nat
      BY <1>3
    <3>. QED BY <3>2, <3>3, <3>4
  <2>3. Len(stored') \in DOMAIN stored'
    BY <1>8, <2>2
  <2>. QED BY <1>8, <2>2, <2>3
<1>9. StoredInv'
  <2>1. ASSUME NEW i \in DOMAIN stored'
        PROVE  /\ stored'[i].w = stored'[1].w + i - 1
               /\ stored'[i].w < MaxWriterSeq
               /\ PresentBelow(stored'[i].w + 1)
    <3>1. stored'[i] = stored[i + k] /\ i + k \in DOMAIN stored
      BY <1>8
    <3>2. stored'[1] = stored[1 + k] /\ 1 + k \in DOMAIN stored
      <4>1. 1 \in DOMAIN stored'
        BY <1>3, <1>8
      <4>. QED BY <1>8, <4>1
    <3>3. /\ stored[i + k].w = stored[1].w + (i + k) - 1
          /\ stored[1 + k].w = stored[1].w + (1 + k) - 1
          /\ stored[i + k].w < MaxWriterSeq /\ PresentBelow(stored[i + k].w + 1)
      BY <3>1, <3>2 DEF StoredInv
    <3>4. stored[1].w \in Nat /\ i \in Nat /\ k \in Nat
      <4>1. stored[1].w \in Nat
        BY <1>3, <1>4
      <4>2. i \in 1..(Len(stored) - k)
        BY <1>8
      <4>. QED BY <4>1, <4>2
    <3>5. stored'[i].w = stored[1].w + (i + k) - 1 /\ stored'[1].w = stored[1].w + (1 + k) - 1
      BY <3>1, <3>2, <3>3
    <3>6. stored'[i].w = stored'[1].w + i - 1
      BY <3>4, <3>5
    <3>. QED BY <3>1, <3>3, <3>6
  <2>2. stored' # <<>> => stored'[Len(stored')] = stored[Len(stored)] /\ stored # <<>>
    BY <1>13
  <2>3. \A i \in DOMAIN acks' : PresentBelow(acks'[i].we)
    BY <1>6, <1>7 DEF StoredInv
  <2>4. PresentBelow(0)' = PresentBelow(0) /\ Current' = Current
    BY <1>2 DEF PresentBelow, Current
  <2>. QED BY <1>2, <2>1, <2>2, <2>3, <2>4 DEF StoredInv, PresentBelow
<1>10. CurrentInv'
  <2>1. stored' # <<>> => stored'[Len(stored')] = stored[Len(stored)] /\ stored # <<>>
    BY <1>13
  <2>2. UNCHANGED <<pc, pending, nextSeq, inFlight>> /\ Alive' = Alive
    BY <1>2 DEF actorVars, Alive, Settled
  <2>. QED BY <1>2, <2>1, <2>2 DEF CurrentInv, AckPoint, SentPoint, Unacked, PresentBelow, Current
<1>11. /\ (Alive' => QueueInv') /\ (~Alive' => pending' = <<>>) /\ DeadlineInv'
       /\ WireInv' /\ NoGap'
  <2>1. UNCHANGED <<pc, pending, nextSeq, inFlight>> /\ Alive' = Alive
    BY <1>2 DEF actorVars, Alive, Settled
  <2>. QED BY <1>2, <2>1 DEF QueueInv, DeadlineInv, WireInv, NoGap, AckPoint, SentPoint,
                             PrefixBelow, End, Unacked, Bytes, PresentBelow
<1>12. NetTypeOK'
  <2>1. stored' \in Seq([w : SeqNums, at : Nat])
    BY <1>8
  <2>2. acks' \in Seq([ws : SeqNums, we : SeqNums, ds : Nat, de : Nat])
    BY <1>7
  <2>3. /\ wires' \in Seq(Seq(Frames)) \ {<<>>} /\ silent' \in BOOLEAN
        /\ log' \in Seq(SeqNums \cup {Foreign})
    BY <1>2 DEF NetTypeOK
  <2>. QED BY <2>1, <2>2, <2>3, Zenon DEF NetTypeOK
<1>14. CallerTypeOK' /\ ChannelTypeOK' /\ ActorTypeOK' /\ PendingTypeOK'
  BY <1>2 DEF CallerTypeOK, ChannelTypeOK, ActorTypeOK, PendingTypeOK, sharedVars,
              callerVars, actorVars, Settled
<1>. QED BY <1>9, <1>10, <1>11, <1>12, <1>14

-----------------------------------------------------------------------------
(* dispatch_ack.                                                           *)

\* What is left of the acknowledgements still names durable records.
LEMMA AckTaken ==
  ASSUME TypeOK, StoredInv, acks # <<>>, acks' = Tail(acks)
  PROVE  /\ Head(acks) \in [ws : SeqNums, we : SeqNums, ds : Nat, de : Nat]
         /\ PresentBelow(Head(acks).we)
         /\ acks' \in Seq([ws : SeqNums, we : SeqNums, ds : Nat, de : Nat])
         /\ \A i \in DOMAIN acks' : PresentBelow(acks'[i].we)
<1>. DEFINE Acks == [ws : SeqNums, we : SeqNums, ds : Nat, de : Nat]
<1>1. acks \in Seq(Acks) /\ \A i \in DOMAIN acks : PresentBelow(acks[i].we)
  BY DEF TypeOK, NetTypeOK, StoredInv
<1>. HIDE DEF Acks
<1>2. /\ Tail(acks) \in Seq(Acks)
      /\ \A i \in DOMAIN Tail(acks) : Tail(acks)[i] = acks[i + 1] /\ i + 1 \in DOMAIN acks
  BY <1>1, TailFacts
<1>3. Head(acks) = acks[1] /\ 1 \in DOMAIN acks
  BY <1>1
<1>4. Head(acks) \in Acks
  BY <1>1, <1>3, SeqFacts
<1>5. \A i \in DOMAIN acks' : PresentBelow(acks'[i].we)
  BY <1>1, <1>2
<1>. QED BY <1>1, <1>2, <1>3, <1>4, <1>5 DEF Acks

\* The effect on one submission of an acknowledgement that starts at the front
\* of the queue and ends at `hi`.
LEMMA AcknowledgedFacts ==
  ASSUME NEW p \in PendingSubmissions, p.acked <= p.len,
         NEW a \in [ws : SeqNums, we : SeqNums, ds : Nat, de : Nat],
         NEW hi \in SeqNums, AckedUpTo(a) = hi,
         a.ws = Unacked(pending[1]), Unacked(pending[1]) <= Unacked(p)
  PROVE  LET q == Acknowledged(p, a)
         IN /\ q \in PendingSubmissions
            /\ q.id = p.id /\ q.start = p.start /\ q.len = p.len /\ q.sent = p.sent
            /\ q.acked = IF hi <= Unacked(p) THEN p.acked
                         ELSE IF hi <= End(p) THEN hi - p.start ELSE p.len
<1>. DEFINE lo == Unacked(pending[1])
            end == Max2(Unacked(p), Min2(End(p), AckedUpTo(a)))
            new == {ReceiptFor(w, a) : w \in Unacked(p)..(end - 1)}
<1>1. /\ p.start \in Nat /\ p.len \in Nat /\ p.acked \in Nat /\ p.sent \in Nat
      /\ lo \in Nat /\ a.ds \in Nat /\ hi \in Nat /\ hi <= MaxWriterSeq
  BY Bounds DEF PendingSubmissions, SeqNums
<1>2. end - p.start = IF hi <= Unacked(p) THEN p.acked
                      ELSE IF hi <= End(p) THEN hi - p.start ELSE p.len
  BY <1>1 DEF Max2, Min2, Unacked, End
<1>3. end - p.start \in Nat
  BY <1>1, <1>2 DEF Unacked, End
<1>4. new \subseteq Receipts
  <2>1. SUFFICES ASSUME NEW w \in Unacked(p)..(end - 1)
                 PROVE  ReceiptFor(w, a) \in Receipts
    OBVIOUS
  <2>2. w \in Nat /\ w < hi /\ lo <= w
    BY <1>1 DEF Max2, Min2, Unacked, End
  <2>. HIDE DEF lo
  <2>3. ReceiptFor(w, a) = [w |-> lo + (w - lo), at |-> a.ds + (w - lo)]
    BY DEF ReceiptFor, lo
  <2>4. lo + (w - lo) \in SeqNums /\ a.ds + (w - lo) \in Nat
    BY <1>1, <2>2, Bounds DEF SeqNums
  <2>. QED BY <2>3, <2>4 DEF Receipts
<1>5. Acknowledged(p, a) = [p EXCEPT !.acked = end - p.start, !.receipts = @ \cup new]
  BY DEF Acknowledged, AllReceipts
<1>. HIDE DEF end, new
<1>6. p.receipts \cup new \in SUBSET Receipts
  BY <1>4 DEF PendingSubmissions
<1>. QED BY <1>2, <1>3, <1>5, <1>6 DEF PendingSubmissions

\* The queue after an acknowledgement: its front is cut at `hi`.
LEMMA DispatchAckQueue ==
  ASSUME TypeOK, QueueInv,
         NEW a \in [ws : SeqNums, we : SeqNums, ds : Nat, de : Nat],
         AckValid(a), DispatchAck(a), nextSeq' = nextSeq
  PROVE  /\ AckPoint = a.ws /\ a.ws < a.we /\ a.we <= SentPoint
         /\ AckPoint' = a.we /\ SentPoint' = SentPoint
         /\ QueueInv' /\ PendingTypeOK'
         /\ ticket' \in [Submissions -> Tickets]
         /\ inFlight' \in [records : 0..MaxInFlightRecords, bytes : 0..MaxInFlightBytes,
                          armed : BOOLEAN]
         /\ inFlight'.records > 0 => inFlight'.armed
<1>. USE DEF TypeOK
<1>. DEFINE lo == a.ws
            hi == a.we
            records == inFlight.records - (hi - lo)
<1>1. /\ lo < hi /\ hi - lo <= inFlight.records /\ pending # <<>>
      /\ Unacked(pending[1]) = lo
  <2>1. \E k \in DOMAIN pending : Unacked(pending[1]) = lo
    BY DEF AckValid
  <2>. QED BY <2>1, PendingFacts DEF AckValid
<1>2. /\ lo \in Nat /\ hi \in Nat /\ lo \in SeqNums /\ hi \in SeqNums
      /\ nextSeq \in Nat /\ nextSeq \in SeqNums
      /\ inFlight.records \in 0..MaxInFlightRecords
      /\ inFlight.bytes \in 0..MaxInFlightBytes
  BY Bounds DEF ActorTypeOK, SeqNums
<1>3. AckPoint = lo /\ AckedUpTo(a) = hi
  BY <1>1, <1>2 DEF AckPoint, AckedUpTo
<1>4. hi <= SentPoint /\ SentPoint <= nextSeq /\ SentPoint \in SeqNums
  BY <1>1, <1>2, <1>3, Bounds DEF SentPoint, QueueInv, SeqNums
<1>5. PICK done \in 0..Len(pending) :
        /\ \A i \in 1..done : End(pending[i]) <= hi
        /\ \A i \in (done + 1)..Len(pending) : End(pending[i]) > hi
        /\ pending' = [i \in 1..(Len(pending) - done) |-> Acknowledged(pending[done + i], a)]
        /\ ticket' = [id \in Submissions |->
                        IF \E i \in 1..done : pending[i].id = id
                          THEN LET i == CHOOSE j \in 1..done : pending[j].id = id
                               IN [ticket[id] EXCEPT
                                     !.st = "ok",
                                     !.receipts = Acknowledged(pending[i], a).receipts]
                          ELSE ticket[id]]
  <2>. HIDE DEF hi
  <2>1. AckedUpTo(a) = hi
    BY <1>3 DEF hi
  <2>. QED BY <2>1, Zenon DEF DispatchAck
<1>6. \A i \in DOMAIN pending :
        /\ pending[i] \in PendingSubmissions
        /\ pending[i].start \in Nat /\ pending[i].len \in Nat
        /\ pending[i].acked \in Nat /\ pending[i].sent \in Nat
        /\ pending[i].acked < pending[i].len
        /\ End(pending[i]) <= nextSeq
        /\ i > 1 => pending[i].acked = 0
        /\ i = Len(pending) => End(pending[i]) = nextSeq
        /\ i < Len(pending) => End(pending[i]) = pending[i + 1].start
        /\ pending[i].sent = PrefixBelow(pending[i], SentPoint)
        /\ lo <= Unacked(pending[i])
  <2>1. \A i, j \in DOMAIN pending : i < j => End(pending[i]) <= pending[j].start
    BY DEF QueueInv
  <2>2. 1 \in DOMAIN pending
    BY <1>1, PendingFacts
  <2>3. ASSUME NEW i \in DOMAIN pending PROVE lo <= Unacked(pending[i])
    <3>1. CASE i = 1
      BY <1>1, <1>2, <3>1
    <3>2. CASE i > 1
      <4>1. End(pending[1]) <= pending[i].start /\ pending[1].acked < pending[1].len
        BY <2>1, <2>2, <3>2 DEF QueueInv
      <4>2. /\ pending[1].start \in Nat /\ pending[1].len \in Nat /\ pending[1].acked \in Nat
            /\ pending[i].start \in Nat /\ pending[i].acked \in Nat
        BY <2>2, PendingFacts
      <4>. QED BY SMTT(30), <1>1, <4>1, <4>2 DEF Unacked, End
    <3>. QED BY <3>1, <3>2, PendingFacts
  <2>. QED BY <2>3, PendingFacts DEF QueueInv
<1>7. /\ DOMAIN pending = 1..Len(pending) /\ Len(pending) \in Nat \ {0}
      /\ Len(pending) - done \in Nat /\ done \in Nat /\ done <= Len(pending)
  BY <1>1, PendingFacts
<1>8. ASSUME NEW i \in 1..(Len(pending) - done)
      PROVE  /\ done + i \in DOMAIN pending
             /\ pending'[i] \in PendingSubmissions
             /\ pending'[i].start = pending[done + i].start
             /\ pending'[i].len = pending[done + i].len
             /\ pending'[i].sent = pending[done + i].sent
             /\ i = 1 => pending[done + i].start <= hi
             /\ i > 1 => hi < pending[done + i].start
             /\ hi < End(pending[done + i])
             /\ pending'[i].acked = IF i = 1 THEN hi - pending[done + i].start ELSE 0
  <2>. DEFINE p == pending[done + i]
  <2>1. done + i \in DOMAIN pending /\ done + i \in (done + 1)..Len(pending)
    BY <1>7
  <2>2. /\ p \in PendingSubmissions /\ p.acked < p.len /\ lo <= Unacked(p)
        /\ p.start \in Nat /\ p.len \in Nat /\ p.acked \in Nat /\ p.sent \in Nat
        /\ done + i > 1 => p.acked = 0
    BY <1>6, <2>1
  <2>3. hi < End(p)
    BY <1>5, <2>1
  <2>4. i = 1 => p.start <= hi /\ (p.acked = 0 \/ Unacked(p) = lo)
    <3>1. CASE done = 0
      BY SMTT(30), <1>1, <1>2, <2>2, <3>1 DEF Unacked
    <3>2. CASE done > 0 /\ i = 1
      <4>1. done \in DOMAIN pending /\ done < Len(pending) /\ done \in 1..done
        BY <1>7, <2>1, <3>2
      <4>2. End(pending[done]) <= hi /\ End(pending[done]) = pending[done + 1].start
        BY <1>5, <1>6, <4>1
      <4>3. done + i > 1
        BY <3>2
      <4>. QED BY <2>2, <3>2, <4>2, <4>3
    <3>. QED BY <3>1, <3>2
  <2>5. i > 1 => hi < p.start /\ p.acked = 0
    <3>1. SUFFICES ASSUME i > 1 PROVE hi < p.start /\ p.acked = 0
      OBVIOUS
    <3>2. done + 1 \in DOMAIN pending /\ done + 1 \in (done + 1)..Len(pending)
          /\ done + 1 < done + i
      BY <1>7, <3>1
    <3>3. hi < End(pending[done + 1]) /\ End(pending[done + 1]) <= p.start
      BY <1>5, <2>1, <3>2 DEF QueueInv
    <3>4. End(pending[done + 1]) \in Nat
      BY <1>6, <3>2 DEF End
    <3>. QED BY <1>2, <2>2, <3>1, <3>3, <3>4
  <2>6. pending'[i] = Acknowledged(p, a)
    BY <1>5
  <2>7. /\ pending'[i] \in PendingSubmissions
        /\ pending'[i].start = p.start /\ pending'[i].len = p.len
        /\ pending'[i].sent = p.sent
        /\ pending'[i].acked = IF hi <= Unacked(p) THEN p.acked
                               ELSE IF hi <= End(p) THEN hi - p.start ELSE p.len
    <3>. HIDE DEF p, hi, lo
    <3>1. p.acked <= p.len /\ hi \in SeqNums /\ AckedUpTo(a) = hi
      BY <1>2, <1>3, <2>2
    <3>2. a.ws = Unacked(pending[1]) /\ Unacked(pending[1]) <= Unacked(p)
      BY <1>1, <2>2 DEF lo
    <3>. QED BY <2>2, <2>6, <3>1, <3>2, AcknowledgedFacts
  <2>8. pending'[i].acked = IF i = 1 THEN hi - p.start ELSE 0
    <3>1. CASE i = 1
      <4>1. p.start <= hi /\ (p.acked = 0 \/ p.start + p.acked < hi)
        BY <1>1, <2>4, <3>1 DEF Unacked
      <4>2. hi < p.start + p.len
        BY <2>3 DEF End
      <4>. HIDE DEF p, hi, lo
      <4>3. /\ pending'[i].acked = IF hi <= p.start + p.acked THEN p.acked
                                   ELSE IF hi <= p.start + p.len THEN hi - p.start ELSE p.len
        BY <2>7 DEF Unacked, End
      <4>4. hi \in Int /\ p.start \in Nat /\ p.len \in Nat /\ p.acked \in Nat
        BY <1>2, <2>2
      <4>. QED BY ONLY <3>1, <4>1, <4>2, <4>3, <4>4
    <3>2. CASE i > 1
      BY <1>2, <2>2, <2>5, <2>7, <3>2 DEF Unacked
    <3>. QED BY <3>1, <3>2
  <2>. QED BY <2>1, <2>3, <2>4, <2>5, <2>7, <2>8
<1>9. /\ DOMAIN pending' = 1..(Len(pending) - done)
      /\ pending' \in Seq(PendingSubmissions)
      /\ Len(pending') = Len(pending) - done
  <2>1. DOMAIN pending' = 1..(Len(pending) - done)
    BY <1>5
  <2>2. pending' \in [1..(Len(pending) - done) -> PendingSubmissions]
    BY <1>5, <1>8
  <2>3. pending' \in Seq(PendingSubmissions)
    BY <1>7, <2>2
  <2>4. Len(pending') = Len(pending) - done
    BY <1>7, <2>2, TupleFacts
  <2>. QED BY <2>1, <2>3, <2>4
<1>10. /\ inFlight'.records = records /\ records \in Nat
       /\ inFlight'.bytes = inFlight.bytes - Bytes(lo, hi)
       /\ inFlight'.armed = (records > 0)
       /\ inFlight' = [records |-> inFlight'.records, bytes |-> inFlight'.bytes,
                       armed |-> inFlight'.armed]
  <2>1. records \in Nat
    BY <1>1, <1>2
  <2>2. inFlight' = [records |-> records, bytes |-> inFlight.bytes - Bytes(lo, hi),
                     armed |-> records > 0]
    <3>1. AckedUpTo(a) = hi /\ Unacked(pending[1]) = lo
      BY <1>1, <1>3
    <3>2. inFlight' =
            [records |-> inFlight.records - (a.we - a.ws),
             bytes |-> inFlight.bytes - Bytes(Unacked(pending[1]), AckedUpTo(a)),
             armed |-> inFlight.records - (a.we - a.ws) > 0]
      BY Zenon DEF DispatchAck
    <3>. QED BY <3>1, <3>2
  <2>. HIDE DEF records
  <2>. QED BY <2>1, <2>2
<1>11. AckPoint' = hi
  <2>1. CASE done = Len(pending)
    <3>1. pending' = <<>>
      BY <1>7, <1>9, <2>1, SeqFacts
    <3>2. Len(pending) \in DOMAIN pending /\ Len(pending) \in 1..done
      BY <1>7, <2>1
    <3>3. nextSeq <= hi
      BY <1>5, <1>6, <3>2
    <3>4. AckPoint' = nextSeq
      BY <3>1 DEF AckPoint
    <3>. QED BY <1>2, <1>4, <3>3, <3>4
  <2>2. CASE done < Len(pending)
    <3>1. 1 \in 1..(Len(pending) - done) /\ pending' # <<>>
      BY <1>7, <1>9, <2>2, SeqFacts
    <3>2. done + 1 \in DOMAIN pending
      BY <1>8, <3>1
    <3>3. /\ pending'[1].start = pending[done + 1].start
          /\ pending'[1].acked = hi - pending[done + 1].start
      BY <1>8, <3>1
    <3>. QED BY <1>2, <1>6, <3>1, <3>2, <3>3 DEF AckPoint, Unacked
  <2>3. done = Len(pending) \/ done < Len(pending)
    <3>1. Len(pending) \in Nat /\ done \in Nat /\ done <= Len(pending)
      BY <1>7
    <3>. QED BY <3>1
  <2>. QED BY <2>1, <2>2, <2>3, Zenon
<1>12. SentPoint' = SentPoint
  BY <1>2, <1>3, <1>10, <1>11 DEF SentPoint
<1>13. QueueInv'
  <2>1. ASSUME NEW i \in DOMAIN pending'
        PROVE  /\ pending'[i].acked < pending'[i].len
               /\ End(pending'[i]) <= nextSeq'
               /\ i > 1 => pending'[i].acked = 0
               /\ i = Len(pending') => End(pending'[i]) = nextSeq'
               /\ i < Len(pending') => End(pending'[i]) = pending'[i + 1].start
               /\ pending'[i].sent = PrefixBelow(pending'[i], SentPoint')
    <3>. DEFINE p == pending[done + i]
    <3>1. /\ i \in 1..(Len(pending) - done) /\ done + i \in DOMAIN pending
          /\ pending'[i].start = p.start /\ pending'[i].len = p.len
          /\ pending'[i].sent = p.sent /\ hi < End(p)
          /\ i = 1 => p.start <= hi
          /\ pending'[i].acked = IF i = 1 THEN hi - p.start ELSE 0
      BY <1>8, <1>9
    <3>2. /\ p.start \in Nat /\ p.len \in Nat /\ p.acked \in Nat /\ p.acked < p.len
          /\ End(p) <= nextSeq /\ p.sent = PrefixBelow(p, SentPoint)
          /\ done + i = Len(pending) => End(p) = nextSeq
          /\ done + i < Len(pending) => End(p) = pending[done + i + 1].start
      BY <1>6, <3>1
    <3>3. i < Len(pending') => /\ done + i < Len(pending)
                               /\ pending'[i + 1].start = pending[done + i + 1].start
      <4>1. SUFFICES ASSUME i < Len(pending')
                     PROVE  /\ done + i < Len(pending)
                            /\ pending'[i + 1].start = pending[done + i + 1].start
        OBVIOUS
      <4>2. i + 1 \in 1..(Len(pending) - done) /\ done + (i + 1) = done + i + 1
        <5>1. i \in Nat \ {0} /\ i < Len(pending) - done
          BY <1>7, <1>9, <4>1
        <5>. QED BY <1>7, <5>1
      <4>3. pending'[i + 1].start = pending[done + (i + 1)].start
        BY <1>8, <4>2
      <4>4. done + i < Len(pending)
        BY <1>7, <1>9, <4>1
      <4>. QED BY <4>2, <4>3, <4>4
    <3>4. i = Len(pending') => done + i = Len(pending)
      BY <1>7, <1>9
    <3>5. PrefixBelow(pending'[i], SentPoint') = PrefixBelow(p, SentPoint)
          /\ End(pending'[i]) = End(p)
      BY <1>12, <3>1 DEF PrefixBelow, End
    <3>6. pending'[i].acked < pending'[i].len /\ (i > 1 => pending'[i].acked = 0)
      <4>1. hi < p.start + p.len /\ (i = 1 => p.start <= hi) /\ pending'[i].len = p.len
            /\ pending'[i].acked = IF i = 1 THEN hi - p.start ELSE 0
        BY <3>1 DEF End
      <4>2. /\ hi \in Int /\ p.start \in Nat /\ p.len \in Nat /\ p.acked \in Nat /\ p.acked < p.len
            /\ i \in Int
        BY <1>2, <3>1, <3>2
      <4>. HIDE DEF p, hi
      <4>. QED BY ONLY <4>1, <4>2
    <3>. HIDE DEF p
    <3>. QED BY <3>1, <3>2, <3>3, <3>4, <3>5, <3>6
  <2>2. ASSUME NEW i \in DOMAIN pending', NEW j \in DOMAIN pending', i < j
        PROVE  End(pending'[i]) <= pending'[j].start
    <3>1. /\ i \in 1..(Len(pending) - done) /\ j \in 1..(Len(pending) - done)
          /\ done + i < done + j
      BY <1>9, <2>2
    <3>2. done + i \in DOMAIN pending /\ done + j \in DOMAIN pending
      BY <1>8, <3>1
    <3>3. End(pending[done + i]) <= pending[done + j].start
      BY <3>1, <3>2 DEF QueueInv
    <3>. QED BY <1>8, <3>1, <3>3 DEF End
  <2>3. AckPoint' \in 0..nextSeq' /\ SentPoint' \in AckPoint'..nextSeq'
    BY <1>2, <1>4, <1>11, <1>12 DEF SeqNums
  <2>4. inFlight'.bytes = Bytes(AckPoint', SentPoint')
    <3>1. inFlight.bytes = Bytes(lo, SentPoint)
      BY <1>3 DEF QueueInv
    <3>2. Bytes(lo, hi) + Bytes(hi, SentPoint) = Bytes(lo, SentPoint)
      BY <1>2, <1>4, BytesSplit
    <3>3. Bytes(lo, hi) \in Nat /\ Bytes(hi, SentPoint) \in Nat
      BY <1>1, <1>2, <1>4, BytesType
    <3>4. inFlight'.bytes = Bytes(hi, SentPoint)
      BY <1>10, <3>1, <3>2, <3>3
    <3>. QED BY <1>11, <1>12, <3>4
  <2>. QED BY <2>1, <2>2, <2>3, <2>4 DEF QueueInv, Bytes
<1>14. PendingTypeOK'
  <2>1. ASSUME NEW i \in DOMAIN pending'
        PROVE  pending'[i].acked <= pending'[i].sent /\ pending'[i].sent <= pending'[i].len
    <3>. DEFINE p == pending[done + i]
    <3>1. /\ i \in 1..(Len(pending) - done) /\ done + i \in DOMAIN pending
          /\ pending'[i].start = p.start /\ pending'[i].len = p.len
          /\ pending'[i].sent = p.sent /\ hi < End(p)
          /\ i = 1 => p.start <= hi
          /\ pending'[i].acked = IF i = 1 THEN hi - p.start ELSE 0
      BY <1>8, <1>9
    <3>2. /\ p.start \in Nat /\ p.len \in Nat /\ p.sent \in Nat
          /\ p.sent = PrefixBelow(p, SentPoint) /\ p.sent <= p.len
      BY <1>6, <3>1, PendingFacts
    <3>. HIDE DEF p
    <3>3. hi \in Nat /\ SentPoint \in Nat /\ hi <= SentPoint /\ End(p) = p.start + p.len
      BY <1>2, <1>4 DEF SeqNums, End
    <3>4. CASE i = 1
      <4>1. hi - p.start <= p.sent
        BY <3>1, <3>2, <3>3, <3>4 DEF PrefixBelow
      <4>. QED BY <3>1, <3>2, <3>4, <4>1
    <3>5. CASE i # 1
      BY <3>1, <3>2, <3>5
    <3>. QED BY <3>4, <3>5
  <2>. QED BY <1>9, <2>1 DEF PendingTypeOK
<1>15. inFlight' \in [records : 0..MaxInFlightRecords, bytes : 0..MaxInFlightBytes,
                      armed : BOOLEAN]
  <2>1. inFlight'.bytes \in Nat
    <3>1. inFlight'.bytes = Bytes(hi, SentPoint)
      BY <1>11, <1>12, <1>13 DEF QueueInv
    <3>. QED BY <1>2, <1>4, <3>1, BytesType
  <2>2. Bytes(lo, hi) \in Nat
    BY <1>1, <1>2, BytesType
  <2>3. inFlight'.records \in 0..MaxInFlightRecords
    BY SMTT(30), <1>1, <1>2, <1>10, Bounds
  <2>4. inFlight'.bytes \in 0..MaxInFlightBytes
    BY SMTT(30), <1>2, <1>10, <2>1, <2>2, Bounds
  <2>5. inFlight'.armed \in BOOLEAN
    BY <1>10
  <2>. HIDE DEF records
  <2>. QED BY <1>10, <2>3, <2>4, <2>5
<1>16. ticket' \in [Submissions -> Tickets]
  <2>1. ASSUME NEW id \in Submissions, NEW i \in DOMAIN pending
        PROVE  [ticket[id] EXCEPT !.st = "ok",
                                  !.receipts = Acknowledged(pending[i], a).receipts] \in Tickets
    <3>1. /\ pending[i] \in PendingSubmissions /\ pending[i].acked <= pending[i].len
          /\ a.ws = Unacked(pending[1]) /\ Unacked(pending[1]) <= Unacked(pending[i])
      BY <1>1, <1>6, PendingFacts
    <3>2. Acknowledged(pending[i], a) \in PendingSubmissions
      BY <1>2, <1>3, <3>1, AcknowledgedFacts
    <3>3. Acknowledged(pending[i], a).receipts \in SUBSET Receipts
      BY <3>2 DEF PendingSubmissions
    <3>4. ticket[id] \in Tickets
      BY DEF ChannelTypeOK
    <3>. QED BY <3>3, <3>4 DEF Tickets
  <2>2. ASSUME NEW id \in Submissions, \E i \in 1..done : pending[i].id = id
        PROVE  (CHOOSE j \in 1..done : pending[j].id = id) \in DOMAIN pending
    BY <1>7, <2>2
  <2>3. ASSUME NEW id \in Submissions PROVE ticket'[id] \in Tickets
    <3>1. CASE \E i \in 1..done : pending[i].id = id
      BY <1>5, <2>1, <2>2, <3>1
    <3>2. CASE ~\E i \in 1..done : pending[i].id = id
      BY <1>5, <3>2 DEF ChannelTypeOK
    <3>. QED BY <3>1, <3>2
  <2>. QED BY <1>5, <2>3
<1>. QED BY <1>1, <1>3, <1>4, <1>10, <1>11, <1>12, <1>13, <1>14, <1>15, <1>16

LEMMA RecvAckInv == WriterInv /\ RecvAck => WriterInv'
<1> SUFFICES ASSUME WriterInv, RecvAck PROVE WriterInv'
  OBVIOUS
<1>. DEFINE a == Head(acks)
<1>1. /\ pc = "select" /\ acks # <<>> /\ AckValid(a) /\ DispatchAck(a)
      /\ acks' = Tail(acks) /\ attempts' = 0 /\ pc' = "send" /\ nextSeq' = nextSeq
      /\ UNCHANGED <<state, terminalError, cmds, rxOpen, callerVars, closing,
                     drained, wires, stored, silent, log>>
  BY DEF RecvAck, AwaitsAck
<1>2. Alive /\ Alive' /\ QueueInv /\ TypeOK /\ StoredInv /\ WireInv /\ CurrentInv /\ NoGap
  BY <1>1 DEF Alive, Settled, WriterInv
<1>3. /\ a \in [ws : SeqNums, we : SeqNums, ds : Nat, de : Nat]
      /\ PresentBelow(a.we)
      /\ acks' \in Seq([ws : SeqNums, we : SeqNums, ds : Nat, de : Nat])
      /\ \A i \in DOMAIN acks' : PresentBelow(acks'[i].we)
  BY <1>1, <1>2, AckTaken
<1>. HIDE DEF a
<1>4. /\ AckPoint' = a.we /\ SentPoint' = SentPoint
      /\ QueueInv' /\ PendingTypeOK' /\ ticket' \in [Submissions -> Tickets]
      /\ inFlight' \in [records : 0..MaxInFlightRecords, bytes : 0..MaxInFlightBytes,
                       armed : BOOLEAN]
      /\ inFlight'.records > 0 => inFlight'.armed
  BY <1>1, <1>2, <1>3, DispatchAckQueue
<1>5. DeadlineInv'
  BY <1>1, <1>4 DEF DeadlineInv
<1>6. WireInv' /\ NoGap'
  BY <1>1, <1>2 DEF WireInv, NoGap, PresentBelow
<1>7. StoredInv'
  BY <1>1, <1>2, <1>3 DEF StoredInv, PresentBelow, Current
<1>8. CurrentInv'
  BY <1>1, <1>2, <1>3, <1>4 DEF CurrentInv, PresentBelow, Current
<1>9. CallerTypeOK' /\ ChannelTypeOK' /\ ActorTypeOK'
  <2>1. CallerTypeOK'
    BY <1>1, <1>2 DEF TypeOK, CallerTypeOK, callerVars
  <2>2. ChannelTypeOK'
    BY <1>1, <1>2, <1>4 DEF TypeOK, ChannelTypeOK
  <2>3. attempts' \in 0..BackoffCap
    BY <1>1, Bounds
  <2>. QED BY <1>1, <1>2, <1>4, <2>1, <2>2, <2>3 DEF TypeOK, ActorTypeOK
<1>10. NetTypeOK'
  <2>1. /\ wires' \in Seq(Seq(Frames)) \ {<<>>} /\ stored' \in Seq([w : SeqNums, at : Nat])
        /\ silent' \in BOOLEAN /\ log' \in Seq(SeqNums \cup {Foreign})
    BY <1>1, <1>2 DEF TypeOK, NetTypeOK
  <2>. QED BY <1>3, <2>1, Zenon DEF NetTypeOK
<1>. QED BY <1>2, <1>4, <1>5, <1>6, <1>7, <1>8, <1>9, <1>10 DEF WriterInv, TypeOK

-----------------------------------------------------------------------------
(* The theorems.                                                           *)

LEMMA WriterStep == WriterInv /\ [Next]_vars => WriterInv'
<1>. SUFFICES ASSUME WriterInv, [Next]_vars PROVE WriterInv'
  OBVIOUS
<1>1. CASE Caller
  BY <1>1, CallerInv
<1>2. CASE RunWriter
  BY <1>2, AdmitSubmissionInv, FeedFrameInv, SendDoneInv, RecvAckInv, ReconnectInv,
     ControlInv, EndInv DEF RunWriter, ControlStep, EndStep
<1>3. CASE Environment
  <2>1. ASSUME NEW e \in DOMAIN wires, StoreRecord(e) PROVE WriterInv'
    BY <2>1, StoreRecordInv
  <2>. QED BY <1>3, <2>1, ControlInv, EndInv, SendAckInv, ForeignAppendInv, GoSilentInv
           DEF Environment, ControlStep, EndStep
<1>4. CASE UNCHANGED vars
  <2>1. /\ UNCHANGED <<actorVars, wires, stored, acks, log>>
        /\ silent' \in BOOLEAN /\ CallerTypeOK' /\ ChannelTypeOK'
    BY <1>4 DEF vars, sharedVars, callerVars, netVars, WriterInv, TypeOK, CallerTypeOK,
                ChannelTypeOK, NetTypeOK
  <2>. QED BY <2>1, ActorUnchanged
<1>5. CASE Finished
  BY <1>4, <1>5 DEF Finished
<1>. QED BY <1>1, <1>2, <1>3, <1>4, <1>5 DEF Next

(* WriterInv holds in every reachable state.                               *)
THEOREM WriterInvariant == Spec => []WriterInv
<1>1. Init => WriterInv
  BY InitInv
<1>. QED BY <1>1, WriterStep, PTL DEF Spec

(* Every variable keeps its type, the markers their order, and the window  *)
(* its two limits (run_writer, take_frame, dispatch_ack).                  *)
THEOREM TypeCorrect == Spec => []TypeOK
<1>1. WriterInv => TypeOK
  BY DEF WriterInv
<1>. QED BY <1>1, WriterInvariant, PTL

(* Whatever is lost, resent or stored late, the stream never shows a       *)
(* record of the writer before its predecessor.                            *)
THEOREM StreamHasNoGap == Spec => []NoGap
<1>1. WriterInv => NoGap
  BY DEF WriterInv
<1>. QED BY <1>1, WriterInvariant, PTL

(* With records pending the actor never blocks without an armed deadline:  *)
(* one record always fits an empty window and a frame (send_pending).      *)
THEOREM NeverStalls == Spec => []NoStall
<1>1. WriterInv => NoStall
  BY DEF WriterInv, DeadlineInv, NoStall
<1>. QED BY <1>1, WriterInvariant, PTL

\* The records between the two points are the ones the markers call in flight.
LEMMA WireIsInterval ==
  ASSUME TypeOK, QueueInv
  PROVE  OnTheWire = AckPoint..(SentPoint - 1)
<1>1. /\ nextSeq \in Nat /\ AckPoint \in Nat /\ SentPoint \in Nat
      /\ AckPoint <= SentPoint /\ SentPoint <= nextSeq
  BY Bounds DEF TypeOK, ActorTypeOK, SeqNums, QueueInv
<1>2. /\ DOMAIN pending = 1..Len(pending) /\ Len(pending) \in Nat
      /\ \A i \in DOMAIN pending :
           /\ pending[i].start \in Nat /\ pending[i].len \in Nat
           /\ pending[i].acked \in Nat /\ pending[i].acked < pending[i].len
           /\ i > 1 => pending[i].acked = 0
           /\ i = Len(pending) => End(pending[i]) = nextSeq
           /\ i < Len(pending) => End(pending[i]) = pending[i + 1].start
           /\ pending[i].sent = PrefixBelow(pending[i], SentPoint)
  BY PendingFacts DEF TypeOK, QueueInv
<1>3. \A i, j \in DOMAIN pending : i < j => End(pending[i]) <= pending[j].start
  BY DEF QueueInv
<1>4. pending # <<>> => 1 \in DOMAIN pending /\ AckPoint = pending[1].start + pending[1].acked
  BY <1>2 DEF AckPoint, Unacked
<1>5. ASSUME NEW w \in OnTheWire PROVE w \in AckPoint..(SentPoint - 1)
  <2>1. PICK i \in DOMAIN pending : /\ Unacked(pending[i]) <= w
                                    /\ w < pending[i].start + pending[i].sent
    BY DEF OnTheWire
  <2>2. w \in Nat
    BY <1>1 DEF OnTheWire
  <2>3. w < SentPoint
    BY <1>1, <1>2, <2>1, <2>2 DEF PrefixBelow, End, Unacked
  <2>4. AckPoint <= w
    <3>1. 1 \in DOMAIN pending /\ pending # <<>>
      BY <1>2
    <3>2. CASE i = 1
      BY <1>4, <2>1, <3>1, <3>2 DEF Unacked
    <3>3. CASE i > 1
      <4>1. End(pending[1]) <= pending[i].start
        BY <1>3, <3>1, <3>3
      <4>. QED BY SMTT(30), <1>1, <1>2, <1>4, <2>1, <2>2, <3>1, <4>1 DEF Unacked, End
    <3>. QED BY <1>2, <3>2, <3>3
  <2>. QED BY <1>1, <2>2, <2>3, <2>4
<1>6. ASSUME NEW w \in AckPoint..(SentPoint - 1) PROVE w \in OnTheWire
  <2>. DEFINE T == {i \in DOMAIN pending : w < End(pending[i])}
              n == Len(pending)
  <2>1. w \in Nat /\ AckPoint <= w /\ w < SentPoint /\ w < nextSeq
    BY <1>1
  <2>2. pending # <<>>
    BY <1>1, <2>1 DEF AckPoint
  <2>3. n \in T /\ n \in Nat /\ T \in SUBSET Nat
    <3>1. n \in DOMAIN pending
      BY <1>2, <2>2
    <3>. QED BY <1>2, <2>1, <3>1
  <2>4. PICK i \in T : \A k \in T : ~(k < i)
    <3>. HIDE DEF T, n
    <3>1. PICK i \in T : \A k \in T : ~(<<k, i>> \in OpToRel(<, Nat))
      BY <2>3, NatLessThanWellFounded, WFMin
    <3>2. \A k \in T : k < i => <<k, i>> \in OpToRel(<, Nat)
      BY <2>3 DEF OpToRel
    <3>. QED BY <3>1, <3>2
  <2>5. i \in DOMAIN pending /\ w < End(pending[i])
    OBVIOUS
  <2>6. Unacked(pending[i]) <= w
    <3>1. CASE i = 1
      BY <1>4, <2>1, <2>2, <3>1 DEF Unacked
    <3>2. CASE i > 1
      <4>1. i - 1 \in DOMAIN pending /\ i - 1 < i /\ i - 1 < Len(pending)
        BY <1>2, <2>5, <3>2
      <4>2. End(pending[i - 1]) <= w
        <5>1. ~(w < End(pending[i - 1]))
          BY <2>4, <4>1
        <5>. QED BY <1>2, <2>1, <4>1, <5>1 DEF End
      <4>3. End(pending[i - 1]) = pending[i - 1 + 1].start /\ i - 1 + 1 = i
        BY <1>2, <2>5, <4>1
      <4>4. pending[i].start <= w /\ pending[i].acked = 0
        BY <1>2, <2>5, <3>2, <4>2, <4>3
      <4>. QED BY <1>2, <2>5, <4>4 DEF Unacked
    <3>. QED BY <1>2, <2>5, <3>1, <3>2
  <2>7. w < pending[i].start + pending[i].sent
    BY <1>1, <1>2, <2>1, <2>5, <2>6 DEF PrefixBelow, End, Unacked
  <2>8. w \in 0..(nextSeq - 1)
    BY <1>1, <2>1
  <2>. QED BY <2>5, <2>6, <2>7, <2>8 DEF OnTheWire
<1>. QED BY <1>5, <1>6

LEMMA WindowOfInvariant == WriterInv => WindowExact
<1> SUFFICES ASSUME WriterInv, Alive
             PROVE  /\ inFlight.records = Cardinality(OnTheWire)
                    /\ OnTheWire # {} =>
                         \E lo, hi \in OnTheWire :
                           /\ \A w \in OnTheWire : lo <= w /\ w <= hi
                           /\ inFlight.bytes = Bytes(lo, hi + 1)
                    /\ OnTheWire = {} => inFlight.bytes = 0
  BY DEF WindowExact
<1>1. TypeOK /\ QueueInv
  BY DEF WriterInv
<1>2. OnTheWire = AckPoint..(SentPoint - 1)
  BY <1>1, WireIsInterval
<1>3. /\ AckPoint \in Nat /\ SentPoint \in Nat /\ AckPoint <= SentPoint
      /\ AckPoint \in SeqNums /\ SentPoint \in SeqNums
      /\ inFlight.records \in Nat /\ SentPoint = AckPoint + inFlight.records
      /\ inFlight.bytes = Bytes(AckPoint, SentPoint)
  BY <1>1, Bounds DEF TypeOK, ActorTypeOK, SeqNums, QueueInv, SentPoint
<1>4. inFlight.records = Cardinality(OnTheWire)
  <2>1. Cardinality(AckPoint..(SentPoint - 1)) =
          IF AckPoint > SentPoint - 1 THEN 0 ELSE SentPoint - 1 - AckPoint + 1
    <3>1. AckPoint \in Int /\ SentPoint - 1 \in Int
      BY <1>3
    <3>. QED BY <3>1, FS_Interval, Zenon
  <2>. QED BY <1>2, <1>3, <2>1
<1>5. ASSUME OnTheWire # {}
      PROVE  \E lo, hi \in OnTheWire :
               /\ \A w \in OnTheWire : lo <= w /\ w <= hi
               /\ inFlight.bytes = Bytes(lo, hi + 1)
  <2>1. AckPoint \in OnTheWire /\ SentPoint - 1 \in OnTheWire
    BY <1>2, <1>3, <1>5
  <2>2. \A w \in OnTheWire : AckPoint <= w /\ w <= SentPoint - 1
    BY <1>2, <1>3
  <2>3. inFlight.bytes = Bytes(AckPoint, SentPoint - 1 + 1)
    BY <1>3
  <2>. QED BY <2>1, <2>2, <2>3
<1>6. ASSUME OnTheWire = {} PROVE inFlight.bytes = 0
  <2>1. AckPoint = SentPoint
    BY <1>2, <1>3, <1>6
  <2>. QED BY <1>3, <2>1, WriterAssumption DEF Bytes, SeqNums
<1>. QED BY <1>4, <1>5, <1>6

(* The window counts exactly the records and bytes sent on this connection *)
(* and not yet acknowledged (take_frame, dispatch_ack, reconnect).         *)
THEOREM WindowIsExact == Spec => []WindowExact
<1>. QED BY WindowOfInvariant, WriterInvariant, PTL

-----------------------------------------------------------------------------
(* Tickets, receipts, close and the refinement.                            *)

LEMMA TicketFacts ==
  ASSUME TypeOK, NEW id \in Submissions
  PROVE  /\ ticket[id] \in Tickets /\ ticket[id].receipts \subseteq Receipts
         /\ ticket[id].start \in Nat /\ ticket[id].len \in Nat
BY Bounds DEF TypeOK, ChannelTypeOK, Tickets, SeqNums

LEMMA ReceiptFacts ==
  ASSUME NEW r \in Receipts PROVE r.w \in Nat /\ r.at \in Nat
BY Bounds DEF Receipts, SeqNums

\* The command an actor takes, and those behind it.
LEMMA CommandFacts ==
  ASSUME TypeOK, cmds # <<>>
  PROVE  /\ Head(cmds) = cmds[1] /\ 1 \in DOMAIN cmds /\ Head(cmds) \in Commands
         /\ DOMAIN cmds = 1..Len(cmds) /\ Len(cmds) \in Nat \ {0}
         /\ DOMAIN Tail(cmds) = 1..(Len(cmds) - 1) /\ Len(Tail(cmds)) = Len(cmds) - 1
         /\ \A i \in DOMAIN Tail(cmds) : Tail(cmds)[i] = cmds[i + 1] /\ i + 1 \in DOMAIN cmds
<1>1. cmds \in Seq(Commands)
  BY DEF TypeOK, ChannelTypeOK
<1>2. Head(cmds) = cmds[1] /\ 1 \in DOMAIN cmds
  BY <1>1
<1>. QED BY <1>1, <1>2, TailFacts, SeqFacts

LEMMA SubmitFacts ==
  ASSUME NEW c \in Commands, c.kind = "submit"
  PROVE  c.id \in Submissions /\ c.len \in Nat \ {0}
BY WriterAssumption DEF Commands, CloseCommand, SubmitCommand

-----------------------------------------------------------------------------
(* The steps, by what they leave alone.                                    *)

\* Every step but RecvAck leaves the receipts of the tickets alone.
LEMMA TicketReceiptsKept ==
  ASSUME TypeOK, Caller \/ ControlStep \/ EndStep \/ AdmitSubmission, NEW id \in Submissions
  PROVE  ticket'[id].receipts = ticket[id].receipts
<1>1. ticket \in [Submissions -> Tickets]
  BY DEF TypeOK, ChannelTypeOK
<1>2. CASE Caller
  <2>1. CASE ticket' = ticket
    BY <2>1
  <2>2. ASSUME NEW p \in Producers, SubmitSend(p), ticket' # ticket
        PROVE  ticket'[id].receipts = ticket[id].receipts
    <3>1. PICK s \in Submissions, len \in BatchLens :
            ticket' = [ticket EXCEPT ![s].st = "waiting", ![s].len = len]
      BY <2>2 DEF SubmitSend
    <3>. QED BY <1>1, <3>1 DEF Tickets
  <2>. QED BY <1>2, <2>1, <2>2 DEF Caller, SubmitCheck, CloseMark, CloseSend, CloseJoin, Abort,
                                   sharedVars
<1>3. \A ids, outcome : Resolve(ids, outcome)[id].receipts = ticket[id].receipts
  BY <1>1 DEF Resolve, Tickets
<1>4. \A lost : FailedTickets(lost)[id].receipts = ticket[id].receipts
  BY <1>1 DEF FailedTickets, Tickets
<1>5. CASE ControlStep
  <2>1. ticket' = ticket \/ ticket' = Resolve(QueuedIds, "dropped")
    BY <1>5 DEF ControlStep, CloseDone, Shutdown, DropReceiver, AdmitClose, DrainEmpty,
                ConnectionFails, AckDeadline, ReconnectFails, sharedVars
  <2>. QED BY <1>3, <2>1, Zenon
<1>6. CASE EndStep
  <2>1. \/ \E lost : ticket' = FailedTickets(lost)
        \/ ticket' = Resolve(PendingIds, "dropped")
    BY <1>6 DEF EndStep, FatalError, RecvInvalidAck, SequenceExhausted, Cancelled,
                CommandsClosed, FinishWriterError
  <2>. QED BY <1>3, <1>4, <2>1, Zenon
<1>7. CASE AdmitSubmission
  <2>1. Head(cmds).id \in Submissions
    BY <1>7, CommandFacts, SubmitFacts DEF AdmitSubmission, DrainTurn
  <2>2. ticket' = [ticket EXCEPT ![Head(cmds).id].start = nextSeq]
    BY <1>7 DEF AdmitSubmission
  <2>. QED BY <1>1, <2>1, <2>2 DEF Tickets
<1>. QED BY <1>2, <1>5, <1>6, <1>7

-----------------------------------------------------------------------------
(* DurableInv.                                                             *)

LEMMA RecordedMore ==
  ASSUME NEW S, NEW records \in Seq(S), NEW x, NEW r, r.at \in Nat, RecordedIn(records, r)
  PROVE  RecordedIn(Append(records, x), r)
<1>1. /\ Len(Append(records, x)) = Len(records) + 1
      /\ \A j \in 1..Len(records) : Append(records, x)[j] = records[j]
      /\ Len(records) \in Nat
  OBVIOUS
<1>2. r.at + 1 \in 1..Len(records)
  BY <1>1 DEF RecordedIn
<1>. QED BY <1>1, <1>2 DEF RecordedIn

\* Receipts that only move, or go, keep naming records of the stream.
LEMMA DurableKept ==
  ASSUME TypeOK, DurableInv, log' = log,
         stored' = stored \/ stored' = <<>>,
         acks' = acks \/ acks' = <<>> \/ (acks # <<>> /\ acks' = Tail(acks)),
         \A i \in DOMAIN pending' :
           \/ pending'[i].receipts = {}
           \/ \E j \in DOMAIN pending : pending'[i].receipts = pending[j].receipts,
         \A id \in Submissions : ticket'[id].receipts = ticket[id].receipts
  PROVE  DurableInv'
<1>1. \A i \in DOMAIN stored' : RecordedIn(log', stored'[i])
  BY DEF DurableInv
<1>2. \A i \in DOMAIN acks' : \E j \in DOMAIN acks : acks'[i] = acks[j]
  <2>1. CASE acks # <<>> /\ acks' = Tail(acks)
    <3>1. acks \in Seq([ws : SeqNums, we : SeqNums, ds : Nat, de : Nat])
      BY DEF TypeOK, NetTypeOK
    <3>2. \A i \in DOMAIN Tail(acks) : Tail(acks)[i] = acks[i + 1] /\ i + 1 \in DOMAIN acks
      BY <2>1, <3>1, TailFacts
    <3>. QED BY <2>1, <3>2
  <2>. QED BY <2>1
<1>3. \A i \in DOMAIN acks' : \A w \in acks'[i].ws..(acks'[i].we - 1) :
        RecordedIn(log', [w |-> w, at |-> acks'[i].ds + (w - acks'[i].ws)])
  BY <1>2 DEF DurableInv
<1>4. \A i \in DOMAIN pending' : \A r \in pending'[i].receipts : RecordedIn(log', r)
  BY DEF DurableInv
<1>5. ReceiptsDurable'
  BY DEF DurableInv, ReceiptsDurable
<1>. QED BY <1>1, <1>3, <1>4, <1>5 DEF DurableInv

LEMMA DurableQuiet ==
  ASSUME TypeOK, DurableInv, Caller \/ ControlStep \/ EndStep \/ AdmitSubmission
  PROVE  DurableInv'
<1>1. /\ log' = log /\ stored' = stored
      /\ acks' = acks \/ (acks # <<>> /\ acks' = Tail(acks))
  BY DEF Caller, SubmitCheck, SubmitSend, CloseMark, CloseSend, CloseJoin, Abort,
         ControlStep, CloseDone, Shutdown, DropReceiver, AdmitClose, DrainEmpty,
         ConnectionFails, AckDeadline, ReconnectFails, EndStep, FatalError, RecvInvalidAck,
         SequenceExhausted, Cancelled, CommandsClosed, AdmitSubmission, netVars
<1>2. \A i \in DOMAIN pending' :
        \/ pending'[i].receipts = {}
        \/ \E j \in DOMAIN pending : pending'[i].receipts = pending[j].receipts
  <2>1. CASE pending' = pending \/ pending' = <<>>
    BY <2>1
  <2>2. CASE AdmitSubmission
    <3>1. PICK p : p.receipts = {} /\ pending' = Append(pending, p)
      BY <2>2 DEF AdmitSubmission
    <3>2. pending \in Seq(PendingSubmissions)
      BY DEF TypeOK, PendingTypeOK
    <3>3. /\ DOMAIN pending' = 1..(Len(pending) + 1) /\ DOMAIN pending = 1..Len(pending)
          /\ \A j \in DOMAIN pending : pending'[j] = pending[j]
          /\ pending'[Len(pending) + 1] = p
          /\ Len(pending) \in Nat
      BY <3>1, <3>2
    <3>. QED BY <3>1, <3>3
  <2>. QED BY <2>1, <2>2
           DEF Caller, SubmitCheck, SubmitSend, CloseMark, CloseSend, CloseJoin, Abort,
               ControlStep, CloseDone, Shutdown, DropReceiver, AdmitClose, DrainEmpty,
               ConnectionFails, AckDeadline, ReconnectFails, EndStep, FatalError,
               RecvInvalidAck, SequenceExhausted, Cancelled, CommandsClosed,
               FinishWriterError, actorVars
<1>. QED BY <1>1, <1>2, DurableKept, TicketReceiptsKept

LEMMA DurableSend ==
  ASSUME TypeOK, DurableInv, FeedFrame \/ SendDone \/ Reconnect \/ GoSilent
  PROVE  DurableInv'
<1>1. /\ log' = log /\ ticket' = ticket
      /\ stored' = stored \/ stored' = <<>>
      /\ acks' = acks \/ acks' = <<>>
  BY DEF FeedFrame, SendDone, Reconnect, GoSilent, netVars, sharedVars
<1>2. /\ DOMAIN pending' = DOMAIN pending
      /\ \A i \in DOMAIN pending : pending'[i].receipts = pending[i].receipts
  <2>1. \A i \in DOMAIN pending : pending[i] \in PendingSubmissions
    BY PendingFacts DEF TypeOK
  <2>2. CASE pending' = pending
    BY <2>2
  <2>3. CASE FeedFrame
    <3>1. PICK hi : pending' = [i \in DOMAIN pending |-> SentUpTo(pending[i], hi)]
      BY <2>3 DEF FeedFrame
    <3>. QED BY <2>1, <3>1 DEF SentUpTo, PendingSubmissions
  <2>4. CASE Reconnect
    BY <2>1, <2>4 DEF Reconnect, Rewound, PendingSubmissions
  <2>. QED BY <2>2, <2>3, <2>4 DEF SendDone, GoSilent, actorVars
<1>. QED BY <1>1, <1>2, DurableKept

\* The stream grows: what was recorded stays recorded.
LEMMA DurableMore ==
  ASSUME TypeOK, DurableInv, NEW x \in SeqNums \cup {Foreign}, log' = Append(log, x),
         UNCHANGED <<acks, pending, ticket>>,
         stored' = stored \/ stored' = Append(stored, [w |-> x, at |-> Len(log)])
  PROVE  DurableInv'
<1>. DEFINE Stored == [w : SeqNums, at : Nat]
            Acks == [ws : SeqNums, we : SeqNums, ds : Nat, de : Nat]
<1>1. /\ log \in Seq(SeqNums \cup {Foreign}) /\ stored \in Seq(Stored) /\ acks \in Seq(Acks)
  BY DEF TypeOK, NetTypeOK
<1>2. ASSUME NEW r, r.at \in Nat, RecordedIn(log, r) PROVE RecordedIn(log', r)
  BY <1>1, <1>2, RecordedMore
<1>3. ASSUME NEW i \in DOMAIN stored' PROVE RecordedIn(log', stored'[i])
  <2>1. DOMAIN stored = 1..Len(stored) /\ Len(stored) \in Nat
        /\ \A j \in DOMAIN stored : stored[j] \in Stored
    <3>. HIDE DEF Stored
    <3>. QED BY <1>1, SeqFacts
  <2>2. CASE i \in DOMAIN stored
    <3>1. stored'[i] = stored[i]
      BY <1>1, <2>1, <2>2
    <3>2. stored[i].at \in Nat /\ RecordedIn(log, stored[i])
      BY <2>1, <2>2 DEF DurableInv
    <3>. QED BY <1>2, <3>1, <3>2
  <2>3. CASE i \notin DOMAIN stored
    <3>1. stored'[i] = [w |-> x, at |-> Len(log)]
      BY <1>1, <2>1, <2>3
    <3>2. Len(log') = Len(log) + 1 /\ log'[Len(log) + 1] = x /\ Len(log) \in Nat
      BY <1>1
    <3>. QED BY <3>1, <3>2 DEF RecordedIn
  <2>. QED BY <2>2, <2>3
<1>4. ASSUME NEW i \in DOMAIN acks', NEW w \in acks'[i].ws..(acks'[i].we - 1)
      PROVE  RecordedIn(log', [w |-> w, at |-> acks'[i].ds + (w - acks'[i].ws)])
  <2>1. PICK a \in Acks : a = acks[i] /\ i \in DOMAIN acks /\ acks'[i] = a
    <3>. HIDE DEF Acks
    <3>. QED BY <1>1, SeqFacts
  <2>2. PICK r : r = [w |-> w, at |-> a.ds + (w - a.ws)]
    OBVIOUS
  <2>3. r.at \in Nat
    BY <2>1, <2>2, Bounds DEF SeqNums
  <2>4. RecordedIn(log, r)
    BY <2>1, <2>2 DEF DurableInv
  <2>. QED BY <1>2, <2>1, <2>2, <2>3, <2>4
<1>5. \A i \in DOMAIN pending' : \A r \in pending'[i].receipts : RecordedIn(log', r)
  <2>1. \A i \in DOMAIN pending : \A r \in pending[i].receipts : r \in Receipts
    BY PendingFacts DEF TypeOK, PendingSubmissions
  <2>. QED BY <1>2, <2>1, ReceiptFacts DEF DurableInv
<1>6. ReceiptsDurable'
  <2>1. ASSUME NEW id \in Submissions, NEW r \in ticket[id].receipts
        PROVE  RecordedIn(log', r)
    <3>1. r.at \in Nat
      BY TicketFacts, ReceiptFacts
    <3>2. RecordedIn(log, r)
      BY DEF DurableInv, ReceiptsDurable, RecordedIn
    <3>. QED BY <1>2, <3>1, <3>2
  <2>. QED BY <2>1 DEF ReceiptsDurable, RecordedIn
<1>. QED BY <1>3, <1>4, <1>5, <1>6 DEF DurableInv

LEMMA DurableStore ==
  ASSUME TypeOK, DurableInv, ForeignAppend \/ \E e \in DOMAIN wires : StoreRecord(e)
  PROVE  DurableInv'
<1>1. UNCHANGED <<acks, pending, ticket>>
  BY DEF ForeignAppend, StoreRecord, actorVars, sharedVars
<1>2. CASE ForeignAppend
  BY <1>1, <1>2, DurableMore DEF ForeignAppend
<1>3. ASSUME NEW e \in DOMAIN wires, StoreRecord(e) PROVE DurableInv'
  <2>1. PICK f : f = Head(wires[e])
    OBVIOUS
  <2>2. /\ log' = Append(log, f.lo)
        /\ stored' = stored \/ stored' = Append(stored, [w |-> f.lo, at |-> Len(log)])
    BY <1>3, <2>1 DEF StoreRecord
  <2>3. f \in Frames
    <3>1. wires[e] \in Seq(Frames) /\ wires[e] # <<>>
      BY <1>3, SeqFacts DEF StoreRecord, TypeOK, NetTypeOK
    <3>. QED BY <2>1, <3>1
  <2>. QED BY <1>1, <2>2, <2>3, DurableMore DEF Frames
<1>. QED BY <1>2, <1>3

LEMMA DurableAck ==
  ASSUME WriterInv, DurableInv, SendAck
  PROVE  DurableInv'
<1>. DEFINE Stored == [w : SeqNums, at : Nat]
            Acks == [ws : SeqNums, we : SeqNums, ds : Nat, de : Nat]
<1>1. UNCHANGED <<log, pending, ticket>>
  BY DEF SendAck, actorVars, sharedVars
<1>2. PICK k \in 1..Len(stored) :
        /\ \A i \in 1..k : stored[i].at = stored[1].at + i - 1
        /\ acks' = Append(acks, [ws |-> stored[1].w, we |-> stored[1].w + k,
                                 ds |-> stored[1].at, de |-> stored[1].at + k])
        /\ stored' = SubSeq(stored, k + 1, Len(stored))
  BY DEF SendAck
<1>3. /\ stored \in Seq(Stored) /\ acks \in Seq(Acks)
      /\ DOMAIN stored = 1..Len(stored) /\ Len(stored) \in Nat
      /\ \A i \in DOMAIN stored : stored[i].w \in Nat /\ stored[i].at \in Nat
  <2>1. stored \in Seq(Stored) /\ acks \in Seq(Acks)
    BY DEF WriterInv, TypeOK, NetTypeOK
  <2>2. DOMAIN stored = 1..Len(stored) /\ Len(stored) \in Nat
        /\ \A i \in DOMAIN stored : stored[i] \in Stored
    <3>. HIDE DEF Stored
    <3>. QED BY <2>1, SeqFacts
  <2>. QED BY <2>1, <2>2, Bounds DEF SeqNums
<1>4. \A i \in DOMAIN stored' : RecordedIn(log', stored'[i])
  <2>1. \A i \in DOMAIN stored' : stored'[i] = stored[i + k] /\ i + k \in DOMAIN stored
    <3>. HIDE DEF Stored
    <3>. QED BY <1>2, <1>3, SuffixFacts
  <2>. QED BY <1>1, <2>1 DEF DurableInv
<1>5. ASSUME NEW i \in DOMAIN acks', NEW w \in acks'[i].ws..(acks'[i].we - 1)
      PROVE  RecordedIn(log', [w |-> w, at |-> acks'[i].ds + (w - acks'[i].ws)])
  <2>. DEFINE a == [ws |-> stored[1].w, we |-> stored[1].w + k,
                    ds |-> stored[1].at, de |-> stored[1].at + k]
  <2>1. (i \in DOMAIN acks /\ acks'[i] = acks[i]) \/ acks'[i] = a
    <3>. HIDE DEF a, Acks
    <3>1. DOMAIN acks = 1..Len(acks) /\ Len(acks) \in Nat
      BY <1>3, SeqFacts
    <3>2. acks' = Append(acks, a)
      BY <1>2 DEF a
    <3>. QED BY <1>3, <3>1, <3>2
  <2>2. CASE i \in DOMAIN acks /\ acks'[i] = acks[i]
    BY <1>1, <2>2 DEF DurableInv
  <2>3. CASE acks'[i] = a
    <3>1. 1 \in DOMAIN stored
      BY <1>3
    <3>2. PICK u \in Nat, d \in Nat : u = stored[1].w /\ d = stored[1].at
      BY <1>3, <3>1
    <3>3. /\ acks'[i].ws = u /\ acks'[i].we = u + k /\ acks'[i].ds = d
          /\ k \in Nat /\ k <= Len(stored)
      BY <1>3, <2>3, <3>2
    <3>4. w \in u..(u + k - 1)
      BY <3>3
    <3>. HIDE DEF a, Stored, Acks
    <3>5. PICK j \in 1..k : j = w - u + 1
      BY <3>3, <3>4
    <3>6. j \in DOMAIN stored
      BY <1>3, <3>3, <3>5
    <3>7. stored[j].w = u + j - 1 /\ stored[j].at = d + j - 1
      BY <1>2, <3>2, <3>6 DEF WriterInv, StoredInv
    <3>8. stored[j].w = w /\ stored[j].at = acks'[i].ds + (w - acks'[i].ws)
      BY <3>3, <3>4, <3>5, <3>7
    <3>9. RecordedIn(log, stored[j])
      BY <3>6 DEF DurableInv
    <3>. QED BY <1>1, <3>8, <3>9 DEF RecordedIn
  <2>. QED BY <2>1, <2>2, <2>3
<1>6. /\ \A i \in DOMAIN pending' : \A r \in pending'[i].receipts : RecordedIn(log', r)
      /\ ReceiptsDurable'
  BY <1>1 DEF DurableInv, ReceiptsDurable
<1>. QED BY <1>4, <1>5, <1>6 DEF DurableInv

-----------------------------------------------------------------------------
(* What an acknowledgement does.                                           *)

AckRanges == [ws : SeqNums, we : SeqNums, ds : Nat, de : Nat]

\* The receipts that `a` adds for the records lo, ..., hi - 1.
NewReceipts(a, lo, hi) == {[w |-> w, at |-> a.ds + (w - a.ws)] : w \in lo..(hi - 1)}

\* What `a` makes of a pending submission `p`: `q`.
AckEffect(p, q, a) ==
  /\ q.id = p.id /\ q.start = p.start /\ q.len = p.len
  /\ q.acked \in Nat /\ p.acked <= q.acked
  /\ q.acked = p.acked \/ p.start + q.acked <= a.we
  /\ End(p) <= a.we => q.acked = p.len
  /\ q.receipts = p.receipts \cup NewReceipts(a, Unacked(p), p.start + q.acked)

LEMMA AckReceipts ==
  ASSUME NEW p \in PendingSubmissions, p.acked <= p.len,
         NEW a \in AckRanges, AckedUpTo(a) = a.we,
         a.ws = Unacked(pending[1]), a.ws <= Unacked(p)
  PROVE  AckEffect(p, Acknowledged(p, a), a)
<1>. DEFINE q == Acknowledged(p, a)
            end == Max2(Unacked(p), Min2(End(p), AckedUpTo(a)))
<1>1. /\ p.start \in Nat /\ p.len \in Nat /\ p.acked \in Nat
      /\ a.ws \in Nat /\ a.we \in Nat /\ a.ds \in Nat
  BY Bounds DEF PendingSubmissions, AckRanges, SeqNums
<1>2. /\ q.id = p.id /\ q.start = p.start /\ q.len = p.len
      /\ q.acked = IF a.we <= Unacked(p) THEN p.acked
                   ELSE IF a.we <= End(p) THEN a.we - p.start ELSE p.len
  <2>1. a \in [ws : SeqNums, we : SeqNums, ds : Nat, de : Nat] /\ a.we \in SeqNums
    BY DEF AckRanges
  <2>. QED BY <2>1, AcknowledgedFacts
<1>3. /\ q.acked \in Nat /\ p.acked <= q.acked
      /\ q.acked = p.acked \/ p.start + q.acked <= a.we
      /\ End(p) <= a.we => q.acked = p.len
  <2>. HIDE DEF q
  <2>. QED BY <1>1, <1>2 DEF Unacked, End
<1>4. q.acked = end - p.start
           /\ q.receipts = p.receipts \cup {ReceiptFor(w, a) : w \in Unacked(p)..(end - 1)}
  BY DEF Acknowledged, AllReceipts, PendingSubmissions
<1>5. p.start + q.acked = end
  <2>1. end \in Nat
    BY <1>1 DEF Max2, Min2, Unacked, End
  <2>. HIDE DEF end, q
  <2>. QED BY <1>1, <1>4, <2>1
<1>6. \A w \in Unacked(p)..(end - 1) : ReceiptFor(w, a) = [w |-> w, at |-> a.ds + (w - a.ws)]
  <2>1. SUFFICES ASSUME NEW w \in Unacked(p)..(end - 1)
                 PROVE  ReceiptFor(w, a) = [w |-> w, at |-> a.ds + (w - a.ws)]
    OBVIOUS
  <2>2. ReceiptFor(w, a) = [w |-> a.ws + (w - a.ws), at |-> a.ds + (w - a.ws)]
    BY DEF ReceiptFor
  <2>3. w \in Int
    BY <1>1 DEF Unacked
  <2>. QED BY <1>1, <2>2, <2>3
<1>7. {ReceiptFor(w, a) : w \in Unacked(p)..(end - 1)}
        = NewReceipts(a, Unacked(p), p.start + q.acked)
  <2>. HIDE DEF end, q
  <2>. QED BY <1>5, <1>6 DEF NewReceipts
<1>. HIDE DEF end
<1>. QED BY <1>2, <1>3, <1>4, <1>7 DEF AckEffect

\* `a` completes the first `done` submissions, whose tickets are answered, and
\* cuts the one behind them.
FrontCompleted(a, done) ==
  /\ a = acks[1] /\ 1 \in DOMAIN acks
  /\ AckPoint = a.ws /\ a.ws < a.we /\ AckPoint' = a.we
  /\ DOMAIN pending' = 1..(Len(pending) - done)
  /\ \A i \in DOMAIN pending' :
       done + i \in DOMAIN pending /\ pending'[i] = Acknowledged(pending[done + i], a)
  /\ \A i \in 1..done : i \in DOMAIN pending /\ End(pending[i]) <= a.we
  /\ \A id \in Submissions :
       IF \E i \in 1..done : pending[i].id = id
         THEN \E i \in 1..done :
                /\ pending[i].id = id
                /\ ticket'[id] = [ticket[id] EXCEPT
                     !.st = "ok", !.receipts = Acknowledged(pending[i], a).receipts]
         ELSE ticket'[id] = ticket[id]
  /\ \A i \in DOMAIN pending :
       /\ a.ws <= Unacked(pending[i])
       /\ AckEffect(pending[i], Acknowledged(pending[i], a), a)

LEMMA AckStep ==
  ASSUME WriterInv, RecvAck
  PROVE  \E a \in AckRanges, done \in 0..Len(pending) : FrontCompleted(a, done)
<1>. USE DEF WriterInv
<1>1. /\ acks # <<>> /\ AckValid(Head(acks)) /\ DispatchAck(Head(acks))
      /\ acks' = Tail(acks) /\ nextSeq' = nextSeq /\ pc = "select"
  BY DEF RecvAck, AwaitsAck
<1>2. PICK a \in AckRanges : a = Head(acks)
  BY <1>1, AckTaken DEF AckRanges
<1>3. a = acks[1] /\ 1 \in DOMAIN acks
  BY <1>1, <1>2, SeqFacts DEF TypeOK, NetTypeOK
<1>4. QueueInv
  BY <1>1 DEF Alive, Settled
<1>5. AckPoint = a.ws /\ a.ws < a.we /\ AckPoint' = a.we
  BY <1>1, <1>2, <1>4, DispatchAckQueue DEF AckRanges
<1>6. a.ws \in Nat /\ a.we \in Nat
  BY Bounds DEF AckRanges, SeqNums
<1>7. 1 \in DOMAIN pending /\ Unacked(pending[1]) = a.ws
  <2>1. \E k \in DOMAIN pending : Unacked(pending[1]) = a.ws
    BY <1>1, <1>2 DEF AckValid
  <2>. QED BY <2>1, PendingFacts DEF TypeOK
<1>8. AckedUpTo(a) = a.we
  BY <1>6, <1>7 DEF AckedUpTo
<1>9. PICK done \in 0..Len(pending) :
        /\ \A i \in 1..done : End(pending[i]) <= AckedUpTo(a)
        /\ \A i \in (done + 1)..Len(pending) : End(pending[i]) > AckedUpTo(a)
        /\ pending' = [i \in 1..(Len(pending) - done) |-> Acknowledged(pending[done + i], a)]
        /\ ticket' = [id \in Submissions |->
                        IF \E i \in 1..done : pending[i].id = id
                          THEN LET i == CHOOSE j \in 1..done : pending[j].id = id
                               IN [ticket[id] EXCEPT
                                     !.st = "ok",
                                     !.receipts = Acknowledged(pending[i], a).receipts]
                          ELSE ticket[id]]
  <2>1. DispatchAck(a)
    BY <1>1, <1>2
  <2>. QED BY <2>1, Zenon DEF DispatchAck
<1>10. /\ DOMAIN pending = 1..Len(pending) /\ Len(pending) \in Nat
       /\ \A i \in DOMAIN pending :
            /\ pending[i] \in PendingSubmissions /\ pending[i].acked <= pending[i].len
            /\ pending[i].start \in Nat /\ pending[i].len \in Nat /\ pending[i].acked \in Nat
            /\ a.ws <= Unacked(pending[i])
  <2>1. /\ DOMAIN pending = 1..Len(pending) /\ Len(pending) \in Nat
        /\ \A i \in DOMAIN pending :
             /\ pending[i] \in PendingSubmissions /\ pending[i].acked < pending[i].len
             /\ pending[i].start \in Nat /\ pending[i].len \in Nat /\ pending[i].acked \in Nat
    BY <1>4, PendingFacts DEF TypeOK, QueueInv
  <2>2. ASSUME NEW i \in DOMAIN pending PROVE a.ws <= Unacked(pending[i])
    <3>1. CASE i = 1
      BY <1>6, <1>7, <3>1
    <3>2. CASE 1 < i
      <4>1. End(pending[1]) <= pending[i].start
        BY <1>4, <1>7, <3>2 DEF QueueInv
      <4>2. PICK p \in PendingSubmissions : p = pending[1] /\ p.start \in Nat
                                            /\ p.len \in Nat /\ p.acked \in Nat /\ p.acked < p.len
        BY <1>7, <2>1
      <4>3. PICK q \in PendingSubmissions : q = pending[i] /\ q.start \in Nat /\ q.acked \in Nat
        BY <2>1
      <4>4. a.ws = p.start + p.acked /\ p.start + p.len <= q.start
        BY <1>7, <4>1, <4>2, <4>3 DEF End, Unacked
      <4>5. a.ws <= q.start + q.acked
        BY <4>2, <4>3, <4>4
      <4>. QED BY <4>3, <4>5 DEF Unacked
    <3>. QED BY <2>1, <3>1, <3>2
  <2>. QED BY <2>1, <2>2
<1>11. /\ DOMAIN pending' = 1..(Len(pending) - done)
       /\ \A i \in DOMAIN pending' :
            done + i \in DOMAIN pending /\ pending'[i] = Acknowledged(pending[done + i], a)
       /\ \A i \in 1..done : i \in DOMAIN pending /\ End(pending[i]) <= a.we
  <2>1. DOMAIN pending' = 1..(Len(pending) - done)
    BY <1>9
  <2>2. ASSUME NEW i \in DOMAIN pending'
        PROVE  done + i \in DOMAIN pending /\ pending'[i] = Acknowledged(pending[done + i], a)
    <3>1. done + i \in DOMAIN pending
      BY <1>10, <2>1
    <3>. QED BY <1>9, <2>1, <3>1, Zenon
  <2>3. \A i \in 1..done : i \in DOMAIN pending
    BY <1>10
  <2>4. \A i \in 1..done : End(pending[i]) <= a.we
    BY <1>8, <1>9
  <2>. QED BY <2>1, <2>2, <2>3, <2>4
<1>12. ASSUME NEW id \in Submissions
       PROVE  IF \E i \in 1..done : pending[i].id = id
                THEN \E i \in 1..done :
                       /\ pending[i].id = id
                       /\ ticket'[id] = [ticket[id] EXCEPT
                            !.st = "ok", !.receipts = Acknowledged(pending[i], a).receipts]
                ELSE ticket'[id] = ticket[id]
  <2>1. CASE \E i \in 1..done : pending[i].id = id
    <3>1. PICK i \in 1..done : i = CHOOSE j \in 1..done : pending[j].id = id
      BY <2>1
    <3>2. pending[i].id = id
      BY <2>1, <3>1
    <3>3. ticket'[id] = [ticket[id] EXCEPT
            !.st = "ok", !.receipts = Acknowledged(pending[i], a).receipts]
      BY <1>9, <2>1, <3>1
    <3>. QED BY <2>1, <3>2, <3>3
  <2>2. CASE ~\E i \in 1..done : pending[i].id = id
    BY <1>9, <2>2
  <2>. QED BY <2>1, <2>2
<1>13. ASSUME NEW i \in DOMAIN pending
       PROVE  AckEffect(pending[i], Acknowledged(pending[i], a), a)
  <2>1. PICK p \in PendingSubmissions : p = pending[i]
    BY <1>10
  <2>2. p.acked <= p.len /\ a.ws <= Unacked(p) /\ a.ws = Unacked(pending[1])
    BY <1>7, <1>10, <2>1
  <2>3. AckEffect(p, Acknowledged(p, a), a)
    BY <1>8, <2>2, AckReceipts
  <2>. QED BY <2>1, <2>3
<1>14. FrontCompleted(a, done)
  BY <1>3, <1>5, <1>10, <1>11, <1>12, <1>13, Zenon DEF FrontCompleted
<1>. QED BY <1>14

LEMMA DurableRecvAck ==
  ASSUME WriterInv, DurableInv, RecvAck
  PROVE  DurableInv'
<1>1. PICK a \in AckRanges, done \in 0..Len(pending) : FrontCompleted(a, done)
  BY AckStep
<1>2. /\ log' = log /\ stored' = stored /\ acks # <<>> /\ acks' = Tail(acks)
  BY DEF RecvAck
<1>3. a.ws \in Nat /\ a.we \in Nat /\ a.ds \in Nat
  BY Bounds DEF AckRanges, SeqNums
<1>4. ASSUME NEW i \in DOMAIN pending, NEW r \in Acknowledged(pending[i], a).receipts
      PROVE  RecordedIn(log, r)
  <2>1. PICK p, q : p = pending[i] /\ q = Acknowledged(p, a)
    OBVIOUS
  <2>2. p.start \in Nat /\ p.acked \in Nat /\ a.ws <= Unacked(p) /\ AckEffect(p, q, a)
    BY <1>1, <2>1, PendingFacts DEF WriterInv, TypeOK, FrontCompleted
  <2>3. r \in p.receipts \cup NewReceipts(a, Unacked(p), p.start + q.acked)
    BY <2>1, <2>2 DEF AckEffect
  <2>4. CASE r \in p.receipts
    BY <2>1, <2>4 DEF DurableInv
  <2>5. CASE r \in NewReceipts(a, Unacked(p), p.start + q.acked)
    <3>1. q.acked \in Nat /\ (q.acked = p.acked \/ p.start + q.acked <= a.we)
      BY <2>2 DEF AckEffect
    <3>2. PICK lo \in Nat, hi \in Nat : lo = Unacked(p) /\ hi = p.start + q.acked
      BY <2>2, <3>1 DEF Unacked
    <3>3. PICK w \in lo..(hi - 1) : r = [w |-> w, at |-> a.ds + (w - a.ws)]
      BY <2>5, <3>2, Zenon DEF NewReceipts
    <3>4. w \in a.ws..(a.we - 1)
      <4>1. a.ws <= lo /\ (hi = lo \/ hi <= a.we)
        BY <2>2, <3>1, <3>2 DEF Unacked
      <4>. QED BY <1>3, <3>3, <4>1
    <3>5. a = acks[1] /\ 1 \in DOMAIN acks
      BY <1>1 DEF FrontCompleted
    <3>. QED BY <3>3, <3>4, <3>5 DEF DurableInv
  <2>. QED BY <2>3, <2>4, <2>5
<1>5. \A i \in DOMAIN pending' : \A r \in pending'[i].receipts : RecordedIn(log', r)
  <2>1. ASSUME NEW i \in DOMAIN pending', NEW r \in pending'[i].receipts
        PROVE  RecordedIn(log, r)
    <3>1. PICK j \in DOMAIN pending : pending'[i] = Acknowledged(pending[j], a)
      BY <1>1 DEF FrontCompleted
    <3>. QED BY <1>4, <3>1
  <2>. QED BY <1>2, <2>1
<1>6. ReceiptsDurable'
  <2>1. ASSUME NEW id \in Submissions, NEW r \in ticket'[id].receipts
        PROVE  RecordedIn(log, r)
    <3>1. CASE ticket'[id] = ticket[id]
      BY <3>1 DEF DurableInv, ReceiptsDurable, RecordedIn
    <3>2. CASE \E i \in 1..done : ticket'[id] = [ticket[id] EXCEPT
                 !.st = "ok", !.receipts = Acknowledged(pending[i], a).receipts]
      <4>1. PICK i \in 1..done : ticket'[id] = [ticket[id] EXCEPT
                !.st = "ok", !.receipts = Acknowledged(pending[i], a).receipts]
        BY <3>2
      <4>2. PICK new : new = Acknowledged(pending[i], a).receipts
        OBVIOUS
      <4>3. ticket'[id].receipts = new
        BY <4>1, <4>2, TicketFacts DEF WriterInv, Tickets
      <4>4. i \in DOMAIN pending
        BY <1>1 DEF FrontCompleted
      <4>. QED BY <1>4, <4>2, <4>3, <4>4
    <3>. QED BY <1>1, <3>1, <3>2 DEF FrontCompleted
  <2>. QED BY <1>2, <2>1 DEF ReceiptsDurable, RecordedIn
<1>7. /\ \A i \in DOMAIN stored' : RecordedIn(log', stored'[i])
      /\ \A i \in DOMAIN acks' : \A w \in acks'[i].ws..(acks'[i].we - 1) :
           RecordedIn(log', [w |-> w, at |-> acks'[i].ds + (w - acks'[i].ws)])
  <2>1. acks \in Seq(AckRanges)
    BY DEF WriterInv, TypeOK, NetTypeOK, AckRanges
  <2>2. \A i \in DOMAIN acks' : acks'[i] = acks[i + 1] /\ i + 1 \in DOMAIN acks
    BY <1>2, <2>1, TailFacts
  <2>. QED BY <1>2, <2>2 DEF DurableInv
<1>. QED BY <1>5, <1>6, <1>7 DEF DurableInv

LEMMA DurableStep == WriterInv /\ DurableInv /\ [Next]_vars => DurableInv'
<1> SUFFICES ASSUME WriterInv, DurableInv, [Next]_vars PROVE DurableInv'
  OBVIOUS
<1>1. TypeOK
  BY DEF WriterInv
<1>2. CASE UNCHANGED vars
  BY <1>1, <1>2, DurableKept DEF vars, netVars, actorVars, sharedVars
<1>3. CASE Finished
  BY <1>2, <1>3 DEF Finished
<1>4. CASE Caller \/ RunWriter
  BY <1>1, <1>4, DurableQuiet, DurableSend, DurableRecvAck
     DEF RunWriter, ControlStep, EndStep
<1>5. CASE Environment
  BY <1>1, <1>5, DurableQuiet, DurableSend, DurableStore, DurableAck
     DEF Environment, ControlStep, EndStep
<1>. QED BY <1>2, <1>3, <1>4, <1>5 DEF Next

LEMMA DurableInit == Init => DurableInv
BY DEF Init, DurableInv, ReceiptsDurable, NewTicket

-----------------------------------------------------------------------------
(* MatchInv.                                                               *)

LEMMA OneEachRange ==
  ASSUME NEW rs, NEW lo, NEW hi, OneEach(rs, lo, hi), NEW r \in rs
  PROVE  r.w \in lo..(hi - 1)
BY DEF OneEach

LEMMA OneEachEmpty ==
  ASSUME NEW lo \in Nat
  PROVE  OneEach({}, lo, lo + 0)
<1>1. lo..(lo + 0 - 1) = {}
  OBVIOUS
<1>. QED BY <1>1 DEF OneEach

\* An acknowledgement extends the prefix by one receipt for each record.
LEMMA OneEachMore ==
  ASSUME NEW rs, NEW a, NEW lo \in Nat, NEW mid \in Nat, NEW hi \in Nat,
         lo <= mid, mid <= hi, OneEach(rs, lo, mid)
  PROVE  OneEach(rs \cup NewReceipts(a, mid, hi), lo, hi)
<1>. DEFINE new == NewReceipts(a, mid, hi)
<1>1. \A r \in new : r.w \in mid..(hi - 1) /\ r = [w |-> r.w, at |-> a.ds + (r.w - a.ws)]
  BY DEF NewReceipts
<1>2. \A w \in mid..(hi - 1) : \E r \in new : r.w = w
  <2>1. SUFFICES ASSUME NEW w \in mid..(hi - 1) PROVE \E r \in new : r.w = w
    OBVIOUS
  <2>2. PICK r : r = [w |-> w, at |-> a.ds + (w - a.ws)]
    OBVIOUS
  <2>3. r \in new /\ r.w = w
    BY <2>2 DEF NewReceipts
  <2>. QED BY <2>3
<1>. HIDE DEF new
<1>3. \A r \in rs : r.w \in lo..(mid - 1)
  BY DEF OneEach
<1>4. \A w \in lo..(mid - 1) : \E r \in rs : r.w = w
  BY DEF OneEach
<1>5. {r.w : r \in rs \cup new} = lo..(hi - 1)
  <2>1. ASSUME NEW r \in rs \cup new PROVE r.w \in lo..(hi - 1)
    BY <1>1, <1>3
  <2>2. ASSUME NEW w \in lo..(hi - 1) PROVE \E r \in rs \cup new : r.w = w
    <3>1. w \in lo..(mid - 1) \/ w \in mid..(hi - 1)
      OBVIOUS
    <3>. QED BY <1>2, <1>4, <3>1
  <2>. QED BY <2>1, <2>2
<1>6. ASSUME NEW r \in rs \cup new, NEW q \in rs \cup new, r.w = q.w
      PROVE  r = q
  <2>1. CASE r \in rs /\ q \in rs
    BY <1>6, <2>1 DEF OneEach
  <2>2. CASE r \in new /\ q \in new
    BY <1>1, <1>6, <2>2
  <2>3. CASE (r \in rs /\ q \in new) \/ (r \in new /\ q \in rs)
    BY <1>1, <1>3, <1>6, <2>3
  <2>. QED BY <2>1, <2>2, <2>3
<1>. QED BY <1>5, <1>6 DEF OneEach, new

\* The identities, markers and receipts of the queue stay.
QueueSame ==
  /\ DOMAIN pending' = DOMAIN pending
  /\ \A i \in DOMAIN pending :
       /\ pending'[i].id = pending[i].id /\ pending'[i].start = pending[i].start
       /\ pending'[i].len = pending[i].len /\ pending'[i].acked = pending[i].acked
       /\ pending'[i].receipts = pending[i].receipts

\* The submissions queued after the step are those of before, moved up by `shift`.
CommandsMoved(shift) ==
  \A i \in Queued' : i \in Nat /\ i + shift \in Queued /\ cmds'[i] = cmds[i + shift]

LEMMA MatchKept ==
  ASSUME MatchInv, QueueSame, ticket' = ticket, NEW shift \in Nat, CommandsMoved(shift)
  PROVE  MatchInv'
<1>1. PendingMatch'
  BY DEF MatchInv, PendingMatch, QueueSame
<1>2. QueuedMatch'
  BY DEF MatchInv, QueuedMatch, CommandsMoved
<1>3. DistinctIds'
  <2>1. \A i, j \in Queued' : cmds'[i].id = cmds'[j].id => i = j
    <3>1. SUFFICES ASSUME NEW i \in Queued', NEW j \in Queued', cmds'[i].id = cmds'[j].id
                   PROVE  i = j
      OBVIOUS
    <3>2. i + shift = j + shift /\ i \in Nat /\ j \in Nat
      BY <3>1 DEF MatchInv, DistinctIds, CommandsMoved
    <3>. QED BY <3>2
  <2>. QED BY <2>1 DEF MatchInv, DistinctIds, CommandsMoved, QueueSame
<1>. QED BY <1>1, <1>2, <1>3 DEF MatchInv, ReceiptsMatchBatch

LEMMA CommandsStay ==
  ASSUME TypeOK, cmds' = cmds \/ cmds' = Append(cmds, CloseCommand)
  PROVE  CommandsMoved(0)
<1>1. /\ cmds \in Seq(Commands) /\ DOMAIN cmds = 1..Len(cmds) /\ Len(cmds) \in Nat
  BY SeqFacts DEF TypeOK, ChannelTypeOK
<1>2. CASE cmds' = cmds
  BY <1>1, <1>2 DEF CommandsMoved, Queued
<1>3. CASE cmds' = Append(cmds, CloseCommand)
  <2>1. /\ DOMAIN cmds' = 1..(Len(cmds) + 1)
        /\ \A i \in DOMAIN cmds : cmds'[i] = cmds[i]
        /\ cmds'[Len(cmds) + 1] = CloseCommand
    BY <1>1, <1>3
  <2>2. CloseCommand.kind # "submit"
    BY DEF CloseCommand
  <2>. QED BY <1>1, <2>1, <2>2 DEF CommandsMoved, Queued
<1>. QED BY <1>2, <1>3

LEMMA CommandsTaken ==
  ASSUME TypeOK, cmds # <<>>, cmds' = Tail(cmds)
  PROVE  CommandsMoved(1)
BY CommandFacts DEF CommandsMoved, Queued

QuietStates == \/ \E p \in Producers : SubmitCheck(p) \/ (SubmitSend(p) /\ ticket' = ticket)
               \/ CloseMark \/ CloseSend \/ CloseJoin \/ Abort
               \/ CloseDone \/ Shutdown \/ AdmitClose \/ DrainEmpty
               \/ ConnectionFails \/ AckDeadline \/ ReconnectFails
               \/ SendDone \/ GoSilent \/ SendAck \/ ForeignAppend
               \/ (\E e \in DOMAIN wires : StoreRecord(e))
               \/ UNCHANGED vars

LEMMA MatchQuiet ==
  ASSUME TypeOK, MatchInv, QuietStates
  PROVE  MatchInv'
<1>1. pending' = pending /\ ticket' = ticket
  BY DEF QuietStates, SubmitCheck, CloseMark, CloseSend, CloseJoin, Abort, CloseDone,
         Shutdown, AdmitClose, DrainEmpty, ConnectionFails, AckDeadline, ReconnectFails,
         SubmitSend, SendDone, GoSilent, SendAck, ForeignAppend, StoreRecord, vars,
         actorVars, sharedVars
<1>2. QueueSame
  BY <1>1 DEF QueueSame
<1>3. CASE AdmitClose
  <2>1. CommandsMoved(1)
    BY <1>3, CommandsTaken DEF AdmitClose, DrainTurn
  <2>. QED BY <1>1, <1>2, <2>1, MatchKept
<1>4. CASE ~AdmitClose
  <2>1. cmds' = cmds \/ cmds' = Append(cmds, CloseCommand)
    <3>1. ASSUME NEW p \in Producers, SubmitSend(p), ticket' = ticket PROVE cmds' = cmds
      <4>1. ASSUME NEW id \in Submissions, NEW len \in BatchLens, ticket[id].st = "none",
                   ticket' = [ticket EXCEPT ![id].st = "waiting", ![id].len = len]
            PROVE  FALSE
        <5>1. ticket'[id].st = "waiting"
          BY <4>1, TicketFacts DEF TypeOK, ChannelTypeOK, Tickets
        <5>. QED BY <3>1, <4>1, <5>1
      <4>. QED BY <3>1, <4>1 DEF SubmitSend
    <3>. QED BY <1>4, <3>1
             DEF QuietStates, SubmitCheck, CloseMark, CloseSend, CloseJoin, Abort, CloseDone,
                 Shutdown, DrainEmpty, ConnectionFails, AckDeadline, ReconnectFails,
                 SendDone, GoSilent, SendAck, ForeignAppend, StoreRecord, vars, sharedVars
  <2>2. CommandsMoved(0)
    BY <2>1, CommandsStay
  <2>. QED BY <1>1, <1>2, <2>2, MatchKept
<1>. QED BY <1>3, <1>4

LEMMA MatchSend ==
  ASSUME TypeOK, MatchInv, FeedFrame \/ Reconnect
  PROVE  MatchInv'
<1>1. \A i \in DOMAIN pending : pending[i] \in PendingSubmissions
  BY PendingFacts DEF TypeOK
<1>2. cmds' = cmds /\ ticket' = ticket
  BY DEF FeedFrame, Reconnect, sharedVars
<1>3. QueueSame
  <2>1. CASE FeedFrame
    <3>1. PICK hi : pending' = [i \in DOMAIN pending |-> SentUpTo(pending[i], hi)]
      BY <2>1 DEF FeedFrame
    <3>. QED BY <1>1, <3>1 DEF QueueSame, SentUpTo, PendingSubmissions
  <2>2. CASE Reconnect
    BY <1>1, <2>2 DEF Reconnect, Rewound, QueueSame, PendingSubmissions
  <2>. QED BY <2>1, <2>2
<1>. QED BY <1>2, <1>3, CommandsStay, MatchKept

\* A new submission has an identity no ticket had.
LEMMA MatchSubmit ==
  ASSUME TypeOK, MatchInv, NEW p \in Producers, SubmitSend(p), ticket' # ticket
  PROVE  MatchInv'
<1>1. PICK id \in Submissions, len \in BatchLens :
        /\ ticket[id].st = "none"
        /\ cmds' = Append(cmds, SubmitCommand(id, len))
        /\ ticket' = [ticket EXCEPT ![id].st = "waiting", ![id].len = len]
  BY DEF SubmitSend
<1>2. pending' = pending
  BY DEF SubmitSend, actorVars
<1>3. /\ ticket'[id].st = "waiting" /\ ticket'[id].len = len
      /\ \A other \in Submissions : other # id => ticket'[other] = ticket[other]
  BY <1>1, TicketFacts DEF TypeOK, ChannelTypeOK, Tickets
<1>4. /\ DOMAIN cmds' = 1..(Len(cmds) + 1) /\ DOMAIN cmds = 1..Len(cmds) /\ Len(cmds) \in Nat
      /\ \A i \in DOMAIN cmds : cmds'[i] = cmds[i] /\ cmds[i] \in Commands
      /\ cmds'[Len(cmds) + 1] = SubmitCommand(id, len)
  BY <1>1, SeqFacts DEF TypeOK, ChannelTypeOK
<1>5. /\ SubmitCommand(id, len).id = id /\ SubmitCommand(id, len).len = len
  BY DEF SubmitCommand
<1>6. /\ \A i \in Queued : i \in DOMAIN cmds /\ cmds[i].id # id /\ cmds[i].id \in Submissions
      /\ \A i \in DOMAIN pending : pending[i].id # id /\ pending[i].id \in Submissions
  <2>1. ASSUME NEW i \in Queued
        PROVE  i \in DOMAIN cmds /\ cmds[i].id # id /\ cmds[i].id \in Submissions
    BY <1>1, <1>4, SubmitFacts DEF Queued, MatchInv, QueuedMatch
  <2>2. ASSUME NEW i \in DOMAIN pending
        PROVE  pending[i].id # id /\ pending[i].id \in Submissions
    BY <1>1, PendingFacts DEF TypeOK, PendingSubmissions, MatchInv, PendingMatch
  <2>. QED BY <2>1, <2>2
<1>7. \A i \in Queued' : i = Len(cmds) + 1 \/ i \in Queued
  BY <1>4 DEF Queued
<1>8. PendingMatch'
  BY <1>2, <1>3, <1>6 DEF MatchInv, PendingMatch
<1>9. QueuedMatch'
  <2>1. ASSUME NEW i \in Queued'
        PROVE  ticket'[cmds'[i].id].st = "waiting" /\ ticket'[cmds'[i].id].len = cmds'[i].len
    <3>1. CASE i = Len(cmds) + 1
      BY <1>3, <1>4, <1>5, <3>1
    <3>2. CASE i \in Queued
      BY <1>3, <1>4, <1>6, <3>2 DEF MatchInv, QueuedMatch
    <3>. QED BY <1>7, <3>1, <3>2
  <2>. QED BY <2>1 DEF QueuedMatch
<1>10. DistinctIds'
  <2>1. \A i \in Queued' : \/ i = Len(cmds) + 1 /\ cmds'[i].id = id
                           \/ i \in Queued /\ cmds'[i].id = cmds[i].id
    BY <1>4, <1>5, <1>6, <1>7
  <2>. QED BY <1>2, <1>6, <2>1 DEF MatchInv, DistinctIds
<1>11. ReceiptsMatchBatch'
  BY <1>3 DEF MatchInv, ReceiptsMatchBatch
<1>. QED BY <1>8, <1>9, <1>10, <1>11 DEF MatchInv

\* The submission moves from the channel to the end of the queue.
LEMMA MatchAdmit ==
  ASSUME WriterInv, MatchInv, AdmitSubmission
  PROVE  MatchInv'
<1>1. PICK c \in Commands : c = Head(cmds) /\ cmds # <<>> /\ c.kind = "submit"
  BY CommandFacts DEF WriterInv, AdmitSubmission, DrainTurn
<1>2. c.id \in Submissions /\ c.len \in Nat
  BY <1>1, SubmitFacts
<1>3. PICK p : /\ p = [id |-> c.id, start |-> nextSeq, len |-> c.len,
                       acked |-> 0, sent |-> 0, receipts |-> {}]
               /\ pending' = Append(pending, p)
  BY <1>1 DEF AdmitSubmission
<1>4. /\ ticket' = [ticket EXCEPT ![c.id].start = nextSeq] /\ cmds' = Tail(cmds)
  BY <1>1 DEF AdmitSubmission
<1>5. /\ ticket'[c.id].start = nextSeq
      /\ ticket'[c.id].st = ticket[c.id].st /\ ticket'[c.id].len = ticket[c.id].len
      /\ \A other \in Submissions : other # c.id => ticket'[other] = ticket[other]
  BY <1>2, <1>4, TicketFacts DEF WriterInv, TypeOK, ChannelTypeOK, Tickets
<1>6. /\ DOMAIN pending' = 1..(Len(pending) + 1) /\ Len(pending) \in Nat
      /\ DOMAIN pending = 1..Len(pending)
      /\ \A i \in DOMAIN pending : pending'[i] = pending[i]
      /\ pending'[Len(pending) + 1] = p
  BY <1>3, PendingFacts DEF WriterInv, TypeOK, PendingTypeOK
<1>7. 1 \in Queued /\ cmds[1] = c
  BY <1>1, CommandFacts DEF WriterInv, Queued
<1>8. /\ ticket[c.id].st = "waiting" /\ ticket[c.id].len = c.len
      /\ \A i \in DOMAIN pending : pending[i].id # c.id /\ pending[i].id \in Submissions
  <2>1. \A i \in DOMAIN pending : pending[i].id \in Submissions
    BY PendingFacts DEF WriterInv, TypeOK, PendingSubmissions
  <2>. QED BY <1>7, <2>1 DEF MatchInv, QueuedMatch, DistinctIds
<1>9. /\ CommandsMoved(1)
      /\ \A i \in Queued' : cmds'[i].id # c.id /\ cmds'[i].id \in Submissions
  <2>1. CommandsMoved(1)
    BY <1>1, <1>4, CommandsTaken DEF WriterInv
  <2>2. ASSUME NEW i \in Queued' PROVE cmds'[i].id # c.id /\ cmds'[i].id \in Submissions
    <3>1. i \in Nat \ {0} /\ i + 1 \in Queued /\ cmds'[i] = cmds[i + 1]
      BY <1>1, <1>4, <2>1, CommandFacts DEF WriterInv, CommandsMoved, Queued
    <3>2. i + 1 # 1
      BY <3>1
    <3>3. cmds[i + 1] \in Commands /\ cmds[i + 1].kind = "submit"
      BY <3>1, SeqFacts DEF Queued, WriterInv, TypeOK, ChannelTypeOK
    <3>. QED BY <1>7, <3>1, <3>2, <3>3, SubmitFacts DEF MatchInv, DistinctIds
  <2>. QED BY <2>1, <2>2
<1>10. PendingMatch'
  <2>1. ASSUME NEW i \in DOMAIN pending'
        PROVE  /\ ticket'[pending'[i].id].st = "waiting"
               /\ ticket'[pending'[i].id].start = pending'[i].start
               /\ ticket'[pending'[i].id].len = pending'[i].len
               /\ OneEach(pending'[i].receipts, pending'[i].start,
                          pending'[i].start + pending'[i].acked)
    <3>1. CASE i \in DOMAIN pending
      BY <1>5, <1>6, <1>8, <3>1 DEF MatchInv, PendingMatch
    <3>2. CASE i = Len(pending) + 1
      <4>1. nextSeq \in Nat
        BY Bounds DEF WriterInv, TypeOK, ActorTypeOK, SeqNums
      <4>2. OneEach({}, nextSeq, nextSeq + 0)
        BY <4>1, OneEachEmpty
      <4>. QED BY <1>3, <1>5, <1>6, <1>8, <3>2, <4>2
    <3>. QED BY <1>6, <3>1, <3>2
  <2>. QED BY <2>1 DEF PendingMatch
<1>11. QueuedMatch'
  BY <1>5, <1>9 DEF MatchInv, QueuedMatch, CommandsMoved
<1>12. DistinctIds'
  <2>1. \A i, j \in Queued' : cmds'[i].id = cmds'[j].id => i = j
    <3>1. SUFFICES ASSUME NEW i \in Queued', NEW j \in Queued', cmds'[i].id = cmds'[j].id
                   PROVE  i = j
      OBVIOUS
    <3>2. i + 1 = j + 1 /\ i \in Nat /\ j \in Nat
      BY <1>9, <3>1 DEF MatchInv, DistinctIds, CommandsMoved
    <3>. QED BY <3>2
  <2>2. \A i \in DOMAIN pending' : \/ i \in DOMAIN pending /\ pending'[i].id = pending[i].id
                                   \/ i = Len(pending) + 1 /\ pending'[i].id = c.id
    BY <1>3, <1>6
  <2>3. \A i, j \in DOMAIN pending' : pending'[i].id = pending'[j].id => i = j
    BY <1>8, <2>2 DEF MatchInv, DistinctIds
  <2>4. \A i \in DOMAIN pending', j \in Queued' : pending'[i].id # cmds'[j].id
    BY <1>9, <2>2 DEF MatchInv, DistinctIds, CommandsMoved
  <2>. QED BY <2>1, <2>3, <2>4 DEF DistinctIds
<1>13. ReceiptsMatchBatch'
  BY <1>5, <1>8 DEF MatchInv, ReceiptsMatchBatch
<1>. QED BY <1>10, <1>11, <1>12, <1>13 DEF MatchInv

\* The actor ends: tickets that have no outcome get one, and no other changes.
LEMMA MatchEnd ==
  ASSUME WriterInv, MatchInv, EndStep \/ DropReceiver
  PROVE  MatchInv'
<1>1. PICK lost \in SUBSET Submissions, shift \in {0, 1} :
        /\ \A id \in Submissions : id \notin PendingIds \cup lost => ticket'[id] = ticket[id]
        /\ \A id \in PendingIds \cup lost : id \in Submissions => ticket'[id].st # "ok"
        /\ CommandsMoved(shift)
        /\ \A i \in Queued' : cmds'[i].id \in Submissions /\ cmds'[i].id \notin lost
  <2>. DEFINE Outcome(lost, shift) ==
         /\ \A id \in Submissions : id \notin PendingIds \cup lost => ticket'[id] = ticket[id]
         /\ \A id \in PendingIds \cup lost : id \in Submissions => ticket'[id].st # "ok"
         /\ CommandsMoved(shift)
         /\ \A i \in Queued' : cmds'[i].id \in Submissions /\ cmds'[i].id \notin lost
  <2>. SUFFICES \E lost \in SUBSET Submissions, shift \in {0, 1} : Outcome(lost, shift)
    OBVIOUS
  <2>1. ASSUME NEW i \in Queued PROVE cmds[i].id \in Submissions
    <3>1. cmds[i] \in Commands /\ cmds[i].kind = "submit"
      BY SeqFacts DEF Queued, WriterInv, TypeOK, ChannelTypeOK
    <3>. QED BY <3>1, SubmitFacts
  <2>2. ASSUME NEW lost \in SUBSET Submissions, ticket' = FailedTickets(lost)
        PROVE  /\ \A id \in Submissions : id \notin PendingIds \cup lost => ticket'[id] = ticket[id]
               /\ \A id \in PendingIds \cup lost : id \in Submissions => ticket'[id].st # "ok"
    BY <2>2, TicketFacts DEF FailedTickets, WriterInv, Tickets
  <2>3. ASSUME NEW ids, ticket' = Resolve(ids, "dropped")
        PROVE  /\ \A id \in Submissions : id \notin ids => ticket'[id] = ticket[id]
               /\ \A id \in ids : id \in Submissions => ticket'[id].st # "ok"
    BY <2>3, TicketFacts DEF Resolve, WriterInv, Tickets
  <2>4. CASE /\ cmds' = cmds
             /\ ticket' = FailedTickets({}) \/ ticket' = Resolve(PendingIds, "dropped")
    <3>1. {} \in SUBSET Submissions
      OBVIOUS
    <3>2. CommandsMoved(0) /\ \A i \in Queued' : cmds'[i].id \in Submissions
      BY <2>1, <2>4, CommandsStay DEF WriterInv, CommandsMoved
    <3>3. /\ \A id \in Submissions : id \notin PendingIds \cup {} => ticket'[id] = ticket[id]
          /\ \A id \in PendingIds \cup {} : id \in Submissions => ticket'[id].st # "ok"
      <4>1. CASE ticket' = FailedTickets({})
        BY <2>2, <3>1, <4>1, Zenon
      <4>2. CASE ticket' = Resolve(PendingIds, "dropped")
        BY <2>3, <4>2
      <4>. QED BY <2>4, <4>1, <4>2
    <3>4. Outcome({}, 0)
      BY <3>2, <3>3
    <3>. QED BY <3>1, <3>4, Zenon
  <2>5. CASE SequenceExhausted
    <3>1. PICK c \in Commands : c = Head(cmds) /\ cmds # <<>> /\ c.kind = "submit"
      BY <2>5, CommandFacts DEF WriterInv, SequenceExhausted, DrainTurn
    <3>2. c.id \in Submissions /\ ticket' = FailedTickets({c.id}) /\ cmds' = Tail(cmds)
      BY <2>5, <3>1, SubmitFacts DEF SequenceExhausted, FinishWriterError
    <3>3. CommandsMoved(1)
      BY <3>1, <3>2, CommandsTaken DEF WriterInv
    <3>4. ASSUME NEW i \in Queued' PROVE cmds'[i].id \in Submissions /\ cmds'[i].id # c.id
      <4>1. i \in Nat \ {0} /\ i + 1 \in Queued /\ cmds'[i] = cmds[i + 1]
        BY <3>1, <3>2, <3>3, CommandFacts DEF WriterInv, CommandsMoved, Queued
      <4>2. i + 1 # 1 /\ 1 \in Queued /\ cmds[1] = c
        BY <3>1, <4>1, CommandFacts DEF WriterInv, Queued
      <4>. QED BY <2>1, <4>1, <4>2 DEF MatchInv, DistinctIds
    <3>5. Outcome({c.id}, 1)
      BY <2>2, <3>2, <3>3, <3>4
    <3>. QED BY <3>2, <3>5
  <2>6. CASE DropReceiver
    <3>1. ticket' = Resolve(QueuedIds, "dropped") /\ cmds' = <<>> /\ pc = "shutdown"
      BY <2>6 DEF DropReceiver
    <3>2. PendingIds = {}
      <4>1. pending = <<>>
        BY <3>1 DEF WriterInv, Alive, Settled
      <4>. QED BY <4>1 DEF PendingIds
    <3>3. QueuedIds \in SUBSET Submissions
      BY <2>1 DEF QueuedIds, Queued
    <3>4. Queued' = {}
      BY <3>1 DEF Queued
    <3>5. CommandsMoved(0)
      BY <3>4 DEF CommandsMoved
    <3>6. Outcome(QueuedIds, 0)
      BY <2>3, <3>1, <3>2, <3>4, <3>5
    <3>. QED BY <3>3, <3>6
  <2>. QED BY <2>4, <2>5, <2>6
           DEF EndStep, FatalError, RecvInvalidAck, Cancelled, CommandsClosed, FinishWriterError
<1>2. pending' = <<>>
  BY DEF EndStep, FatalError, RecvInvalidAck, Cancelled, CommandsClosed, FinishWriterError,
         SequenceExhausted, DropReceiver, WriterInv, Alive, Settled
<1>3. PendingMatch'
  BY <1>2 DEF PendingMatch
<1>4. QueuedMatch'
  <2>1. ASSUME NEW i \in Queued'
        PROVE  /\ i + shift \in Queued /\ cmds'[i] = cmds[i + shift]
               /\ ticket'[cmds'[i].id] = ticket[cmds'[i].id]
    <3>1. i + shift \in Queued /\ cmds'[i] = cmds[i + shift]
      BY <1>1 DEF CommandsMoved
    <3>2. cmds[i + shift].id \notin PendingIds
      BY <3>1 DEF MatchInv, DistinctIds, PendingIds
    <3>. QED BY <1>1, <3>1, <3>2
  <2>. QED BY <2>1 DEF MatchInv, QueuedMatch
<1>5. DistinctIds'
  <2>1. \A i, j \in Queued' : cmds'[i].id = cmds'[j].id => i = j
    <3>1. SUFFICES ASSUME NEW i \in Queued', NEW j \in Queued', cmds'[i].id = cmds'[j].id
                   PROVE  i = j
      OBVIOUS
    <3>2. i + shift = j + shift /\ i \in Nat /\ j \in Nat
      BY <1>1, <3>1 DEF MatchInv, DistinctIds, CommandsMoved
    <3>. QED BY <1>1, <3>2
  <2>. QED BY <1>2, <2>1 DEF DistinctIds
<1>6. ReceiptsMatchBatch'
  <2>1. \A id \in Submissions : ticket'[id].st = "ok" => ticket'[id] = ticket[id]
    BY <1>1
  <2>. QED BY <2>1 DEF MatchInv, ReceiptsMatchBatch
<1>. QED BY <1>3, <1>4, <1>5, <1>6 DEF MatchInv

\* The receipts after an acknowledgement are those of a prefix again.
LEMMA AckPrefix ==
  ASSUME WriterInv, MatchInv, NEW a \in AckRanges, NEW done, FrontCompleted(a, done),
         NEW i \in DOMAIN pending
  PROVE  LET p == pending[i]
             q == Acknowledged(p, a)
         IN /\ q.id = p.id /\ q.start = p.start /\ q.len = p.len
            /\ OneEach(q.receipts, p.start, p.start + q.acked)
            /\ End(p) <= a.we => OneEach(q.receipts, p.start, End(p))
<1>1. PICK p, q : p = pending[i] /\ q = Acknowledged(p, a)
  OBVIOUS
<1>2. p.start \in Nat /\ p.acked \in Nat /\ p.len \in Nat
  BY <1>1, PendingFacts DEF WriterInv, TypeOK
<1>3. AckEffect(p, q, a)
  BY <1>1 DEF FrontCompleted
<1>4. PICK lo \in Nat, mid \in Nat, hi \in Nat :
        lo = p.start /\ mid = p.start + p.acked /\ hi = p.start + q.acked
  BY <1>2, <1>3 DEF AckEffect
<1>5. lo <= mid /\ mid <= hi /\ (End(p) <= a.we => hi = End(p))
  BY <1>2, <1>3, <1>4 DEF AckEffect, End
<1>6. OneEach(p.receipts, lo, mid)
  BY <1>1, <1>4 DEF MatchInv, PendingMatch
<1>7. OneEach(p.receipts \cup NewReceipts(a, mid, hi), lo, hi)
  BY <1>5, <1>6, OneEachMore
<1>8. /\ q.id = p.id /\ q.start = p.start /\ q.len = p.len
      /\ q.receipts = p.receipts \cup NewReceipts(a, mid, hi)
  BY <1>3, <1>4 DEF AckEffect, Unacked
<1>9. /\ OneEach(q.receipts, p.start, p.start + q.acked)
      /\ End(p) <= a.we => OneEach(q.receipts, p.start, End(p))
  BY <1>4, <1>5, <1>7, <1>8
<1>. QED BY <1>1, <1>8, <1>9

LEMMA MatchRecvAck ==
  ASSUME WriterInv, MatchInv, RecvAck
  PROVE  MatchInv'
<1>1. PICK a \in AckRanges, done \in 0..Len(pending) : FrontCompleted(a, done)
  BY AckStep
<1>2. cmds' = cmds
  BY DEF RecvAck
<1>3. /\ \A i \in 1..done : i \in DOMAIN pending /\ End(pending[i]) <= a.we
      /\ \A i \in DOMAIN pending' :
           done + i \in DOMAIN pending /\ pending'[i] = Acknowledged(pending[done + i], a)
      /\ DOMAIN pending' = 1..(Len(pending) - done) /\ done \in Nat /\ Len(pending) \in Nat
  <2>1. done \in Nat /\ Len(pending) \in Nat
    BY PendingFacts DEF WriterInv, TypeOK
  <2>. QED BY <1>1, <2>1, Zenon DEF FrontCompleted
<1>4. ASSUME NEW id \in Submissions, \A i \in 1..done : pending[i].id # id
      PROVE  ticket'[id] = ticket[id]
  BY <1>1, <1>4 DEF FrontCompleted
<1>5. \A i \in DOMAIN pending : pending[i].id \in Submissions
  BY PendingFacts DEF WriterInv, TypeOK, PendingSubmissions
<1>6. ASSUME NEW i \in DOMAIN pending'
      PROVE  /\ pending'[i].id = pending[done + i].id
             /\ ticket'[pending'[i].id] = ticket[pending'[i].id]
             /\ ticket'[pending'[i].id].st = "waiting"
             /\ ticket'[pending'[i].id].start = pending'[i].start
             /\ ticket'[pending'[i].id].len = pending'[i].len
             /\ OneEach(pending'[i].receipts, pending'[i].start,
                        pending'[i].start + pending'[i].acked)
  <2>1. PICK j \in DOMAIN pending : j = done + i
    BY <1>3
  <2>2. PICK p, q : p = pending[j] /\ q = Acknowledged(p, a) /\ pending'[i] = q
    BY <1>3, <2>1
  <2>3. /\ q.id = p.id /\ q.start = p.start /\ q.len = p.len
        /\ OneEach(q.receipts, p.start, p.start + q.acked)
    BY <1>1, <2>2, AckPrefix
  <2>4. /\ ticket[p.id].st = "waiting"
        /\ ticket[p.id].start = p.start /\ ticket[p.id].len = p.len
    BY <2>2 DEF MatchInv, PendingMatch
  <2>5. \A k \in 1..done : pending[k].id # p.id
    <3>1. \A k \in 1..done : k # j
      BY <1>3, <2>1
    <3>. QED BY <1>3, <2>2, <3>1 DEF MatchInv, DistinctIds
  <2>6. ticket'[p.id] = ticket[p.id]
    BY <1>4, <1>5, <2>2, <2>5
  <2>. QED BY <2>1, <2>2, <2>3, <2>4, <2>6
<1>7. ASSUME NEW i \in Queued
      PROVE  ticket'[cmds[i].id] = ticket[cmds[i].id]
  <2>1. cmds[i].id \in Submissions
    <3>1. cmds[i] \in Commands /\ cmds[i].kind = "submit"
      BY SeqFacts DEF Queued, WriterInv, TypeOK, ChannelTypeOK
    <3>. QED BY <3>1, SubmitFacts
  <2>2. \A k \in 1..done : pending[k].id # cmds[i].id
    BY <1>3 DEF MatchInv, DistinctIds
  <2>. QED BY <1>4, <2>1, <2>2
<1>8. PendingMatch' /\ QueuedMatch'
  <2>1. Queued' = Queued
    BY <1>2 DEF Queued
  <2>. QED BY <1>2, <1>6, <1>7, <2>1 DEF MatchInv, PendingMatch, QueuedMatch
<1>9. DistinctIds'
  <2>1. Queued' = Queued
    BY <1>2 DEF Queued
  <2>2. ASSUME NEW i \in DOMAIN pending', NEW j \in DOMAIN pending',
               pending'[i].id = pending'[j].id
        PROVE  i = j
    <3>1. PICK k \in DOMAIN pending, l \in DOMAIN pending : k = done + i /\ l = done + j
      BY <1>3, <2>2
    <3>2. pending[k].id = pending[l].id
      BY <1>6, <2>2, <3>1
    <3>3. k = l
      BY <3>2 DEF MatchInv, DistinctIds
    <3>4. i \in Nat /\ j \in Nat
      BY <1>3, <2>2
    <3>. QED BY <1>3, <3>1, <3>3, <3>4
  <2>3. \A i \in DOMAIN pending', j \in Queued : pending'[i].id # cmds[j].id
    BY <1>3, <1>6 DEF MatchInv, DistinctIds
  <2>. QED BY <1>2, <2>1, <2>2, <2>3 DEF MatchInv, DistinctIds
<1>10. ReceiptsMatchBatch'
  <2>1. ASSUME NEW id \in Submissions, ticket'[id].st = "ok"
        PROVE  OneEach(ticket'[id].receipts, ticket'[id].start, End(ticket'[id]))
    <3>1. CASE ticket'[id] = ticket[id]
      BY <2>1, <3>1 DEF MatchInv, ReceiptsMatchBatch
    <3>2. CASE \E i \in 1..done :
                 /\ pending[i].id = id
                 /\ ticket'[id] = [ticket[id] EXCEPT
                      !.st = "ok", !.receipts = Acknowledged(pending[i], a).receipts]
      <4>1. PICK i \in 1..done :
              /\ pending[i].id = id
              /\ ticket'[id] = [ticket[id] EXCEPT
                   !.st = "ok", !.receipts = Acknowledged(pending[i], a).receipts]
        BY <3>2
      <4>2. PICK p, q : p = pending[i] /\ q = Acknowledged(p, a) /\ i \in DOMAIN pending
        BY <1>3
      <4>3. /\ ticket'[id].start = ticket[id].start /\ ticket'[id].len = ticket[id].len
            /\ ticket'[id].receipts = q.receipts
        BY <4>1, <4>2, TicketFacts DEF WriterInv, Tickets
      <4>4. ticket[id].start = p.start /\ ticket[id].len = p.len
        BY <4>1, <4>2 DEF MatchInv, PendingMatch
      <4>5. OneEach(q.receipts, p.start, End(p))
        BY <1>1, <1>3, <4>2, AckPrefix
      <4>6. End(ticket'[id]) = End(p)
        BY <4>3, <4>4 DEF End
      <4>. QED BY <4>3, <4>4, <4>5, <4>6
    <3>. QED BY <1>1, <3>1, <3>2 DEF FrontCompleted
  <2>. QED BY <2>1 DEF ReceiptsMatchBatch
<1>. QED BY <1>8, <1>9, <1>10 DEF MatchInv

LEMMA MatchStep == WriterInv /\ MatchInv /\ [Next]_vars => MatchInv'
<1> SUFFICES ASSUME WriterInv, MatchInv, [Next]_vars PROVE MatchInv'
  OBVIOUS
<1>1. TypeOK
  BY DEF WriterInv
<1>2. CASE QuietStates
  BY <1>1, <1>2, MatchQuiet
<1>3. CASE \E p \in Producers : SubmitSend(p) /\ ticket' # ticket
  BY <1>1, <1>3, MatchSubmit
<1>4. CASE FeedFrame \/ Reconnect
  BY <1>1, <1>4, MatchSend
<1>5. CASE EndStep \/ DropReceiver
  BY <1>5, MatchEnd
<1>6. CASE AdmitSubmission
  BY <1>6, MatchAdmit
<1>7. CASE RecvAck
  BY <1>7, MatchRecvAck
<1>. QED BY <1>2, <1>3, <1>4, <1>5, <1>6, <1>7
         DEF Next, Caller, RunWriter, Environment, Finished, QuietStates, EndStep

LEMMA MatchInit == Init => MatchInv
BY DEF Init, MatchInv, PendingMatch, QueuedMatch, DistinctIds, ReceiptsMatchBatch,
       NewTicket, Queued

-----------------------------------------------------------------------------
(* CoveredInv.                                                             *)

\* The actor never comes back to life.
LEMMA NoRevival ==
  ASSUME TypeOK, [Next]_vars, Alive'
  PROVE  Alive /\ ~EndStep /\ ~CloseDone /\ ~Shutdown /\ ~DropReceiver
<1>1. ~EndStep /\ ~CloseDone /\ ~Shutdown /\ ~DropReceiver
  BY DEF EndStep, FatalError, RecvInvalidAck, SequenceExhausted, Cancelled, CommandsClosed,
         FinishWriterError, CloseDone, Shutdown, DropReceiver, Alive, Settled
<1>2. CASE pc' = pc
  BY <1>1, <1>2 DEF Alive, Settled
<1>3. CASE pc' # pc
  BY <1>1, <1>3
     DEF Next, Caller, SubmitCheck, SubmitSend, CloseMark, CloseSend, CloseJoin, Abort,
         RunWriter, AdmitSubmission, AdmitClose, DrainEmpty, DrainTurn, FeedFrame, SendDone,
         RecvAck, AwaitsAck, Reconnect, Environment, ConnectionFails, AckDeadline,
         ReconnectFails, StoreRecord, SendAck, ForeignAppend, GoSilent, Finished, EndStep,
         vars, actorVars, Alive, Settled
<1>. QED BY <1>1, <1>2, <1>3

LEMMA CoveredStep == WriterInv /\ MatchInv /\ CoveredInv /\ [Next]_vars => CoveredInv'
<1> SUFFICES ASSUME WriterInv, MatchInv, CoveredInv, [Next]_vars, Alive' PROVE CoveredInv'
  BY DEF CoveredInv
<1>1. TypeOK /\ Alive /\ QueueInv /\ ~EndStep /\ ~CloseDone /\ ~Shutdown /\ ~DropReceiver
  BY NoRevival DEF WriterInv
<1>2. \A id \in Submissions : \A r \in ticket[id].receipts : r.w < AckPoint
  BY <1>1 DEF CoveredInv
<1>3. CASE AckPoint' = AckPoint
           /\ \A id \in Submissions : ticket'[id].receipts = ticket[id].receipts
  BY <1>2, <1>3 DEF CoveredInv
<1>4. CASE RecvAck
  <2>1. PICK a \in AckRanges, done \in 0..Len(pending) : FrontCompleted(a, done)
    BY <1>4, AckStep
  <2>2. /\ AckPoint = a.ws /\ a.ws < a.we /\ AckPoint' = a.we /\ a.ws \in Nat /\ a.we \in Nat
    <3>1. a.ws \in Nat /\ a.we \in Nat
      BY Bounds DEF AckRanges, SeqNums
    <3>. QED BY <2>1, <3>1, Zenon DEF FrontCompleted
  <2>3. ASSUME NEW id \in Submissions, NEW r \in ticket'[id].receipts PROVE r.w < a.we
    <3>1. CASE ticket'[id] = ticket[id]
      <4>1. r.w \in Nat /\ r.w < AckPoint
        BY <1>1, <1>2, <3>1, TicketFacts, ReceiptFacts
      <4>. QED BY <2>2, <4>1
    <3>2. CASE \E i \in 1..done :
                 /\ pending[i].id = id
                 /\ ticket'[id] = [ticket[id] EXCEPT
                      !.st = "ok", !.receipts = Acknowledged(pending[i], a).receipts]
      <4>1. PICK i \in 1..done :
              ticket'[id] = [ticket[id] EXCEPT
                !.st = "ok", !.receipts = Acknowledged(pending[i], a).receipts]
        BY <3>2
      <4>2. PICK p, q : /\ p = pending[i] /\ q = Acknowledged(p, a)
                        /\ i \in DOMAIN pending /\ End(p) <= a.we
        BY <2>1 DEF FrontCompleted
      <4>3. r \in q.receipts
        BY <1>1, <4>1, <4>2, TicketFacts DEF Tickets
      <4>4. OneEach(q.receipts, p.start, End(p))
        BY <2>1, <4>2, AckPrefix
      <4>5. r.w \in p.start..(End(p) - 1)
        BY <4>3, <4>4 DEF OneEach
      <4>6. p.start \in Nat /\ End(p) \in Nat
        BY <1>1, <4>2, PendingFacts DEF TypeOK, End
      <4>. QED BY <2>2, <4>2, <4>5, <4>6
    <3>. QED BY <2>1, <3>1, <3>2 DEF FrontCompleted
  <2>. QED BY <2>2, <2>3 DEF CoveredInv
<1>5. CASE AdmitSubmission
  <2>1. PICK p : /\ p.start = nextSeq /\ p.acked = 0 /\ pending' = Append(pending, p)
    BY <1>5 DEF AdmitSubmission
  <2>2. /\ pending \in Seq(PendingSubmissions) /\ Len(pending) \in Nat
        /\ pending = <<>> <=> Len(pending) = 0
        /\ nextSeq \in Nat
    BY <1>1, PendingFacts, Bounds DEF TypeOK, PendingTypeOK, ActorTypeOK, SeqNums
  <2>3. /\ Len(pending') = Len(pending) + 1 /\ pending' # <<>>
        /\ pending # <<>> => pending'[1] = pending[1]
        /\ pending = <<>> => pending'[1] = p
    BY <2>1, <2>2
  <2>4. AckPoint' = AckPoint
    BY <2>1, <2>2, <2>3 DEF AckPoint, Unacked
  <2>. QED BY <1>1, <1>3, <1>5, <2>4, TicketReceiptsKept
<1>6. CASE FeedFrame \/ Reconnect
  <2>1. QueueSame /\ nextSeq' = nextSeq /\ ticket' = ticket
    <3>1. \A i \in DOMAIN pending : pending[i] \in PendingSubmissions
      BY <1>1, PendingFacts DEF TypeOK
    <3>2. CASE FeedFrame
      <4>1. PICK hi : pending' = [i \in DOMAIN pending |-> SentUpTo(pending[i], hi)]
        BY <3>2 DEF FeedFrame
      <4>. QED BY <3>1, <3>2, <4>1 DEF FeedFrame, QueueSame, SentUpTo, PendingSubmissions,
                                       sharedVars
    <3>3. CASE Reconnect
      BY <3>1, <3>3 DEF Reconnect, Rewound, QueueSame, PendingSubmissions, sharedVars
    <3>. QED BY <1>6, <3>2, <3>3
  <2>2. AckPoint' = AckPoint
    <3>1. pending' \in Seq(PendingSubmissions) /\ pending \in Seq(PendingSubmissions)
      BY <1>6, FeedFrameInv, ReconnectInv DEF WriterInv, TypeOK, PendingTypeOK
    <3>2. DOMAIN pending = DOMAIN pending' => (pending' = <<>> <=> pending = <<>>)
      BY <3>1, SeqFacts
    <3>3. pending # <<>> => 1 \in DOMAIN pending
      BY <3>1, SeqFacts
    <3>. QED BY <2>1, <3>2, <3>3 DEF QueueSame, AckPoint, Unacked
  <2>. QED BY <1>3, <2>1, <2>2
<1>7. CASE Caller \/ ControlStep
  <2>1. pending' = pending /\ nextSeq' = nextSeq
    BY <1>1, <1>7
       DEF Caller, SubmitCheck, SubmitSend, CloseMark, CloseSend, CloseJoin, Abort,
           ControlStep, AdmitClose, DrainEmpty, ConnectionFails, AckDeadline,
           ReconnectFails, actorVars
  <2>2. AckPoint' = AckPoint
    BY <2>1 DEF AckPoint, Unacked
  <2>. QED BY <1>1, <1>3, <1>7, <2>2, TicketReceiptsKept
<1>8. CASE \/ SendDone \/ GoSilent \/ SendAck \/ ForeignAppend \/ UNCHANGED vars
           \/ \E e \in DOMAIN wires : StoreRecord(e)
  <2>1. pending' = pending /\ nextSeq' = nextSeq /\ ticket' = ticket
    BY <1>8 DEF SendDone, GoSilent, SendAck, ForeignAppend, StoreRecord, vars, actorVars,
                sharedVars
  <2>2. AckPoint' = AckPoint
    BY <2>1 DEF AckPoint, Unacked
  <2>. QED BY <1>3, <2>1, <2>2
<1>. QED BY <1>1, <1>4, <1>5, <1>6, <1>7, <1>8
         DEF Next, RunWriter, Environment, ControlStep, EndStep, Finished

LEMMA CoveredInit == Init => CoveredInv
BY DEF Init, CoveredInv, NewTicket

-----------------------------------------------------------------------------
(* CloseInv.                                                               *)

\* Once the close transition is made no producer passes the check again, and
\* the command the controller has sent stays the last one.
LEMMA NoMoreStays ==
  ASSUME TypeOK, [Next]_vars
  PROVE  /\ NoMoreSubmits => NoMoreSubmits'
         /\ CloseSent => CloseSent'
         /\ controller' = "marked" => controller = "marked" \/ NoMoreSubmits'
<1>1. CASE UNCHANGED <<state, producer, controller>>
  BY <1>1 DEF NoMoreSubmits, CloseSent, WriteLockFree
<1>2. CASE Caller
  <2>1. producer \in [Producers -> {"idle", "checked"}]
    BY DEF TypeOK, CallerTypeOK
  <2>2. ASSUME NEW p \in Producers, SubmitCheck(p) \/ SubmitSend(p)
        PROVE  ~NoMoreSubmits /\ controller' = controller
    BY <2>2 DEF SubmitCheck, SubmitSend, NoMoreSubmits, WriteLockFree
  <2>3. CASE CloseMark \/ CloseSend \/ CloseJoin \/ Abort
    <3>1. producer' = producer /\ WriteLockFree' = WriteLockFree
      BY <2>3 DEF CloseMark, CloseSend, CloseJoin, Abort, sharedVars, WriteLockFree
    <3>2. CASE CloseMark
      <4>1. state' # "open" /\ WriteLockFree /\ controller = "open" /\ controller' = "marked"
        BY <3>2 DEF CloseMark
      <4>. QED BY <3>1, <4>1 DEF NoMoreSubmits, CloseSent
    <3>3. CASE CloseSend \/ CloseJoin \/ Abort
      <4>1. /\ state' = state \/ state' = "done"
            /\ controller' \in {"joining", "returned", "aborted"}
        BY <3>3 DEF CloseSend, CloseJoin, Abort, sharedVars
      <4>. QED BY <3>1, <4>1 DEF NoMoreSubmits, CloseSent
    <3>. QED BY <2>3, <3>2, <3>3
  <2>. QED BY <1>2, <2>2, <2>3 DEF Caller, CloseSent
<1>3. CASE Shutdown
  BY <1>3 DEF Shutdown, NoMoreSubmits, CloseSent, WriteLockFree, callerVars
<1>4. ~Caller /\ ~Shutdown => UNCHANGED <<state, producer, controller>>
  BY DEF Next, RunWriter, AdmitSubmission, AdmitClose, DrainEmpty, SequenceExhausted,
         FeedFrame, SendDone, RecvAck, RecvInvalidAck, Reconnect, CloseDone, DropReceiver,
         Cancelled, CommandsClosed, Environment, ConnectionFails, AckDeadline, FatalError,
         ReconnectFails, StoreRecord, SendAck, ForeignAppend, GoSilent, Finished,
         FinishWriterError, vars, sharedVars, callerVars
<1>. QED BY <1>1, <1>2, <1>3, <1>4

LEMMA CloseKept ==
  ASSUME CloseInv,
         NoMoreSubmits => NoMoreSubmits', CloseSent => CloseSent',
         controller' = "marked" => controller = "marked" \/ NoMoreSubmits',
         UNCHANGED <<cmds, closing, ticket>>, PendingIds' = PendingIds, Alive' = Alive,
         closeResult' = "ok" => closeResult = "ok"
  PROVE  CloseInv'
<1>1. QueuedIds' = QueuedIds
  BY DEF QueuedIds
<1>. QED BY <1>1 DEF CloseInv, TicketsOpen

CloseQuietStates ==
  \/ \E p \in Producers : SubmitCheck(p) \/ (SubmitSend(p) /\ ticket' = ticket)
  \/ CloseMark \/ (CloseSend /\ ~rxOpen) \/ CloseJoin \/ Abort
  \/ Shutdown \/ DrainEmpty
  \/ ConnectionFails \/ AckDeadline \/ ReconnectFails
  \/ SendDone \/ GoSilent \/ SendAck \/ ForeignAppend
  \/ (\E e \in DOMAIN wires : StoreRecord(e))
  \/ UNCHANGED vars

LEMMA CloseQuiet ==
  ASSUME TypeOK, CloseInv, CloseQuietStates, [Next]_vars
  PROVE  CloseInv'
<1>1. pending' = pending /\ ticket' = ticket
  BY DEF CloseQuietStates, SubmitCheck, CloseMark, CloseSend, CloseJoin, Abort,
         Shutdown, DrainEmpty, ConnectionFails, AckDeadline, ReconnectFails,
         SubmitSend, SendDone, GoSilent, SendAck, ForeignAppend, StoreRecord, vars,
         actorVars, sharedVars
<1>2. cmds' = cmds
  <2>1. ASSUME NEW p \in Producers, SubmitSend(p), ticket' = ticket PROVE cmds' = cmds
    <3>1. ASSUME NEW id \in Submissions, NEW len \in BatchLens, ticket[id].st = "none",
                 ticket' = [ticket EXCEPT ![id].st = "waiting", ![id].len = len]
          PROVE  FALSE
      <4>1. ticket'[id].st = "waiting"
        BY <3>1, TicketFacts DEF TypeOK, ChannelTypeOK, Tickets
      <4>. QED BY <2>1, <3>1, <4>1
    <3>. QED BY <2>1, <3>1 DEF SubmitSend
  <2>. QED BY <2>1
           DEF CloseQuietStates, SubmitCheck, CloseMark, CloseSend, CloseJoin, Abort,
               Shutdown, DrainEmpty, ConnectionFails, AckDeadline, ReconnectFails,
               SendDone, GoSilent, SendAck, ForeignAppend, StoreRecord, vars, sharedVars
<1>3. closing' = closing /\ Alive' = Alive
  BY DEF CloseQuietStates, SubmitCheck, CloseMark, CloseSend, CloseJoin, Abort,
         Shutdown, DrainEmpty, ConnectionFails, AckDeadline, ReconnectFails, AwaitsAck,
         SubmitSend, SendDone, GoSilent, SendAck, ForeignAppend, StoreRecord, vars,
         actorVars, Alive, Settled
<1>4. closeResult' = "ok" => closeResult = "ok"
  BY DEF CloseQuietStates, SubmitCheck, CloseMark, CloseSend, CloseJoin, Abort,
         Shutdown, DrainEmpty, ConnectionFails, AckDeadline, ReconnectFails,
         SubmitSend, SendDone, GoSilent, SendAck, ForeignAppend, StoreRecord, vars,
         callerVars
<1>5. PendingIds' = PendingIds
  BY <1>1 DEF PendingIds
<1>. QED BY <1>1, <1>2, <1>3, <1>4, <1>5, NoMoreStays, CloseKept

LEMMA CloseSendFrames ==
  ASSUME TypeOK, CloseInv, FeedFrame \/ Reconnect, [Next]_vars
  PROVE  CloseInv'
<1>1. /\ UNCHANGED <<cmds, closing, ticket, closeResult>> /\ Alive' = Alive
  BY DEF FeedFrame, Reconnect, sharedVars, callerVars, Alive, Settled
<1>2. PendingIds' = PendingIds
  <2>1. \A i \in DOMAIN pending : pending[i] \in PendingSubmissions
    BY PendingFacts DEF TypeOK
  <2>2. DOMAIN pending' = DOMAIN pending /\ \A i \in DOMAIN pending : pending'[i].id = pending[i].id
    <3>1. CASE FeedFrame
      <4>1. PICK hi : pending' = [i \in DOMAIN pending |-> SentUpTo(pending[i], hi)]
        BY <3>1 DEF FeedFrame
      <4>. QED BY <2>1, <4>1 DEF SentUpTo, PendingSubmissions
    <3>2. CASE Reconnect
      BY <2>1, <3>2 DEF Reconnect, Rewound, PendingSubmissions
    <3>. QED BY <3>1, <3>2
  <2>. QED BY <2>2 DEF PendingIds
<1>. QED BY <1>1, <1>2, NoMoreStays, CloseKept

\* A producer that sends still holds the lock, so no close has been sent.
LEMMA CloseSubmit ==
  ASSUME TypeOK, CloseInv, NEW p \in Producers, SubmitSend(p), ticket' # ticket, [Next]_vars
  PROVE  CloseInv'
<1>1. PICK id \in Submissions, len \in BatchLens :
        /\ cmds' = Append(cmds, SubmitCommand(id, len))
        /\ ticket' = [ticket EXCEPT ![id].st = "waiting", ![id].len = len]
  BY DEF SubmitSend
<1>2. /\ ~NoMoreSubmits /\ UNCHANGED <<closing, closeResult, controller>>
      /\ Alive' = Alive /\ pending' = pending
  BY DEF SubmitSend, NoMoreSubmits, WriteLockFree, actorVars, Alive, Settled
<1>3. /\ closing = FALSE /\ closeResult # "ok" /\ controller # "marked"
      /\ \A i \in DOMAIN cmds : cmds[i].kind # "close"
  BY <1>2 DEF CloseInv, CloseSent, TypeOK, ActorTypeOK
<1>4. /\ DOMAIN cmds' = 1..(Len(cmds) + 1) /\ DOMAIN cmds = 1..Len(cmds) /\ Len(cmds) \in Nat
      /\ \A i \in DOMAIN cmds : cmds'[i] = cmds[i]
      /\ cmds'[Len(cmds) + 1] = SubmitCommand(id, len)
  BY <1>1, SeqFacts DEF TypeOK, ChannelTypeOK
<1>5. SubmitCommand(id, len).id = id /\ SubmitCommand(id, len).kind = "submit"
  BY DEF SubmitCommand
<1>6. \A i \in DOMAIN cmds' : cmds'[i].kind # "close"
  BY <1>3, <1>4, <1>5
<1>7. /\ ticket'[id].st = "waiting"
      /\ \A other \in Submissions : other # id => ticket'[other] = ticket[other]
  BY <1>1, TicketFacts DEF TypeOK, ChannelTypeOK, Tickets
<1>8. PendingIds' = PendingIds /\ QueuedIds \cup {id} \subseteq QueuedIds'
  <2>1. PendingIds' = PendingIds
    BY <1>2 DEF PendingIds
  <2>2. QueuedIds \subseteq QueuedIds'
    BY <1>4 DEF QueuedIds
  <2>3. id \in QueuedIds'
    <3>1. Len(cmds) + 1 \in DOMAIN cmds'
      BY <1>4
    <3>. QED BY <1>4, <1>5, <3>1 DEF QueuedIds
  <2>. QED BY <2>1, <2>2, <2>3
<1>9. Alive' => TicketsOpen'
  BY <1>2, <1>7, <1>8 DEF CloseInv, TicketsOpen
<1>. QED BY <1>2, <1>3, <1>6, <1>9 DEF CloseInv

LEMMA CloseCommandSent ==
  ASSUME TypeOK, CloseInv, CloseSend, rxOpen, [Next]_vars
  PROVE  CloseInv'
<1>1. /\ cmds' = Append(cmds, CloseCommand) /\ controller = "marked" /\ controller' = "joining"
      /\ UNCHANGED <<state, producer, closing, closeResult, ticket, pending, pc>>
  BY DEF CloseSend, actorVars
<1>2. CloseSent' /\ ~CloseSent
  <2>1. NoMoreSubmits'
    BY <1>1, NoMoreStays DEF CloseInv
  <2>. QED BY <1>1, <2>1 DEF CloseSent
<1>3. /\ closing = FALSE /\ closeResult # "ok"
      /\ \A i \in DOMAIN cmds : cmds[i].kind # "close"
  BY <1>2 DEF CloseInv, TypeOK, ActorTypeOK
<1>4. /\ DOMAIN cmds' = 1..(Len(cmds) + 1) /\ DOMAIN cmds = 1..Len(cmds) /\ Len(cmds) \in Nat
      /\ Len(cmds') = Len(cmds) + 1
      /\ \A i \in DOMAIN cmds : cmds'[i] = cmds[i]
  BY <1>1, SeqFacts DEF TypeOK, ChannelTypeOK
<1>5. \A i \in DOMAIN cmds' : cmds'[i].kind = "close" => i = Len(cmds')
  BY <1>3, <1>4
<1>6. PendingIds' = PendingIds /\ QueuedIds \subseteq QueuedIds' /\ Alive' = Alive
  BY <1>1, <1>4 DEF PendingIds, QueuedIds, Alive, Settled
<1>7. Alive' => TicketsOpen'
  BY <1>1, <1>6 DEF CloseInv, TicketsOpen
<1>. QED BY <1>1, <1>2, <1>3, <1>5, <1>7 DEF CloseInv

\* Behind the close command the channel is empty.
LEMMA CloseTaken ==
  ASSUME TypeOK, CloseInv, AdmitClose, [Next]_vars
  PROVE  CloseInv'
<1>1. /\ cmds # <<>> /\ Head(cmds).kind = "close" /\ cmds' = Tail(cmds) /\ closing' = TRUE
      /\ UNCHANGED <<state, producer, controller, closeResult, ticket, pending>>
      /\ Alive /\ Alive'
  BY DEF AdmitClose, DrainTurn, callerVars, Alive, Settled
<1>2. 1 = Len(cmds) /\ CloseSent /\ 1 \in DOMAIN cmds /\ cmds[1].kind = "close"
  BY <1>1, CommandFacts DEF CloseInv
<1>3. cmds' = <<>> /\ QueuedIds = {}
  <2>1. cmds' = <<>>
    <3>1. Tail(cmds) \in Seq(Commands) /\ Len(Tail(cmds)) = 0
      BY <1>1, <1>2, TailFacts DEF TypeOK, ChannelTypeOK
    <3>. QED BY <1>1, <3>1, SeqFacts
  <2>2. DOMAIN cmds = 1..1
    BY <1>1, <1>2, CommandFacts
  <2>. QED BY <1>2, <2>1, <2>2 DEF QueuedIds
<1>4. PendingIds' = PendingIds
  BY <1>1 DEF PendingIds
<1>5. TicketsOpen'
  BY <1>1, <1>3, <1>4 DEF CloseInv, TicketsOpen
<1>6. DOMAIN cmds' = {}
  BY <1>3
<1>. QED BY <1>1, <1>2, <1>3, <1>5, <1>6, NoMoreStays DEF CloseInv

LEMMA CloseAdmit ==
  ASSUME TypeOK, CloseInv, AdmitSubmission, [Next]_vars
  PROVE  CloseInv'
<1>1. PICK c : c = Head(cmds) /\ c = cmds[1] /\ c \in Commands /\ c.kind = "submit" /\ cmds # <<>>
  BY CommandFacts DEF AdmitSubmission, DrainTurn
<1>2. /\ c.id \in Submissions /\ cmds' = Tail(cmds)
      /\ UNCHANGED <<controller, closing, closeResult>> /\ Alive /\ Alive'
      /\ ticket' = [ticket EXCEPT ![c.id].start = nextSeq]
  BY <1>1, SubmitFacts DEF AdmitSubmission, DrainTurn, callerVars, Alive, Settled
<1>3. closing = FALSE /\ closeResult # "ok"
  BY <1>1, <1>2 DEF CloseInv, TypeOK, ActorTypeOK
<1>4. PICK p : p.id = c.id /\ pending' = Append(pending, p)
  BY <1>1 DEF AdmitSubmission
<1>5. \A i \in DOMAIN cmds' : cmds'[i].kind = "close" => i = Len(cmds') /\ CloseSent
  <2>1. SUFFICES ASSUME NEW i \in DOMAIN cmds', cmds'[i].kind = "close"
                 PROVE  i = Len(cmds') /\ CloseSent
    OBVIOUS
  <2>2. /\ i \in Nat /\ i + 1 \in DOMAIN cmds /\ cmds'[i] = cmds[i + 1]
        /\ Len(cmds') = Len(cmds) - 1 /\ Len(cmds) \in Nat
    BY <1>1, <1>2, CommandFacts
  <2>3. i + 1 = Len(cmds) /\ CloseSent
    BY <2>1, <2>2 DEF CloseInv
  <2>. QED BY <2>2, <2>3
<1>6. PendingIds \cup {c.id} \subseteq PendingIds'
  <2>1. /\ DOMAIN pending' = 1..(Len(pending) + 1) /\ DOMAIN pending = 1..Len(pending)
        /\ Len(pending) \in Nat
        /\ \A i \in DOMAIN pending : pending'[i] = pending[i]
        /\ pending'[Len(pending) + 1] = p
    BY <1>4, PendingFacts DEF TypeOK, PendingTypeOK
  <2>2. c.id \in PendingIds'
    <3>1. Len(pending) + 1 \in DOMAIN pending'
      BY <2>1
    <3>. QED BY <1>4, <2>1, <3>1 DEF PendingIds
  <2>. QED BY <2>1, <2>2 DEF PendingIds
<1>7. QueuedIds \subseteq QueuedIds' \cup {c.id}
  <2>1. SUFFICES ASSUME NEW i \in DOMAIN cmds, cmds[i].kind = "submit", i # 1
                 PROVE  cmds[i].id \in QueuedIds'
    BY <1>1 DEF QueuedIds
  <2>2. PICK j : j = i - 1
    OBVIOUS
  <2>3. i = j + 1 /\ j \in DOMAIN cmds' /\ cmds'[j] = cmds[i]
    BY <1>1, <1>2, <2>1, <2>2, CommandFacts
  <2>. QED BY <2>1, <2>3 DEF QueuedIds
<1>8. \A id \in Submissions : ticket'[id].st = ticket[id].st
  BY <1>2, TicketFacts DEF TypeOK, ChannelTypeOK, Tickets
<1>9. TicketsOpen'
  BY <1>2, <1>6, <1>7, <1>8 DEF CloseInv, TicketsOpen
<1>. QED BY <1>2, <1>3, <1>5, <1>9, NoMoreStays DEF CloseInv

LEMMA CloseEnd ==
  ASSUME TypeOK, CloseInv, EndStep, [Next]_vars
  PROVE  CloseInv'
<1>1. /\ Alive /\ ~Alive' /\ closing' = FALSE /\ controller' = controller
      /\ closeResult' = closeResult \/ closeResult' = "error"
      /\ cmds' = cmds \/ (cmds # <<>> /\ cmds' = Tail(cmds))
  BY DEF EndStep, FatalError, RecvInvalidAck, SequenceExhausted, Cancelled, CommandsClosed,
         FinishWriterError, AwaitsAck, DrainTurn, callerVars, Alive, Settled
<1>2. closeResult' # "ok"
  BY <1>1 DEF CloseInv
<1>3. \A i \in DOMAIN cmds' : cmds'[i].kind = "close" => i = Len(cmds') /\ CloseSent
  <2>1. CASE cmds' = cmds
    BY <2>1 DEF CloseInv
  <2>2. CASE cmds # <<>> /\ cmds' = Tail(cmds)
    <3>1. SUFFICES ASSUME NEW i \in DOMAIN cmds', cmds'[i].kind = "close"
                   PROVE  i = Len(cmds') /\ CloseSent
      OBVIOUS
    <3>2. /\ i \in Nat /\ i + 1 \in DOMAIN cmds /\ cmds'[i] = cmds[i + 1]
          /\ Len(cmds') = Len(cmds) - 1 /\ Len(cmds) \in Nat
      BY <2>2, CommandFacts
    <3>3. i + 1 = Len(cmds) /\ CloseSent
      BY <3>1, <3>2 DEF CloseInv
    <3>. QED BY <3>2, <3>3
  <2>. QED BY <1>1, <2>1, <2>2
<1>. QED BY <1>1, <1>2, <1>3, NoMoreStays DEF CloseInv

\* Success is reported, and stays true.
LEMMA CloseReported ==
  ASSUME WriterInv, CloseInv, CloseDone \/ DropReceiver, [Next]_vars
  PROVE  CloseInv'
<1>1. CASE CloseDone
  <2>1. /\ Alive /\ ~Alive' /\ closing /\ closing' = FALSE /\ pending = <<>>
        /\ UNCHANGED <<cmds, ticket, controller>>
    BY <1>1 DEF CloseDone, sharedVars, Alive, Settled
  <2>2. cmds = <<>> /\ CloseSent
    BY <2>1 DEF CloseInv
  <2>3. PendingIds = {} /\ QueuedIds = {}
    BY <2>1, <2>2 DEF PendingIds, QueuedIds
  <2>4. \A id \in Submissions : ticket'[id].st \in {"none", "ok"}
    BY <2>1, <2>3 DEF CloseInv, TicketsOpen
  <2>. QED BY <2>1, <2>2, <2>4, NoMoreStays DEF CloseInv, WriterInv
<1>2. CASE DropReceiver
  <2>1. /\ ~Alive /\ ~Alive' /\ cmds' = <<>> /\ ticket' = Resolve(QueuedIds, "dropped")
        /\ UNCHANGED <<closing, controller, closeResult>>
    BY <1>2 DEF DropReceiver, callerVars, Alive, Settled
  <2>2. closeResult = "ok" => \A id \in Submissions : ticket'[id].st \in {"none", "ok"}
    <3>1. SUFFICES ASSUME closeResult = "ok", NEW id \in Submissions
                   PROVE  ticket'[id].st \in {"none", "ok"}
      OBVIOUS
    <3>2. cmds = <<>> /\ ticket[id].st \in {"none", "ok"}
      BY <3>1 DEF CloseInv
    <3>3. QueuedIds = {}
      BY <3>2 DEF QueuedIds
    <3>. QED BY <2>1, <3>2, <3>3 DEF Resolve
  <2>3. DOMAIN cmds' = {}
    BY <2>1
  <2>. QED BY <2>1, <2>2, <2>3, NoMoreStays DEF CloseInv, WriterInv
<1>. QED BY <1>1, <1>2

LEMMA CloseRecvAck ==
  ASSUME WriterInv, CloseInv, RecvAck, [Next]_vars
  PROVE  CloseInv'
<1>1. PICK a \in AckRanges, done \in 0..Len(pending) : FrontCompleted(a, done)
  BY AckStep
<1>2. /\ UNCHANGED <<cmds, closing, controller, closeResult>> /\ Alive /\ Alive'
  BY DEF RecvAck, AwaitsAck, callerVars, Alive, Settled
<1>3. QueuedIds' = QueuedIds
  BY <1>2 DEF QueuedIds
<1>4. ASSUME NEW id \in Submissions
      PROVE  /\ ticket'[id].st \in {"none", "waiting", "ok"}
             /\ ticket'[id].st = "waiting" => id \in PendingIds' \cup QueuedIds'
  <2>1. CASE \E i \in 1..done : pending[i].id = id
    <3>1. PICK i \in 1..done :
            ticket'[id] = [ticket[id] EXCEPT
              !.st = "ok", !.receipts = Acknowledged(pending[i], a).receipts]
      BY <1>1, <2>1 DEF FrontCompleted
    <3>2. ticket'[id].st = "ok"
      BY <3>1, TicketFacts DEF WriterInv, Tickets
    <3>. QED BY <3>2
  <2>2. CASE ~\E i \in 1..done : pending[i].id = id
    <3>1. ticket'[id] = ticket[id]
      BY <1>1, <2>2 DEF FrontCompleted
    <3>2. ASSUME id \in PendingIds PROVE id \in PendingIds'
      <4>1. PICK i \in DOMAIN pending : pending[i].id = id
        BY <3>2 DEF PendingIds
      <4>2. /\ DOMAIN pending = 1..Len(pending) /\ Len(pending) \in Nat /\ done \in Nat
            /\ DOMAIN pending' = 1..(Len(pending) - done)
        <5>1. DOMAIN pending = 1..Len(pending) /\ Len(pending) \in Nat /\ done \in Nat
          BY PendingFacts DEF WriterInv, TypeOK
        <5>. QED BY <1>1, <5>1, Zenon DEF FrontCompleted
      <4>3. PICK j \in DOMAIN pending' : done + j = i
        <5>1. i > done
          BY <2>2, <4>1, <4>2
        <5>2. i - done \in DOMAIN pending' /\ done + (i - done) = i
          BY <4>2, <5>1
        <5>. QED BY <5>2
      <4>4. pending'[j] = Acknowledged(pending[i], a)
        BY <1>1, <4>3 DEF FrontCompleted
      <4>5. AckEffect(pending[i], Acknowledged(pending[i], a), a)
        BY <1>1 DEF FrontCompleted
      <4>6. pending'[j].id = id
        BY <4>1, <4>4, <4>5 DEF AckEffect
      <4>. QED BY <4>6 DEF PendingIds
    <3>. QED BY <1>2, <1>3, <3>1, <3>2 DEF CloseInv, TicketsOpen
  <2>. QED BY <2>1, <2>2
<1>5. TicketsOpen'
  BY <1>4 DEF TicketsOpen
<1>. QED BY <1>2, <1>5, NoMoreStays DEF CloseInv, WriterInv

LEMMA CloseStep == WriterInv /\ CloseInv /\ [Next]_vars => CloseInv'
<1> SUFFICES ASSUME WriterInv, CloseInv, [Next]_vars PROVE CloseInv'
  OBVIOUS
<1>1. TypeOK
  BY DEF WriterInv
<1>2. CASE CloseQuietStates
  BY <1>1, <1>2, CloseQuiet
<1>3. CASE \E p \in Producers : SubmitSend(p) /\ ticket' # ticket
  BY <1>1, <1>3, CloseSubmit
<1>4. CASE FeedFrame \/ Reconnect
  BY <1>1, <1>4, CloseSendFrames
<1>5. CASE (CloseSend /\ rxOpen) \/ AdmitClose
  BY <1>1, <1>5, CloseCommandSent, CloseTaken
<1>6. CASE AdmitSubmission \/ EndStep
  BY <1>1, <1>6, CloseAdmit, CloseEnd
<1>7. CASE CloseDone \/ DropReceiver \/ RecvAck
  BY <1>7, CloseReported, CloseRecvAck
<1>. QED BY <1>2, <1>3, <1>4, <1>5, <1>6, <1>7
         DEF Next, Caller, RunWriter, Environment, Finished, CloseQuietStates, EndStep

LEMMA CloseInit == Init => CloseInv
BY DEF Init, CloseInv, TicketsOpen, NewTicket, CloseSent

-----------------------------------------------------------------------------
(* The theorems.                                                           *)

\* The tickets, the queues and the close are consistent in every reachable state.
LEMMA ReceiptInvariant == Spec => [](WriterInv /\ ReceiptInv)
<1>1. Init => ReceiptInv
  BY DurableInit, MatchInit, CoveredInit, CloseInit DEF ReceiptInv
<1>2. WriterInv /\ ReceiptInv /\ [Next]_vars => ReceiptInv'
  BY DurableStep, MatchStep, CoveredStep, CloseStep DEF ReceiptInv
<1>. QED BY <1>1, <1>2, WriterInvariant, PTL DEF Spec

(* Every receipt of a ticket names a position of the stream that holds its *)
(* record, whichever connection stored the copy (dispatch_ack).            *)
THEOREM ReceiptsAreDurable == Spec => []ReceiptsDurable
<1>1. ReceiptInv => ReceiptsDurable
  BY DEF ReceiptInv, DurableInv
<1>. QED BY <1>1, ReceiptInvariant, PTL

(* A ticket that resolves has one receipt for each record of its batch,    *)
(* however its acknowledgements and reconnects cut the batch.              *)
THEOREM ReceiptsAreComplete == Spec => []ReceiptsMatchBatch
<1>1. ReceiptInv => ReceiptsMatchBatch
  BY DEF ReceiptInv, MatchInv
<1>. QED BY <1>1, ReceiptInvariant, PTL

(* A successful close has every submission of every producer behind it     *)
(* (submit_lock, drain_queued_commands).                                   *)
THEOREM CloseIsDurable == Spec => []CloseDurable
<1>1. ReceiptInv => CloseDurable
  BY DEF ReceiptInv, CloseInv, CloseDurable
<1>. QED BY <1>1, ReceiptInvariant, PTL

\* Only feeding a frame makes the queue of a connection longer.
LEMMA OnlyFramesAdd ==
  ASSUME WriterInv, Next, ~FeedFrame, NEW e \in DOMAIN wires
  PROVE  ~(Len(wires'[e]) > Len(wires[e]))
<1>1. /\ wires \in Seq(Seq(Frames)) /\ wires[e] \in Seq(Frames) /\ Len(wires[e]) \in Nat
  BY SeqFacts DEF WriterInv, TypeOK, NetTypeOK
<1>2. CASE wires' = wires
  BY <1>1, <1>2
<1>3. CASE Reconnect
  <2>1. wires' = Append(wires, <<>>)
    BY <1>3 DEF Reconnect
  <2>2. wires'[e] = wires[e]
    BY <1>1, <2>1
  <2>. QED BY <1>1, <2>2
<1>4. ASSUME NEW c \in DOMAIN wires, StoreRecord(c) PROVE ~(Len(wires'[e]) > Len(wires[e]))
  <2>1. PICK W, f : W \in Seq(Frames) /\ W = wires[c] /\ f = Head(W) /\ W # <<>>
    BY <1>4, SeqFacts DEF StoreRecord, WriterInv, TypeOK, NetTypeOK
  <2>2. PICK V : /\ V = IF f.lo + 1 = f.hi THEN Tail(W) ELSE <<[f EXCEPT !.lo = @ + 1]>> \o Tail(W)
                 /\ wires' = [wires EXCEPT ![c] = V]
    BY <1>4, <2>1 DEF StoreRecord
  <2>3. Tail(W) \in Seq(Frames) /\ Len(Tail(W)) = Len(W) - 1 /\ Len(W) \in Nat \ {0}
    BY <2>1, TailFacts
  <2>4. f \in Frames /\ f.lo \in Nat
    <3>1. f \in Frames
      BY <2>1
    <3>. QED BY <3>1, Bounds DEF Frames, SeqNums
  <2>5. Len(V) <= Len(W)
    <3>1. PICK g : g = [f EXCEPT !.lo = @ + 1]
      OBVIOUS
    <3>2. Len(<<g>> \o Tail(W)) = Len(W)
      <4>1. Tail(W) \in Seq(Frames \cup {g}) /\ <<g>> \in Seq(Frames \cup {g})
        BY <2>3
      <4>. QED BY <2>3, <4>1
    <3>. QED BY <2>2, <2>3, <3>1, <3>2
  <2>6. wires'[e] = IF e = c THEN V ELSE wires[e]
    BY <1>1, <2>2
  <2>. QED BY <1>1, <2>1, <2>3, <2>5, <2>6
<1>. QED BY <1>2, <1>3, <1>4
         DEF Next, Caller, SubmitCheck, SubmitSend, CloseMark, CloseSend, CloseJoin, Abort,
             RunWriter, AdmitSubmission, AdmitClose, DrainEmpty, SequenceExhausted, SendDone,
             RecvAck, RecvInvalidAck, CloseDone, Shutdown, DropReceiver, Cancelled,
             CommandsClosed, Environment, ConnectionFails, AckDeadline, FatalError,
             ReconnectFails, SendAck, ForeignAppend, GoSilent, Finished, vars, netVars

LEMMA FrameUncovered ==
  ASSUME WriterInv, ReceiptInv, Next PROVE NewFrameUncovered
<1>1. SUFFICES ASSUME NEW e \in DOMAIN wires, Len(wires'[e]) > Len(wires[e])
               PROVE  LET f == wires'[e][Len(wires'[e])]
                      IN /\ \A id \in Submissions : \A r \in ticket[id].receipts : r.w < f.lo
                         /\ \A i \in DOMAIN pending : \A r \in pending[i].receipts : r.w < f.lo
  BY DEF NewFrameUncovered
<1>2. FeedFrame
  BY <1>1, OnlyFramesAdd
<1>3. TypeOK /\ Alive /\ QueueInv
  BY <1>2 DEF WriterInv, FeedFrame, Alive, Settled
<1>4. PICK lo \in 0..nextSeq, hi \in 0..nextSeq :
        /\ StartsFrame(lo)
        /\ wires' = [wires EXCEPT ![Current] = Append(@, [lo |-> lo, hi |-> hi])]
  BY <1>2 DEF FeedFrame, IsFrame
<1>5. lo = SentPoint
  BY <1>3, <1>4, FrameStart
<1>6. wires'[e][Len(wires'[e])].lo = lo
  <2>1. /\ wires \in Seq(Seq(Frames)) /\ wires[e] \in Seq(Frames) /\ Len(wires[e]) \in Nat
    BY <1>3, SeqFacts DEF TypeOK, NetTypeOK
  <2>2. e = Current
    BY <1>1, <1>4, <2>1
  <2>3. PICK f : f = [lo |-> lo, hi |-> hi]
    OBVIOUS
  <2>4. wires'[e] = Append(wires[e], f)
    BY <1>4, <2>1, <2>2, <2>3
  <2>5. Append(wires[e], f)[Len(Append(wires[e], f))] = f
    <3>1. wires[e] \in Seq(Frames \cup {f})
      BY <2>1
    <3>. QED BY <3>1
  <2>. QED BY <2>3, <2>4, <2>5
<1>7. AckPoint \in Nat /\ SentPoint \in Nat /\ AckPoint <= SentPoint
  BY <1>3, Bounds DEF QueueInv, TypeOK, ActorTypeOK, SeqNums
<1>8. ASSUME NEW id \in Submissions, NEW r \in ticket[id].receipts PROVE r.w < lo
  <2>1. r.w < AckPoint
    BY <1>3 DEF ReceiptInv, CoveredInv
  <2>2. r.w \in Nat
    BY <1>3, TicketFacts, ReceiptFacts
  <2>. QED BY <1>5, <1>7, <2>1, <2>2
<1>9. ASSUME NEW i \in DOMAIN pending, NEW r \in pending[i].receipts PROVE r.w < lo
  <2>1. /\ pending[i].start \in Nat /\ pending[i].acked \in Nat
        /\ r.w \in pending[i].start..(pending[i].start + pending[i].acked - 1)
    <3>1. PICK rs, from, to : /\ rs = pending[i].receipts /\ from = pending[i].start
                              /\ to = pending[i].start + pending[i].acked
      OBVIOUS
    <3>2. OneEach(rs, from, to) /\ r \in rs
      BY <3>1 DEF ReceiptInv, MatchInv, PendingMatch
    <3>3. r.w \in from..(to - 1)
      BY <3>2, OneEachRange
    <3>. QED BY <1>3, <3>1, <3>3, PendingFacts DEF TypeOK
  <2>2. i = 1 /\ pending # <<>>
    <3>1. i \in Nat \ {0} /\ pending # <<>>
      BY <1>3, PendingFacts DEF TypeOK
    <3>2. i > 1 => pending[i].acked = 0
      BY <1>3 DEF QueueInv
    <3>. QED BY <2>1, <3>1, <3>2
  <2>3. AckPoint = pending[i].start + pending[i].acked
    BY <2>2 DEF AckPoint, Unacked
  <2>. QED BY <1>5, <1>7, <2>1, <2>3
<1>. QED BY <1>6, <1>8, <1>9

(* A frame never carries a record that has a receipt: recovery rewinds to  *)
(* the acknowledged prefix and no further (recover_pending_appends).       *)
THEOREM ResendsNothingAcknowledged == Spec => ResendsOnlyUnacked
<1>1. WriterInv /\ ReceiptInv /\ [Next]_vars => [NewFrameUncovered]_vars
  BY FrameUncovered
<1>. QED BY <1>1, ReceiptInvariant, PTL DEF Spec, ResendsOnlyUnacked

-----------------------------------------------------------------------------
(* ReliableAppend: the reader that drops copies.                           *)

\* Every set of numbers has a least one; an induction is an argument about the
\* least counterexample.
LEMMA LeastNumber ==
  ASSUME NEW T, T \subseteq Nat, T # {}
  PROVE  \E m \in T : \A k \in T : m <= k
<1>. DEFINE LessThan == {p \in Nat \X Nat : p[1] < p[2]}
<1>1. IsWellFoundedOn(LessThan, Nat)
  BY NatLessThanWellFounded DEF OpToRel
<1>2. PICK m \in T : \A k \in T : ~ (<<k, m>> \in LessThan)
  <2>. HIDE DEF LessThan
  <2>. QED BY ONLY <1>1, WFMin, T \subseteq Nat, T # {}
<1>3. ASSUME NEW k \in T PROVE m <= k
  <2>1. ~ (<<k, m>> \in LessThan)
    BY <1>2
  <2>. QED BY <2>1
<1>. QED BY <1>3

\* `f` is what the reader has kept after each of the first `n` records.
KeptUpTo(records, n, f) ==
  f = [k \in 0..n |-> IF k = 0 THEN <<>> ELSE Keep(f[k - 1], records[k])]

LEMMA KeptExists ==
  ASSUME NEW records, NEW n \in Nat
  PROVE  \E f : KeptUpTo(records, n, f)
<1>. DEFINE T == {k \in Nat : ~ \E f : KeptUpTo(records, k, f)}
<1>. SUFFICES ASSUME T # {} PROVE FALSE
  OBVIOUS
<1>1. PICK m \in T : \A k \in T : m <= k
  BY LeastNumber
<1>2. m # 0
  <2>. DEFINE f == [k \in 0..0 |-> <<>>]
  <2>1. KeptUpTo(records, 0, f)
    BY DEF KeptUpTo
  <2>. QED BY <2>1
<1>3. m - 1 \in Nat /\ m - 1 \notin T
  BY <1>1, <1>2
<1>4. PICK g : KeptUpTo(records, m - 1, g)
  BY <1>3
<1>. DEFINE f == [k \in 0..m |-> IF k = m THEN Keep(g[m - 1], records[m]) ELSE g[k]]
<1>5. \A k \in 0..(m - 1) : g[k] = IF k = 0 THEN <<>> ELSE Keep(g[k - 1], records[k])
  BY <1>4, <1>3 DEF KeptUpTo
<1>6. ASSUME NEW k \in 0..m
      PROVE  f[k] = IF k = 0 THEN <<>> ELSE Keep(f[k - 1], records[k])
  <2>1. CASE k = m
    BY <2>1, <1>2, <1>3
  <2>2. CASE k # m
    BY <2>2, <1>5, <1>3
  <2>. QED BY <2>1, <2>2
<1>7. KeptUpTo(records, m, f)
  <2>. HIDE DEF f
  <2>1. f = [k \in 0..m |-> f[k]]
    BY DEF f
  <2>. QED BY <2>1, <1>6 DEF KeptUpTo
<1>. QED BY <1>7, <1>1

LEMMA KeptAgrees ==
  ASSUME NEW records, NEW more, NEW n \in Nat, NEW m \in Nat, n <= m,
         \A k \in 1..n : more[k] = records[k],
         NEW f, KeptUpTo(records, n, f), NEW g, KeptUpTo(more, m, g)
  PROVE  f[n] = g[n]
<1>. DEFINE T == {k \in 0..n : f[k] # g[k]}
<1>. SUFFICES ASSUME T # {} PROVE FALSE
  OBVIOUS
<1>1. PICK k \in T : \A j \in T : k <= j
  <2>1. T \subseteq Nat
    OBVIOUS
  <2>. HIDE DEF T
  <2>. QED BY <2>1, LeastNumber
<1>2. /\ \A j \in 0..n : f[j] = IF j = 0 THEN <<>> ELSE Keep(f[j - 1], records[j])
      /\ \A j \in 0..n : g[j] = IF j = 0 THEN <<>> ELSE Keep(g[j - 1], more[j])
  BY DEF KeptUpTo
<1>3. k # 0
  BY <1>1, <1>2
<1>4. k - 1 \in 0..n /\ f[k - 1] = g[k - 1] /\ records[k] = more[k]
  BY <1>1, <1>3
<1>. QED BY <1>1, <1>2, <1>3, <1>4

LEMMA DeduplicatedIsKept ==
  ASSUME NEW records, Len(records) \in Nat
  PROVE  \E f : KeptUpTo(records, Len(records), f) /\ Deduplicated(records) = f[Len(records)]
<1>1. Deduplicated(records) = (CHOOSE f : KeptUpTo(records, Len(records), f))[Len(records)]
  BY DEF Deduplicated, KeptUpTo
<1>2. PICK f : KeptUpTo(records, Len(records), f)
  BY KeptExists
<1>3. KeptUpTo(records, Len(records), CHOOSE h : KeptUpTo(records, Len(records), h))
  BY <1>2, Zenon
<1>. QED BY <1>1, <1>3

LEMMA DeduplicatedEmpty == Deduplicated(<<>>) = <<>>
<1>1. Len(<<>>) = 0
  OBVIOUS
<1>2. PICK f : KeptUpTo(<<>>, 0, f) /\ Deduplicated(<<>>) = f[0]
  BY <1>1, DeduplicatedIsKept
<1>. QED BY <1>2 DEF KeptUpTo

\* One more record of the stream is one more turn of the reader.
LEMMA DeduplicatedAppend ==
  ASSUME NEW S, NEW records \in Seq(S), NEW w \in S
  PROVE  Deduplicated(Append(records, w)) = Keep(Deduplicated(records), w)
<1>. DEFINE n == Len(records)
            more == Append(records, w)
<1>1. /\ n \in Nat /\ Len(more) = n + 1 /\ more[n + 1] = w
      /\ \A k \in 1..n : more[k] = records[k]
  OBVIOUS
<1>. HIDE DEF more
<1>2. PICK f : KeptUpTo(records, n, f) /\ Deduplicated(records) = f[n]
  BY <1>1, DeduplicatedIsKept
<1>3. PICK g : KeptUpTo(more, n + 1, g) /\ Deduplicated(more) = g[n + 1]
  BY <1>1, DeduplicatedIsKept
<1>4. f[n] = g[n]
  <2>1. n + 1 \in Nat /\ n <= n + 1
    BY <1>1
  <2>. HIDE DEF n
  <2>2. \A k \in 1..n : more[k] = records[k]
    BY <1>1
  <2>. QED BY ONLY <1>1, <1>2, <1>3, <2>1, <2>2, KeptAgrees
<1>5. g[n + 1] = Keep(g[n], more[n + 1])
  <2>1. g[n + 1] = IF n + 1 = 0 THEN <<>> ELSE Keep(g[(n + 1) - 1], more[n + 1])
    BY <1>1, <1>3 DEF KeptUpTo
  <2>2. n + 1 # 0 /\ (n + 1) - 1 = n
    BY <1>1
  <2>. QED BY <2>1, <2>2
<1>6. Deduplicated(more) = Keep(Deduplicated(records), w)
  BY ONLY <1>1, <1>2, <1>3, <1>4, <1>5
<1>. QED BY <1>6 DEF more

-----------------------------------------------------------------------------
(* What a reader that drops copies has seen, step by step.                 *)

LEMMA RampFacts ==
  ASSUME NEW n \in Nat
  PROVE  /\ Ramp(n) \in Seq(Nat) /\ Len(Ramp(n)) = n
         /\ \A i \in 1..n : Ramp(n)[i] = i - 1
         /\ Append(Ramp(n), n) = Ramp(n + 1)
<1>1. Ramp(n) \in [1..n -> Nat] /\ Ramp(n + 1) \in [1..(n + 1) -> Nat]
  BY DEF Ramp
<1>2. Ramp(n) \in Seq(Nat) /\ Len(Ramp(n)) = n /\ Ramp(n + 1) \in Seq(Nat) /\ Len(Ramp(n + 1)) = n + 1
  BY <1>1, TupleFacts
<1>3. \A i \in 1..n : Ramp(n)[i] = i - 1 /\ Ramp(n + 1)[i] = i - 1
  BY DEF Ramp
<1>4. Ramp(n + 1)[n + 1] = n
  BY DEF Ramp
<1>5. Append(Ramp(n), n) = Ramp(n + 1)
  <2>. DEFINE r == Ramp(n)
              t == Ramp(n + 1)
              s == Append(r, n)
  <2>1. s \in Seq(Nat) /\ Len(s) = n + 1 /\ s[n + 1] = n /\ \A i \in 1..n : s[i] = r[i]
    BY <1>2
  <2>2. \A i \in 1..(n + 1) : s[i] = t[i]
    BY <2>1, <1>3, <1>4
  <2>3. s \in Seq(Nat) /\ t \in Seq(Nat) /\ Len(s) = Len(t) /\ \A i \in 1..Len(s) : s[i] = t[i]
    BY <2>1, <2>2, <1>2
  <2>. HIDE DEF s, t
  <2>4. s = t
    BY <2>3, SeqEqual
  <2>. QED BY <2>4 DEF s, t
<1>. QED BY <1>2, <1>3, <1>5

\* The next record of the stream is a copy, somebody else's, or the next number.
LEMMA VisibleMore ==
  ASSUME TypeOK, VisibleInv, NEW w \in SeqNums \cup {Foreign}, w > 0 => PresentBelow(w),
         log' = Append(log, w)
  PROVE  /\ VisibleInv'
         /\ \/ Visible' = Visible
            \/ /\ w = Len(Visible)
               /\ Visible' = Append(Visible, Len(Visible))
<1>. DEFINE n == Len(Visible)
<1>1. n \in Nat /\ Visible = Ramp(n) /\ (\A j \in DOMAIN log : log[j] < n) /\ Holds(log, n)
  BY DEF VisibleInv, PresentBelow
<1>2. log \in Seq(SeqNums \cup {Foreign}) /\ w \in Int
  BY Bounds DEF TypeOK, NetTypeOK, SeqNums, Foreign
<1>3. /\ DOMAIN log' = 1..(Len(log) + 1) /\ DOMAIN log = 1..Len(log) /\ Len(log) \in Nat
      /\ log'[Len(log) + 1] = w /\ \A j \in DOMAIN log : log'[j] = log[j]
  BY <1>2
<1>4. Visible' = Keep(Ramp(n), w)
  BY <1>1, <1>2, DeduplicatedAppend DEF Visible
<1>. HIDE DEF n
<1>5. Ramp(n) \in Seq(Nat) /\ Len(Ramp(n)) = n /\ (\A i \in 1..n : Ramp(n)[i] = i - 1)
      /\ Append(Ramp(n), n) = Ramp(n + 1) /\ Len(Ramp(n + 1)) = n + 1
  <2>1. n + 1 \in Nat
    BY <1>1
  <2>. QED BY <1>1, <2>1, RampFacts
<1>6. w <= n
  <2>1. CASE w > n
    <3>1. w > 0 /\ n \in 0..(w - 1)
      BY <2>1, <1>1, <1>2
    <3>2. PICK j \in DOMAIN log : log[j] = n
      BY <3>1 DEF PresentBelow, Holds
    <3>. QED BY <3>2, <1>1
  <2>. QED BY <2>1, <1>1, <1>2
<1>7. Holds(log', n)
  BY <1>1, <1>2, HoldsMore
<1>8. CASE w < n
  <2>1. (Ramp(n) # <<>> /\ Ramp(n)[n] = n - 1) \/ w = Foreign
    <3>1. CASE w \in SeqNums
      <4>1. n \in 1..n
        BY <3>1, <1>8, <1>1, Bounds DEF SeqNums
      <4>2. Ramp(n) # <<>>
        BY <4>1, <1>5
      <4>. QED BY <4>1, <4>2, <1>5
    <3>. QED BY <3>1
  <2>2. Keep(Ramp(n), w) = Ramp(n)
    BY <2>1, <1>8, <1>1, <1>2, <1>5 DEF Keep
  <2>3. \A j \in DOMAIN log' : log'[j] < n
    BY <1>1, <1>3, <1>8
  <2>4. Len(Visible') = n /\ Visible' = Ramp(n)
    BY <2>2, <1>4, <1>5
  <2>5. VisibleInv'
    BY <2>3, <2>4, <1>1, <1>7 DEF VisibleInv, PresentBelow
  <2>. QED BY <2>4, <2>5, <1>1
<1>9. CASE w = n
  <2>1. w # Foreign /\ (Ramp(n) = <<>> \/ ~(w <= Ramp(n)[Len(Ramp(n))]))
    BY <1>9, <1>1, <1>5 DEF Foreign
  <2>2. Keep(Ramp(n), w) = Ramp(n + 1)
    BY <2>1, <1>9, <1>5 DEF Keep
  <2>3. \A j \in DOMAIN log' : log'[j] < n + 1
    BY <1>1, <1>3, <1>9, <1>2 DEF SeqNums, Foreign
  <2>4. Len(Visible') = n + 1 /\ Visible' = Ramp(n + 1)
    BY <2>2, <1>4, <1>5
  <2>5. Holds(log', n + 1)
    BY <1>1, <1>2, <1>9, HoldsNext
  <2>6. VisibleInv'
    BY <2>3, <2>4, <2>5, <1>1 DEF VisibleInv, PresentBelow
  <2>7. Visible' = Append(Visible, n)
    BY <2>4, <1>5, <1>1
  <2>. QED BY <2>6, <2>7, <1>9 DEF n
<1>. QED BY <1>6, <1>8, <1>9, <1>1, <1>2

-----------------------------------------------------------------------------

LEMMA NumbersGrow ==
  ASSUME TypeOK, [Next]_vars
  PROVE  nextSeq \in Nat /\ nextSeq' \in Nat /\ nextSeq' >= nextSeq
<1>1. nextSeq \in Nat
  BY Bounds DEF TypeOK, ActorTypeOK, SeqNums
<1>2. CASE AdmitSubmission
  <2>1. PICK c \in Commands : c = Head(cmds) /\ c.kind = "submit"
    BY <1>2, CommandFacts DEF AdmitSubmission, DrainTurn
  <2>2. c.len \in Nat
    BY <2>1, SubmitFacts
  <2>3. nextSeq' = nextSeq + c.len
    BY <1>2, <2>1 DEF AdmitSubmission
  <2>. QED BY <1>1, <2>2, <2>3
<1>3. CASE ~AdmitSubmission
  <2>1. nextSeq' = nextSeq
    BY <1>3 DEF Next, Caller, SubmitCheck, SubmitSend, CloseMark, CloseSend, CloseJoin, Abort,
      RunWriter, AdmitClose, DrainEmpty, SequenceExhausted, FeedFrame, SendDone, RecvAck,
      RecvInvalidAck, Reconnect, CloseDone, Shutdown, DropReceiver, Cancelled, CommandsClosed,
      Environment, ConnectionFails, AckDeadline, FatalError, ReconnectFails, StoreRecord, SendAck,
      ForeignAppend, GoSilent, Finished, vars, actorVars
  <2>. QED BY <1>1, <2>1
<1>. QED BY <1>2, <1>3

FramesNumbered == \A e \in DOMAIN wires : \A i \in DOMAIN wires[e] : wires[e][i].hi <= nextSeq

LEMMA FramesNumberedStep ==
  ASSUME WriterInv, FramesNumbered, [Next]_vars
  PROVE  FramesNumbered'
<1>. USE DEF WriterInv
<1>1. /\ wires \in Seq(Seq(Frames)) /\ DOMAIN wires = 1..Len(wires) /\ Len(wires) \in Nat \ {0}
      /\ \A e \in DOMAIN wires : wires[e] \in Seq(Frames)
  BY SeqFacts DEF TypeOK, NetTypeOK
<1>2. nextSeq \in Nat /\ nextSeq' >= nextSeq /\ nextSeq' \in Nat
  BY NumbersGrow
<1>3. \A e \in DOMAIN wires : \A i \in DOMAIN wires[e] : wires[e][i].hi \in Nat
  <2>1. SUFFICES ASSUME NEW e \in DOMAIN wires, NEW i \in DOMAIN wires[e]
                 PROVE  wires[e][i].hi \in Nat
    OBVIOUS
  <2>2. wires[e][i] \in Frames
    BY <1>1, SeqFacts
  <2>. QED BY <2>2, Bounds DEF Frames, SeqNums
<1>4. CASE wires' = wires
  BY <1>2, <1>3, <1>4 DEF FramesNumbered
<1>5. CASE FeedFrame
  <2>1. PICK lo \in 0..nextSeq, hi \in 0..nextSeq :
          wires' = [wires EXCEPT ![Current] = Append(@, [lo |-> lo, hi |-> hi])]
    BY <1>5 DEF FeedFrame
  <2>2. /\ DOMAIN wires' = DOMAIN wires
        /\ \A e \in DOMAIN wires : wires'[e] = IF e = Current
                 THEN Append(wires[e], [lo |-> lo, hi |-> hi]) ELSE wires[e]
    BY <1>1, <2>1 DEF Current
  <2>3. SUFFICES ASSUME NEW e \in DOMAIN wires, NEW i \in DOMAIN wires'[e]
                 PROVE  wires'[e][i].hi <= nextSeq
    <3>1. nextSeq' = nextSeq
      BY <1>5 DEF FeedFrame
    <3>. QED BY <3>1, <2>2 DEF FramesNumbered
  <2>4. CASE e # Current
    <3>1. wires'[e] = wires[e]
      BY <2>2, <2>4
    <3>. QED BY <3>1 DEF FramesNumbered
  <2>5. CASE e = Current
    <3>. DEFINE W == wires[e]
                f == [lo |-> lo, hi |-> hi]
    <3>1. wires'[e] = Append(W, f) /\ W \in Seq(Frames) /\ f.hi = hi
      BY <2>2, <2>5, <1>1
    <3>2. \A k \in DOMAIN W : W[k].hi <= nextSeq
      BY DEF FramesNumbered
    <3>. HIDE DEF W, f
    <3>3. i \in 1..(Len(W) + 1) /\ Len(W) \in Nat /\ DOMAIN W = 1..Len(W)
          /\ wires'[e][i] = IF i = Len(W) + 1 THEN f ELSE W[i]
      BY <3>1
    <3>4. CASE i = Len(W) + 1
      BY <3>3, <3>4, <3>1
    <3>5. CASE i # Len(W) + 1
      BY <3>3, <3>5, <3>2
    <3>. QED BY <3>4, <3>5
  <2>. QED BY <2>4, <2>5
<1>6. CASE Reconnect
  <2>1. /\ wires' = Append(wires, <<>>)
    BY <1>6 DEF Reconnect
  <2>2. /\ DOMAIN wires' = 1..(Len(wires) + 1) /\ wires'[Len(wires) + 1] = <<>>
        /\ \A e \in DOMAIN wires : wires'[e] = wires[e]
    BY <1>1, <2>1
  <2>3. nextSeq' = nextSeq
    BY <1>6 DEF Reconnect
  <2>4. SUFFICES ASSUME NEW e \in DOMAIN wires', NEW i \in DOMAIN wires'[e]
                 PROVE  wires'[e][i].hi <= nextSeq
    BY <2>3 DEF FramesNumbered
  <2>5. CASE e \in DOMAIN wires
    <3>1. wires'[e] = wires[e]
      BY <2>2, <2>5
    <3>. QED BY <3>1, <2>5 DEF FramesNumbered
  <2>6. CASE e \notin DOMAIN wires
    <3>1. wires'[e] = <<>>
      BY <2>2, <2>6, <1>1
    <3>. QED BY <3>1
  <2>. QED BY <2>5, <2>6
<1>7. ASSUME NEW e \in DOMAIN wires, StoreRecord(e) PROVE FramesNumbered'
  <2>. DEFINE W == wires[e]
  <2>1. /\ W # <<>> /\ W \in Seq(Frames) /\ nextSeq' = nextSeq
        /\ wires' = [wires EXCEPT ![e] = IF Head(W).lo + 1 = Head(W).hi THEN Tail(W)
                                         ELSE <<[Head(W) EXCEPT !.lo = @ + 1]>> \o Tail(W)]
    BY <1>1, <1>7 DEF StoreRecord, actorVars
  <2>2. /\ DOMAIN wires' = DOMAIN wires
        /\ \A d \in DOMAIN wires : wires'[d] = IF d = e
             THEN (IF Head(W).lo + 1 = Head(W).hi THEN Tail(W)
                                         ELSE <<[Head(W) EXCEPT !.lo = @ + 1]>> \o Tail(W))
             ELSE wires[d]
    BY <1>1, <2>1
  <2>3. \A i \in DOMAIN Tail(W) : Tail(W)[i] = W[i + 1] /\ i + 1 \in DOMAIN W
    BY <2>1, TailFacts
  <2>4. Tail(W) \in Seq(Frames) /\ Head(W) = W[1] /\ 1 \in DOMAIN W /\ Head(W) \in Frames
    BY <2>1, TailFacts
  <2>5. \A i \in DOMAIN wires'[e] : wires'[e][i].hi <= nextSeq
    <3>1. CASE wires'[e] = Tail(W)
      BY <3>1, <2>3 DEF FramesNumbered
    <3>2. CASE wires'[e] = <<[Head(W) EXCEPT !.lo = @ + 1]>> \o Tail(W)
      <4>. DEFINE g == [Head(W) EXCEPT !.lo = @ + 1]
      <4>1. g.hi = Head(W).hi
        BY <2>4 DEF Frames
      <4>. HIDE DEF g
      <4>2. /\ DOMAIN wires'[e] = 1..(1 + Len(Tail(W))) /\ wires'[e][1] = g
            /\ \A i \in 2..(1 + Len(Tail(W))) : wires'[e][i] = Tail(W)[i - 1] /\ i - 1 \in DOMAIN Tail(W)
        BY <3>2, <2>4 DEF g
      <4>3. g.hi <= nextSeq
        BY <4>1, <2>4 DEF FramesNumbered
      <4>4. \A i \in 2..(1 + Len(Tail(W))) : wires'[e][i].hi <= nextSeq
        BY <4>2, <2>3 DEF FramesNumbered
      <4>5. Len(Tail(W)) \in Nat
        BY <2>4
      <4>. QED BY <4>2, <4>3, <4>4, <4>5
    <3>. QED BY <3>1, <3>2, <2>2
  <2>. QED BY <2>1, <2>2, <2>5 DEF FramesNumbered
<1>8. \/ wires' = wires \/ FeedFrame \/ Reconnect \/ \E e \in DOMAIN wires : StoreRecord(e)
  BY DEF Next, Caller, SubmitCheck, SubmitSend, CloseMark, CloseSend, CloseJoin, Abort,
      RunWriter, AdmitSubmission, AdmitClose, DrainEmpty, SequenceExhausted, SendDone, RecvAck,
      RecvInvalidAck, CloseDone, Shutdown, DropReceiver, Cancelled, CommandsClosed,
      Environment, ConnectionFails, AckDeadline, FatalError, ReconnectFails, SendAck,
      ForeignAppend, GoSilent, Finished, vars, netVars
<1>. QED BY <1>4, <1>5, <1>6, <1>7, <1>8

LEMMA NumberedStep ==
  ASSUME WriterInv, NumberedInv, [Next]_vars
  PROVE  NumberedInv'
<1>1. FramesNumbered'
  BY FramesNumberedStep DEF NumberedInv, FramesNumbered
<1>2. ~rxOpen' => pc' = "done"
  <2>1. CASE rxOpen' = rxOpen
    <3>1. pc = "done" => pc' = pc
      BY DEF Next, Caller, SubmitCheck, SubmitSend, CloseMark, CloseSend, CloseJoin, Abort,
        RunWriter, AdmitSubmission, AdmitClose, DrainEmpty, SequenceExhausted, FeedFrame, SendDone,
        RecvAck, RecvInvalidAck, Reconnect, CloseDone, Shutdown, DropReceiver, Cancelled,
        CommandsClosed, Environment, ConnectionFails, AckDeadline, FatalError, ReconnectFails,
        StoreRecord, SendAck, ForeignAppend, GoSilent, Finished, vars, actorVars,
        DrainTurn, AwaitsAck, Alive, Settled
    <3>. QED BY <2>1, <3>1 DEF NumberedInv
  <2>2. CASE rxOpen' # rxOpen
    <3>1. DropReceiver
      BY <2>2 DEF Next, Caller, SubmitCheck, SubmitSend, CloseMark, CloseSend, CloseJoin, Abort,
        RunWriter, AdmitSubmission, AdmitClose, DrainEmpty, SequenceExhausted, FeedFrame, SendDone,
        RecvAck, RecvInvalidAck, Reconnect, CloseDone, Shutdown, Cancelled,
        CommandsClosed, Environment, ConnectionFails, AckDeadline, FatalError, ReconnectFails,
        StoreRecord, SendAck, ForeignAppend, GoSilent, Finished, vars, sharedVars
    <3>. QED BY <3>1 DEF DropReceiver
  <2>. QED BY <2>1, <2>2
<1>3. Alive' => closeResult' = "none"
  <2>1. SUFFICES ASSUME Alive' PROVE closeResult' = "none"
    OBVIOUS
  <2>2. Alive /\ ~EndStep /\ ~CloseDone /\ ~Shutdown /\ ~DropReceiver
    BY <2>1, NoRevival DEF WriterInv
  <2>3. closeResult = "none" /\ rxOpen
    BY <2>2 DEF NumberedInv, Alive, Settled
  <2>4. closeResult' = closeResult
    BY <2>2, <2>3 DEF Next, Caller, SubmitCheck, SubmitSend, CloseMark, CloseSend, CloseJoin, Abort,
        RunWriter, AdmitSubmission, AdmitClose, DrainEmpty, FeedFrame, SendDone,
        RecvAck, Reconnect, EndStep,
        Environment, ConnectionFails, AckDeadline, ReconnectFails,
        StoreRecord, SendAck, ForeignAppend, GoSilent, Finished, vars, callerVars, Alive, Settled
  <2>. QED BY <2>3, <2>4
<1>. QED BY <1>1, <1>2, <1>3 DEF NumberedInv, FramesNumbered

\* What the service stores next.
LEMMA NextStored ==
  ASSUME WriterInv, NumberedInv, NEW e \in DOMAIN wires, StoreRecord(e)
  PROVE  \E w \in SeqNums : log' = Append(log, w) /\ w < nextSeq /\ PresentBelow(w)
<1>1. /\ wires[e] # <<>> /\ log' = Append(log, Head(wires[e]).lo)
  BY DEF StoreRecord
<1>2. wires[e] \in Seq(Frames)
  BY SeqFacts DEF WriterInv, TypeOK, NetTypeOK
<1>3. Head(wires[e]) = wires[e][1] /\ 1 \in DOMAIN wires[e] /\ wires[e][1] \in Frames
  BY <1>1, <1>2
<1>4. /\ wires[e][1].lo < wires[e][1].hi /\ PresentBelow(wires[e][1].lo)
      /\ wires[e][1].hi <= nextSeq
  BY <1>1, <1>3 DEF WriterInv, WireInv, NumberedInv
<1>5. /\ wires[e][1].lo \in SeqNums /\ wires[e][1].lo \in Nat /\ wires[e][1].hi \in Nat /\ nextSeq \in Nat
  BY <1>3, Bounds DEF Frames, SeqNums, WriterInv, TypeOK, ActorTypeOK
<1>. QED BY <1>1, <1>3, <1>4, <1>5

LEMMA LogMoves ==
  ASSUME [Next]_vars
  PROVE  log' = log \/ ForeignAppend \/ \E e \in DOMAIN wires : StoreRecord(e)
BY DEF Next, Caller, SubmitCheck, SubmitSend, CloseMark, CloseSend, CloseJoin, Abort,
  RunWriter, AdmitSubmission, AdmitClose, DrainEmpty, SequenceExhausted, FeedFrame, SendDone,
  RecvAck, RecvInvalidAck, Reconnect, CloseDone, Shutdown, DropReceiver, Cancelled, CommandsClosed,
  Environment, ConnectionFails, AckDeadline, FatalError, ReconnectFails, SendAck,
  GoSilent, Finished, vars, netVars

LEMMA VisibleStep ==
  ASSUME WriterInv, MappingInv, [Next]_vars
  PROVE  /\ VisibleInv'
         /\ \/ Visible' = Visible
            \/ /\ \E e \in DOMAIN wires : StoreRecord(e)
               /\ Len(Visible) < nextSeq /\ Visible' = Append(Visible, Len(Visible))
<1>1. CASE log' = log
  BY <1>1 DEF MappingInv, VisibleInv, Visible, PresentBelow, Holds
<1>2. CASE ForeignAppend
  <2>1. log' = Append(log, Foreign) /\ Foreign \in SeqNums \cup {Foreign} /\ ~(Foreign > 0)
    BY <1>2 DEF ForeignAppend, Foreign
  <2>2. Len(Visible) \in Nat
    BY DEF MappingInv, VisibleInv
  <2>3. Foreign # Len(Visible)
    BY <2>2 DEF Foreign
  <2>4. VisibleInv' /\ Visible' = Visible
    BY <2>1, <2>3, VisibleMore DEF WriterInv, MappingInv
  <2>. QED BY <2>4
<1>3. ASSUME NEW e \in DOMAIN wires, StoreRecord(e)
      PROVE  /\ VisibleInv'
             /\ \/ Visible' = Visible
                \/ Len(Visible) < nextSeq /\ Visible' = Append(Visible, Len(Visible))
  <2>1. PICK w \in SeqNums : log' = Append(log, w) /\ w < nextSeq /\ PresentBelow(w)
    BY <1>3, NextStored DEF MappingInv
  <2>2. /\ VisibleInv'
        /\ \/ Visible' = Visible
           \/ w = Len(Visible) /\ Visible' = Append(Visible, Len(Visible))
    BY <2>1, VisibleMore DEF WriterInv, MappingInv
  <2>. QED BY <2>1, <2>2
<1>. QED BY <1>1, <1>2, <1>3, LogMoves

LEMMA MappingInit == Init => MappingInv
<1>. SUFFICES ASSUME Init PROVE MappingInv
  OBVIOUS
<1>1. log = <<>> /\ Visible = <<>> /\ Len(Visible) = 0 /\ DOMAIN log = {}
  BY DeduplicatedEmpty DEF Init, Visible
<1>2. Ramp(0) = <<>>
  <2>1. Len(Ramp(0)) = 0 /\ Ramp(0) \in Seq(Nat)
    BY RampFacts
  <2>. QED BY <2>1
<1>3. VisibleInv
  BY <1>1, <1>2 DEF VisibleInv, PresentBelow, Holds
<1>4. NumberedInv
  BY DEF Init, NumberedInv
<1>. QED BY <1>3, <1>4 DEF MappingInv

-----------------------------------------------------------------------------
(* Every step is a step of ReliableAppend, or leaves its state alone.      *)

\* The steps that answer tickets with an error, or drop them.
TicketsFail(ids) ==
  /\ \A id \in ids : /\ ticket[id].st = "waiting" /\ ticket'[id].st \in {"error", "dropped"}
                     /\ ticket'[id].start = ticket[id].start /\ ticket'[id].len = ticket[id].len
  /\ \A id \in Submissions \ ids : ticket'[id] = ticket[id]

LEMMA FailedAll ==
  ASSUME TypeOK, NEW lost \in SUBSET Submissions, PendingIds \subseteq Submissions,
         \A id \in PendingIds \cup lost : ticket[id].st = "waiting",
         ticket' = FailedTickets(lost)
  PROVE  TicketsFail(PendingIds \cup lost)
<1>1. ASSUME NEW id \in PendingIds \cup lost
      PROVE  /\ ticket'[id].st \in {"error", "dropped"}
             /\ ticket'[id].start = ticket[id].start /\ ticket'[id].len = ticket[id].len
  <2>1. id \in Submissions /\ ticket[id] \in Tickets
    BY TicketFacts
  <2>2. ticket'[id] = [ticket[id] EXCEPT !.st = "error"] \/ ticket'[id] = [ticket[id] EXCEPT !.st = "dropped"]
    BY <2>1 DEF FailedTickets
  <2>. QED BY <2>1, <2>2 DEF Tickets
<1>2. \A id \in Submissions \ (PendingIds \cup lost) : ticket'[id] = ticket[id]
  BY DEF FailedTickets
<1>. QED BY <1>1, <1>2 DEF TicketsFail

LEMMA ResolvedAll ==
  ASSUME TypeOK, NEW ids \in SUBSET Submissions,
         \A id \in ids : ticket[id].st = "waiting",
         ticket' = Resolve(ids, "dropped")
  PROVE  TicketsFail(ids)
<1>1. ASSUME NEW id \in ids
      PROVE  /\ ticket'[id].st \in {"error", "dropped"}
             /\ ticket'[id].start = ticket[id].start /\ ticket'[id].len = ticket[id].len
  <2>1. id \in Submissions /\ ticket[id] \in Tickets
    BY TicketFacts
  <2>2. ticket'[id] = [ticket[id] EXCEPT !.st = "dropped"]
    BY <2>1 DEF Resolve
  <2>. QED BY <2>1, <2>2 DEF Tickets
<1>2. \A id \in Submissions \ ids : ticket'[id] = ticket[id]
  BY DEF Resolve
<1>. QED BY <1>1, <1>2 DEF TicketsFail

\* Whoever is queued or pending waits for an answer.
LEMMA WaitingIds ==
  ASSUME TypeOK, MatchInv
  PROVE  /\ PendingIds \subseteq Submissions /\ \A id \in PendingIds : ticket[id].st = "waiting"
         /\ QueuedIds \subseteq Submissions /\ \A id \in QueuedIds : ticket[id].st = "waiting"
<1>1. \A i \in DOMAIN pending : pending[i].id \in Submissions /\ ticket[pending[i].id].st = "waiting"
  <2>1. SUFFICES ASSUME NEW i \in DOMAIN pending
                 PROVE  pending[i].id \in Submissions /\ ticket[pending[i].id].st = "waiting"
    OBVIOUS
  <2>2. pending[i] \in PendingSubmissions
    BY PendingFacts DEF TypeOK
  <2>. QED BY <2>2 DEF PendingSubmissions, MatchInv, PendingMatch
<1>2. \A i \in Queued : cmds[i].id \in Submissions /\ ticket[cmds[i].id].st = "waiting"
  <2>1. SUFFICES ASSUME NEW i \in Queued
                 PROVE  cmds[i].id \in Submissions /\ ticket[cmds[i].id].st = "waiting"
    OBVIOUS
  <2>2. cmds[i] \in Commands /\ cmds[i].kind = "submit"
    BY SeqFacts DEF Queued, TypeOK, ChannelTypeOK
  <2>. QED BY <2>2, SubmitFacts DEF MatchInv, QueuedMatch
<1>. QED BY <1>1, <1>2 DEF PendingIds, QueuedIds, Queued

LEMMA EndTickets ==
  ASSUME WriterInv, MatchInv, EndStep \/ DropReceiver
  PROVE  \E ids \in SUBSET Submissions : TicketsFail(ids)
<1>1. TypeOK
  BY DEF WriterInv
<1>2. /\ PendingIds \subseteq Submissions /\ \A id \in PendingIds : ticket[id].st = "waiting"
      /\ QueuedIds \subseteq Submissions /\ \A id \in QueuedIds : ticket[id].st = "waiting"
  BY <1>1, WaitingIds
<1>3. ASSUME NEW lost \in SUBSET Submissions, \A id \in lost : ticket[id].st = "waiting",
             ticket' = FailedTickets(lost)
      PROVE  \E ids \in SUBSET Submissions : TicketsFail(ids)
  BY <1>1, <1>2, <1>3, FailedAll
<1>4. CASE ticket' = FailedTickets({})
  BY <1>3, <1>4
<1>5. CASE ticket' = Resolve(PendingIds, "dropped")
  BY <1>1, <1>2, <1>5, ResolvedAll
<1>6. CASE SequenceExhausted
  <2>1. PICK c \in Commands : c = Head(cmds) /\ cmds # <<>> /\ c.kind = "submit"
    BY <1>1, <1>6, CommandFacts DEF SequenceExhausted, DrainTurn
  <2>2. c.id \in Submissions /\ ticket' = FailedTickets({c.id})
    BY <1>6, <2>1, SubmitFacts DEF SequenceExhausted, FinishWriterError
  <2>3. c = cmds[1] /\ 1 \in DOMAIN cmds
    BY <1>1, <2>1, CommandFacts
  <2>4. c.id \in QueuedIds
    BY <2>1, <2>3 DEF QueuedIds
  <2>. QED BY <1>2, <1>3, <2>2, <2>4
<1>7. CASE DropReceiver
  <2>1. ticket' = Resolve(QueuedIds, "dropped")
    BY <1>7 DEF DropReceiver
  <2>. QED BY <1>1, <1>2, <2>1, ResolvedAll
<1>. QED BY <1>4, <1>5, <1>6, <1>7
     DEF EndStep, FatalError, RecvInvalidAck, Cancelled, CommandsClosed, FinishWriterError

\* A step that only fails tickets is one of ReliableAppend.
LEMMA FailImplements ==
  ASSUME NEW ids \in SUBSET Submissions, TicketsFail(ids),
         nextSeq' = nextSeq, log' = log, closeResult' \in {closeResult, "error"},
         closeResult = "ok" => ids = {} /\ closeResult' = closeResult
  PROVE  Abstract!Next
<1>1. Spans' = Spans
  BY DEF Spans, TicketsFail
<1>2. Outcomes' = [id \in Submissions |-> IF id \in ids THEN "failed" ELSE Outcomes[id]]
  <2>1. ASSUME NEW id \in Submissions
        PROVE  OutcomeOf(ticket'[id]) = IF id \in ids THEN "failed" ELSE Outcomes[id]
    BY DEF TicketsFail, OutcomeOf, Outcomes
  <2>. QED BY <2>1 DEF Outcomes
<1>3. \A id \in ids : Outcomes[id] = "waiting"
  BY DEF TicketsFail, OutcomeOf, Outcomes
<1>4. Visible' = Visible
  BY DEF Visible
<1>5. Abstract!Fail(ids)
  BY <1>1, <1>2, <1>3, <1>4 DEF Abstract!Fail
<1>. QED BY <1>5 DEF Abstract!Next

LEMMA EndImplements ==
  ASSUME WriterInv, ReceiptInv, EndStep \/ DropReceiver
  PROVE  Abstract!Next
<1>1. PICK ids \in SUBSET Submissions : TicketsFail(ids)
  BY EndTickets DEF ReceiptInv
<1>2. nextSeq' = nextSeq /\ log' = log
  BY DEF EndStep, FatalError, RecvInvalidAck, SequenceExhausted, Cancelled, CommandsClosed,
         DropReceiver, netVars
<1>3. closeResult' \in {closeResult, "error"}
  BY DEF EndStep, FatalError, RecvInvalidAck, SequenceExhausted, Cancelled, CommandsClosed,
         FinishWriterError, DropReceiver, callerVars
<1>4. closeResult = "ok" => ids = {} /\ closeResult' = closeResult
  <2>1. SUFFICES ASSUME closeResult = "ok" PROVE ids = {} /\ closeResult' = closeResult
    OBVIOUS
  <2>2. ~Alive /\ \A id \in Submissions : ticket[id].st \in {"none", "ok"}
    BY <2>1 DEF ReceiptInv, CloseInv
  <2>3. DropReceiver
    BY <2>2 DEF EndStep, FatalError, RecvInvalidAck, SequenceExhausted, Cancelled, CommandsClosed,
         DrainTurn, AwaitsAck, Alive, Settled
  <2>. QED BY <1>1, <2>2, <2>3 DEF TicketsFail, DropReceiver, callerVars
<1>. QED BY <1>1, <1>2, <1>3, <1>4, FailImplements

\* A step that leaves the stream, the tickets, the cursor and the result alone.
LEMMA StutterImplements ==
  ASSUME UNCHANGED <<log, ticket, nextSeq, closeResult>>
  PROVE  UNCHANGED Abstract!vars
BY DEF Abstract!vars, Visible, Spans, Outcomes

\* The controller learns how the writer ended.
LEMMA CloseImplements ==
  ASSUME WriterInv, ReceiptInv, CloseSend \/ CloseJoin
  PROVE  Abstract!Next
<1>1. UNCHANGED <<log, ticket, nextSeq>>
  BY DEF CloseSend, CloseJoin, sharedVars, actorVars, netVars
<1>2. closeResult' \in {closeResult, "error"}
  BY DEF CloseSend, CloseJoin
<1>3. closeResult = "ok" => closeResult' = closeResult
  <2>1. CASE CloseSend
    <3>1. controller = "marked"
      BY <2>1 DEF CloseSend
    <3>. QED BY <3>1 DEF ReceiptInv, CloseInv, CloseSent
  <2>2. CASE CloseJoin
    BY <2>2 DEF CloseJoin
  <2>. QED BY <2>1, <2>2
<1>4. TicketsFail({})
  BY <1>1 DEF TicketsFail
<1>. QED BY <1>1, <1>2, <1>3, <1>4, FailImplements

\* close_tx is answered when nothing is pending and nothing is queued.
LEMMA CloseDoneImplements ==
  ASSUME WriterInv, ReceiptInv, MappingInv, CloseDone
  PROVE  Abstract!Next
<1>1. /\ Alive /\ closing /\ pending = <<>> /\ closeResult' = "ok"
      /\ UNCHANGED <<log, ticket, nextSeq>>
  BY DEF CloseDone, sharedVars, netVars, Alive, Settled
<1>2. closeResult = "none"
  BY <1>1 DEF MappingInv, NumberedInv
<1>3. cmds = <<>> /\ TicketsOpen
  BY <1>1 DEF ReceiptInv, CloseInv
<1>4. PendingIds = {} /\ QueuedIds = {}
  BY <1>1, <1>3 DEF PendingIds, QueuedIds
<1>5. \A id \in Submissions : Outcomes[id] \in {"none", "ok"}
  BY <1>3, <1>4 DEF TicketsOpen, Outcomes, OutcomeOf
<1>6. Abstract!CloseOk
  BY <1>1, <1>2, <1>5 DEF Abstract!CloseOk, Visible, Spans, Outcomes
<1>. QED BY <1>6 DEF Abstract!Next

\* A producer gets a ticket.
LEMMA SubmitImplements ==
  ASSUME TypeOK, NEW p \in Producers, SubmitSend(p), ticket' # ticket
  PROVE  Abstract!Next
<1>1. PICK id \in Submissions, len \in BatchLens :
        /\ ticket[id].st = "none"
        /\ ticket' = [ticket EXCEPT ![id].st = "waiting", ![id].len = len]
  BY DEF SubmitSend
<1>2. /\ ticket'[id].st = "waiting" /\ ticket'[id].len = len /\ ticket'[id].start = ticket[id].start
      /\ \A other \in Submissions : other # id => ticket'[other] = ticket[other]
  BY <1>1, TicketFacts DEF TypeOK, ChannelTypeOK, Tickets
<1>3. UNCHANGED <<log, nextSeq, closeResult>>
  BY DEF SubmitSend, actorVars, netVars
<1>4. Outcomes[id] = "none"
  BY <1>1 DEF Outcomes, OutcomeOf
<1>5. Outcomes' = [Outcomes EXCEPT ![id] = "waiting"]
  BY <1>2 DEF Outcomes, OutcomeOf
<1>6. Spans' = [Spans EXCEPT ![id].len = len]
  BY <1>2 DEF Spans
<1>7. Abstract!Accept(id, len)
  BY <1>3, <1>4, <1>5, <1>6 DEF Abstract!Accept, Visible
<1>. QED BY <1>7 DEF Abstract!Next

\* WriterCursor::reserve.
LEMMA AdmitImplements ==
  ASSUME WriterInv, ReceiptInv, AdmitSubmission
  PROVE  Abstract!Next
<1>1. PICK c \in Commands : c = Head(cmds) /\ cmds # <<>> /\ c.kind = "submit"
  BY CommandFacts DEF WriterInv, AdmitSubmission, DrainTurn
<1>2. c.id \in Submissions /\ c.len \in Nat
  BY <1>1, SubmitFacts
<1>3. /\ ticket' = [ticket EXCEPT ![c.id].start = nextSeq] /\ nextSeq' = nextSeq + c.len
      /\ UNCHANGED <<log, closeResult>>
  BY <1>1 DEF AdmitSubmission, netVars, callerVars
<1>4. 1 \in Queued /\ cmds[1] = c
  BY <1>1, CommandFacts DEF WriterInv, Queued
<1>5. ticket[c.id].st = "waiting" /\ ticket[c.id].len = c.len
  BY <1>4 DEF ReceiptInv, MatchInv, QueuedMatch
<1>6. /\ ticket'[c.id].start = nextSeq
      /\ ticket'[c.id].st = ticket[c.id].st /\ ticket'[c.id].len = ticket[c.id].len
      /\ \A other \in Submissions : other # c.id => ticket'[other] = ticket[other]
  BY <1>2, <1>3, TicketFacts DEF WriterInv, TypeOK, ChannelTypeOK, Tickets
<1>7. Outcomes[c.id] = "waiting" /\ Spans[c.id].len = c.len
  BY <1>2, <1>5 DEF Outcomes, OutcomeOf, Spans
<1>8. Outcomes' = Outcomes
  BY <1>6 DEF Outcomes, OutcomeOf
<1>9. Spans' = [Spans EXCEPT ![c.id].start = nextSeq]
  BY <1>6 DEF Spans
<1>10. Abstract!Number(c.id)
  BY <1>3, <1>7, <1>8, <1>9 DEF Abstract!Number, Visible
<1>. QED BY <1>2, <1>10 DEF Abstract!Next

\* The stream grows: by the next number, by a copy, or by another's record.
LEMMA StreamImplements ==
  ASSUME WriterInv, MappingInv,
         ForeignAppend \/ \E e \in DOMAIN wires : StoreRecord(e)
  PROVE  [Abstract!Next]_Abstract!vars
<1>1. UNCHANGED <<ticket, nextSeq, closeResult>>
  BY DEF ForeignAppend, StoreRecord, sharedVars, actorVars, callerVars
<1>2. [Next]_vars
  BY DEF Next, Environment
<1>3. \/ Visible' = Visible
      \/ Len(Visible) < nextSeq /\ Visible' = Append(Visible, Len(Visible))
  BY <1>2, VisibleStep
<1>4. Spans' = Spans /\ Outcomes' = Outcomes
  BY <1>1 DEF Spans, Outcomes
<1>. QED BY <1>1, <1>3, <1>4 DEF Abstract!Next, Abstract!Show, Abstract!vars

\* What was acknowledged is visible.
LEMMA PresentIsVisible ==
  ASSUME VisibleInv, NEW n \in Nat, PresentBelow(n)
  PROVE  n <= Len(Visible)
<1>1. Len(Visible) \in Nat /\ \A j \in DOMAIN log : log[j] < Len(Visible)
  BY DEF VisibleInv
<1>. SUFFICES ASSUME n > Len(Visible) PROVE FALSE
  BY <1>1
<1>2. Len(Visible) \in 0..(n - 1)
  BY <1>1
<1>3. PICK j \in DOMAIN log : log[j] = Len(Visible)
  BY <1>2 DEF PresentBelow, Holds
<1>. QED BY <1>1, <1>3

\* dispatch_ack answers the tickets whose whole batch the range covers.
LEMMA RecvAckImplements ==
  ASSUME WriterInv, ReceiptInv, MappingInv, RecvAck
  PROVE  Abstract!Next
<1>1. PICK a \in AckRanges, done \in 0..Len(pending) : FrontCompleted(a, done)
  BY AckStep
<1>. DEFINE ids == {pending[i].id : i \in 1..done}
<1>2. /\ a = acks[1] /\ 1 \in DOMAIN acks
      /\ \A i \in 1..done : i \in DOMAIN pending /\ End(pending[i]) <= a.we
  BY <1>1 DEF FrontCompleted
<1>3. a.we \in Nat /\ a.we <= Len(Visible)
  <2>1. a.we \in Nat
    BY Bounds DEF AckRanges, SeqNums
  <2>2. PresentBelow(a.we)
    BY <1>2 DEF WriterInv, StoredInv
  <2>. QED BY <2>1, <2>2, PresentIsVisible DEF MappingInv
<1>4. ASSUME NEW i \in 1..done
      PROVE  /\ pending[i].id \in Submissions /\ ticket[pending[i].id].st = "waiting"
             /\ ticket[pending[i].id].start + ticket[pending[i].id].len <= Len(Visible)
  <2>1. pending[i] \in PendingSubmissions
    BY <1>2, PendingFacts DEF WriterInv, TypeOK
  <2>2. /\ pending[i].id \in Submissions /\ ticket[pending[i].id].st = "waiting"
        /\ ticket[pending[i].id].start = pending[i].start /\ ticket[pending[i].id].len = pending[i].len
    BY <1>2, <2>1 DEF PendingSubmissions, ReceiptInv, MatchInv, PendingMatch
  <2>3. End(pending[i]) \in Nat /\ End(pending[i]) <= a.we
    BY <1>2, <2>1, Bounds DEF End, PendingSubmissions, SeqNums
  <2>4. Len(Visible) \in Nat
    BY DEF MappingInv, VisibleInv
  <2>5. End(pending[i]) <= Len(Visible)
    BY <2>3, <2>4, <1>3
  <2>. QED BY <2>2, <2>5 DEF End
<1>5. ids \subseteq Submissions
  BY <1>4
<1>6. ASSUME NEW id \in Submissions
      PROVE  /\ ticket'[id].start = ticket[id].start /\ ticket'[id].len = ticket[id].len
             /\ ticket'[id].st = IF id \in ids THEN "ok" ELSE ticket[id].st
  <2>1. CASE id \in ids
    <3>1. \E i \in 1..done : pending[i].id = id
      BY <2>1
    <3>2. PICK i \in 1..done : ticket'[id] = [ticket[id] EXCEPT
                            !.st = "ok", !.receipts = Acknowledged(pending[i], a).receipts]
      BY <1>1, <3>1 DEF FrontCompleted
    <3>3. PICK r : r = Acknowledged(pending[i], a).receipts
      OBVIOUS
    <3>4. ticket'[id] = [ticket[id] EXCEPT !.st = "ok", !.receipts = r]
      BY <3>2, <3>3
    <3>5. ticket[id] \in Tickets
      BY TicketFacts DEF WriterInv
    <3>. QED BY <2>1, <3>4, <3>5 DEF Tickets
  <2>2. CASE id \notin ids
    <3>1. ~ \E i \in 1..done : pending[i].id = id
      BY <2>2
    <3>2. ticket'[id] = ticket[id]
      BY ONLY <1>1, <3>1, id \in Submissions, Zenon DEF FrontCompleted
    <3>. QED BY ONLY <2>2, <3>2, Zenon
  <2>. QED BY <2>1, <2>2
<1>7. UNCHANGED <<log, nextSeq, closeResult>>
  BY DEF RecvAck, callerVars
<1>8. Spans' = Spans
  BY <1>6 DEF Spans
<1>9. Outcomes' = [id \in Submissions |-> IF id \in ids THEN "ok" ELSE Outcomes[id]]
  BY <1>6 DEF Outcomes, OutcomeOf
<1>10. \A id \in ids : /\ Outcomes[id] = "waiting"
                       /\ Spans[id].start + Spans[id].len <= Len(Visible)
  BY <1>4 DEF Outcomes, OutcomeOf, Spans
<1>11. Abstract!Succeed(ids)
  BY <1>7, <1>8, <1>9, <1>10 DEF Abstract!Succeed, Visible
<1>. QED BY <1>5, <1>11 DEF Abstract!Next

LEMMA StepImplements ==
  WriterInv /\ ReceiptInv /\ MappingInv /\ [Next]_vars => [Abstract!Next]_Abstract!vars
<1>. SUFFICES ASSUME WriterInv, ReceiptInv, MappingInv, [Next]_vars
              PROVE  [Abstract!Next]_Abstract!vars
  OBVIOUS
<1>1. CASE EndStep \/ DropReceiver
  BY <1>1, EndImplements
<1>2. CASE CloseSend \/ CloseJoin
  BY <1>2, CloseImplements
<1>3. CASE CloseDone
  BY <1>3, CloseDoneImplements
<1>4. ASSUME NEW p \in Producers, SubmitSend(p) PROVE [Abstract!Next]_Abstract!vars
  <2>1. CASE ticket' # ticket
    BY <1>4, <2>1, SubmitImplements DEF WriterInv
  <2>2. CASE ticket' = ticket
    BY <1>4, <2>2, StutterImplements DEF SubmitSend, actorVars, netVars
  <2>. QED BY <2>1, <2>2
<1>5. CASE AdmitSubmission
  BY <1>5, AdmitImplements
<1>6. CASE ForeignAppend \/ \E e \in DOMAIN wires : StoreRecord(e)
  BY <1>6, StreamImplements
<1>7. CASE RecvAck
  BY <1>7, RecvAckImplements
<1>8. CASE \/ (\E p \in Producers : SubmitCheck(p)) \/ CloseMark \/ Abort
           \/ Shutdown \/ AdmitClose \/ DrainEmpty \/ FeedFrame \/ SendDone \/ Reconnect
           \/ ConnectionFails \/ AckDeadline \/ ReconnectFails \/ SendAck \/ GoSilent
           \/ UNCHANGED vars
  <2>1. UNCHANGED <<log, ticket, nextSeq, closeResult>>
    BY <1>8 DEF SubmitCheck, CloseMark, Abort, Shutdown, AdmitClose, DrainEmpty, FeedFrame,
      SendDone, Reconnect, ConnectionFails, AckDeadline, ReconnectFails, SendAck, GoSilent,
      vars, sharedVars, callerVars, actorVars, netVars
  <2>. QED BY <2>1, StutterImplements
<1>. QED BY <1>1, <1>2, <1>3, <1>4, <1>5, <1>6, <1>7, <1>8, Zenon
     DEF Next, Caller, RunWriter, Environment, Finished, EndStep

LEMMA InitImplements == Init => Abstract!Init
BY DeduplicatedEmpty
   DEF Init, Abstract!Init, Abstract!NoSpan, Visible, Spans, Outcomes, OutcomeOf, NewTicket

LEMMA MappingInvariant == Spec => [](WriterInv /\ ReceiptInv /\ MappingInv)
<1>1. WriterInv /\ MappingInv /\ [Next]_vars => MappingInv'
  BY VisibleStep, NumberedStep DEF MappingInv
<1>. QED BY <1>1, MappingInit, ReceiptInvariant, PTL DEF Spec

(* Every step of the writer, of its callers, of the network and of the     *)
(* service is a step of ReliableAppend or leaves its state alone: batches  *)
(* are numbered in order, a deduplicating reader sees the numbered records *)
(* once and in order, and tickets and close succeed only for what it sees. *)
THEOREM WriterImplementsReliableAppend == Spec => ImplementsReliableAppend
<1>. QED BY InitImplements, StepImplements, MappingInvariant, PTL
     DEF Spec, ImplementsReliableAppend, Abstract!Spec

-----------------------------------------------------------------------------
(* A service that acknowledges out of turn.                                *)

\* What is stored belongs to a frame, which ends at a sequence number.
LEMMA StreamNumbered ==
  WriterInv /\ LogBounded /\ [Next]_vars => LogBounded'
<1> SUFFICES ASSUME WriterInv, LogBounded, [Next]_vars PROVE LogBounded'
  OBVIOUS
<1>1. log \in Seq(SeqNums \cup {Foreign}) /\ Foreign < MaxWriterSeq
  BY WriterAssumption DEF WriterInv, TypeOK, NetTypeOK, Foreign
<1>2. CASE log' = log
  BY <1>2 DEF LogBounded
<1>3. CASE ForeignAppend
  BY <1>1, <1>3 DEF ForeignAppend, LogBounded
<1>4. ASSUME NEW e \in DOMAIN wires, StoreRecord(e) PROVE LogBounded'
  <2>1. PICK f : f = Head(wires[e])
    OBVIOUS
  <2>2. log' = Append(log, f.lo)
    BY <1>4, <2>1 DEF StoreRecord
  <2>3. wires[e] \in Seq(Frames) /\ wires[e] # <<>>
    BY <1>4, SeqFacts DEF StoreRecord, WriterInv, TypeOK, NetTypeOK
  <2>4. f = wires[e][1] /\ 1 \in DOMAIN wires[e] /\ f \in Frames
    BY <2>1, <2>3
  <2>5. f.lo < f.hi /\ f.lo \in SeqNums /\ f.hi \in SeqNums
    BY <1>4, <2>4 DEF WriterInv, WireInv, Frames
  <2>6. f.lo < MaxWriterSeq
    BY <2>5, Bounds DEF SeqNums
  <2>. QED BY <1>1, <2>2, <2>5, <2>6 DEF LogBounded
<1>. QED BY <1>2, <1>3, <1>4, LogMoves

(* An acknowledgement out of turn covers the last records of the stream,   *)
(* so it names what is there, whatever the writer has asked for.           *)
LEMMA OutOfTurnFacts ==
  ASSUME WriterInv, MappingInv, LogBounded, OutOfTurnAck
  PROVE  \E a \in AckRanges :
           /\ acks' = <<a>> /\ PresentBelow(a.we)
           /\ \A w \in a.ws..(a.we - 1) : RecordedIn(log, [w |-> w, at |-> a.ds + (w - a.ws)])
<1>1. PICK lo \in DOMAIN log, short \in {0, 1} :
        /\ log[lo] # Foreign
        /\ \A i \in lo..Len(log) : log[i] = log[lo] + (i - lo)
        /\ acks' = << [ws |-> log[lo], we |-> log[Len(log)] + 1,
                       ds |-> lo - 1, de |-> Len(log) - short] >>
  BY DEF OutOfTurnAck
<1>2. /\ log \in Seq(SeqNums \cup {Foreign}) /\ Len(log) \in Nat /\ DOMAIN log = 1..Len(log)
      /\ lo \in Nat \ {0} /\ lo <= Len(log) /\ Len(log) \in DOMAIN log
  BY <1>1 DEF WriterInv, TypeOK, NetTypeOK
<1>3. PICK u, v : u = log[lo] /\ v = log[Len(log)]
  OBVIOUS
<1>4. u \in Nat /\ u <= MaxWriterSeq
  BY <1>1, <1>2, <1>3, Bounds DEF SeqNums
<1>5. v = u + (Len(log) - lo) /\ v \in Nat /\ v < MaxWriterSeq
  BY <1>1, <1>2, <1>3, <1>4 DEF LogBounded
<1>6. PICK a : a = [ws |-> u, we |-> v + 1, ds |-> lo - 1, de |-> Len(log) - short]
  OBVIOUS
<1>7. a \in AckRanges
  BY <1>2, <1>4, <1>5, <1>6, Bounds DEF AckRanges, SeqNums
<1>8. PresentBelow(a.we)
  <2>1. Len(Visible) \in Nat /\ v < Len(Visible) /\ PresentBelow(Len(Visible))
    BY <1>2, <1>3 DEF MappingInv, VisibleInv
  <2>2. 0..(a.we - 1) \subseteq 0..(Len(Visible) - 1)
    BY <1>5, <1>6, <2>1
  <2>. QED BY <2>1, <2>2 DEF PresentBelow, Holds
<1>9. ASSUME NEW w \in a.ws..(a.we - 1)
      PROVE  RecordedIn(log, [w |-> w, at |-> a.ds + (w - a.ws)])
  <2>1. w \in Nat /\ u <= w /\ w <= v
    BY <1>4, <1>5, <1>6
  <2>2. PICK i \in lo..Len(log) : i = lo + (w - u)
    BY <1>2, <1>4, <1>5, <2>1
  <2>3. log[i] = w /\ a.ds + (w - a.ws) = i - 1 /\ i - 1 < Len(log)
    BY <1>1, <1>2, <1>3, <1>4, <1>6, <2>1, <2>2
  <2>4. i - 1 + 1 = i
    BY <1>2, <2>2
  <2>. QED BY <2>3, <2>4 DEF RecordedIn
<1>. QED BY <1>1, <1>3, <1>6, <1>7, <1>8, <1>9

LEMMA OutOfTurnStep ==
  ASSUME WriterInv, ReceiptInv, MappingInv, LogBounded, OutOfTurnAck
  PROVE  WriterInv' /\ ReceiptInv' /\ MappingInv' /\ LogBounded'
<1>1. PICK a \in AckRanges :
        /\ acks' = <<a>> /\ PresentBelow(a.we)
        /\ \A w \in a.ws..(a.we - 1) : RecordedIn(log, [w |-> w, at |-> a.ds + (w - a.ws)])
  BY OutOfTurnFacts
<1>2. UNCHANGED <<sharedVars, callerVars, actorVars, wires, stored, silent, log>>
  BY DEF OutOfTurnAck
<1>3. /\ UNCHANGED <<state, terminalError, cmds, rxOpen, ticket, producer, controller,
                    closeResult, pc, pending, closing, nextSeq, inFlight, drained, attempts,
                    wires, stored, silent, log>>
      /\ Alive' = Alive
  BY <1>2 DEF sharedVars, callerVars, actorVars, Alive, Settled
<1>4. acks' \in Seq(AckRanges) /\ DOMAIN acks' = {1} /\ acks'[1] = a
  BY <1>1
<1>5. TypeOK'
  <2>1. NetTypeOK'
    BY <1>3, <1>4 DEF WriterInv, TypeOK, NetTypeOK, AckRanges
  <2>2. CallerTypeOK' /\ ChannelTypeOK' /\ ActorTypeOK' /\ PendingTypeOK'
    BY <1>3 DEF WriterInv, TypeOK, CallerTypeOK, ChannelTypeOK, ActorTypeOK, PendingTypeOK, Settled
  <2>. QED BY <2>1, <2>2 DEF TypeOK
<1>6. (Alive' => QueueInv') /\ (~Alive' => pending' = <<>>) /\ DeadlineInv' /\ WireInv' /\ NoGap'
  BY <1>3 DEF WriterInv, QueueInv, DeadlineInv, WireInv, NoGap, AckPoint, SentPoint, PrefixBelow,
              End, Unacked, Bytes, PresentBelow
<1>7. StoredInv'
  BY <1>1, <1>3, <1>4 DEF WriterInv, StoredInv, PresentBelow, Current
<1>8. CurrentInv'
  BY <1>3 DEF WriterInv, CurrentInv, AckPoint, SentPoint, Unacked, PresentBelow, Current
<1>9. WriterInv'
  BY <1>5, <1>6, <1>7, <1>8 DEF WriterInv
<1>10. DurableInv'
  BY <1>1, <1>3, <1>4 DEF ReceiptInv, DurableInv, ReceiptsDurable
<1>11. MatchInv' /\ CoveredInv' /\ CloseInv'
  BY <1>3 DEF ReceiptInv, MatchInv, PendingMatch, QueuedMatch, DistinctIds, Queued,
              ReceiptsMatchBatch, CoveredInv, AckPoint, CloseInv, NoMoreSubmits, WriteLockFree,
              CloseSent, TicketsOpen, PendingIds, QueuedIds, End, Unacked
<1>12. MappingInv' /\ LogBounded'
  BY <1>3 DEF MappingInv, VisibleInv, NumberedInv, Visible, PresentBelow, LogBounded
<1>. QED BY <1>9, <1>10, <1>11, <1>12 DEF ReceiptInv

FaultyInv == WriterInv /\ ReceiptInv /\ MappingInv /\ LogBounded

LEMMA FaultyInvariant == FaultySpec => []FaultyInv
<1>1. Init => FaultyInv
  BY InitInv, DurableInit, MatchInit, CoveredInit, CloseInit, MappingInit
     DEF FaultyInv, ReceiptInv, Init, LogBounded
<1>2. FaultyInv /\ [Next]_vars => FaultyInv'
  <2>1. WriterInv /\ [Next]_vars => WriterInv'
    BY WriterStep
  <2>. QED BY <2>1, DurableStep, MatchStep, CoveredStep, CloseStep, VisibleStep, NumberedStep,
              StreamNumbered DEF FaultyInv, ReceiptInv, MappingInv
<1>3. FaultyInv /\ OutOfTurnAck => FaultyInv'
  BY OutOfTurnStep DEF FaultyInv
<1>4. FaultyInv /\ [Next \/ OutOfTurnAck]_vars => FaultyInv'
  BY <1>2, <1>3
<1>. QED BY <1>1, <1>4, PTL DEF FaultySpec

(* Whatever the service acknowledges out of turn, with ranges that agree   *)
(* or not: the writer refuses or applies it, and its window, its receipts, *)
(* the stream and its close stay right (dispatch_ack, validate_ack).       *)
THEOREM FaultyServiceIsHarmless ==
  FaultySpec => [](/\ TypeOK /\ WindowExact /\ NoStall /\ NoGap
                   /\ ReceiptsMatchBatch /\ ReceiptsDurable /\ CloseDurable)
<1>1. FaultyInv => /\ TypeOK /\ WindowExact /\ NoStall /\ NoGap
                   /\ ReceiptsMatchBatch /\ ReceiptsDurable /\ CloseDurable
  BY WindowOfInvariant DEF FaultyInv, WriterInv, DeadlineInv, NoStall, ReceiptInv, DurableInv,
                           MatchInv, CloseInv, CloseDurable
<1>. QED BY <1>1, FaultyInvariant, PTL

(* Nor is a record sent again that an acknowledgement out of turn covered. *)
THEOREM FaultyServiceResends == FaultySpec => ResendsOnlyUnacked
<1>1. ASSUME OutOfTurnAck PROVE UNCHANGED wires
  BY <1>1 DEF OutOfTurnAck
<1>2. ASSUME FaultyInv, OutOfTurnAck PROVE NewFrameUncovered
  <2>1. \A e \in DOMAIN wires : Len(wires[e]) \in Nat
    BY <1>2, SeqFacts DEF FaultyInv, WriterInv, TypeOK, NetTypeOK
  <2>. QED BY <1>1, <1>2, <2>1 DEF NewFrameUncovered
<1>3. FaultyInv /\ [Next \/ OutOfTurnAck]_vars => [NewFrameUncovered]_vars
  BY <1>2, FrameUncovered DEF FaultyInv
<1>. QED BY <1>3, FaultyInvariant, PTL DEF FaultySpec, ResendsOnlyUnacked

(* And the writer still implements ReliableAppend: a caller cannot tell    *)
(* that its service acknowledges out of turn.                              *)
THEOREM FaultyServiceStaysReliable == FaultySpec => ImplementsReliableAppend
<1>1. OutOfTurnAck => UNCHANGED <<log, ticket, nextSeq, closeResult>>
  BY DEF OutOfTurnAck, sharedVars, callerVars, actorVars
<1>2. FaultyInv /\ [Next \/ OutOfTurnAck]_vars => [Abstract!Next]_Abstract!vars
  BY <1>1, StepImplements, StutterImplements DEF FaultyInv
<1>. QED BY <1>2, InitImplements, FaultyInvariant, PTL
     DEF FaultySpec, ImplementsReliableAppend, Abstract!Spec
=============================================================================
