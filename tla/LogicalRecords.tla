----------------------------- MODULE LogicalRecords -----------------------------
(***************************************************************************)
(* LogicalRecordAssembler (rust/src/logical_records.rs): a reader of a     *)
(* stream suppresses the copies that resending leaves in it and joins the  *)
(* parts of split records, under a bound on what it retains.               *)
(*                                                                         *)
(* The stream is what writers make of it.  A durable writer's records are  *)
(* stored without a gap but with copies, in any order behind its first     *)
(* occurrences (NoGap of DurableWriter); the low-level write session lets  *)
(* a writer store any part at any sequence number.  The read starts at an  *)
(* arbitrary position, in front of or behind any writer's records.         *)
(***************************************************************************)
EXTENDS Integers, Sequences, FiniteSetsExt, Functions

CONSTANTS
  Writers,     \* the durable writers
  Parts,       \* what each of them submits: a sequence of [index, final, len]
  RawRecords,  \* what other writers may store: [writer, seq, index, final, len]
  MaxBytes,    \* max_reassembly_bytes
  MaxParts,    \* MAX_RECORD_TOTAL_PENDING_PARTS
  MaxWriters,  \* MAX_RECORD_WRITER_STATES
  MaxReads     \* bound: records read

\* The part layout of split_record_payloads: whole logical records, each a run of
\* consecutive parts numbered from zero whose last, and no other, is final.
WellSplit(p) ==
  /\ \A s \in DOMAIN p :
       /\ p[s].index = 0 <=> s = 1 \/ p[s - 1].final
       /\ p[s].index > 0 => p[s].index = p[s - 1].index + 1
  /\ p # <<>> => p[Len(p)].final

Part == [index : Nat, final : BOOLEAN, len : Nat]

ASSUME AssemblerAssumption ==
  /\ \A w \in Writers : Parts[w] \in Seq(Part) /\ WellSplit(Parts[w])
  /\ \A r \in RawRecords : /\ r.writer \notin Writers /\ r.seq \in Nat
                           /\ r.index \in Nat /\ r.final \in BOOLEAN /\ r.len \in Nat
  /\ MaxBytes \in Nat /\ MaxParts \in Nat /\ MaxWriters \in Nat /\ MaxReads \in Nat

VARIABLES
  top,      \* how many records of each durable writer have been stored
  from,     \* how many when the read started
  reads,    \* records read so far
  writers,  \* the writer states: [highest, pending]
  bytes,    \* pending_totals.bytes
  parts,    \* pending_totals.parts
  logical,  \* the logical records returned: [writer, start, chunks]
  refused   \* the logical records <<writer, start>> a limit rejected a part of

streamVars == <<top, from, reads>>
vars == <<streamVars, writers, bytes, parts, logical, refused>>

NoPending == [start |-> 0, next |-> 0, len |-> 0, parts |-> 0, chunks |-> <<>>]
NewWriter == [highest |-> -1, pending |-> NoPending]

Init ==
  /\ top \in [Writers -> UNION {0..Len(Parts[w]) : w \in Writers}]
  /\ \A w \in Writers : top[w] <= Len(Parts[w])
  /\ from = top /\ reads = 0
  /\ writers = [w \in {} |-> NewWriter]
  /\ bytes = 0 /\ parts = 0
  /\ logical = <<>> /\ refused = {}

-----------------------------------------------------------------------------
(* push_record.                                                            *)

State(w) == IF w \in DOMAIN writers THEN writers[w] ELSE NewWriter

Start(r) == r.seq - r.index

\* An empty part is counted but keeps no chunk.
Chunk(r) == IF r.len = 0 THEN <<>> ELSE <<r>>

Admitted(r) == r.writer \in DOMAIN writers \/ Cardinality(DOMAIN writers) < MaxWriters

\* Variant: the sequence number that was seen last is not suppressed.
SeenBefore(r) == r.seq < State(r.writer).highest

Duplicate(r) == r.seq <= State(r.writer).highest

Fresh(r) == Admitted(r) /\ ~Duplicate(r)

\* Variant: any part with the right index continues the pending record.
ContinuesIndex(r) == r.index > 0 /\ State(r.writer).pending.next = r.index

Continues(r) == /\ r.index > 0
                /\ State(r.writer).pending.next = r.index
                /\ State(r.writer).pending.start = Start(r)

\* Variant: the totals keep what a dropped record had retained.
KeptTotal(total, retained) == total

\* take_pending: the totals without the writer's pending record.
Taken(total, retained) == total - retained

TakenBytes(r) == Taken(bytes, State(r.writer).pending.len)
TakenParts(r) == Taken(parts, State(r.writer).pending.parts)

\* The writer's new state; its pending record is replaced.
Advance(r, pending) ==
  /\ writers' = [w \in DOMAIN writers \cup {r.writer} |->
                   IF w = r.writer THEN [highest |-> r.seq, pending |-> pending]
                                   ELSE writers[w]]
  /\ bytes' = TakenBytes(r) + pending.len
  /\ parts' = TakenParts(r) + pending.parts

Refuse(r) == refused' = refused \cup {<<r.writer, Start(r)>>}

Return(r, chunks) ==
  logical' = Append(logical, [writer |-> r.writer, start |-> Start(r), chunks |-> chunks])

RefuseWriter(r) ==
  /\ ~Admitted(r)
  /\ Refuse(r)
  /\ UNCHANGED <<writers, bytes, parts, logical>>

Suppress(r) ==
  /\ Admitted(r) /\ Duplicate(r)
  /\ UNCHANGED <<writers, bytes, parts, logical, refused>>

Unsplit(r) ==
  /\ Fresh(r) /\ r.index = 0 /\ r.final
  /\ Advance(r, NoPending) /\ Return(r, Chunk(r))
  /\ UNCHANGED refused

\* A part no pending record continues with, or one before sequence number zero.
Orphan(r) ==
  /\ Fresh(r) /\ r.index > 0 /\ ~Continues(r)
  /\ Advance(r, NoPending)
  /\ UNCHANGED <<logical, refused>>

\* The pending record that a part which is not final leaves.
Joined(r) ==
  LET p == State(r.writer).pending
  IN IF r.index = 0
       THEN [start |-> r.seq, next |-> 1, len |-> r.len, parts |-> 1, chunks |-> Chunk(r)]
       ELSE [p EXCEPT !.next = r.index + 1, !.len = @ + r.len, !.parts = @ + 1,
                      !.chunks = @ \o Chunk(r)]

\* PendingTotals::with_added succeeds.
Fits(b, n) == b <= MaxBytes /\ n <= MaxParts

Retain(r) ==
  /\ Fresh(r) /\ ~r.final /\ (r.index = 0 \/ Continues(r))
  /\ LET p == Joined(r)
     IN \/ /\ Fits(TakenBytes(r) + p.len, TakenParts(r) + p.parts)
           /\ Advance(r, p)
           /\ UNCHANGED refused
        \/ /\ ~Fits(TakenBytes(r) + p.len, TakenParts(r) + p.parts)
           /\ Advance(r, NoPending)
           /\ Refuse(r)
  /\ UNCHANGED logical

\* The final part: only the length of its own record is checked.
Complete(r) ==
  /\ Fresh(r) /\ r.final /\ Continues(r)
  /\ Advance(r, NoPending)
  /\ LET p == State(r.writer).pending
     IN \/ p.len + r.len <= MaxBytes /\ Return(r, p.chunks \o Chunk(r)) /\ UNCHANGED refused
        \/ p.len + r.len > MaxBytes /\ Refuse(r) /\ UNCHANGED logical

PushRecord(r) == \/ RefuseWriter(r) \/ Suppress(r) \/ Unsplit(r) \/ Orphan(r)
                 \/ Retain(r) \/ Complete(r)

-----------------------------------------------------------------------------
(* The stream.                                                             *)

Physical(w, s) ==
  [writer |-> w, seq |-> s, index |-> Parts[w][s + 1].index,
   final |-> Parts[w][s + 1].final, len |-> Parts[w][s + 1].len]

\* The next record of a durable writer, or a copy of one it has stored.
ReadDurable ==
  \E w \in Writers : \E s \in 0..top[w] :
    /\ reads < MaxReads /\ s < Len(Parts[w])
    /\ PushRecord(Physical(w, s))
    /\ top' = [top EXCEPT ![w] = IF s = @ THEN s + 1 ELSE @]
    /\ reads' = reads + 1
    /\ UNCHANGED from

ReadRaw ==
  \E r \in RawRecords :
    /\ reads < MaxReads
    /\ PushRecord(r)
    /\ reads' = reads + 1
    /\ UNCHANGED <<top, from>>

ReadEnds == reads = MaxReads /\ UNCHANGED vars

Next == ReadDurable \/ ReadRaw \/ ReadEnds

Spec == Init /\ [][Next]_vars

-----------------------------------------------------------------------------
(* Properties.                                                             *)

Identities == Writers \cup {r.writer : r \in RawRecords}

\* Where logical records of a durable writer start, and the last part of one.
Starts(w) == {s \in 0..(Len(Parts[w]) - 1) : Parts[w][s + 1].index = 0}
End(w, s) == Min({e \in s..(Len(Parts[w]) - 1) : Parts[w][e + 1].final})
NonemptyParts(w, s, e) == {Physical(w, i) : i \in {i \in s..e : Parts[w][i + 1].len > 0}}

(* Every variable has its type; what is retained and the writers that are  *)
(* known stay within their limits.                                         *)
TypeOK ==
  /\ \A w \in Writers : from[w] <= top[w] /\ top[w] <= Len(Parts[w])
  /\ reads \in 0..MaxReads
  /\ DOMAIN writers \subseteq Identities /\ Cardinality(DOMAIN writers) <= MaxWriters
  /\ \A w \in DOMAIN writers : /\ writers[w].highest \in Nat
                               /\ writers[w].pending.start <= writers[w].highest
  /\ bytes \in 0..MaxBytes /\ parts \in 0..MaxParts
  /\ \A i \in DOMAIN logical : logical[i].writer \in Identities
  /\ refused \subseteq Identities \X Int

(* The totals the limits are checked against are the sums over all         *)
(* writers of what is really retained, whatever was dropped, refused or    *)
(* completed: nothing leaks until the assembler refuses everything.  The   *)
(* totals, and all that is kept, stay within the limits (TypeOK).          *)
TotalsExact ==
  LET retained(w) == writers[w].pending
  IN /\ TypeOK
     /\ bytes = MapThenSumSet(LAMBDA w : retained(w).len, DOMAIN writers)
     /\ parts = MapThenSumSet(LAMBDA w : retained(w).parts, DOMAIN writers)
     /\ \A w \in DOMAIN writers :
          retained(w).len =
            FoldFunction(LAMBDA r, sum : r.len + sum, 0, retained(w).chunks)

(* What is returned for any writer are parts of one start, each once and   *)
(* in their order, and for a durable writer all that hold something of one *)
(* of its logical records: a read that begins inside a split record and    *)
(* copies of other parts never make a record of fragments.                 *)
WholeRecords ==
  \A i \in DOMAIN logical :
    LET l == logical[i]
    IN /\ l.writer \in Writers =>
            /\ l.start \in Starts(l.writer)
            /\ Range(l.chunks) = NonemptyParts(l.writer, l.start, End(l.writer, l.start))
       /\ \A j \in DOMAIN l.chunks :
            /\ l.chunks[j].writer = l.writer /\ Start(l.chunks[j]) = l.start
            /\ j > 1 => l.chunks[j].index > l.chunks[j - 1].index

(* A logical record is returned once, in its writer's order, however often *)
(* its parts are in the stream, and never after a limit refused it.        *)
OnceInOrder ==
  /\ \A i, j \in DOMAIN logical :
       i < j /\ logical[i].writer = logical[j].writer => logical[i].start < logical[j].start
  /\ \A i \in DOMAIN logical : <<logical[i].writer, logical[i].start>> \notin refused

(* Every logical record whose first part was stored after the read started *)
(* is returned with its last part, unless a limit refused it: copies in    *)
(* the middle of its parts, other writers and a partial record in front of *)
(* it do not cost a whole one.                                             *)
NothingMissed ==
  \A w \in Writers : \A s \in Starts(w) :
    s >= from[w] /\ End(w, s) < top[w] /\ <<w, s>> \notin refused =>
      \E i \in DOMAIN logical : logical[i].writer = w /\ logical[i].start = s

(* The two together: every whole logical record comes out exactly once.    *)
(* (LogicalRecordAssembler::push_record.)                                  *)
ExactlyOnce == OnceInOrder /\ NothingMissed
=============================================================================
