------------------------ MODULE DurableWriterRefinement ------------------------
(***************************************************************************)
(* The durable writer implements ReliableAppend.  What the abstract        *)
(* specification calls visible is the stream as a logical reader keeps it: *)
(* a record is dropped unless its writer sequence number is above the      *)
(* highest one kept so far.                                                *)
(***************************************************************************)
EXTENDS DurableWriter

\* The reader has kept the sequence `kept` and reads `w`.
Keep(kept, w) ==
  IF w = Foreign \/ (kept # <<>> /\ w <= kept[Len(kept)]) THEN kept ELSE Append(kept, w)

Deduplicated(records) ==
  LET kept[n \in 0..Len(records)] ==
        IF n = 0 THEN <<>> ELSE Keep(kept[n - 1], records[n])
  IN kept[Len(records)]

OutcomeOf(t) == IF t.st \in {"error", "dropped"} THEN "failed" ELSE t.st

Spans == [id \in Submissions |-> [start |-> ticket[id].start, len |-> ticket[id].len]]
Outcomes == [id \in Submissions |-> OutcomeOf(ticket[id])]
Visible == Deduplicated(log)

Abstract == INSTANCE ReliableAppend WITH
  numbered <- nextSeq, span <- Spans, visible <- Visible, outcome <- Outcomes,
  closed <- closeResult

(* Every step of the writer, of its callers, of the network and of the     *)
(* service is a step of ReliableAppend or leaves its state alone.          *)
ImplementsReliableAppend == Abstract!Spec
=============================================================================
