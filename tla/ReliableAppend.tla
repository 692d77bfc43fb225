---------------------------- MODULE ReliableAppend ----------------------------
(***************************************************************************)
(* What a durable writer promises its callers, with no connections,        *)
(* windows, acknowledgements or resends: batches are numbered one after    *)
(* the other, a reader that drops resent copies sees the numbered records  *)
(* appear once and in order, a ticket succeeds only when its whole batch   *)
(* is visible, and close succeeds only when every ticket has.              *)
(***************************************************************************)
EXTENDS Naturals, Sequences

CONSTANTS Submissions, BatchLens

VARIABLES
  numbered,   \* records numbered so far
  span,       \* per batch: the records it became
  visible,    \* the records a deduplicating reader has seen
  outcome,    \* per batch: "none", "waiting", "ok" or "failed"
  closed      \* what close returned: "none", "ok" or "error"

vars == <<numbered, span, visible, outcome, closed>>

NoSpan == [start |-> 0, len |-> 0]

Init ==
  /\ numbered = 0 /\ visible = <<>> /\ closed = "none"
  /\ span = [id \in Submissions |-> NoSpan]
  /\ outcome = [id \in Submissions |-> "none"]

\* A batch is accepted, and its caller holds a ticket.
Accept(id, len) ==
  /\ outcome[id] = "none"
  /\ outcome' = [outcome EXCEPT ![id] = "waiting"]
  /\ span' = [span EXCEPT ![id].len = len]
  /\ UNCHANGED <<numbered, visible, closed>>

\* Its records get the next numbers.
Number(id) ==
  /\ outcome[id] = "waiting"
  /\ span' = [span EXCEPT ![id].start = numbered]
  /\ numbered' = numbered + span[id].len
  /\ UNCHANGED <<visible, outcome, closed>>

\* The next numbered record becomes visible, for a failed batch too.
Show ==
  /\ Len(visible) < numbered
  /\ visible' = Append(visible, Len(visible))
  /\ UNCHANGED <<numbered, span, outcome, closed>>

Succeed(ids) ==
  /\ \A id \in ids : /\ outcome[id] = "waiting"
                     /\ span[id].start + span[id].len <= Len(visible)
  /\ outcome' = [id \in Submissions |-> IF id \in ids THEN "ok" ELSE outcome[id]]
  /\ UNCHANGED <<numbered, span, visible, closed>>

\* The writer ends: some tickets fail, and with them a close that is waiting.
Fail(ids) ==
  /\ \A id \in ids : outcome[id] = "waiting"
  /\ outcome' = [id \in Submissions |-> IF id \in ids THEN "failed" ELSE outcome[id]]
  /\ closed' \in {closed, "error"}
  /\ closed = "ok" => ids = {} /\ closed' = closed
  /\ UNCHANGED <<numbered, span, visible>>

CloseOk ==
  /\ closed = "none"
  /\ \A id \in Submissions : outcome[id] \in {"none", "ok"}
  /\ closed' = "ok"
  /\ UNCHANGED <<numbered, span, visible, outcome>>

Next ==
  \/ \E id \in Submissions : Number(id) \/ \E len \in BatchLens : Accept(id, len)
  \/ Show
  \/ \E ids \in SUBSET Submissions : Succeed(ids) \/ Fail(ids)
  \/ CloseOk

Spec == Init /\ [][Next]_vars
=============================================================================
