-------------------------- MODULE MCDurableWriterLive --------------------------
(* A smaller instance, without symmetry, for liveness and refinement.      *)
EXTENDS DurableWriterRefinement

\* Payload sizes by writer sequence number: 1, 2, 0, 2, ...
SizeOf(w) == CASE w % 4 = 0 -> 1 [] w % 4 = 2 -> 0 [] OTHER -> 2
OffsetTable ==
  LET total[w \in 0..MaxWriterSeq] == IF w = 0 THEN 0 ELSE total[w - 1] + SizeOf(w - 1)
  IN total
=============================================================================
