---------------------------- MODULE MCDurableWriter ----------------------------
(* A small instance of DurableWriter over the faulty service.              *)
EXTENDS FaultyService, TLC

\* Payload sizes by writer sequence number: 1, 2, 0, 2, ...: a small and a
\* large record, and an empty one.
SizeOf(w) == CASE w % 4 = 0 -> 1 [] w % 4 = 2 -> 0 [] OTHER -> 2
OffsetTable ==
  LET total[w \in 0..MaxWriterSeq] == IF w = 0 THEN 0 ELSE total[w - 1] + SizeOf(w - 1)
  IN total

Symmetric == Permutations(Producers) \cup Permutations(Submissions)
=============================================================================
