---------------------------- MODULE MCLogicalRecords ----------------------------
(* A small instance of LogicalRecords: one writer splits two records and   *)
(* leaves a third unsplit, another splits one with an empty part, and a    *)
(* third numbers its parts as it likes.                                    *)
EXTENDS LogicalRecords

P(index, final, len) == [index |-> index, final |-> final, len |-> len]

WriterParts ==
  [w \in {"w1", "w2"} |->
     IF w = "w1" THEN << P(0, FALSE, 1), P(1, FALSE, 1), P(2, TRUE, 1), P(0, TRUE, 1),
                         P(0, FALSE, 3), P(1, TRUE, 3) >>
                 ELSE << P(0, FALSE, 2), P(1, TRUE, 0) >>]

Raw ==
  { [writer |-> "x", seq |-> 0, index |-> 1, final |-> TRUE, len |-> 1],
    [writer |-> "x", seq |-> 1, index |-> 0, final |-> FALSE, len |-> 2],
    [writer |-> "x", seq |-> 2, index |-> 2, final |-> FALSE, len |-> 1],
    [writer |-> "x", seq |-> 3, index |-> 2, final |-> TRUE, len |-> 1],
    [writer |-> "x", seq |-> 2, index |-> 1, final |-> FALSE, len |-> 1] }
=============================================================================
