----------------------------- MODULE MCReadSession -----------------------------
(* A small instance of ReadSession: every kind of selector, a read with    *)
(* and without stop conditions, timestamps that may go back.               *)
EXTENDS ReadSession

StartSet == { SeqNum(1), [kind |-> "timestamp", n |-> 2], [kind |-> "tail", n |-> 1] }
CountSet == { 2, NoCount }
UntilSet == { 2, NoUntil }
=============================================================================
