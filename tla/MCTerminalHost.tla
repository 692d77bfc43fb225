----------------------------- MODULE MCTerminalHost -----------------------------
(* A small instance of TerminalHost: a write, a resize, and a copy of the  *)
(* write that its writer resent.                                           *)
EXTENDS TerminalHost

InputRecords ==
  << [writer |-> "w1", seq |-> 0, kind |-> "data"],
     [writer |-> "w1", seq |-> 1, kind |-> "resize"],
     [writer |-> "w1", seq |-> 0, kind |-> "data"] >>
=============================================================================
