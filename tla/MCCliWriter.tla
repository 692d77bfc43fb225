------------------------------ MODULE MCCliWriter ------------------------------
(* A small instance of CliWriter: both inputs with both ways to cut them,  *)
(* blank and open lines, and a line larger than the window.                *)
EXTENDS CliWriter

Block(n) == [i \in 1..n |-> "x"]
Line(n) == Append(Block(n), "\n")

InputSet == {
  [mode |-> "stdin", buffering |-> "bytes", text |-> [stdin |-> Block(5)]],
  [mode |-> "stdin", buffering |-> "lines", text |-> [stdin |-> Line(1) \o Line(0) \o Block(1)]],
  [mode |-> "stdin", buffering |-> "lines", text |-> [stdin |-> Line(5) \o Line(1)]],
  [mode |-> "command", buffering |-> "bytes", text |-> [stdout |-> Block(2), stderr |-> Block(2)]],
  [mode |-> "command", buffering |-> "lines", text |-> [stdout |-> Line(1) \o Block(1), stderr |-> Line(0)]] }
=============================================================================
