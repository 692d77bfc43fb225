------------------------------- MODULE Emulator -------------------------------
(***************************************************************************)
(* A terminal emulator, as far as restoring one tells its states apart     *)
(* (external: the vt100 crate, and whatever an observer shows output in).  *)
(*                                                                         *)
(* Output is a sequence of symbols.  "?" stands for ESC [ ?, the number of *)
(* a private mode for itself, and "h" and "l" end such a sequence, or are  *)
(* text.  "7" and "8" save and restore the cursor, "c" resets, "J" clears  *)
(* the screen and "@n" puts the cursor after n cells.  "k" is an operating *)
(* system command that sets a colour of the palette.  Everything else is   *)
(* text.                                                                   *)
(*                                                                         *)
(* A screen is a run of cells.  The alternate screen is entered empty, and *)
(* what 1049 saves of the primary one is its cursor, which stays where it  *)
(* is.  A sequence that has begun is part of the state; the title of the   *)
(* window is not.                                                          *)
(***************************************************************************)
EXTENDS Naturals, Sequences, SequencesExt

AlternateModes == {"47", "1047", "1049"}
PassthroughModes == {"1004"}       \* the emitter only has to repeat these
PlainModes == {"25", "6", "69"}    \* cursor shown, origin mode, margin mode
Modes == AlternateModes \cup PassthroughModes \cup PlainModes

\* What the emitter's vt100 knows, and what an observer's emulator does.
VtKnows == {"47", "1049", "25", "6"}
ObserverKnows == Modes \cup {"k"}

At == <<"@0", "@1", "@2">>
Capacity(size) == size[1] * size[2]
Blank(size) == [cells |-> [i \in 1..Capacity(size) |-> " "], cursor |-> 0, saved |-> 0]

Fresh(size) ==
  [size |-> size, on |-> "primary", primary |-> Blank(size), alternate |-> Blank(size),
   modes |-> {"25"}, coloured |-> FALSE, seq |-> <<>>]

Screen(s) == IF s.on = "primary" THEN s.primary ELSE s.alternate
WithScreen(s, screen) ==
  IF s.on = "primary" THEN [s EXCEPT !.primary = screen] ELSE [s EXCEPT !.alternate = screen]

Smaller(a, b) == IF a < b THEN a ELSE b

Put(s, symbol) ==
  LET g == Screen(s)
      at == Smaller(g.cursor + 1, Capacity(s.size))
  IN WithScreen(s, [g EXCEPT !.cells[at] = symbol, !.cursor = at])

Switch(s, set) ==
  IF set /\ s.on = "primary" THEN [s EXCEPT !.on = "alternate", !.alternate = Blank(s.size)]
  ELSE IF ~set THEN [s EXCEPT !.on = "primary"] ELSE s

SetMode(s, mode, set) ==
  IF mode \in AlternateModes THEN Switch(s, set)
  ELSE [s EXCEPT !.modes = IF set THEN @ \cup {mode} ELSE @ \ {mode}]

\* The end of a sequence: each mode that is known.
Dispatch(s, set, known) ==
  FoldLeft(LAMBDA t, mode : IF mode \in known THEN SetMode(t, mode, set) ELSE t,
           [s EXCEPT !.seq = <<>>], Tail(s.seq))

Escape(s, symbol, known) ==
  LET g == Screen(s) IN
  CASE symbol = "7" -> WithScreen(s, [g EXCEPT !.saved = g.cursor])
    [] symbol = "8" -> WithScreen(s, [g EXCEPT !.cursor = g.saved])
    [] symbol = "c" -> [Fresh(s.size) EXCEPT !.coloured = s.coloured]
    [] symbol = "k" -> IF "k" \in known THEN [s EXCEPT !.coloured = TRUE] ELSE s
    [] symbol = "J" -> WithScreen(s, [Blank(s.size) EXCEPT !.saved = g.saved])
    [] OTHER -> LET n == CHOOSE n \in DOMAIN At : At[n] = symbol IN
                WithScreen(s, [g EXCEPT !.cursor = Smaller(n - 1, Capacity(s.size))])
Escapes == {"7", "8", "c", "k", "J"} \cup Range(At)

Step(s, symbol, known) ==
  CASE symbol = "?" -> [s EXCEPT !.seq = <<"?">>]
    [] symbol \in Escapes -> Escape([s EXCEPT !.seq = <<>>], symbol, known)
    [] s.seq # <<>> /\ symbol \in Modes -> [s EXCEPT !.seq = Append(@, symbol)]
    [] s.seq # <<>> /\ symbol \in {"h", "l"} -> Dispatch(s, symbol = "h", known)
    [] s.seq # <<>> /\ symbol \notin Modes \cup {"h", "l"} -> [s EXCEPT !.seq = <<>>]
    [] OTHER -> Put(s, symbol)

Run(s, symbols, known) == FoldLeft(LAMBDA t, symbol : Step(t, symbol, known), s, symbols)

SetSize(s, size) ==
  LET Fit(g) == [cells |-> [i \in 1..Capacity(size) |->
                              IF i \in DOMAIN g.cells THEN g.cells[i] ELSE " "],
                 cursor |-> Smaller(g.cursor, Capacity(size)),
                 saved |-> Smaller(g.saved, Capacity(size))]
  IN [s EXCEPT !.size = size, !.primary = Fit(@), !.alternate = Fit(@)]

\* Screen::state_formatted: a program for what is visible, and the modes vt100 knows.
\* Neither the cursor that is saved, nor origin mode, nor a begun sequence.
Formatted(s) ==
  LET g == Screen(s) IN
  <<"J">> \o g.cells \o <<At[g.cursor + 1]>> \o
    <<"?", "25", IF "25" \in s.modes THEN "h" ELSE "l">>

\* What a viewer sees, the palette and the modes included.
Visible(s) ==
  [size |-> s.size, on |-> s.on, cells |-> Screen(s).cells, cursor |-> Screen(s).cursor,
   modes |-> s.modes, coloured |-> s.coloured]
=============================================================================
