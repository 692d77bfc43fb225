-------------------------- MODULE MCTerminalCheckpoint --------------------------
EXTENDS TerminalCheckpoint

Sequence(mode, final) == <<"?", mode, final>>
McSizes == {<<1, 1>>, <<2, 1>>, <<1, 2>>, <<2, 2>>}
McInitial == <<2, 1>>

\* What an application writes, whole, together, or cut off anywhere.
McReads ==
  {<<"x", "l">>, <<"h">>, <<"?">>, <<"1049">>, <<"l">>, <<"7", "x">>, <<"8">>, <<"c">>,
   <<"k">>, <<"?", "1049">>, <<"?", "25", "l", "x">>, <<"?", "6", "h">>,
   <<"?", "25", "1049", "h">>}
    \cup {Sequence(m, f) : m \in {"47", "1047", "1049"}, f \in {"h", "l"}}
    \cup {Sequence("1004", "h"), Sequence("1004", "l")}
=============================================================================
