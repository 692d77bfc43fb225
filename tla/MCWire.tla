------------------------------ MODULE MCWire ------------------------------
EXTENDS Wire

\* Read records: sequence numbers with a repetition, a gap and the last one; parts of
\* every kind; payloads up to one cell more than a record may have.
Rec(seq, part, data) == [seq |-> seq, ts |-> 1, writer |-> 7, wseq |-> 0, part |-> part, data |-> data]
McPayloads == {<<>>, <<9>>, <<8, 9>>, <<7, 8, 9>>}
One == { <<Rec(s, p, d)>> : s \in {0, 9}, p \in {0, 1, 2, 3}, d \in McPayloads }
Two == { <<Rec(s, 2, d), Rec(t, 2, e)>> : s \in {1, 8, 9}, t \in {0, 2, 9}, d, e \in {<<>>, <<8, 9>>} }
Three == { <<Rec(0, 0, d), Rec(1, 1, <<9>>), Rec(2, 3, d)>> : d \in {<<>>, <<8, 9>>} }
McBatches == {<<>>} \cup One \cup Two \cup Three

McAnswers ==
  {Ready(k) : k \in Kinds} \cup {StreamMetadata(s, k) : s \in 0..1, k \in Kinds}
    \cup {AppendAck(a, b, c, d) : a, c \in {0, 1}, b, d \in {0, 1, 2}}
    \cup {Heartbeat} \cup {CaughtUp(n, 1) : n \in {0, 9}}

App(wseq, part, data) == [wseq |-> wseq, part |-> part, data |-> data]
McSubmissions ==
  {<<>>} \cup { <<App(s, p, d)>> : s \in {0, 9}, p \in {0, 1, 2, 3}, d \in McPayloads \ {<<8, 9>>} }
    \cup { <<App(0, 2, <<9>>), App(s, 2, e)>> :
             s \in {0, 1, 9}, e \in {<<>>, <<8, 9>>, <<7, 8, 9>>} }
    \cup { <<App(0, 2, d), App(1, 2, d), App(2, 2, d)>> : d \in {<<>>, <<9>>} }

McOpenings ==
  {OpenRead(s) : s \in {None, 5}} \cup {OpenWrite(7, e, 5) : e \in {None, 0, 2, 3}}

McCloses == {[code |-> None, reason |-> ""], [code |-> 1000, reason |-> ""],
             [code |-> 1008, reason |-> "sequence_mismatch"], [code |-> 1011, reason |-> ""]}
=============================================================================
