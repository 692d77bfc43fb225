---------------------------- MODULE FaultyService ----------------------------
(* A service that acknowledges out of turn, and one whose two ranges do    *)
(* not agree (external): the durable writer must refuse what it cannot     *)
(* have asked for, and stay consistent whatever it accepts.                *)
EXTENDS DurableWriter

\* On a fresh connection, the last records of the stream, which earlier ones stored,
\* whether they were acknowledged before or not, and this one has sent them or not; `short`
\* drops the last durable number.
OutOfTurnAck ==
  /\ Current > 1 /\ ~silent /\ stored = <<>> /\ acks = <<>> /\ AwaitsAck
  /\ \E lo \in DOMAIN log, short \in {0, 1} :
       /\ log[lo] # Foreign
       /\ \A i \in lo..Len(log) : log[i] = log[lo] + (i - lo)
       /\ acks' = << [ws |-> log[lo], we |-> log[Len(log)] + 1,
                      ds |-> lo - 1, de |-> Len(log) - short] >>
  /\ UNCHANGED <<sharedVars, callerVars, actorVars, wires, stored, silent, log>>

FaultySpec == Init /\ [][Next \/ OutOfTurnAck]_vars
=============================================================================
