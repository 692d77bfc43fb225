------------------------------ MODULE OutputClaim ------------------------------
(***************************************************************************)
(* Hosts that claim one terminal's output channel: each opens a durable    *)
(* writer that expects the stream to be empty and appends `started` as its *)
(* first record (cli/src/terminal.rs, host).  The precondition travels     *)
(* with the session options; rust/src/client.rs drops it once a session    *)
(* has been opened, so a recovering writer reopens without one.            *)
(*                                                                         *)
(* The service checks a session's expectation when the session opens, and  *)
(* the match advances with the session's own appends: another append makes *)
(* it fail (docs/protocol.md).                                             *)
(***************************************************************************)
EXTENDS Naturals, Sequences, FiniteSets

CONSTANTS Hosts, NoExpectation

VARIABLES
  host,      \* "opening", "open", "recovering", "refused" or "started"
  expected,  \* options.expected_next_seq_num
  session,   \* what the service expects of the host's session
  sent,      \* the session carries `started`
  log        \* the output stream: who appended `started`

vars == <<host, expected, session, sent, log>>

Init ==
  /\ host = [h \in Hosts |-> "opening"]
  /\ expected = [h \in Hosts |-> 0]
  /\ session = [h \in Hosts |-> NoExpectation]
  /\ sent = [h \in Hosts |-> FALSE]
  /\ log = <<>>

Matches(expectation) == expectation \in {NoExpectation, Len(log)}

\* connect_writer_route: the precondition is dropped with the first Ready.
Open(h) ==
  /\ host[h] = "opening" /\ Matches(expected[h])
  /\ session' = [session EXCEPT ![h] = expected[h]]
  /\ expected' = [expected EXCEPT ![h] = NoExpectation]
  /\ host' = [host EXCEPT ![h] = "open"]
  /\ UNCHANGED <<sent, log>>

\* recover_pending_appends: a new session with the options as they are now.
Reopen(h) ==
  /\ host[h] = "recovering" /\ Matches(expected[h])
  /\ session' = [session EXCEPT ![h] = expected[h]]
  /\ host' = [host EXCEPT ![h] = "open"]
  /\ UNCHANGED <<expected, sent, log>>

\* 1008 sequence_mismatch is not retryable.
Refused(h) ==
  /\ \/ host[h] \in {"opening", "recovering"} /\ ~Matches(expected[h])
     \/ host[h] = "open" /\ sent[h] /\ ~Matches(session[h])
  /\ host' = [host EXCEPT ![h] = "refused"]
  /\ UNCHANGED <<expected, session, sent, log>>

SendStarted(h) ==
  /\ host[h] = "open" /\ ~sent[h]
  /\ sent' = [sent EXCEPT ![h] = TRUE]
  /\ UNCHANGED <<host, expected, session, log>>

\* Stored and acknowledged: the host's `started` ticket resolves.
Store(h) ==
  /\ host[h] = "open" /\ sent[h] /\ Matches(session[h])
  /\ log' = Append(log, h)
  /\ host' = [host EXCEPT ![h] = "started"]
  /\ UNCHANGED <<expected, session, sent>>

\* A transient interruption, with `started` stored or not.
Interrupted(h) ==
  /\ host[h] = "open"
  /\ \/ UNCHANGED log
     \/ sent[h] /\ Matches(session[h]) /\ log' = Append(log, h)
  /\ sent' = [sent EXCEPT ![h] = FALSE]
  /\ host' = [host EXCEPT ![h] = "recovering"]
  /\ UNCHANGED <<expected, session>>

Next ==
  \E h \in Hosts : \/ Open(h) \/ Reopen(h) \/ Refused(h)
                   \/ SendStarted(h) \/ Store(h) \/ Interrupted(h)

Spec == Init /\ [][Next]_vars

(* A failed precondition prevents a second host from claiming the output   *)
(* channel (docs/protocol.md): one host's `started` is in the stream.      *)
OneHostClaims == Cardinality({log[i] : i \in DOMAIN log}) <= 1
=============================================================================
