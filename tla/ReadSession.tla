------------------------------ MODULE ReadSession ------------------------------
(***************************************************************************)
(* The resumable readers of the Rust SDK (rust/src/client.rs):             *)
(* TsfReadSession over WebSocket and TsfSseReadSession over an HTTP event  *)
(* stream.  A caller asks for one batch after the other and may give a     *)
(* call up at any await; the session survives transient interruptions by   *)
(* opening the read again behind what it has delivered, the first with its *)
(* own position and remaining count, the second with the cursor of the     *)
(* last event and the request it began with.                               *)
(*                                                                         *)
(* The service is external.  It resolves a selector against its tail and   *)
(* delivers contiguous batches, tells when a reader has caught up, and     *)
(* ends a finite read (docs/protocol.md).  What a connection carries is    *)
(* received in one step with its sending: a message that is lost with the  *)
(* connection was never sent, and one that arrives late says nothing that  *)
(* appended records make wrong.                                            *)
(***************************************************************************)
EXTENDS Integers, Sequences

CONSTANTS
  Transports,  \* a subset of {"websocket", "sse"}
  Starts,      \* start selectors: [kind, n]
  Counts,      \* stop.count, or NoCount
  Untils,      \* stop.until_timestamp_ms, or NoUntil
  Attempts,    \* bounded_operation_attempts
  MaxTime,     \* bound: the latest record timestamp
  MaxBatch,    \* bound: records in a batch
  MaxRecords   \* bound: records in the stream

ASSUME ReadAssumption ==
  /\ Transports \subseteq {"websocket", "sse"}
  /\ Starts \subseteq [kind : {"seq", "timestamp", "tail"}, n : Nat]
  /\ Counts \subseteq Nat /\ Untils \subseteq Nat
  /\ Attempts \in Nat \ {0} /\ MaxBatch \in Nat \ {0}
  /\ MaxTime \in Nat \ {0} /\ MaxRecords \in Nat

VARIABLES
  \* the stream and the connection (external)
  log,        \* timestamps; the record at index i + 1 has sequence number i
  conn,       \* the current connection
  opened,     \* the tail when the read began
  \* the session
  transport,  \* which session it is
  request,    \* the options it began with: [start, count, until, finite]
  start,      \* options.start
  left,       \* options.stop.count: what remains of it
  cursor,     \* last_event: [next, consumed], or NoCursor
  caughtUp,   \* last_caught_up, or NoPosition
  finished,
  retries,    \* BoundedReadReconnects.retries
  delay,      \* reconnect_delay.is_some(), WebSocket only
  \* the call
  pc,         \* "idle", "receiving", or "reconnecting"
  tries,      \* connect attempts of the running retry_transient that failed
  \* what the caller has seen
  got,        \* records delivered
  result,     \* of the last call that returned
  failed      \* a call has returned an error that is not transient

streamVars == <<log, opened>>
optionVars == <<transport, request>>
positionVars == <<start, left, cursor, caughtUp, got>>
vars == <<streamVars, conn, optionVars, positionVars, finished, retries, delay,
          pc, tries, result, failed>>

NoPosition == -1
NoCursor == [next |-> NoPosition, consumed |-> 0]
NoCount == MaxRecords + 1             \* more than a stream holds
Times == 1..MaxTime
NoUntil == MaxTime + 1                \* later than every record
SeqNum(n) == [kind |-> "seq", n |-> n]
Time(s) == log[s + 1]

-----------------------------------------------------------------------------
(* The service (external).                                                 *)

\* Records from sequence number `s` on whose time is at least `t`.
Matching(t) == {s \in 0..(Len(log) - 1) : Time(s) >= t}

\* The position a selector stands for, or none yet.
Resolved(selector) ==
  CASE selector.kind = "seq" -> selector.n
    [] selector.kind = "tail" ->
         IF selector.n > Len(log) THEN 0 ELSE Len(log) - selector.n
    [] OTHER ->
         IF Matching(selector.n) = {} THEN NoPosition
         ELSE CHOOSE s \in Matching(selector.n) : \A r \in Matching(selector.n) : s <= r

\* A connection that reads from `selector`, of which `consumed` records are done.
Connection(selector, count, consumed) ==
  [st |-> "live", selector |-> selector, pos |-> Resolved(selector), left |-> count,
   consumed |-> consumed, tail |-> Len(log), reported |-> NoPosition]

\* A timestamp is resolved by the first record that matches.
Position == IF conn.pos = NoPosition THEN Resolved(conn.selector) ELSE conn.pos

\* The next batch may be the `n` records from Position on.
Deliverable(n) ==
  /\ Position # NoPosition /\ Position + n <= Len(log) /\ n <= conn.left
  /\ \A s \in Position..(Position + n - 1) : Time(s) < request.until

\* ... or by the observed tail.
TailPosition == IF Position = NoPosition THEN Len(log) ELSE Position

Reportable == TailPosition = Len(log) /\ conn.reported # TailPosition

\* A finite read ends when it meets a stop condition or has drained the tail it saw.
ReadEnded ==
  \/ conn.left = 0
  \/ TailPosition >= conn.tail
  \/ TailPosition < Len(log) /\ Time(TailPosition) >= request.until

AppendRecord ==
  /\ Len(log) < MaxRecords
  /\ \E t \in Times : log' = Append(log, t)
  /\ UNCHANGED <<opened, conn, optionVars, positionVars, finished, retries, delay, pc,
                 tries, result, failed>>

\* An interruption, also between two calls.
Break ==
  /\ conn.st = "live"
  /\ conn' = [conn EXCEPT !.st = "broken"]
  /\ UNCHANGED <<streamVars, optionVars, positionVars, finished, retries, delay, pc,
                 tries, result, failed>>

-----------------------------------------------------------------------------
(* connect_reader, connect_sse_reader.                                     *)

Init ==
  /\ log \in UNION {[1..n -> Times] : n \in 0..MaxRecords}
  /\ opened = Len(log)
  /\ transport \in Transports
  /\ request \in [start : Starts, count : Counts, until : Untils, finite : BOOLEAN]
  /\ request.count # NoCount \/ request.until # NoUntil => request.finite
  /\ conn = Connection(request.start, request.count, 0)
  /\ start = request.start /\ left = request.count
  /\ cursor = NoCursor /\ caughtUp = NoPosition
  /\ finished = FALSE /\ retries = 0 /\ delay = FALSE
  /\ pc = "idle" /\ tries = 0
  /\ got = <<>> /\ result = "none" /\ failed = FALSE

-----------------------------------------------------------------------------
(* next_batch.                                                             *)

\* read_options_exhausted.
Exhausted ==
  \/ left = 0
  \/ /\ start.kind = "timestamp" /\ request.until # NoUntil
     /\ start.n >= request.until

CallEnds ==
  /\ pc = "idle" /\ (finished \/ Exhausted)
  /\ finished' = (finished \/ transport = "websocket")
  /\ result' = "end"
  /\ UNCHANGED <<streamVars, conn, optionVars, positionVars, retries, delay, pc, tries,
                 failed>>

Call ==
  /\ pc = "idle" /\ ~finished /\ ~Exhausted
  /\ pc' = IF delay THEN "reconnecting" ELSE "receiving"
  /\ tries' = 0
  /\ result' = "none"
  /\ UNCHANGED <<streamVars, conn, optionVars, positionVars, finished, retries, delay,
                 failed>>

\* The caller's timeout, or a future it drops.
Cancel ==
  /\ pc # "idle"
  /\ pc' = "idle"
  /\ UNCHANGED <<streamVars, conn, optionVars, positionVars, finished, retries, delay,
                 tries, result, failed>>

\* read_batch_start_violation.
StartHolds(first) ==
  CASE start.kind = "seq" -> first = start.n
    [] start.kind = "timestamp" -> Time(first) >= start.n
    [] OTHER -> TRUE

\* read_batch_stop_violation.
StopHolds(first, n) ==
  n <= left /\ \A s \in first..(first + n - 1) : Time(s) < request.until

\* validate_read_batch_for_request, or validate_sse_read_batch with its cursor,
\* which counts what the connection has delivered.
BatchValid(first, n) ==
  /\ StopHolds(first, n)
  /\ IF transport = "websocket" \/ cursor = NoCursor
       THEN StartHolds(first) ELSE first = cursor.next
  /\ transport = "sse" => conn.consumed = cursor.consumed

\* validate_caught_up_for_request, validate_sse_caught_up_cursor.
CaughtUpValid(position) ==
  /\ IF transport = "websocket" \/ cursor = NoCursor
       THEN start.kind = "seq" => position = start.n
       ELSE position = cursor.next
  /\ transport = "sse" => conn.consumed = cursor.consumed

\* Variant: the position stays at the last record of the batch.
AtLastRecord(first, n) == first + n - 1

AfterBatch(first, n) == first + n

\* Variant: the count is not reduced.
KeptCount(n) == left

Remaining(n) == left - n

\* Variant: only batches move the cursor.
BatchCursor(next, consumed) == IF consumed > cursor.consumed THEN [next |-> next, consumed |-> consumed] ELSE cursor

\* What an event's ID says; WebSocket frames have none.
EventCursor(next, consumed) == [next |-> next, consumed |-> consumed]

Advance(next, consumed) ==
  /\ start' = SeqNum(next)
  /\ cursor' = IF transport = "sse" THEN EventCursor(next, consumed) ELSE cursor

Refuse ==
  /\ pc' = "idle" /\ result' = "refused" /\ failed' = TRUE
  /\ UNCHANGED <<positionVars, finished, retries, delay>>

\* A batch; advance_read_options_for_batch.
RecvBatch ==
  /\ pc = "receiving" /\ conn.st = "live"
  /\ \E n \in 1..MaxBatch :
       /\ Deliverable(n)
       /\ conn' = [conn EXCEPT !.pos = Position + n, !.left = @ - n, !.consumed = @ + n]
       /\ IF BatchValid(Position, n)
            THEN /\ Advance(AfterBatch(Position, n), conn.consumed + n)
                 /\ left' = Remaining(n)
                 /\ got' = got \o [i \in 1..n |-> Position + i - 1]
                 /\ finished' = (left' = 0)
                 /\ retries' = 0 /\ delay' = FALSE
                 /\ pc' = "idle" /\ result' = "batch"
                 /\ UNCHANGED <<caughtUp, failed>>
            ELSE Refuse
  /\ UNCHANGED <<streamVars, optionVars, tries>>

\* Only an event stream counts a caught-up position as progress.
RecvCaughtUp ==
  /\ pc = "receiving" /\ conn.st = "live" /\ Reportable
  /\ conn' = [conn EXCEPT !.pos = TailPosition, !.reported = TailPosition]
  /\ IF CaughtUpValid(TailPosition)
       THEN /\ Advance(TailPosition, conn.consumed)
            /\ caughtUp' = TailPosition
            /\ retries' = IF transport = "sse" THEN 0 ELSE retries
            /\ UNCHANGED <<left, got, finished, delay, pc, result, failed>>
       ELSE Refuse
  /\ UNCHANGED <<streamVars, optionVars, tries>>

\* Variant: one reconnect too many.
LateLimit == retries >= Attempts

\* BoundedReadReconnects::next_delay refuses.
LimitReached == retries >= Attempts - 1

\* Variant: the reconnect that is due is forgotten with the call.
ForgottenReconnect == FALSE

\* require_reconnect keeps it until it is done; the event stream does not.
ReconnectDue == transport = "websocket"

\* The interruption has been reported and the connection is of no more use.
Interrupted ==
  /\ conn' = [conn EXCEPT !.st = "dead"]
  /\ IF LimitReached
       THEN /\ pc' = "idle" /\ result' = "error" /\ failed' = TRUE
            /\ UNCHANGED <<retries, delay>>
       ELSE /\ retries' = retries + 1
            /\ delay' = ReconnectDue
            /\ pc' = "reconnecting"
            /\ UNCHANGED <<result, failed>>
  /\ tries' = 0
  /\ UNCHANGED finished

Completed ==
  /\ finished' = TRUE /\ result' = "end" /\ pc' = "idle"
  /\ UNCHANGED <<retries, delay, tries, failed>>

\* A normal close, or the end of the body.
RecvEnd ==
  /\ pc = "receiving" /\ conn.st = "live"
  /\ \/ request.finite /\ ReadEnded /\ conn' = [conn EXCEPT !.st = "ended"] /\ Completed
     \/ ~request.finite /\ transport = "sse" /\ Interrupted
  /\ UNCHANGED <<streamVars, optionVars, positionVars>>

\* A resumable error.
RecvBroken ==
  /\ pc = "receiving" /\ conn.st = "broken"
  /\ Interrupted
  /\ UNCHANGED <<streamVars, optionVars, positionVars>>

\* A connection that has reported its error is read again: it is at its end, or,
\* for a body, fails once more.
RecvDead ==
  /\ pc = "receiving" /\ conn.st = "dead"
  /\ \/ (transport = "websocket" \/ request.finite) /\ Completed /\ UNCHANGED conn
     \/ transport = "sse" /\ Interrupted
  /\ UNCHANGED <<streamVars, optionVars, positionVars>>

\* A policy close or an error event, which end the connection, or a message of
\* no use to a reader, which need not.
RecvFatal ==
  /\ pc = "receiving" /\ conn.st = "live"
  /\ \E st \in {"live", "dead"} : conn' = [conn EXCEPT !.st = st]
  /\ pc' = "idle" /\ result' = "error" /\ failed' = TRUE
  /\ UNCHANGED <<streamVars, optionVars, positionVars, finished, retries, delay, tries>>

-----------------------------------------------------------------------------
(* reconnect: retry_transient around one connect attempt.                  *)

\* Variant: any completed handshake starts the count again.
FreshRetries == 0

\* A handshake alone is progress for the WebSocket session only.
RetriesAfterHandshake == IF transport = "websocket" THEN 0 ELSE retries

\* Last-Event-ID overrides the start and says what is consumed.
Reopened ==
  IF transport = "websocket" THEN Connection(start, left, 0)
  ELSE IF cursor = NoCursor THEN Connection(request.start, request.count, 0)
  ELSE Connection(SeqNum(cursor.next), request.count - cursor.consumed, cursor.consumed)

ConnectOk ==
  /\ pc = "reconnecting"
  /\ conn' = Reopened
  /\ retries' = RetriesAfterHandshake
  /\ delay' = FALSE
  /\ pc' = "receiving"
  /\ UNCHANGED <<streamVars, optionVars, positionVars, finished, tries, result, failed>>

ConnectFails ==
  /\ pc = "reconnecting"
  /\ \/ /\ tries + 1 < Attempts
        /\ tries' = tries + 1
        /\ UNCHANGED <<pc, result>>
     \/ /\ tries + 1 = Attempts
        /\ pc' = "idle" /\ result' = "error"
        /\ UNCHANGED tries
  /\ UNCHANGED <<streamVars, conn, optionVars, positionVars, finished, retries, delay,
                 failed>>

\* Not retryable: an authorization failure, another stream or kind.
ConnectRefused ==
  /\ pc = "reconnecting"
  /\ pc' = "idle" /\ result' = "error" /\ failed' = TRUE
  /\ UNCHANGED <<streamVars, conn, optionVars, positionVars, finished, retries, delay,
                 tries>>

Session == \/ CallEnds \/ Call \/ Cancel \/ RecvBatch \/ RecvCaughtUp \/ RecvEnd
           \/ RecvBroken \/ RecvDead \/ RecvFatal
           \/ ConnectOk \/ ConnectFails \/ ConnectRefused

Next == Session \/ AppendRecord \/ Break

Spec == Init /\ [][Next]_vars

-----------------------------------------------------------------------------
(* Properties.                                                             *)

Selectors == [kind : {"seq", "timestamp", "tail"}, n : Nat]
Positions == Nat \cup {NoPosition}

(* Every variable has its type; the reconnects without progress stay       *)
(* within bounded_operation_attempts, the initial connection included.     *)
TypeOK ==
  /\ log \in Seq(Times) /\ opened \in 0..Len(log) /\ transport \in Transports
  /\ conn \in [st : {"live", "broken", "dead", "ended"}, selector : Selectors,
               pos : Positions, left : Nat, consumed : Nat, tail : Nat,
               reported : Positions]
  /\ request \in [start : Starts, count : Counts, until : Untils, finite : BOOLEAN]
  /\ start \in Selectors /\ left \in Nat
  /\ cursor \in [next : Positions, consumed : Nat] /\ caughtUp \in Positions
  /\ {finished, delay, failed} \subseteq BOOLEAN
  /\ retries \in 0..(Attempts - 1) /\ tries \in 0..(Attempts - 1)
  /\ pc \in {"idle", "receiving", "reconnecting"}
  /\ got \in Seq(Nat)
  /\ result \in {"none", "batch", "end", "error", "refused"}

(* What a session delivers over all its connections, with calls given up   *)
(* in between, is one contiguous run of the stream from where its selector *)
(* pointed: no record twice, none left out, and none skipped in front that *)
(* the selector asked for.  The session's position is right behind it.     *)
Contiguous ==
  /\ \A i \in DOMAIN got : got[i] = got[1] + i - 1 /\ got[i] < Len(log)
  /\ got # <<>> =>
       /\ start = SeqNum(got[Len(got)] + 1)
       /\ request.start.kind = "seq" => got[1] = request.start.n
       /\ request.start.kind = "timestamp" =>
            \A s \in 0..(got[1] - 1) : Time(s) < request.start.n
       /\ request.start.kind = "tail" => got[1] >= opened - request.start.n

(* The stop conditions hold for the read as a whole: a reconnect does not  *)
(* start the count again.                                                  *)
WithinStops ==
  /\ Len(got) <= request.count
  /\ \A i \in DOMAIN got : Time(got[i]) < request.until

(* What a conforming service sends is accepted: the position, the count    *)
(* and the cursor the client checks against are those it asked with,       *)
(* through every sequence of interruptions and calls given up.             *)
ConformingAccepted == result # "refused"

\* The end of the read has been told although nothing ended it.
FalseEnd ==
  /\ result = "end" /\ ~failed
  /\ ~Exhausted /\ left > 0 /\ conn.st # "ended"

(* A WebSocket session reports the end of a read only when the service     *)
(* ended it, a stop condition did, or an error has been reported that is   *)
(* final: an interruption whose reconnect failed, or was given up with the *)
(* call, is still an interruption in the next call.                        *)
WebSocketEndsHonestly == transport = "websocket" => ~FalseEnd

(* The same of an SSE session, which provides the same resumable read      *)
(* contract (rust/README.md).                                              *)
SseEndsHonestly == transport = "sse" => ~FalseEnd

(* Within one call an SSE session does not reconnect for ever to a service *)
(* that completes handshakes and delivers nothing.                         *)
SseRetriesEnd ==
  (transport = "sse" /\ []<><<ConnectOk>>_vars)
    => []<>(pc = "idle") \/ []<><<RecvBatch \/ RecvCaughtUp>>_vars
=============================================================================
