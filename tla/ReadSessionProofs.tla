--------------------------- MODULE ReadSessionProofs ---------------------------
(***************************************************************************)
(* A session delivers one contiguous run of the stream, for every log,     *)
(* selector, stop condition, size of a batch and number of attempts:       *)
(* ReadInv, which relates the session's position to the live connection's, *)
(* is inductive.                                                           *)
(***************************************************************************)
EXTENDS ReadSession, SequenceTheorems, WellFoundedInduction, TLAPS

\* A position the read may begin at, by the selector it was asked for.
Anchor(p) ==
  /\ request.start.kind = "seq" => p = request.start.n
  /\ request.start.kind = "timestamp" =>
       \A s \in 0..(p - 1) : s < Len(log) /\ Time(s) < request.start.n
  /\ request.start.kind = "tail" => p >= opened - request.start.n

\* What is delivered, and the session's position, count and cursor behind it.
PositionOK ==
  /\ \A i \in DOMAIN got :
       got[i] = got[1] + i - 1 /\ got[i] < Len(log) /\ Time(got[i]) < request.until
  /\ got # <<>> => Anchor(got[1]) /\ start = SeqNum(got[Len(got)] + 1)
  /\ start.kind = "seq" /\ got = <<>> => Anchor(start.n)
  /\ start.kind # "seq" => start = request.start /\ got = <<>>
  /\ left + Len(got) = request.count
  /\ cursor # NoCursor => transport = "sse" /\ start = SeqNum(cursor.next)
  /\ transport = "sse" =>
       cursor.consumed = Len(got) /\ (cursor = NoCursor => start = request.start)

FirstMatch(p) ==
  p < Len(log) /\ Time(p) >= start.n /\ \A s \in 0..(p - 1) : Time(s) < start.n

\* A live connection is where the session is.
ConnOK ==
  conn.st = "live" =>
    /\ conn.left = left
    /\ transport = "sse" => conn.consumed = cursor.consumed
    /\ start.kind = "seq" => conn.pos = start.n
    /\ start.kind = "timestamp" =>
         conn.selector = start /\ (conn.pos # NoPosition => FirstMatch(conn.pos))
    /\ start.kind = "tail" => conn.pos # NoPosition /\ conn.pos >= opened - start.n

\* A reconnect that is due is not forgotten, and the end is not made up.
FlowOK ==
  /\ finished => pc = "idle"
  /\ pc = "receiving" => ~delay
  /\ transport = "websocket" =>
       /\ result = "end" => finished
       /\ finished => failed \/ Exhausted \/ left = 0 \/ conn.st = "ended"
       /\ conn.st = "dead" => delay \/ failed
  /\ result # "refused"

ReadInv == TypeOK /\ PositionOK /\ ConnOK /\ FlowOK

-----------------------------------------------------------------------------
(* Constants, sequences and selectors.                                     *)

LEMMA Bounds ==
  /\ Attempts \in Nat \ {0} /\ MaxBatch \in Nat \ {0} /\ MaxTime \in Nat \ {0}
  /\ MaxRecords \in Nat /\ Starts \subseteq Selectors
  /\ Counts \subseteq Nat /\ Untils \subseteq Nat
BY ReadAssumption DEF Selectors

LEMMA SeqFacts ==
  ASSUME NEW S, NEW s \in Seq(S)
  PROVE  /\ Len(s) \in Nat /\ DOMAIN s = 1..Len(s)
         /\ \A i \in 1..Len(s) : s[i] \in S
         /\ (s = <<>>) <=> (Len(s) = 0)
OBVIOUS

LEMMA LogFacts ==
  ASSUME TypeOK
  PROVE  /\ Len(log) \in Nat /\ \A s \in 0..(Len(log) - 1) : Time(s) \in Nat
         /\ opened \in Nat /\ opened <= Len(log)
<1>1. log \in Seq(Times) /\ opened \in 0..Len(log)
  BY DEF TypeOK
<1>2. Len(log) \in Nat /\ \A i \in 1..Len(log) : log[i] \in Times
  BY <1>1, SeqFacts
<1>. QED BY <1>1, <1>2 DEF Time, Times

LEMMA GotFacts ==
  ASSUME TypeOK
  PROVE  /\ Len(got) \in Nat /\ DOMAIN got = 1..Len(got)
         /\ \A i \in 1..Len(got) : got[i] \in Nat
         /\ (got = <<>>) <=> (Len(got) = 0)
BY SeqFacts DEF TypeOK

LEMMA Least ==
  ASSUME NEW S \in SUBSET Nat, S # {}
  PROVE  \E m \in S : \A x \in S : m <= x
<1>1. PICK m \in S : \A x \in S : ~(<<x, m>> \in OpToRel(<, Nat))
  <2>1. PICK z : z \in S
    OBVIOUS
  <2>. QED BY <2>1, NatLessThanWellFounded, WFMin
<1>2. ASSUME NEW x \in S PROVE m <= x
  <2>1. x < m => <<x, m>> \in OpToRel(<, Nat)
    BY DEF OpToRel
  <2>2. ~(x < m)
    BY <1>1, <2>1
  <2>. QED BY <2>2
<1>. QED BY <1>2

LEMMA ResolvedFacts ==
  ASSUME TypeOK, NEW selector \in Selectors
  PROVE  LET p == Resolved(selector)
         IN /\ p \in Positions
            /\ selector.kind = "seq" => p = selector.n /\ p # NoPosition
            /\ selector.kind = "tail" => p # NoPosition /\ p >= opened - selector.n
            /\ selector.kind = "timestamp" =>
                 IF p = NoPosition
                 THEN \A s \in 0..(Len(log) - 1) : Time(s) < selector.n
                 ELSE /\ p \in Nat /\ p < Len(log) /\ Time(p) >= selector.n
                      /\ \A s \in 0..(p - 1) : Time(s) < selector.n
<1>1. /\ Len(log) \in Nat /\ opened \in Nat /\ opened <= Len(log) /\ selector.n \in Nat
      /\ selector.kind \in {"seq", "timestamp", "tail"}
      /\ \A s \in 0..(Len(log) - 1) : Time(s) \in Nat
  BY LogFacts DEF Selectors
<1>2. CASE selector.kind = "seq"
  BY <1>1, <1>2 DEF Resolved, Positions, NoPosition
<1>3. CASE selector.kind = "tail"
  BY <1>1, <1>3 DEF Resolved, Positions, NoPosition
<1>4. CASE selector.kind = "timestamp" /\ Matching(selector.n) = {}
  <2>1. Resolved(selector) = NoPosition
    BY <1>4 DEF Resolved
  <2>2. \A s \in 0..(Len(log) - 1) : Time(s) < selector.n
    <3>1. SUFFICES ASSUME NEW s \in 0..(Len(log) - 1), ~(Time(s) < selector.n) PROVE FALSE
      OBVIOUS
    <3>2. Time(s) >= selector.n
      <4>1. Time(s) \in Nat /\ selector.n \in Nat
        BY <1>1
      <4>. QED BY ONLY <3>1, <4>1
    <3>. QED BY <1>4, <3>2 DEF Matching
  <2>3. NoPosition \in Positions /\ selector.kind = "timestamp"
    BY <1>4 DEF Positions
  <2>. QED BY <2>1, <2>2, <2>3
<1>5. CASE selector.kind = "timestamp" /\ Matching(selector.n) # {}
  <2>. DEFINE M == Matching(selector.n)
              p == CHOOSE s \in M : \A r \in M : s <= r
  <2>1. M \subseteq Nat /\ \A s \in M : s < Len(log) /\ Time(s) >= selector.n
    BY <1>1 DEF Matching
  <2>2. p \in M /\ \A r \in M : p <= r
    BY <1>5, <2>1, Least
  <2>3. Resolved(selector) = p
    BY <1>5 DEF Resolved
  <2>. HIDE DEF p
  <2>4. ASSUME NEW s \in 0..(p - 1) PROVE Time(s) < selector.n
    <3>1. s \in 0..(Len(log) - 1) /\ s \notin M
      BY <1>1, <2>1, <2>2
    <3>. HIDE DEF M
    <3>. QED BY <1>1, <3>1 DEF M, Matching
  <2>. QED BY <1>1, <1>5, <2>1, <2>2, <2>3, <2>4 DEF Positions, NoPosition
<1>. QED BY <1>1, <1>2, <1>3, <1>4, <1>5

-----------------------------------------------------------------------------
(* The stream grows.                                                       *)

LEMMA LogGrows ==
  ASSUME TypeOK, AppendRecord
  PROVE  /\ log' \in Seq(Times) /\ Len(log') = Len(log) + 1
         /\ \A s \in Nat : s < Len(log) => log'[s + 1] = Time(s)
<1>1. PICK t \in Times : log' = Append(log, t)
  BY DEF AppendRecord
<1>2. log \in Seq(Times) /\ Len(log) \in Nat
  BY SeqFacts DEF TypeOK
<1>3. \A i \in 1..Len(log) : log'[i] = log[i]
  BY <1>1, <1>2, AppendProperties
<1>. QED BY <1>1, <1>2, <1>3, AppendProperties DEF Time

LEMMA AppendKeepsPosition ==
  ASSUME TypeOK, PositionOK, AppendRecord
  PROVE  PositionOK'
<1>1. /\ Len(log') = Len(log) + 1 /\ Len(log) \in Nat
      /\ \A s \in Nat : s < Len(log) => log'[s + 1] = Time(s)
  BY LogGrows, LogFacts
<1>2. UNCHANGED <<opened, optionVars, positionVars>>
  BY DEF AppendRecord
<1>3. DOMAIN got = 1..Len(got) /\ \A i \in 1..Len(got) : got[i] \in Nat
  BY GotFacts
<1>4. ASSUME NEW p \in Nat, Anchor(p) PROVE Anchor(p)'
  BY <1>1, <1>2, <1>4 DEF Anchor, Time, optionVars
<1>5. \A i \in DOMAIN got :
        got[i] < Len(log') /\ log'[got[i] + 1] = Time(got[i])
  BY <1>1, <1>3 DEF PositionOK
<1>6. /\ start' = start /\ got' = got /\ left' = left /\ cursor' = cursor
      /\ request' = request /\ transport' = transport
  BY <1>2 DEF optionVars, positionVars
<1>7. (got # <<>> => Anchor(got[1]))'
  <2>. SUFFICES ASSUME got # <<>> PROVE Anchor(got[1])'
    BY <1>6
  <2>1. PICK p \in Nat : p = got[1]
    BY GotFacts
  <2>2. Anchor(p)
    BY <2>1 DEF PositionOK, Anchor
  <2>3. Anchor(p)'
    BY <1>4, <2>2
  <2>. QED BY <1>6, <2>1, <2>3 DEF Anchor, Time
<1>8. (start.kind = "seq" /\ got = <<>> => Anchor(start.n))'
  <2>. SUFFICES ASSUME start.kind = "seq", got = <<>> PROVE Anchor(start.n)'
    BY <1>6
  <2>1. PICK p \in Nat : p = start.n
    BY DEF TypeOK, Selectors
  <2>2. Anchor(p)
    BY <2>1 DEF PositionOK, Anchor
  <2>3. Anchor(p)'
    BY <1>4, <2>2
  <2>. QED BY <1>6, <2>1, <2>3 DEF Anchor, Time
<1>9. (\A i \in DOMAIN got :
          got[i] = got[1] + i - 1 /\ got[i] < Len(log) /\ Time(got[i]) < request.until)'
  BY <1>5, <1>6 DEF PositionOK, Time
<1>. QED BY <1>6, <1>7, <1>8, <1>9 DEF PositionOK, SeqNum

LEMMA AppendKeeps ==
  ASSUME ReadInv, AppendRecord
  PROVE  ReadInv'
<1>1. TypeOK /\ PositionOK /\ ConnOK /\ FlowOK
  BY DEF ReadInv
<1>2. /\ log' \in Seq(Times) /\ Len(log') = Len(log) + 1 /\ Len(log) \in Nat
      /\ \A s \in Nat : s < Len(log) => log'[s + 1] = Time(s)
  BY <1>1, LogGrows, LogFacts
<1>3. UNCHANGED <<opened, conn, optionVars, positionVars, finished, retries, delay, pc,
                  tries, result, failed>>
  BY DEF AppendRecord
<1>4. TypeOK'
  <2>1. opened' \in 0..Len(log')
    BY <1>1, <1>2, <1>3 DEF TypeOK
  <2>. QED BY <1>1, <1>2, <1>3, <2>1 DEF TypeOK, optionVars, positionVars
<1>5. ConnOK'
  <2>1. conn.pos \in Positions
    BY <1>1 DEF TypeOK
  <2>2. ASSUME conn.pos # NoPosition, FirstMatch(conn.pos) PROVE FirstMatch(conn.pos)'
    BY <1>2, <1>3, <2>1, <2>2 DEF FirstMatch, Time, Positions, positionVars
  <2>. QED BY <1>1, <1>3, <2>2 DEF ConnOK, optionVars, positionVars
<1>6. FlowOK'
  BY <1>1, <1>3 DEF FlowOK, Exhausted, optionVars, positionVars
<1>. QED BY <1>1, <1>4, <1>5, <1>6, AppendKeepsPosition DEF ReadInv

-----------------------------------------------------------------------------
(* Steps that move neither the session nor a live connection.              *)

LEMMA QuietStep ==
  ASSUME PositionOK, ConnOK, UNCHANGED <<streamVars, optionVars, positionVars>>,
         conn' = conn \/ conn'.st # "live"
  PROVE  PositionOK' /\ ConnOK'
<1>1. PositionOK'
  BY DEF PositionOK, Anchor, Time, streamVars, optionVars, positionVars
<1>2. ConnOK'
  BY DEF ConnOK, FirstMatch, Time, streamVars, optionVars, positionVars
<1>. QED BY <1>1, <1>2

LEMMA BreakKeeps ==
  ASSUME ReadInv, Break
  PROVE  ReadInv'
<1>1. TypeOK /\ PositionOK /\ ConnOK /\ FlowOK
  BY DEF ReadInv
<1>2. conn.st = "live" /\ conn' = [conn EXCEPT !.st = "broken"]
  BY DEF Break
<1>3. TypeOK'
  BY <1>1, <1>2 DEF Break, TypeOK, streamVars, optionVars, positionVars
<1>4. conn'.st = "broken"
  BY <1>1, <1>2 DEF TypeOK
<1>5. FlowOK'
  BY <1>1, <1>2, <1>4 DEF Break, FlowOK, Exhausted, optionVars, positionVars
<1>6. PositionOK' /\ ConnOK'
  BY <1>1, <1>4, QuietStep DEF Break
<1>. QED BY <1>3, <1>5, <1>6 DEF ReadInv

LEMMA CallsKeep ==
  ASSUME ReadInv, CallEnds \/ Call \/ Cancel \/ ConnectFails \/ ConnectRefused
  PROVE  ReadInv'
<1>1. TypeOK /\ PositionOK /\ ConnOK /\ FlowOK
  BY DEF ReadInv
<1>2. UNCHANGED <<streamVars, optionVars, positionVars, conn>>
  BY DEF CallEnds, Call, Cancel, ConnectFails, ConnectRefused
<1>3. PositionOK' /\ ConnOK'
  BY <1>1, <1>2, QuietStep
<1>4. CASE CallEnds
  <2>1. TypeOK'
    BY <1>1, <1>4 DEF CallEnds, TypeOK, streamVars, optionVars, positionVars
  <2>2. FlowOK'
    BY <1>1, <1>4 DEF CallEnds, FlowOK, Exhausted, optionVars, positionVars
  <2>. QED BY <1>3, <2>1, <2>2 DEF ReadInv
<1>5. CASE Call
  <2>1. TypeOK'
    BY <1>1, <1>5, Bounds DEF Call, TypeOK, streamVars, optionVars, positionVars
  <2>2. FlowOK'
    BY <1>1, <1>5 DEF Call, FlowOK, Exhausted, optionVars, positionVars
  <2>. QED BY <1>3, <2>1, <2>2 DEF ReadInv
<1>6. CASE Cancel
  <2>1. TypeOK'
    BY <1>1, <1>6 DEF Cancel, TypeOK, streamVars, optionVars, positionVars
  <2>2. FlowOK'
    BY <1>1, <1>6 DEF Cancel, FlowOK, Exhausted, optionVars, positionVars
  <2>. QED BY <1>3, <2>1, <2>2 DEF ReadInv
<1>7. CASE ConnectFails
  <2>1. TypeOK'
    BY <1>1, <1>7, Bounds DEF ConnectFails, TypeOK, streamVars, optionVars, positionVars
  <2>2. FlowOK'
    BY <1>1, <1>7 DEF ConnectFails, FlowOK, Exhausted, optionVars, positionVars
  <2>. QED BY <1>3, <2>1, <2>2 DEF ReadInv
<1>8. CASE ConnectRefused
  <2>1. TypeOK'
    BY <1>1, <1>8 DEF ConnectRefused, TypeOK, streamVars, optionVars, positionVars
  <2>2. FlowOK'
    BY <1>1, <1>8 DEF ConnectRefused, FlowOK, Exhausted, optionVars, positionVars
  <2>. QED BY <1>3, <2>1, <2>2 DEF ReadInv
<1>. QED BY <1>4, <1>5, <1>6, <1>7, <1>8

LEMMA InterruptedKeeps ==
  ASSUME ReadInv, pc = "receiving", Interrupted,
         UNCHANGED <<streamVars, optionVars, positionVars>>
  PROVE  ReadInv'
<1>1. TypeOK /\ PositionOK /\ ConnOK /\ FlowOK
  BY DEF ReadInv
<1>2. conn' = [conn EXCEPT !.st = "dead"] /\ conn'.st = "dead"
  BY <1>1 DEF Interrupted, TypeOK
<1>3. TypeOK'
  <2>1. retries' \in 0..(Attempts - 1) /\ tries' \in 0..(Attempts - 1)
    <3>1. Attempts \in Nat \ {0} /\ retries \in 0..(Attempts - 1)
      BY <1>1, Bounds DEF TypeOK
    <3>2. retries' = retries \/ (~(retries >= Attempts - 1) /\ retries' = retries + 1)
      BY DEF Interrupted, LimitReached
    <3>3. tries' = 0
      BY DEF Interrupted
    <3>. QED BY <3>1, <3>2, <3>3
  <2>2. conn' \in [st : {"live", "broken", "dead", "ended"}, selector : Selectors,
                   pos : Positions, left : Nat, consumed : Nat, tail : Nat,
                   reported : Positions]
    BY <1>1, <1>2 DEF TypeOK
  <2>. QED BY <1>1, <2>1, <2>2 DEF Interrupted, ReconnectDue, TypeOK, streamVars,
                                  optionVars, positionVars
<1>4. FlowOK'
  BY <1>1, <1>2 DEF Interrupted, ReconnectDue, FlowOK, optionVars
<1>5. PositionOK' /\ ConnOK'
  BY <1>1, <1>2, QuietStep
<1>. QED BY <1>3, <1>4, <1>5 DEF ReadInv

LEMMA EndsKeep ==
  ASSUME ReadInv, RecvEnd \/ RecvBroken \/ RecvDead \/ RecvFatal
  PROVE  ReadInv'
<1>1. TypeOK /\ PositionOK /\ ConnOK /\ FlowOK /\ pc = "receiving"
  BY DEF ReadInv, RecvEnd, RecvBroken, RecvDead, RecvFatal
<1>2. UNCHANGED <<streamVars, optionVars, positionVars>>
  BY DEF RecvEnd, RecvBroken, RecvDead, RecvFatal
<1>3. CASE Interrupted
  BY <1>1, <1>2, <1>3, InterruptedKeeps
<1>4. CASE RecvEnd /\ conn' = [conn EXCEPT !.st = "ended"] /\ Completed
  <2>1. conn'.st = "ended"
    BY <1>1, <1>4 DEF TypeOK
  <2>2. TypeOK'
    BY <1>1, <1>2, <1>4 DEF Completed, TypeOK, streamVars, optionVars, positionVars
  <2>3. FlowOK'
    BY <1>1, <1>4, <2>1 DEF Completed, FlowOK
  <2>. QED BY <1>1, <1>2, <2>1, <2>2, <2>3, QuietStep DEF ReadInv
<1>5. CASE RecvDead /\ Completed /\ UNCHANGED conn
  <2>1. TypeOK'
    BY <1>1, <1>2, <1>5 DEF Completed, TypeOK, streamVars, optionVars, positionVars
  <2>2. FlowOK'
    BY <1>1, <1>2, <1>5 DEF Completed, RecvDead, FlowOK, optionVars
  <2>. QED BY <1>1, <1>2, <1>5, <2>1, <2>2, QuietStep DEF ReadInv
<1>6. CASE RecvFatal
  <2>1. PICK st \in {"live", "dead"} : conn' = [conn EXCEPT !.st = st]
    BY <1>6 DEF RecvFatal
  <2>2. conn.st = "live" /\ (conn' = conn \/ conn'.st # "live")
    BY <1>1, <1>6, <2>1 DEF RecvFatal, TypeOK
  <2>3. TypeOK'
    BY <1>1, <1>2, <1>6, <2>1 DEF RecvFatal, TypeOK, streamVars, optionVars, positionVars
  <2>4. FlowOK'
    BY <1>1, <1>2, <1>6 DEF RecvFatal, FlowOK, optionVars
  <2>. QED BY <1>1, <1>2, <2>2, <2>3, <2>4, QuietStep DEF ReadInv
<1>. QED BY <1>3, <1>4, <1>5, <1>6 DEF RecvEnd, RecvBroken, RecvDead

-----------------------------------------------------------------------------
(* A live connection is where the session is.                              *)

LEMMA WhereItIs ==
  ASSUME ReadInv, conn.st = "live", Position # NoPosition
  PROVE  /\ Position \in Nat
         /\ start.kind = "seq" => Position = start.n
         /\ start.kind = "timestamp" => FirstMatch(Position)
         /\ start.kind = "tail" => Position >= opened - start.n
<1>1. TypeOK /\ ConnOK /\ conn.selector \in Selectors /\ conn.pos \in Positions
  BY DEF ReadInv, TypeOK
<1>2. start \in Selectors /\ start.n \in Nat
  BY <1>1 DEF TypeOK, Selectors
<1>3. Position \in Nat
  BY <1>1, ResolvedFacts DEF Position, Positions
<1>4. CASE conn.pos # NoPosition
  BY <1>1, <1>3, <1>4 DEF Position, ConnOK
<1>5. CASE conn.pos = NoPosition
  <2>1. start.kind = "timestamp" /\ conn.selector = start
    BY <1>1, <1>2, <1>5 DEF ConnOK, NoPosition, Selectors
  <2>2. Position = Resolved(start)
    BY <1>5, <2>1 DEF Position
  <2>. QED BY <1>1, <1>2, <1>3, <2>1, <2>2, ResolvedFacts DEF FirstMatch
<1>. QED BY <1>4, <1>5

\* While nothing matches, the session still has the selector it began with.
LEMMA Unresolved ==
  ASSUME ReadInv, conn.st = "live", Position = NoPosition
  PROVE  /\ start.kind = "timestamp"
         /\ \A s \in 0..(Len(log) - 1) : Time(s) < start.n
<1>1. TypeOK /\ ConnOK /\ conn.pos = NoPosition /\ start \in Selectors
  BY DEF ReadInv, TypeOK, Position
<1>2. start.kind = "timestamp" /\ conn.selector = start
  BY <1>1 DEF ConnOK, NoPosition, Selectors
<1>3. Resolved(start) = NoPosition
  BY <1>1, <1>2 DEF Position
<1>. QED BY <1>1, <1>2, <1>3, ResolvedFacts

LEMMA SameCursor ==
  ASSUME ReadInv, conn.st = "live"
  PROVE  /\ transport = "sse" => conn.consumed = cursor.consumed
         /\ cursor # NoCursor => start.kind = "seq" /\ start.n = cursor.next
BY DEF ReadInv, ConnOK, PositionOK, SeqNum

LEMMA BatchAccepted ==
  ASSUME ReadInv, conn.st = "live", NEW n \in 1..MaxBatch, Deliverable(n)
  PROVE  BatchValid(Position, n)
<1>1. TypeOK /\ ConnOK /\ conn.left = left /\ Position # NoPosition
  BY DEF ReadInv, ConnOK, Deliverable
<1>2. StopHolds(Position, n)
  BY <1>1 DEF StopHolds, Deliverable
<1>3. StartHolds(Position)
  BY <1>1, WhereItIs DEF StartHolds, FirstMatch
<1>4. cursor # NoCursor => Position = cursor.next
  BY <1>1, SameCursor, WhereItIs
<1>. QED BY <1>2, <1>3, <1>4, SameCursor DEF BatchValid

LEMMA CaughtUpAccepted ==
  ASSUME ReadInv, conn.st = "live", Reportable
  PROVE  CaughtUpValid(TailPosition)
<1>1. start.kind = "seq" => TailPosition = start.n
  <2>1. start.kind = "seq" => Position # NoPosition
    BY Unresolved
  <2>. QED BY <2>1, WhereItIs DEF TailPosition
<1>. QED BY <1>1, SameCursor DEF CaughtUpValid

-----------------------------------------------------------------------------
(* The connection delivers.                                                *)

LEMMA BatchKeeps ==
  ASSUME ReadInv, RecvBatch
  PROVE  ReadInv'
<1>1. TypeOK /\ PositionOK /\ ConnOK /\ FlowOK /\ conn.st = "live"
  BY DEF ReadInv, RecvBatch
<1>2. PICK n \in 1..MaxBatch :
        /\ Deliverable(n)
        /\ conn' = [conn EXCEPT !.pos = Position + n, !.left = @ - n, !.consumed = @ + n]
        /\ BatchValid(Position, n)
        /\ Advance(AfterBatch(Position, n), conn.consumed + n)
        /\ left' = Remaining(n)
        /\ got' = got \o [i \in 1..n |-> Position + i - 1]
        /\ finished' = (left' = 0)
        /\ retries' = 0 /\ delay' = FALSE
        /\ pc' = "idle" /\ result' = "batch"
        /\ UNCHANGED <<caughtUp, failed>>
  BY <1>1, BatchAccepted DEF RecvBatch
<1>3. PICK p : p = Position
  OBVIOUS
<1>4. p \in Nat /\ n \in Nat /\ n > 0 /\ n <= left /\ p # NoPosition
  BY <1>1, <1>2, <1>3, Bounds, WhereItIs DEF Deliverable, ConnOK
<1>5. /\ p + n <= Len(log) /\ \A s \in p..(p + n - 1) : Time(s) < request.until
  BY <1>2, <1>3 DEF Deliverable
<1>6. /\ start' = SeqNum(p + n) /\ left' = left - n
      /\ cursor' = IF transport = "sse" THEN [next |-> p + n, consumed |-> conn.consumed + n]
                   ELSE cursor
      /\ got' = got \o [i \in 1..n |-> p + i - 1]
  BY <1>2, <1>3 DEF Advance, AfterBatch, EventCursor, Remaining
<1>7. /\ UNCHANGED <<log, opened, transport, request, tries, caughtUp, failed>>
      /\ pc = "receiving"
  BY <1>2 DEF RecvBatch, streamVars, optionVars
<1>8. /\ conn.st = "live" /\ conn.left = left /\ conn.consumed \in Nat /\ left \in Nat
      /\ transport = "sse" => conn.consumed = cursor.consumed
  BY <1>1 DEF ConnOK, TypeOK
<1>9. conn' = [conn EXCEPT !.pos = p + n, !.left = left - n, !.consumed = conn.consumed + n]
  BY <1>2, <1>3, <1>8
<1>10. /\ conn'.pos = p + n /\ conn'.left = left - n /\ conn'.st = "live"
       /\ conn'.consumed = conn.consumed + n
  BY <1>1, <1>8, <1>9 DEF TypeOK
<1>11. PICK m \in Nat : m = Len(got)
  BY <1>1, GotFacts
<1>12. /\ Len(got') = m + n /\ got' \in Seq(Nat) /\ DOMAIN got' = 1..(m + n)
       /\ \A i \in 1..m : got'[i] = got[i]
       /\ \A i \in (m + 1)..(m + n) : got'[i] = p + (i - m) - 1
  <2>. DEFINE more == [i \in 1..n |-> p + i - 1]
  <2>1. more \in Seq(Nat) /\ Len(more) = n
    BY <1>4
  <2>2. got \in Seq(Nat)
    BY <1>1 DEF TypeOK
  <2>3. \A i \in 1..n : more[i] = p + i - 1
    OBVIOUS
  <2>. HIDE DEF more
  <2>4. got' = got \o more
    BY <1>6 DEF more
  <2>5. /\ Len(got') = m + n /\ got' \in Seq(Nat)
        /\ \A i \in 1..(m + n) : got'[i] = IF i <= m THEN got[i] ELSE more[i - m]
    BY <1>4, <1>11, <2>1, <2>2, <2>4, ConcatProperties
  <2>6. \A i \in (m + 1)..(m + n) : got'[i] = p + (i - m) - 1
    <3>. SUFFICES ASSUME NEW i \in (m + 1)..(m + n)
                  PROVE  got'[i] = p + (i - m) - 1
      OBVIOUS
    <3>1. i \in 1..(m + n) /\ ~(i <= m) /\ i - m \in 1..n
      BY <1>4, <1>11
    <3>2. got'[i] = more[i - m] /\ more[i - m] = p + (i - m) - 1
      BY <2>3, <2>5, <3>1
    <3>. QED BY <3>2
  <2>7. \A i \in 1..m : got'[i] = got[i]
    BY <1>4, <1>11, <2>5
  <2>8. DOMAIN got' = 1..(m + n)
    BY <2>5
  <2>. QED BY <2>5, <2>6, <2>7, <2>8
<1>13. TypeOK'
  <2>1. conn' \in [st : {"live", "broken", "dead", "ended"}, selector : Selectors,
                   pos : Positions, left : Nat, consumed : Nat, tail : Nat,
                   reported : Positions]
    <3>1. /\ p + n \in Positions /\ left - n \in Nat /\ conn.consumed + n \in Nat
      BY <1>4, <1>8 DEF Positions
    <3>2. PICK pos \in Positions, rest \in Nat, consumed \in Nat :
            conn' = [conn EXCEPT !.pos = pos, !.left = rest, !.consumed = consumed]
      BY <1>9, <3>1
    <3>. QED BY <1>1, <3>2 DEF TypeOK
  <2>2. start' \in Selectors /\ left' \in Nat /\ cursor' \in [next : Positions, consumed : Nat]
    BY <1>1, <1>4, <1>6, <1>8 DEF TypeOK, Selectors, SeqNum, Positions
  <2>3. retries' \in 0..(Attempts - 1) /\ finished' \in BOOLEAN /\ delay' \in BOOLEAN
    <3>. 0 \in 0..(Attempts - 1)
      BY Bounds
    <3>1. retries' \in 0..(Attempts - 1) /\ delay' \in BOOLEAN
      BY <1>2
    <3>2. finished' = TRUE \/ finished' = FALSE
      BY <1>2
    <3>. QED BY <3>1, <3>2
  <2>4. pc' \in {"idle", "receiving", "reconnecting"}
        /\ result' \in {"none", "batch", "end", "error", "refused"}
    BY <1>2
  <2>. QED BY <1>1, <1>7, <1>12, <2>1, <2>2, <2>3, <2>4 DEF TypeOK
<1>14. PositionOK'
  <2>1. PICK first \in Nat : first = got'[1]
    BY <1>4, <1>12
  <2>2. ASSUME m = 0 PROVE Anchor(first) /\ p = first + m
    <3>1. got = <<>> /\ first = p
      BY <1>1, <1>4, <1>11, <1>12, <2>1, <2>2, GotFacts
    <3>2. Anchor(p)
      <4>1. CASE start.kind = "seq"
        BY <1>1, <1>3, <1>4, <3>1, <4>1, WhereItIs DEF PositionOK, Anchor
      <4>2. CASE start.kind # "seq"
        BY <1>1, <1>3, <1>4, <3>1, <4>2, WhereItIs, LogFacts
           DEF PositionOK, Anchor, FirstMatch
      <4>. QED BY <4>1, <4>2
    <3>. QED BY <2>1, <2>2, <3>1, <3>2
  <2>3. ASSUME m > 0 PROVE Anchor(first) /\ p = first + m
    <3>1. got # <<>> /\ first = got[1] /\ got[m] \in Nat /\ m \in DOMAIN got
      BY <1>1, <1>11, <1>12, <2>1, <2>3, GotFacts
    <3>2. Anchor(first) /\ start = SeqNum(got[m] + 1) /\ got[m] = first + m - 1
      BY <1>1, <1>11, <3>1 DEF PositionOK
    <3>3. p = first + m
      BY <1>1, <1>3, <1>4, <2>3, <3>1, <3>2, WhereItIs DEF SeqNum
    <3>. QED BY <3>2, <3>3
  <2>4. Anchor(first) /\ p = first + m
    BY <1>11, <2>2, <2>3
  <2>5. ASSUME NEW i \in 1..(m + n)
        PROVE  /\ got'[i] = first + i - 1
               /\ got'[i] < Len(log) /\ Time(got'[i]) < request.until
    <3>1. CASE i <= m
      <4>1. i \in 1..m /\ 1 \in 1..m
        BY <1>4, <1>11, <3>1
      <4>2. i \in DOMAIN got /\ got'[i] = got[i] /\ 1 \in DOMAIN got /\ got[1] = first
        <5>1. DOMAIN got = 1..m
          BY <1>1, <1>11, GotFacts
        <5>2. got'[i] = got[i] /\ got'[1] = got[1]
          BY <1>12, <4>1
        <5>. QED BY <2>1, <4>1, <5>1, <5>2
      <4>. QED BY <1>1, <4>2 DEF PositionOK
    <3>2. CASE i > m
      <4>1. PICK k \in Nat : k = got'[i]
        BY <1>4, <1>12
      <4>2. k = p + (i - m) - 1 /\ k = first + i - 1 /\ k \in p..(p + n - 1)
        <5>1. i \in (m + 1)..(m + n)
          BY <1>4, <1>11, <3>2
        <5>2. k = p + (i - m) - 1
          BY <1>12, <4>1, <5>1
        <5>3. p \in Nat /\ n \in Nat /\ m \in Nat /\ first \in Nat /\ p = first + m
          BY <1>4, <2>4
        <5>4. i \in Int /\ m + 1 <= i /\ i <= m + n
          BY <5>1, <5>3
        <5>5. k = first + i - 1
          BY <5>2, <5>3, <5>4
        <5>6. k \in p..(p + n - 1)
          BY <5>2, <5>3, <5>4
        <5>. QED BY <5>2, <5>5, <5>6
      <4>3. Len(log) \in Nat
        BY <1>1, LogFacts
      <4>. QED BY <1>4, <1>5, <4>1, <4>2, <4>3
    <3>. QED BY <1>11, <3>1, <3>2
  <2>6. (\A i \in DOMAIN got :
           got[i] = got[1] + i - 1 /\ got[i] < Len(log) /\ Time(got[i]) < request.until)'
    BY <1>7, <1>12, <2>1, <2>5 DEF Time
  <2>7. (got # <<>> => Anchor(got[1]) /\ start = SeqNum(got[Len(got)] + 1))'
    <3>1. got'[Len(got')] + 1 = p + n
      <4>1. m \in Nat /\ n \in Nat /\ n > 0 /\ p \in Nat
        BY <1>4, <1>11
      <4>2. m + n \in (m + 1)..(m + n) /\ (m + n) - m = n
        BY <4>1
      <4>3. got'[m + n] = p + ((m + n) - m) - 1
        BY <1>12, <4>2
      <4>. QED BY <1>12, <4>1, <4>2, <4>3
    <3>2. Anchor(got[1])'
      BY <1>7, <2>1, <2>4 DEF Anchor, Time
    <3>. QED BY <1>6, <3>1, <3>2 DEF SeqNum
  <2>8. got' # <<>> /\ start'.kind = "seq"
    <3>1. got' # <<>>
      BY <1>4, <1>11, <1>12, SeqFacts
    <3>. QED BY <1>6, <3>1 DEF SeqNum
  <2>9. left' + Len(got') = request'.count
    <3>1. left + m = request.count
      BY <1>1, <1>11 DEF PositionOK
    <3>. QED BY <1>4, <1>6, <1>7, <1>8, <1>11, <1>12, <3>1
  <2>10. cursor' # NoCursor => transport' = "sse" /\ start' = SeqNum(cursor'.next)
    BY <1>1, <1>6, <1>7 DEF PositionOK, SeqNum
  <2>11. transport' = "sse" =>
           cursor'.consumed = Len(got') /\ (cursor' = NoCursor => start' = request'.start)
    <3>1. transport = "sse" => cursor.consumed = m /\ cursor' # NoCursor
      BY <1>1, <1>4, <1>6, <1>8, <1>11 DEF PositionOK, NoCursor, NoPosition
    <3>. QED BY <1>4, <1>6, <1>7, <1>8, <1>11, <1>12, <3>1
  <2>. QED BY <2>6, <2>7, <2>8, <2>9, <2>10, <2>11 DEF PositionOK, SeqNum
<1>15. ConnOK'
  BY <1>4, <1>6, <1>7, <1>8, <1>10 DEF ConnOK, SeqNum
<1>16. FlowOK'
  BY <1>2, <1>7, <1>10 DEF FlowOK
<1>. QED BY <1>13, <1>14, <1>15, <1>16 DEF ReadInv

LEMMA CaughtUpKeeps ==
  ASSUME ReadInv, RecvCaughtUp
  PROVE  ReadInv'
<1>1. TypeOK /\ PositionOK /\ ConnOK /\ FlowOK /\ conn.st = "live"
  BY DEF ReadInv, RecvCaughtUp
<1>2. /\ Reportable /\ pc = "receiving"
      /\ conn' = [conn EXCEPT !.pos = TailPosition, !.reported = TailPosition]
      /\ Advance(TailPosition, conn.consumed) /\ caughtUp' = TailPosition
      /\ retries' = IF transport = "sse" THEN 0 ELSE retries
      /\ UNCHANGED <<left, got, finished, delay, pc, result, failed>>
      /\ UNCHANGED <<streamVars, optionVars, tries>>
  BY <1>1, CaughtUpAccepted DEF RecvCaughtUp
<1>3. TailPosition = Len(log) /\ Len(log) \in Nat
  BY <1>1, <1>2, LogFacts DEF Reportable
<1>4. PICK p \in Nat : p = Len(log)
  BY <1>3
<1>5. /\ start' = SeqNum(p)
      /\ cursor' = IF transport = "sse" THEN [next |-> p, consumed |-> conn.consumed]
                   ELSE cursor
      /\ conn' = [conn EXCEPT !.pos = p, !.reported = p] /\ caughtUp' = p
  BY <1>2, <1>3, <1>4 DEF Advance, EventCursor
<1>6. /\ UNCHANGED <<log, opened, transport, request, tries, got, left, finished, failed>>
      /\ UNCHANGED <<delay, pc, result>>
  BY <1>2 DEF streamVars, optionVars
<1>7. /\ conn'.pos = p /\ conn'.left = conn.left /\ conn'.st = "live"
      /\ conn'.consumed = conn.consumed
  BY <1>1, <1>5 DEF TypeOK
<1>8. TypeOK'
  <2>1. conn' \in [st : {"live", "broken", "dead", "ended"}, selector : Selectors,
                   pos : Positions, left : Nat, consumed : Nat, tail : Nat,
                   reported : Positions]
    BY <1>1, <1>5 DEF TypeOK, Positions
  <2>2. start' \in Selectors /\ cursor' \in [next : Positions, consumed : Nat]
        /\ caughtUp' \in Positions
    <3>1. SeqNum(p) \in Selectors /\ p \in Positions
      BY DEF Selectors, SeqNum, Positions
    <3>2. conn.consumed \in Nat /\ cursor \in [next : Positions, consumed : Nat]
      BY <1>1 DEF TypeOK
    <3>. QED BY <1>5, <3>1, <3>2
  <2>3. retries' \in 0..(Attempts - 1)
    BY <1>1, <1>2, Bounds DEF TypeOK
  <2>. QED BY <1>1, <1>6, <2>1, <2>2, <2>3 DEF TypeOK
<1>9. PositionOK'
  <2>1. got # <<>> => p = got[Len(got)] + 1
    <3>1. got # <<>> => start = SeqNum(got[Len(got)] + 1) /\ got[Len(got)] \in Nat
      BY <1>1, GotFacts DEF PositionOK
    <3>2. start.kind = "seq" => p = start.n
      <4>1. start.kind = "seq" => Position # NoPosition
        BY <1>1, Unresolved
      <4>. QED BY <1>1, <1>3, <1>4, <4>1, WhereItIs DEF TailPosition
    <3>. QED BY <3>1, <3>2 DEF SeqNum
  <2>2. got = <<>> => Anchor(p)
    <3>. SUFFICES ASSUME got = <<>> PROVE Anchor(p)
      OBVIOUS
    <3>1. CASE Position = NoPosition
      <4>1. start.kind = "timestamp" /\ request.start = start
        BY <1>1, <3>1, Unresolved DEF PositionOK
      <4>. QED BY <1>1, <1>4, <3>1, <4>1, Unresolved DEF Anchor
    <3>2. CASE Position # NoPosition
      <4>1. Position = p
        BY <1>3, <1>4, <3>2 DEF TailPosition
      <4>2. start.kind # "timestamp"
        BY <1>1, <1>4, <3>2, <4>1, WhereItIs DEF FirstMatch
      <4>3. CASE start.kind = "seq"
        BY <1>1, <3>2, <4>1, <4>3, WhereItIs DEF PositionOK
      <4>4. CASE start.kind = "tail"
        BY <1>1, <3>2, <4>1, <4>4, WhereItIs DEF PositionOK, Anchor
      <4>5. start.kind \in {"seq", "timestamp", "tail"}
        BY <1>1 DEF TypeOK, Selectors
      <4>. QED BY <4>2, <4>3, <4>4, <4>5
    <3>. QED BY <3>1, <3>2
  <2>3. (\A i \in DOMAIN got :
           got[i] = got[1] + i - 1 /\ got[i] < Len(log) /\ Time(got[i]) < request.until)'
    BY <1>1, <1>6 DEF PositionOK, Time
  <2>4. (got # <<>> => Anchor(got[1]) /\ start = SeqNum(got[Len(got)] + 1))'
    BY <1>1, <1>5, <1>6, <2>1 DEF PositionOK, Anchor, Time, SeqNum
  <2>5. start'.kind = "seq" /\ start'.n = p
    BY <1>5 DEF SeqNum
  <2>6. (start.kind = "seq" /\ got = <<>> => Anchor(start.n))'
    BY <1>6, <2>2, <2>5 DEF Anchor, Time
  <2>7. left' + Len(got') = request'.count
    BY <1>1, <1>6 DEF PositionOK
  <2>8. cursor' # NoCursor => transport' = "sse" /\ start' = SeqNum(cursor'.next)
    BY <1>1, <1>5, <1>6 DEF PositionOK, SeqNum
  <2>9. transport' = "sse" =>
          cursor'.consumed = Len(got') /\ (cursor' = NoCursor => start' = request'.start)
    <3>1. transport = "sse" => cursor'.consumed = Len(got)
      BY <1>1, <1>5 DEF ConnOK, PositionOK
    <3>2. transport = "sse" => cursor'.next = p
      BY <1>5
    <3>3. NoCursor.next = NoPosition /\ NoPosition # p
      BY DEF NoCursor, NoPosition
    <3>. QED BY <1>6, <3>1, <3>2, <3>3
  <2>. QED BY <2>3, <2>4, <2>5, <2>6, <2>7, <2>8, <2>9 DEF PositionOK
<1>10. ConnOK'
  BY <1>1, <1>5, <1>6, <1>7 DEF ConnOK, SeqNum
<1>11. FlowOK'
  <2>1. finished = FALSE
    BY <1>1, <1>2 DEF FlowOK, TypeOK
  <2>. QED BY <1>1, <1>6, <1>7, <2>1 DEF FlowOK
<1>. QED BY <1>8, <1>9, <1>10, <1>11 DEF ReadInv

-----------------------------------------------------------------------------
(* The read is opened again.                                               *)

LEMMA ConnectKeeps ==
  ASSUME ReadInv, ConnectOk
  PROVE  ReadInv'
<1>1. TypeOK /\ PositionOK /\ ConnOK /\ FlowOK
  BY DEF ReadInv
<1>2. /\ pc = "reconnecting" /\ conn' = Reopened /\ retries' = RetriesAfterHandshake
      /\ delay' = FALSE /\ pc' = "receiving"
      /\ UNCHANGED <<log, opened, transport, request, start, left, cursor, caughtUp, got>>
      /\ UNCHANGED <<finished, tries, result, failed>>
  BY DEF ConnectOk, streamVars, optionVars, positionVars
<1>3. /\ start \in Selectors /\ left \in Nat /\ Len(log) \in Nat
      /\ cursor.next \in Positions /\ cursor.consumed \in Nat /\ request.count \in Nat
      /\ transport \in {"websocket", "sse"}
  BY <1>1, LogFacts, ReadAssumption DEF TypeOK
<1>4. PICK consumed \in Nat :
        /\ Reopened = Connection(start, left, consumed)
        /\ transport = "sse" => consumed = cursor.consumed
  <2>1. CASE transport = "websocket"
    BY <2>1 DEF Reopened
  <2>2. CASE transport = "sse" /\ cursor = NoCursor
    <3>1. cursor.consumed = 0 /\ Len(got) = 0 /\ start = request.start
      BY <1>1, <2>2 DEF PositionOK, NoCursor
    <3>2. request.count = left
      BY <1>1, <1>3, <3>1 DEF PositionOK
    <3>. QED BY <2>2, <3>1, <3>2 DEF Reopened
  <2>3. CASE transport = "sse" /\ cursor # NoCursor
    <3>1. start = SeqNum(cursor.next) /\ cursor.consumed = Len(got)
      BY <1>1, <2>3 DEF PositionOK
    <3>2. request.count - cursor.consumed = left
      BY <1>1, <1>3, <3>1 DEF PositionOK
    <3>. QED BY <1>3, <2>3, <3>1, <3>2 DEF Reopened
  <2>. QED BY <1>3, <2>1, <2>2, <2>3
<1>5. conn' = [st |-> "live", selector |-> start, pos |-> Resolved(start), left |-> left,
               consumed |-> consumed, tail |-> Len(log), reported |-> NoPosition]
  BY <1>2, <1>4 DEF Connection
<1>6. Resolved(start) \in Positions /\ NoPosition \in Positions
  BY <1>1, <1>3, ResolvedFacts DEF Positions
<1>7. TypeOK'
  <2>1. conn' \in [st : {"live", "broken", "dead", "ended"}, selector : Selectors,
                   pos : Positions, left : Nat, consumed : Nat, tail : Nat,
                   reported : Positions]
    BY <1>3, <1>5, <1>6
  <2>2. retries' \in 0..(Attempts - 1)
    BY <1>1, <1>2, Bounds DEF RetriesAfterHandshake, TypeOK
  <2>. QED BY <1>1, <1>2, <2>1, <2>2 DEF TypeOK
<1>8. PositionOK'
  BY <1>1, <1>2 DEF PositionOK, Anchor, Time
<1>9. ConnOK'
  <2>1. /\ conn'.left = left /\ conn'.consumed = consumed /\ conn'.selector = start
        /\ conn'.pos = Resolved(start)
    BY <1>5
  <2>2. start.kind = "timestamp" /\ Resolved(start) # NoPosition
          => FirstMatch(Resolved(start))
    BY <1>1, <1>3, ResolvedFacts DEF FirstMatch
  <2>3. start.kind = "timestamp" /\ Resolved(start) # NoPosition
          => FirstMatch(Resolved(start))'
    BY <1>2, <2>2 DEF FirstMatch, Time, Resolved, Matching
  <2>4. /\ start.kind = "seq" => Resolved(start) = start.n
        /\ start.kind = "tail" =>
             Resolved(start) # NoPosition /\ Resolved(start) >= opened - start.n
    BY <1>1, <1>3, ResolvedFacts
  <2>5. FirstMatch(conn.pos)' <=> FirstMatch(Resolved(start))
    BY <1>2, <2>1 DEF FirstMatch, Time
  <2>. QED BY <1>2, <1>4, <2>1, <2>2, <2>4, <2>5 DEF ConnOK
<1>10. FlowOK'
  <2>1. finished = FALSE /\ conn'.st = "live"
    BY <1>1, <1>2, <1>5 DEF FlowOK, TypeOK
  <2>. QED BY <1>1, <1>2, <2>1 DEF FlowOK
<1>. QED BY <1>7, <1>8, <1>9, <1>10 DEF ReadInv

-----------------------------------------------------------------------------

LEMMA InitInv == Init => ReadInv
<1>. SUFFICES ASSUME Init PROVE ReadInv
  OBVIOUS
<1>1. PICK n \in 0..MaxRecords : log \in [1..n -> Times]
  BY DEF Init
<1>2. log \in Seq(Times) /\ Len(log) \in Nat
  BY <1>1, Bounds
<1>3. /\ opened = Len(log) /\ transport \in Transports
      /\ request \in [start : Starts, count : Counts, until : Untils, finite : BOOLEAN]
      /\ conn = Connection(request.start, request.count, 0)
      /\ start = request.start /\ left = request.count
      /\ cursor = NoCursor /\ caughtUp = NoPosition
      /\ finished = FALSE /\ retries = 0 /\ delay = FALSE
      /\ pc = "idle" /\ tries = 0
      /\ got = <<>> /\ result = "none" /\ failed = FALSE
  BY DEF Init
<1>4. start \in Selectors /\ left \in Nat
  BY <1>3, Bounds
<1>5. Resolved(start) \in Positions
  <2>1. ASSUME NEW selector \in Selectors PROVE Resolved(selector) \in Positions
    <3>1. /\ selector.n \in Nat /\ selector.kind \in {"seq", "timestamp", "tail"}
      BY DEF Selectors
    <3>2. CASE selector.kind = "seq"
      BY <3>1, <3>2 DEF Resolved, Positions
    <3>3. CASE selector.kind = "tail"
      BY <1>2, <3>1, <3>3 DEF Resolved, Positions
    <3>4. CASE selector.kind = "timestamp" /\ Matching(selector.n) = {}
      BY <3>4 DEF Resolved, Positions
    <3>5. CASE selector.kind = "timestamp" /\ Matching(selector.n) # {}
      <4>1. Matching(selector.n) \subseteq Nat
        BY <1>2 DEF Matching
      <4>2. \E m \in Matching(selector.n) : \A r \in Matching(selector.n) : m <= r
        BY <3>5, <4>1, Least
      <4>. QED BY <3>5, <4>1, <4>2 DEF Resolved, Positions
    <3>. QED BY <3>1, <3>2, <3>3, <3>4, <3>5
  <2>. QED BY <1>4, <2>1
<1>6. conn = [st |-> "live", selector |-> start, pos |-> Resolved(start), left |-> left,
              consumed |-> 0, tail |-> Len(log), reported |-> NoPosition]
  BY <1>3 DEF Connection
<1>7. TypeOK
  <2>1. conn \in [st : {"live", "broken", "dead", "ended"}, selector : Selectors,
                  pos : Positions, left : Nat, consumed : Nat, tail : Nat,
                  reported : Positions]
    BY <1>2, <1>4, <1>5, <1>6 DEF Positions
  <2>2. cursor \in [next : Positions, consumed : Nat] /\ caughtUp \in Positions
    BY <1>3 DEF NoCursor, Positions
  <2>3. retries \in 0..(Attempts - 1) /\ tries \in 0..(Attempts - 1)
    BY <1>3, Bounds
  <2>4. /\ opened \in 0..Len(log) /\ got \in Seq(Nat)
        /\ {finished, delay, failed} \subseteq BOOLEAN
        /\ pc \in {"idle", "receiving", "reconnecting"}
        /\ result \in {"none", "batch", "end", "error", "refused"}
    <3>1. opened \in 0..Len(log)
      BY <1>2, <1>3
    <3>2. finished = FALSE /\ delay = FALSE /\ failed = FALSE
      BY <1>3
    <3>3. {finished, delay, failed} \subseteq BOOLEAN
      BY <3>2
    <3>4. got \in Seq(Nat)
      BY <1>3
    <3>5. pc = "idle" /\ result = "none"
      BY <1>3
    <3>. QED BY <3>1, <3>3, <3>4, <3>5
  <2>5. /\ transport \in Transports
        /\ request \in [start : Starts, count : Counts, until : Untils, finite : BOOLEAN]
    BY <1>3
  <2>. QED BY <1>2, <1>4, <2>1, <2>2, <2>3, <2>4, <2>5 DEF TypeOK
<1>8. PositionOK
  <2>1. Len(got) = 0 /\ DOMAIN got = {}
    BY <1>3
  <2>2. start.kind = "seq" => Anchor(start.n)
    BY <1>3 DEF Anchor
  <2>. QED BY <1>3, <1>4, <2>1, <2>2 DEF PositionOK, NoCursor
<1>9. ConnOK
  <2>1. /\ conn.left = left /\ conn.consumed = 0 /\ conn.selector = start
        /\ conn.pos = Resolved(start)
    BY <1>6
  <2>2. start.kind = "timestamp" /\ Resolved(start) # NoPosition
          => FirstMatch(Resolved(start))
    BY <1>4, <1>7, ResolvedFacts DEF FirstMatch
  <2>. QED BY <1>3, <1>4, <1>7, <2>1, <2>2, ResolvedFacts DEF ConnOK, NoCursor
<1>10. FlowOK
  BY <1>3, <1>6 DEF FlowOK
<1>. QED BY <1>7, <1>8, <1>9, <1>10 DEF ReadInv

LEMMA StepKeeps == ReadInv /\ [Next]_vars => ReadInv'
<1>. SUFFICES ASSUME ReadInv, [Next]_vars PROVE ReadInv'
  OBVIOUS
<1>1. CASE AppendRecord
  BY <1>1, AppendKeeps
<1>2. CASE Break
  BY <1>2, BreakKeeps
<1>3. CASE CallEnds \/ Call \/ Cancel \/ ConnectFails \/ ConnectRefused
  BY <1>3, CallsKeep
<1>4. CASE RecvEnd \/ RecvBroken \/ RecvDead \/ RecvFatal
  BY <1>4, EndsKeep
<1>5. CASE RecvBatch
  BY <1>5, BatchKeeps
<1>6. CASE RecvCaughtUp
  BY <1>6, CaughtUpKeeps
<1>7. CASE ConnectOk
  BY <1>7, ConnectKeeps
<1>8. CASE UNCHANGED vars
  <2>1. UNCHANGED <<log, opened, conn, transport, request, start, left, cursor, caughtUp>>
        /\ UNCHANGED <<got, finished, retries, delay, pc, tries, result, failed>>
    BY <1>8 DEF vars, streamVars, optionVars, positionVars
  <2>2. TypeOK'
    BY <2>1 DEF ReadInv, TypeOK
  <2>3. PositionOK' /\ ConnOK'
    BY <2>1, QuietStep DEF ReadInv, streamVars, optionVars, positionVars
  <2>4. FlowOK'
    BY <2>1 DEF ReadInv, FlowOK, Exhausted
  <2>. QED BY <2>2, <2>3, <2>4 DEF ReadInv
<1>. QED BY <1>1, <1>2, <1>3, <1>4, <1>5, <1>6, <1>7, <1>8 DEF Next, Session

LEMMA Invariant == Spec => []ReadInv
BY InitInv, StepKeeps, PTL DEF Spec

-----------------------------------------------------------------------------

(* Every variable has its type, and neither the reconnects without         *)
(* progress nor the attempts of one reconnect pass                         *)
(* bounded_operation_attempts.                                             *)
THEOREM TypeCorrect == Spec => []TypeOK
<1>1. ReadInv => TypeOK
  BY DEF ReadInv
<1>. QED BY <1>1, Invariant, PTL

(* Whatever breaks, is given up or is appended in between, what next_batch *)
(* has returned is one contiguous run of the stream from where the         *)
(* selector pointed, and the session goes on right behind it.              *)
THEOREM DeliversContiguously == Spec => []Contiguous
<1>1. ReadInv => Contiguous
  <2>. SUFFICES ASSUME ReadInv PROVE Contiguous
    OBVIOUS
  <2>1. PositionOK /\ TypeOK
    BY DEF ReadInv
  <2>. QED BY <2>1 DEF PositionOK, Anchor, Contiguous
<1>. QED BY <1>1, Invariant, PTL

(* stop.count and stop.until_timestamp_ms bound the read as a whole, over  *)
(* all the connections it took.                                            *)
THEOREM StopsHold == Spec => []WithinStops
<1>1. ReadInv => WithinStops
  <2>. SUFFICES ASSUME ReadInv PROVE WithinStops
    OBVIOUS
  <2>1. PositionOK /\ Len(got) \in Nat /\ left \in Nat
    BY GotFacts DEF ReadInv, TypeOK
  <2>. QED BY <2>1 DEF PositionOK, WithinStops
<1>. QED BY <1>1, Invariant, PTL

(* The checks of a batch and of a caught-up position never refuse what a   *)
(* conforming service sends, after any sequence of interruptions.          *)
THEOREM NeverRefuses == Spec => []ConformingAccepted
<1>1. ReadInv => ConformingAccepted
  BY DEF ReadInv, FlowOK, ConformingAccepted
<1>. QED BY <1>1, Invariant, PTL

(* TsfReadSession tells an end that the service, a stop condition or an    *)
(* earlier final error made, and never one of a reconnect that is due.     *)
THEOREM EndIsReal == Spec => []WebSocketEndsHonestly
<1>1. ReadInv => WebSocketEndsHonestly
  <2>. SUFFICES ASSUME ReadInv PROVE WebSocketEndsHonestly
    OBVIOUS
  <2>1. FlowOK /\ left \in Nat
    BY DEF ReadInv, TypeOK
  <2>. QED BY <2>1 DEF FlowOK, WebSocketEndsHonestly, FalseEnd
<1>. QED BY <1>1, Invariant, PTL

=============================================================================
