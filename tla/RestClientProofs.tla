--------------------------- MODULE RestClientProofs ---------------------------
(***************************************************************************)
(* RestInv, TruthInv and StartInv are inductive for the client's           *)
(* application and for the terminal command, for every number of attempts, *)
(* all programs, batches and pages.  One lemma for each way the calls      *)
(* change (a new one, another attempt, a sleep, a return), one for each    *)
(* way the service does; what results, answers and listings say is carried *)
(* across the steps of the service by what it never takes back (Evolves).  *)
(***************************************************************************)
EXTENDS RestClientInvariants, FiniteSetTheorems, TLAPS

LEMMA Bounds ==
  /\ Attempts \in Nat \ {0} /\ BatchLimit \in Nat \ {0}
  /\ Batches \subseteq Seq(Nat) /\ Expectations \subseteq Nat \cup {NoSeq}
  /\ RetryAfters \subseteq Nat \cup {NoDelay}
BY RestAssumption

LEMMA SeqFacts ==
  ASSUME NEW S, NEW s \in Seq(S)
  PROVE  /\ Len(s) \in Nat /\ DOMAIN s = 1..Len(s)
         /\ \A i \in DOMAIN s : s[i] \in S
OBVIOUS

LEMMA AppendFacts ==
  ASSUME NEW S, NEW s \in Seq(S), NEW x
  PROVE  LET t == Append(s, x)
         IN /\ t \in Seq(S \cup {x}) /\ Len(t) = Len(s) + 1
            /\ DOMAIN t = 1..(Len(s) + 1)
            /\ \A i \in 1..Len(s) : t[i] = s[i]
            /\ t[Len(s) + 1] = x
<1>. s \in Seq(S \cup {x}) /\ x \in S \cup {x}
  OBVIOUS
<1>. QED OBVIOUS

\* A sequence of whatever it holds, with one element more.
LEMMA AppendAny ==
  ASSUME NEW s, s \in Seq(Range(s)), NEW x
  PROVE  LET t == Append(s, x)
         IN t \in Seq(Range(t)) /\ Range(t) = Range(s) \cup {x}
<1>. DEFINE t == Append(s, x)
<1>1. /\ t \in Seq(Range(s) \cup {x}) /\ DOMAIN t = 1..(Len(s) + 1)
      /\ \A i \in 1..Len(s) : t[i] = s[i]
      /\ t[Len(s) + 1] = x
      /\ DOMAIN s = 1..Len(s) /\ Len(s) \in Nat
  BY AppendFacts, SeqFacts
<1>. HIDE DEF t
<1>2. Range(t) = Range(s) \cup {x}
  BY <1>1 DEF Range
<1>. QED BY <1>1, <1>2 DEF t

-----------------------------------------------------------------------------
(* The client's half.                                                      *)

LEMMA KnownType ==
  ASSUME ResultsOK
  PROVE  /\ Len(results) \in Nat /\ Known \in Nat /\ DOMAIN results = 1..Len(results)
         /\ \A c \in Range(results) : c.n \in 1..Len(results)
<1>1. Len(results) \in Nat /\ DOMAIN results = 1..Len(results)
  BY SeqFacts DEF ResultsOK
<1>2. \A c \in Range(results) : c.n \in 1..Len(results)
  BY <1>1 DEF ResultsOK, Range
<1>. QED BY <1>1, <1>2 DEF Known

\* What was true of requests and records stays true when calls are added or go on.
LEMMA Carried ==
  ASSUME RestInv, service' = service, ResultsOK', Known <= Known',
         \A d \in Calls' : d.n > Known \/ \E c \in Calls :
            d.n = c.n /\ d.op = c.op /\ d.batch = c.batch /\ d.expected = c.expected,
         call' # NoCall /\ call'.n <= Known =>
            call # NoCall /\ call'.n = call.n
              /\ (call.op = "append_records" => call'.attempt >= call.attempt),
         call' # NoCall => call'.attempt \in Nat
  PROVE  (\A r \in wire : RequestOK(r)') /\ LogOK'
<1>1. Known \in Nat /\ Known' \in Nat
  BY KnownType, SeqFacts DEF RestInv, ResultsOK, Known
<1>2. ASSUME NEW r \in wire PROVE RequestOK(r)'
  <2>1. RequestOK(r)
    BY DEF RestInv, WireOK
  <2>2. r.call \in 1..Known' /\ r.call <= Known /\ r.attempt \in Nat
    BY <1>1, <2>1, Bounds DEF RequestOK
  <2>3. ASSUME NEW d \in Calls', d.n = r.call
        PROVE  r.op = d.op /\ r.batch = d.batch /\ r.expected = d.expected
    BY <1>1, <2>1, <2>2, <2>3 DEF RequestOK
  <2>4. ASSUME r.op = "append_records", call' # NoCall, r.call = call'.n
        PROVE  r.attempt <= call'.attempt
    <3>1. call # NoCall /\ call'.n = call.n
      BY <2>2, <2>4
    <3>2. call \in Calls /\ call.attempt \in Nat
      BY <3>1, Bounds DEF Calls, RestInv, CallOK
    <3>3. call.op = "append_records" /\ r.attempt <= call.attempt
      BY <2>1, <2>4, <3>1, <3>2 DEF RequestOK
    <3>. QED BY <2>2, <2>4, <3>1, <3>2, <3>3
  <2>. QED BY <2>1, <2>2, <2>3, <2>4 DEF RequestOK
<1>3. ASSUME NEW i \in DOMAIN service.log PROVE LogRecordOK(i)'
  <2>. DEFINE e == service.log[i]
  <2>1. e = service'.log[i] /\ LogRecordOK(i)
    BY DEF RestInv, LogOK
  <2>2. e.call \in Nat /\ e.attempt \in Nat
    <3>1. service.log \in Seq(LogRecord)
      BY DEF RestInv, ServiceOK
    <3>2. e \in LogRecord
      BY <3>1, SeqFacts
    <3>. QED BY <3>2 DEF LogRecord
  <2>. HIDE DEF e
  <2>. SUFFICES ASSUME e.call # 0 PROVE LogRecordOK(i)'
    BY <2>1 DEF LogRecordOK
  <2>3. e.call <= Known /\ e.call <= Known' /\ e.attempt \in 1..Attempts
    BY <1>1, <2>1, <2>2 DEF LogRecordOK, e
  <2>4. ASSUME NEW d \in Calls', d.n = e.call
        PROVE  /\ d.op = "append_records"
               /\ d.expected # NoSeq /\ e.seq = d.batch[1] => i = d.expected + 1
    <3>1. PICK c \in Calls : d.n = c.n /\ d.op = c.op /\ d.batch = c.batch /\ d.expected = c.expected
      BY <1>1, <2>2, <2>3, <2>4
    <3>. QED BY <2>1, <2>4, <3>1 DEF LogRecordOK, e
  <2>5. ASSUME call' # NoCall, e.call = call'.n
        PROVE  e.attempt <= call'.attempt
    <3>1. call # NoCall /\ call'.n = call.n
      BY <2>3, <2>5
    <3>2. call \in Calls /\ call.attempt \in Nat
      BY <3>1, Bounds DEF Calls, RestInv, CallOK
    <3>3. call.op = "append_records" /\ e.attempt <= call.attempt
      BY <2>1, <2>5, <3>1, <3>2 DEF LogRecordOK, e
    <3>. QED BY <2>2, <2>3, <2>5, <3>1, <3>2, <3>3
  <2>. QED BY <2>1, <2>3, <2>4, <2>5 DEF LogRecordOK, e
<1>4. Distinguished'
  BY DEF RestInv, LogOK, Distinguished
<1>. QED BY <1>2, <1>3, <1>4 DEF LogOK

\* The call sends a request: its first, or one more than it has sent before.
LEMMA Sends ==
  ASSUME RestInv, NEW c, Send(c), service' = service, results' = results,
         c # NoCall, IsCall(c), Sound(c), c.n = Len(results) + 1,
         c.attempt \in 1..Attempts, c.phase = "waiting", c.delay \in 0..MaxBackoff,
         c.listing # NoListing => c.op = "list_all_links",
         c.op = "append_records" =>
            c.stream = 1 /\ c.link = NoLink /\ c.listing.cursor = NoCursor,
         call # NoCall =>
            /\ c.op = call.op /\ c.batch = call.batch /\ c.expected = call.expected
            /\ call.op = "append_records" => c.attempt > call.attempt
  PROVE  RestInv'
<1>. DEFINE r == Request(c)
<1>1. call' = c /\ reply' = NoReply /\ wire' = wire \cup {r}
  BY DEF Send
<1>2. ResultsOK' /\ ResultsOK
  BY DEF RestInv, ResultsOK
<1>3. Len(results) \in Nat /\ Known \in Nat /\ Known' = Len(results) + 1 /\ Known <= Known'
  BY <1>1, <1>2, KnownType DEF Known
<1>4. Calls' = Range(results) \cup {c}
  BY <1>1 DEF Calls
<1>5. CallOK'
  BY <1>1 DEF CallOK
<1>6. call # NoCall => call.attempt \in Nat /\ call.n = Len(results) + 1 /\ call \in Calls
  BY Bounds DEF RestInv, CallOK, Calls
<1>7. (\A s \in wire : RequestOK(s)') /\ LogOK'
  <2>1. ASSUME NEW d \in Calls'
        PROVE  d.n > Known \/ \E b \in Calls :
                 d.n = b.n /\ d.op = b.op /\ d.batch = b.batch /\ d.expected = b.expected
    <3>1. CASE d \in Range(results)
      BY <3>1 DEF Calls
    <3>2. CASE d = c /\ call = NoCall
      BY <3>2, <1>3 DEF Known
    <3>3. CASE d = c /\ call # NoCall
      BY <3>3, <1>6
    <3>. QED BY <1>4, <3>1, <3>2, <3>3
  <2>2. call' # NoCall /\ call'.n <= Known =>
            call # NoCall /\ call'.n = call.n
              /\ (call.op = "append_records" => call'.attempt >= call.attempt)
    BY <1>1, <1>3, <1>6, Bounds DEF Known
  <2>3. call'.attempt \in Nat
    BY <1>1, Bounds
  <2>. QED BY <1>2, <1>3, <2>1, <2>2, <2>3, Carried
<1>8. /\ IsRequest(r) /\ r.call = c.n /\ r.attempt = c.attempt /\ r.op = c.op
      /\ r.key = IdempotencyKey(c) /\ r.stream = c.stream /\ r.link = c.link
      /\ r.batch = c.batch /\ r.expected = c.expected /\ r.cursor = c.listing.cursor
  BY DEF Request, IsRequest, Precondition
<1>. HIDE DEF r
<1>9. RequestOK(r)'
  <2>1. Sound(r)
    BY <1>8 DEF Sound
  <2>2. r.call \in 1..Known' /\ r.attempt \in 1..Attempts
    BY <1>3, <1>8
  <2>3. r.key = (IF r.op \in Creations THEN <<r.call>> ELSE <<>>)
    BY <1>8 DEF IdempotencyKey
  <2>4. \A d \in Calls' : d.n = r.call =>
           r.op = d.op /\ r.batch = d.batch /\ r.expected = d.expected
    BY <1>2, <1>3, <1>4, <1>8, KnownType
  <2>5. r.op = "append_records" =>
           /\ r.stream = 1 /\ r.link = NoLink /\ r.cursor = NoCursor
           /\ call' # NoCall /\ r.call = call'.n => r.attempt <= call'.attempt
    BY <1>1, <1>8, Bounds
  <2>. QED BY <1>8, <2>1, <2>2, <2>3, <2>4, <2>5 DEF RequestOK
<1>10. UnservedOK'
  <2>. SUFFICES ASSUME NEW s \in wire', s.op = "append_records", NEW i \in DOMAIN service.log
                PROVE  ~(service.log[i].call = s.call /\ service.log[i].attempt = s.attempt)
    BY DEF UnservedOK
  <2>1. CASE s \in wire
    BY <2>1 DEF RestInv, UnservedOK
  <2>2. CASE s = r
    <3>. SUFFICES ASSUME service.log[i].call = c.n, service.log[i].attempt = c.attempt PROVE FALSE
      BY <1>8, <2>2
    <3>1. LogRecordOK(i)
      BY DEF RestInv, LogOK
    <3>2. c.n <= Known
      BY <1>3, <3>1 DEF LogRecordOK
    <3>3. call # NoCall /\ c.n = call.n
      BY <1>3, <1>6, <3>2 DEF Known
    <3>4. call.op = "append_records"
      BY <1>6, <1>8, <2>2, <3>3
    <3>5. c.attempt <= call.attempt
      BY <1>3, <3>1, <3>3 DEF LogRecordOK
    <3>. QED BY <1>6, <3>3, <3>4, <3>5, Bounds
  <2>. QED BY <1>1, <2>1, <2>2
<1>11. ReplyOK' /\ ServiceOK(service)' /\ StreamsOK(service)'
  BY <1>1 DEF RestInv, ReplyOK, ServiceOK, IsService, StreamsOK
<1>. QED BY <1>1, <1>2, <1>5, <1>7, <1>9, <1>10, <1>11 DEF RestInv, WireOK

\* A new call.
LEMMA Begins ==
  ASSUME RestInv, NEW op \in AllOps, NEW stream, NEW link, NEW batch \in Seq(Nat),
         NEW expected \in Nat \cup {NoSeq}, Begin(op, stream, link, batch, expected),
         op = "append_records" => stream = 1 /\ link = NoLink /\ AppendValid(batch, expected)
  PROVE  RestInv'
<1>. DEFINE c == NewCall(op, stream, link, batch, expected)
<1>1. /\ IsCall(c) /\ c.op = op /\ c.batch = batch /\ c.expected = expected
      /\ c.n = Len(results) + 1 /\ c.attempt = 1 /\ c.phase = "waiting" /\ c.delay = 0
      /\ c.listing = NoListing /\ c.stream = stream /\ c.link = link
  BY DEF NewCall, IsCall
<1>2. Send(c) /\ service' = service /\ results' = results /\ call = NoCall
  BY DEF Begin, CanBegin
<1>. HIDE DEF c
<1>3. c # NoCall
  BY <1>1 DEF NoCall, AllOps, Creations
<1>4. Sound(c) /\ c.attempt \in 1..Attempts
  BY <1>1, Bounds DEF Sound
<1>5. NoListing.cursor = NoCursor /\ c.delay \in 0..MaxBackoff
  BY <1>1 DEF NoListing, MaxBackoff
<1>. QED BY <1>1, <1>2, <1>3, <1>4, <1>5, Sends

\* The attempt failed: the call sleeps before the next one.
LEMMA Sleeps ==
  ASSUME RestInv, call # NoCall, service' = service, results' = results, wire' \subseteq wire,
         reply' = NoReply, call.attempt < Attempts,
         NEW d \in 0..MaxBackoff, call' = [call EXCEPT !.phase = "sleeping", !.delay = d]
  PROVE  RestInv'
<1>1. IsCall(call) /\ Sound(call)
  BY DEF RestInv, CallOK
<1>2. /\ IsCall(call') /\ call'.phase = "sleeping" /\ call'.delay = d
      /\ call'.n = call.n /\ call'.op = call.op /\ call'.batch = call.batch
      /\ call'.expected = call.expected /\ call'.attempt = call.attempt
      /\ call'.stream = call.stream /\ call'.link = call.link
      /\ call'.listing = call.listing
  BY <1>1 DEF IsCall
<1>3. call' # NoCall
  BY <1>1, <1>2 DEF NoCall, AllOps, Creations, Sound
<1>4. CallOK'
  BY <1>2 DEF RestInv, CallOK, Sound
<1>5. ResultsOK' /\ ServiceOK(service)' /\ StreamsOK(service)' /\ ReplyOK' /\ UnservedOK'
  BY DEF RestInv, ResultsOK, ServiceOK, IsService, StreamsOK, ReplyOK, UnservedOK
<1>6. Known' = Known /\ Known \in Nat
  BY <1>3, KnownType DEF RestInv, Known
<1>7. call.attempt \in Nat
  BY Bounds DEF RestInv, CallOK
<1>8. \A e \in Calls' : \E b \in Calls :
         e.n = b.n /\ e.op = b.op /\ e.batch = b.batch /\ e.expected = b.expected
  BY <1>2 DEF Calls
<1>9. (\A s \in wire : RequestOK(s)') /\ LogOK'
  BY <1>2, <1>3, <1>5, <1>6, <1>7, <1>8, Carried
<1>. QED BY <1>4, <1>5, <1>9 DEF RestInv, WireOK

\* The call is over, whatever came of it.
LEMMA Returns ==
  ASSUME RestInv, call # NoCall, service' = service, wire' \subseteq wire,
         NEW c, NEW outcome, Return(c, outcome),
         c.n = call.n, c.op = call.op, c.batch = call.batch, c.expected = call.expected
  PROVE  RestInv'
<1>1. PICK result : /\ results' = Append(results, result)
                    /\ result.n = c.n /\ result.op = c.op /\ result.batch = c.batch
                    /\ result.expected = c.expected
  BY DEF Return
<1>2. call' = NoCall /\ reply' = NoReply
  BY DEF Return
<1>3. call.n = Len(results) + 1 /\ Len(results) \in Nat
  BY KnownType DEF RestInv, CallOK
<1>4. /\ ResultsOK' /\ Len(results') = Len(results) + 1
      /\ Range(results') = Range(results) \cup {result}
  BY <1>1, <1>3, AppendAny, AppendFacts DEF RestInv, ResultsOK
<1>5. CallOK' /\ ReplyOK' /\ ServiceOK(service)' /\ StreamsOK(service)' /\ UnservedOK'
  BY <1>2 DEF RestInv, CallOK, ReplyOK, ServiceOK, IsService, StreamsOK, UnservedOK
<1>6. Known' = Known /\ Known \in Nat
  BY <1>2, <1>3, <1>4 DEF Known
<1>7. \A e \in Calls' : \E b \in Calls :
         e.n = b.n /\ e.op = b.op /\ e.batch = b.batch /\ e.expected = b.expected
  BY <1>1, <1>2, <1>4 DEF Calls
<1>8. (\A s \in wire : RequestOK(s)') /\ LogOK'
  BY <1>2, <1>4, <1>6, <1>7, Carried
<1>. QED BY <1>4, <1>5, <1>8 DEF RestInv, WireOK

\* append_records rejects its arguments: a call that never sent anything.
LEMMA Rejects ==
  ASSUME RestInv, call = NoCall, service' = service, wire' = wire,
         NEW c, NEW outcome, Return(c, outcome), c.n = Len(results) + 1
  PROVE  RestInv'
<1>1. PICK result : results' = Append(results, result) /\ result.n = c.n
  BY DEF Return
<1>2. call' = NoCall /\ reply' = NoReply
  BY DEF Return
<1>3. Len(results) \in Nat
  BY KnownType DEF RestInv
<1>4. /\ ResultsOK' /\ Len(results') = Len(results) + 1
      /\ Range(results') = Range(results) \cup {result}
  BY <1>1, <1>3, AppendAny, AppendFacts DEF RestInv, ResultsOK
<1>5. CallOK' /\ ReplyOK' /\ ServiceOK(service)' /\ StreamsOK(service)' /\ UnservedOK'
  BY <1>2 DEF RestInv, CallOK, ReplyOK, ServiceOK, IsService, StreamsOK, UnservedOK
<1>6. Known' = Known + 1 /\ Known = Len(results)
  BY <1>2, <1>4 DEF Known
<1>7. \A e \in Calls' : e.n > Known \/ \E b \in Calls :
         e.n = b.n /\ e.op = b.op /\ e.batch = b.batch /\ e.expected = b.expected
  BY <1>1, <1>2, <1>3, <1>4, <1>6 DEF Calls
<1>8. (\A s \in wire : RequestOK(s)') /\ LogOK'
  BY <1>2, <1>3, <1>4, <1>6, <1>7, Carried
<1>. QED BY <1>4, <1>5, <1>8 DEF RestInv, WireOK

-----------------------------------------------------------------------------
(* The service's half.                                                     *)

LEMMA ConcatFacts ==
  ASSUME NEW S, NEW s \in Seq(S), NEW t \in Seq(S)
  PROVE  /\ s \o t \in Seq(S) /\ Len(s \o t) = Len(s) + Len(t)
         /\ \A i \in 1..Len(s) : (s \o t)[i] = s[i]
         /\ \A i \in 1..Len(t) : (s \o t)[Len(s) + i] = t[i]
OBVIOUS

Appended(s, r) ==
  /\ r.op = "append_records" /\ r.expected \in {NoSeq, Len(service.log)}
  /\ s.log = service.log \o Added(r)

LEMMA AddedFacts ==
  ASSUME NEW r, RequestOK(r), ResultsOK, r.op = "append_records"
  PROVE  /\ Added(r) \in Seq(LogRecord) /\ Len(Added(r)) \in Nat
         /\ \A k \in 1..Len(Added(r)) :
              /\ Added(r)[k].call = r.call /\ Added(r)[k].attempt = r.attempt
              /\ Added(r)[k].seq = r.batch[k]
              /\ r.batch[k] = r.batch[1] + k - 1 /\ r.batch[1] \in Nat
<1>1. /\ r.batch \in Seq(Nat) /\ r.call \in Nat /\ r.attempt \in Nat
      /\ Len(r.batch) # 0
      /\ \A i \in DOMAIN r.batch : r.batch[i] = r.batch[1] + i - 1
  <2>1. Sound(r) /\ r.call \in 1..Known /\ r.attempt \in 1..Attempts
    BY DEF RequestOK
  <2>2. r.batch \in Seq(Nat) /\ AppendValid(r.batch, r.expected)
    BY <2>1 DEF Sound
  <2>3. Len(r.batch) # 0 /\ \A i \in DOMAIN r.batch : r.batch[i] = r.batch[1] + i - 1
    BY <2>2 DEF AppendValid
  <2>4. r.call \in Nat /\ r.attempt \in Nat
    BY <2>1, KnownType, Bounds
  <2>. QED BY <2>2, <2>3, <2>4
<1>2. Len(r.batch) \in Nat /\ DOMAIN r.batch = 1..Len(r.batch)
      /\ \A i \in DOMAIN r.batch : r.batch[i] \in Nat
  BY <1>1, SeqFacts
<1>3. 1 \in DOMAIN r.batch
  BY <1>1, <1>2
<1>4. Added(r) \in [1..Len(r.batch) -> LogRecord]
  BY <1>1, <1>2 DEF Added, LogRecord
<1>5. Added(r) \in Seq(LogRecord) /\ Len(Added(r)) = Len(r.batch)
  BY <1>2, <1>4
<1>6. ASSUME NEW k \in DOMAIN r.batch
      PROVE  /\ Added(r)[k].call = r.call /\ Added(r)[k].attempt = r.attempt
             /\ Added(r)[k].seq = r.batch[k]
  BY DEF Added
<1>. QED BY <1>1, <1>2, <1>3, <1>5, <1>6

Deleting(streams, k) == [streams EXCEPT ![k].status = "deleting"]

LEMMA StreamChanges ==
  ASSUME NEW streams \in Seq(StreamRecord), NEW k
  PROVE  LET t == Deleting(streams, k)
         IN /\ t \in Seq(StreamRecord) /\ DOMAIN t = DOMAIN streams
            /\ \A i \in DOMAIN streams : t[i].call = streams[i].call /\ t[i].key = streams[i].key
<1>. DEFINE t == Deleting(streams, k)
<1>1. DOMAIN streams = 1..Len(streams) /\ Len(streams) \in Nat
      /\ \A i \in DOMAIN streams : streams[i] \in StreamRecord
  BY SeqFacts
<1>2. DOMAIN t = DOMAIN streams
  BY DEF Deleting
<1>3. ASSUME NEW i \in DOMAIN streams
      PROVE  t[i] \in StreamRecord /\ t[i].call = streams[i].call /\ t[i].key = streams[i].key
  BY <1>1 DEF StreamRecord, Deleting
<1>4. t \in [1..Len(streams) -> StreamRecord]
  BY <1>1, <1>2, <1>3 DEF Deleting
<1>. QED BY <1>1, <1>2, <1>3, <1>4

LEMMA NewStream ==
  ASSUME RestInv, NEW r \in wire, r.op = "create_stream", StreamOf(service, r.key) = {},
         NEW s, s = [service EXCEPT !.streams =
                       Append(@, [key |-> r.key, call |-> r.call, status |-> "active"])]
  PROVE  ServiceOK(s) /\ StreamsOK(s) /\ s.log = service.log
<1>. DEFINE x == [key |-> r.key, call |-> r.call, status |-> "active"]
            t == Append(service.streams, x)
<1>1. RequestOK(r) /\ ServiceOK(service) /\ StreamsOK(service)
  BY DEF RestInv, WireOK
<1>2. r.key = <<r.call>> /\ r.call \in Nat \ {0}
  BY <1>1, KnownType DEF RestInv, RequestOK, Creations
<1>3. x \in StreamRecord
  BY <1>2 DEF StreamRecord
<1>4. s.streams = t /\ s.log = service.log /\ IsService(s)
  BY <1>1 DEF ServiceOK, IsService
<1>5. /\ t \in Seq(StreamRecord) /\ DOMAIN t = 1..(Len(service.streams) + 1)
      /\ \A i \in 1..Len(service.streams) : t[i] = service.streams[i]
      /\ t[Len(service.streams) + 1] = x
      /\ DOMAIN service.streams = 1..Len(service.streams) /\ Len(service.streams) \in Nat
  <2>1. service.streams \in Seq(StreamRecord) /\ StreamRecord \cup {x} = StreamRecord
    BY <1>1, <1>3 DEF ServiceOK
  <2>2. t \in Seq(StreamRecord \cup {x})
    BY <2>1, AppendFacts
  <2>. QED BY <2>1, <2>2, AppendFacts, SeqFacts
<1>6. x.call = r.call /\ x.key = <<r.call>>
  BY <1>2
<1>7. \A i \in DOMAIN service.streams : service.streams[i].call # r.call
  BY <1>1, <1>2 DEF StreamOf, StreamsOK
<1>. HIDE DEF t, x
<1>8. ASSUME NEW i \in DOMAIN t
      PROVE  t[i].key = (IF t[i].call = 0 THEN <<>> ELSE <<t[i].call>>)
  <2>1. CASE i \in DOMAIN service.streams
    <3>1. t[i] = service.streams[i]
      BY <1>5, <2>1
    <3>. QED BY <1>1, <2>1, <3>1 DEF StreamsOK
  <2>2. CASE i = Len(service.streams) + 1
    <3>1. t[i] = x /\ r.call # 0
      BY <1>2, <1>5, <2>2
    <3>. QED BY <1>6, <3>1
  <2>. QED BY <1>5, <2>1, <2>2
<1>9. ASSUME NEW i \in DOMAIN t, NEW j \in DOMAIN t, t[i].call = t[j].call PROVE i = j
  <2>1. \A a, b \in DOMAIN service.streams :
          service.streams[a].call = service.streams[b].call => a = b
    BY <1>1 DEF StreamsOK
  <2>2. \A a \in DOMAIN t :
          (a \in DOMAIN service.streams /\ t[a].call = service.streams[a].call)
            \/ (a = Len(service.streams) + 1 /\ t[a].call = r.call)
    BY <1>5, <1>6
  <2>. QED BY <1>7, <1>9, <2>1, <2>2
<1>. QED BY <1>1, <1>4, <1>5, <1>8, <1>9 DEF ServiceOK, StreamsOK

LEMMA LinksChange ==
  ASSUME RestInv, NEW s, IsService(s), s.streams = service.streams, s.log = service.log
  PROVE  ServiceOK(s) /\ StreamsOK(s)
BY DEF RestInv, ServiceOK, StreamsOK

\* What a request does to streams and log, and what its response asks for.
LEMMA Processed ==
  ASSUME RestInv, NEW r \in wire, NEW p \in Process(service, r)
  PROVE  /\ ServiceOK(p.state) /\ StreamsOK(p.state)
         /\ p.state.log = service.log \/ Appended(p.state, r)
         /\ p.reply.after = NoDelay
<1>1. RequestOK(r) /\ ServiceOK(service) /\ StreamsOK(service) /\ ResultsOK
      /\ IsService(service) /\ r.op \in AllOps
  BY DEF RestInv, WireOK, ServiceOK, RequestOK, Sound
<1>2. CASE p.state = service /\ p.reply.after = NoDelay
  BY <1>1, <1>2
<1>3. CASE r.op = "create_stream"
  <2>1. CASE StreamOf(service, r.key) = {}
    <3>1. /\ p.state = [service EXCEPT !.streams =
                          Append(@, [key |-> r.key, call |-> r.call, status |-> "active"])]
          /\ p.reply.after = NoDelay
      BY <1>3, <2>1 DEF Process, DoCreateStream, Answered, Reply
    <3>. QED BY <1>3, <2>1, <3>1, NewStream
  <2>2. CASE StreamOf(service, r.key) # {}
    BY <1>2, <1>3, <2>2 DEF Process, DoCreateStream, Answered, Reply
  <2>. QED BY <2>1, <2>2
<1>4. CASE r.op = "delete_stream"
  <2>1. /\ p.state = [service EXCEPT !.streams[r.stream].status = "deleting"]
        /\ p.reply.after = NoDelay
    BY <1>4 DEF Process, Answered, Reply
  <2>2. /\ IsService(p.state) /\ p.state.log = service.log
        /\ p.state.streams = Deleting(service.streams, r.stream)
    BY <1>1, <2>1 DEF IsService, Deleting
  <2>3. /\ p.state.streams \in Seq(StreamRecord) /\ DOMAIN p.state.streams = DOMAIN service.streams
        /\ \A i \in DOMAIN service.streams :
             p.state.streams[i].call = service.streams[i].call
               /\ p.state.streams[i].key = service.streams[i].key
    BY <1>1, <2>2, StreamChanges DEF ServiceOK
  <2>4. ServiceOK(p.state)
    BY <1>1, <2>2, <2>3 DEF ServiceOK
  <2>5. StreamsOK(p.state)
    BY <1>1, <2>3 DEF StreamsOK
  <2>. QED BY <2>1, <2>2, <2>4, <2>5
<1>5. CASE r.op \notin {"create_stream", "delete_stream"} /\ service.streams[r.stream].status # "active"
  BY <1>2, <1>5 DEF Process, Answered, Reply
<1>. DEFINE Live == service.streams[r.stream].status = "active"
<1>6. CASE r.op = "create_link" /\ Live
  <2>1. p \in DoCreateLink(service, r)
    BY <1>6 DEF Process
  <2>2. CASE p = [state |-> NewLink(service, r.link, r.key), reply |-> Reply(201, 0)]
    <3>1. /\ IsService(p.state) /\ p.state.streams = service.streams
          /\ p.state.log = service.log /\ p.reply.after = NoDelay
      BY <1>1, <2>2 DEF NewLink, IsService, Reply
    <3>. QED BY <3>1, LinksChange
  <2>3. CASE p.state = service /\ p.reply.after = NoDelay
    BY <1>2, <2>3
  <2>. QED BY <2>1, <2>2, <2>3 DEF DoCreateLink, Answered, Reply
<1>7. CASE r.op = "revoke_link" /\ Live
  <2>1. p.reply.after = NoDelay /\ p.state \in {service, Revoked(service, r.link)}
    BY <1>7 DEF Process, Answered, Reply
  <2>2. /\ IsService(Revoked(service, r.link)) /\ Revoked(service, r.link).log = service.log
        /\ Revoked(service, r.link).streams = service.streams
    <3>1. PICK links : Revoked(service, r.link) = [service EXCEPT !.links = links]
      BY DEF Revoked
    <3>. QED BY <1>1, <3>1 DEF IsService
  <2>. QED BY <1>1, <2>1, <2>2, LinksChange
<1>8. CASE r.op = "append_records" /\ Live
  <2>1. p \in DoAppend(service, r)
    BY <1>8 DEF Process
  <2>2. CASE r.expected \notin {NoSeq, Len(service.log)}
    BY <1>2, <2>1, <2>2 DEF DoAppend, Answered, Reply
  <2>3. CASE r.expected \in {NoSeq, Len(service.log)}
    <3>1. /\ p.state = [service EXCEPT !.log = @ \o Added(r)]
          /\ p.reply.after = NoDelay
      <4>1. PICK answer : /\ answer = [Reply(200, Len(service.log)) EXCEPT !.length = Len(r.batch)]
                          /\ p = [state |-> [service EXCEPT !.log = @ \o Added(r)], reply |-> answer]
        BY <2>1, <2>3 DEF DoAppend, Answered
      <4>2. answer.after = NoDelay
        BY <4>1 DEF Reply
      <4>. QED BY <4>1, <4>2
    <3>2. /\ IsService(p.state) /\ p.state.streams = service.streams
          /\ p.state.log = service.log \o Added(r)
      BY <1>1, <3>1 DEF IsService
    <3>3. p.state.log \in Seq(LogRecord)
      BY <1>1, <1>8, <3>2, AddedFacts, ConcatFacts DEF ServiceOK
    <3>4. ServiceOK(p.state) /\ StreamsOK(p.state)
      BY <1>1, <3>2, <3>3 DEF ServiceOK, StreamsOK
    <3>. QED BY <1>8, <2>3, <3>1, <3>2, <3>4 DEF Appended
  <2>. QED BY <2>2, <2>3
<1>9. CASE r.op = "list_all_links" /\ Live
  <2>1. p \in DoList(service, r)
    BY <1>9 DEF Process
  <2>. QED BY <1>2, <2>1 DEF DoList, Reply
<1>10. CASE r.op = "update_stream" /\ Live
  <2>1. p.reply.after = NoDelay /\ p.state = [service EXCEPT !.titles = Append(@, r.call)]
    BY <1>10 DEF Process, Answered, Reply
  <2>2. /\ IsService(p.state) /\ p.state.log = service.log
        /\ p.state.streams = service.streams
    BY <1>1, <2>1 DEF IsService
  <2>. QED BY <2>1, <2>2, LinksChange
<1>11. CASE r.op = "get_stream" /\ Live
  BY <1>2, <1>11 DEF Process, Answered, Reply
<1>. QED BY <1>1, <1>3, <1>4, <1>5, <1>6, <1>7, <1>8, <1>9, <1>10, <1>11 DEF AllOps, Creations

\* Nothing of the client's half is about streams and log, but for requests and records.
LEMMA Unmoved ==
  ASSUME RestInv, call' = call, results' = results, wire' \subseteq wire
  PROVE  CallOK' /\ ResultsOK' /\ WireOK' /\ Known' = Known /\ Calls' = Calls
<1>1. CallOK' /\ ResultsOK' /\ Known' = Known /\ Calls' = Calls
  BY DEF RestInv, CallOK, ResultsOK, Known, Calls
<1>. QED BY <1>1 DEF RestInv, WireOK, RequestOK

LEMMA OtherRecords ==
  ASSUME RestInv, call' = call, results' = results, wire' \subseteq wire, ReplyOK',
         ServiceOK(service)', StreamsOK(service)', service'.log = service.log
  PROVE  RestInv'
<1>1. CallOK' /\ ResultsOK' /\ WireOK' /\ Known' = Known /\ Calls' = Calls
  BY Unmoved
<1>2. UnservedOK'
  BY DEF RestInv, UnservedOK
<1>3. LogOK'
  BY <1>1 DEF RestInv, LogOK, LogRecordOK, Distinguished
<1>. QED BY <1>1, <1>2, <1>3 DEF RestInv

\* Two requests for one attempt are one.
LEMMA OneRequest ==
  ASSUME RestInv, NEW r \in wire, NEW q \in wire,
         r.op = "append_records", q.op = "append_records",
         q.call = r.call, q.attempt = r.attempt
  PROVE  q = r
<1>1. RequestOK(r) /\ RequestOK(q) /\ ResultsOK
  BY DEF RestInv, WireOK
<1>2. \E c \in Calls : c.n = r.call
  <2>1. r.call \in 1..Known
    BY <1>1 DEF RequestOK
  <2>2. CASE r.call \in 1..Len(results)
    <3>1. results[r.call].n = r.call /\ results[r.call] \in Range(results)
      BY <1>1, <2>2, KnownType DEF ResultsOK, Range
    <3>. QED BY <3>1 DEF Calls
  <2>3. CASE r.call \notin 1..Len(results)
    <3>1. call # NoCall /\ r.call = Len(results) + 1
      BY <1>1, <2>1, <2>3, KnownType DEF Known
    <3>. QED BY <3>1 DEF RestInv, CallOK, Calls
  <2>. QED BY <2>2, <2>3
<1>3. q.batch = r.batch /\ q.expected = r.expected
  BY <1>1, <1>2 DEF RequestOK
<1>4. /\ q.key = r.key /\ q.stream = r.stream /\ q.link = r.link /\ q.cursor = r.cursor
      /\ IsRequest(q) /\ IsRequest(r)
  BY <1>1 DEF RequestOK
<1>. QED BY <1>3, <1>4 DEF IsRequest

\* An append is served: its request is gone, its records are in the log.
LEMMA AppendServed ==
  ASSUME RestInv, call' = call, results' = results, NEW r \in wire, wire' = wire \ {r},
         ReplyOK', ServiceOK(service)', StreamsOK(service)', Appended(service', r)
  PROVE  RestInv'
<1>. DEFINE old == service.log
            new == Added(r)
            log == service'.log
<1>1. RequestOK(r) /\ ResultsOK /\ r.op = "append_records" /\ r \in wire
  BY DEF RestInv, WireOK, Appended
<1>2. CallOK' /\ ResultsOK' /\ WireOK' /\ Known' = Known /\ Calls' = Calls
  BY Unmoved
<1>3. /\ new \in Seq(LogRecord) /\ Len(new) \in Nat
      /\ \A k \in 1..Len(new) :
           /\ new[k].call = r.call /\ new[k].attempt = r.attempt /\ new[k].seq = r.batch[k]
           /\ r.batch[k] = r.batch[1] + k - 1 /\ r.batch[1] \in Nat
  BY <1>1, AddedFacts
<1>4. old \in Seq(LogRecord) /\ Len(old) \in Nat /\ DOMAIN old = 1..Len(old)
  BY SeqFacts DEF RestInv, ServiceOK
<1>5. log = old \o new /\ r.expected \in {NoSeq, Len(old)}
  BY DEF Appended
<1>6. /\ DOMAIN log = 1..(Len(old) + Len(new))
      /\ \A i \in 1..Len(old) : log[i] = old[i]
      /\ \A k \in 1..Len(new) : log[Len(old) + k] = new[k]
  <2>1. log \in Seq(LogRecord) /\ Len(log) = Len(old) + Len(new)
    BY <1>3, <1>4, <1>5, ConcatFacts
  <2>. QED BY <1>3, <1>4, <1>5, <2>1, ConcatFacts, SeqFacts
<1>. HIDE DEF old, new, log
<1>7. \A i \in DOMAIN log : i \in 1..Len(old) \/ \E k \in 1..Len(new) : i = Len(old) + k
  <2>. SUFFICES ASSUME NEW i \in DOMAIN log, i \notin 1..Len(old)
                PROVE  \E k \in 1..Len(new) : i = Len(old) + k
    OBVIOUS
  <2>1. i - Len(old) \in 1..Len(new) /\ i = Len(old) + (i - Len(old))
    BY <1>3, <1>4, <1>6
  <2>. QED BY <2>1
<1>8. UnservedOK'
  <2>. SUFFICES ASSUME NEW q \in wire', q.op = "append_records", NEW i \in DOMAIN log,
                       log[i].call = q.call, log[i].attempt = q.attempt
                PROVE  FALSE
    BY DEF UnservedOK, log
  <2>1. q \in wire /\ q # r
    OBVIOUS
  <2>2. CASE i \in 1..Len(old)
    BY <1>4, <1>6, <2>1, <2>2 DEF RestInv, UnservedOK, old
  <2>3. ASSUME NEW k \in 1..Len(new), i = Len(old) + k PROVE FALSE
    <3>1. q.call = r.call /\ q.attempt = r.attempt
      BY <1>3, <1>6, <2>3
    <3>. QED BY <1>1, <2>1, <3>1, OneRequest
  <2>. QED BY <1>7, <2>2, <2>3
<1>9. ASSUME NEW i \in DOMAIN log PROVE LogRecordOK(i)'
  <2>1. CASE i \in 1..Len(old)
    <3>1. i \in DOMAIN service.log /\ log[i] = service.log[i]
      BY <1>4, <1>6, <2>1 DEF old
    <3>2. LogRecordOK(i)
      BY <3>1 DEF RestInv, LogOK
    <3>. QED BY <1>2, <3>1, <3>2 DEF LogRecordOK, log
  <2>2. ASSUME NEW k \in 1..Len(new), i = Len(old) + k PROVE LogRecordOK(i)'
    <3>1. log[i].call = r.call /\ log[i].attempt = r.attempt /\ log[i].seq = r.batch[k]
      BY <1>3, <1>6, <2>2
    <3>2. r.call <= Known /\ r.attempt \in 1..Attempts
      BY <1>1, KnownType DEF RequestOK
    <3>3. ASSUME NEW c \in Calls, c.n = r.call
          PROVE  /\ c.op = "append_records"
                 /\ c.expected # NoSeq /\ r.batch[k] = c.batch[1] => i = c.expected + 1
      <4>1. c.op = r.op /\ c.batch = r.batch /\ c.expected = r.expected
        BY <1>1, <3>3 DEF RequestOK
      <4>2. r.batch[k] = r.batch[1] => k = 1
        BY <1>3
      <4>. QED BY <1>1, <1>4, <1>5, <2>2, <4>1, <4>2
    <3>4. call # NoCall /\ r.call = call.n => r.attempt <= call.attempt
      BY <1>1 DEF RequestOK
    <3>. QED BY <1>2, <3>1, <3>2, <3>3, <3>4 DEF LogRecordOK, log
  <2>. QED BY <1>7, <2>1, <2>2
<1>10. Distinguished'
  <2>1. ASSUME NEW i \in 1..Len(old), NEW k \in 1..Len(new), old[i] = new[k] PROVE FALSE
    <3>1. old[i].call = r.call /\ old[i].attempt = r.attempt
      BY <1>3, <2>1
    <3>. QED BY <1>1, <1>4, <3>1 DEF RestInv, UnservedOK, old
  <2>2. ASSUME NEW k \in 1..Len(new), NEW m \in 1..Len(new), new[k] = new[m] PROVE k = m
    <3>1. r.batch[1] + k - 1 = r.batch[1] + m - 1 /\ r.batch[1] \in Nat
      BY <1>3, <2>2
    <3>. QED BY <3>1, <1>3
  <2>3. ASSUME NEW i \in 1..Len(old), NEW j \in 1..Len(old), old[i] = old[j], old[i].call # 0
        PROVE  i = j
    BY <1>4, <2>3 DEF RestInv, LogOK, Distinguished, old
  <2>. SUFFICES ASSUME NEW i \in DOMAIN log, NEW j \in DOMAIN log,
                       log[i] = log[j], log[i].call # 0
                PROVE  i = j
    BY DEF Distinguished, log
  <2>4. CASE i \in 1..Len(old) /\ j \in 1..Len(old)
    BY <1>6, <2>3, <2>4
  <2>5. CASE i \in 1..Len(old) /\ j \notin 1..Len(old)
    BY <1>6, <1>7, <2>1, <2>5
  <2>6. CASE i \notin 1..Len(old) /\ j \in 1..Len(old)
    BY <1>6, <1>7, <2>1, <2>6
  <2>7. CASE i \notin 1..Len(old) /\ j \notin 1..Len(old)
    BY <1>6, <1>7, <2>2, <2>7
  <2>. QED BY <2>4, <2>5, <2>6, <2>7
<1>. QED BY <1>2, <1>8, <1>9, <1>10 DEF RestInv, LogOK, log

\* Another writer's record.
LEMMA ForeignRecord ==
  ASSUME RestInv, UNCHANGED <<call, reply, results, wire>>,
         service' = [service EXCEPT !.log = Append(@, [call |-> 0, attempt |-> 0, seq |-> 0])]
  PROVE  RestInv'
<1>. DEFINE x == [call |-> 0, attempt |-> 0, seq |-> 0]
            old == service.log
<1>1. CallOK' /\ ResultsOK' /\ WireOK' /\ Known' = Known /\ Calls' = Calls
  BY Unmoved
<1>2. /\ IsService(service') /\ service'.streams = service.streams
      /\ service'.log = Append(old, x)
  BY DEF RestInv, ServiceOK, IsService
<1>3. old \in Seq(LogRecord) /\ x \in LogRecord /\ Len(old) \in Nat /\ DOMAIN old = 1..Len(old)
  BY SeqFacts DEF RestInv, ServiceOK, LogRecord
<1>4. x.call = 0
  OBVIOUS
<1>. HIDE DEF x
<1>5. /\ service'.log \in Seq(LogRecord)
      /\ \A i \in DOMAIN service'.log :
           IF i \in DOMAIN old THEN service'.log[i] = old[i] ELSE service'.log[i] = x
  <2>1. LogRecord \cup {x} = LogRecord
    BY <1>3
  <2>2. service'.log \in Seq(LogRecord \cup {x})
    BY <1>2, <1>3, AppendFacts
  <2>3. /\ DOMAIN service'.log = 1..(Len(old) + 1)
        /\ \A i \in 1..Len(old) : service'.log[i] = old[i]
        /\ service'.log[Len(old) + 1] = x
    BY <1>2, <1>3, AppendFacts
  <2>. QED BY <1>3, <2>1, <2>2, <2>3
<1>6. ServiceOK(service)' /\ StreamsOK(service)' /\ ReplyOK'
  BY <1>2, <1>5 DEF RestInv, ServiceOK, StreamsOK, ReplyOK, Waiting
<1>7. UnservedOK'
  <2>. SUFFICES ASSUME NEW r \in wire, r.op = "append_records", NEW i \in DOMAIN service'.log
                PROVE  ~(service'.log[i].call = r.call /\ service'.log[i].attempt = r.attempt)
    BY DEF UnservedOK
  <2>1. r.call \in 1..Known
    BY DEF RestInv, WireOK, RequestOK
  <2>2. r.call # 0
    BY <2>1, KnownType DEF RestInv
  <2>. QED BY <1>4, <1>5, <2>2 DEF RestInv, UnservedOK
<1>8. LogOK'
  <2>1. ASSUME NEW i \in DOMAIN service'.log PROVE LogRecordOK(i)'
    <3>1. CASE i \in DOMAIN old
      <4>1. LogRecordOK(i) /\ service'.log[i] = service.log[i]
        BY <1>5, <3>1 DEF RestInv, LogOK
      <4>. QED BY <1>1, <4>1 DEF LogRecordOK
    <3>2. CASE i \notin DOMAIN old
      <4>1. service'.log[i].call = 0
        BY <1>4, <1>5, <3>2
      <4>. QED BY <4>1 DEF LogRecordOK
    <3>. QED BY <3>1, <3>2
  <2>2. Distinguished'
    <3>. SUFFICES ASSUME NEW i \in DOMAIN service'.log, NEW j \in DOMAIN service'.log,
                         service'.log[i] = service'.log[j], service'.log[i].call # 0
                  PROVE  i = j
      BY DEF Distinguished
    <3>1. i \in DOMAIN old /\ j \in DOMAIN old
      BY <1>4, <1>5
    <3>. QED BY <1>5, <3>1 DEF RestInv, LogOK, Distinguished
  <2>. QED BY <2>1, <2>2 DEF LogOK
<1>. QED BY <1>1, <1>6, <1>7, <1>8 DEF RestInv

-----------------------------------------------------------------------------
(* The steps.                                                              *)

LEMMA Delays ==
  ASSUME NEW e, e.after \in Nat \cup {NoDelay}, call.attempt \in 1..Attempts
  PROVE  RetryDelays(call, e) \subseteq 0..MaxBackoff
<1>1. CASE e.after = NoDelay
  <2>. DEFINE b == Backoff(call.attempt - 1)
  <2>1. b \in 0..20
    <3>1. CASE call.attempt - 1 < 4
      <4>1. call.attempt \in {1, 2, 3, 4}
        BY <3>1, Bounds
      <4>2. Len(Doubling) = 4 /\ Doubling[1] = 2 /\ Doubling[2] = 4 /\ Doubling[3] = 8 /\ Doubling[4] = 16
        BY DEF Doubling
      <4>3. b = Doubling[call.attempt]
        BY <4>1, <4>2 DEF Backoff
      <4>. QED BY <4>1, <4>2, <4>3
    <3>2. CASE ~(call.attempt - 1 < 4)
      <4>1. Len(Doubling) = 4
        BY DEF Doubling
      <4>. QED BY <3>2, <4>1 DEF Backoff, MaxBackoff
    <3>. QED BY <3>1, <3>2
  <2>2. RetryDelays(call, e) = Jittered(call.attempt - 1)
    BY <1>1 DEF RetryDelays
  <2>3. Jittered(call.attempt - 1) = { b \div 2, IF b * 3 > 40 THEN 20 ELSE (b * 3) \div 2 }
    BY DEF Jittered, MaxBackoff
  <2>. HIDE DEF b
  <2>. QED BY <2>1, <2>2, <2>3 DEF MaxBackoff
<1>2. CASE e.after # NoDelay
  BY <1>2 DEF RetryDelays, Capped, MaxBackoff
<1>. QED BY <1>1, <1>2

LEMMA Fails ==
  ASSUME RestInv, call # NoCall, NEW e, e.after \in Nat \cup {NoDelay}, AttemptFails(call, e),
         service' = service, wire' \subseteq wire
  PROVE  RestInv'
<1>1. CASE call.attempt < Attempts /\ ShouldRetry(call, e)
  <2>1. PICK d \in RetryDelays(call, e) : call' = [call EXCEPT !.phase = "sleeping", !.delay = d]
    BY <1>1 DEF AttemptFails
  <2>2. d \in 0..MaxBackoff
    BY <2>1, Delays DEF RestInv, CallOK
  <2>3. reply' = NoReply /\ results' = results
    BY <1>1 DEF AttemptFails
  <2>. QED BY <1>1, <2>1, <2>2, <2>3, Sleeps
<1>2. CASE ~(call.attempt < Attempts /\ ShouldRetry(call, e))
  <2>1. Return(call, e)
    BY <1>2 DEF AttemptFails
  <2>. QED BY <2>1, Returns
<1>. QED BY <1>1, <1>2

LEMMA FailureFacts ==
  ASSUME NEW kind
  PROVE  Failure(kind).after = NoDelay
BY DEF Failure, Outcome, NoAnswer

LEMMA RetryStep ==
  ASSUME RestInv, Retry
  PROVE  RestInv'
<1>1. /\ call # NoCall /\ call.phase = "sleeping" /\ IsCall(call) /\ Sound(call)
      /\ call.attempt \in 1..Attempts /\ call.attempt < Attempts
  BY DEF Retry, RestInv, CallOK
<1>. PICK attempt : attempt = NextAttempt(call)
  OBVIOUS
<1>. PICK c : c = [call EXCEPT !.phase = "waiting", !.delay = 0, !.attempt = attempt]
  OBVIOUS
<1>2. Send(c) /\ service' = service /\ results' = results
  BY DEF Retry
<1>3. /\ IsCall(c) /\ c.phase = "waiting" /\ c.delay = 0 /\ c.attempt = call.attempt + 1
      /\ c.n = call.n /\ c.op = call.op /\ c.batch = call.batch /\ c.expected = call.expected
      /\ c.stream = call.stream /\ c.link = call.link /\ c.listing = call.listing
  <2>1. /\ IsCall(c) /\ c.phase = "waiting" /\ c.delay = 0 /\ c.attempt = attempt
        /\ c.n = call.n /\ c.op = call.op /\ c.batch = call.batch /\ c.expected = call.expected
        /\ c.stream = call.stream /\ c.link = call.link /\ c.listing = call.listing
    BY <1>1 DEF IsCall
  <2>. QED BY <2>1 DEF NextAttempt
<1>4. c # NoCall /\ Sound(c)
  BY <1>1, <1>3 DEF NoCall, AllOps, Creations, Sound
<1>5. c.attempt \in 1..Attempts /\ c.attempt > call.attempt
  BY <1>1, <1>3, Bounds
<1>6. /\ c.n = Len(results) + 1
      /\ c.listing # NoListing => c.op = "list_all_links"
      /\ c.op = "append_records" =>
            c.stream = 1 /\ c.link = NoLink /\ c.listing.cursor = NoCursor
  BY <1>1, <1>3 DEF RestInv, CallOK
<1>7. c.delay \in 0..MaxBackoff
  BY <1>3 DEF MaxBackoff
<1>. QED BY <1>1, <1>2, <1>3, <1>4, <1>5, <1>6, <1>7, Sends

LEMMA PageStep ==
  ASSUME RestInv, Waiting, call.op = "list_all_links", PageArrives(call, reply),
         service' = service
  PROVE  RestInv'
<1>1. /\ call # NoCall /\ call.phase = "waiting" /\ IsCall(call) /\ Sound(call)
      /\ call.n = Len(results) + 1
  BY DEF Waiting, RestInv, CallOK
<1>. PICK listing : listing = NextListing(call.listing, reply.page)
  OBVIOUS
<1>. PICK d : d = [call EXCEPT !.listing = listing, !.attempt = 1,
                               !.honest = @ /\ reply.page.honest]
  OBVIOUS
<1>2. /\ IsCall(d) /\ d.phase = "waiting" /\ d.delay = call.delay /\ d.attempt = 1
      /\ d.n = call.n /\ d.op = call.op /\ d.batch = call.batch /\ d.expected = call.expected
  BY <1>1 DEF IsCall
<1>3. \/ Return(call, Failure("invalid page")) /\ wire' = wire
      \/ Return(d, Outcome("ok", reply)) /\ wire' = wire
      \/ Send(d) /\ results' = results
  BY DEF PageArrives
<1>4. CASE Return(call, Failure("invalid page")) /\ wire' = wire
  BY <1>1, <1>4, Returns
<1>5. CASE Return(d, Outcome("ok", reply)) /\ wire' = wire
  BY <1>1, <1>2, <1>5, Returns
<1>6. CASE Send(d) /\ results' = results
  <2>1. d # NoCall /\ Sound(d) /\ d.attempt \in 1..Attempts
    <3>1. d.op = "list_all_links"
      BY <1>2
    <3>2. d # NoCall
      BY <3>1 DEF NoCall
    <3>3. Sound(d)
      BY <1>1, <1>2 DEF Sound
    <3>. QED BY <1>2, <3>2, <3>3, Bounds
  <2>2. d.op = "list_all_links" /\ d.delay \in 0..MaxBackoff
    BY <1>1, <1>2 DEF RestInv, CallOK
  <2>. QED BY <1>1, <1>2, <1>6, <2>1, <2>2, Sends
<1>. QED BY <1>3, <1>4, <1>5, <1>6

LEMMA ReceiveStep ==
  ASSUME RestInv, Receive
  PROVE  RestInv'
<1>1. Waiting /\ call # NoCall /\ reply # NoReply /\ service' = service
  BY DEF Receive, Waiting
<1>2. reply.after \in Nat \cup {NoDelay}
  BY <1>1 DEF RestInv, ReplyOK
<1>3. CASE AttemptFails(call, StatusError(reply)) /\ wire' = wire
  <2>1. StatusError(reply).after = reply.after
    BY DEF StatusError, Outcome
  <2>. QED BY <1>1, <1>2, <1>3, <2>1, Fails
<1>4. CASE call.op = "list_all_links" /\ PageArrives(call, reply)
  BY <1>1, <1>4, PageStep
<1>5. ASSUME NEW outcome, Return(call, outcome), wire' = wire PROVE RestInv'
  BY <1>1, <1>5, Returns
<1>. QED BY <1>3, <1>4, <1>5 DEF Receive

LEMMA ClientStep ==
  ASSUME RestInv, Client \/ Dropped
  PROVE  RestInv'
<1>1. CASE Retry
  BY <1>1, RetryStep
<1>2. CASE TimesOut
  BY <1>2, Fails, FailureFacts DEF TimesOut, Waiting
<1>3. CASE ConnectFails
  BY <1>3, Fails, FailureFacts DEF ConnectFails, Waiting
<1>4. CASE ConnectionClosed
  BY <1>4, Fails, FailureFacts DEF ConnectionClosed, Waiting
<1>5. CASE Receive
  BY <1>5, ReceiveStep
<1>6. CASE ReceiveFails
  <2>1. PICK kind : AttemptFails(call, Failure(kind))
    BY <1>6 DEF ReceiveFails
  <2>. QED BY <1>6, <2>1, Fails, FailureFacts DEF ReceiveFails, Waiting
<1>7. CASE Dropped
  BY <1>7, Returns DEF Dropped
<1>. QED BY <1>1, <1>2, <1>3, <1>4, <1>5, <1>6, <1>7 DEF Client

LEMMA ServiceStep ==
  ASSUME RestInv, Environment
  PROVE  RestInv'
<1>1. ASSUME NEW r \in wire, NEW p \in Process(service, r), service' \in {service, p.state},
             wire' = wire \ {r}, call' = call, results' = results,
             NEW answer, Deliver(r, answer), answer.after \in Nat \cup {NoDelay}
      PROVE  RestInv'
  <2>1. ReplyOK'
    BY <1>1 DEF RestInv, ReplyOK, Deliver, Waiting
  <2>2. /\ ServiceOK(service)' /\ StreamsOK(service)'
        /\ service'.log = service.log \/ Appended(service', r)
    <3>1. CASE service' = service
      BY <3>1 DEF RestInv, ServiceOK, IsService, StreamsOK
    <3>2. CASE service' = p.state
      BY <3>2, Processed
    <3>. QED BY <1>1, <3>1, <3>2
  <2>3. CASE service'.log = service.log
    BY <1>1, <2>1, <2>2, <2>3, OtherRecords
  <2>4. CASE Appended(service', r)
    BY <1>1, <2>1, <2>2, <2>4, AppendServed
  <2>. QED BY <2>2, <2>3, <2>4
<1>2. ASSUME NEW r \in wire, Serve(r) PROVE RestInv'
  <2>1. PICK p \in Process(service, r) : service' = p.state /\ Deliver(r, p.reply)
    BY <1>2 DEF Serve
  <2>2. p.reply.after \in Nat \cup {NoDelay}
    BY Processed
  <2>. QED BY <1>1, <1>2, <2>1, <2>2 DEF Serve
<1>3. ASSUME NEW r \in wire, ServeFails(r) PROVE RestInv'
  <2>1. PICK p \in Process(service, r) : service' \in {service, p.state}
    BY <1>3 DEF ServeFails
  <2>2. PICK status \in Statuses, after \in RetryAfters :
          Deliver(r, [Reply(status, 0) EXCEPT !.after = after])
    BY <1>3 DEF ServeFails
  <2>3. [Reply(status, 0) EXCEPT !.after = after].after \in Nat \cup {NoDelay}
    BY Bounds DEF Reply
  <2>. QED BY <1>1, <1>3, <2>1, <2>2, <2>3 DEF ServeFails
<1>4. CASE Foreign
  <2>1. UNCHANGED <<call, reply, results, wire>>
    BY <1>4 DEF Foreign, clientVars
  <2>2. ReplyOK'
    BY <2>1 DEF RestInv, ReplyOK, Waiting
  <2>3. ASSUME NEW links, NEW made, service' = [service EXCEPT !.links = links, !.made = made]
        PROVE  RestInv'
    <3>1. /\ IsService(service') /\ service'.streams = service.streams
          /\ service'.log = service.log
      BY <2>3 DEF RestInv, ServiceOK, IsService
    <3>. QED BY <2>1, <2>2, <3>1, LinksChange, OtherRecords
  <2>4. CASE service' = NewLink(service, "foreign", <<0>>)
    <3>1. PICK links, made : service' = [service EXCEPT !.links = links, !.made = made]
      BY <2>4 DEF NewLink
    <3>. QED BY <2>3, <3>1
  <2>5. ASSUME NEW links, service' = [service EXCEPT !.links = links]
        PROVE  RestInv'
    <3>1. /\ IsService(service') /\ service'.streams = service.streams
          /\ service'.log = service.log
      BY <2>5 DEF RestInv, ServiceOK, IsService
    <3>. QED BY <2>1, <2>2, <3>1, LinksChange, OtherRecords
  <2>6. CASE service' = [service EXCEPT !.log = Append(@, [call |-> 0, attempt |-> 0, seq |-> 0])]
    BY <2>1, <2>6, ForeignRecord
  <2>. QED BY <1>4, <2>4, <2>5, <2>6 DEF Foreign
<1>. QED BY <1>2, <1>3, <1>4 DEF Environment

LEMMA ApplicationStep ==
  ASSUME RestInv, Application
  PROVE  RestInv'
<1>1. /\ <<>> \in Seq(Nat) /\ NoSeq \in Nat \cup {NoSeq}
      /\ {"create_stream", "get_stream", "update_stream", "delete_stream", "create_link",
          "revoke_link", "list_all_links", "append_records"} = AllOps
  BY DEF AllOps, Creations
<1>2. CASE CreateStream
  BY <1>1, <1>2, Begins DEF CreateStream
<1>3. CASE GetStream
  BY <1>1, <1>3, Begins DEF GetStream
<1>4. CASE UpdateStream
  BY <1>1, <1>4, Begins DEF UpdateStream
<1>5. CASE DeleteStream
  BY <1>1, <1>5, Begins DEF DeleteStream
<1>6. CASE ListAllLinks
  BY <1>1, <1>6, Begins DEF ListAllLinks
<1>7. ASSUME NEW link \in LinkIds, CreateLink(link) PROVE RestInv'
  BY <1>1, <1>7, Begins DEF CreateLink
<1>8. ASSUME NEW link \in LinkIds, RevokeLink(link) PROVE RestInv'
  BY <1>1, <1>8, Begins DEF RevokeLink
<1>9. ASSUME NEW batch \in Batches, NEW expected \in Expectations, AppendRecords(batch, expected)
      PROVE  RestInv'
  <2>1. batch \in Seq(Nat) /\ expected \in Nat \cup {NoSeq}
    BY Bounds
  <2>2. CASE AppendValid(batch, expected)
    BY <1>1, <1>9, <2>1, <2>2, Begins DEF AppendRecords
  <2>3. CASE ~AppendValid(batch, expected)
    <3>. DEFINE c == NewCall("append_records", 1, NoLink, batch, expected)
    <3>1. /\ Return(c, Failure("invalid")) /\ call = NoCall
          /\ service' = service /\ wire' = wire
      BY <1>9, <2>3 DEF AppendRecords, CanBegin
    <3>2. c.n = Len(results) + 1
      BY DEF NewCall
    <3>. QED BY <3>1, <3>2, Rejects
  <2>. QED BY <2>2, <2>3
<1>. QED BY <1>2, <1>3, <1>4, <1>5, <1>6, <1>7, <1>8, <1>9 DEF Application

LEMMA Stutters ==
  ASSUME RestInv, UNCHANGED vars
  PROVE  RestInv'
<1>1. UNCHANGED <<call, reply, results, wire, service>>
  BY DEF vars, clientVars
<1>. QED BY <1>1, OtherRecords DEF RestInv, ReplyOK, Waiting, ServiceOK, IsService, StreamsOK

LEMMA StartStep ==
  ASSUME RestInv, [StartNext]_allVars
  PROVE  RestInv'
<1>1. CASE UNCHANGED vars
  BY <1>1, Stutters
<1>2. CASE Client \/ Dropped
  BY <1>2, ClientStep
<1>3. CASE Environment
  BY <1>3, ServiceStep
<1>4. CASE Application
  BY <1>4, ApplicationStep
<1>5. CASE Create
  BY <1>5, ApplicationStep DEF Create, Application
<1>6. CASE CleanUp
  <2>1. <<>> \in Seq(Nat) /\ NoSeq \in Nat \cup {NoSeq} /\ "delete_stream" \in AllOps
    BY DEF AllOps
  <2>. QED BY <1>6, <2>1, Begins DEF CleanUp
<1>7. CASE Killed
  BY <1>1, <1>2, <1>7 DEF Killed
<1>8. CASE UNCHANGED allVars
  BY <1>1, <1>8 DEF allVars
<1>. QED BY <1>1, <1>2, <1>3, <1>4, <1>5, <1>6, <1>7, <1>8
     DEF StartNext, Command, HasCreated, ShowLinks, ShowLinksFails, Connect, HostFails,
         RecordDurable, Confirmed, StartFails, HostEnds, CleanedUp

LEMMA Initially == Init => RestInv
<1>. SUFFICES ASSUME Init PROVE RestInv
  OBVIOUS
<1>1. /\ call = NoCall /\ reply = NoReply /\ results = <<>> /\ wire = {}
      /\ service.log = <<>> /\ IsService(service)
      /\ service.streams = << [key |-> <<>>, call |-> 0, status |-> "active"] >>
  BY DEF Init, ExistingService, IsService
<1>2. ServiceOK(service) /\ StreamsOK(service)
  BY <1>1 DEF ServiceOK, StreamsOK, StreamRecord
<1>3. CallOK /\ ReplyOK /\ WireOK /\ UnservedOK
  BY <1>1 DEF CallOK, ReplyOK, WireOK, UnservedOK
<1>4. ResultsOK /\ LogOK
  BY <1>1 DEF ResultsOK, LogOK, Distinguished
<1>. QED BY <1>2, <1>3, <1>4 DEF RestInv

\* The client's state keeps its type, its attempts and its delays keep their bounds,
\* whatever the application and the service do (retry_when, reconnect_delay).
THEOREM TypeCorrect == StartSpec => []TypeOK
<1>1. StartInit => RestInv
  BY Initially DEF StartInit
<1>2. RestInv /\ [StartNext]_allVars => RestInv'
  BY StartStep
<1>3. RestInv => TypeOK
  <2>. SUFFICES ASSUME RestInv PROVE TypeOK
    OBVIOUS
  <2>1. call # NoCall =>
          /\ call.n = Len(results) + 1 /\ call.op \in AllOps /\ call.attempt \in 1..Attempts
          /\ call.phase \in {"waiting", "sleeping"} /\ call.delay \in 0..MaxBackoff
          /\ call.listing # NoListing => call.op = "list_all_links"
    BY DEF RestInv, CallOK, Sound
  <2>2. reply # NoReply => Waiting
    BY DEF RestInv, ReplyOK
  <2>3. ASSUME NEW r \in wire
        PROVE  /\ r.call \in 1..(Len(results) + 1) /\ r.attempt \in 1..Attempts
               /\ (r.key # <<>>) = (r.op \in Creations)
    <3>1. r.call \in 1..Known /\ r.attempt \in 1..Attempts
          /\ r.key = (IF r.op \in Creations THEN <<r.call>> ELSE <<>>)
      BY DEF RestInv, WireOK, RequestOK
    <3>2. <<r.call>> # <<>>
      OBVIOUS
    <3>3. r.call \in 1..(Len(results) + 1)
      BY <3>1, KnownType DEF RestInv, Known
    <3>. QED BY <3>1, <3>2, <3>3
  <2>. QED BY <2>1, <2>2, <2>3 DEF TypeOK
<1>. QED BY <1>1, <1>2, <1>3, PTL DEF StartSpec

LEMMA CopiesBounded ==
  ASSUME RestInv, NEW c \in Calls
  PROVE  Cardinality(Copies(c)) <= (IF c.expected = NoSeq THEN Attempts ELSE 1)
<1>1. c.n \in Nat \ {0}
  BY KnownType DEF RestInv, CallOK, Calls
<1>2. \A i \in Copies(c) :
        /\ i \in DOMAIN service.log /\ LogRecordOK(i) /\ service.log[i] \in LogRecord
        /\ service.log[i].call = c.n /\ service.log[i].seq = c.batch[1]
  BY SeqFacts DEF RestInv, LogOK, ServiceOK, Copies
<1>3. \A i \in Copies(c) : service.log[i].attempt \in 1..Attempts
  BY <1>1, <1>2 DEF LogRecordOK
<1>4. CASE c.expected = NoSeq
  <2>. DEFINE f == [i \in Copies(c) |-> service.log[i].attempt]
  <2>1. f \in [Copies(c) -> 1..Attempts]
    BY <1>3
  <2>2. ASSUME NEW i \in Copies(c), NEW j \in Copies(c), f[i] = f[j] PROVE i = j
    <3>1. service.log[i].attempt = service.log[j].attempt
      BY <2>2
    <3>2. service.log[i] = service.log[j]
      BY <1>2, <3>1 DEF LogRecord
    <3>. QED BY <1>1, <1>2, <3>2 DEF RestInv, LogOK, Distinguished
  <2>3. IsFiniteSet(1..Attempts) /\ Cardinality(1..Attempts) = Attempts
    BY Bounds, FS_Interval
  <2>4. Cardinality(Copies(c)) <= Cardinality(1..Attempts)
    <3>1. f \in Injection(Copies(c), 1..Attempts)
      BY <2>1, <2>2 DEF Injection, IsInjective
    <3>. QED BY <2>3, <3>1, FS_Injection DEF ExistsInjection
  <2>. QED BY <1>4, <2>3, <2>4
<1>5. CASE c.expected # NoSeq
  <2>1. Copies(c) \subseteq {c.expected + 1}
    BY <1>1, <1>2, <1>5 DEF LogRecordOK
  <2>2. IsFiniteSet({c.expected + 1}) /\ Cardinality({c.expected + 1}) = 1
    BY FS_Singleton
  <2>3. Cardinality(Copies(c)) <= 1
    BY <2>1, <2>2, FS_Subset
  <2>. QED BY <1>5, <2>3
<1>. QED BY <1>4, <1>5

\* A creation makes one stream, an append one copy for each of its attempts at most, and
\* one in all when it names the sequence number it expects: for every number of attempts
\* and every order in which the service gets to them.
THEOREM AtMostOnce == StartSpec => []OnceOnly
<1>1. StartInit => RestInv
  BY Initially DEF StartInit
<1>2. RestInv /\ [StartNext]_allVars => RestInv'
  BY StartStep
<1>3. RestInv => OnceOnly
  <2>. SUFFICES ASSUME RestInv PROVE OnceOnly
    OBVIOUS
  <2>1. \A i, j \in DOMAIN service.streams :
          service.streams[i].call = service.streams[j].call => i = j
    BY DEF RestInv, StreamsOK
  <2>2. ASSUME NEW c \in Calls, c.op = "append_records"
        PROVE  Cardinality(Copies(c)) <= (IF c.expected = NoSeq THEN Attempts ELSE 1)
    BY CopiesBounded
  <2>. QED BY <2>1, <2>2 DEF OnceOnly
<1>. QED BY <1>1, <1>2, <1>3, PTL DEF StartSpec

-----------------------------------------------------------------------------
(* What a service does not take back.                                      *)

LEMMA MoreBounds ==
  /\ Statuses \cap (200..299) = {} /\ PageLimit \in Nat \ {0} /\ "foreign" \notin LinkIds
  /\ \A p \in FaultyPages : p.honest = FALSE /\ p.ids \in Seq(Range(p.ids)) /\ p.next \in Nat
BY RestAssumption

\* A link that was there before, and was active if it is.
Kept(l) ==
  \E k \in service.links : /\ k.id = l.id /\ k.key = l.key /\ k.order = l.order
                           /\ l.active => k.active

\* Where the links come from once a service has got to the request.
LinksFrom(s, r) ==
  /\ \A l \in s.links :
       Kept(l) \/ (r.op = "create_link" /\ l.id = r.link /\ LinkAt(service, r.link) = {})
  /\ \A k \in service.links : \E l \in s.links : l.id = k.id

LEMMA ServiceTypes ==
  ASSUME ServiceOK(service), LinksOK(service)
  PROVE  /\ IsService(service)
         /\ service.streams \in Seq(StreamRecord) /\ Len(service.streams) \in Nat
         /\ DOMAIN service.streams = 1..Len(service.streams)
         /\ \A i \in DOMAIN service.streams : service.streams[i] \in StreamRecord
         /\ service.log \in Seq(LogRecord) /\ Len(service.log) \in Nat
         /\ DOMAIN service.log = 1..Len(service.log)
         /\ service.titles \in Seq(Nat) /\ service.made \in Nat
         /\ \A l \in service.links : Kept(l) /\ l.order \in Nat
<1>1. /\ IsService(service) /\ service.streams \in Seq(StreamRecord)
      /\ service.log \in Seq(LogRecord) /\ service.titles \in Seq(Nat) /\ service.made \in Nat
      /\ \A l \in service.links : l.order \in 1..service.made
  BY DEF ServiceOK, LinksOK
<1>2. \A l \in service.links : Kept(l) /\ l.order \in Nat
  BY <1>1 DEF Kept
<1>. QED BY <1>1, <1>2, SeqFacts

LEMMA StreamsEvolve ==
  ASSUME ServiceOK(service), LinksOK(service), NEW s, NEW r,
         s.links = service.links, s.made = service.made, s.log = service.log,
         s.titles = service.titles,
         Len(s.streams) \in Nat, Len(s.streams) >= Len(service.streams),
         \A i \in DOMAIN service.streams :
           /\ s.streams[i].call = service.streams[i].call
           /\ service.streams[i].status = "deleting" => s.streams[i].status = "deleting"
  PROVE  Evolves(service, s) /\ LinksOK(s) /\ LinksFrom(s, r)
<1>1. LinksOK(s)
  BY ServiceTypes DEF LinksOK
<1>2. LinksFrom(s, r)
  BY ServiceTypes DEF LinksFrom
<1>3. Evolves(service, s)
  BY ServiceTypes DEF Evolves, Kept
<1>. QED BY <1>1, <1>2, <1>3

LEMMA LinksEvolve ==
  ASSUME ServiceOK(service), LinksOK(service), NEW s, NEW r,
         s.streams = service.streams, s.log = service.log, s.titles = service.titles,
         s.made \in Nat, s.made >= service.made,
         \A l \in s.links : IsLink(l) /\ l.order \in 1..s.made,
         \A l, k \in s.links : l.id = k.id => l = k,
         \A l \in s.links : Kept(l) \/ l.order > service.made
  PROVE  Evolves(service, s) /\ LinksOK(s)
<1>1. LinksOK(s)
  BY DEF LinksOK
<1>2. Evolves(service, s)
  BY ServiceTypes DEF Evolves, Kept
<1>. QED BY <1>1, <1>2

LEMMA LogEvolves ==
  ASSUME ServiceOK(service), LinksOK(service), NEW s, NEW r, NEW t \in Seq(LogRecord),
         s.links = service.links, s.made = service.made, s.streams = service.streams,
         s.titles = service.titles, s.log = service.log \o t
  PROVE  Evolves(service, s) /\ LinksOK(s) /\ LinksFrom(s, r)
<1>1. LinksOK(s)
  BY ServiceTypes DEF LinksOK
<1>2. LinksFrom(s, r)
  BY ServiceTypes DEF LinksFrom
<1>3. Len(service.log) <= Len(s.log) /\ \A i \in DOMAIN service.log : s.log[i] = service.log[i]
  BY ServiceTypes, ConcatFacts
<1>4. Evolves(service, s)
  BY <1>3, ServiceTypes DEF Evolves, Kept
<1>. QED BY <1>1, <1>2, <1>4

LEMMA TitlesEvolve ==
  ASSUME ServiceOK(service), LinksOK(service), NEW s, NEW r, NEW title \in Nat,
         s.links = service.links, s.made = service.made, s.streams = service.streams,
         s.log = service.log, s.titles = Append(service.titles, title)
  PROVE  Evolves(service, s) /\ LinksOK(s) /\ LinksFrom(s, r) /\ title \in Range(s.titles)
<1>1. /\ s.titles \in Seq(Nat)
      /\ \A i \in DOMAIN service.titles : s.titles[i] = service.titles[i]
      /\ DOMAIN service.titles \subseteq DOMAIN s.titles
      /\ \E i \in DOMAIN s.titles : s.titles[i] = title
  <2>1. /\ service.titles \in Seq(Nat) /\ Nat \cup {title} = Nat
        /\ DOMAIN service.titles = 1..Len(service.titles) /\ Len(service.titles) \in Nat
    BY ServiceTypes, SeqFacts
  <2>2. /\ Append(service.titles, title) \in Seq(Nat \cup {title})
        /\ DOMAIN Append(service.titles, title) = 1..(Len(service.titles) + 1)
        /\ \A i \in 1..Len(service.titles) : Append(service.titles, title)[i] = service.titles[i]
        /\ Append(service.titles, title)[Len(service.titles) + 1] = title
    BY SMTT(30), <2>1, AppendFacts
  <2>. QED BY <2>1, <2>2
<1>2. LinksOK(s)
  BY <1>1, ServiceTypes DEF LinksOK
<1>3. LinksFrom(s, r)
  BY ServiceTypes DEF LinksFrom
<1>4. Range(service.titles) \subseteq Range(s.titles) /\ title \in Range(s.titles)
  BY <1>1 DEF Range
<1>5. Evolves(service, s)
  BY <1>4, ServiceTypes DEF Evolves, Kept
<1>. QED BY <1>2, <1>3, <1>4, <1>5

LEMMA Unchanging ==
  ASSUME ServiceOK(service), LinksOK(service), NEW r
  PROVE  Evolves(service, service) /\ LinksOK(service) /\ LinksFrom(service, r)
BY StreamsEvolve, ServiceTypes

LEMMA StreamAdded ==
  ASSUME ServiceOK(service), LinksOK(service), NEW r, NEW x, x.call = r.call,
         NEW s, s = [service EXCEPT !.streams = Append(@, x)]
  PROVE  /\ Evolves(service, s) /\ LinksOK(s) /\ LinksFrom(s, r)
         /\ DOMAIN s.streams = 1..(Len(service.streams) + 1)
         /\ s.streams[Len(service.streams) + 1] = x
         /\ \A i \in DOMAIN service.streams : s.streams[i] = service.streams[i]
<1>1. /\ s.streams = Append(service.streams, x) /\ s.links = service.links
      /\ s.made = service.made /\ s.log = service.log /\ s.titles = service.titles
  BY ServiceTypes DEF IsService
<1>2. /\ Len(s.streams) = Len(service.streams) + 1
      /\ DOMAIN s.streams = 1..(Len(service.streams) + 1)
      /\ s.streams[Len(service.streams) + 1] = x
      /\ \A i \in DOMAIN service.streams : s.streams[i] = service.streams[i]
  BY <1>1, ServiceTypes, AppendFacts
<1>3. Len(s.streams) \in Nat /\ Len(s.streams) >= Len(service.streams)
  BY <1>2, ServiceTypes
<1>4. Evolves(service, s) /\ LinksOK(s) /\ LinksFrom(s, r)
  BY <1>1, <1>2, <1>3, StreamsEvolve
<1>. QED BY <1>2, <1>4

LEMMA StreamDeleted ==
  ASSUME ServiceOK(service), LinksOK(service), NEW r,
         NEW s, s.streams = Deleting(service.streams, r.stream), s.links = service.links,
         s.made = service.made, s.log = service.log, s.titles = service.titles
  PROVE  /\ Evolves(service, s) /\ LinksOK(s) /\ LinksFrom(s, r)
         /\ r.stream \in DOMAIN service.streams => s.streams[r.stream].status = "deleting"
<1>2. /\ s.streams \in Seq(StreamRecord) /\ DOMAIN s.streams = DOMAIN service.streams
      /\ \A i \in DOMAIN service.streams : s.streams[i].call = service.streams[i].call
  <2>1. service.streams \in Seq(StreamRecord)
    BY ServiceTypes
  <2>. QED BY <2>1, StreamChanges
<1>3. Len(s.streams) = Len(service.streams)
  <2>1. DOMAIN s.streams = 1..Len(s.streams) /\ Len(s.streams) \in Nat
    BY <1>2, SeqFacts
  <2>. QED BY <1>2, <2>1, ServiceTypes
<1>4. ASSUME NEW i \in DOMAIN service.streams
      PROVE  /\ service.streams[i].status = "deleting" => s.streams[i].status = "deleting"
             /\ i = r.stream => s.streams[i].status = "deleting"
  BY ServiceTypes DEF Deleting, StreamRecord
<1>5. Evolves(service, s) /\ LinksOK(s) /\ LinksFrom(s, r)
  <2>1. /\ Len(service.streams) \in Nat
        /\ \A i \in DOMAIN service.streams :
             /\ s.streams[i].call = service.streams[i].call
             /\ service.streams[i].status = "deleting" => s.streams[i].status = "deleting"
    BY <1>2, <1>4, ServiceTypes
  <2>. QED BY <1>3, <2>1, StreamsEvolve
<1>. QED BY <1>4, <1>5

LEMMA LinkAdded ==
  ASSUME ServiceOK(service), LinksOK(service), NEW id, NEW key, LinkAt(service, id) = {},
         NEW s, s = NewLink(service, id, key)
  PROVE  /\ Evolves(service, s) /\ LinksOK(s) /\ IsService(s)
         /\ s.streams = service.streams /\ s.log = service.log
         /\ \A l \in s.links : (l \in service.links /\ l.id # id)
                               \/ (l.id = id /\ l.key = key /\ l.order > service.made)
         /\ service.links \subseteq s.links /\ \E l \in s.links : l.id = id
<1>. PICK x : x = [id |-> id, key |-> key, order |-> service.made + 1, active |-> TRUE]
  OBVIOUS
<1>1. /\ IsLink(x) /\ x.id = id /\ x.key = key /\ x.order = service.made + 1
      /\ x.order \in 1..(service.made + 1)
  BY ServiceTypes DEF IsLink
<1>2. /\ s.links = service.links \cup {x} /\ s.made = service.made + 1
      /\ s.streams = service.streams /\ s.log = service.log /\ s.titles = service.titles
      /\ IsService(s)
  BY ServiceTypes DEF NewLink, IsService
<1>3. \A l \in service.links : l.id # id
  BY DEF LinkAt
<1>4. /\ \A l \in s.links : IsLink(l) /\ l.order \in 1..s.made
      /\ \A l, k \in s.links : l.id = k.id => l = k
      /\ \A l \in s.links : Kept(l) \/ l.order > service.made
  <2>1. /\ service.made \in Nat /\ \A l \in service.links : Kept(l)
    BY ServiceTypes
  <2>2. \A l \in service.links : IsLink(l) /\ l.order \in 1..service.made
    BY DEF LinksOK
  <2>3. \A l \in service.links : l.order \in 1..(service.made + 1)
    BY <2>1, <2>2
  <2>4. \A l, k \in s.links : l.id = k.id => l = k
    BY <1>1, <1>2, <1>3 DEF LinksOK
  <2>5. x.order > service.made
    BY <1>1, <2>1
  <2>6. \A l \in s.links : IsLink(l) /\ l.order \in 1..s.made
    BY <1>1, <1>2, <2>2, <2>3
  <2>7. \A l \in s.links : Kept(l) \/ l.order > service.made
    BY <1>2, <2>1, <2>5
  <2>. QED BY <2>4, <2>6, <2>7
<1>5. s.made \in Nat /\ s.made >= service.made /\ x.order > service.made
  BY <1>1, <1>2, ServiceTypes
<1>6. Evolves(service, s) /\ LinksOK(s)
  BY <1>2, <1>4, <1>5, LinksEvolve
<1>. QED BY <1>1, <1>2, <1>3, <1>5, <1>6

LEMMA LinkOff ==
  ASSUME NEW l, IsLink(l), NEW m, m = [l EXCEPT !.active = FALSE]
  PROVE  /\ IsLink(m) /\ m.id = l.id /\ m.key = l.key /\ m.order = l.order
         /\ m.active = FALSE
BY DEF IsLink

LEMMA LinkRevoked ==
  ASSUME ServiceOK(service), LinksOK(service), NEW r, NEW s, s = Revoked(service, r.link)
  PROVE  /\ Evolves(service, s) /\ LinksOK(s) /\ LinksFrom(s, r)
         /\ \A l \in s.links : l.id = r.link => ~l.active
<1>. DEFINE off(l) == [l EXCEPT !.active = FALSE]
<1>1. ASSUME NEW l \in service.links
      PROVE  /\ IsLink(off(l)) /\ off(l).id = l.id /\ off(l).key = l.key
             /\ off(l).order = l.order /\ off(l).active = FALSE
  <2>1. IsLink(l)
    BY DEF LinksOK
  <2>. PICK m : m = off(l)
    OBVIOUS
  <2>. QED BY <2>1, LinkOff
<1>2. /\ s.links = (service.links \ LinkAt(service, r.link)) \cup {off(l) : l \in LinkAt(service, r.link)}
      /\ s.made = service.made /\ s.streams = service.streams /\ s.log = service.log
      /\ s.titles = service.titles
  BY ServiceTypes DEF Revoked, IsService
<1>. HIDE DEF off
<1>3. ASSUME NEW l \in s.links
      PROVE  \E k \in service.links :
               \/ l = k /\ k.id # r.link
               \/ l = off(k) /\ k.id = r.link
  BY <1>2 DEF LinkAt
<1>4. ASSUME NEW l \in s.links
      PROVE  /\ IsLink(l) /\ l.order \in 1..s.made /\ Kept(l)
             /\ l.id = r.link => ~l.active
  <2>1. PICK k \in service.links : \/ l = k /\ k.id # r.link
                                   \/ l = off(k) /\ k.id = r.link
    BY <1>3
  <2>2. IsLink(k) /\ k.order \in 1..service.made
    BY DEF LinksOK
  <2>3. CASE l = k /\ k.id # r.link
    BY <1>2, <2>2, <2>3 DEF Kept
  <2>4. CASE l = off(k) /\ k.id = r.link
    BY <1>1, <1>2, <2>2, <2>4 DEF Kept
  <2>. QED BY <2>1, <2>3, <2>4
<1>5. ASSUME NEW l \in s.links, NEW k \in s.links, l.id = k.id PROVE l = k
  <2>1. PICK a \in service.links : \/ l = a /\ a.id # r.link
                                   \/ l = off(a) /\ a.id = r.link
    BY <1>3
  <2>2. PICK b \in service.links : \/ k = b /\ b.id # r.link
                                   \/ k = off(b) /\ b.id = r.link
    BY <1>3
  <2>3. a.id = b.id
    BY <1>1, <1>5, <2>1, <2>2
  <2>4. a = b
    BY <2>3 DEF LinksOK
  <2>. QED BY <2>1, <2>2, <2>4
<1>6. ASSUME NEW k \in service.links PROVE \E l \in s.links : l.id = k.id
  <2>1. CASE k.id = r.link
    <3>1. off(k) \in s.links
      BY <1>2, <2>1 DEF LinkAt
    <3>. QED BY <1>1, <3>1
  <2>2. CASE k.id # r.link
    BY <1>2, <2>2 DEF LinkAt
  <2>. QED BY <2>1, <2>2
<1>7. Evolves(service, s) /\ LinksOK(s)
  BY <1>2, <1>4, <1>5, ServiceTypes, LinksEvolve
<1>8. LinksFrom(s, r)
  BY <1>4, <1>6 DEF LinksFrom
<1>. QED BY <1>4, <1>7, <1>8

LEMMA LinkRemoved ==
  ASSUME ServiceOK(service), LinksOK(service), NEW x, NEW s, s.links = service.links \ {x},
         s.made = service.made, s.streams = service.streams, s.log = service.log,
         s.titles = service.titles
  PROVE  Evolves(service, s) /\ LinksOK(s)
<1>1. /\ \A l \in service.links : IsLink(l) /\ l.order \in 1..service.made
      /\ \A l, k \in service.links : l.id = k.id => l = k
  BY DEF LinksOK
<1>2. /\ service.made \in Nat /\ service.made >= service.made
      /\ \A l \in service.links : Kept(l)
  BY ServiceTypes
<1>3. /\ \A l \in s.links : IsLink(l) /\ l.order \in 1..s.made
      /\ \A l, k \in s.links : l.id = k.id => l = k
      /\ \A l \in s.links : Kept(l) \/ l.order > service.made
      /\ s.made \in Nat /\ s.made >= service.made
  BY <1>1, <1>2
<1>. QED BY <1>3, LinksEvolve

\* Whatever request the service gets to.
LEMMA Evolved ==
  ASSUME RestInv, TruthInv, NEW r \in wire, NEW p \in Process(service, r)
  PROVE  Evolves(service, p.state) /\ LinksOK(p.state) /\ LinksFrom(p.state, r)
<1>1. /\ ServiceOK(service) /\ LinksOK(service) /\ RequestOK(r) /\ IsService(service)
      /\ r.op \in AllOps /\ r.call \in Nat
  <2>1. RequestOK(r) /\ ServiceOK(service) /\ LinksOK(service) /\ ResultsOK
    BY DEF RestInv, WireOK, TruthInv
  <2>. QED BY <2>1, KnownType DEF RequestOK, Sound, ServiceOK
<1>2. CASE p.state = service
  BY <1>1, <1>2, Unchanging
<1>3. CASE r.op = "create_stream"
  <2>1. CASE StreamOf(service, r.key) = {}
    <3>. PICK x : x = [key |-> r.key, call |-> r.call, status |-> "active"]
      OBVIOUS
    <3>1. p.state = [service EXCEPT !.streams = Append(@, x)] /\ x.call = r.call
      BY <1>3, <2>1 DEF Process, DoCreateStream, Answered
    <3>. QED BY <1>1, <3>1, StreamAdded
  <2>2. CASE StreamOf(service, r.key) # {}
    BY <1>2, <1>3, <2>2 DEF Process, DoCreateStream, Answered
  <2>. QED BY <2>1, <2>2
<1>4. CASE r.op = "delete_stream"
  <2>1. p.state = [service EXCEPT !.streams[r.stream].status = "deleting"]
    BY <1>4 DEF Process, Answered
  <2>2. /\ p.state.streams = Deleting(service.streams, r.stream)
        /\ p.state.links = service.links /\ p.state.made = service.made
        /\ p.state.log = service.log /\ p.state.titles = service.titles
    BY <1>1, <2>1 DEF IsService, Deleting
  <2>. QED BY <1>1, <2>2, StreamDeleted
<1>5. CASE r.op \notin {"create_stream", "delete_stream"} /\ service.streams[r.stream].status # "active"
  BY <1>2, <1>5 DEF Process, Answered
<1>. DEFINE Live == service.streams[r.stream].status = "active"
<1>6. CASE r.op = "create_link" /\ Live
  <2>1. p \in DoCreateLink(service, r)
    BY <1>6 DEF Process
  <2>2. CASE LinkAt(service, r.link) = {}
    <3>1. p.state = NewLink(service, r.link, r.key)
      BY <2>1, <2>2 DEF DoCreateLink, Answered
    <3>2. /\ Evolves(service, p.state) /\ LinksOK(p.state)
          /\ \A l \in p.state.links : l \in service.links \/ l.id = r.link
          /\ service.links \subseteq p.state.links
      BY <1>1, <2>2, <3>1, LinkAdded
    <3>3. \A l \in service.links : Kept(l)
      BY <1>1, ServiceTypes
    <3>4. LinksFrom(p.state, r)
      BY <1>6, <2>2, <3>2, <3>3 DEF LinksFrom
    <3>. QED BY <3>2, <3>4
  <2>3. CASE LinkAt(service, r.link) # {}
    BY <1>2, <2>1, <2>3 DEF DoCreateLink, Answered
  <2>. QED BY <2>2, <2>3
<1>7. CASE r.op = "revoke_link" /\ Live
  <2>1. p.state \in {service, Revoked(service, r.link)}
    BY <1>7 DEF Process, Answered
  <2>2. CASE p.state = Revoked(service, r.link)
    BY <1>1, <2>2, LinkRevoked
  <2>. QED BY <1>2, <2>1, <2>2
<1>8. CASE r.op = "append_records" /\ Live
  <2>1. p \in DoAppend(service, r)
    BY <1>8 DEF Process
  <2>2. CASE r.expected \notin {NoSeq, Len(service.log)}
    BY <1>2, <2>1, <2>2 DEF DoAppend, Answered
  <2>3. CASE r.expected \in {NoSeq, Len(service.log)}
    <3>1. p.state = [service EXCEPT !.log = @ \o Added(r)]
      BY <2>1, <2>3 DEF DoAppend, Answered
    <3>2. /\ p.state.streams = service.streams /\ p.state.log = service.log \o Added(r)
          /\ p.state.links = service.links /\ p.state.made = service.made
          /\ p.state.titles = service.titles
      BY <1>1, <3>1 DEF IsService
    <3>3. Added(r) \in Seq(LogRecord)
      BY <1>1, <1>8, AddedFacts DEF RestInv
    <3>. QED BY <1>1, <3>2, <3>3, LogEvolves
  <2>. QED BY <2>2, <2>3
<1>9. CASE r.op = "list_all_links" /\ Live
  <2>1. p \in DoList(service, r)
    BY <1>9 DEF Process
  <2>. QED BY <1>2, <2>1 DEF DoList
<1>10. CASE r.op = "update_stream" /\ Live
  <2>1. p.state = [service EXCEPT !.titles = Append(@, r.call)]
    BY <1>10 DEF Process, Answered
  <2>2. /\ p.state.streams = service.streams /\ p.state.log = service.log
        /\ p.state.links = service.links /\ p.state.made = service.made
        /\ p.state.titles = Append(service.titles, r.call)
    BY <1>1, <2>1 DEF IsService
  <2>. QED BY <1>1, <2>2, TitlesEvolve
<1>11. CASE r.op = "get_stream" /\ Live
  BY <1>2, <1>11 DEF Process, Answered
<1>. QED BY <1>1, <1>3, <1>4, <1>5, <1>6, <1>7, <1>8, <1>9, <1>10, <1>11 DEF AllOps, Creations

-----------------------------------------------------------------------------
(* What is true of results, listings and answers stays true.               *)

\* What Evolves says of two services in their types.
LEMMA EvolvedFacts ==
  ASSUME ServiceOK(service), LinksOK(service), ServiceOK(service)', LinksOK(service)',
         Evolves(service, service')
  PROVE  /\ service.made \in Nat /\ service'.made \in Nat /\ service.made <= service'.made
         /\ DOMAIN service.streams = 1..Len(service.streams)
         /\ DOMAIN service.streams \subseteq DOMAIN service'.streams
         /\ \A i \in DOMAIN service.streams :
              /\ service'.streams[i].call = service.streams[i].call
              /\ service.streams[i].status = "deleting" => service'.streams[i].status = "deleting"
         /\ \A l \in service'.links : l.order > service.made \/ Kept(l)
         /\ \A l \in service'.links : l.order \in Nat
         /\ Len(service.log) \in Nat /\ Len(service'.log) \in Nat
         /\ Len(service.log) <= Len(service'.log)
         /\ \A i \in 1..Len(service.log) : service'.log[i] = service.log[i]
         /\ Range(service.titles) \subseteq Range(service'.titles)
<1>1. /\ service'.streams \in Seq(StreamRecord) /\ service'.log \in Seq(LogRecord)
      /\ service'.made \in Nat /\ \A l \in service'.links : l.order \in 1..service'.made
  BY DEF ServiceOK, LinksOK
<1>2. /\ Len(service'.streams) \in Nat /\ DOMAIN service'.streams = 1..Len(service'.streams)
      /\ Len(service'.log) \in Nat /\ \A l \in service'.links : l.order \in Nat
  BY <1>1, SeqFacts
<1>3. /\ service.made \in Nat /\ Len(service.streams) \in Nat /\ Len(service.log) \in Nat
      /\ DOMAIN service.streams = 1..Len(service.streams)
      /\ DOMAIN service.log = 1..Len(service.log)
  BY ServiceTypes
<1>4. /\ service.made <= service'.made /\ Len(service.streams) <= Len(service'.streams)
      /\ \A i \in DOMAIN service.streams :
              /\ service'.streams[i].call = service.streams[i].call
              /\ service.streams[i].status = "deleting" => service'.streams[i].status = "deleting"
      /\ Len(service.log) <= Len(service'.log)
      /\ \A i \in DOMAIN service.log : service'.log[i] = service.log[i]
      /\ Range(service.titles) \subseteq Range(service'.titles)
  BY DEF Evolves
<1>5. \A l \in service'.links : l.order > service.made \/ Kept(l)
  BY DEF Evolves, Kept
<1>6. DOMAIN service.streams \subseteq DOMAIN service'.streams
  BY <1>2, <1>3, <1>4
<1>. QED BY <1>1, <1>2, <1>3, <1>4, <1>5, <1>6

LEMMA StoredStays ==
  ASSUME NEW batch \in Seq(Nat), NEW n, NEW number, Stored(batch, n, number),
         Len(service.log) \in Nat, Len(service'.log) \in Nat,
         Len(service.log) <= Len(service'.log),
         \A i \in 1..Len(service.log) : service'.log[i] = service.log[i]
  PROVE  Stored(batch, n, number)'
<1>1. Len(batch) \in Nat /\ DOMAIN batch = 1..Len(batch)
  BY SeqFacts
<1>2. \A i \in DOMAIN batch : number + i \in 1..Len(service.log)
  BY <1>1 DEF Stored
<1>3. number \in Nat /\ number + Len(batch) <= Len(service'.log)
  BY <1>1 DEF Stored
<1>4. \A i \in DOMAIN batch :
        service.log[number + i].call = n /\ service.log[number + i].seq = batch[i]
  BY DEF Stored
<1>5. ASSUME NEW i \in DOMAIN batch
      PROVE  service'.log[number + i].call = n /\ service'.log[number + i].seq = batch[i]
  <2>1. service'.log[number + i] = service.log[number + i]
    BY <1>2
  <2>. QED BY <1>4, <2>1
<1>. QED BY <1>3, <1>5 DEF Stored

LEMMA LastingStays ==
  ASSUME ServiceOK(service), LinksOK(service), ServiceOK(service)', LinksOK(service)',
         Evolves(service, service'), NEW r, Lasting(r)
  PROVE  Lasting(r)'
<1>1. /\ r.op \in AllOps /\ r.batch \in Seq(Nat) /\ r.made \in Nat /\ r.made <= service'.made
      /\ r.kept \subseteq 1..r.made
  BY EvolvedFacts DEF Lasting
<1>. SUFFICES ASSUME r.kind = "ok"
     PROVE  /\ r.op = "create_stream" => r.number \in DOMAIN service'.streams
            /\ r.op = "delete_stream" => r.stream \in DOMAIN service'.streams
            /\ r.op = "append_records" => Stored(r.batch, r.n, r.number)'
            /\ Truth(r)'
  BY <1>1 DEF Lasting
<1>2. Truth(r) /\ r.made <= service.made
  BY DEF Lasting
<1>3. CASE r.op = "create_stream"
  <2>1. r.number \in DOMAIN service.streams /\ service.streams[r.number].call = r.n
    BY <1>2, <1>3 DEF Lasting, Truth
  <2>2. r.number \in DOMAIN service'.streams /\ service'.streams[r.number].call = r.n
    BY <2>1, EvolvedFacts
  <2>. QED BY <1>3, <2>2 DEF Truth
<1>4. CASE r.op = "delete_stream"
  <2>1. r.stream \in DOMAIN service.streams /\ service.streams[r.stream].status = "deleting"
    BY <1>2, <1>4 DEF Lasting, Truth
  <2>2. r.stream \in DOMAIN service'.streams /\ service'.streams[r.stream].status = "deleting"
    BY <2>1, EvolvedFacts
  <2>. QED BY <1>4, <2>2 DEF Truth
<1>5. ASSUME NEW l \in service'.links, l.order <= r.made PROVE Kept(l)
  BY <1>1, <1>2, <1>5, EvolvedFacts
<1>6. CASE r.op = "create_link"
  <2>1. \A l \in service.links : l.id = r.link /\ l.order <= r.made => l.key = <<r.n>>
    BY <1>2, <1>6 DEF Truth
  <2>2. \A l \in service'.links : l.id = r.link /\ l.order <= r.made => l.key = <<r.n>>
    BY <1>5, <2>1 DEF Kept
  <2>. QED BY <1>6, <2>2 DEF Truth
<1>7. CASE r.op = "revoke_link"
  <2>1. \A l \in service.links : l.id = r.link /\ l.order <= r.made => ~l.active
    BY <1>2, <1>7 DEF Truth
  <2>2. \A l \in service'.links : l.id = r.link /\ l.order <= r.made => ~l.active
    BY <1>5, <2>1 DEF Kept
  <2>. QED BY <1>7, <2>2 DEF Truth
<1>8. CASE r.op = "append_records"
  <2>1. Stored(r.batch, r.n, r.number)
    BY <1>8 DEF Lasting
  <2>2. Stored(r.batch, r.n, r.number)'
    BY <1>1, <2>1, EvolvedFacts, StoredStays
  <2>. QED BY <1>8, <2>2 DEF Truth, Stored
<1>9. CASE r.op = "update_stream"
  <2>1. r.n \in Range(service'.titles)
    BY <1>2, <1>9, EvolvedFacts DEF Truth
  <2>. QED BY <1>9, <2>1 DEF Truth
<1>10. CASE r.op = "list_all_links"
  <2>1. /\ IsInjective(r.links)
        /\ \A l \in service.links : l.order \in r.kept => l.id \in Range(r.links)
    BY <1>2, <1>10 DEF Truth
  <2>2. ASSUME NEW l \in service'.links, l.order \in r.kept PROVE l.id \in Range(r.links)
    <3>1. l.order <= r.made
      BY <1>1, <2>2
    <3>. QED BY <1>5, <2>1, <2>2, <3>1 DEF Kept
  <2>. QED BY <1>10, <2>1, <2>2 DEF Truth
<1>11. CASE r.op = "get_stream"
  BY <1>11 DEF Truth
<1>. QED BY <1>1, <1>3, <1>4, <1>6, <1>7, <1>8, <1>9, <1>10, <1>11 DEF AllOps, Creations

LEMMA ListingStays ==
  ASSUME ServiceOK(service), LinksOK(service), ServiceOK(service)', LinksOK(service)',
         Evolves(service, service'), NEW c, ListingOK(c)
  PROVE  ListingOK(c)'
<1>1. c.before \subseteq 1..service.made /\ c.before \subseteq 1..service'.made
  BY EvolvedFacts DEF ListingOK
<1>2. ASSUME NEW l \in service'.links, l.order \in c.before PROVE Kept(l)
  BY <1>1, <1>2, EvolvedFacts
<1>3. c.honest => Seen(c)'
  BY <1>2 DEF ListingOK, Seen, Kept
<1>. QED BY <1>1, <1>3 DEF ListingOK

LEMMA PageStays ==
  ASSUME ServiceOK(service), LinksOK(service), ServiceOK(service)', LinksOK(service)',
         Evolves(service, service'), NEW c, ListingOK(c), NEW page, PageOK(c, page)
  PROVE  PageOK(c, page)'
<1>1. c.before \subseteq 1..service.made
  BY DEF ListingOK
<1>2. ASSUME NEW l \in service'.links, l.order \in c.before PROVE Kept(l)
  BY <1>1, <1>2, EvolvedFacts
<1>. QED BY <1>2 DEF PageOK, Kept

\* No link comes that the answer is about.
LEMMA AnswerStays ==
  ASSUME ServiceOK(service), LinksOK(service), ServiceOK(service)', LinksOK(service)',
         Evolves(service, service'), NEW c, ListingOK(c), TargetOK(c), c.batch \in Seq(Nat),
         NEW a, AnswerOK(c, a), wire' \subseteq wire,
         c.op \in {"create_link", "revoke_link"} =>
           /\ \A l \in service'.links : l.id = c.link => Kept(l)
           /\ LinkAt(service, c.link) # {} /\ LinkAt(service', c.link) = {} =>
                \A r \in wire' : r.link # c.link
  PROVE  AnswerOK(c, a)'
<1>1. c.op = "create_stream" =>
        a.number \in DOMAIN service'.streams /\ service'.streams[a.number].call = c.n
  BY EvolvedFacts DEF AnswerOK
<1>2. c.op = "delete_stream" => service'.streams[c.stream].status = "deleting"
  BY EvolvedFacts DEF AnswerOK, TargetOK
<1>3. c.op = "create_link" => \A l \in service'.links : l.id = c.link => l.key = <<c.n>>
  BY DEF AnswerOK, Kept
<1>4. c.op = "revoke_link" => \A l \in service'.links : l.id = c.link => ~l.active
  BY DEF AnswerOK, Kept
<1>5. c.op \in {"create_link", "revoke_link"} /\ LinkAt(service', c.link) = {} =>
       \A r \in wire' : r.link # c.link
  BY DEF AnswerOK
<1>6. c.op = "append_records" => Stored(c.batch, c.n, a.number)'
  BY EvolvedFacts, StoredStays DEF AnswerOK
<1>7. c.op = "update_stream" => c.n \in Range(service'.titles)
  BY EvolvedFacts DEF AnswerOK
<1>8. c.op = "list_all_links" => PageOK(c, a.page)'
  BY PageStays DEF AnswerOK
<1>. QED BY <1>1, <1>2, <1>3, <1>4, <1>5, <1>6, <1>7, <1>8 DEF AnswerOK, LinkAt

-----------------------------------------------------------------------------
(* An answer is true when it is given.                                     *)

LEMMA StartFacts ==
  ASSUME NEW links, NEW f \in Starts(links)
  PROVE  /\ Len(f) \in 1..PageLimit /\ DOMAIN f = 1..Len(f)
         /\ \A i \in DOMAIN f : f[i] \in links
         /\ \A l \in links \ Range(f) : l.order < f[Len(f)].order
<1>1. PICK k \in 1..PageLimit : f \in [1..k -> links]
  BY DEF Starts
<1>2. k \in Nat /\ DOMAIN f = 1..k /\ Len(f) = k
  BY <1>1, MoreBounds
<1>3. Newest(links, f)
  BY DEF Starts
<1>. QED BY <1>1, <1>2, <1>3 DEF Newest

LEMMA PageSequence ==
  ASSUME NEW links, NEW f \in Starts(links), NEW next \in Nat
  PROVE  LET page == PageOf(f, next)
         IN /\ page.ids \in Seq(Range(page.ids)) /\ page.next = next /\ page.honest = TRUE
            /\ \A l \in Range(f) : l.id \in Range(page.ids)
<1>. PICK ids : ids = [i \in DOMAIN f |-> f[i].id]
  OBVIOUS
<1>1. DOMAIN ids = 1..Len(f) /\ Len(f) \in Nat /\ DOMAIN f = 1..Len(f)
  BY StartFacts, MoreBounds
<1>2. ids \in [1..Len(f) -> Range(ids)]
  BY <1>1 DEF Range
<1>3. ids \in Seq(Range(ids))
  BY <1>1, <1>2
<1>4. \A i \in DOMAIN f : f[i].id = ids[i]
  OBVIOUS
<1>5. \A l \in Range(f) : l.id \in Range(ids)
  BY <1>1, <1>4 DEF Range
<1>. QED BY <1>3, <1>5 DEF PageOf

LEMMA PageTrue ==
  ASSUME LinksOK(service), NEW c, c.listing.cursor \in Nat,
         NEW page \in HonestPages(service, c.listing.cursor) \cup FaultyPages
  PROVE  PageOK(c, page)
<1>. DEFINE links == Older(service, c.listing.cursor)
<1>1. \A l \in service.links : l.order \in Nat /\ l.order > 0
  BY DEF LinksOK
<1>2. \A l \in service.links :
        c.listing.cursor = NoCursor \/ l.order < c.listing.cursor => l \in links
  BY DEF Older
<1>3. CASE page \in FaultyPages
  BY <1>3, MoreBounds DEF PageOK
<1>4. CASE page = NoPage /\ links = {}
  <2>1. /\ page.ids = <<>> /\ page.next = NoCursor /\ page.honest = TRUE /\ NoCursor \in Nat
    BY <1>4 DEF NoPage, NoCursor
  <2>2. page.ids \in Seq(Range(page.ids))
    BY <2>1
  <2>. QED BY <1>2, <1>4, <2>1, <2>2 DEF PageOK
<1>5. ASSUME NEW f \in Starts(links), page = PageOf(f, f[Len(f)].order) PROVE PageOK(c, page)
  <2>1. /\ Len(f) \in DOMAIN f /\ f[Len(f)] \in service.links
        /\ \A l \in links \ Range(f) : l.order < f[Len(f)].order
    BY StartFacts, MoreBounds DEF Older
  <2>. PICK next : next = f[Len(f)].order
    OBVIOUS
  <2>2. next \in Nat /\ next # NoCursor
    BY <1>1, <2>1 DEF NoCursor
  <2>3. /\ page.ids \in Seq(Range(page.ids)) /\ page.next = next /\ page.honest = TRUE
        /\ \A l \in Range(f) : l.id \in Range(page.ids)
    BY <1>5, <2>2, PageSequence
  <2>4. ASSUME NEW l \in links, l.order >= next PROVE l \in Range(f)
    <3>1. l.order \in Nat /\ ~(l.order < next)
      BY <1>1, <2>2, <2>4 DEF Older
    <3>. QED BY <2>1, <3>1
  <2>. QED BY <1>2, <2>2, <2>3, <2>4 DEF PageOK
<1>6. ASSUME NEW f \in Starts(links), Range(f) = links, page = PageOf(f, NoCursor)
      PROVE  PageOK(c, page)
  <2>1. NoCursor \in Nat
    BY DEF NoCursor
  <2>2. /\ page.ids \in Seq(Range(page.ids)) /\ page.next = NoCursor /\ page.honest = TRUE
        /\ \A l \in links : l.id \in Range(page.ids)
    BY <1>6, <2>1, PageSequence
  <2>. QED BY <1>2, <2>1, <2>2 DEF PageOK
<1>. QED BY <1>3, <1>4, <1>5, <1>6 DEF HonestPages

LEMMA ReplyFacts ==
  ASSUME NEW status, NEW number
  PROVE  Reply(status, number).status = status /\ Reply(status, number).number = number
BY DEF Reply

LEMMA RequestFacts ==
  ASSUME NEW c, NEW r, r = Request(c)
  PROVE  /\ r.call = c.n /\ r.attempt = c.attempt /\ r.op = c.op /\ r.key = IdempotencyKey(c)
         /\ r.stream = c.stream /\ r.link = c.link /\ r.batch = c.batch
         /\ r.expected = c.expected /\ r.cursor = c.listing.cursor
BY DEF Request, Precondition

LEMMA OneElement ==
  ASSUME NEW a, NEW b
  PROVE  <<a>> # <<>> /\ (<<a>> = <<b>> => a = b)
OBVIOUS

LEMMA CreatedStreamTrue ==
  ASSUME RestInv, TruthInv, NEW c, NEW r \in wire, r = Request(c), c.op = "create_stream",
         NEW p \in Process(service, r), Succeeded(c, p.reply)
  PROVE  /\ p.reply.number \in DOMAIN p.state.streams
         /\ p.state.streams[p.reply.number].call = c.n
<1>1. /\ ServiceOK(service) /\ LinksOK(service) /\ StreamsOK(service)
      /\ r.op = "create_stream" /\ r.call = c.n /\ r.key = <<c.n>> /\ IsService(service)
  BY RequestFacts DEF RestInv, TruthInv, ServiceOK, IdempotencyKey, Creations
<1>2. p \in DoCreateStream(service, r)
  BY <1>1 DEF Process
<1>3. CASE StreamOf(service, r.key) = {}
  <2>. PICK x : x = [key |-> r.key, call |-> r.call, status |-> "active"]
    OBVIOUS
  <2>1. /\ p.state = [service EXCEPT !.streams = Append(@, x)] /\ x.call = r.call
        /\ p.reply = Reply(201, Len(service.streams) + 1)
    BY <1>2, <1>3 DEF DoCreateStream, Answered
  <2>2. /\ DOMAIN p.state.streams = 1..(Len(service.streams) + 1)
        /\ p.state.streams[Len(service.streams) + 1] = x
    <3>1. ServiceOK(service) /\ LinksOK(service) /\ x.call = r.call
          /\ p.state = [service EXCEPT !.streams = Append(@, x)]
      BY <1>1, <2>1
    <3>. PICK s : s = p.state
      OBVIOUS
    <3>2. /\ DOMAIN s.streams = 1..(Len(service.streams) + 1)
          /\ s.streams[Len(service.streams) + 1] = x
      BY <3>1, StreamAdded
    <3>. QED BY <3>2
  <2>3. p.reply.number = Len(service.streams) + 1 /\ Len(service.streams) \in Nat
    BY <1>1, <2>1, ReplyFacts, ServiceTypes
  <2>. QED BY <1>1, <2>1, <2>2, <2>3
<1>4. CASE StreamOf(service, r.key) # {}
  <2>. PICK i : i = CHOOSE j \in StreamOf(service, r.key) : TRUE
    OBVIOUS
  <2>1. i \in StreamOf(service, r.key)
    BY <1>4
  <2>2. p.state = service /\ (p.reply = Reply(201, i) \/ p.reply = Reply(409, 0))
    BY <1>2, <1>4 DEF DoCreateStream, Answered
  <2>3. p.reply.status # 409
    BY DEF Succeeded
  <2>4. p.reply.number = i
    BY <2>2, <2>3, ReplyFacts
  <2>5. i \in DOMAIN service.streams /\ service.streams[i].key = <<c.n>>
    BY <1>1, <2>1 DEF StreamOf
  <2>6. service.streams[i].call = c.n
    <3>1. <<c.n>> = (IF service.streams[i].call = 0 THEN <<>> ELSE <<service.streams[i].call>>)
      BY <1>1, <2>5 DEF StreamsOK
    <3>. QED BY <3>1, OneElement
  <2>. QED BY <2>2, <2>4, <2>5, <2>6
<1>. QED BY <1>3, <1>4

LEMMA DeletedStreamTrue ==
  ASSUME RestInv, TruthInv, NEW c, NEW r \in wire, r = Request(c), c.op = "delete_stream",
         NEW p \in Process(service, r)
  PROVE  p.state.streams[c.stream].status = "deleting"
<1>1. /\ ServiceOK(service) /\ LinksOK(service) /\ IsService(service) /\ r.op = "delete_stream"
      /\ r.stream = c.stream /\ r.stream \in DOMAIN service.streams
  BY RequestFacts DEF RestInv, TruthInv, ServiceOK, TargetOK
<1>2. p.state = [service EXCEPT !.streams[r.stream].status = "deleting"]
  BY <1>1 DEF Process, Answered
<1>3. /\ p.state.streams = Deleting(service.streams, r.stream)
      /\ p.state.links = service.links /\ p.state.made = service.made
      /\ p.state.log = service.log /\ p.state.titles = service.titles
  BY <1>1, <1>2 DEF IsService, Deleting
<1>. QED BY <1>1, <1>3, StreamDeleted

LEMMA CreatedLinkTrue ==
  ASSUME RestInv, TruthInv, NEW c, NEW r \in wire, r = Request(c), c.op = "create_link",
         NEW p \in Process(service, r), Succeeded(c, p.reply)
  PROVE  /\ \A l \in p.state.links : l.id = c.link => l.key = <<c.n>>
         /\ \E l \in p.state.links : l.id = c.link
<1>1. /\ ServiceOK(service) /\ LinksOK(service) /\ r.op = "create_link"
      /\ r.link = c.link /\ r.key = <<c.n>>
  BY RequestFacts DEF RestInv, TruthInv, IdempotencyKey, Creations
<1>2. p.reply.status \in 200..299
  BY DEF Succeeded
<1>3. p \in DoCreateLink(service, r)
  <2>1. p.reply.status # 404
    BY <1>2
  <2>. QED BY <1>1, <2>1, ReplyFacts DEF Process, Answered
<1>4. CASE LinkAt(service, r.link) = {}
  <2>1. p.state = NewLink(service, r.link, r.key)
    BY <1>3, <1>4 DEF DoCreateLink, Answered
  <2>. QED BY <1>1, <1>4, <2>1, LinkAdded
<1>5. CASE LinkAt(service, r.link) # {}
  <2>1. p.state = service /\ (\E l \in LinkAt(service, r.link) : l.key = r.key)
    <3>1. p.reply.status # 409
      BY <1>2
    <3>. QED BY <1>3, <1>5, <3>1, ReplyFacts DEF DoCreateLink, Answered
  <2>2. PICK k \in service.links : k.id = c.link /\ k.key = <<c.n>>
    BY <1>1, <2>1 DEF LinkAt
  <2>3. \A l \in service.links : l.id = c.link => l = k
    BY <1>1, <2>2 DEF LinksOK
  <2>. QED BY <2>1, <2>2, <2>3
<1>. QED BY <1>4, <1>5

LEMMA RevokedLinkTrue ==
  ASSUME RestInv, TruthInv, NEW c, NEW r \in wire, r = Request(c), c.op = "revoke_link",
         NEW p \in Process(service, r), Succeeded(c, p.reply)
  PROVE  /\ \A l \in p.state.links : l.id = c.link => ~l.active
         /\ \E l \in p.state.links : l.id = c.link
<1>1. /\ ServiceOK(service) /\ LinksOK(service) /\ r.op = "revoke_link" /\ r.link = c.link
  BY RequestFacts DEF RestInv, TruthInv
<1>2. p.reply.status = 204
  BY DEF Succeeded
<1>3. p.state = Revoked(service, r.link) /\ LinkAt(service, r.link) # {}
  BY <1>1, <1>2, ReplyFacts DEF Process, Answered
<1>4. \E k \in service.links : k.id = c.link
  BY <1>1, <1>3 DEF LinkAt
<1>5. LinksFrom(p.state, r) /\ \A l \in p.state.links : l.id = c.link => ~l.active
  BY <1>1, <1>3, LinkRevoked
<1>. QED BY <1>4, <1>5 DEF LinksFrom

LEMMA AppendedTrue ==
  ASSUME RestInv, TruthInv, NEW c, NEW r \in wire, r = Request(c), c.op = "append_records",
         NEW p \in Process(service, r), Succeeded(c, p.reply), service' = p.state
  PROVE  Stored(c.batch, c.n, p.reply.number)'
<1>1. /\ ServiceOK(service) /\ LinksOK(service) /\ RequestOK(r) /\ ResultsOK
      /\ IsService(service) /\ r.op = "append_records" /\ r.batch = c.batch /\ r.call = c.n
  BY RequestFacts DEF RestInv, TruthInv, WireOK, ServiceOK
<1>2. p.reply.status \in 200..299
  BY DEF Succeeded
<1>3. p \in DoAppend(service, r)
  <2>1. p.reply.status # 404
    BY <1>2
  <2>. QED BY <1>1, <2>1, ReplyFacts DEF Process, Answered
<1>4. r.expected \in {NoSeq, Len(service.log)}
  <2>1. p.reply.status # 412
    BY <1>2
  <2>. QED BY <1>3, <2>1, ReplyFacts DEF DoAppend, Answered
<1>5. p.state = [service EXCEPT !.log = @ \o Added(r)] /\ p.reply.number = Len(service.log)
  <2>1. PICK answer : /\ answer = [Reply(200, Len(service.log)) EXCEPT !.length = Len(r.batch)]
                      /\ p = [state |-> [service EXCEPT !.log = @ \o Added(r)], reply |-> answer]
    BY <1>3, <1>4 DEF DoAppend, Answered
  <2>2. answer.number = Len(service.log)
    BY <2>1 DEF Reply
  <2>. QED BY <2>1, <2>2
<1>. PICK log : log = service.log
  OBVIOUS
<1>. PICK new : new = Added(r)
  OBVIOUS
<1>6. service'.log = log \o new
  BY <1>1, <1>5 DEF IsService
<1>7. /\ new \in Seq(LogRecord) /\ Len(new) \in Nat
      /\ \A k \in 1..Len(new) : new[k].call = c.n /\ new[k].seq = c.batch[k]
  BY <1>1, AddedFacts
<1>8. log \in Seq(LogRecord) /\ Len(log) \in Nat
  BY <1>1, ServiceTypes
<1>9. /\ Len(service'.log) = Len(log) + Len(new)
      /\ \A k \in 1..Len(new) : service'.log[Len(log) + k] = new[k]
  BY <1>6, <1>7, <1>8, ConcatFacts
<1>10. Len(c.batch) = Len(new) /\ DOMAIN c.batch = 1..Len(new)
  <2>1. r.batch \in Seq(Nat)
    BY <1>1 DEF RequestOK, Sound
  <2>2. DOMAIN new = DOMAIN r.batch
    BY DEF Added
  <2>3. DOMAIN new = 1..Len(new) /\ DOMAIN r.batch = 1..Len(r.batch) /\ Len(r.batch) \in Nat
    BY <1>7, <2>1, SeqFacts
  <2>4. 1..Len(new) = 1..Len(r.batch) => Len(new) = Len(r.batch)
    BY <1>7, <2>3
  <2>. QED BY <1>1, <2>2, <2>3, <2>4
<1>11. p.reply.number = Len(log)
  BY <1>5
<1>. QED BY <1>7, <1>8, <1>9, <1>10, <1>11 DEF Stored

LEMMA UpdatedTrue ==
  ASSUME RestInv, TruthInv, NEW c, NEW r \in wire, r = Request(c), c.op = "update_stream",
         NEW p \in Process(service, r), Succeeded(c, p.reply)
  PROVE  c.n \in Range(p.state.titles)
<1>1. /\ ServiceOK(service) /\ LinksOK(service) /\ IsService(service)
      /\ r.op = "update_stream" /\ r.call = c.n /\ c.n \in Nat
  <2>1. RequestOK(r) /\ ResultsOK
    BY DEF RestInv, WireOK
  <2>. QED BY <2>1, RequestFacts, KnownType DEF RestInv, TruthInv, ServiceOK, RequestOK
<1>2. p.reply.status # 404
  BY DEF Succeeded
<1>3. p.state = [service EXCEPT !.titles = Append(@, r.call)]
  BY <1>1, <1>2, ReplyFacts DEF Process, Answered
<1>4. /\ p.state.streams = service.streams /\ p.state.log = service.log
      /\ p.state.links = service.links /\ p.state.made = service.made
      /\ p.state.titles = Append(service.titles, c.n)
  BY <1>1, <1>3 DEF IsService
<1>. QED BY <1>1, <1>4, TitlesEvolve

LEMMA ListedTrue ==
  ASSUME RestInv, TruthInv, NEW c, NEW r \in wire, r = Request(c), c.op = "list_all_links",
         c.listing.cursor \in Nat, NEW p \in Process(service, r), Succeeded(c, p.reply)
  PROVE  p.state = service /\ PageOK(c, p.reply.page)
<1>1. LinksOK(service) /\ r.op = "list_all_links" /\ r.cursor = c.listing.cursor
  BY RequestFacts DEF TruthInv
<1>2. p.reply.status # 404
  BY DEF Succeeded
<1>3. p \in DoList(service, r)
  BY <1>1, <1>2, ReplyFacts DEF Process, Answered
<1>4. PICK page \in HonestPages(service, r.cursor) \cup FaultyPages :
        p = [state |-> service, reply |-> [Reply(200, 0) EXCEPT !.page = page]]
  BY <1>3 DEF DoList
<1>5. p.state = service /\ p.reply.page = page
  BY <1>4 DEF Reply
<1>6. PageOK(c, page)
  BY <1>1, PageTrue
<1>. QED BY <1>5, <1>6

LEMMA AnswerTrue ==
  ASSUME RestInv, TruthInv, call # NoCall, call' = call, NEW r \in wire, r = Request(call),
         NEW p \in Process(service, r), service' = p.state, wire' \subseteq wire,
         Succeeded(call, p.reply)
  PROVE  AnswerOK(call, p.reply)'
<1>1. call.op \in AllOps /\ TargetOK(call) /\ call.listing.cursor \in Nat
  BY DEF RestInv, TruthInv, CallOK, Sound, ListingOK
<1>. PICK c : c = call
  OBVIOUS
<1>. PICK a : a = p.reply
  OBVIOUS
<1>. SUFFICES AnswerOK(c, a)'
  OBVIOUS
<1>. c.op \in AllOps /\ c.listing.cursor \in Nat /\ r = Request(c) /\ Succeeded(c, p.reply)
  BY <1>1
<1>2. CASE c.op = "create_stream"
  <2>1. a.number \in DOMAIN service'.streams /\ service'.streams[a.number].call = c.n
    BY <1>2, CreatedStreamTrue
  <2>. QED BY <1>2, <2>1 DEF AnswerOK
<1>3. CASE c.op = "delete_stream"
  <2>1. service'.streams[c.stream].status = "deleting"
    BY <1>3, DeletedStreamTrue
  <2>. QED BY <1>3, <2>1 DEF AnswerOK
<1>4. CASE c.op = "create_link"
  <2>1. /\ \A l \in service'.links : l.id = c.link => l.key = <<c.n>>
        /\ \E l \in service'.links : l.id = c.link
    BY <1>4, CreatedLinkTrue
  <2>. QED BY <1>4, <2>1 DEF AnswerOK, LinkAt
<1>5. CASE c.op = "revoke_link"
  <2>1. /\ \A l \in service'.links : l.id = c.link => ~l.active
        /\ \E l \in service'.links : l.id = c.link
    BY <1>5, RevokedLinkTrue
  <2>. QED BY <1>5, <2>1 DEF AnswerOK, LinkAt
<1>6. CASE c.op = "append_records"
  <2>1. Stored(c.batch, c.n, a.number)'
    BY <1>6, AppendedTrue
  <2>. QED BY <1>6, <2>1 DEF AnswerOK
<1>7. CASE c.op = "update_stream"
  <2>1. c.n \in Range(service'.titles)
    BY <1>7, UpdatedTrue
  <2>. QED BY <1>7, <2>1 DEF AnswerOK
<1>8. CASE c.op = "list_all_links"
  <2>1. service' = service /\ PageOK(c, a.page)
    BY <1>8, ListedTrue
  <2>2. PageOK(c, a.page)'
    BY <2>1 DEF PageOK
  <2>. QED BY <1>8, <2>2 DEF AnswerOK
<1>9. CASE c.op = "get_stream"
  BY <1>9 DEF AnswerOK
<1>. QED BY <1>2, <1>3, <1>4, <1>5, <1>6, <1>7, <1>8, <1>9 DEF AllOps, Creations

-----------------------------------------------------------------------------
(* Every step keeps what calls reported.                                   *)

\* The client does not move, the service does: its answer is true, or no success.
LEMMA ServiceMoves ==
  ASSUME RestInv, TruthInv, call' = call, results' = results, wire' \subseteq wire,
         ServiceOK(service)', LinksOK(service)', Evolves(service, service'),
         reply' # NoReply /\ Succeeded(call, reply') => AnswerOK(call, reply)'
  PROVE  TruthInv'
<1>1. ServiceOK(service) /\ LinksOK(service)
  BY DEF RestInv, TruthInv
<1>2. \A i \in DOMAIN results' : Lasting(results[i])'
  <2>. SUFFICES ASSUME NEW i \in DOMAIN results PROVE Lasting(results[i])'
    OBVIOUS
  <2>. PICK r : r = results[i]
    OBVIOUS
  <2>1. Lasting(r)
    BY DEF TruthInv
  <2>2. Lasting(r)'
    BY <1>1, <2>1, LastingStays
  <2>. QED BY <2>2 DEF Lasting, Truth
<1>3. ASSUME NEW c, TargetOK(c) PROVE TargetOK(c)'
  BY <1>1, <1>3, EvolvedFacts DEF TargetOK
<1>4. call # NoCall => TargetOK(call)' /\ ListingOK(call)'
  <2>. SUFFICES ASSUME call # NoCall PROVE TargetOK(call)' /\ ListingOK(call)'
    OBVIOUS
  <2>. PICK c : c = call
    OBVIOUS
  <2>1. TargetOK(c) /\ ListingOK(c)
    BY DEF TruthInv
  <2>2. TargetOK(c)' /\ ListingOK(c)'
    BY <1>1, <1>3, <2>1, ListingStays
  <2>. QED BY <2>2 DEF TargetOK, ListingOK, Seen
<1>5. \A r \in wire' : TargetOK(r)'
  BY <1>3 DEF TruthInv
<1>. QED BY <1>2, <1>4, <1>5 DEF TruthInv

\* A request that the service gets to does not touch an answer that is on its way.
LEMMA OlderAnswer ==
  ASSUME RestInv, TruthInv, call # NoCall, NEW r \in wire, LinksFrom(service', r),
         ServiceOK(service)', LinksOK(service)', Evolves(service, service'),
         wire' \subseteq wire, call' = call, NEW a, AnswerOK(call, a)
  PROVE  AnswerOK(call, a)'
<1>. PICK c : c = call
  OBVIOUS
<1>1. /\ ServiceOK(service) /\ LinksOK(service) /\ TargetOK(c) /\ ListingOK(c)
      /\ c.batch \in Seq(Nat) /\ AnswerOK(c, a)
  BY DEF RestInv, TruthInv, CallOK, Sound
<1>2. ASSUME c.op \in {"create_link", "revoke_link"}
      PROVE  /\ \A l \in service'.links : l.id = c.link => Kept(l)
             /\ LinkAt(service, c.link) # {} => LinkAt(service', c.link) # {}
  <2>1. ASSUME NEW l \in service'.links, l.id = c.link PROVE Kept(l)
    <3>1. LinkAt(service, c.link) = {} => r.link # c.link
      BY <1>1, <1>2 DEF AnswerOK
    <3>. QED BY <2>1, <3>1 DEF LinksFrom
  <2>2. LinkAt(service, c.link) # {} => LinkAt(service', c.link) # {}
    BY DEF LinksFrom, LinkAt
  <2>. QED BY <2>1, <2>2
<1>3. AnswerOK(c, a)'
  BY <1>1, <1>2, AnswerStays
<1>. QED BY <1>3

LEMMA ErrorFacts ==
  ASSUME NEW c, NEW status \in Statuses, NEW after
  PROVE  ~Succeeded(c, [Reply(status, 0) EXCEPT !.after = after])
<1>1. [Reply(status, 0) EXCEPT !.after = after].status = status
  BY DEF Reply
<1>2. status \notin 200..299 /\ 204 \in 200..299
  BY MoreBounds
<1>. QED BY <1>1, <1>2 DEF Succeeded

LEMMA ServeTruth ==
  ASSUME RestInv, TruthInv, NEW r \in wire, Serve(r) \/ ServeFails(r)
  PROVE  TruthInv'
<1>1. /\ call' = call /\ results' = results /\ wire' \subseteq wire
      /\ ServiceOK(service) /\ StreamsOK(service) /\ LinksOK(service)
  BY DEF Serve, ServeFails, RestInv, TruthInv
<1>2. PICK p \in Process(service, r) :
        \/ service' = p.state /\ Deliver(r, p.reply)
        \/ service' \in {service, p.state}
             /\ \E status \in Statuses, after \in RetryAfters :
                  Deliver(r, [Reply(status, 0) EXCEPT !.after = after])
  BY DEF Serve, ServeFails
<1>3. /\ ServiceOK(service') /\ Evolves(service, service') /\ LinksOK(service')
      /\ LinksFrom(service', r)
  BY <1>1, <1>2, Unchanging, Evolved, Processed
<1>4. ServiceOK(service)' /\ LinksOK(service)'
  BY <1>3
<1>5. ASSUME reply' # NoReply, Succeeded(call, reply'), reply' = reply
      PROVE  AnswerOK(call, reply)'
  <2>1. call # NoCall /\ AnswerOK(call, reply)
    BY <1>5 DEF RestInv, TruthInv, ReplyOK, Waiting
  <2>. PICK a : a = reply
    OBVIOUS
  <2>2. AnswerOK(call, a)'
    BY <1>1, <1>3, <1>4, <2>1, OlderAnswer
  <2>. QED BY <1>5, <2>2
<1>6. ASSUME Succeeded(call, reply'), reply' # reply
      PROVE  AnswerOK(call, reply)'
  <2>1. ~ \E status \in Statuses, after \in RetryAfters :
            Deliver(r, [Reply(status, 0) EXCEPT !.after = after])
    <3>. SUFFICES ASSUME NEW status \in Statuses, NEW after \in RetryAfters,
                         Deliver(r, [Reply(status, 0) EXCEPT !.after = after])
                  PROVE  FALSE
      OBVIOUS
    <3>. PICK answer : answer = [Reply(status, 0) EXCEPT !.after = after]
      OBVIOUS
    <3>1. ~Succeeded(call, answer)
      BY ErrorFacts
    <3>2. reply' = answer
      BY <1>6 DEF Deliver
    <3>. QED BY <1>6, <3>1, <3>2
  <2>2. service' = p.state /\ Waiting /\ r = Request(call) /\ reply' = p.reply
    BY <1>2, <1>6, <2>1 DEF Deliver
  <2>. PICK a : a = p.reply
    OBVIOUS
  <2>3. AnswerOK(call, a)'
    BY <1>1, <1>6, <2>2, AnswerTrue DEF Waiting
  <2>. QED BY <2>2, <2>3
<1>. QED BY <1>1, <1>3, <1>4, <1>5, <1>6, ServiceMoves

LEMMA ForeignTruth ==
  ASSUME RestInv, TruthInv, Foreign
  PROVE  TruthInv'
<1>1. /\ call' = call /\ results' = results /\ wire' = wire /\ reply' = reply
      /\ ServiceOK(service) /\ LinksOK(service) /\ IsService(service) /\ RestInv'
  BY ServiceStep DEF Foreign, clientVars, RestInv, TruthInv, Environment, ServiceOK
<1>. DEFINE Quiet(id) == /\ \A l \in service'.links : l.id = id => Kept(l)
                         /\ LinkAt(service, id) # {} /\ LinkAt(service', id) = {} =>
                              \A r \in wire' : r.link # id
<1>2. /\ Evolves(service, service') /\ LinksOK(service')
      /\ \A id \in LinkIds : Quiet(id)
  <2>1. CASE LinkAt(service, "foreign") = {} /\ service' = NewLink(service, "foreign", <<0>>)
    <3>1. /\ Evolves(service, service') /\ LinksOK(service') /\ service.links \subseteq service'.links
          /\ \A l \in service'.links : l \in service.links \/ l.id = "foreign"
      BY <1>1, <2>1, LinkAdded
    <3>2. \A l \in service.links : Kept(l)
      BY <1>1, ServiceTypes
    <3>. QED BY <3>1, <3>2, MoreBounds DEF LinkAt
  <2>2. ASSUME NEW l \in service.links, ~ \E r \in wire : r.link = l.id,
               service' = [service EXCEPT !.links = @ \ {l}]
        PROVE  /\ Evolves(service, service') /\ LinksOK(service')
               /\ \A id \in LinkIds : Quiet(id)
    <3>1. /\ service'.links = service.links \ {l} /\ service'.made = service.made
          /\ service'.streams = service.streams /\ service'.log = service.log
          /\ service'.titles = service.titles
      BY <1>1, <2>2 DEF IsService
    <3>2. Evolves(service, service') /\ LinksOK(service')
      BY <1>1, <3>1, LinkRemoved
    <3>3. \A k \in service'.links : Kept(k)
      BY <1>1, <3>1, ServiceTypes
    <3>4. ASSUME NEW id, LinkAt(service, id) # {}, LinkAt(service', id) = {}
          PROVE  l.id = id
      BY <3>1, <3>4 DEF LinkAt
    <3>. QED BY <1>1, <2>2, <3>2, <3>3, <3>4
  <2>3. CASE service' = [service EXCEPT !.log = Append(@, [call |-> 0, attempt |-> 0, seq |-> 0])]
    <3>. PICK x : x = [call |-> 0, attempt |-> 0, seq |-> 0]
      OBVIOUS
    <3>1. x \in LogRecord /\ <<x>> \in Seq(LogRecord)
      BY DEF LogRecord
    <3>2. /\ service'.links = service.links /\ service'.made = service.made
          /\ service'.streams = service.streams /\ service'.titles = service.titles
          /\ service'.log = Append(service.log, x)
      BY <1>1, <2>3 DEF IsService
    <3>3. service'.log = service.log \o <<x>>
      <4>1. service.log \in Seq(LogRecord)
        BY <1>1, ServiceTypes
      <4>. QED BY ONLY <3>1, <3>2, <4>1
    <3>4. Evolves(service, service') /\ LinksOK(service')
      BY <1>1, <3>1, <3>2, <3>3, LogEvolves
    <3>5. \A l \in service'.links : Kept(l)
      BY <1>1, <3>2, ServiceTypes
    <3>. QED BY <3>2, <3>4, <3>5 DEF LinkAt
  <2>. QED BY <2>1, <2>2, <2>3 DEF Foreign
<1>3. ServiceOK(service)' /\ LinksOK(service)'
  BY <1>1, <1>2 DEF RestInv
<1>4. ASSUME reply # NoReply, Succeeded(call, reply) PROVE AnswerOK(call, reply)'
  <2>. PICK c : c = call
    OBVIOUS
  <2>. PICK a : a = reply
    OBVIOUS
  <2>1. /\ TargetOK(c) /\ ListingOK(c) /\ AnswerOK(c, a) /\ c.batch \in Seq(Nat)
    BY <1>4 DEF RestInv, TruthInv, ReplyOK, Waiting, CallOK, Sound
  <2>2. c.op \in {"create_link", "revoke_link"} => Quiet(c.link)
    BY <1>2, <2>1 DEF TargetOK
  <2>3. AnswerOK(c, a)'
    BY <1>1, <1>2, <1>3, <2>1, <2>2, AnswerStays
  <2>. QED BY <1>1, <2>3
<1>. QED BY <1>1, <1>2, <1>3, <1>4, ServiceMoves

LEMMA ServiceTruth ==
  ASSUME RestInv, TruthInv, Environment
  PROVE  TruthInv'
BY ServeTruth, ForeignTruth DEF Environment

-----------------------------------------------------------------------------
(* The client moves: a call starts, goes on or returns.                    *)

\* The inventory has every link that was there all along, and no link twice.
Complete(c) ==
  /\ IsInjective(c.listing.links)
  /\ c.honest => \A l \in service.links :
                   l.order \in c.before => l.id \in Range(c.listing.links)

\* What a call reports when it returns Ok.
Reported(c, outcome) ==
  /\ c.op # "list_all_links" => AnswerOK(c, outcome)
  /\ c.op = "list_all_links" => Complete(c)

LEMMA ClientMoves ==
  ASSUME TruthInv, service' = service, reply' = NoReply,
         \A i \in DOMAIN results' : (i \in DOMAIN results /\ results'[i] = results[i])
                                    \/ Lasting(results'[i]),
         \A r \in wire' : r \in wire \/ TargetOK(r),
         call' # NoCall => TargetOK(call') /\ ListingOK(call')
  PROVE  TruthInv'
<1>1. LinksOK(service)'
  BY DEF TruthInv, LinksOK
<1>2. \A i \in DOMAIN results' : Lasting(results[i])'
  <2>. SUFFICES ASSUME NEW i \in DOMAIN results' PROVE Lasting(results[i])'
    OBVIOUS
  <2>. PICK r : r = results'[i]
    OBVIOUS
  <2>1. Lasting(r)
    BY DEF TruthInv
  <2>2. Lasting(r)'
    BY <2>1 DEF Lasting, Truth, Stored
  <2>. QED BY <2>2 DEF Lasting, Truth, Stored
<1>3. ASSUME NEW c, TargetOK(c) PROVE TargetOK(c)'
  BY <1>3 DEF TargetOK
<1>4. call' # NoCall => TargetOK(call)' /\ ListingOK(call)'
  <2>. SUFFICES ASSUME call' # NoCall PROVE TargetOK(call)' /\ ListingOK(call)'
    OBVIOUS
  <2>. PICK c : c = call'
    OBVIOUS
  <2>1. TargetOK(c) /\ ListingOK(c)
    OBVIOUS
  <2>2. TargetOK(c)' /\ ListingOK(c)'
    BY <2>1 DEF TargetOK, ListingOK, Seen
  <2>. QED BY <2>2 DEF TargetOK, ListingOK, Seen
<1>5. \A r \in wire' : TargetOK(r)'
  BY <1>3 DEF TruthInv
<1>. QED BY <1>1, <1>2, <1>4, <1>5 DEF TruthInv

LEMMA SendsTruth ==
  ASSUME TruthInv, NEW c, Send(c), service' = service, results' = results,
         TargetOK(c), ListingOK(c)
  PROVE  TruthInv'
<1>1. call' = c /\ reply' = NoReply /\ wire' = wire \cup {Request(c)}
  BY DEF Send
<1>2. TargetOK(Request(c))
  BY RequestFacts DEF TargetOK
<1>. QED BY <1>1, <1>2, ClientMoves

LEMMA ReturnsTruth ==
  ASSUME RestInv, TruthInv, service' = service, wire' \subseteq wire,
         NEW c, NEW outcome, Return(c, outcome), c.op \in AllOps, c.batch \in Seq(Nat),
         c.before \subseteq 1..service.made,
         outcome.kind = "ok" => TargetOK(c) /\ Reported(c, outcome)
  PROVE  TruthInv'
<1>. PICK x : x =
       [n |-> c.n, op |-> c.op, stream |-> c.stream, link |-> c.link, batch |-> c.batch,
        expected |-> c.expected, kind |-> outcome.kind, number |-> outcome.number,
        links |-> IF outcome.kind = "ok" THEN c.listing.links ELSE <<>>,
        kept |-> IF outcome.kind = "ok" /\ c.honest THEN c.before \cap Retained ELSE {},
        made |-> service.made]
  OBVIOUS
<1>1. results' = Append(results, x) /\ call' = NoCall /\ reply' = NoReply
  BY DEF Return
<1>2. /\ x.n = c.n /\ x.op = c.op /\ x.stream = c.stream /\ x.link = c.link
      /\ x.batch = c.batch /\ x.kind = outcome.kind /\ x.number = outcome.number
      /\ x.links = (IF outcome.kind = "ok" THEN c.listing.links ELSE <<>>)
      /\ x.kept = (IF outcome.kind = "ok" /\ c.honest THEN c.before \cap Retained ELSE {})
      /\ x.made = service.made
  OBVIOUS
<1>3. service.made \in Nat
  BY DEF TruthInv, LinksOK
<1>4. Lasting(x)
  <2>1. /\ x.op \in AllOps /\ x.batch \in Seq(Nat)
        /\ x.made \in Nat /\ x.made <= service.made /\ x.kept \subseteq 1..x.made
    BY <1>2, <1>3
  <2>. SUFFICES ASSUME x.kind = "ok"
       PROVE  /\ x.op = "create_stream" => x.number \in DOMAIN service.streams
              /\ x.op = "delete_stream" => x.stream \in DOMAIN service.streams
              /\ x.op = "append_records" => Stored(x.batch, x.n, x.number)
              /\ Truth(x)
    BY <2>1 DEF Lasting
  <2>2. TargetOK(c) /\ Reported(c, outcome) /\ outcome.kind = "ok"
    BY <1>2
  <2>3. CASE c.op = "create_stream"
    BY <1>2, <2>2, <2>3 DEF Reported, AnswerOK, Truth
  <2>4. CASE c.op = "delete_stream"
    BY <1>2, <2>2, <2>4 DEF Reported, AnswerOK, Truth, TargetOK
  <2>5. CASE c.op = "create_link"
    BY <1>2, <2>2, <2>5 DEF Reported, AnswerOK, Truth
  <2>6. CASE c.op = "revoke_link"
    BY <1>2, <2>2, <2>6 DEF Reported, AnswerOK, Truth
  <2>7. CASE c.op = "append_records"
    BY <1>2, <2>2, <2>7 DEF Reported, AnswerOK, Truth, Stored
  <2>8. CASE c.op = "update_stream"
    BY <1>2, <2>2, <2>8 DEF Reported, AnswerOK, Truth
  <2>9. CASE c.op = "list_all_links"
    BY <1>2, <2>2, <2>9 DEF Reported, Complete, Truth
  <2>10. CASE c.op = "get_stream"
    BY <1>2, <2>10 DEF Truth
  <2>. QED BY <2>3, <2>4, <2>5, <2>6, <2>7, <2>8, <2>9, <2>10 DEF AllOps, Creations
<1>5. \A i \in DOMAIN results' : (i \in DOMAIN results /\ results'[i] = results[i])
                                 \/ results'[i] = x
  <2>1. results \in Seq(Range(results))
    BY DEF RestInv, ResultsOK
  <2>2. /\ DOMAIN results = 1..Len(results) /\ Len(results) \in Nat
        /\ DOMAIN results' = 1..(Len(results) + 1)
        /\ \A i \in 1..Len(results) : results'[i] = results[i]
        /\ results'[Len(results) + 1] = x
    BY <1>1, <2>1, SeqFacts, AppendFacts
  <2>. QED BY <2>2
<1>. QED BY <1>1, <1>4, <1>5, ClientMoves

LEMMA SameCall ==
  ASSUME TruthInv, call # NoCall, NEW c, c.op = call.op, c.stream = call.stream, c.link = call.link,
         c.listing = call.listing, c.before = call.before, c.honest = call.honest
  PROVE  TargetOK(c) /\ ListingOK(c)
BY DEF TruthInv, TargetOK, ListingOK, Seen

LEMMA FailsTruth ==
  ASSUME RestInv, TruthInv, call # NoCall, NEW e, e.kind # "ok", AttemptFails(call, e),
         service' = service, wire' \subseteq wire
  PROVE  TruthInv'
<1>1. IsCall(call) /\ call.op \in AllOps /\ call.batch \in Seq(Nat) /\ call.before \subseteq 1..service.made
  BY DEF RestInv, TruthInv, CallOK, Sound, ListingOK
<1>2. CASE Return(call, e)
  BY <1>1, <1>2, ReturnsTruth
<1>3. ASSUME NEW d, call' = [call EXCEPT !.phase = "sleeping", !.delay = d],
             reply' = NoReply, results' = results
      PROVE  TruthInv'
  <2>1. /\ call'.op = call.op /\ call'.stream = call.stream /\ call'.link = call.link
        /\ call'.listing = call.listing /\ call'.before = call.before
        /\ call'.honest = call.honest
    BY <1>1, <1>3 DEF IsCall
  <2>2. TargetOK(call') /\ ListingOK(call')
    BY <2>1, SameCall
  <2>. QED BY <1>3, <2>2, ClientMoves
<1>. QED BY <1>2, <1>3 DEF AttemptFails

LEMMA RetryTruth ==
  ASSUME RestInv, TruthInv, Retry
  PROVE  TruthInv'
<1>1. call # NoCall /\ IsCall(call)
  BY DEF Retry, RestInv, CallOK
<1>. PICK attempt : attempt = NextAttempt(call)
  OBVIOUS
<1>. PICK c : c = [call EXCEPT !.phase = "waiting", !.delay = 0, !.attempt = attempt]
  OBVIOUS
<1>2. Send(c) /\ service' = service /\ results' = results
  BY DEF Retry
<1>3. /\ c.op = call.op /\ c.stream = call.stream /\ c.link = call.link
      /\ c.listing = call.listing /\ c.before = call.before /\ c.honest = call.honest
  BY <1>1 DEF IsCall
<1>. QED BY <1>1, <1>2, <1>3, SameCall, SendsTruth

LEMMA JoinFacts ==
  ASSUME NEW s, s \in Seq(Range(s)), IsInjective(s), NEW t, t \in Seq(Range(t)), IsInjective(t),
         Range(s) \cap Range(t) = {}
  PROVE  /\ s \o t \in Seq(Range(s) \cup Range(t)) /\ Range(s \o t) = Range(s) \cup Range(t)
         /\ IsInjective(s \o t)
<1>. PICK u : u = s \o t
  OBVIOUS
<1>1. s \in Seq(Range(s) \cup Range(t)) /\ t \in Seq(Range(s) \cup Range(t))
  OBVIOUS
<1>2. /\ u \in Seq(Range(s) \cup Range(t)) /\ Len(u) = Len(s) + Len(t)
      /\ \A i \in 1..Len(s) : u[i] = s[i]
      /\ \A i \in 1..Len(t) : u[Len(s) + i] = t[i]
  BY <1>1, ConcatFacts
<1>3. /\ DOMAIN s = 1..Len(s) /\ Len(s) \in Nat /\ DOMAIN t = 1..Len(t) /\ Len(t) \in Nat
      /\ DOMAIN u = 1..Len(u)
  BY <1>1, <1>2, SeqFacts
<1>4. ASSUME NEW i \in DOMAIN u
      PROVE  \/ i \in DOMAIN s /\ u[i] = s[i]
             \/ \E j \in DOMAIN t : i = Len(s) + j /\ u[i] = t[j]
  <2>1. CASE i \in 1..Len(s)
    BY <1>2, <1>3, <2>1
  <2>2. CASE i \notin 1..Len(s)
    <3>1. i - Len(s) \in 1..Len(t) /\ i = Len(s) + (i - Len(s))
      BY <1>2, <1>3, <2>2
    <3>. QED BY <1>2, <1>3, <3>1
  <2>. QED BY <2>1, <2>2
<1>5. Range(u) = Range(s) \cup Range(t)
  <2>1. \A i \in DOMAIN s : i \in DOMAIN u /\ u[i] = s[i]
    BY <1>2, <1>3
  <2>2. \A i \in DOMAIN t : Len(s) + i \in DOMAIN u /\ u[Len(s) + i] = t[i]
    BY <1>2, <1>3
  <2>3. Range(s) \subseteq Range(u)
    BY <2>1 DEF Range
  <2>4. Range(t) \subseteq Range(u)
    BY <2>2 DEF Range
  <2>5. Range(u) \subseteq Range(s) \cup Range(t)
    BY <1>4 DEF Range
  <2>. QED BY <2>3, <2>4, <2>5
<1>6. IsInjective(u)
  <2>. SUFFICES ASSUME NEW i \in DOMAIN u, NEW j \in DOMAIN u, u[i] = u[j] PROVE i = j
    BY DEF IsInjective
  <2>1. \A k \in DOMAIN s : s[k] \in Range(s)
    BY DEF Range
  <2>2. \A k \in DOMAIN t : t[k] \in Range(t)
    BY DEF Range
  <2>3. CASE i \in DOMAIN s /\ u[i] = s[i] /\ j \in DOMAIN s /\ u[j] = s[j]
    BY <2>3 DEF IsInjective
  <2>4. ASSUME NEW k \in DOMAIN t, i = Len(s) + k, u[i] = t[k],
               NEW m \in DOMAIN t, j = Len(s) + m, u[j] = t[m]
        PROVE  i = j
    <3>1. k = m
      BY <2>4 DEF IsInjective
    <3>. QED BY <2>4, <3>1
  <2>. QED BY <1>4, <2>1, <2>2, <2>3, <2>4
<1>. QED BY <1>2, <1>5, <1>6

\* A page joins the listing.
LEMMA NextPage ==
  ASSUME LinksOK(service), NEW c, ListingOK(c), NEW page, PageOK(c, page),
         IsInjective(page.ids), NewIds(c.listing, page),
         NEW d, d.listing = NextListing(c.listing, page), d.before = c.before,
         d.honest \in BOOLEAN, d.honest => c.honest /\ page.honest
  PROVE  ListingOK(d) /\ (page.next = NoCursor => Complete(d))
<1>1. /\ c.listing.links \in Seq(Range(c.listing.links)) /\ IsInjective(c.listing.links)
      /\ Range(c.listing.links) = c.listing.ids /\ c.listing.cursor \in Nat
      /\ page.ids \in Seq(Range(page.ids)) /\ page.next \in Nat
      /\ c.listing.ids \cap Range(page.ids) = {}
      /\ c.honest \in BOOLEAN /\ page.honest \in BOOLEAN /\ c.before \subseteq 1..service.made
  BY DEF ListingOK, PageOK, NewIds
<1>2. /\ d.listing.links = c.listing.links \o page.ids /\ d.listing.cursor = page.next
      /\ d.listing.ids = c.listing.ids \cup Range(page.ids)
  <2>. PICK l : l = c.listing
    OBVIOUS
  <2>. PICK m : m = d.listing
    OBVIOUS
  <2>1. m = NextListing(l, page)
    OBVIOUS
  <2>2. /\ m.links = l.links \o page.ids /\ m.cursor = page.next
        /\ m.ids = l.ids \cup Range(page.ids)
    BY ONLY <2>1 DEF NextListing
  <2>. QED BY <2>2
<1>3. /\ d.listing.links \in Seq(d.listing.ids) /\ Range(d.listing.links) = d.listing.ids
      /\ IsInjective(d.listing.links)
  <2>. PICK s : s = c.listing.links
    OBVIOUS
  <2>. PICK t : t = page.ids
    OBVIOUS
  <2>1. /\ s \in Seq(Range(s)) /\ IsInjective(s) /\ t \in Seq(Range(t)) /\ IsInjective(t)
        /\ Range(s) \cap Range(t) = {} /\ Range(s) = c.listing.ids
    BY <1>1
  <2>2. /\ s \o t \in Seq(Range(s) \cup Range(t)) /\ Range(s \o t) = Range(s) \cup Range(t)
        /\ IsInjective(s \o t)
    BY <2>1, JoinFacts
  <2>. QED BY <1>2, <2>1, <2>2
<1>4. ASSUME d.honest, NEW l \in service.links, l.order \in c.before,
             page.next = NoCursor \/ l.order >= page.next
      PROVE  l.id \in d.listing.ids
  <2>1. c.honest /\ page.honest
    BY <1>1, <1>4
  <2>2. l.order \in Nat
    BY DEF LinksOK
  <2>3. CASE c.listing.cursor # NoCursor /\ l.order >= c.listing.cursor
    BY <1>2, <1>4, <2>1, <2>3 DEF ListingOK, Seen
  <2>4. CASE c.listing.cursor = NoCursor \/ l.order < c.listing.cursor
    BY <1>2, <1>4, <2>1, <2>4 DEF PageOK
  <2>. QED BY <1>1, <2>2, <2>3, <2>4
<1>5. d.honest => Seen(d)
  BY <1>2, <1>4 DEF Seen
<1>6. d.honest \in BOOLEAN /\ d.listing.cursor \in Nat /\ d.before \subseteq 1..service.made
  BY <1>1, <1>2
<1>7. ListingOK(d)
  BY <1>3, <1>5, <1>6 DEF ListingOK
<1>8. page.next = NoCursor => Complete(d)
  BY <1>3, <1>4 DEF Complete
<1>. QED BY <1>7, <1>8

LEMMA OutcomeFacts ==
  ASSUME NEW kind, NEW r
  PROVE  /\ Outcome(kind, r).kind = kind /\ Outcome(kind, r).number = r.number
         /\ Failure(kind).kind = kind
BY DEF Outcome, Failure

LEMMA InvalidRange == Failure("invalid range").kind # "ok"
BY DEF Outcome, Failure

\* A page fails the call, or joins the listing of the call that goes on or returns.
LEMMA PageCases ==
  ASSUME IsCall(call), PageArrives(call, reply)
  PROVE  \/ Return(call, Failure("invalid page")) /\ wire' = wire
         \/ \E d :
              /\ d.op = call.op /\ d.stream = call.stream /\ d.link = call.link
              /\ d.batch = call.batch /\ d.before = call.before
              /\ d.listing = NextListing(call.listing, reply.page)
              /\ d.honest \in BOOLEAN /\ (d.honest => call.honest /\ reply.page.honest)
              /\ IsInjective(reply.page.ids) /\ NewIds(call.listing, reply.page)
              /\ \/ Send(d) /\ results' = results
                 \/ /\ reply.page.next = NoCursor
                    /\ Return(d, Outcome("ok", reply)) /\ wire' = wire
<1>. PICK listing : listing = NextListing(call.listing, reply.page)
  OBVIOUS
<1>. PICK honest : honest = (call.honest /\ reply.page.honest)
  OBVIOUS
<1>. PICK d : d = [call EXCEPT !.listing = listing, !.attempt = 1, !.honest = honest]
  OBVIOUS
<1>1. d = [call EXCEPT !.listing = NextListing(call.listing, reply.page), !.attempt = 1,
                       !.honest = @ /\ reply.page.honest]
  BY DEF IsCall
<1>2. /\ d.op = call.op /\ d.stream = call.stream /\ d.link = call.link
      /\ d.batch = call.batch /\ d.before = call.before /\ d.listing = listing
      /\ d.honest = honest
  BY DEF IsCall
<1>3. d.honest \in BOOLEAN /\ (d.honest => call.honest /\ reply.page.honest)
  BY <1>2
<1>4. \/ Return(call, Failure("invalid page")) /\ wire' = wire
      \/ /\ IsInjective(reply.page.ids) /\ NewIds(call.listing, reply.page)
         /\ \/ Send(d) /\ results' = results
            \/ /\ reply.page.next = NoCursor
               /\ Return(d, Outcome("ok", reply)) /\ wire' = wire
  BY <1>1 DEF PageArrives, PageValid, Distinct, LastPage
<1>. QED BY <1>2, <1>3, <1>4

LEMMA PageTruth ==
  ASSUME RestInv, TruthInv, Waiting, reply # NoReply, Succeeded(call, reply),
         call.op = "list_all_links", PageArrives(call, reply), service' = service
  PROVE  TruthInv'
<1>1. /\ call # NoCall /\ IsCall(call) /\ call.op \in AllOps /\ call.batch \in Seq(Nat)
      /\ ListingOK(call) /\ TargetOK(call) /\ LinksOK(service) /\ PageOK(call, reply.page)
      /\ call.before \subseteq 1..service.made
  BY DEF Waiting, RestInv, CallOK, Sound, TruthInv, AnswerOK, ListingOK
<1>2. ASSUME NEW o, Return(call, o), o.kind # "ok", wire' = wire PROVE TruthInv'
  BY <1>1, <1>2, ReturnsTruth
<1>3. ASSUME NEW d,
             d.op = call.op, d.stream = call.stream, d.link = call.link,
             d.batch = call.batch, d.before = call.before,
             d.listing = NextListing(call.listing, reply.page),
             d.honest \in BOOLEAN, d.honest => call.honest /\ reply.page.honest,
             IsInjective(reply.page.ids), NewIds(call.listing, reply.page),
             \/ Send(d) /\ results' = results
             \/ /\ reply.page.next = NoCursor
                /\ Return(d, Outcome("ok", reply)) /\ wire' = wire
      PROVE  TruthInv'
  <2>1. ListingOK(d) /\ TargetOK(d)
    BY <1>1, <1>3, NextPage DEF TargetOK
  <2>2. CASE Send(d) /\ results' = results
    BY <2>1, <2>2, SendsTruth
  <2>3. ASSUME reply.page.next = NoCursor, Return(d, Outcome("ok", reply)), wire' = wire
        PROVE  TruthInv'
    <3>. PICK o : o = Outcome("ok", reply)
      OBVIOUS
    <3>1. Complete(d)
      BY <1>1, <1>3, <2>3, NextPage
    <3>2. Reported(d, o)
      BY <1>3, <3>1 DEF Reported
    <3>. QED BY <1>1, <1>3, <2>1, <2>3, <3>2, ReturnsTruth
  <2>. QED BY <1>3, <2>2, <2>3
<1>. QED BY <1>1, <1>2, <1>3, PageCases, OutcomeFacts

LEMMA ReceiveTruth ==
  ASSUME RestInv, TruthInv, Receive
  PROVE  TruthInv'
<1>1. /\ Waiting /\ call # NoCall /\ reply # NoReply /\ service' = service
      /\ call.op \in AllOps /\ call.batch \in Seq(Nat) /\ call.before \subseteq 1..service.made
  BY DEF Receive, Waiting, RestInv, CallOK, Sound, TruthInv, ListingOK
<1>2. CASE AttemptFails(call, StatusError(reply)) /\ wire' = wire
  <2>1. StatusError(reply).kind # "ok"
    BY OutcomeFacts DEF StatusError
  <2>. QED BY <1>1, <1>2, <2>1, FailsTruth
<1>3. CASE Succeeded(call, reply) /\ call.op = "list_all_links" /\ PageArrives(call, reply)
  BY <1>1, <1>3, PageTruth
<1>4. CASE Return(call, Failure("invalid range")) /\ wire' = wire
  <2>. PICK o : o = Failure("invalid range")
    OBVIOUS
  <2>1. o.kind # "ok"
    BY InvalidRange
  <2>2. Return(call, o) /\ wire' \subseteq wire
    BY <1>4
  <2>. QED BY <1>1, <2>1, <2>2, ReturnsTruth
<1>5. CASE /\ Succeeded(call, reply) /\ call.op # "list_all_links"
           /\ Return(call, Outcome("ok", reply)) /\ wire' = wire
  <2>. PICK o : o = Outcome("ok", reply)
    OBVIOUS
  <2>1. AnswerOK(call, reply) /\ TargetOK(call) /\ o.number = reply.number
    BY <1>1, <1>5, OutcomeFacts DEF TruthInv
  <2>2. Reported(call, o)
    BY <1>5, <2>1 DEF Reported, AnswerOK
  <2>. QED BY <1>1, <1>5, <2>1, <2>2, ReturnsTruth
<1>. QED BY <1>2, <1>3, <1>4, <1>5 DEF Receive

LEMMA ClientTruth ==
  ASSUME RestInv, TruthInv, Client \/ Dropped
  PROVE  TruthInv'
<1>1. CASE Retry
  BY <1>1, RetryTruth
<1>2. CASE TimesOut
  BY <1>2, FailsTruth, OutcomeFacts DEF TimesOut, Waiting
<1>3. CASE ConnectFails
  BY <1>3, FailsTruth, OutcomeFacts DEF ConnectFails, Waiting
<1>4. CASE ConnectionClosed
  BY <1>4, FailsTruth, OutcomeFacts DEF ConnectionClosed, Waiting
<1>5. CASE Receive
  BY <1>5, ReceiveTruth
<1>6. CASE ReceiveFails
  <2>1. PICK kind \in {"body", "json", "too large"} : AttemptFails(call, Failure(kind))
    BY <1>6 DEF ReceiveFails
  <2>. QED BY <1>6, <2>1, FailsTruth, OutcomeFacts DEF ReceiveFails, Waiting
<1>7. CASE Dropped
  <2>1. call.op \in AllOps /\ call.batch \in Seq(Nat) /\ call.before \subseteq 1..service.made
    BY <1>7 DEF Dropped, RestInv, TruthInv, CallOK, Sound, ListingOK
  <2>. QED BY <1>7, <2>1, OutcomeFacts, ReturnsTruth DEF Dropped
<1>. QED BY <1>1, <1>2, <1>3, <1>4, <1>5, <1>6, <1>7 DEF Client

LEMMA NewListing ==
  ASSUME LinksOK(service), NEW c, c.listing = NoListing, c.before = Retained, c.honest = TRUE
  PROVE  ListingOK(c)
<1>1. Retained \subseteq 1..service.made
  BY DEF LinksOK, Retained
<1>. PICK empty : empty = <<>>
  OBVIOUS
<1>2. empty \in Seq({}) /\ Range(empty) = {} /\ IsInjective(empty)
  BY DEF Range, IsInjective
<1>3. c.listing.links = empty /\ c.listing.ids = {} /\ c.listing.cursor = NoCursor /\ NoCursor \in Nat
  BY DEF NoListing, NoCursor
<1>4. Seen(c)
  BY <1>3 DEF Seen
<1>. QED BY <1>1, <1>2, <1>3, <1>4 DEF ListingOK

LEMMA BeginsTruth ==
  ASSUME RestInv, TruthInv, NEW op, NEW stream, NEW link, NEW batch, NEW expected,
         Begin(op, stream, link, batch, expected),
         op = "delete_stream" => stream \in DOMAIN service.streams,
         op \in {"create_link", "revoke_link"} => link \in LinkIds
  PROVE  TruthInv'
<1>. PICK c : c = NewCall(op, stream, link, batch, expected)
  OBVIOUS
<1>1. /\ c.op = op /\ c.stream = stream /\ c.link = link
      /\ c.listing = NoListing /\ c.before = Retained /\ c.honest = TRUE
  BY DEF NewCall
<1>2. Send(c) /\ service' = service /\ results' = results
  BY DEF Begin
<1>3. TargetOK(c)
  BY <1>1 DEF TargetOK
<1>4. ListingOK(c)
  BY <1>1, NewListing DEF TruthInv
<1>. QED BY <1>2, <1>3, <1>4, SendsTruth

LEMMA ApplicationTruth ==
  ASSUME RestInv, TruthInv, Application
  PROVE  TruthInv'
<1>1. 1 \in DOMAIN service.streams
  BY ServiceTypes DEF RestInv, TruthInv, LinksOK
<1>2. CASE CreateStream
  BY <1>2, BeginsTruth DEF CreateStream
<1>3. CASE GetStream
  BY <1>3, BeginsTruth DEF GetStream
<1>4. CASE UpdateStream
  BY <1>4, BeginsTruth DEF UpdateStream
<1>5. CASE DeleteStream
  BY <1>1, <1>5, BeginsTruth DEF DeleteStream
<1>6. CASE ListAllLinks
  BY <1>6, BeginsTruth DEF ListAllLinks
<1>7. ASSUME NEW link \in LinkIds, CreateLink(link) PROVE TruthInv'
  BY <1>7, BeginsTruth DEF CreateLink
<1>8. ASSUME NEW link \in LinkIds, RevokeLink(link) PROVE TruthInv'
  BY <1>8, BeginsTruth DEF RevokeLink
<1>9. ASSUME NEW batch \in Batches, NEW expected \in Expectations, AppendRecords(batch, expected)
      PROVE  TruthInv'
  <2>1. CASE AppendValid(batch, expected)
    BY <1>9, <2>1, BeginsTruth DEF AppendRecords
  <2>2. CASE ~AppendValid(batch, expected)
    <3>. PICK c : c = NewCall("append_records", 1, NoLink, batch, expected)
      OBVIOUS
    <3>. PICK o : o = Failure("invalid")
      OBVIOUS
    <3>1. Return(c, o) /\ service' = service /\ wire' \subseteq wire
      BY <1>9, <2>2 DEF AppendRecords
    <3>2. /\ c.op = "append_records" /\ c.batch = batch /\ c.before = Retained
          /\ c.op \in AllOps /\ batch \in Seq(Nat)
      BY Bounds DEF NewCall, AllOps
    <3>3. o.kind # "ok"
      BY OutcomeFacts
    <3>4. c.before \subseteq 1..service.made
      BY <3>2 DEF TruthInv, LinksOK, Retained
    <3>. QED BY <3>1, <3>2, <3>3, <3>4, ReturnsTruth
  <2>. QED BY <2>1, <2>2
<1>. QED BY <1>2, <1>3, <1>4, <1>5, <1>6, <1>7, <1>8, <1>9 DEF Application

LEMMA StuttersTruth ==
  ASSUME RestInv, TruthInv, UNCHANGED vars
  PROVE  TruthInv'
<1>1. /\ call' = call /\ reply' = reply /\ results' = results /\ wire' = wire
      /\ service' = service /\ RestInv'
  BY Stutters DEF vars, clientVars
<1>2. ServiceOK(service) /\ LinksOK(service) /\ ServiceOK(service)' /\ LinksOK(service)'
  BY <1>1 DEF RestInv, TruthInv, LinksOK
<1>3. Evolves(service, service')
  BY <1>1, <1>2, Unchanging
<1>4. reply' # NoReply /\ Succeeded(call, reply') => AnswerOK(call, reply)'
  <2>. SUFFICES ASSUME reply # NoReply, Succeeded(call, reply) PROVE AnswerOK(call, reply)'
    BY <1>1
  <2>1. AnswerOK(call, reply)
    BY DEF TruthInv
  <2>. QED BY <1>1, <2>1 DEF AnswerOK, LinkAt, Stored, PageOK
<1>. QED BY <1>1, <1>2, <1>3, <1>4, ServiceMoves

\* CleanUp deletes the stream that the first call reported.
LEMMA CleanUpTruth ==
  ASSUME RestInv, TruthInv, CleanUp, HasStream
  PROVE  TruthInv'
<1>1. Created \in DOMAIN service.streams
  <2>1. 1 \in DOMAIN results
    BY KnownType DEF RestInv, HasStream
  <2>. QED BY <2>1 DEF HasStream, TruthInv, Lasting, Created
<1>. QED BY <1>1, BeginsTruth DEF CleanUp

LEMMA StartTruth ==
  ASSUME RestInv, TruthInv, StartInv, [StartNext]_allVars
  PROVE  TruthInv'
<1>1. CASE UNCHANGED vars
  BY <1>1, StuttersTruth
<1>2. CASE Client \/ Dropped
  BY <1>2, ClientTruth
<1>3. CASE Environment
  BY <1>3, ServiceTruth
<1>4. CASE Application
  BY <1>4, ApplicationTruth
<1>5. CASE Create
  BY <1>5, ApplicationTruth DEF Create, Application
<1>6. CASE CleanUp
  <2>1. HasStream
    BY <1>6 DEF CleanUp, StartInv
  <2>. QED BY <1>6, <2>1, CleanUpTruth
<1>7. CASE Killed
  BY <1>1, <1>2, <1>7 DEF Killed
<1>8. CASE UNCHANGED allVars
  BY <1>1, <1>8 DEF allVars
<1>. QED BY <1>1, <1>2, <1>3, <1>4, <1>5, <1>6, <1>7, <1>8
     DEF StartNext, Command, HasCreated, ShowLinks, ShowLinksFails, Connect, HostFails,
         RecordDurable, Confirmed, StartFails, HostEnds, CleanedUp

LEMMA TrueInitially == Init => TruthInv
<1>. SUFFICES ASSUME Init PROVE TruthInv
  OBVIOUS
<1>1. /\ call = NoCall /\ reply = NoReply /\ results = <<>> /\ wire = {}
      /\ service.made = 2 /\ service.titles = <<>>
      /\ service.streams = << [key |-> <<>>, call |-> 0, status |-> "active"] >>
      /\ service.links = { [id |-> "reader", key |-> <<0>>, order |-> 2, active |-> TRUE],
                           [id |-> Owner, key |-> <<0>>, order |-> 1, active |-> TRUE] }
  BY DEF Init, ExistingService
<1>2. Len(service.streams) > 0 /\ service.titles \in Seq(Nat) /\ service.made \in Nat
  BY <1>1
<1>3. ASSUME NEW l \in service.links
      PROVE  IsLink(l) /\ l.order \in 1..service.made
  BY <1>1, <1>3 DEF IsLink
<1>4. ASSUME NEW l \in service.links, NEW k \in service.links, l.id = k.id PROVE l = k
  <2>. PICK a : a = [id |-> "reader", key |-> <<0>>, order |-> 2, active |-> TRUE]
    OBVIOUS
  <2>. PICK b : b = [id |-> Owner, key |-> <<0>>, order |-> 1, active |-> TRUE]
    OBVIOUS
  <2>1. a.id = "reader" /\ b.id = Owner /\ Owner # "reader"
    BY DEF Owner
  <2>2. service.links = {a, b}
    BY <1>1
  <2>. QED BY ONLY <1>4, <2>1, <2>2, l \in service.links, k \in service.links
<1>5. LinksOK(service)
  BY <1>2, <1>3, <1>4 DEF LinksOK
<1>. QED BY <1>1, <1>5 DEF TruthInv

-----------------------------------------------------------------------------
(* The start of a terminal.                                                *)

LEMMA StreamExists ==
  ASSUME RestInv, TruthInv, HasStream
  PROVE  Created \in DOMAIN service.streams
<1>1. 1 \in DOMAIN results
  BY KnownType DEF RestInv, HasStream
<1>. QED BY <1>1 DEF HasStream, TruthInv, Lasting, Created

\* Only a deletion takes a stream from its user.
LEMMA StreamsActive ==
  ASSUME RestInv, TruthInv, NEW r \in wire, r.op # "delete_stream",
         \A i \in DOMAIN service.streams : service.streams[i].status = "active",
         NEW p \in Process(service, r)
  PROVE  \A i \in DOMAIN p.state.streams : p.state.streams[i].status = "active"
<1>1. ServiceOK(service) /\ LinksOK(service) /\ IsService(service) /\ r.op \in AllOps
  BY DEF RestInv, TruthInv, ServiceOK, WireOK, RequestOK, Sound
<1>2. CASE p.state.streams = service.streams
  BY <1>2
<1>3. CASE r.op = "create_stream"
  <2>1. CASE StreamOf(service, r.key) = {}
    <3>. PICK x : x = [key |-> r.key, call |-> r.call, status |-> "active"]
      OBVIOUS
    <3>1. p.state = [service EXCEPT !.streams = Append(@, x)] /\ x.call = r.call
          /\ x.status = "active"
      BY <1>3, <2>1 DEF Process, DoCreateStream, Answered
    <3>2. /\ DOMAIN p.state.streams = 1..(Len(service.streams) + 1)
          /\ p.state.streams[Len(service.streams) + 1] = x
          /\ \A i \in DOMAIN service.streams : p.state.streams[i] = service.streams[i]
      BY <1>1, <3>1, StreamAdded
    <3>3. DOMAIN service.streams = 1..Len(service.streams) /\ Len(service.streams) \in Nat
      BY <1>1, ServiceTypes
    <3>4. \A i \in 1..(Len(service.streams) + 1) :
            i \in 1..Len(service.streams) \/ i = Len(service.streams) + 1
      BY <3>3
    <3>. QED BY <3>1, <3>2, <3>3, <3>4
  <2>2. CASE StreamOf(service, r.key) # {}
    BY <1>2, <1>3, <2>2 DEF Process, DoCreateStream, Answered
  <2>. QED BY <2>1, <2>2
<1>4. CASE r.op # "create_stream"
  <2>1. CASE p.state = service
    BY <1>2, <2>1
  <2>2. ASSUME NEW links, NEW made, p.state = [service EXCEPT !.links = links, !.made = made]
        PROVE  p.state.streams = service.streams
    BY <1>1, <2>2 DEF IsService
  <2>3. ASSUME NEW links, p.state = [service EXCEPT !.links = links]
        PROVE  p.state.streams = service.streams
    BY <1>1, <2>3 DEF IsService
  <2>4. ASSUME NEW log, p.state = [service EXCEPT !.log = log]
        PROVE  p.state.streams = service.streams
    BY <1>1, <2>4 DEF IsService
  <2>5. ASSUME NEW titles, p.state = [service EXCEPT !.titles = titles]
        PROVE  p.state.streams = service.streams
    BY <1>1, <2>5 DEF IsService
  <2>. DEFINE Live == service.streams[r.stream].status = "active"
  <2>6. CASE ~Live
    BY <1>4, <2>1, <2>6 DEF Process, Answered
  <2>7. CASE Live /\ r.op = "create_link"
    <3>1. p.state \in {service, NewLink(service, r.link, r.key)}
      BY <2>7 DEF Process, DoCreateLink, Answered
    <3>. QED BY <1>2, <2>1, <2>2, <3>1 DEF NewLink
  <2>8. CASE Live /\ r.op = "revoke_link"
    <3>1. p.state \in {service, Revoked(service, r.link)}
      BY <2>8 DEF Process, Answered
    <3>. QED BY <1>2, <2>1, <2>3, <3>1 DEF Revoked
  <2>9. CASE Live /\ r.op = "append_records"
    <3>1. p.state \in {service, [service EXCEPT !.log = @ \o Added(r)]}
      BY <2>9 DEF Process, DoAppend, Answered
    <3>. QED BY <1>2, <2>1, <2>4, <3>1
  <2>10. CASE Live /\ r.op = "list_all_links"
    BY <2>1, <2>10 DEF Process, DoList
  <2>11. CASE Live /\ r.op = "update_stream"
    <3>1. p.state = [service EXCEPT !.titles = Append(@, r.call)]
      BY <2>11 DEF Process, Answered
    <3>. QED BY <1>2, <2>5, <3>1
  <2>12. CASE Live /\ r.op = "get_stream"
    BY <2>1, <2>12 DEF Process, Answered
  <2>. QED BY <1>1, <1>4, <2>6, <2>7, <2>8, <2>9, <2>10, <2>11, <2>12 DEF AllOps, Creations
<1>. QED BY <1>3, <1>4

LEMMA EnvironmentKeeps ==
  ASSUME RestInv, TruthInv, Environment
  PROVE  call' = call /\ results' = results /\ (Undisturbed => Undisturbed')
<1>1. ASSUME NEW r \in wire, Serve(r) \/ ServeFails(r)
      PROVE  call' = call /\ results' = results /\ (Undisturbed => Undisturbed')
  <2>1. /\ call' = call /\ results' = results /\ wire' \subseteq wire
        /\ \E p \in Process(service, r) : service' \in {service, p.state}
    BY <1>1 DEF Serve, ServeFails
  <2>. SUFFICES ASSUME Undisturbed PROVE Undisturbed'
    BY <2>1
  <2>2. PICK p \in Process(service, r) : service' \in {service, p.state}
    BY <2>1
  <2>3. \A i \in DOMAIN p.state.streams : p.state.streams[i].status = "active"
    BY StreamsActive DEF Undisturbed
  <2>. QED BY <2>1, <2>2, <2>3 DEF Undisturbed
<1>2. CASE Foreign
  <2>1. call' = call /\ results' = results /\ wire' = wire /\ IsService(service)
    BY <1>2 DEF Foreign, clientVars, RestInv, ServiceOK
  <2>2. \/ \E links, made : service' = [service EXCEPT !.links = links, !.made = made]
        \/ \E links : service' = [service EXCEPT !.links = links]
        \/ \E log : service' = [service EXCEPT !.log = log]
    BY <1>2 DEF Foreign, NewLink
  <2>3. service'.streams = service.streams
    BY <2>1, <2>2 DEF IsService
  <2>. QED BY <2>1, <2>3 DEF Undisturbed
<1>. QED BY <1>1, <1>2 DEF Environment

\* The call goes on, or it is over and its result is the last.
Continues ==
  /\ call' # NoCall /\ call'.op = call.op /\ call'.stream = call.stream /\ results' = results
  /\ \A r \in wire' : r \in wire \/ r.op = call.op
Concludes ==
  /\ call' = NoCall /\ wire' \subseteq wire
  /\ \E x : results' = Append(results, x) /\ x.op = call.op /\ x.stream = call.stream

LEMMA ReturnConcludes ==
  ASSUME NEW c, NEW o, Return(c, o), c.op = call.op, c.stream = call.stream, wire' \subseteq wire
  PROVE  Concludes
BY DEF Return, Concludes

LEMMA SendContinues ==
  ASSUME NEW c, Send(c), c # NoCall, c.op = call.op, c.stream = call.stream, results' = results
  PROVE  Continues
BY RequestFacts DEF Send, Continues

LEMMA FailsEither ==
  ASSUME RestInv, call # NoCall, NEW e, AttemptFails(call, e), wire' \subseteq wire
  PROVE  Continues \/ Concludes
<1>1. CASE Return(call, e)
  BY <1>1, ReturnConcludes
<1>2. ASSUME NEW d, call' = [call EXCEPT !.phase = "sleeping", !.delay = d], results' = results
      PROVE  Continues
  <2>1. IsCall(call) /\ call.op \in AllOps
    BY DEF RestInv, CallOK, Sound
  <2>2. call'.op = call.op /\ call'.stream = call.stream
    BY <1>2, <2>1 DEF IsCall
  <2>3. call' # NoCall
    BY <2>1, <2>2 DEF NoCall, AllOps, Creations
  <2>. QED BY <1>2, <2>2, <2>3 DEF Continues
<1>. QED BY <1>1, <1>2 DEF AttemptFails

LEMMA ClientKeeps ==
  ASSUME RestInv, Client \/ Dropped
  PROVE  call # NoCall /\ service' = service /\ (Continues \/ Concludes)
<1>1. call # NoCall /\ service' = service
  BY DEF Client, Dropped, Retry, TimesOut, ConnectFails, ConnectionClosed, Receive, ReceiveFails,
         Waiting
<1>2. IsCall(call) /\ call.op \in AllOps /\ call.op # "none"
  BY <1>1 DEF RestInv, CallOK, Sound, AllOps, Creations
<1>3. CASE Retry
  <2>. PICK attempt : attempt = NextAttempt(call)
    OBVIOUS
  <2>. PICK c : c = [call EXCEPT !.phase = "waiting", !.delay = 0, !.attempt = attempt]
    OBVIOUS
  <2>1. Send(c) /\ results' = results
    BY <1>3 DEF Retry
  <2>2. c.op = call.op /\ c.stream = call.stream
    BY <1>2 DEF IsCall
  <2>3. c # NoCall
    BY <1>2, <2>2 DEF NoCall
  <2>. QED BY <1>1, <2>1, <2>2, <2>3, SendContinues
<1>4. CASE TimesOut \/ ConnectFails \/ ConnectionClosed \/ ReceiveFails
  <2>1. wire' \subseteq wire /\ \E e : AttemptFails(call, e)
    BY <1>4 DEF TimesOut, ConnectFails, ConnectionClosed, ReceiveFails
  <2>. QED BY <1>1, <2>1, FailsEither
<1>5. CASE Dropped
  BY <1>1, <1>5, ReturnConcludes DEF Dropped
<1>6. CASE Receive
  <2>1. CASE AttemptFails(call, StatusError(reply)) /\ wire' = wire
    BY <1>1, <2>1, FailsEither
  <2>2. CASE PageArrives(call, reply)
    <3>1. ASSUME NEW d, d.op = call.op, d.stream = call.stream,
                 \/ Send(d) /\ results' = results
                 \/ Return(d, Outcome("ok", reply)) /\ wire' = wire
          PROVE  Continues \/ Concludes
      <4>1. d # NoCall
        BY <1>2, <3>1 DEF NoCall
      <4>. QED BY <3>1, <4>1, SendContinues, ReturnConcludes
    <3>2. Return(call, Failure("invalid page")) /\ wire' = wire => Concludes
      BY ReturnConcludes
    <3>. QED BY <1>1, <1>2, <2>2, <3>1, <3>2, PageCases
  <2>3. ASSUME NEW o, Return(call, o), wire' = wire PROVE Concludes
    BY <2>3, ReturnConcludes
  <2>. QED BY <1>1, <1>6, <2>1, <2>2, <2>3 DEF Receive
<1>. QED BY <1>3, <1>4, <1>5, <1>6 DEF Client

LEMMA StartsWell == StartInit => StartInv
<1>. SUFFICES ASSUME StartInit PROVE StartInv
  OBVIOUS
<1>1. /\ pc \in {"library", "create"} /\ started = FALSE /\ call = NoCall /\ results = <<>>
      /\ wire = {} /\ service.streams = << [key |-> <<>>, call |-> 0, status |-> "active"] >>
  BY DEF StartInit, Init, ExistingService
<1>2. Undisturbed
  BY <1>1 DEF Undisturbed
<1>. QED BY <1>1, <1>2 DEF StartInv

\* What a returned call is in results.
LEMMA Concluded ==
  ASSUME RestInv, Concludes
  PROVE  /\ call' = NoCall /\ Len(results') = Len(results) + 1 /\ Len(results) \in Nat
         /\ results'[Len(results) + 1].op = call.op
         /\ results'[Len(results) + 1].stream = call.stream
         /\ \A i \in 1..Len(results) : results'[i] = results[i]
<1>1. PICK x : results' = Append(results, x) /\ x.op = call.op /\ x.stream = call.stream
  BY DEF Concludes
<1>2. results \in Seq(Range(results))
  BY DEF RestInv, ResultsOK
<1>3. /\ Len(results) \in Nat /\ Len(results') = Len(results) + 1
      /\ \A i \in 1..Len(results) : results'[i] = results[i]
      /\ results'[Len(results) + 1] = x
  BY <1>1, <1>2, SeqFacts, AppendFacts
<1>. QED BY <1>1, <1>3 DEF Concludes

LEMMA ClientStarts ==
  ASSUME RestInv, StartInv, Client \/ Dropped, UNCHANGED commandVars
  PROVE  StartInv'
<1>1. /\ pc' = pc /\ record' = record /\ started' = started /\ ownerShown' = ownerShown
      /\ call # NoCall /\ service' = service /\ (Continues \/ Concludes)
  BY ClientKeeps DEF commandVars
<1>. SUFFICES ASSUME pc # "library" PROVE StartInv'
  BY <1>1 DEF StartInv
<1>2. ~started /\ (pc \in {"creating", "deleting"}
        \/ pc \notin {"create", "creating", "printing", "connecting", "starting", "running",
                     "cleanup", "deleting", "ended", "killed", "failed"})
  BY <1>1 DEF StartInv
<1>3. CASE pc = "creating"
  <2>1. results = <<>> /\ call.op = "create_stream" /\ Undisturbed
    BY <1>1, <1>3 DEF StartInv
  <2>2. Undisturbed'
    BY <1>1, <2>1 DEF Undisturbed, Continues, Concludes
  <2>3. IF call' = NoCall THEN Len(results') = 1 /\ results'[1].op = "create_stream"
        ELSE results' = <<>> /\ call'.op = "create_stream"
    <3>1. CASE Continues
      BY <2>1, <3>1 DEF Continues
    <3>2. CASE Concludes
      <4>1. Len(results) = 0
        BY <2>1
      <4>. QED BY <2>1, <3>2, <4>1, Concluded
    <3>. QED BY <1>1, <3>1, <3>2
  <2>. QED BY <1>1, <1>2, <1>3, <2>2, <2>3 DEF StartInv
<1>4. CASE pc = "deleting"
  <2>1. Len(results) = 1 /\ HasStream /\ call.op = "delete_stream" /\ call.stream = Created
    BY <1>1, <1>4 DEF StartInv
  <2>2. IF call' = NoCall THEN Deleted'
        ELSE Len(results') = 1 /\ HasStream' /\ call'.op = "delete_stream" /\ call'.stream = Created'
    <3>1. CASE Continues
      BY <2>1, <3>1 DEF Continues, HasStream, Created
    <3>2. CASE Concludes
      <4>1. /\ Len(results') = 2 /\ results'[2].op = "delete_stream"
            /\ results'[2].stream = Created /\ results'[1] = results[1] /\ call' = NoCall
        BY <2>1, <3>2, Concluded
      <4>. QED BY <2>1, <4>1 DEF Deleted, HasStream, Created
    <3>. QED BY <1>1, <3>1, <3>2
  <2>. QED BY <1>1, <1>2, <1>4, <2>2 DEF StartInv
<1>5. CASE pc \notin {"create", "creating", "printing", "connecting", "starting", "running",
                      "cleanup", "deleting", "ended", "killed", "failed"}
  BY <1>1, <1>2, <1>5 DEF StartInv
<1>. QED BY <1>2, <1>3, <1>4, <1>5

LEMMA EnvironmentStarts ==
  ASSUME RestInv, TruthInv, StartInv, Environment, UNCHANGED commandVars
  PROVE  StartInv'
<1>1. /\ pc' = pc /\ record' = record /\ started' = started /\ ownerShown' = ownerShown
      /\ call' = call /\ results' = results /\ (Undisturbed => Undisturbed')
  BY EnvironmentKeeps DEF commandVars
<1>2. HasStream' = HasStream /\ Deleted' = Deleted /\ Created' = Created
  BY <1>1 DEF HasStream, Deleted, Created
<1>. QED BY <1>1, <1>2 DEF StartInv

\* The command moves while no call is under way.
LEMMA CommandStarts ==
  ASSUME RestInv, StartInv, UNCHANGED vars,
         HasCreated \/ ShowLinks \/ ShowLinksFails \/ Connect \/ HostFails \/ RecordDurable
           \/ Confirmed \/ StartFails \/ HostEnds \/ CleanedUp
             \/ (pc \in {"creating", "printing", "connecting"} /\ pc' = "killed" /\ call = NoCall
                   /\ UNCHANGED <<record, started, ownerShown>>)
  PROVE  StartInv'
<1>1. /\ call' = call /\ results' = results /\ wire' = wire /\ service' = service
  BY DEF vars, clientVars
<1>2. /\ HasStream' = HasStream /\ Deleted' = Deleted /\ Undisturbed' = Undisturbed
      /\ Created' = Created
  BY <1>1 DEF HasStream, Deleted, Undisturbed, Created
<1>3. CASE HasCreated
  <2>1. /\ pc = "creating" /\ call = NoCall /\ record' = record /\ started' = started
        /\ ownerShown' = ownerShown
        /\ pc' = IF results[1].kind = "ok" THEN "printing" ELSE "failed"
    BY <1>3 DEF HasCreated
  <2>2. Len(results) = 1 /\ results[1].op = "create_stream" /\ Undisturbed /\ ~started
    BY <2>1 DEF StartInv
  <2>3. results[1].kind = "ok" => HasStream
    BY <2>2 DEF HasStream
  <2>4. CASE results[1].kind = "ok"
    BY <1>1, <1>2, <2>1, <2>2, <2>3, <2>4 DEF StartInv
  <2>5. CASE results[1].kind # "ok"
    BY <1>1, <1>2, <2>1, <2>2, <2>5 DEF StartInv
  <2>. QED BY <2>4, <2>5
<1>4. CASE ShowLinks
  BY <1>1, <1>2, <1>4 DEF ShowLinks, StartInv
<1>5. CASE ShowLinksFails
  BY <1>1, <1>2, <1>5 DEF ShowLinksFails, StartInv
<1>6. CASE Connect
  BY <1>1, <1>2, <1>6 DEF Connect, StartInv
<1>7. CASE HostFails
  BY <1>1, <1>2, <1>7 DEF HostFails, HostReturns, MustCleanUp, StartInv
<1>8. CASE RecordDurable
  BY <1>1, <1>2, <1>8 DEF RecordDurable, StartInv
<1>9. CASE Confirmed
  BY <1>1, <1>2, <1>9 DEF Confirmed, StartInv
<1>10. CASE StartFails
  BY <1>1, <1>2, <1>10 DEF StartFails, HostReturns, MustCleanUp, StartInv
<1>11. CASE HostEnds
  BY <1>1, <1>2, <1>11 DEF HostEnds, HostReturns, MustCleanUp, StartInv
<1>12. CASE CleanedUp
  BY <1>1, <1>2, <1>12 DEF CleanedUp, StartInv
<1>13. CASE pc \in {"creating", "printing", "connecting"} /\ pc' = "killed" /\ call = NoCall
              /\ UNCHANGED <<record, started, ownerShown>>
  BY <1>1, <1>2, <1>13 DEF StartInv
<1>. QED BY <1>3, <1>4, <1>5, <1>6, <1>7, <1>8, <1>9, <1>10, <1>11, <1>12, <1>13

LEMMA CallStarts ==
  ASSUME RestInv, TruthInv, StartInv, Create \/ CleanUp
  PROVE  StartInv'
<1>1. ASSUME NEW op \in {"create_stream", "delete_stream"}, NEW stream,
             Begin(op, stream, NoLink, <<>>, NoSeq)
      PROVE  /\ call' # NoCall /\ call'.op = op /\ call'.stream = stream /\ results' = results
             /\ service' = service /\ \A r \in wire' : r \in wire \/ r.op = op
  <2>. PICK c : c = NewCall(op, stream, NoLink, <<>>, NoSeq)
    OBVIOUS
  <2>1. c.op = op /\ c.stream = stream
    BY DEF NewCall
  <2>2. Send(c) /\ results' = results /\ service' = service
    BY <1>1 DEF Begin
  <2>3. c # NoCall
    BY <2>1 DEF NoCall
  <2>. QED BY <2>1, <2>2, <2>3, RequestFacts DEF Send
<1>2. CASE Create
  <2>1. /\ pc = "create" /\ pc' = "creating" /\ record' = record /\ started' = started
        /\ ownerShown' = ownerShown /\ Begin("create_stream", 0, NoLink, <<>>, NoSeq)
    BY <1>2 DEF Create, CreateStream
  <2>2. call = NoCall /\ results = <<>> /\ Undisturbed /\ ~started
    BY <2>1 DEF StartInv
  <2>3. /\ call' # NoCall /\ call'.op = "create_stream" /\ results' = results
        /\ service' = service /\ \A r \in wire' : r \in wire \/ r.op = "create_stream"
    BY <1>1, <2>1
  <2>4. Undisturbed'
    BY <2>2, <2>3 DEF Undisturbed
  <2>. QED BY <2>1, <2>2, <2>3, <2>4 DEF StartInv
<1>3. CASE CleanUp
  <2>1. /\ pc = "cleanup" /\ pc' = "deleting" /\ record' = record /\ started' = started
        /\ ownerShown' = ownerShown /\ Begin("delete_stream", Created, NoLink, <<>>, NoSeq)
    BY <1>3 DEF CleanUp
  <2>2. Len(results) = 1 /\ HasStream /\ ~started
    BY <2>1 DEF StartInv
  <2>3. /\ call' # NoCall /\ call'.op = "delete_stream" /\ call'.stream = Created
        /\ results' = results
    BY <1>1, <2>1
  <2>4. HasStream' /\ Created' = Created
    BY <2>2, <2>3 DEF HasStream, Created
  <2>. QED BY <2>1, <2>2, <2>3, <2>4 DEF StartInv
<1>. QED BY <1>2, <1>3

LEMMA StartSteps ==
  ASSUME RestInv, TruthInv, StartInv, [StartNext]_allVars
  PROVE  StartInv'
<1>1. CASE UNCHANGED allVars
  <2>1. /\ pc' = pc /\ record' = record /\ started' = started /\ ownerShown' = ownerShown
        /\ call' = call /\ results' = results /\ wire' = wire /\ service' = service
    BY <1>1 DEF allVars, vars, clientVars, commandVars
  <2>2. /\ HasStream' = HasStream /\ Deleted' = Deleted /\ Undisturbed' = Undisturbed
        /\ Created' = Created
    BY <2>1 DEF HasStream, Deleted, Undisturbed, Created
  <2>. QED BY <2>1, <2>2 DEF StartInv
<1>2. CASE Client /\ UNCHANGED commandVars
  BY <1>2, ClientStarts
<1>3. CASE Environment /\ UNCHANGED commandVars
  BY <1>3, EnvironmentStarts
<1>4. CASE pc = "library" /\ UNCHANGED commandVars
  BY <1>4 DEF StartInv, commandVars
<1>5. CASE Create \/ CleanUp
  BY <1>5, CallStarts
<1>6. CASE Killed
  <2>1. CASE call = NoCall
    <3>1. /\ UNCHANGED vars /\ pc \in {"creating", "printing", "connecting"} /\ pc' = "killed"
          /\ UNCHANGED <<record, started, ownerShown>>
      BY <1>6, <2>1 DEF Killed
    <3>. QED BY <2>1, <3>1, CommandStarts
  <2>2. CASE call # NoCall
    <3>1. /\ Dropped /\ pc = "creating" /\ pc' = "killed" /\ started' = started
      BY <1>6, <2>2 DEF Killed, StartInv
    <3>2. ~started /\ call' = NoCall
      BY <3>1 DEF StartInv, Dropped, Return
    <3>. QED BY <3>1, <3>2 DEF StartInv
  <2>. QED BY <2>1, <2>2
<1>7. CASE HasCreated \/ ShowLinks \/ ShowLinksFails \/ Connect \/ HostFails \/ RecordDurable
             \/ Confirmed \/ StartFails \/ HostEnds \/ CleanedUp
  <2>1. UNCHANGED vars
    BY <1>7 DEF HasCreated, ShowLinks, ShowLinksFails, Connect, HostFails, RecordDurable,
         Confirmed, StartFails, HostEnds, CleanedUp
  <2>. QED BY <1>7, <2>1, CommandStarts
<1>. QED BY <1>1, <1>2, <1>3, <1>4, <1>5, <1>6, <1>7 DEF StartNext, Command

\* A call that returns Ok tells the truth, now and later: its stream, link or records are
\* its own, what it deleted or revoked stays so, its inventory is complete and names no
\* link twice; for every number of attempts, all programs and every page of the service
\* (retry_when, list_all_links, append_records).
THEOREM ResultsStayTrue == StartSpec => []ResultsTrue
<1>1. StartInit => RestInv /\ TruthInv /\ StartInv
  BY Initially, TrueInitially, StartsWell DEF StartInit
<1>2. RestInv /\ TruthInv /\ StartInv /\ [StartNext]_allVars => (RestInv /\ TruthInv /\ StartInv)'
  BY StartStep, StartTruth, StartSteps
<1>3. TruthInv => ResultsTrue
  BY DEF TruthInv, ResultsTrue, Lasting
<1>. QED BY <1>1, <1>2, <1>3, PTL DEF StartSpec

\* A terminal command that was not killed leaves no stream that nobody owns, and deletes
\* none that was started (run, cleanup_failed_start): whatever the service answers.
THEOREM NothingLeft == StartSpec => []StartupLeavesNothing
<1>1. StartInit => RestInv /\ TruthInv /\ StartInv
  BY Initially, TrueInitially, StartsWell DEF StartInit
<1>2. RestInv /\ TruthInv /\ StartInv /\ [StartNext]_allVars => (RestInv /\ TruthInv /\ StartInv)'
  BY StartStep, StartTruth, StartSteps
<1>3. RestInv /\ TruthInv /\ StartInv => StartupLeavesNothing
  <2>. SUFFICES ASSUME RestInv, TruthInv, StartInv, pc = "ended"
                PROVE  IF started THEN Active /\ record = "durable" ELSE ownerShown \/ ~Active
    BY DEF StartupLeavesNothing
  <2>1. CASE started
    <3>1. HasStream /\ Undisturbed /\ record = "durable"
      BY <2>1 DEF StartInv
    <3>2. Created \in DOMAIN service.streams
      BY <3>1, StreamExists
    <3>. QED BY <2>1, <3>1, <3>2 DEF Undisturbed, Active
  <2>2. CASE ~started /\ ~ownerShown
    <3>1. Deleted /\ results[2].kind = "ok"
      BY <2>2 DEF StartInv
    <3>2. 2 \in DOMAIN results
      BY <3>1, KnownType DEF RestInv, Deleted
    <3>3. Truth(results[2])
      BY <3>1, <3>2 DEF TruthInv, Lasting
    <3>4. service.streams[Created].status = "deleting"
      BY <3>1, <3>3 DEF Truth, Deleted
    <3>. QED BY <2>2, <3>4 DEF Active
  <2>. QED BY <2>1, <2>2
<1>. QED BY <1>1, <1>2, <1>3, PTL DEF StartSpec

================================================================================
