------------------------------ MODULE RestClient ------------------------------
(***************************************************************************)
(* The REST half of TsfClient (rust/src/client.rs): one logical call after *)
(* the other, each a bounded number of attempts of the same request, with  *)
(* the idempotency key of the call for creations, and list_all_links, which*)
(* follows pages while the inventory changes.                              *)
(*                                                                         *)
(* Network and service are external (docs/protocol.md).  A request is in   *)
(* `wire` from its sending until the service has processed it; an attempt  *)
(* that the client has given up at its timeout may be processed later.     *)
(* The service may fail before or after it has done what it was asked.     *)
(***************************************************************************)
EXTENDS Integers, Sequences, FiniteSets, Functions

CONSTANTS
  Attempts,     \* bounded_operation_attempts
  Programs,     \* the sequences of calls an application makes
  Batches,      \* what it passes to append_records: writer sequence numbers
  Expectations, \* expected_next_seq_num, or NoSeq
  LinkIds,      \* link ids it creates and revokes
  PageLimit,    \* MAX_LINK_PAGE_ITEMS
  BatchLimit,   \* MAX_STATELESS_APPEND_RECORDS
  SeqEnd,       \* u64::MAX of the writer's sequence numbers
  SafeMax,      \* MAX_SAFE_INTEGER_U64
  Statuses,     \* statuses the service fails with
  RetryAfters,  \* the delays it asks for, NoDelay for none
  FaultyPages,  \* pages of a service that breaks the contract
  MaxForeign    \* bound: changes made by others

NoSeq == -1
NoDelay == -1
NoCursor == 0
NoLink == "no link"
Nobody == "nobody"
Owner == "owner"
Creations == {"create_stream", "create_link"}
AllOps == Creations \cup {"get_stream", "update_stream", "delete_stream", "revoke_link",
                          "list_all_links", "append_records"}

ASSUME RestAssumption ==
  /\ Attempts \in Nat \ {0} /\ PageLimit \in Nat \ {0} /\ BatchLimit \in Nat \ {0}
  /\ SeqEnd \in Nat /\ SafeMax \in Nat
  /\ Programs \subseteq Seq(AllOps)
  /\ Batches \subseteq Seq(Nat) /\ Expectations \subseteq Nat \cup {NoSeq}
  /\ Statuses \subseteq Nat \ (200..299) /\ RetryAfters \subseteq Nat \cup {NoDelay}
  /\ MaxForeign \in Nat
  /\ "foreign" \notin LinkIds    \* ids are drawn at random
  /\ \A p \in FaultyPages : p.honest = FALSE /\ p.ids \in Seq(Range(p.ids)) /\ p.next \in Nat

VARIABLES
  call,     \* the call under way, or NoCall
  reply,    \* the response to its current attempt, or NoReply
  results,  \* of the calls that have returned
  wire,     \* requests the service has not processed
  service,  \* [streams, links, made, log, titles]
  foreign   \* changes made by others

clientVars == <<call, reply, results>>
vars == <<clientVars, wire, service, foreign>>

NoCall == [op |-> "none"]
NoReply == [status |-> 0]
NoPage == [authorizing |-> Owner, ids |-> <<>>, next |-> NoCursor, honest |-> TRUE]

-----------------------------------------------------------------------------
(* Outcomes of an attempt, and which of them are worth another one.        *)

RetryableStatuses == {408, 425, 429, 500, 502, 503, 504}

\* What TsfClientError tells apart.
Outcome(kind, r) == [kind |-> kind, status |-> r.status, after |-> r.after,
                     number |-> r.number, page |-> r.page]
NoAnswer == [status |-> 0, after |-> NoDelay, number |-> 0, page |-> NoPage]
Failure(kind) == Outcome(kind, NoAnswer)

IsRetryable(e) ==
  \/ e.kind \in {"timeout", "connect", "json"}
  \/ e.kind = "status" /\ e.status \in RetryableStatuses

IsRecoverableCreateFailure(e) == IsRetryable(e) \/ e.kind = "body"

ShouldRetry(c, e) ==
  IF c.op \in Creations THEN IsRecoverableCreateFailure(e) ELSE IsRetryable(e)

\* Delays in units of 100 ms: reconnect_delay doubles up to the maximum, with jitter.
MaxBackoff == 20
Doubling == <<2, 4, 8, 16>>
Backoff(retry) == IF retry < Len(Doubling) THEN Doubling[retry + 1] ELSE MaxBackoff
Jittered(retry) == { Backoff(retry) \div 2,
                     IF Backoff(retry) * 3 > MaxBackoff * 2 THEN MaxBackoff
                     ELSE (Backoff(retry) * 3) \div 2 }
\* Variant: what the service asks for is obeyed.
AsAsked(after) == after

Capped(after) == IF after > MaxBackoff THEN MaxBackoff ELSE after
RetryDelays(c, e) == IF e.after = NoDelay THEN Jittered(c.attempt - 1)
                     ELSE {Capped(e.after)}

-----------------------------------------------------------------------------
(* Calls and their requests.                                               *)

\* list_all_links between two pages.
NoListing == [links |-> <<>>, cursor |-> NoCursor, authorizing |-> Nobody,
              cursors |-> {}, ids |-> {}]

\* History: `before` is the inventory when the call began, `honest` whether every
\* page so far kept the contract.
Retained == {l.order : l \in service.links}

NewCall(op, stream, link, batch, expected) ==
  [n |-> Len(results) + 1, op |-> op, stream |-> stream, link |-> link, batch |-> batch,
   expected |-> expected, attempt |-> 1, phase |-> "waiting", delay |-> 0,
   listing |-> NoListing, before |-> Retained, honest |-> TRUE]

\* Variant: a key for each attempt.
KeyPerAttempt(c) == IF c.op \in Creations THEN <<c.n, c.attempt>> ELSE <<>>

\* One random key for the call.
IdempotencyKey(c) == IF c.op \in Creations THEN <<c.n>> ELSE <<>>

Precondition(c) == c.expected

Request(c) ==
  [call |-> c.n, attempt |-> c.attempt, op |-> c.op, key |-> IdempotencyKey(c),
   stream |-> c.stream, link |-> c.link, batch |-> c.batch,
   expected |-> Precondition(c), cursor |-> c.listing.cursor]

Send(c) == call' = c /\ reply' = NoReply /\ wire' = wire \cup {Request(c)}

\* The future has its value: the call is over.  A result keeps what was asked and
\* what came of it.
Return(c, outcome) ==
  /\ call' = NoCall /\ reply' = NoReply
  /\ results' = Append(results,
       [n |-> c.n, op |-> c.op, stream |-> c.stream, link |-> c.link, batch |-> c.batch,
        expected |-> c.expected, kind |-> outcome.kind, number |-> outcome.number,
        links |-> IF outcome.kind = "ok" THEN c.listing.links ELSE <<>>,
        kept |-> IF outcome.kind = "ok" /\ c.honest THEN c.before \cap Retained ELSE {},
        made |-> service.made])

\* append_records rejects these before it sends anything.
AppendValid(batch, expected) ==
  /\ Len(batch) \in 1..BatchLimit
  /\ batch[1] + Len(batch) - 1 < SeqEnd
  /\ expected <= SafeMax
  /\ \A i \in DOMAIN batch : batch[i] = batch[1] + i - 1

\* The application's next call, after those that have returned.
CanBegin(op) ==
  /\ call = NoCall
  /\ \E p \in Programs : /\ Len(p) > Len(results) /\ p[Len(results) + 1] = op
                         /\ \A i \in DOMAIN results : results[i].op = p[i]

Begin(op, stream, link, batch, expected) ==
  /\ CanBegin(op)
  /\ Send(NewCall(op, stream, link, batch, expected))
  /\ UNCHANGED <<results, service, foreign>>

CreateStream == Begin("create_stream", 0, NoLink, <<>>, NoSeq)
GetStream == Begin("get_stream", 1, NoLink, <<>>, NoSeq)
UpdateStream == Begin("update_stream", 1, NoLink, <<>>, NoSeq)
DeleteStream == Begin("delete_stream", 1, NoLink, <<>>, NoSeq)
CreateLink(link) == Begin("create_link", 1, link, <<>>, NoSeq)
RevokeLink(link) == Begin("revoke_link", 1, link, <<>>, NoSeq)
ListAllLinks == Begin("list_all_links", 1, NoLink, <<>>, NoSeq)

AppendRecords(batch, expected) ==
  IF AppendValid(batch, expected) THEN Begin("append_records", 1, NoLink, batch, expected)
  ELSE /\ CanBegin("append_records")
       /\ Return(NewCall("append_records", 1, NoLink, batch, expected), Failure("invalid"))
       /\ UNCHANGED <<wire, service, foreign>>

-----------------------------------------------------------------------------
(* retry_when.                                                             *)

\* Variant: the attempts are not counted.
SameAttempt(c) == c.attempt

NextAttempt(c) == c.attempt + 1

\* An attempt failed: sleep before the next one, or return the error.
AttemptFails(c, e) ==
  IF c.attempt < Attempts /\ ShouldRetry(c, e)
  THEN /\ \E d \in RetryDelays(c, e) : call' = [c EXCEPT !.phase = "sleeping", !.delay = d]
       /\ reply' = NoReply
       /\ UNCHANGED results
  ELSE Return(c, e)

Waiting == call # NoCall /\ call.phase = "waiting"

\* The sleep is over.
Retry ==
  /\ call # NoCall /\ call.phase = "sleeping"
  /\ Send([call EXCEPT !.phase = "waiting", !.delay = 0, !.attempt = NextAttempt(call)])
  /\ UNCHANGED <<results, service, foreign>>

\* http_request_timeout: the request stays where it is, an answer comes too late.
TimesOut ==
  /\ Waiting /\ AttemptFails(call, Failure("timeout"))
  /\ UNCHANGED <<wire, service, foreign>>

\* The connection cannot be made: the request is gone.
ConnectFails ==
  /\ Waiting /\ Request(call) \in wire
  /\ wire' = wire \ {Request(call)}
  /\ AttemptFails(call, Failure("connect"))
  /\ UNCHANGED <<service, foreign>>

\* It is closed before a response; "request" errors of the HTTP library are not retried.
ConnectionClosed ==
  /\ Waiting /\ reply = NoReply
  /\ AttemptFails(call, Failure("closed"))
  /\ UNCHANGED <<wire, service, foreign>>

\* The application drops the call's future.
Dropped ==
  /\ call # NoCall /\ Return(call, Failure("dropped"))
  /\ UNCHANGED <<wire, service, foreign>>

-----------------------------------------------------------------------------
(* Reading a response.                                                     *)

\* http_status_error: one condition has a type of its own.
StatusError(r) == Outcome(IF r.status = 412 THEN "mismatch" ELSE "status", r)

\* Variant: any response to a deletion will do.
AnyEmpty(c, r) == r.status \in 200..299 \/ c.op \in {"delete_stream", "revoke_link"}

Succeeded(c, r) == IF c.op \in {"delete_stream", "revoke_link"} THEN r.status = 204
                   ELSE r.status \in 200..299

HasBody(c) == c.op \notin {"delete_stream", "revoke_link"}

Distinct(ids) == IsInjective(ids)

\* validate_link_page.
PageValid(page) ==
  /\ Len(page.ids) <= PageLimit
  /\ ~(page.next # NoCursor /\ page.ids = <<>>)
  /\ Distinct(page.ids)

\* The checks of list_all_links over pages.
SameAuthorizing(l, page) == l.authorizing \in {Nobody, page.authorizing}
NewIds(l, page) == l.ids \cap Range(page.ids) = {}
NewCursor(l, page) == page.next \notin l.cursors

\* Whether the inventory is complete with this page.
LastPage(page) == page.next = NoCursor

NextListing(l, page) ==
  [links |-> l.links \o page.ids, cursor |-> page.next, authorizing |-> page.authorizing,
   cursors |-> l.cursors \cup {page.next}, ids |-> l.ids \cup Range(page.ids)]

\* list_links has a page: the next request, the inventory or an error.
PageArrives(c, r) ==
  LET l == c.listing
      d == [c EXCEPT !.listing = NextListing(l, r.page), !.attempt = 1,
                     !.honest = @ /\ r.page.honest]
  IN IF ~PageValid(r.page) \/ ~SameAuthorizing(l, r.page) \/ ~NewIds(l, r.page)
     THEN Return(c, Failure("invalid page")) /\ UNCHANGED wire
     ELSE IF LastPage(r.page) THEN Return(d, Outcome("ok", r)) /\ UNCHANGED wire
     ELSE IF ~NewCursor(l, r.page) THEN Return(c, Failure("invalid page")) /\ UNCHANGED wire
     ELSE Send(d) /\ UNCHANGED results

\* validate_append_range: `number` is the start of the range, `length` its length.
RangeValid(c, r) == r.length = Len(c.batch)

Receive ==
  /\ Waiting /\ reply # NoReply
  /\ UNCHANGED <<service, foreign>>
  /\ \/ /\ ~Succeeded(call, reply)
        /\ AttemptFails(call, StatusError(reply)) /\ UNCHANGED wire
     \/ /\ Succeeded(call, reply) /\ call.op = "list_all_links"
        /\ PageArrives(call, reply)
     \/ /\ Succeeded(call, reply) /\ call.op # "list_all_links"
        /\ Return(call, IF call.op = "append_records" /\ ~RangeValid(call, reply)
                        THEN Failure("invalid range") ELSE Outcome("ok", reply))
        /\ UNCHANGED wire

\* The body of a success breaks off, is not the JSON expected, or is too large.
ReceiveFails ==
  /\ Waiting /\ reply # NoReply /\ Succeeded(call, reply) /\ HasBody(call)
  /\ \E kind \in {"body", "json", "too large"} : AttemptFails(call, Failure(kind))
  /\ UNCHANGED <<wire, service, foreign>>

-----------------------------------------------------------------------------
(* The service (external).                                                 *)

Reply(status, number) == [status |-> status, after |-> NoDelay, number |-> number,
                          length |-> 0, page |-> NoPage]
Answered(s, r) == {[state |-> s, reply |-> r]}

StreamOf(s, key) == {i \in DOMAIN s.streams : s.streams[i].key = key}

DoCreateStream(s, r) ==
  IF StreamOf(s, r.key) = {}
  THEN Answered([s EXCEPT !.streams = Append(@, [key |-> r.key, call |-> r.call, status |-> "active"])],
                Reply(201, Len(s.streams) + 1))
  ELSE LET i == CHOOSE i \in StreamOf(s, r.key) : TRUE IN
       Answered(s, IF s.streams[i].status = "active" THEN Reply(201, i) ELSE Reply(409, 0))

LinkAt(s, id) == {l \in s.links : l.id = id}

NewLink(s, id, key) ==
  [s EXCEPT !.links = @ \cup {[id |-> id, key |-> key, order |-> s.made + 1, active |-> TRUE]},
            !.made = @ + 1]

DoCreateLink(s, r) ==
  IF LinkAt(s, r.link) = {} THEN Answered(NewLink(s, r.link, r.key), Reply(201, 0))
  ELSE Answered(s, IF \E l \in LinkAt(s, r.link) : l.key = r.key
                   THEN Reply(201, 0) ELSE Reply(409, 0))

Revoked(s, id) ==
  [s EXCEPT !.links = (@ \ LinkAt(s, id)) \cup {[l EXCEPT !.active = FALSE] : l \in LinkAt(s, id)}]

\* The records that an append adds.
Added(r) ==
  [i \in DOMAIN r.batch |-> [call |-> r.call, attempt |-> r.attempt, seq |-> r.batch[i]]]

DoAppend(s, r) ==
  IF r.expected \notin {NoSeq, Len(s.log)} THEN Answered(s, Reply(412, Len(s.log)))
  ELSE Answered([s EXCEPT !.log = @ \o Added(r)],
                [Reply(200, Len(s.log)) EXCEPT !.length = Len(r.batch)])

\* Newest first, from the cursor on; a cursor names the last link of its page.
Older(s, cursor) == {l \in s.links : cursor = NoCursor \/ l.order < cursor}

Newest(links, f) ==
  /\ \A i, j \in DOMAIN f : i < j => f[i].order > f[j].order
  /\ \A l \in links \ Range(f) : l.order < f[Len(f)].order
Starts(links) == {f \in UNION {[1..k -> links] : k \in 1..PageLimit} : Newest(links, f)}

PageOf(f, next) ==
  [authorizing |-> Owner, ids |-> [i \in DOMAIN f |-> f[i].id], next |-> next, honest |-> TRUE]

HonestPages(s, cursor) ==
  LET links == Older(s, cursor) IN
  IF links = {} THEN {NoPage}
  ELSE {PageOf(f, f[Len(f)].order) : f \in Starts(links)}
       \cup {PageOf(f, NoCursor) : f \in {f \in Starts(links) : Range(f) = links}}

DoList(s, r) ==
  {[state |-> s, reply |-> [Reply(200, 0) EXCEPT !.page = p]] :
     p \in HonestPages(s, r.cursor) \cup FaultyPages}

\* What the service may make of a request.
Process(s, r) ==
  IF r.op = "create_stream" THEN DoCreateStream(s, r)
  ELSE IF r.op = "delete_stream"
  THEN Answered([s EXCEPT !.streams[r.stream].status = "deleting"], Reply(204, 0))
  ELSE IF s.streams[r.stream].status # "active" THEN Answered(s, Reply(404, 0))
  ELSE CASE r.op = "create_link" -> DoCreateLink(s, r)
         [] r.op = "revoke_link" ->
              IF r.link = Owner THEN Answered(s, Reply(409, 0))
              ELSE Answered(Revoked(s, r.link), Reply(IF LinkAt(s, r.link) = {} THEN 404 ELSE 204, 0))
         [] r.op = "append_records" -> DoAppend(s, r)
         [] r.op = "list_all_links" -> DoList(s, r)
         [] r.op = "update_stream" ->
              Answered([s EXCEPT !.titles = Append(@, r.call)], Reply(200, 0))
         [] OTHER -> Answered(s, Reply(200, 0))

\* Only the attempt the client waits for has somebody who reads its response.
Deliver(r, answer) ==
  reply' = IF Waiting /\ r = Request(call) THEN answer ELSE reply

Serve(r) ==
  /\ \E p \in Process(service, r) : service' = p.state /\ Deliver(r, p.reply)
  /\ wire' = wire \ {r}
  /\ UNCHANGED <<call, results, foreign>>

\* An error status, from before the request was processed or from after it.
ServeFails(r) ==
  /\ \E p \in Process(service, r) : service' \in {service, p.state}
  /\ \E status \in Statuses, after \in RetryAfters :
       Deliver(r, [Reply(status, 0) EXCEPT !.after = after])
  /\ wire' = wire \ {r}
  /\ UNCHANGED <<call, results, foreign>>

\* Another owner makes a link, a revoked one is cleaned up long after, another writer appends.
Foreign ==
  /\ foreign < MaxForeign /\ foreign' = foreign + 1
  /\ UNCHANGED <<clientVars, wire>>
  /\ \/ /\ LinkAt(service, "foreign") = {}
        /\ service' = NewLink(service, "foreign", <<0>>)
     \/ \E l \in service.links :
          /\ l.id # Owner
          /\ ~ \E r \in wire : r.link = l.id
          /\ service' = [service EXCEPT !.links = @ \ {l}]
     \/ service' = [service EXCEPT !.log = Append(@, [call |-> 0, attempt |-> 0, seq |-> 0])]

-----------------------------------------------------------------------------
(* One stream exists with an owner link and an older and a newer one.      *)

ExistingService ==
  [streams |-> <<[key |-> <<>>, call |-> 0, status |-> "active"]>>,
   links |-> { [id |-> "reader", key |-> <<0>>, order |-> 2, active |-> TRUE],
               [id |-> Owner, key |-> <<0>>, order |-> 1, active |-> TRUE] },
   made |-> 2, log |-> <<>>, titles |-> <<>>]

Init ==
  /\ call = NoCall /\ reply = NoReply /\ results = <<>>
  /\ wire = {} /\ service = ExistingService /\ foreign = 0

Application ==
  \/ CreateStream \/ GetStream \/ UpdateStream \/ DeleteStream \/ ListAllLinks
  \/ \E link \in LinkIds : CreateLink(link) \/ RevokeLink(link)
  \/ \E batch \in Batches, expected \in Expectations : AppendRecords(batch, expected)

Client == Retry \/ TimesOut \/ ConnectFails \/ ConnectionClosed \/ Receive \/ ReceiveFails

Environment == (\E r \in wire : Serve(r) \/ ServeFails(r)) \/ Foreign

Next == Application \/ Client \/ Dropped \/ Environment

Spec == Init /\ [][Next]_vars

-----------------------------------------------------------------------------
(* Properties.                                                             *)

\* The client's state has its type, no call makes more than its attempts, no delay
\* exceeds the maximum whatever the service asks for, and only creations carry a key.
TypeOK ==
  /\ call # NoCall =>
       /\ call.n = Len(results) + 1 /\ call.op \in AllOps /\ call.attempt \in 1..Attempts
       /\ call.phase \in {"waiting", "sleeping"} /\ call.delay \in 0..MaxBackoff
       /\ call.listing # NoListing => call.op = "list_all_links"
  /\ reply # NoReply => Waiting
  /\ \A r \in wire :
       /\ r.call \in 1..(Len(results) + 1) /\ r.attempt \in 1..Attempts
       /\ (r.key # <<>>) = (r.op \in Creations)

Calls == Range(results) \cup ({call} \ {NoCall})

Copies(c) == {i \in DOMAIN service.log : service.log[i].call = c.n /\ service.log[i].seq = c.batch[1]}

\* A logical call happens at most once, however many of its attempts the service
\* processes, in whatever order and however late: a creation makes one stream, an
\* append with a precondition stores one copy, one without it one per attempt
\* (create_stream, create_link, append_records over retry_when).
OnceOnly ==
  /\ \A i, j \in DOMAIN service.streams :
       service.streams[i].call = service.streams[j].call => i = j
  /\ \A c \in Calls : c.op = "append_records" /\ c.batch # <<>> =>
       Cardinality(Copies(c)) <= (IF c.expected = NoSeq THEN Attempts ELSE 1)

\* What a call that returned Ok says is so.
Truth(r) ==
  LET Made(l) == l.id = r.link /\ l.order <= r.made
  IN CASE r.op = "create_stream" -> service.streams[r.number].call = r.n
       [] r.op = "delete_stream" -> service.streams[r.stream].status = "deleting"
       [] r.op = "create_link" -> \A l \in service.links : Made(l) => l.key = <<r.n>>
       [] r.op = "revoke_link" -> \A l \in service.links : Made(l) => ~l.active
       [] r.op = "append_records" ->
            \A i \in DOMAIN r.batch : /\ service.log[r.number + i].call = r.n
                                      /\ service.log[r.number + i].seq = r.batch[i]
       [] r.op = "update_stream" -> r.n \in Range(service.titles)
       [] r.op = "list_all_links" ->
            /\ IsInjective(r.links)
            /\ \A l \in service.links : l.order \in r.kept => l.id \in Range(r.links)
       [] OTHER -> TRUE

\* A call that returns Ok tells the truth, now and later, also when it was answered
\* at a late attempt: the stream or link is its own, what was deleted or revoked
\* stays so, the range holds its records, and the inventory names no link twice and,
\* with a service that keeps the contract, every link that was there all along.
ResultsTrue ==
  \A i \in DOMAIN results : results[i].kind = "ok" => Truth(results[i])

\* Every call returns, whatever the service answers or does not answer: attempts are
\* bounded and a paginated inventory cannot go round in circles (retry_when, list_all_links).
CallsEnd == call # NoCall ~> call = NoCall

\* The runtime fires the timers of the client: a request times out, a sleep ends.
Fairness == WF_vars(TimesOut) /\ WF_vars(Retry)

=============================================================================
