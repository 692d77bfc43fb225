------------------------- MODULE RestClientInvariants -------------------------
(***************************************************************************)
(* Why a logical call happens at most once (RestInv), why what a call has  *)
(* reported stays true (TruthInv), and why a start that ended has left no  *)
(* stream that nobody owns (StartInv).                                     *)
(***************************************************************************)
EXTENDS TerminalStart

StreamRecord == [key : Seq(Nat), call : Nat, status : {"active", "deleting"}]
LogRecord == [call : Nat, attempt : Nat, seq : Nat]

\* A record with the fields of a call, of a request, of a service.
IsCall(c) ==
  c = [n |-> c.n, op |-> c.op, stream |-> c.stream, link |-> c.link, batch |-> c.batch,
       expected |-> c.expected, attempt |-> c.attempt, phase |-> c.phase, delay |-> c.delay,
       listing |-> c.listing, before |-> c.before, honest |-> c.honest]
IsRequest(r) ==
  r = [call |-> r.call, attempt |-> r.attempt, op |-> r.op, key |-> r.key,
       stream |-> r.stream, link |-> r.link, batch |-> r.batch,
       expected |-> r.expected, cursor |-> r.cursor]
IsService(s) ==
  s = [streams |-> s.streams, links |-> s.links, made |-> s.made, log |-> s.log,
       titles |-> s.titles]

ServiceOK(s) ==
  /\ IsService(s)
  /\ s.streams \in Seq(StreamRecord) /\ s.log \in Seq(LogRecord)

\* A call with the arguments its operation admits.
Sound(c) ==
  /\ c.op \in AllOps /\ c.batch \in Seq(Nat) /\ c.expected \in Nat \cup {NoSeq}
  /\ c.op = "append_records" => AppendValid(c.batch, c.expected)

CallOK ==
  call # NoCall =>
    /\ IsCall(call) /\ Sound(call)
    /\ call.n = Len(results) + 1 /\ call.attempt \in 1..Attempts
    /\ call.phase \in {"waiting", "sleeping"} /\ call.delay \in 0..MaxBackoff
    /\ call.phase = "sleeping" => call.attempt < Attempts
    /\ call.listing # NoListing => call.op = "list_all_links"
    /\ call.op = "append_records" =>
         call.stream = 1 /\ call.link = NoLink /\ call.listing.cursor = NoCursor

ReplyOK == reply # NoReply => Waiting /\ reply.after \in Nat \cup {NoDelay}

ResultsOK ==
  /\ results \in Seq(Range(results))
  /\ \A i \in DOMAIN results : results[i].n = i

\* Calls that have begun.
Known == IF call = NoCall THEN Len(results) ELSE Len(results) + 1

\* A request is one of its call's, and the last one unless it is overdue.
RequestOK(r) ==
  /\ IsRequest(r) /\ Sound(r)
  /\ r.call \in 1..Known /\ r.attempt \in 1..Attempts
  /\ r.key = (IF r.op \in Creations THEN <<r.call>> ELSE <<>>)
  /\ \A c \in Calls : c.n = r.call =>
       r.op = c.op /\ r.batch = c.batch /\ r.expected = c.expected
  /\ r.op = "append_records" =>
       /\ r.stream = 1 /\ r.link = NoLink /\ r.cursor = NoCursor
       /\ call # NoCall /\ r.call = call.n => r.attempt <= call.attempt

WireOK == \A r \in wire : RequestOK(r)

\* An append that is still to come has left nothing in the log.
UnservedOK ==
  \A r \in wire : r.op = "append_records" =>
    \A i \in DOMAIN service.log :
      ~(service.log[i].call = r.call /\ service.log[i].attempt = r.attempt)

\* The streams are of different calls, and carry their keys.
StreamsOK(s) ==
  /\ \A i \in DOMAIN s.streams :
       s.streams[i].key = (IF s.streams[i].call = 0 THEN <<>> ELSE <<s.streams[i].call>>)
  /\ \A i, j \in DOMAIN s.streams : s.streams[i].call = s.streams[j].call => i = j

\* A record of the log is of an append, at the place its precondition names.
LogRecordOK(i) ==
  LET e == service.log[i] IN
  e.call # 0 =>
    /\ e.call <= Known /\ e.attempt \in 1..Attempts
    /\ \A c \in Calls : c.n = e.call =>
         /\ c.op = "append_records"
         /\ c.expected # NoSeq /\ e.seq = c.batch[1] => i = c.expected + 1
    /\ call # NoCall /\ e.call = call.n => e.attempt <= call.attempt

\* One attempt stores a record once.
Distinguished ==
  \A i, j \in DOMAIN service.log :
    service.log[i] = service.log[j] /\ service.log[i].call # 0 => i = j

LogOK == (\A i \in DOMAIN service.log : LogRecordOK(i)) /\ Distinguished

RestInv ==
  /\ ServiceOK(service) /\ CallOK /\ ReplyOK /\ ResultsOK
  /\ WireOK /\ UnservedOK /\ StreamsOK(service) /\ LogOK

-----------------------------------------------------------------------------
(* Why what a call reported stays true: what a service never takes back,   *)
(* what an answer that nobody has read yet says, and what a listing that   *)
(* is under way has seen.                                                  *)

IsLink(l) == l = [id |-> l.id, key |-> l.key, order |-> l.order, active |-> l.active]

LinksOK(s) ==
  /\ s.made \in Nat /\ s.titles \in Seq(Nat) /\ Len(s.streams) > 0
  /\ \A l \in s.links : IsLink(l) /\ l.order \in 1..s.made
  /\ \A l, k \in s.links : l.id = k.id => l = k

\* What no step of the service takes back.
Evolves(s, t) ==
  /\ s.made <= t.made
  /\ Len(s.streams) <= Len(t.streams)
  /\ \A i \in DOMAIN s.streams :
       /\ t.streams[i].call = s.streams[i].call
       /\ s.streams[i].status = "deleting" => t.streams[i].status = "deleting"
  /\ \A l \in t.links :
       \/ l.order > s.made
       \/ \E k \in s.links : /\ k.id = l.id /\ k.key = l.key /\ k.order = l.order
                             /\ l.active => k.active
  /\ Len(s.log) <= Len(t.log) /\ \A i \in DOMAIN s.log : t.log[i] = s.log[i]
  /\ Range(s.titles) \subseteq Range(t.titles)

\* The records of a batch in the log, from behind the first `number` on.
Stored(batch, n, number) ==
  /\ number \in Nat /\ number + Len(batch) <= Len(service.log)
  /\ \A i \in DOMAIN batch :
       service.log[number + i].call = n /\ service.log[number + i].seq = batch[i]

\* What is true of a result for good.
Lasting(r) ==
  /\ r.op \in AllOps /\ r.batch \in Seq(Nat)
  /\ r.made \in Nat /\ r.made <= service.made /\ r.kept \subseteq 1..r.made
  /\ r.kind = "ok" =>
       /\ r.op = "create_stream" => r.number \in DOMAIN service.streams
       /\ r.op = "delete_stream" => r.stream \in DOMAIN service.streams
       /\ r.op = "append_records" => Stored(r.batch, r.n, r.number)
       /\ Truth(r)

\* A call names a stream that exists, and a link of its own.
TargetOK(c) ==
  /\ c.op = "delete_stream" => c.stream \in DOMAIN service.streams
  /\ c.op \in {"create_link", "revoke_link"} => c.link \in LinkIds

\* Every link that was there all along and is newer than the cursor has been listed.
Seen(c) ==
  \A l \in service.links :
    l.order \in c.before /\ c.listing.cursor # NoCursor /\ l.order >= c.listing.cursor =>
      l.id \in c.listing.ids

ListingOK(c) ==
  /\ c.before \subseteq 1..service.made /\ c.honest \in BOOLEAN
  /\ c.listing.links \in Seq(c.listing.ids) /\ Range(c.listing.links) = c.listing.ids
  /\ IsInjective(c.listing.links)
  /\ c.listing.cursor \in Nat
  /\ c.honest => Seen(c)

\* A page that keeps the contract has what was there between its cursor and the next.
PageOK(c, page) ==
  /\ page.ids \in Seq(Range(page.ids)) /\ page.next \in Nat /\ page.honest \in BOOLEAN
  /\ page.honest =>
       \A l \in service.links :
         /\ l.order \in c.before
         /\ c.listing.cursor = NoCursor \/ l.order < c.listing.cursor
         /\ page.next = NoCursor \/ l.order >= page.next
         => l.id \in Range(page.ids)

\* A success says what is so; a link it is about that is gone does not come back.
AnswerOK(c, a) ==
  /\ c.op = "create_stream" =>
       a.number \in DOMAIN service.streams /\ service.streams[a.number].call = c.n
  /\ c.op = "delete_stream" => service.streams[c.stream].status = "deleting"
  /\ c.op = "create_link" => \A l \in service.links : l.id = c.link => l.key = <<c.n>>
  /\ c.op = "revoke_link" => \A l \in service.links : l.id = c.link => ~l.active
  /\ c.op \in {"create_link", "revoke_link"} /\ LinkAt(service, c.link) = {} =>
       \A r \in wire : r.link # c.link
  /\ c.op = "append_records" => Stored(c.batch, c.n, a.number)
  /\ c.op = "update_stream" => c.n \in Range(service.titles)
  /\ c.op = "list_all_links" => PageOK(c, a.page)

TruthInv ==
  /\ LinksOK(service)
  /\ \A i \in DOMAIN results : Lasting(results[i])
  /\ \A r \in wire : TargetOK(r)
  /\ call # NoCall => TargetOK(call) /\ ListingOK(call)
  /\ reply # NoReply /\ Succeeded(call, reply) => AnswerOK(call, reply)

-----------------------------------------------------------------------------
(* Where the start of a terminal is, and what has become of its stream.    *)

HasStream == Len(results) > 0 /\ results[1].op = "create_stream" /\ results[1].kind = "ok"

\* The deletion of the stream has returned.
Deleted == HasStream /\ Len(results) = 2 /\ results[2].op = "delete_stream"
             /\ results[2].stream = Created

\* Nobody has asked for a deletion.
Undisturbed ==
  /\ \A r \in wire : r.op # "delete_stream"
  /\ \A i \in DOMAIN service.streams : service.streams[i].status = "active"

StartInv ==
  pc # "library" =>
    /\ pc = "create" => call = NoCall /\ results = <<>>
    /\ pc = "creating" =>
         IF call = NoCall THEN Len(results) = 1 /\ results[1].op = "create_stream"
         ELSE results = <<>> /\ call.op = "create_stream"
    /\ pc \in {"printing", "connecting", "starting", "running", "cleanup"} =>
         call = NoCall /\ Len(results) = 1 /\ HasStream
    /\ pc = "deleting" =>
         IF call = NoCall THEN Deleted
         ELSE Len(results) = 1 /\ HasStream /\ call.op = "delete_stream" /\ call.stream = Created
    /\ pc \in {"create", "creating", "printing", "connecting", "starting", "cleanup"} \/ started =>
         Undisturbed
    /\ started => pc \in {"running", "ended"} /\ HasStream /\ call = NoCall /\ record = "durable"
    /\ pc = "running" => started
    /\ pc = "ended" =>
         call = NoCall /\ (started \/ ownerShown \/ (Deleted /\ results[2].kind = "ok"))
    /\ pc \in {"killed", "failed"} => call = NoCall

=============================================================================
