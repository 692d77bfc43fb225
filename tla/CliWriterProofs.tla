---------------------------- MODULE CliWriterProofs ----------------------------
(***************************************************************************)
(* What `tsf write` does with its input, for every value of the constants. *)
(* The inductive invariant CliInv has four parts: the types, the account   *)
(* of the window, what the records hold of the input, and where each byte  *)
(* of a pipe is.  The properties of CliWriter follow from them.            *)
(***************************************************************************)
EXTENDS CliWriter, SequenceTheorems, WellFoundedInduction, TLAPS

\* A byte is its pipe and its number, from one on.
Bytes == {<<p, i>> : p \in Pipes, i \in Nat \ {0}}
Symbols == Bytes \cup {Newline}
Entries == [records : Nat, bytes : Nat]

PipeTypes ==
  /\ job \in Inputs
  /\ read \in [Pipes -> Nat] /\ hand \in [Pipes -> Seq(Bytes)]
  /\ reader \in [Pipes -> {"running", "ended", "failed"}]
  /\ \A p \in Pipes : read[p] <= Len(job.text[p]) /\ Len(hand[p]) <= MaxChunk
  /\ chan \in Seq(Seq(Bytes)) /\ Len(chan) <= ChannelCap

FlagTypes ==
  /\ closed \in BOOLEAN /\ interrupted \in BOOLEAN /\ ignored \in BOOLEAN /\ broken \in BOOLEAN
  /\ child \in {"running", "exited", "killed"} /\ pressed \in 0..MaxInterrupts

TaskTypes ==
  /\ pc \in Ended \cup {"receive", "push", "admit", "wait", "flush", "join", "finish"}
  /\ back \in {"receive", "push", "join"}
  /\ rest \in Seq(Bytes) /\ buf \in Seq(Bytes) /\ batch \in Seq(Bytes) /\ input \in Seq(Bytes)
  /\ deadline <=> (~Lines /\ buf # <<>>)

SessionTypes ==
  /\ accepted \in Seq(Seq(Bytes)) /\ tickets \in Seq(Entries)
  /\ pendRecords \in Nat /\ pendBytes \in Nat /\ records \in Nat
  /\ durable \in 0..Len(accepted)

TypeInv == PipeTypes /\ FlagTypes /\ TaskTypes /\ SessionTypes

-----------------------------------------------------------------------------
(* The window.                                                             *)

Overfull == pendRecords > WindowRecords \/ pendBytes > WindowBytes

RecordCounts(batches) == [k \in DOMAIN batches |-> RecordCount(batches[k])]

\* Tickets resolve from the front, and the counters are those of the others.
WindowInv ==
  /\ 0 <= Resolved
  /\ pendRecords = SumRecords(tickets) /\ pendBytes = SumBytes(tickets)
  /\ records = Total(RecordCounts(accepted))
  /\ Overfull => Len(tickets) = 1 \/ interrupted
  /\ pc = "done" => durable = Len(accepted)

-----------------------------------------------------------------------------
(* The records.                                                            *)

Running == pc \notin {"failed", "aborted"}

\* A record waits for room, and the task goes on at `next`.
Admitting(next) == pc \in {"admit", "wait"} /\ back = next

NoNewline(bytes) == \A i \in DOMAIN bytes : ~IsNewline(bytes[i])

\* Which bytes the appender and the chunk may still hold.
PlaceInv ==
  Running =>
    /\ pc = "push" \/ Admitting("push") \/ rest = <<>>
    /\ pc \in {"admit", "wait", "join", "finish", "done"} => buf = <<>>
    /\ Lines => NoNewline(buf)
    /\ ~Lines => Len(buf) < MaxPayload
    /\ Lines /\ Admitting("join") => LastLineOpen

\* The records as they would be written to a file.
LineText(batches) == [k \in DOMAIN batches |-> Append(batches[k], Newline)]
Tail1 == IF LastLineOpen THEN <<Newline>> ELSE <<>>

ContentInv ==
  Running =>
    /\ Lines => FlattenSeq(LineText(Written)) \o buf \o Erased(rest) = Erased(input) \o Tail1
    /\ ~Lines => FlattenSeq(Written) \o buf \o rest = input

-----------------------------------------------------------------------------
(* The bytes of the pipes.                                                 *)

InInput(b) == \E k \in DOMAIN input : input[k] = b
InChan(b) == \E k \in DOMAIN chan : \E i \in DOMAIN chan[k] : chan[k][i] = b
InHand(b) == \E i \in DOMAIN hand[b[1]] : hand[b[1]][i] = b

Before(b) == <<b[1], b[2] - 1>>

\* A byte is behind the one before it, on its way and where it arrived.
InputOrder ==
  \A k \in DOMAIN input : input[k][2] = 1 \/ \E j \in 1..(k - 1) : input[j] = Before(input[k])

ChanOrder ==
  \A k \in DOMAIN chan : \A i \in DOMAIN chan[k] :
    \/ chan[k][i][2] = 1
    \/ i > 1 /\ chan[k][i - 1] = Before(chan[k][i])
    \/ InInput(Before(chan[k][i]))
    \/ \E l \in 1..(k - 1) : \E j \in DOMAIN chan[l] : chan[l][j] = Before(chan[k][i])

HandOrder ==
  \A p \in Pipes : \A i \in DOMAIN hand[p] :
    /\ hand[p][i][1] = p
    /\ \/ hand[p][i][2] = 1
       \/ i > 1 /\ hand[p][i - 1] = Before(hand[p][i])
       \/ InInput(Before(hand[p][i])) \/ InChan(Before(hand[p][i]))

OrderInv == InputOrder /\ ChanOrder /\ HandOrder

\* No byte is there twice, and none that was not read.
OnceInv ==
  /\ \A j, k \in DOMAIN input : input[j] = input[k] => j = k
  /\ \A k, l \in DOMAIN chan : \A i \in DOMAIN chan[k], j \in DOMAIN chan[l] :
       chan[k][i] = chan[l][j] => k = l /\ i = j
  /\ \A p \in Pipes : \A i, j \in DOMAIN hand[p] : hand[p][i] = hand[p][j] => i = j
  /\ \A b \in Bytes : InChan(b) => ~InInput(b)
  /\ \A b \in Bytes : InHand(b) => ~InInput(b) /\ ~InChan(b)
  /\ \A b \in Bytes : InInput(b) \/ InChan(b) \/ InHand(b) => b[2] <= read[b[1]]

\* What was read is somewhere, unless an interrupt has dropped it.
KeptInv ==
  \A p \in Pipes : reader[p] = "running" \/ ~interrupted =>
    \A i \in 1..read[p] : InInput(<<p, i>>) \/ InChan(<<p, i>>) \/ InHand(<<p, i>>)

\* What the task knows of the pipes when it has stopped receiving.
EndInv ==
  /\ closed \/ child = "killed" => interrupted
  /\ ~interrupted =>
       /\ \A p \in Pipes : reader[p] = "ended" => hand[p] = <<>> /\ read[p] = Len(job.text[p])
       /\ pc \in {"flush", "join", "finish", "done"} \/ Admitting("join") => InputEnds
  /\ pc \in {"finish", "done"} => \A p \in Pipes : reader[p] = "ended"

PipeInv == OrderInv /\ OnceInv /\ KeptInv /\ EndInv

CliInv == TypeInv /\ WindowInv /\ PlaceInv /\ ContentInv /\ PipeInv

-----------------------------------------------------------------------------
(* Sums, by the least counterexample.                                      *)

LEMMA LeastNumber ==
  ASSUME NEW T, T \subseteq Nat, T # {}
  PROVE  \E m \in T : \A k \in T : m <= k
<1>. DEFINE LessThan == {p \in Nat \X Nat : p[1] < p[2]}
<1>1. IsWellFoundedOn(LessThan, Nat)
  BY NatLessThanWellFounded DEF OpToRel
<1>2. PICK m \in T : \A k \in T : ~ (<<k, m>> \in LessThan)
  <2>. HIDE DEF LessThan
  <2>. QED BY ONLY <1>1, WFMin, T \subseteq Nat, T # {}
<1>3. ASSUME NEW k \in T PROVE m <= k
  <2>1. ~ (<<k, m>> \in LessThan)
    BY <1>2
  <2>. QED BY <2>1
<1>. QED BY <1>3

\* `f` holds the sum of the first 0, ..., `n` numbers.
SumUpTo(ns, n, f) == f = [k \in 0..n |-> IF k = 0 THEN 0 ELSE f[k - 1] + ns[k]]

LEMMA SumExists ==
  ASSUME NEW ns, NEW n \in Nat
  PROVE  \E f : SumUpTo(ns, n, f)
<1>. DEFINE T == {k \in Nat : ~ \E f : SumUpTo(ns, k, f)}
<1>. SUFFICES ASSUME T # {} PROVE FALSE
  OBVIOUS
<1>1. PICK m \in T : \A k \in T : m <= k
  BY LeastNumber
<1>2. m # 0
  <2>. DEFINE f == [k \in 0..0 |-> 0]
  <2>1. SumUpTo(ns, 0, f)
    BY DEF SumUpTo
  <2>. QED BY <2>1
<1>3. m - 1 \in Nat /\ m - 1 \notin T
  BY <1>1, <1>2
<1>4. PICK g : SumUpTo(ns, m - 1, g)
  BY <1>3
<1>. DEFINE f == [k \in 0..m |-> IF k = m THEN g[m - 1] + ns[m] ELSE g[k]]
<1>5. \A k \in 0..(m - 1) : g[k] = IF k = 0 THEN 0 ELSE g[k - 1] + ns[k]
  BY <1>4, <1>3 DEF SumUpTo
<1>6. ASSUME NEW k \in 0..m
      PROVE  f[k] = IF k = 0 THEN 0 ELSE f[k - 1] + ns[k]
  <2>1. CASE k = m
    BY <2>1, <1>2, <1>3
  <2>2. CASE k # m
    BY <2>2, <1>5, <1>3
  <2>. QED BY <2>1, <2>2
<1>7. SumUpTo(ns, m, f)
  <2>. HIDE DEF f
  <2>1. f = [k \in 0..m |-> f[k]]
    BY DEF f
  <2>. QED BY <2>1, <1>6 DEF SumUpTo
<1>. QED BY <1>7, <1>1

\* Partial sums are numbers.
LEMMA SumType ==
  ASSUME NEW ns \in Seq(Nat), NEW n \in 0..Len(ns), NEW f, SumUpTo(ns, n, f)
  PROVE  \A k \in 0..n : f[k] \in Nat
<1>. DEFINE T == {k \in 0..n : f[k] \notin Nat}
<1>. SUFFICES ASSUME T # {} PROVE FALSE
  OBVIOUS
<1>1. PICK k \in T : \A j \in T : k <= j
  <2>1. T \subseteq Nat
    OBVIOUS
  <2>. HIDE DEF T
  <2>. QED BY <2>1, LeastNumber
<1>2. \A j \in 0..n : f[j] = IF j = 0 THEN 0 ELSE f[j - 1] + ns[j]
  BY DEF SumUpTo
<1>3. k # 0
  BY <1>1, <1>2
<1>4. k - 1 \in 0..n /\ f[k - 1] \in Nat /\ ns[k] \in Nat
  BY <1>1, <1>3
<1>. QED BY <1>1, <1>2, <1>3, <1>4

LEMMA TotalIsSum ==
  ASSUME NEW ns \in Seq(Nat)
  PROVE  \E f : SumUpTo(ns, Len(ns), f) /\ Total(ns) = f[Len(ns)]
<1>1. Total(ns) = (CHOOSE f : SumUpTo(ns, Len(ns), f))[Len(ns)]
  BY DEF Total, SumUpTo
<1>2. PICK f : SumUpTo(ns, Len(ns), f)
  <2>1. Len(ns) \in Nat
    OBVIOUS
  <2>. QED BY <2>1, SumExists
<1>3. SumUpTo(ns, Len(ns), CHOOSE h : SumUpTo(ns, Len(ns), h))
  BY <1>2, Zenon
<1>. QED BY <1>1, <1>3

LEMMA TotalType ==
  ASSUME NEW ns \in Seq(Nat) PROVE Total(ns) \in Nat
<1>1. PICK f : SumUpTo(ns, Len(ns), f) /\ Total(ns) = f[Len(ns)]
  BY TotalIsSum
<1>2. Len(ns) \in 0..Len(ns)
  OBVIOUS
<1>. QED BY <1>1, <1>2, SumType

\* The sum of a sequence is that of its first numbers and of the others.
LEMMA TotalSplit ==
  ASSUME NEW ns \in Seq(Nat), NEW n \in 0..Len(ns)
  PROVE  Total(ns) = Total(SubSeq(ns, 1, n)) + Total(SubSeq(ns, n + 1, Len(ns)))
<1>. DEFINE a == SubSeq(ns, 1, n)
            b == SubSeq(ns, n + 1, Len(ns))
            m == Len(ns) - n
<1>1. /\ a \in Seq(Nat) /\ Len(a) = n /\ \A k \in 1..n : a[k] = ns[k]
      /\ b \in Seq(Nat) /\ Len(b) = m /\ \A k \in 1..m : b[k] = ns[n + k]
  OBVIOUS
<1>2. n \in Nat /\ m \in Nat /\ Len(ns) = n + m /\ Len(ns) \in Nat
  OBVIOUS
<1>. HIDE DEF a, b, m
<1>3. PICK f : SumUpTo(ns, Len(ns), f) /\ Total(ns) = f[Len(ns)]
  BY TotalIsSum
<1>4. PICK g : SumUpTo(a, n, g) /\ Total(a) = g[n]
  BY <1>1, TotalIsSum
<1>5. PICK h : SumUpTo(b, m, h) /\ Total(b) = h[m]
  BY <1>1, TotalIsSum
<1>6. \A k \in 0..Len(ns) : f[k] = IF k = 0 THEN 0 ELSE f[k - 1] + ns[k]
  BY <1>3 DEF SumUpTo
<1>7. \A k \in 0..n : g[k] = IF k = 0 THEN 0 ELSE g[k - 1] + a[k]
  BY <1>4 DEF SumUpTo
<1>8. \A k \in 0..m : h[k] = IF k = 0 THEN 0 ELSE h[k - 1] + b[k]
  BY <1>5 DEF SumUpTo
<1>9. \A k \in 0..n : f[k] = g[k]
  <2>. DEFINE T == {k \in 0..n : f[k] # g[k]}
  <2>. SUFFICES ASSUME T # {} PROVE FALSE
    OBVIOUS
  <2>1. PICK k \in T : \A j \in T : k <= j
    <3>1. T \subseteq Nat
      OBVIOUS
    <3>. HIDE DEF T
    <3>. QED BY <3>1, LeastNumber
  <2>2. k # 0
    BY <2>1, <1>2, <1>6, <1>7
  <2>3. k - 1 \in 0..n /\ f[k - 1] = g[k - 1] /\ ns[k] = a[k]
    BY <1>1, <1>2, <2>1, <2>2
  <2>4. f[k] = f[k - 1] + ns[k] /\ g[k] = g[k - 1] + a[k]
    BY <1>2, <1>6, <1>7, <2>1, <2>2
  <2>. QED BY <2>1, <2>3, <2>4
<1>10. /\ \A k \in 0..Len(ns) : f[k] \in Nat
       /\ \A k \in 0..m : h[k] \in Nat
  <2>1. Len(ns) \in 0..Len(ns) /\ m \in 0..Len(b)
    BY <1>1, <1>2
  <2>2. \A k \in 0..Len(ns) : f[k] \in Nat
    BY <1>3, <2>1, SumType
  <2>3. \A k \in 0..m : h[k] \in Nat
    BY <1>1, <1>5, <2>1, SumType
  <2>. QED BY <2>2, <2>3
<1>11. \A k \in 0..m : f[n + k] = g[n] + h[k]
  <2>. DEFINE T == {k \in 0..m : f[n + k] # g[n] + h[k]}
  <2>. SUFFICES ASSUME T # {} PROVE FALSE
    OBVIOUS
  <2>1. PICK k \in T : \A j \in T : k <= j
    <3>1. T \subseteq Nat
      BY <1>2
    <3>. HIDE DEF T
    <3>. QED BY <3>1, LeastNumber
  <2>2. k \in Nat /\ k <= m /\ n + k \in 0..Len(ns) /\ n \in 0..n /\ n \in 0..Len(ns)
    BY <1>2, <2>1
  <2>3. f[n] = g[n] /\ f[n] \in Nat
    BY <1>9, <1>10, <2>2
  <2>4. k # 0
    <3>1. h[0] = 0
      BY <1>2, <1>8
    <3>2. f[n + 0] # g[n] + h[0] => FALSE
      BY <3>1, <2>3, <1>2
    <3>. QED BY <2>1, <3>2
  <2>5. k - 1 \in 0..m /\ f[n + (k - 1)] = g[n] + h[k - 1] /\ b[k] = ns[n + k]
    BY <1>1, <2>1, <2>2, <2>4
  <2>6. /\ f[n + k] = f[(n + k) - 1] + ns[n + k] /\ h[k] = h[k - 1] + b[k]
        /\ (n + k) - 1 = n + (k - 1)
    BY <1>2, <1>6, <1>8, <2>2, <2>4
  <2>7. b[k] \in Nat /\ h[k - 1] \in Nat
    <3>1. k \in 1..Len(b)
      BY <1>1, <1>2, <2>2, <2>4
    <3>2. b[k] \in Nat
      BY <1>1, <3>1, ElementOfSeq
    <3>. QED BY <1>10, <2>5, <3>2
  <2>8. PICK x \in Nat, y \in Nat, z \in Nat : x = g[n] /\ y = h[k - 1] /\ z = b[k]
    BY <2>3, <2>7
  <2>9. f[n + k] = x + y + z /\ h[k] = y + z
    BY <2>5, <2>6, <2>8
  <2>10. f[n + k] = x + h[k]
    BY <2>9
  <2>11. f[n + k] = g[n] + h[k]
    BY <2>8, <2>10
  <2>. QED BY <2>1, <2>11
<1>12. f[n + m] = g[n] + h[m]
  <2>1. m \in 0..m
    BY <1>2
  <2>. QED BY <1>11, <2>1
<1>. QED BY <1>2, <1>3, <1>4, <1>5, <1>12 DEF a, b

LEMMA TotalEmpty == Total(<<>>) = 0
<1>1. <<>> \in Seq(Nat) /\ Len(<<>>) = 0
  OBVIOUS
<1>2. PICK f : SumUpTo(<<>>, 0, f) /\ Total(<<>>) = f[0]
  BY <1>1, TotalIsSum
<1>. QED BY <1>2 DEF SumUpTo

LEMMA TotalOne ==
  ASSUME NEW x \in Nat
  PROVE  Total(<<x>>) = x
<1>1. <<x>> \in Seq(Nat) /\ Len(<<x>>) = 1 /\ <<x>>[1] = x
  OBVIOUS
<1>2. PICK f : SumUpTo(<<x>>, 1, f) /\ Total(<<x>>) = f[1]
  BY <1>1, TotalIsSum
<1>3. \A k \in 0..1 : f[k] = IF k = 0 THEN 0 ELSE f[k - 1] + <<x>>[k]
  BY <1>2 DEF SumUpTo
<1>4. f[1] = f[0] + <<x>>[1] /\ f[0] = 0
  BY <1>3
<1>. QED BY <1>1, <1>2, <1>4

LEMMA TotalAppend ==
  ASSUME NEW ns \in Seq(Nat), NEW x \in Nat
  PROVE  Total(Append(ns, x)) = Total(ns) + x
<1>. DEFINE more == Append(ns, x)
<1>1. more \in Seq(Nat) /\ Len(more) = Len(ns) + 1 /\ Len(ns) \in 0..Len(more)
  OBVIOUS
<1>2. SubSeq(more, 1, Len(ns)) = ns
  OBVIOUS
<1>3. SubSeq(more, Len(ns) + 1, Len(more)) = <<x>>
  <2>. DEFINE last == SubSeq(more, Len(ns) + 1, Len(more))
              one == <<x>>
  <2>1. last \in Seq(Nat) /\ Len(last) = 1 /\ last[1] = x
    OBVIOUS
  <2>2. one \in Seq(Nat) /\ Len(one) = 1 /\ one[1] = x
    OBVIOUS
  <2>. HIDE DEF last, one
  <2>3. Len(last) = Len(one) /\ \A i \in 1..Len(last) : last[i] = one[i]
    BY <2>1, <2>2
  <2>4. last = one
    BY <2>1, <2>2, <2>3, SeqEqual
  <2>. QED BY <2>4 DEF last, one
<1>4. Total(more) = Total(ns) + Total(<<x>>)
  <2>. HIDE DEF more
  <2>. QED BY <1>1, <1>2, <1>3, TotalSplit
<1>. QED BY <1>4, TotalOne

-----------------------------------------------------------------------------
(* FlattenSeq, in the same way.                                            *)

\* `f` holds the first 1, ..., `n` sequences in one.
JoinUpTo(seqs, n, f) ==
  f = [i \in 1..n |-> IF i = 1 THEN seqs[i] ELSE f[i - 1] \o seqs[i]]

LEMMA JoinExists ==
  ASSUME NEW seqs, NEW n \in Nat
  PROVE  \E f : JoinUpTo(seqs, n, f)
<1>. DEFINE T == {k \in Nat : ~ \E f : JoinUpTo(seqs, k, f)}
<1>. SUFFICES ASSUME T # {} PROVE FALSE
  OBVIOUS
<1>1. PICK m \in T : \A k \in T : m <= k
  BY LeastNumber
<1>2. m # 0
  <2>. DEFINE f == [k \in 1..0 |-> seqs[k]]
  <2>1. JoinUpTo(seqs, 0, f)
    BY DEF JoinUpTo
  <2>. QED BY <2>1
<1>3. m - 1 \in Nat /\ m - 1 \notin T
  BY <1>1, <1>2
<1>4. PICK g : JoinUpTo(seqs, m - 1, g)
  BY <1>3
<1>. DEFINE new == IF m = 1 THEN seqs[m] ELSE g[m - 1] \o seqs[m]
            f == [k \in 1..m |-> IF k = m THEN new ELSE g[k]]
<1>5. \A k \in 1..(m - 1) : g[k] = IF k = 1 THEN seqs[k] ELSE g[k - 1] \o seqs[k]
  BY <1>4, <1>3 DEF JoinUpTo
<1>6. ASSUME NEW k \in 1..m
      PROVE  f[k] = IF k = 1 THEN seqs[k] ELSE f[k - 1] \o seqs[k]
  <2>1. CASE k = m
    BY <2>1, <1>2, <1>3
  <2>2. CASE k # m
    <3>1. k \in 1..(m - 1) /\ f[k] = g[k]
      BY <2>2, <1>3
    <3>2. k = 1 \/ (k - 1 \in 1..m /\ k - 1 # m /\ f[k - 1] = g[k - 1])
      BY <3>1, <1>3
    <3>. QED BY <3>1, <3>2, <1>5
  <2>. QED BY <2>1, <2>2
<1>7. JoinUpTo(seqs, m, f)
  <2>. HIDE DEF f
  <2>1. f = [k \in 1..m |-> f[k]]
    BY DEF f
  <2>. QED BY <2>1, <1>6 DEF JoinUpTo
<1>. QED BY <1>7, <1>1

LEMMA FlattenIsJoin ==
  ASSUME NEW S, NEW seqs \in Seq(Seq(S)), seqs # <<>>
  PROVE  \E f : JoinUpTo(seqs, Len(seqs), f) /\ FlattenSeq(seqs) = f[Len(seqs)]
<1>1. Len(seqs) \in Nat /\ Len(seqs) # 0
  OBVIOUS
<1>2. FlattenSeq(seqs) = (CHOOSE f : JoinUpTo(seqs, Len(seqs), f))[Len(seqs)]
  BY <1>1 DEF FlattenSeq, JoinUpTo
<1>3. PICK f : JoinUpTo(seqs, Len(seqs), f)
  BY <1>1, JoinExists
<1>4. JoinUpTo(seqs, Len(seqs), CHOOSE h : JoinUpTo(seqs, Len(seqs), h))
  BY <1>3, Zenon
<1>. QED BY <1>2, <1>4

LEMMA FlattenEmpty == FlattenSeq(<<>>) = <<>>
<1>1. Len(<<>>) = 0
  OBVIOUS
<1>. QED BY <1>1 DEF FlattenSeq

LEMMA FlattenType ==
  ASSUME NEW S, NEW seqs \in Seq(Seq(S))
  PROVE  FlattenSeq(seqs) \in Seq(S)
<1>1. CASE seqs = <<>>
  <2>1. <<>> \in Seq(S)
    OBVIOUS
  <2>. QED BY <1>1, <2>1, FlattenEmpty
<1>2. CASE seqs # <<>>
  <2>. DEFINE n == Len(seqs)
  <2>1. PICK f : JoinUpTo(seqs, n, f) /\ FlattenSeq(seqs) = f[n]
    BY <1>2, FlattenIsJoin
  <2>2. n \in Nat \ {0} /\ \A k \in 1..n : seqs[k] \in Seq(S)
    BY <1>2
  <2>. HIDE DEF n
  <2>3. \A k \in 1..n : f[k] = IF k = 1 THEN seqs[k] ELSE f[k - 1] \o seqs[k]
    BY <2>1 DEF JoinUpTo
  <2>4. \A k \in 1..n : f[k] \in Seq(S)
    <3>. DEFINE T == {k \in 1..n : f[k] \notin Seq(S)}
    <3>. SUFFICES ASSUME T # {} PROVE FALSE
      OBVIOUS
    <3>1. PICK k \in T : \A j \in T : k <= j
      <4>1. T \subseteq Nat
        OBVIOUS
      <4>. HIDE DEF T
      <4>. QED BY <4>1, LeastNumber
    <3>2. k # 1
      BY <3>1, <2>2, <2>3
    <3>3. k - 1 \in 1..n /\ f[k - 1] \in Seq(S) /\ seqs[k] \in Seq(S)
      BY <3>1, <3>2, <2>2
    <3>4. f[k] = f[k - 1] \o seqs[k]
      BY <3>1, <3>2, <2>3
    <3>5. f[k] \in Seq(S)
      BY <3>3, <3>4, ConcatProperties
    <3>. QED BY <3>1, <3>5
  <2>5. n \in 1..n
    BY <2>2
  <2>. QED BY <2>1, <2>4, <2>5
<1>. QED BY <1>1, <1>2

\* One more sequence comes behind the others.
LEMMA FlattenAppend ==
  ASSUME NEW S, NEW seqs \in Seq(Seq(S)), NEW s \in Seq(S)
  PROVE  FlattenSeq(Append(seqs, s)) = FlattenSeq(seqs) \o s
<1>. DEFINE n == Len(seqs)
            more == Append(seqs, s)
<1>1. /\ n \in Nat /\ more \in Seq(Seq(S)) /\ Len(more) = n + 1 /\ more[n + 1] = s
      /\ \A k \in 1..n : more[k] = seqs[k]
      /\ more # <<>>
  BY AppendProperties
<1>. HIDE DEF more
<1>2. PICK g : JoinUpTo(more, n + 1, g) /\ FlattenSeq(more) = g[n + 1]
  BY <1>1, FlattenIsJoin
<1>3. \A k \in 1..(n + 1) : g[k] = IF k = 1 THEN more[k] ELSE g[k - 1] \o more[k]
  BY <1>2 DEF JoinUpTo
<1>4. CASE seqs = <<>>
  <2>1. n = 0
    BY <1>4
  <2>2. g[1] = s
    BY <2>1, <1>1, <1>3
  <2>3. FlattenSeq(seqs) \o s = s
    BY <1>4, FlattenEmpty, ConcatEmptySeq
  <2>. QED BY <2>1, <2>2, <2>3, <1>2 DEF more
<1>5. CASE seqs # <<>>
  <2>1. PICK f : JoinUpTo(seqs, n, f) /\ FlattenSeq(seqs) = f[n]
    BY <1>5, FlattenIsJoin
  <2>2. \A k \in 1..n : f[k] = IF k = 1 THEN seqs[k] ELSE f[k - 1] \o seqs[k]
    BY <2>1 DEF JoinUpTo
  <2>3. n # 0
    BY <1>5, <1>1
  <2>. HIDE DEF n
  <2>4. \A k \in 1..n : f[k] = g[k]
    <3>. DEFINE T == {k \in 1..n : f[k] # g[k]}
    <3>. SUFFICES ASSUME T # {} PROVE FALSE
      OBVIOUS
    <3>1. PICK k \in T : \A j \in T : k <= j
      <4>1. T \subseteq Nat
        OBVIOUS
      <4>. HIDE DEF T
      <4>. QED BY <4>1, LeastNumber
    <3>2. k \in 1..n /\ k \in 1..(n + 1) /\ more[k] = seqs[k]
      BY <3>1, <1>1
    <3>3. k # 1
      BY <3>1, <3>2, <1>3, <2>2
    <3>4. k - 1 \in 1..n /\ f[k - 1] = g[k - 1]
      BY <3>1, <3>3, <1>1
    <3>5. f[k] = f[k - 1] \o seqs[k] /\ g[k] = g[k - 1] \o more[k]
      BY <3>2, <3>3, <1>3, <2>2
    <3>. QED BY <3>1, <3>2, <3>4, <3>5
  <2>5. n \in 1..n /\ n + 1 \in 1..(n + 1) /\ n + 1 # 1 /\ (n + 1) - 1 = n
    BY <1>1, <2>3
  <2>6. g[n + 1] = g[n] \o more[n + 1] /\ g[n] = f[n]
    BY <1>3, <2>4, <2>5
  <2>. QED BY <2>1, <2>6, <1>1, <1>2 DEF more
<1>. QED BY <1>4, <1>5

-----------------------------------------------------------------------------
(* The types.                                                              *)

LEMMA TypesImplyTypeOK == TypeInv => TypeOK
BY DEF TypeInv, PipeTypes, FlagTypes, TaskTypes, SessionTypes, TypeOK

\* The job does not change, nor what is said of it.
LEMMA JobStays ==
  ASSUME [Next]_vars
  PROVE  job' = job /\ Pipes' = Pipes /\ Bytes' = Bytes /\ Lines' = Lines
<1>1. job' = job
  BY DEF Next, WritingTask, Receive, Push, Flush, Admit, WaitForOldest, CloseChannel, Join, Finish,
         Linger, Readers, Read, ReadEnd, Send, ChildExits, CtrlC, MakeDurable, WriterFails,
         Finished, vars
<1>. QED BY <1>1 DEF Pipes, Bytes, Lines

LEMMA JobFacts ==
  ASSUME TypeInv
  PROVE  /\ \A p \in Pipes : Len(job.text[p]) \in Nat /\ DOMAIN job.text[p] = 1..Len(job.text[p])
         /\ \A b \in Bytes : b[1] \in Pipes /\ b[2] \in Nat \ {0} /\ b = <<b[1], b[2]>>
         /\ MaxPayload \in Nat \ {0} /\ MaxChunk \in Nat \ {0} /\ ChannelCap \in Nat \ {0}
<1>1. \A p \in Pipes : job.text[p] \in Seq({"x", "\n"})
  BY CliAssumption DEF TypeInv, PipeTypes, Pipes
<1>2. MaxPayload \in Nat \ {0} /\ MaxChunk \in Nat \ {0} /\ ChannelCap \in Nat \ {0}
  BY CliAssumption
<1>3. ASSUME NEW b \in Bytes PROVE b[1] \in Pipes /\ b[2] \in Nat \ {0} /\ b = <<b[1], b[2]>>
  BY DEF Bytes
<1>. QED BY <1>1, <1>2, <1>3

\* The steps, by what they move.
PipeStep == Readers \/ ChildExits \/ CtrlC
TakeStep == Receive \/ Linger \/ Push \/ Flush
SessionStep == Admit \/ Finish \/ MakeDurable
ControlStep == WaitForOldest \/ CloseChannel \/ Join \/ WriterFails \/ UNCHANGED vars

LEMMA StepCases ==
  [Next]_vars => PipeStep \/ TakeStep \/ SessionStep \/ ControlStep
BY DEF Next, WritingTask, Finished, PipeStep, TakeStep, SessionStep, ControlStep

LEMMA PipeTypesStep == TypeInv /\ [Next]_vars => PipeTypes'
<1>. SUFFICES ASSUME TypeInv, [Next]_vars PROVE PipeTypes'
  OBVIOUS
<1>1. job' = job /\ Pipes' = Pipes /\ Bytes' = Bytes
  BY JobStays
<1>2. /\ read \in [Pipes -> Nat] /\ hand \in [Pipes -> Seq(Bytes)]
      /\ reader \in [Pipes -> {"running", "ended", "failed"}]
      /\ \A p \in Pipes : read[p] <= Len(job.text[p]) /\ Len(hand[p]) <= MaxChunk
      /\ chan \in Seq(Seq(Bytes)) /\ Len(chan) <= ChannelCap /\ job \in Inputs
  BY DEF TypeInv, PipeTypes
<1>3. MaxChunk \in Nat /\ ChannelCap \in Nat /\ \A p \in Pipes : Len(job.text[p]) \in Nat
  BY JobFacts
<1>4. CASE UNCHANGED <<readerVars, chan>>
  BY <1>1, <1>2, <1>4 DEF PipeTypes, readerVars
<1>5. ASSUME NEW p \in Pipes, Read(p) PROVE PipeTypes'
  <2>1. PICK n \in 1..MaxChunk :
          /\ read[p] + n <= Len(job.text[p])
          /\ hand' = [hand EXCEPT ![p] = [i \in 1..n |-> <<p, read[p] + i>>]]
          /\ read' = [read EXCEPT ![p] = @ + n]
    BY <1>5 DEF Read
  <2>. DEFINE c == [i \in 1..n |-> <<p, read[p] + i>>]
  <2>2. c \in Seq(Bytes) /\ Len(c) = n
    <3>1. n \in Nat /\ read[p] \in Nat
      BY <1>2, <1>3, <2>1
    <3>2. \A i \in 1..n : <<p, read[p] + i>> \in Bytes
      BY <3>1 DEF Bytes
    <3>. QED BY <3>1, <3>2
  <2>3. hand' = [hand EXCEPT ![p] = c]
    BY <2>1
  <2>. HIDE DEF c
  <2>4. hand' \in [Pipes -> Seq(Bytes)] /\ \A q \in Pipes : Len(hand'[q]) <= MaxChunk
    <3>1. n <= MaxChunk
      BY <1>3
    <3>. QED BY <1>2, <2>2, <2>3, <3>1
  <2>5. read' \in [Pipes -> Nat] /\ \A q \in Pipes : read'[q] <= Len(job.text[q])
    BY <1>2, <1>3, <2>1
  <2>6. reader' = reader /\ chan' = chan
    BY <1>5 DEF Read
  <2>. QED BY <1>1, <1>2, <2>4, <2>5, <2>6 DEF PipeTypes
<1>6. ASSUME NEW p \in Pipes, ReadEnd(p) PROVE PipeTypes'
  <2>1. reader' \in [Pipes -> {"running", "ended", "failed"}]
    BY <1>2, <1>6 DEF ReadEnd
  <2>2. UNCHANGED <<read, hand, chan>>
    BY <1>6 DEF ReadEnd
  <2>. QED BY <1>1, <1>2, <2>1, <2>2 DEF PipeTypes
<1>7. ASSUME NEW p \in Pipes, Send(p) PROVE PipeTypes'
  <2>1. CASE closed
    <3>1. reader' \in [Pipes -> {"running", "ended", "failed"}]
      BY <1>2, <1>7, <2>1 DEF Send
    <3>2. UNCHANGED <<read, hand, chan>>
      BY <1>7, <2>1 DEF Send
    <3>. QED BY <1>1, <1>2, <3>1, <3>2 DEF PipeTypes
  <2>2. CASE ~closed
    <3>1. /\ Len(chan) < ChannelCap /\ chan' = Append(chan, hand[p])
          /\ hand' = [hand EXCEPT ![p] = <<>>] /\ reader' = reader /\ read' = read
      BY <1>7, <2>2 DEF Send
    <3>2. chan' \in Seq(Seq(Bytes)) /\ Len(chan') <= ChannelCap
      BY <1>2, <1>3, <3>1
    <3>3. hand' \in [Pipes -> Seq(Bytes)] /\ \A q \in Pipes : Len(hand'[q]) <= MaxChunk
      BY <1>2, <1>3, <3>1
    <3>. QED BY <1>1, <1>2, <3>1, <3>2, <3>3 DEF PipeTypes
  <2>. QED BY <2>1, <2>2
<1>8. CASE CtrlC
  <2>1. CASE InterruptStdin
    <3>1. /\ reader' = [p \in Pipes |-> "ended"] /\ hand' = [p \in Pipes |-> <<>>]
          /\ UNCHANGED <<read, chan>>
      BY <1>8, <2>1 DEF CtrlC, InterruptStdin
    <3>2. hand' \in [Pipes -> Seq(Bytes)] /\ \A q \in Pipes : Len(hand'[q]) <= MaxChunk
      BY <1>3, <3>1
    <3>3. reader' \in [Pipes -> {"running", "ended", "failed"}]
      BY <3>1
    <3>. QED BY <1>1, <1>2, <3>1, <3>2, <3>3 DEF PipeTypes
  <2>2. CASE ~InterruptStdin
    BY <1>4, <1>8, <2>2 DEF CtrlC, InterruptCommand, InterruptFinish, InterruptLost, readerVars
  <2>. QED BY <2>1, <2>2
<1>9. CASE Receive
  <2>1. chan' = chan \/ (chan # <<>> /\ chan' = Tail(chan))
    BY <1>9 DEF Receive
  <2>2. chan' \in Seq(Seq(Bytes)) /\ Len(chan') <= ChannelCap
    <3>. DEFINE S == Seq(Bytes)
    <3>1. chan \in Seq(S) /\ Len(chan) \in Nat /\ Len(chan) <= ChannelCap
      BY <1>2
    <3>. HIDE DEF S
    <3>2. chan # <<>> => Tail(chan) \in Seq(S) /\ Len(Tail(chan)) = Len(chan) - 1
      BY <3>1, HeadTailProperties
    <3>3. chan' \in Seq(S) /\ Len(chan') <= ChannelCap
      BY <1>3, <2>1, <3>1, <3>2
    <3>. QED BY <3>3 DEF S
  <2>3. UNCHANGED readerVars
    BY <1>9 DEF Receive
  <2>. QED BY <1>1, <1>2, <2>2, <2>3 DEF PipeTypes, readerVars
<1>10. CASE ChildExits \/ Linger \/ Push \/ Flush \/ SessionStep \/ ControlStep
  BY <1>4, <1>10 DEF ChildExits, Linger, Push, Flush, SessionStep, Admit, Finish, MakeDurable,
     ControlStep, WaitForOldest, CloseChannel, Join, WriterFails, vars
<1>. QED BY <1>5, <1>6, <1>7, <1>8, <1>9, <1>10, StepCases DEF PipeStep, Readers, TakeStep

LEMMA FlagTypesStep == TypeInv /\ [Next]_vars => FlagTypes'
<1>. SUFFICES ASSUME TypeInv, [Next]_vars PROVE FlagTypes'
  OBVIOUS
<1>1. FlagTypes /\ MaxInterrupts \in Nat
  BY CliAssumption DEF TypeInv
<1>2. CASE CtrlC
  <2>1. pressed' \in 0..MaxInterrupts
    BY <1>1, <1>2 DEF CtrlC, FlagTypes
  <2>. QED BY <1>1, <1>2, <2>1 DEF CtrlC, InterruptStdin, InterruptCommand, InterruptFinish,
       InterruptLost, FlagTypes, writerVars
<1>3. CASE ~CtrlC
  <2>1. \/ UNCHANGED <<closed, child, interruptVars, broken>>
        \/ closed' = TRUE /\ UNCHANGED <<child, interruptVars, broken>>
        \/ child' = "exited" /\ UNCHANGED <<closed, interruptVars, broken>>
        \/ broken' = TRUE /\ UNCHANGED <<closed, child, interruptVars>>
    <3>1. TakeStep \/ Admit \/ Finish => UNCHANGED <<closed, child, interruptVars, broken>>
      BY DEF TakeStep, Receive, Linger, Push, Flush, Admit, Finish, writerVars
    <3>2. Readers \/ MakeDurable => UNCHANGED <<closed, child, interruptVars, broken>>
      BY DEF Readers, Read, ReadEnd, Send, MakeDurable, writerVars
    <3>3. ChildExits => child' = "exited" /\ UNCHANGED <<closed, interruptVars, broken>>
      BY DEF ChildExits, writerVars
    <3>4. WaitForOldest \/ Join \/ UNCHANGED vars => UNCHANGED <<closed, child, interruptVars, broken>>
      BY DEF WaitForOldest, Join, vars, writerVars
    <3>5. CloseChannel => closed' = TRUE /\ UNCHANGED <<child, interruptVars, broken>>
      BY DEF CloseChannel, writerVars
    <3>6. WriterFails => broken' = TRUE /\ UNCHANGED <<closed, child, interruptVars>>
      BY DEF WriterFails
    <3>. QED BY <1>3, <3>1, <3>2, <3>3, <3>4, <3>5, <3>6, StepCases, Zenon
             DEF PipeStep, SessionStep, ControlStep
  <2>. QED BY <1>1, <2>1 DEF FlagTypes, interruptVars
<1>. QED BY <1>2, <1>3

\* What is taken off a sequence, and what stays.
LEMMA CutFacts ==
  ASSUME NEW S, NEW s \in Seq(S), NEW n \in 0..Len(s)
  PROVE  /\ SubSeq(s, 1, n) \in Seq(S) /\ SubSeq(s, n + 1, Len(s)) \in Seq(S)
         /\ Len(SubSeq(s, 1, n)) = n /\ Len(SubSeq(s, n + 1, Len(s))) = Len(s) - n
         /\ SubSeq(s, 1, n) \o SubSeq(s, n + 1, Len(s)) = s
<1>1. n \in Nat /\ Len(s) \in Nat /\ n <= Len(s)
  OBVIOUS
<1>2. 1 \in 1..(Len(s) + 1) /\ n \in 0..Len(s) /\ 1 - 1 = 0 /\ Len(s) \in n..Len(s)
  BY <1>1
<1>3. SubSeq(s, 1, n) \o SubSeq(s, n + 1, Len(s)) = SubSeq(s, 1, Len(s))
  BY <1>2, ConcatAdjacentSubSeq
<1>4. SubSeq(s, 1, Len(s)) = s
  BY SubSeqFull
<1>5. /\ SubSeq(s, 1, n) \in Seq(S) /\ SubSeq(s, n + 1, Len(s)) \in Seq(S)
      /\ Len(SubSeq(s, 1, n)) = n /\ Len(SubSeq(s, n + 1, Len(s))) = Len(s) - n
  OBVIOUS
<1>. QED BY <1>3, <1>4, <1>5

\* One turn of the byte appender: the record is full, or the chunk is used up.
LEMMA BytesTaken ==
  ASSUME TypeInv, PushBytes, rest # <<>>, Len(buf) < MaxPayload
  PROVE  \E n \in 1..Len(rest) : LET filled == buf \o SubSeq(rest, 1, n) IN
           /\ filled \in Seq(Bytes) /\ filled # <<>> /\ Len(filled) <= MaxPayload
           /\ rest' = After(n)
           /\ \/ /\ AppendRecord(filled, "push")
              \/ /\ buf' = filled /\ deadline' = TRUE /\ Len(filled) < MaxPayload
                 /\ UNCHANGED <<batch, back, pc>>
<1>. DEFINE space == MaxPayload - Len(buf)
            n == IF space < Len(rest) THEN space ELSE Len(rest)
            filled == buf \o SubSeq(rest, 1, n)
<1>1. rest \in Seq(Bytes) /\ buf \in Seq(Bytes) /\ MaxPayload \in Nat
  BY JobFacts DEF TypeInv, TaskTypes
<1>2. Len(rest) \in Nat \ {0} /\ Len(buf) \in Nat
  BY <1>1
<1>3. n \in 1..Len(rest) /\ n <= space
  BY <1>1, <1>2
<1>4. /\ rest' = After(n)
      /\ IF Len(filled) = MaxPayload
           THEN AppendRecord(filled, "push")
           ELSE buf' = filled /\ deadline' = TRUE /\ UNCHANGED <<batch, back, pc>>
  BY DEF PushBytes
<1>. HIDE DEF n
<1>5. SubSeq(rest, 1, n) \in Seq(Bytes) /\ Len(SubSeq(rest, 1, n)) = n
  BY <1>1, <1>3, CutFacts
<1>6. filled \in Seq(Bytes) /\ Len(filled) = Len(buf) + n
  BY <1>1, <1>5, ConcatProperties
<1>. HIDE DEF filled
<1>7. Len(filled) <= MaxPayload /\ filled # <<>>
  BY <1>1, <1>2, <1>3, <1>6
<1>8. Len(filled) # MaxPayload => Len(filled) < MaxPayload
  BY <1>1, <1>2, <1>3, <1>6, <1>7
<1>. QED BY <1>3, <1>4, <1>6, <1>7, <1>8 DEF filled

\* One turn of the line appender: a line ends, or the chunk is used up.
LEMMA LineTaken ==
  ASSUME TypeInv, PushLine
  PROVE  \/ /\ NoNewline(rest) /\ buf' = buf \o rest /\ rest' = <<>>
            /\ UNCHANGED <<deadline, batch, back, pc>>
         \/ \E n \in 1..Len(rest) :
              /\ IsNewline(rest[n]) /\ \A i \in 1..(n - 1) : ~IsNewline(rest[i])
              /\ AppendRecord(buf \o SubSeq(rest, 1, n - 1), "push")
              /\ rest' = After(n)
<1>. DEFINE ends == {i \in 1..Len(rest) : IsNewline(rest[i])}
            first == CHOOSE i \in ends : \A j \in ends : i <= j
<1>1. rest \in Seq(Bytes) /\ Len(rest) \in Nat /\ DOMAIN rest = 1..Len(rest)
  BY DEF TypeInv, TaskTypes
<1>2. IF ends = {}
        THEN buf' = buf \o rest /\ rest' = <<>> /\ UNCHANGED <<deadline, batch, back, pc>>
        ELSE AppendRecord(buf \o SubSeq(rest, 1, first - 1), "push") /\ rest' = After(first)
  BY DEF PushLine
<1>3. CASE ends = {}
  BY <1>1, <1>2, <1>3 DEF NoNewline
<1>4. CASE ends # {}
  <2>1. ends \subseteq Nat
    OBVIOUS
  <2>2. \E i \in ends : \A j \in ends : i <= j
    <3>. HIDE DEF ends
    <3>. QED BY <1>4, <2>1, LeastNumber
  <2>3. first \in ends /\ \A j \in ends : first <= j
    <3>. HIDE DEF ends
    <3>. QED BY <2>2
  <2>4. PICK n : n = first
    OBVIOUS
  <2>. HIDE DEF first
  <2>5. n \in 1..Len(rest) /\ IsNewline(rest[n]) /\ \A i \in 1..(n - 1) : ~IsNewline(rest[i])
    BY <1>1, <2>3, <2>4
  <2>. QED BY <1>2, <1>4, <2>4, <2>5
<1>. QED BY <1>3, <1>4

-----------------------------------------------------------------------------
(* Records and texts.                                                      *)

LEMMA SymbolFacts ==
  ASSUME NEW s \in Seq(Bytes) PROVE s \in Seq(Symbols) /\ Newline \in Symbols
BY SeqMonotonic DEF Symbols

LEMMA NewlineIsNoByte == ~ (Newline \in Bytes)
BY DEF Bytes, Newline

LEMMA ErasedFacts ==
  ASSUME NEW s \in Seq(Bytes)
  PROVE  /\ Erased(s) \in Seq(Symbols) /\ Len(Erased(s)) = Len(s)
         /\ \A i \in 1..Len(s) : Erased(s)[i] = IF IsNewline(s[i]) THEN Newline ELSE s[i]
         /\ NoNewline(s) => Erased(s) = s
<1>. DEFINE e == Erased(s)
            n == Len(s)
<1>1. n \in Nat /\ DOMAIN s = 1..n /\ \A i \in 1..n : s[i] \in Bytes
  BY ElementOfSeq
<1>2. e = [i \in 1..n |-> IF IsNewline(s[i]) THEN Newline ELSE s[i]]
  BY <1>1 DEF Erased
<1>3. e \in [1..n -> Symbols]
  BY <1>1, <1>2 DEF Symbols
<1>. HIDE DEF e
<1>4. e \in Seq(Symbols) /\ Len(e) = n
  BY <1>1, <1>3
<1>5. NoNewline(s) => e = s
  <2>1. SUFFICES ASSUME NoNewline(s) PROVE e = s
    OBVIOUS
  <2>2. \A i \in 1..Len(e) : e[i] = s[i]
    BY <1>1, <1>2, <1>4, <2>1 DEF NoNewline
  <2>3. s \in Seq(Symbols)
    BY SymbolFacts
  <2>. QED BY <1>4, <2>2, <2>3, SeqEqual
<1>. QED BY <1>2, <1>4, <1>5 DEF e

LEMMA ErasedConcat ==
  ASSUME NEW s \in Seq(Bytes), NEW t \in Seq(Bytes)
  PROVE  Erased(s \o t) = Erased(s) \o Erased(t)
<1>. DEFINE st == s \o t
            l == Erased(st)
            r == Erased(s) \o Erased(t)
<1>1. /\ st \in Seq(Bytes) /\ Len(st) = Len(s) + Len(t)
      /\ \A i \in 1..(Len(s) + Len(t)) : st[i] = IF i <= Len(s) THEN s[i] ELSE t[i - Len(s)]
      /\ Len(s) \in Nat /\ Len(t) \in Nat
  BY ConcatProperties
<1>. HIDE DEF st
<1>2. /\ l \in Seq(Symbols) /\ Len(l) = Len(st)
      /\ \A i \in 1..Len(st) : l[i] = IF IsNewline(st[i]) THEN Newline ELSE st[i]
  BY <1>1, ErasedFacts
<1>3. /\ Erased(s) \in Seq(Symbols) /\ Len(Erased(s)) = Len(s)
      /\ \A i \in 1..Len(s) : Erased(s)[i] = IF IsNewline(s[i]) THEN Newline ELSE s[i]
      /\ Erased(t) \in Seq(Symbols) /\ Len(Erased(t)) = Len(t)
      /\ \A i \in 1..Len(t) : Erased(t)[i] = IF IsNewline(t[i]) THEN Newline ELSE t[i]
  BY ErasedFacts
<1>4. /\ r \in Seq(Symbols) /\ Len(r) = Len(s) + Len(t)
      /\ \A i \in 1..(Len(s) + Len(t)) :
           r[i] = IF i <= Len(s) THEN Erased(s)[i] ELSE Erased(t)[i - Len(s)]
  <2>1. PICK u \in Seq(Symbols), v \in Seq(Symbols) : u = Erased(s) /\ v = Erased(t)
    BY <1>3
  <2>2. Len(u) = Len(s) /\ Len(v) = Len(t)
    BY <1>3, <2>1
  <2>3. /\ u \o v \in Seq(Symbols) /\ Len(u \o v) = Len(u) + Len(v)
        /\ \A i \in 1..(Len(u) + Len(v)) :
             (u \o v)[i] = IF i <= Len(u) THEN u[i] ELSE v[i - Len(u)]
    BY ConcatProperties
  <2>. QED BY <2>1, <2>2, <2>3
<1>. HIDE DEF l, r
<1>5. ASSUME NEW i \in 1..Len(l) PROVE l[i] = r[i]
  <2>0. i \in 1..(Len(s) + Len(t)) /\ i \in 1..Len(st) /\ i \in Nat
    BY <1>1, <1>2
  <2>1. CASE i <= Len(s)
    <3>1. i \in 1..Len(s)
      BY <1>1, <2>0, <2>1
    <3>2. st[i] = s[i] /\ r[i] = Erased(s)[i]
      BY <1>1, <1>4, <2>0, <2>1
    <3>. QED BY <1>2, <1>3, <2>0, <3>1, <3>2
  <2>2. CASE ~(i <= Len(s))
    <3>1. i - Len(s) \in 1..Len(t)
      BY <1>1, <2>0, <2>2
    <3>2. st[i] = t[i - Len(s)] /\ r[i] = Erased(t)[i - Len(s)]
      BY <1>1, <1>4, <2>0, <2>2
    <3>. QED BY <1>2, <1>3, <2>0, <3>1, <3>2
  <2>. QED BY <2>1, <2>2
<1>6. l = r
  BY <1>1, <1>2, <1>4, <1>5, SeqEqual
<1>. QED BY <1>6 DEF l, r, st

\* The bytes up to the first newline, and the newline.
LEMMA ErasedLine ==
  ASSUME NEW s \in Seq(Bytes), NEW n \in 1..Len(s),
         IsNewline(s[n]), \A i \in 1..(n - 1) : ~IsNewline(s[i])
  PROVE  /\ SubSeq(s, 1, n - 1) \in Seq(Bytes) /\ SubSeq(s, n + 1, Len(s)) \in Seq(Bytes)
         /\ Erased(s) = SubSeq(s, 1, n - 1) \o <<Newline>> \o Erased(SubSeq(s, n + 1, Len(s)))
<1>. DEFINE a == SubSeq(s, 1, n - 1)
            b == SubSeq(s, n + 1, Len(s))
            one == <<s[n]>>
<1>1. n \in Nat \ {0} /\ Len(s) \in Nat /\ n - 1 \in Nat /\ s[n] \in Bytes
  BY ElementOfSeq
<1>2. SubSeq(s, 1, n) \in Seq(Bytes) /\ b \in Seq(Bytes) /\ s = SubSeq(s, 1, n) \o b
  <2>1. n \in 0..Len(s)
    BY <1>1
  <2>. QED BY <2>1, CutFacts
<1>3. SubSeq(s, 1, n) = a \o one
  <2>1. 1 \in 1..Len(s) /\ n \in 1..Len(s)
    BY <1>1
  <2>. QED BY <2>1, SubSeqRecursiveSecond
<1>4. a \in Seq(Bytes) /\ Len(a) = n - 1 /\ \A i \in 1..(n - 1) : a[i] = s[i]
  <2>1. n - 1 \in 0..Len(s)
    BY <1>1
  <2>2. a \in Seq(Bytes) /\ Len(a) = n - 1
    BY <2>1, CutFacts
  <2>3. \A i \in 1..(n - 1) : a[i] = s[i]
    BY <1>1
  <2>. QED BY <2>2, <2>3
<1>5. one \in Seq(Bytes) /\ Len(one) = 1 /\ one[1] = s[n]
  BY <1>1
<1>6. Erased(one) = <<Newline>>
  <2>. DEFINE e == Erased(one)
              nl == <<Newline>>
  <2>1. e \in Seq(Symbols) /\ Len(e) = 1 /\ e[1] = Newline
    <3>. HIDE DEF one
    <3>. QED BY <1>5, ErasedFacts
  <2>2. nl \in Seq(Symbols) /\ Len(nl) = 1 /\ nl[1] = Newline
    BY DEF Symbols
  <2>. HIDE DEF e, nl
  <2>3. Len(e) = Len(nl) /\ \A i \in 1..Len(e) : e[i] = nl[i]
    BY <2>1, <2>2
  <2>4. e = nl
    BY <2>1, <2>2, <2>3, SeqEqual
  <2>. QED BY <2>4 DEF e, nl
<1>7. NoNewline(a)
  BY <1>4 DEF NoNewline
<1>. HIDE DEF a, b, one
<1>8. Erased(a) = a
  BY <1>4, <1>7, ErasedFacts
<1>9. Erased(s) = Erased(a \o one) \o Erased(b)
  BY <1>2, <1>3, ErasedConcat
<1>10. Erased(a \o one) = a \o <<Newline>>
  BY <1>4, <1>5, <1>6, <1>8, ErasedConcat
<1>11. Erased(s) = a \o <<Newline>> \o Erased(b)
  BY <1>9, <1>10
<1>. QED BY <1>2, <1>4, <1>11 DEF a, b

\* One more line is its bytes and a newline.
LEMMA LineTextAppend ==
  ASSUME NEW batches \in Seq(Seq(Bytes)), NEW b \in Seq(Bytes)
  PROVE  /\ FlattenSeq(LineText(batches)) \in Seq(Symbols)
         /\ FlattenSeq(LineText(Append(batches, b)))
              = FlattenSeq(LineText(batches)) \o (b \o <<Newline>>)
<1>. DEFINE S == Seq(Bytes)
            L == Seq(Symbols)
            n == Len(batches)
            old == LineText(batches)
            line == Append(b, Newline)
            new == LineText(Append(batches, b))
<1>1. line \in L /\ line = b \o <<Newline>>
  BY SymbolFacts, AppendProperties, AppendIsConcat
<1>2. \A k \in 1..n : batches[k] \in S
  BY ElementOfSeq
<1>3. \A k \in 1..n : Append(batches[k], Newline) \in L
  BY <1>2, SymbolFacts, AppendProperties
<1>4. n \in Nat /\ DOMAIN batches = 1..n
  OBVIOUS
<1>5. old = [k \in 1..n |-> Append(batches[k], Newline)]
  BY <1>4 DEF LineText
<1>6. /\ Len(Append(batches, b)) = n + 1 /\ DOMAIN Append(batches, b) = 1..(n + 1)
      /\ Append(batches, b)[n + 1] = b /\ \A k \in 1..n : Append(batches, b)[k] = batches[k]
  OBVIOUS
<1>7. new = [k \in 1..(n + 1) |-> Append(Append(batches, b)[k], Newline)]
  BY <1>6 DEF LineText
<1>. HIDE DEF L, line
<1>8. old \in Seq(L) /\ Len(old) = n
  BY <1>3, <1>4, <1>5
<1>9. \A k \in 1..(n + 1) : new[k] = IF k = n + 1 THEN line ELSE old[k]
  BY <1>4, <1>5, <1>6, <1>7 DEF line
<1>. HIDE DEF old
<1>10. new \in Seq(L) /\ Len(new) = n + 1
  <2>1. new = [k \in 1..(n + 1) |-> new[k]]
    BY <1>7
  <2>. HIDE DEF new
  <2>2. \A k \in 1..n : old[k] \in L
    BY <1>8, ElementOfSeq
  <2>3. \A k \in 1..(n + 1) : new[k] \in L
    <3>1. \A k \in 1..(n + 1) : k = n + 1 \/ k \in 1..n
      BY <1>4
    <3>. QED BY ONLY <1>1, <1>9, <2>2, <3>1, Zenon
  <2>4. new \in [1..(n + 1) -> L]
    BY <2>1, <2>3
  <2>. QED BY <1>4, <2>4
<1>. HIDE DEF new
<1>11. Append(old, line) = new
  <2>. DEFINE more == Append(old, line)
  <2>1. more \in Seq(L) /\ Len(more) = n + 1 /\ more[n + 1] = line /\ \A k \in 1..n : more[k] = old[k]
    BY <1>1, <1>8, AppendProperties
  <2>. HIDE DEF more, n
  <2>2. \A k \in 1..Len(more) : more[k] = new[k]
    BY <1>4, <1>9, <2>1
  <2>3. Len(more) = Len(new)
    BY <1>10, <2>1
  <2>4. more = new
    BY <1>10, <2>1, <2>2, <2>3, SeqEqual
  <2>. QED BY <2>4 DEF more
<1>12. FlattenSeq(old) \in L
  BY <1>8, FlattenType DEF L
<1>13. FlattenSeq(new) = FlattenSeq(old) \o line
  BY <1>1, <1>8, <1>11, FlattenAppend DEF L
<1>. QED BY <1>1, <1>12, <1>13 DEF old, new, L

-----------------------------------------------------------------------------
(* The account of the window.                                              *)

Mapped(g, s) == [i \in DOMAIN s |-> g[s[i]]]

IsMapped(m, g, s) == m \in Seq(Nat) /\ Len(m) = Len(s) /\ \A i \in 1..Len(s) : m[i] = g[s[i]]

LEMMA MappedFacts ==
  ASSUME NEW S, NEW g, g \in [S -> Nat], NEW s, s \in Seq(S)
  PROVE  IsMapped(Mapped(g, s), g, s)
<1>1. Len(s) \in Nat /\ DOMAIN s = 1..Len(s) /\ \A i \in 1..Len(s) : s[i] \in S
  BY ElementOfSeq
<1>2. PICK n \in Nat : n = Len(s)
  BY <1>1
<1>3. Mapped(g, s) = [i \in 1..n |-> g[s[i]]]
  BY <1>1, <1>2 DEF Mapped
<1>4. \A i \in 1..n : g[s[i]] \in Nat
  BY <1>1, <1>2
<1>. QED BY <1>2, <1>3, <1>4 DEF IsMapped

LEMMA MappedAppend ==
  ASSUME NEW S, NEW g \in [S -> Nat], NEW s \in Seq(S), NEW e \in S
  PROVE  Total(Mapped(g, Append(s, e))) = Total(Mapped(g, s)) + g[e]
<1>. DEFINE more == Append(s, e)
            l == Mapped(g, more)
            m == Mapped(g, s)
            r == Append(m, g[e])
            n == Len(s)
<1>1. /\ more \in Seq(S) /\ Len(more) = n + 1 /\ n \in Nat
      /\ \A i \in 1..(n + 1) : more[i] = IF i <= n THEN s[i] ELSE e
  OBVIOUS
<1>. HIDE DEF more
<1>2. /\ l \in Seq(Nat) /\ Len(l) = n + 1 /\ \A i \in 1..(n + 1) : l[i] = g[more[i]]
      /\ m \in Seq(Nat) /\ Len(m) = n /\ \A i \in 1..n : m[i] = g[s[i]]
  <2>1. IsMapped(m, g, s) /\ IsMapped(l, g, more)
    BY ONLY <1>1, MappedFacts, g \in [S -> Nat], s \in Seq(S), Zenon
  <2>2. Len(more) = n + 1
    BY <1>1
  <2>. QED BY ONLY <2>1, <2>2, Zenon DEF IsMapped
<1>. HIDE DEF l, m
<1>3. r \in Seq(Nat) /\ Len(r) = n + 1 /\ \A i \in 1..(n + 1) : r[i] = IF i <= n THEN m[i] ELSE g[e]
  <2>1. PICK x \in Nat : x = g[e]
    OBVIOUS
  <2>. QED BY <1>2, <2>1, AppendProperties
<1>4. l = r
  <2>. HIDE DEF r, n
  <2>1. ASSUME NEW i \in 1..Len(l) PROVE l[i] = r[i]
    <3>1. i \in 1..(n + 1) /\ l[i] = g[more[i]]
      BY <1>2
    <3>2. CASE i <= n
      <4>1. i \in 1..n /\ more[i] = s[i] /\ r[i] = m[i]
        BY <1>1, <1>3, <3>1, <3>2
      <4>. QED BY <1>2, <3>1, <4>1
    <3>3. CASE ~(i <= n)
      BY <1>1, <1>3, <3>1, <3>3
    <3>. QED BY <3>2, <3>3
  <2>. QED BY <1>2, <1>3, <2>1, SeqEqual
<1>5. Total(r) = Total(m) + g[e]
  BY <1>2, TotalAppend
<1>. QED BY <1>4, <1>5 DEF l, m, more

LEMMA MappedSplit ==
  ASSUME NEW S, NEW g \in [S -> Nat], NEW s \in Seq(S), NEW n \in 0..Len(s)
  PROVE  Total(Mapped(g, s))
           = Total(Mapped(g, SubSeq(s, 1, n))) + Total(Mapped(g, SubSeq(s, n + 1, Len(s))))
<1>. DEFINE m == Mapped(g, s)
            a == SubSeq(s, 1, n)
            b == SubSeq(s, n + 1, Len(s))
            k == Len(s) - n
            ma == Mapped(g, a)
            mb == Mapped(g, b)
            pa == SubSeq(m, 1, n)
            pb == SubSeq(m, n + 1, Len(m))
<1>1. /\ a \in Seq(S) /\ Len(a) = n /\ \A i \in 1..n : a[i] = s[i]
      /\ b \in Seq(S) /\ Len(b) = k /\ \A i \in 1..k : b[i] = s[n + i]
      /\ n \in Nat /\ k \in Nat /\ Len(s) = n + k
  OBVIOUS
<1>2. m \in Seq(Nat) /\ Len(m) = Len(s) /\ \A i \in 1..Len(s) : m[i] = g[s[i]]
  <2>1. IsMapped(Mapped(g, s), g, s)
    BY ONLY MappedFacts, g \in [S -> Nat], s \in Seq(S), Zenon
  <2>. QED BY ONLY <2>1, Zenon DEF IsMapped, m
<1>. HIDE DEF a, b, m
<1>3. /\ ma \in Seq(Nat) /\ Len(ma) = n /\ \A i \in 1..n : ma[i] = g[a[i]]
      /\ mb \in Seq(Nat) /\ Len(mb) = k /\ \A i \in 1..k : mb[i] = g[b[i]]
  <2>0. a \in Seq(S) /\ b \in Seq(S)
    BY <1>1
  <2>1. Len(a) = n /\ Len(b) = k
    BY <1>1
  <2>2. IsMapped(ma, g, a) /\ IsMapped(mb, g, b)
    BY ONLY <2>0, MappedFacts, g \in [S -> Nat], Zenon
  <2>. QED BY ONLY <2>1, <2>2, Zenon DEF IsMapped
<1>4. /\ pa \in Seq(Nat) /\ Len(pa) = n /\ \A i \in 1..n : pa[i] = m[i]
      /\ pb \in Seq(Nat) /\ Len(pb) = k /\ \A i \in 1..k : pb[i] = m[n + i]
  <2>1. m \in Seq(Nat) /\ n \in 0..Len(m) /\ Len(m) - n = k
    BY <1>2
  <2>2. /\ pa \in Seq(Nat) /\ Len(pa) = n /\ \A i \in 1..n : pa[i] = m[i]
        /\ pb \in Seq(Nat) /\ Len(pb) = Len(m) - n /\ \A i \in 1..(Len(m) - n) : pb[i] = m[n + i]
    BY ONLY <2>1
  <2>. QED BY <2>1, <2>2
<1>5. Total(m) = Total(pa) + Total(pb)
  BY <1>1, <1>2, TotalSplit
<1>. HIDE DEF ma, mb, pa, pb, k
<1>6. pa = ma
  <2>1. \A i \in 1..Len(pa) : pa[i] = ma[i]
    BY <1>1, <1>2, <1>3, <1>4
  <2>. QED BY <1>3, <1>4, <2>1, SeqEqual
<1>7. pb = mb
  <2>1. \A i \in 1..k : n + i \in 1..Len(s)
    BY <1>1
  <2>2. \A i \in 1..Len(pb) : pb[i] = mb[i]
    BY <1>1, <1>2, <1>3, <1>4, <2>1
  <2>. QED BY <1>3, <1>4, <2>2, SeqEqual
<1>. QED BY <1>5, <1>6, <1>7 DEF m, ma, mb, a, b

\* The counters of tickets.
LEMMA TicketSums ==
  ASSUME NEW ts \in Seq(Entries)
  PROVE  /\ SumRecords(ts) \in Nat /\ SumBytes(ts) \in Nat
         /\ \A e \in Entries : /\ SumRecords(Append(ts, e)) = SumRecords(ts) + e.records
                               /\ SumBytes(Append(ts, e)) = SumBytes(ts) + e.bytes
         /\ \A n \in 0..Len(ts) :
              /\ SumRecords(ts) = SumRecords(SubSeq(ts, 1, n)) + SumRecords(SubSeq(ts, n + 1, Len(ts)))
              /\ SumBytes(ts) = SumBytes(SubSeq(ts, 1, n)) + SumBytes(SubSeq(ts, n + 1, Len(ts)))
<1>. DEFINE r == [e \in Entries |-> e.records]
            b == [e \in Entries |-> e.bytes]
<1>1. r \in [Entries -> Nat] /\ b \in [Entries -> Nat]
  BY DEF Entries
<1>2. ASSUME NEW us \in Seq(Entries)
      PROVE  SumRecords(us) = Total(Mapped(r, us)) /\ SumBytes(us) = Total(Mapped(b, us))
  <2>1. \A i \in DOMAIN us : us[i] \in Entries
    OBVIOUS
  <2>2. /\ [i \in DOMAIN us |-> us[i].records] = Mapped(r, us)
        /\ [i \in DOMAIN us |-> us[i].bytes] = Mapped(b, us)
    BY <2>1 DEF Mapped
  <2>. QED BY <2>2 DEF SumRecords, SumBytes
<1>3. \A e \in Entries : r[e] = e.records /\ b[e] = e.bytes
  OBVIOUS
<1>. HIDE DEF r, b
<1>4. SumRecords(ts) \in Nat /\ SumBytes(ts) \in Nat
  <2>1. Mapped(r, ts) \in Seq(Nat) /\ Mapped(b, ts) \in Seq(Nat)
    <3>1. IsMapped(Mapped(r, ts), r, ts) /\ IsMapped(Mapped(b, ts), b, ts)
      BY ONLY <1>1, MappedFacts, ts \in Seq(Entries), Zenon
    <3>. QED BY ONLY <3>1, Zenon DEF IsMapped
  <2>. QED BY <1>2, <2>1, TotalType
<1>5. ASSUME NEW e \in Entries
      PROVE  /\ SumRecords(Append(ts, e)) = SumRecords(ts) + e.records
             /\ SumBytes(Append(ts, e)) = SumBytes(ts) + e.bytes
  <2>1. Append(ts, e) \in Seq(Entries)
    BY AppendProperties
  <2>2. /\ Total(Mapped(r, Append(ts, e))) = Total(Mapped(r, ts)) + r[e]
        /\ Total(Mapped(b, Append(ts, e))) = Total(Mapped(b, ts)) + b[e]
    BY <1>1, MappedAppend
  <2>. QED BY <1>2, <1>3, <2>1, <2>2
<1>6. ASSUME NEW n \in 0..Len(ts)
      PROVE  /\ SumRecords(ts) = SumRecords(SubSeq(ts, 1, n)) + SumRecords(SubSeq(ts, n + 1, Len(ts)))
             /\ SumBytes(ts) = SumBytes(SubSeq(ts, 1, n)) + SumBytes(SubSeq(ts, n + 1, Len(ts)))
  <2>1. SubSeq(ts, 1, n) \in Seq(Entries) /\ SubSeq(ts, n + 1, Len(ts)) \in Seq(Entries)
    BY CutFacts
  <2>2. /\ Total(Mapped(r, ts)) = Total(Mapped(r, SubSeq(ts, 1, n)))
                                    + Total(Mapped(r, SubSeq(ts, n + 1, Len(ts))))
        /\ Total(Mapped(b, ts)) = Total(Mapped(b, SubSeq(ts, 1, n)))
                                    + Total(Mapped(b, SubSeq(ts, n + 1, Len(ts))))
    BY <1>1, MappedSplit
  <2>. QED BY <1>2, <2>1, <2>2
<1>. QED BY <1>4, <1>5, <1>6

LEMMA RecordCountType ==
  ASSUME NEW bytes \in Seq(Bytes) PROVE RecordCount(bytes) \in Nat
<1>1. MaxPayload \in Nat \ {0} /\ Len(bytes) \in Nat
  BY CliAssumption
<1>2. PICK m \in Nat \ {0}, n \in Nat : m = MaxPayload /\ n = Len(bytes)
  BY <1>1
<1>3. (n + m - 1) \div m \in Nat
  BY <1>2
<1>. QED BY <1>2, <1>3 DEF RecordCount

LEMMA RecordCountAppend ==
  ASSUME NEW batches \in Seq(Seq(Bytes)), NEW b \in Seq(Bytes)
  PROVE  /\ Total(RecordCounts(batches)) \in Nat
         /\ Total(RecordCounts(Append(batches, b))) = Total(RecordCounts(batches)) + RecordCount(b)
<1>. DEFINE S == Seq(Bytes)
            g == [s \in S |-> RecordCount(s)]
<1>1. g \in [S -> Nat]
  BY RecordCountType
<1>2. ASSUME NEW us \in Seq(S) PROVE RecordCounts(us) = Mapped(g, us)
  <2>1. \A i \in DOMAIN us : us[i] \in S
    OBVIOUS
  <2>. QED BY <2>1 DEF Mapped, RecordCounts
<1>3. b \in S /\ batches \in Seq(S) /\ g[b] = RecordCount(b)
  OBVIOUS
<1>. HIDE DEF S, g
<1>4. Append(batches, b) \in Seq(S)
  BY <1>3, AppendProperties
<1>5. Mapped(g, batches) \in Seq(Nat)
  <2>1. IsMapped(Mapped(g, batches), g, batches)
    BY ONLY <1>1, <1>3, MappedFacts, Zenon
  <2>. QED BY ONLY <2>1, Zenon DEF IsMapped
<1>6. Total(Mapped(g, Append(batches, b))) = Total(Mapped(g, batches)) + g[b]
  BY <1>1, <1>3, MappedAppend
<1>. QED BY <1>2, <1>3, <1>4, <1>5, <1>6, TotalType

\* The oldest tickets leave the window, the resolved ones among them.
LEMMA OldestRemoved ==
  ASSUME TypeInv, WindowInv, NEW n \in Nat \ {0}, n <= Resolved, RemoveOldest(n),
         UNCHANGED <<job, records, accepted, durable, interrupted>>, pc' # "done"
  PROVE  SessionTypes' /\ WindowInv'
<1>. DEFINE ts == SubSeq(tickets, n + 1, Len(tickets))
            old == SubSeq(tickets, 1, n)
<1>1. /\ accepted \in Seq(Seq(Bytes)) /\ tickets \in Seq(Entries)
      /\ pendRecords \in Nat /\ pendBytes \in Nat /\ records \in Nat
      /\ durable \in 0..Len(accepted) /\ Len(accepted) \in Nat /\ Len(tickets) \in Nat
  BY DEF TypeInv, SessionTypes
<1>2. n \in 0..Len(tickets) /\ n <= durable - (Len(accepted) - Len(tickets))
  BY <1>1 DEF Resolved
<1>3. ts \in Seq(Entries) /\ Len(ts) = Len(tickets) - n /\ old \in Seq(Entries)
  BY <1>1, <1>2, CutFacts
<1>4. /\ SumRecords(tickets) = SumRecords(old) + SumRecords(ts)
      /\ SumBytes(tickets) = SumBytes(old) + SumBytes(ts)
      /\ SumRecords(old) \in Nat /\ SumRecords(ts) \in Nat
      /\ SumBytes(old) \in Nat /\ SumBytes(ts) \in Nat
  BY <1>1, <1>2, <1>3, TicketSums
<1>5. /\ tickets' = ts /\ pendRecords' = pendRecords - SumRecords(old)
      /\ pendBytes' = pendBytes - SumBytes(old)
  BY DEF RemoveOldest
<1>. HIDE DEF ts, old
<1>6. pendRecords = SumRecords(tickets) /\ pendBytes = SumBytes(tickets)
  BY DEF WindowInv
<1>7. pendRecords' = SumRecords(ts) /\ pendBytes' = SumBytes(ts)
  BY <1>4, <1>5, <1>6
<1>8. SessionTypes'
  <2>1. Bytes' = Bytes
    BY DEF Bytes, Pipes
  <2>. QED BY <1>1, <1>3, <1>4, <1>5, <1>7, <2>1 DEF SessionTypes
<1>9. 0 <= Resolved'
  BY <1>1, <1>2, <1>3, <1>5 DEF Resolved
<1>10. pendRecords' <= pendRecords /\ pendBytes' <= pendBytes
  BY <1>4, <1>6, <1>7
<1>11. Overfull' => Len(tickets') = 1 \/ interrupted'
  <2>. SUFFICES ASSUME Overfull', ~interrupted' PROVE FALSE
    OBVIOUS
  <2>1. WindowRecords \in Nat /\ WindowBytes \in Nat
    BY CliAssumption
  <2>2. Overfull
    BY <1>1, <1>4, <1>7, <1>10, <2>1 DEF Overfull
  <2>3. Len(tickets) = 1
    BY <2>2 DEF WindowInv
  <2>4. Len(ts) = 0
    BY <1>2, <1>3, <2>3
  <2>5. ts = <<>>
    BY <1>3, <2>4
  <2>6. SumRecords(<<>>) = 0 /\ SumBytes(<<>>) = 0
    <3>1. [i \in DOMAIN <<>> |-> <<>>[i].records] = <<>> /\ [i \in DOMAIN <<>> |-> <<>>[i].bytes] = <<>>
      OBVIOUS
    <3>. QED BY <3>1, TotalEmpty DEF SumRecords, SumBytes
  <2>. QED BY <1>7, <2>1, <2>5, <2>6 DEF Overfull
<1>12. RecordCounts(accepted)' = RecordCounts(accepted)
  BY DEF RecordCounts
<1>13. records' = Total(RecordCounts(accepted)')
  BY <1>12 DEF WindowInv
<1>. QED BY <1>5, <1>7, <1>8, <1>9, <1>11, <1>13 DEF WindowInv

\* A record enters it.
LEMMA RecordSubmitted ==
  ASSUME TypeInv, WindowInv, Submit, tickets = <<>> \/ interrupted \/ Room,
         UNCHANGED <<job, durable, interrupted>>
  PROVE  SessionTypes' /\ WindowInv'
<1>1. /\ accepted \in Seq(Seq(Bytes)) /\ tickets \in Seq(Entries) /\ batch \in Seq(Bytes)
      /\ pendRecords \in Nat /\ pendBytes \in Nat /\ records \in Nat
      /\ durable \in 0..Len(accepted) /\ Len(accepted) \in Nat /\ Len(tickets) \in Nat
      /\ back \in {"receive", "push", "join"}
  BY DEF TypeInv, SessionTypes, TaskTypes
<1>2. Bytes' = Bytes
  BY DEF Bytes, Pipes
<1>3. CASE broken
  <2>1. pc' = "failed" /\ UNCHANGED sessionVars
    BY <1>3 DEF Submit, Fail
  <2>2. SessionTypes'
    BY <1>1, <1>2, <2>1 DEF SessionTypes, sessionVars
  <2>. QED BY <2>1, <2>2 DEF WindowInv, Overfull, Resolved, RecordCounts, sessionVars
<1>4. CASE ~broken
  <2>. DEFINE e == [records |-> RecordCount(batch), bytes |-> Len(batch)]
  <2>1. /\ accepted' = Append(accepted, batch) /\ tickets' = Append(tickets, e)
        /\ records' = records + RecordCount(batch)
        /\ pendRecords' = pendRecords + RecordCount(batch)
        /\ pendBytes' = pendBytes + Len(batch) /\ pc' = back
    BY <1>4 DEF Submit
  <2>2. RecordCount(batch) \in Nat /\ Len(batch) \in Nat
    BY <1>1, RecordCountType
  <2>3. e \in Entries /\ e.records = RecordCount(batch) /\ e.bytes = Len(batch)
    BY <2>2 DEF Entries
  <2>. HIDE DEF e
  <2>4. tickets' \in Seq(Entries) /\ Len(tickets') = Len(tickets) + 1
    BY <1>1, <2>1, <2>3, AppendProperties
  <2>5. accepted' \in Seq(Seq(Bytes)) /\ Len(accepted') = Len(accepted) + 1
    <3>. DEFINE S == Seq(Bytes)
    <3>1. accepted \in Seq(S) /\ batch \in S
      BY <1>1
    <3>. HIDE DEF S
    <3>2. accepted' \in Seq(S) /\ Len(accepted') = Len(accepted) + 1
      BY <2>1, <3>1, AppendProperties
    <3>. QED BY <3>2 DEF S
  <2>6. SessionTypes'
    BY <1>1, <1>2, <2>1, <2>2, <2>4, <2>5 DEF SessionTypes
  <2>7. 0 <= Resolved'
    BY <1>1, <2>4, <2>5 DEF Resolved, WindowInv
  <2>8. pendRecords' = SumRecords(tickets') /\ pendBytes' = SumBytes(tickets')
    <3>1. /\ SumRecords(Append(tickets, e)) = SumRecords(tickets) + e.records
          /\ SumBytes(Append(tickets, e)) = SumBytes(tickets) + e.bytes
      BY <1>1, <2>3, TicketSums
    <3>. QED BY <2>1, <2>3, <3>1 DEF WindowInv
  <2>9. records' = Total(RecordCounts(accepted)')
    <3>1. Total(RecordCounts(Append(accepted, batch)))
            = Total(RecordCounts(accepted)) + RecordCount(batch)
      BY <1>1, RecordCountAppend
    <3>2. RecordCounts(accepted)' = RecordCounts(Append(accepted, batch))
      BY <2>1 DEF RecordCounts, RecordCount
    <3>. QED BY <2>1, <3>1, <3>2 DEF WindowInv
  <2>10. Overfull' => Len(tickets') = 1 \/ interrupted'
    <3>1. CASE tickets = <<>>
      BY <2>4, <3>1
    <3>2. CASE interrupted
      BY <3>2
    <3>3. CASE Room
      <4>1. WindowRecords \in Nat /\ WindowBytes \in Nat
        BY CliAssumption
      <4>2. /\ pendRecords' = pendRecords + RecordCount(batch)
            /\ pendBytes' = pendBytes + Len(batch)
        BY <2>1
      <4>3. pendRecords' <= WindowRecords /\ pendBytes' <= WindowBytes
        BY ONLY <3>3, <4>2, Zenon DEF Room
      <4>4. pendRecords' \in Nat /\ pendBytes' \in Nat
        BY SMTT(30), <1>1, <2>1, <2>2
      <4>. QED BY ONLY <4>1, <4>3, <4>4 DEF Overfull
    <3>. QED BY <3>1, <3>2, <3>3
  <2>11. pc' # "done"
    BY <1>1, <2>1
  <2>. QED BY <2>6, <2>7, <2>8, <2>9, <2>10, <2>11 DEF WindowInv
<1>. QED BY <1>3, <1>4

LEMMA WindowStep ==
  ASSUME TypeInv, WindowInv, [Next]_vars
  PROVE  SessionTypes' /\ WindowInv'
<1>1. job' = job /\ Bytes' = Bytes
  BY JobStays
<1>2. /\ SessionTypes /\ FlagTypes /\ durable \in 0..Len(accepted)
      /\ Len(accepted) \in Nat /\ Len(tickets) \in Nat
  BY DEF TypeInv, SessionTypes
<1>3. ASSUME UNCHANGED <<sessionVars, durable>>, interrupted => interrupted', pc' = "done" => pc = "done"
      PROVE  SessionTypes' /\ WindowInv'
  <2>1. UNCHANGED <<tickets, pendRecords, pendBytes, records, accepted, durable>>
    BY <1>3 DEF sessionVars
  <2>2. SessionTypes'
    BY <1>1, <1>2, <2>1 DEF SessionTypes
  <2>3. Resolved' = Resolved /\ (Overfull' <=> Overfull) /\ RecordCounts(accepted)' = RecordCounts(accepted)
    BY <2>1 DEF Resolved, Overfull, RecordCounts
  <2>. QED BY <1>3, <2>1, <2>2, <2>3 DEF WindowInv
<1>4. CASE PipeStep \/ TakeStep \/ ControlStep
  <2>1. UNCHANGED <<sessionVars, durable>>
    BY <1>4 DEF PipeStep, Readers, Read, ReadEnd, Send, ChildExits, CtrlC,
       TakeStep, Receive, Linger, Push, Flush,
       ControlStep, WaitForOldest, CloseChannel, Join, WriterFails, vars, writerVars
  <2>2. interrupted => interrupted'
    BY <1>4 DEF PipeStep, Readers, Read, ReadEnd, Send, ChildExits, CtrlC,
       InterruptStdin, InterruptCommand, InterruptFinish, InterruptLost,
       TakeStep, Receive, Linger, Push, Flush,
       ControlStep, WaitForOldest, CloseChannel, Join, WriterFails, vars, interruptVars
  <2>3. pc' = "done" => pc = "done"
    BY <1>4 DEF PipeStep, Readers, Read, ReadEnd, Send, ChildExits, CtrlC,
       InterruptStdin, InterruptCommand, InterruptFinish, InterruptLost,
       TakeStep, Receive, Linger, Push, PushBytes, PushLine, Flush, AppendRecord,
       ControlStep, WaitForOldest, CloseChannel, Join, Fail, WriterFails, vars
  <2>. QED BY <1>3, <2>1, <2>2, <2>3
<1>5. CASE Admit
  <2>1. UNCHANGED <<durable, interrupted>> /\ pc = "admit"
    BY <1>5 DEF Admit, writerVars, interruptVars
  <2>2. CASE Submit /\ (tickets = <<>> \/ interrupted \/ Room)
    BY <1>1, <2>1, <2>2, RecordSubmitted
  <2>3. CASE UNCHANGED sessionVars /\ pc' \in {"wait", "failed"}
    BY <1>3, <2>1, <2>3
  <2>4. CASE Resolved > 0 /\ RemoveOldest(Resolved) /\ UNCHANGED <<records, accepted, pc>>
    <3>1. Resolved \in Nat \ {0} /\ Resolved <= Resolved
      BY <1>2, <2>4 DEF Resolved
    <3>. QED BY <1>1, <2>1, <2>4, <3>1, OldestRemoved
  <2>. QED BY <1>5, <2>2, <2>3, <2>4 DEF Admit, Fail
<1>6. CASE Finish
  <2>1. UNCHANGED <<durable, interrupted>> /\ pc = "finish"
    BY <1>6 DEF Finish, writerVars, interruptVars
  <2>2. CASE Resolved > 0 /\ RemoveOldest(1) /\ UNCHANGED <<records, accepted, pc>>
    <3>1. 1 <= Resolved /\ 1 \in Nat \ {0}
      BY <1>2, <2>2 DEF Resolved
    <3>. QED BY <1>1, <2>1, <2>2, <3>1, OldestRemoved
  <2>3. CASE UNCHANGED sessionVars /\ pc' = "failed"
    BY <1>3, <2>1, <2>3
  <2>4. CASE UNCHANGED sessionVars /\ tickets = <<>> /\ pc' = "done"
    <3>1. UNCHANGED <<tickets, pendRecords, pendBytes, records, accepted, durable>>
      BY <2>1, <2>4 DEF sessionVars
    <3>2. SessionTypes'
      BY <1>1, <1>2, <3>1 DEF SessionTypes
    <3>3. Resolved' = Resolved /\ (Overfull' <=> Overfull) /\ RecordCounts(accepted)' = RecordCounts(accepted)
      BY <3>1 DEF Resolved, Overfull, RecordCounts
    <3>4. durable = Len(accepted)
      BY <1>2, <2>4 DEF Resolved, WindowInv
    <3>. QED BY <2>1, <3>1, <3>2, <3>3, <3>4 DEF WindowInv
  <2>. QED BY <1>6, <2>2, <2>3, <2>4 DEF Finish, Fail
<1>7. CASE MakeDurable
  <2>1. /\ UNCHANGED sessionVars /\ UNCHANGED interrupted /\ pc' = pc /\ pc # "done"
        /\ durable' = durable + 1 /\ durable < Len(accepted)
    BY <1>7 DEF MakeDurable, Waiting, interruptVars
  <2>2. UNCHANGED <<tickets, pendRecords, pendBytes, records, accepted>>
    BY <2>1 DEF sessionVars
  <2>3. SessionTypes'
    BY <1>1, <1>2, <2>1, <2>2 DEF SessionTypes
  <2>4. Resolved' = Resolved + 1 /\ Resolved \in Int
    BY <1>2, <2>1, <2>2 DEF Resolved
  <2>5. (Overfull' <=> Overfull) /\ RecordCounts(accepted)' = RecordCounts(accepted)
    BY <2>2 DEF Overfull, RecordCounts
  <2>. QED BY <2>1, <2>2, <2>3, <2>4, <2>5 DEF WindowInv
<1>. QED BY <1>4, <1>5, <1>6, <1>7, StepCases DEF SessionStep

-----------------------------------------------------------------------------
(* What the records hold of the input.                                     *)

\* Three texts in a row.
LEMMA RegroupedOnce ==
  ASSUME NEW x, NEW y, NEW z, x \in Seq(Symbols), y \in Seq(Symbols), z \in Seq(Symbols)
  PROVE  (x \o y) \o z = x \o (y \o z) /\ x \o y \in Seq(Symbols)
OBVIOUS

LEMMA Regrouped ==
  \A x, y, z \in Seq(Symbols) : (x \o y) \o z = x \o (y \o z) /\ x \o y \in Seq(Symbols)
BY RegroupedOnce

LEMMA LastOfConcat ==
  ASSUME NEW S, NEW s \in Seq(S), NEW t \in Seq(S), t # <<>>
  PROVE  s \o t # <<>> /\ (s \o t)[Len(s \o t)] = t[Len(t)]
<1>1. Len(s) \in Nat /\ Len(t) \in Nat \ {0}
  BY EmptySeq
<1>2. /\ s \o t \in Seq(S) /\ Len(s \o t) = Len(s) + Len(t)
      /\ \A i \in 1..(Len(s) + Len(t)) : (s \o t)[i] = IF i <= Len(s) THEN s[i] ELSE t[i - Len(s)]
  BY ConcatProperties
<1>3. /\ Len(s) + Len(t) \in 1..(Len(s) + Len(t)) /\ ~(Len(s) + Len(t) <= Len(s))
      /\ (Len(s) + Len(t)) - Len(s) = Len(t)
  BY <1>1
<1>4. (s \o t)[Len(s) + Len(t)] = t[Len(t)]
  BY <1>2, <1>3
<1>5. s \o t # <<>>
  BY <1>1, <1>2, EmptySeq
<1>. QED BY <1>2, <1>4, <1>5

LEMMA LastAppended ==
  ASSUME NEW S, NEW s \in Seq(S), s # <<>>
  PROVE  \E t \in Seq(S) : s = Append(t, s[Len(s)])
<1>. DEFINE n == Len(s)
            t == SubSeq(s, 1, n - 1)
            u == Append(t, s[n])
<1>1. n \in Nat \ {0} /\ s[n] \in S
  BY EmptySeq, ElementOfSeq
<1>2. t \in Seq(S) /\ Len(t) = n - 1 /\ \A i \in 1..(n - 1) : t[i] = s[i]
  <2>1. n - 1 \in 0..Len(s)
    BY <1>1
  <2>2. t \in Seq(S) /\ Len(t) = n - 1
    BY <2>1, CutFacts
  <2>3. \A i \in 1..(n - 1) : t[i] = s[i]
    BY <1>1
  <2>. QED BY <2>2, <2>3
<1>. HIDE DEF t
<1>3. u \in Seq(S) /\ Len(u) = n /\ u[n] = s[n] /\ \A i \in 1..(n - 1) : u[i] = s[i]
  <2>1. /\ u \in Seq(S) /\ Len(u) = Len(t) + 1 /\ u[Len(t) + 1] = s[n]
        /\ \A i \in 1..Len(t) : u[i] = t[i]
    BY <1>1, <1>2, AppendProperties
  <2>. QED BY <1>1, <1>2, <2>1
<1>. HIDE DEF u
<1>4. \A i \in 1..Len(u) : u[i] = s[i]
  BY <1>1, <1>3
<1>5. u = s
  BY <1>3, <1>4, SeqEqual
<1>. QED BY <1>2, <1>5 DEF u

\* A text of lines ends with a newline.
LEMMA LineTextEnds ==
  ASSUME NEW batches \in Seq(Seq(Bytes)), FlattenSeq(LineText(batches)) # <<>>
  PROVE  FlattenSeq(LineText(batches))[Len(FlattenSeq(LineText(batches)))] = Newline
<1>. DEFINE S == Seq(Bytes)
            b == batches[Len(batches)]
            nl == <<Newline>>
<1>1. batches # <<>>
  <2>1. LineText(<<>>) = <<>>
    BY DEF LineText
  <2>. QED BY <2>1, FlattenEmpty
<1>2. b \in S
  <2>1. Len(batches) \in Nat \ {0}
    BY <1>1
  <2>. QED BY <2>1, ElementOfSeq
<1>3. PICK front \in Seq(S) : batches = Append(front, b)
  <2>1. batches \in Seq(S)
    OBVIOUS
  <2>. HIDE DEF S
  <2>. QED BY <1>1, <2>1, LastAppended
<1>. HIDE DEF b
<1>4. /\ FlattenSeq(LineText(front)) \in Seq(Symbols)
      /\ FlattenSeq(LineText(batches)) = FlattenSeq(LineText(front)) \o (b \o nl)
  BY <1>2, <1>3, LineTextAppend
<1>5. nl \in Seq(Symbols) /\ nl # <<>> /\ Len(nl) = 1 /\ nl[1] = Newline
  BY DEF Symbols
<1>6. b \in Seq(Symbols)
  BY <1>2, SymbolFacts
<1>. HIDE DEF nl
<1>7. b \o nl \in Seq(Symbols) /\ b \o nl # <<>> /\ (b \o nl)[Len(b \o nl)] = Newline
  <2>1. b \o nl # <<>> /\ (b \o nl)[Len(b \o nl)] = nl[Len(nl)]
    BY ONLY <1>5, <1>6, LastOfConcat
  <2>2. b \o nl \in Seq(Symbols)
    BY ONLY <1>5, <1>6, ConcatProperties
  <2>. QED BY <1>5, <2>1, <2>2
<1>8. PICK f \in Seq(Symbols), t \in Seq(Symbols) : f = FlattenSeq(LineText(front)) /\ t = b \o nl
  BY <1>4, <1>7
<1>9. (f \o t)[Len(f \o t)] = t[Len(t)]
  BY <1>7, <1>8, LastOfConcat
<1>. QED BY <1>4, <1>7, <1>8, <1>9

\* The text is of the job, which stays.
LEMMA TextPrimes ==
  ASSUME job' = job
  PROVE  /\ Bytes' = Bytes /\ Lines' = Lines
         /\ Erased(rest)' = Erased(rest') /\ Erased(input)' = Erased(input')
         /\ NoNewline(buf)' = NoNewline(buf')
         /\ LastLineOpen' = (/\ pc' \in {"join", "finish", "done"}
                                \/ (pc' \in {"admit", "wait"} /\ back' = "join")
                             /\ input' # <<>> /\ ~IsNewline(input'[Len(input')]))
BY DEF Bytes, Pipes, Lines, Erased, NoNewline, IsNewline, LastLineOpen

LEMMA TaskFacts ==
  ASSUME TypeInv
  PROVE  /\ rest \in Seq(Bytes) /\ buf \in Seq(Bytes) /\ batch \in Seq(Bytes) /\ input \in Seq(Bytes)
         /\ accepted \in Seq(Seq(Bytes)) /\ Written \in Seq(Seq(Bytes))
         /\ back \in {"receive", "push", "join"} /\ MaxPayload \in Nat \ {0}
         /\ deadline <=> (~Lines /\ buf # <<>>)
<1>. DEFINE S == Seq(Bytes)
<1>1. /\ rest \in S /\ buf \in S /\ batch \in S /\ input \in S /\ accepted \in Seq(S)
      /\ back \in {"receive", "push", "join"} /\ MaxPayload \in Nat \ {0}
      /\ deadline <=> (~Lines /\ buf # <<>>)
  <2>1. MaxPayload \in Nat \ {0}
    BY CliAssumption
  <2>. QED BY <2>1 DEF TypeInv, TaskTypes, SessionTypes
<1>. HIDE DEF S
<1>2. Append(accepted, batch) \in Seq(S)
  BY <1>1, AppendProperties
<1>. QED BY <1>1, <1>2 DEF Written, S

TaskInv == TaskTypes /\ PlaceInv /\ ContentInv

\* The task waits, goes on, or gives up, and moves no byte.
LEMMA TaskQuiet ==
  ASSUME TypeInv, PlaceInv, ContentInv, UNCHANGED <<job, appendVars, input, accepted>>,
         \/ pc' = pc \/ pc' \in {"failed", "aborted"}
         \/ (pc = "wait" /\ pc' = "admit") \/ (pc = "admit" /\ pc' = "wait")
         \/ (pc = "join" /\ pc' = "finish") \/ (pc = "finish" /\ pc' = "done")
  PROVE  TaskInv'
<1>1. /\ Bytes' = Bytes /\ Lines' = Lines /\ Erased(rest)' = Erased(rest)
      /\ Erased(input)' = Erased(input) /\ NoNewline(buf)' = NoNewline(buf)
      /\ UNCHANGED <<rest, buf, deadline, batch, back, input, accepted>>
  BY TextPrimes DEF appendVars, Bytes, Pipes, Lines, Erased, NoNewline, IsNewline
<1>2. TaskTypes'
  BY <1>1 DEF TypeInv, TaskTypes, Ended
<1>3. Running' => Running
  BY DEF Running
<1>4. Running' => (LastLineOpen' <=> LastLineOpen) /\ Written' = Written
  BY <1>1 DEF Running, LastLineOpen, Written, IsNewline
<1>5. PlaceInv'
  BY <1>1, <1>3, <1>4 DEF PlaceInv, Running, Admitting
<1>6. ContentInv'
  <2>1. Running' => Tail1' = Tail1 /\ LineText(Written)' = LineText(Written)
    BY <1>4 DEF Tail1, LineText
  <2>. QED BY <1>1, <1>3, <1>4, <2>1 DEF ContentInv
<1>. QED BY <1>2, <1>5, <1>6 DEF TaskInv

\* The record that waited is one of the records.
LEMMA TaskSubmits ==
  ASSUME TypeInv, PlaceInv, ContentInv, pc = "admit", Submit,
         UNCHANGED <<job, rest, buf, deadline, back, input>>
  PROVE  TaskInv'
<1>1. CASE broken
  BY <1>1, TaskQuiet DEF Submit, Fail, sessionVars, appendVars
<1>2. CASE ~broken
  <2>1. accepted' = Append(accepted, batch) /\ batch' = <<>> /\ pc' = back
    BY <1>2 DEF Submit
  <2>2. back \in {"receive", "push", "join"}
    BY TaskFacts
  <2>3. /\ Bytes' = Bytes /\ Lines' = Lines /\ Erased(rest)' = Erased(rest)
        /\ Erased(input)' = Erased(input) /\ NoNewline(buf)' = NoNewline(buf)
    BY DEF Bytes, Pipes, Lines, Erased, NoNewline, IsNewline
  <2>4. TaskTypes'
    BY <2>1, <2>2, <2>3 DEF TypeInv, TaskTypes
  <2>5. Running /\ Running'
    BY <2>1, <2>2 DEF Running
  <2>6. (LastLineOpen' <=> LastLineOpen) /\ Written' = Written
    BY <2>1, <2>2 DEF LastLineOpen, Written, IsNewline
  <2>7. PlaceInv'
    BY <2>1, <2>2, <2>3, <2>5, <2>6 DEF PlaceInv, Admitting
  <2>8. ContentInv'
    <3>1. Tail1' = Tail1 /\ LineText(Written)' = LineText(Written)
      BY <2>6 DEF Tail1, LineText
    <3>. QED BY <2>3, <2>5, <2>6, <3>1 DEF ContentInv
  <2>. QED BY <2>4, <2>7, <2>8 DEF TaskInv
<1>. QED BY <1>1, <1>2

\* What ContentInv says when the task is not behind the last line.
LEMMA ContentOpen ==
  ASSUME TypeInv, ContentInv, Running, ~LastLineOpen
  PROVE  /\ Lines => FlattenSeq(LineText(Written)) \o buf \o Erased(rest) = Erased(input)
         /\ ~Lines => FlattenSeq(Written) \o buf \o rest = input
<1>1. Erased(input) \in Seq(Symbols)
  BY TaskFacts, ErasedFacts
<1>2. Erased(input) \o <<>> = Erased(input)
  BY <1>1, ConcatEmptySeq
<1>3. Tail1 = <<>>
  BY DEF Tail1
<1>. QED BY <1>2, <1>3 DEF ContentInv

LEMMA ErasedEmpty == Erased(<<>>) = <<>>
BY DEF Erased

\* A chunk comes behind what was received.
LEMMA TaskReceives ==
  ASSUME TypeInv, PlaceInv, ContentInv, Receive
  PROVE  TaskInv'
<1>1. pc = "receive" /\ UNCHANGED <<job, sessionVars>> /\ job' = job
  BY DEF Receive
<1>2. rest = <<>> /\ Running /\ ~LastLineOpen
  BY <1>1 DEF PlaceInv, Running, Admitting, LastLineOpen
<1>3. /\ rest \in Seq(Bytes) /\ buf \in Seq(Bytes) /\ batch \in Seq(Bytes) /\ input \in Seq(Bytes)
      /\ accepted \in Seq(Seq(Bytes)) /\ Written \in Seq(Seq(Bytes)) /\ back \in {"receive", "push", "join"}
      /\ deadline <=> (~Lines /\ buf # <<>>)
  BY TaskFacts
<1>4. Bytes' = Bytes /\ Lines' = Lines
  BY <1>1, TextPrimes
<1>5. CASE pc' = "flush" /\ UNCHANGED <<appendVars, input>>
  <2>1. UNCHANGED <<rest, buf, deadline, batch, back, input, accepted>>
    BY <1>1, <1>5 DEF appendVars, sessionVars
  <2>2. /\ Erased(rest)' = Erased(rest) /\ Erased(input)' = Erased(input)
        /\ NoNewline(buf)' = NoNewline(buf) /\ Written' = Written /\ ~LastLineOpen'
    BY <1>1, <1>5, <2>1 DEF Erased, NoNewline, IsNewline, Written, LastLineOpen
  <2>3. TaskTypes'
    BY <1>3, <1>4, <1>5, <2>1 DEF TaskTypes
  <2>4. PlaceInv'
    BY <1>1, <1>2, <1>4, <1>5, <2>1, <2>2 DEF PlaceInv, Admitting
  <2>5. ContentInv'
    <3>1. Tail1' = Tail1 /\ LineText(Written)' = LineText(Written)
      BY <1>2, <2>2 DEF Tail1, LineText
    <3>. QED BY <1>2, <1>4, <2>1, <2>2, <3>1 DEF ContentInv
  <2>. QED BY <2>3, <2>4, <2>5 DEF TaskInv
<1>6. CASE /\ chan # <<>> /\ rest' = Head(chan) /\ input' = input \o Head(chan)
           /\ pc' = "push" /\ UNCHANGED <<buf, deadline, batch, back>>
  <2>1. PICK c \in Seq(Bytes) : c = Head(chan)
    <3>. DEFINE S == Seq(Bytes)
    <3>1. chan \in Seq(S)
      BY DEF TypeInv, PipeTypes
    <3>. HIDE DEF S
    <3>2. Head(chan) \in S
      BY <1>6, <3>1, HeadTailProperties
    <3>. QED BY <3>2 DEF S
  <2>2. rest' = c /\ input' = input \o c /\ buf' = buf /\ accepted' = accepted
    BY <1>1, <1>6, <2>1 DEF sessionVars
  <2>3. input' \in Seq(Bytes)
    BY <1>3, <2>2, ConcatProperties
  <2>4. TaskTypes'
    BY <1>3, <1>4, <1>6, <2>1, <2>2, <2>3 DEF TaskTypes
  <2>5. /\ Erased(rest)' = Erased(c) /\ Erased(input)' = Erased(input \o c)
        /\ NoNewline(buf)' = NoNewline(buf) /\ Written' = Written /\ ~LastLineOpen'
    BY <1>1, <1>6, <2>2 DEF Erased, NoNewline, IsNewline, Written, LastLineOpen
  <2>6. PlaceInv'
    BY <1>1, <1>2, <1>4, <1>6, <2>5 DEF PlaceInv, Running, Admitting
  <2>7. Lines => FlattenSeq(LineText(Written)) \o buf \o Erased(c) = Erased(input \o c)
    <3>1. SUFFICES ASSUME Lines PROVE FlattenSeq(LineText(Written)) \o buf \o Erased(c) = Erased(input \o c)
      OBVIOUS
    <3>2. FlattenSeq(LineText(Written)) \in Seq(Symbols) /\ buf \in Seq(Symbols)
      BY <1>3, LineTextAppend, SymbolFacts
    <3>3. FlattenSeq(LineText(Written)) \o buf \in Seq(Symbols)
      BY <3>2, ConcatProperties
    <3>4. FlattenSeq(LineText(Written)) \o buf = Erased(input)
      BY <1>2, <3>1, <3>3, ContentOpen, ErasedEmpty, ConcatEmptySeq
    <3>. QED BY <1>3, <3>4, ErasedConcat
  <2>8. ~Lines => FlattenSeq(Written) \o buf \o c = input \o c
    <3>1. SUFFICES ASSUME ~Lines PROVE FlattenSeq(Written) \o buf \o c = input \o c
      OBVIOUS
    <3>2. FlattenSeq(Written) \in Seq(Bytes)
      BY <1>3, FlattenType
    <3>3. FlattenSeq(Written) \o buf \in Seq(Bytes)
      BY <1>3, <3>2, ConcatProperties
    <3>4. FlattenSeq(Written) \o buf = input
      BY <1>2, <3>1, <3>3, ContentOpen, ConcatEmptySeq
    <3>. QED BY <3>4
  <2>9. Erased(input \o c) \o Tail1' = Erased(input \o c)
    <3>1. input \o c \in Seq(Bytes)
      BY <2>2, <2>3
    <3>2. Erased(input \o c) \in Seq(Symbols)
      BY <3>1, ErasedFacts
    <3>3. Tail1' = <<>>
      BY <2>5 DEF Tail1
    <3>. QED BY <3>2, <3>3, ConcatEmptySeq
  <2>10. ContentInv'
    <3>1. LineText(Written)' = LineText(Written)
      BY <2>5 DEF LineText
    <3>. QED BY <1>4, <2>2, <2>5, <2>7, <2>8, <2>9, <3>1 DEF ContentInv
  <2>. QED BY <2>4, <2>6, <2>10 DEF TaskInv
<1>. QED BY <1>5, <1>6 DEF Receive

\* A record is about to be submitted.
LEMMA RecordTaken ==
  ASSUME TypeInv, pc \notin {"admit", "wait"}, NEW r \in Seq(Bytes), NEW next \in {"receive", "push", "join"},
         AppendRecord(r, next), UNCHANGED <<job, input, accepted>>, rest' \in Seq(Bytes)
  PROVE  /\ TaskTypes' /\ Running' /\ Lines' = Lines
         /\ Written' = Append(Written, r) /\ buf' = <<>>
         /\ FlattenSeq(LineText(Written')) = FlattenSeq(LineText(Written)) \o (r \o <<Newline>>)
         /\ FlattenSeq(Written') = FlattenSeq(Written) \o r
         /\ Erased(rest)' = Erased(rest') /\ Erased(input)' = Erased(input)
<1>1. pc' = "admit" /\ back' = next /\ batch' = r /\ buf' = <<>> /\ deadline' = FALSE
  BY DEF AppendRecord
<1>2. /\ input \in Seq(Bytes) /\ accepted \in Seq(Seq(Bytes)) /\ Written \in Seq(Seq(Bytes))
      /\ Bytes' = Bytes /\ Lines' = Lines /\ Erased(rest)' = Erased(rest')
      /\ Erased(input)' = Erased(input')
  BY TaskFacts, TextPrimes
<1>3. TaskTypes'
  BY <1>1, <1>2 DEF TaskTypes
<1>4. Written' = Append(Written, r)
  BY <1>1 DEF Written
<1>5. FlattenSeq(LineText(Append(Written, r))) = FlattenSeq(LineText(Written)) \o (r \o <<Newline>>)
  BY <1>2, LineTextAppend
<1>6. FlattenSeq(Append(Written, r)) = FlattenSeq(Written) \o r
  BY <1>2, FlattenAppend
<1>. QED BY <1>1, <1>2, <1>3, <1>4, <1>5, <1>6 DEF Running

\* A record of lines with its newline, or of bytes, is what it took from the input.
LEMMA TakenContent ==
  ASSUME TypeInv, ContentInv, Running, ~LastLineOpen, Running',
         UNCHANGED <<job, input>>, Lines' = Lines, buf' = <<>>,
         rest' \in Seq(Bytes), Erased(rest)' = Erased(rest'), Erased(input)' = Erased(input),
         NEW a \in Seq(Bytes), NEW nl \in Seq(Symbols),
         FlattenSeq(LineText(Written')) = FlattenSeq(LineText(Written)) \o ((buf \o a) \o <<Newline>>),
         FlattenSeq(Written') = FlattenSeq(Written) \o (buf \o a),
         Lines => /\ (a \o <<Newline>>) \o Erased(rest') = Erased(rest) \o nl
                  /\ Tail1' = nl,
         ~Lines => a \o rest' = rest
  PROVE  ContentInv'
<1>1. /\ rest \in Seq(Bytes) /\ buf \in Seq(Bytes) /\ input \in Seq(Bytes)
      /\ Written \in Seq(Seq(Bytes))
  BY TaskFacts
<1>2. CASE Lines
  <2>. DEFINE f == FlattenSeq(LineText(Written))
              n == <<Newline>>
              e == Erased(rest)
              r == Erased(rest')
  <2>1. f \in Seq(Symbols)
    BY <1>1, LineTextAppend
  <2>2. buf \in Seq(Symbols)
    BY <1>1, SymbolFacts
  <2>3. a \in Seq(Symbols)
    BY SymbolFacts
  <2>4. n \in Seq(Symbols)
    BY DEF Symbols
  <2>5. e \in Seq(Symbols)
    BY <1>1, ErasedFacts
  <2>6. r \in Seq(Symbols)
    BY ErasedFacts
  <2>7. (f \o buf) \o e = Erased(input)
    BY <1>2, ContentOpen
  <2>8. (a \o n) \o r = e \o nl /\ FlattenSeq(LineText(Written')) = f \o ((buf \o a) \o n)
    BY <1>2
  <2>. HIDE DEF f, n, e, r
  <2>9. (buf \o a) \o n = buf \o (a \o n)
    BY ONLY Regrouped, <2>2, <2>3, <2>4, Zenon
  <2>10. a \o n \in Seq(Symbols)
    BY ONLY Regrouped, <2>3, <2>4, Zenon
  <2>11. f \o buf \in Seq(Symbols)
    BY ONLY Regrouped, <2>1, <2>2, Zenon
  <2>12. (f \o (buf \o (a \o n))) \o r = (f \o buf) \o ((a \o n) \o r)
    <3>1. PICK t : t = a \o n
      OBVIOUS
    <3>2. PICK g : g = f \o buf
      OBVIOUS
    <3>3. t \in Seq(Symbols) /\ g \in Seq(Symbols)
      BY ONLY <2>10, <2>11, <3>1, <3>2, Zenon
    <3>4. (f \o buf) \o t = f \o (buf \o t)
      BY ONLY Regrouped, <2>1, <2>2, <3>3, ZenonT(30)
    <3>5. (g \o t) \o r = g \o (t \o r) /\ g \o t \in Seq(Symbols)
      BY ONLY Regrouped, <2>6, <3>3, Zenon
    <3>. QED BY ONLY <3>1, <3>2, <3>4, <3>5, Zenon
  <2>13. ((f \o buf) \o e) \o nl = (f \o buf) \o (e \o nl)
    BY ONLY Regrouped, <2>5, <2>11, nl \in Seq(Symbols), Zenon
  <2>14. f \o ((buf \o a) \o n) \in Seq(Symbols)
    <3>1. buf \o a \in Seq(Symbols)
      BY ONLY Regrouped, <2>2, <2>3, Zenon
    <3>2. (buf \o a) \o n \in Seq(Symbols)
      BY ONLY Regrouped, <3>1, <2>4, Zenon
    <3>. QED BY ONLY Regrouped, <2>1, <3>2, Zenon
  <2>15. f \o ((buf \o a) \o n) \o <<>> = f \o ((buf \o a) \o n)
    BY ONLY <2>14, ConcatEmptySeq
  <2>16. FlattenSeq(LineText(Written')) \o buf' \o r = Erased(input) \o nl
    BY <2>7, <2>8, <2>9, <2>12, <2>13, <2>15, Zenon
  <2>17. LineText(Written)' = LineText(Written')
    BY DEF LineText
  <2>. QED BY <1>2, <2>16, <2>17 DEF ContentInv, r
<1>3. CASE ~Lines
  <2>. DEFINE f == FlattenSeq(Written)
  <2>1. f \in Seq(Bytes)
    BY <1>1, FlattenType
  <2>2. (f \o buf) \o rest = input /\ FlattenSeq(Written') = f \o (buf \o a) /\ a \o rest' = rest
    BY <1>3, ContentOpen
  <2>. HIDE DEF f
  <2>3. (f \o (buf \o a)) \o rest' = (f \o buf) \o (a \o rest')
    <3>1. f \in Seq(Symbols) /\ a \in Seq(Symbols)
      BY <2>1, SymbolFacts
    <3>2. buf \in Seq(Symbols) /\ rest' \in Seq(Symbols)
      BY <1>1, SymbolFacts
    <3>3. f \o buf \in Seq(Symbols)
      BY ONLY Regrouped, <3>1, <3>2, Zenon
    <3>4. (f \o buf) \o a = f \o (buf \o a)
      <4>1. f \in Seq(Symbols) /\ buf \in Seq(Symbols) /\ a \in Seq(Symbols)
        BY <3>1, <3>2
      <4>. QED BY ONLY Regrouped, <4>1
    <3>5. PICK g : g = f \o buf
      OBVIOUS
    <3>6. g \in Seq(Symbols)
      BY ONLY <3>3, <3>5, Zenon
    <3>7. (g \o a) \o rest' = g \o (a \o rest')
      BY ONLY Regrouped, <3>1, <3>2, <3>6, ZenonT(30)
    <3>. QED BY ONLY <3>4, <3>5, <3>7, Zenon
  <2>4. f \o (buf \o a) \o <<>> = f \o (buf \o a)
    <3>1. buf \o a \in Seq(Bytes)
      BY <1>1, ConcatProperties
    <3>2. f \o (buf \o a) \in Seq(Bytes)
      BY <2>1, <3>1, ConcatProperties
    <3>. QED BY <3>2, ConcatEmptySeq
  <2>5. FlattenSeq(Written') \o buf' \o rest' = input
    BY <2>2, <2>3, <2>4
  <2>. QED BY <1>3, <2>5 DEF ContentInv
<1>. QED BY <1>2, <1>3

LEMMA TaskLingers ==
  ASSUME TypeInv, PlaceInv, ContentInv, Linger
  PROVE  TaskInv'
<1>1. /\ pc = "receive" /\ AppendRecord(buf, "receive") /\ deadline
      /\ UNCHANGED <<job, rest, sessionVars, input>> /\ job' = job /\ rest' = rest /\ accepted' = accepted
  BY DEF Linger, sessionVars
<1>2. rest = <<>> /\ Running /\ ~LastLineOpen
  BY <1>1 DEF PlaceInv, Running, Admitting, LastLineOpen
<1>3. /\ rest \in Seq(Bytes) /\ buf \in Seq(Bytes) /\ ~Lines /\ MaxPayload \in Nat \ {0}
  BY <1>1, TaskFacts
<1>4. /\ TaskTypes' /\ Running' /\ Lines' = Lines
      /\ Written' = Append(Written, buf) /\ buf' = <<>>
      /\ FlattenSeq(LineText(Written')) = FlattenSeq(LineText(Written)) \o (buf \o <<Newline>>)
      /\ FlattenSeq(Written') = FlattenSeq(Written) \o buf
      /\ Erased(rest)' = Erased(rest') /\ Erased(input)' = Erased(input)
  <2>1. pc \notin {"admit", "wait"} /\ rest' \in Seq(Bytes)
    BY <1>1, <1>3
  <2>. QED BY <1>1, <1>3, <2>1, RecordTaken
<1>5. PlaceInv'
  <2>1. Len(<<>>) < MaxPayload
    BY <1>3
  <2>. QED BY <1>1, <1>2, <1>3, <1>4, <2>1 DEF PlaceInv
<1>6. ContentInv'
  <2>1. buf \o <<>> = buf /\ <<>> \o rest = rest /\ <<>> \in Seq(Bytes) /\ <<>> \in Seq(Symbols)
    BY <1>3, ConcatEmptySeq
  <2>2. /\ FlattenSeq(LineText(Written')) = FlattenSeq(LineText(Written)) \o ((buf \o <<>>) \o <<Newline>>)
        /\ FlattenSeq(Written') = FlattenSeq(Written) \o (buf \o <<>>)
        /\ <<>> \o rest' = rest
    BY <1>1, <1>4, <2>1
  <2>3. input' = input /\ rest' \in Seq(Bytes)
    BY <1>1, <1>3
  <2>. QED BY <1>1, <1>2, <1>3, <1>4, <2>1, <2>2, <2>3, TakenContent
<1>. QED BY <1>4, <1>5, <1>6 DEF TaskInv

LEMMA TaskPushesBytes ==
  ASSUME TypeInv, PlaceInv, ContentInv, pc = "push", rest # <<>>, ~Lines, PushBytes,
         UNCHANGED <<job, sessionVars, input>>
  PROVE  TaskInv'
<1>1. Running /\ ~LastLineOpen /\ Len(buf) < MaxPayload /\ job' = job /\ input' = input /\ accepted' = accepted
  BY DEF PlaceInv, Running, LastLineOpen, sessionVars
<1>2. /\ rest \in Seq(Bytes) /\ buf \in Seq(Bytes) /\ batch \in Seq(Bytes) /\ input \in Seq(Bytes)
      /\ Written \in Seq(Seq(Bytes)) /\ back \in {"receive", "push", "join"}
      /\ MaxPayload \in Nat \ {0}
  BY TaskFacts
<1>3. PICK n \in 1..Len(rest) : LET filled == buf \o SubSeq(rest, 1, n) IN
        /\ filled \in Seq(Bytes) /\ filled # <<>> /\ Len(filled) <= MaxPayload
        /\ rest' = After(n)
        /\ \/ /\ AppendRecord(filled, "push")
           \/ /\ buf' = filled /\ deadline' = TRUE /\ Len(filled) < MaxPayload
              /\ UNCHANGED <<batch, back, pc>>
  BY <1>1, BytesTaken
<1>4. PICK a \in Seq(Bytes) : a = SubSeq(rest, 1, n) /\ a \o rest' = rest /\ rest' \in Seq(Bytes)
  <2>1. n \in 0..Len(rest)
    BY <1>2
  <2>2. /\ SubSeq(rest, 1, n) \in Seq(Bytes) /\ After(n) \in Seq(Bytes)
        /\ SubSeq(rest, 1, n) \o After(n) = rest
    BY <1>2, <2>1, CutFacts DEF After
  <2>. QED BY <1>3, <2>2
<1>5. CASE AppendRecord(buf \o a, "push")
  <2>1. buf \o a \in Seq(Bytes)
    BY <1>3, <1>4
  <2>2. PICK r \in Seq(Bytes) : r = buf \o a
    BY <2>1
  <2>3. /\ TaskTypes' /\ Running' /\ Lines' = Lines
        /\ Written' = Append(Written, r) /\ buf' = <<>>
        /\ FlattenSeq(LineText(Written')) = FlattenSeq(LineText(Written)) \o (r \o <<Newline>>)
        /\ FlattenSeq(Written') = FlattenSeq(Written) \o r
        /\ Erased(rest)' = Erased(rest') /\ Erased(input)' = Erased(input)
    BY <1>1, <1>4, <1>5, <2>2, RecordTaken
  <2>4. PlaceInv'
    <3>1. Len(<<>>) < MaxPayload
      BY <1>2
    <3>2. pc' = "admit" /\ back' = "push"
      BY <1>5 DEF AppendRecord
    <3>. QED BY <2>3, <3>1, <3>2 DEF PlaceInv, Admitting
  <2>5. ContentInv'
    <3>1. /\ FlattenSeq(LineText(Written')) = FlattenSeq(LineText(Written)) \o ((buf \o a) \o <<Newline>>)
          /\ FlattenSeq(Written') = FlattenSeq(Written) \o (buf \o a)
      BY <2>2, <2>3
    <3>2. <<>> \in Seq(Symbols)
      OBVIOUS
    <3>. QED BY <1>1, <1>4, <2>3, <3>1, <3>2, TakenContent
  <2>. QED BY <2>3, <2>4, <2>5 DEF TaskInv
<1>6. CASE /\ buf' = buf \o a /\ deadline' = TRUE /\ Len(buf \o a) < MaxPayload /\ buf \o a # <<>>
           /\ buf \o a \in Seq(Bytes) /\ UNCHANGED <<batch, back, pc>>
  <2>1. /\ Bytes' = Bytes /\ Lines' = Lines /\ Written' = Written /\ ~LastLineOpen' /\ Running'
    BY <1>1, <1>6, TextPrimes DEF Written, Running
  <2>2. TaskTypes'
    BY <1>1, <1>2, <1>4, <1>6, <2>1 DEF TaskTypes
  <2>3. PlaceInv'
    BY <1>6, <2>1 DEF PlaceInv, Admitting
  <2>4. ContentInv'
    <3>1. FlattenSeq(Written) \in Seq(Bytes)
      BY <1>2, FlattenType
    <3>2. FlattenSeq(Written) \in Seq(Symbols) /\ buf \in Seq(Symbols) /\ a \in Seq(Symbols)
          /\ rest' \in Seq(Symbols)
      BY <1>2, <1>4, <3>1, SymbolFacts
    <3>3. PICK f : f = FlattenSeq(Written)
      OBVIOUS
    <3>4. f \in Seq(Symbols)
      BY <3>2, <3>3
    <3>5. (f \o buf) \o rest = input
      BY <1>1, <3>3, ContentOpen
    <3>6. (f \o buf) \o a = f \o (buf \o a) /\ f \o buf \in Seq(Symbols)
      BY ONLY Regrouped, <3>2, <3>4, Zenon
    <3>7. PICK g : g = f \o buf
      OBVIOUS
    <3>8. g \in Seq(Symbols)
      BY ONLY <3>6, <3>7, Zenon
    <3>9. (g \o a) \o rest' = g \o (a \o rest')
      BY ONLY Regrouped, <3>2, <3>8, Zenon
    <3>10. (f \o (buf \o a)) \o rest' = input
      BY <1>4, <3>5, <3>6, <3>7, <3>9, Zenon
    <3>11. FlattenSeq(Written') \o buf' \o rest' = input'
      BY <1>1, <1>6, <2>1, <3>3, <3>10, Zenon
    <3>. QED BY <2>1, <3>11 DEF ContentInv
  <2>. QED BY <2>2, <2>3, <2>4 DEF TaskInv
<1>. QED BY <1>3, <1>4, <1>5, <1>6

LEMMA TaskPushesLine ==
  ASSUME TypeInv, PlaceInv, ContentInv, pc = "push", Lines, PushLine,
         UNCHANGED <<job, sessionVars, input>>
  PROVE  TaskInv'
<1>1. Running /\ ~LastLineOpen /\ NoNewline(buf) /\ job' = job /\ input' = input /\ accepted' = accepted
  BY DEF PlaceInv, Running, LastLineOpen, sessionVars
<1>2. /\ rest \in Seq(Bytes) /\ buf \in Seq(Bytes) /\ batch \in Seq(Bytes) /\ input \in Seq(Bytes)
      /\ Written \in Seq(Seq(Bytes)) /\ back \in {"receive", "push", "join"} /\ ~deadline
  BY TaskFacts
<1>3. CASE NoNewline(rest) /\ buf' = buf \o rest /\ rest' = <<>> /\ UNCHANGED <<deadline, batch, back, pc>>
  <2>1. /\ Bytes' = Bytes /\ Lines' = Lines /\ Written' = Written /\ ~LastLineOpen' /\ Running'
        /\ Erased(rest)' = Erased(rest') /\ Erased(input)' = Erased(input)
        /\ NoNewline(buf)' = NoNewline(buf')
    <3>1. /\ Bytes' = Bytes /\ Lines' = Lines /\ ~LastLineOpen'
          /\ Erased(rest)' = Erased(rest') /\ Erased(input)' = Erased(input')
          /\ NoNewline(buf)' = NoNewline(buf')
      BY <1>1, <1>3, TextPrimes
    <3>. QED BY <1>1, <1>3, <3>1 DEF Written, Running
  <2>2. /\ buf' \in Seq(Bytes) /\ Len(buf') = Len(buf) + Len(rest) /\ Len(buf) \in Nat /\ Len(rest) \in Nat
        /\ \A i \in 1..(Len(buf) + Len(rest)) : buf'[i] = IF i <= Len(buf) THEN buf[i] ELSE rest[i - Len(buf)]
    BY <1>2, <1>3, ConcatProperties
  <2>3. TaskTypes'
    BY <1>1, <1>2, <1>3, <2>1, <2>2 DEF TaskTypes
  <2>4. NoNewline(buf')
    <3>1. SUFFICES ASSUME NEW i \in DOMAIN buf' PROVE ~IsNewline(buf'[i])
      BY DEF NoNewline
    <3>2. i \in 1..(Len(buf) + Len(rest)) /\ i \in Nat
      BY <2>2
    <3>3. CASE i <= Len(buf)
      <4>1. i \in DOMAIN buf /\ buf'[i] = buf[i]
        BY <1>2, <2>2, <3>2, <3>3
      <4>. QED BY <1>1, <4>1 DEF NoNewline
    <3>4. CASE ~(i <= Len(buf))
      <4>1. i - Len(buf) \in DOMAIN rest /\ buf'[i] = rest[i - Len(buf)]
        BY <1>2, <2>2, <3>2, <3>4
      <4>. QED BY <1>3, <4>1 DEF NoNewline
    <3>. QED BY <3>3, <3>4
  <2>5. PlaceInv'
    BY <1>3, <2>1, <2>4 DEF PlaceInv, Admitting
  <2>6. ContentInv'
    <3>1. PICK f : f = FlattenSeq(LineText(Written))
      OBVIOUS
    <3>2. f \in Seq(Symbols) /\ buf \in Seq(Symbols) /\ rest \in Seq(Symbols)
      BY <1>2, <3>1, LineTextAppend, SymbolFacts
    <3>3. Erased(rest) = rest
      BY <1>2, <1>3, ErasedFacts
    <3>4. (f \o buf) \o rest = Erased(input)
      BY <1>1, <3>1, <3>3, ContentOpen
    <3>5. f \o (buf \o rest) = Erased(input)
      <4>1. (f \o buf) \o rest = f \o (buf \o rest)
        BY ONLY Regrouped, <3>2, ZenonT(30)
      <4>. QED BY <3>4, <4>1, Zenon
    <3>6. Erased(input) \o <<>> = Erased(input)
      <4>1. Erased(input) \in Seq(Symbols)
        BY <1>2, ErasedFacts
      <4>. QED BY <4>1, ConcatEmptySeq
    <3>7. (f \o (buf \o rest)) \o <<>> = Erased(input) \o <<>>
      BY <3>5
    <3>8. Erased(rest') = <<>> /\ Tail1' = <<>> /\ LineText(Written)' = LineText(Written)
      BY <1>3, <2>1, ErasedEmpty DEF Tail1, LineText
    <3>9. FlattenSeq(LineText(Written)') \o buf' \o Erased(rest)' = Erased(input)' \o Tail1'
      BY <1>3, <2>1, <3>1, <3>7, <3>8, Zenon
    <3>. QED BY <2>1, <3>9 DEF ContentInv
  <2>. QED BY <2>3, <2>5, <2>6 DEF TaskInv
<1>4. ASSUME NEW n \in 1..Len(rest), IsNewline(rest[n]), \A i \in 1..(n - 1) : ~IsNewline(rest[i]),
             AppendRecord(buf \o SubSeq(rest, 1, n - 1), "push"), rest' = After(n)
      PROVE  TaskInv'
  <2>1. /\ SubSeq(rest, 1, n - 1) \in Seq(Bytes) /\ After(n) \in Seq(Bytes)
        /\ Erased(rest) = SubSeq(rest, 1, n - 1) \o <<Newline>> \o Erased(After(n))
    BY <1>2, <1>4, ErasedLine DEF After
  <2>2. PICK a \in Seq(Bytes) : a = SubSeq(rest, 1, n - 1)
    BY <2>1
  <2>3. PICK r \in Seq(Bytes) : r = buf \o a
    BY <1>2, ConcatProperties
  <2>4. AppendRecord(r, "push") /\ rest' \in Seq(Bytes)
    BY <1>4, <2>1, <2>2, <2>3
  <2>5. /\ TaskTypes' /\ Running' /\ Lines' = Lines
        /\ Written' = Append(Written, r) /\ buf' = <<>>
        /\ FlattenSeq(LineText(Written')) = FlattenSeq(LineText(Written)) \o (r \o <<Newline>>)
        /\ FlattenSeq(Written') = FlattenSeq(Written) \o r
        /\ Erased(rest)' = Erased(rest') /\ Erased(input)' = Erased(input)
    BY <1>1, <2>4, RecordTaken
  <2>6. pc' = "admit" /\ back' = "push"
    BY <2>4 DEF AppendRecord
  <2>7. PlaceInv'
    BY <2>5, <2>6 DEF PlaceInv, Admitting, NoNewline
  <2>8. ContentInv'
    <3>1. /\ FlattenSeq(LineText(Written')) = FlattenSeq(LineText(Written)) \o ((buf \o a) \o <<Newline>>)
          /\ FlattenSeq(Written') = FlattenSeq(Written) \o (buf \o a)
      BY <2>3, <2>5
    <3>2. (a \o <<Newline>>) \o Erased(rest') = Erased(rest) \o <<>> /\ <<>> \in Seq(Symbols)
      <4>1. Erased(rest) \in Seq(Symbols)
        BY <1>2, ErasedFacts
      <4>. QED BY <1>4, <2>1, <2>2, <4>1, ConcatEmptySeq
    <3>3. Tail1' = <<>>
      BY <2>6 DEF Tail1, LastLineOpen
    <3>. QED BY <1>1, <2>4, <2>5, <3>1, <3>2, <3>3, TakenContent
  <2>. QED BY <2>5, <2>7, <2>8 DEF TaskInv
<1>. QED BY <1>3, <1>4, LineTaken

\* The byte behind the last newline.
LEMMA ErasedLast ==
  ASSUME NEW s \in Seq(Bytes), s # <<>>
  PROVE  /\ Erased(s) # <<>> /\ Len(Erased(s)) = Len(s)
         /\ Erased(s)[Len(s)] = Newline <=> IsNewline(s[Len(s)])
<1>1. Len(s) \in Nat \ {0} /\ Len(s) \in 1..Len(s)
  BY EmptySeq
<1>2. /\ Erased(s) \in Seq(Symbols) /\ Len(Erased(s)) = Len(s)
      /\ Erased(s)[Len(s)] = IF IsNewline(s[Len(s)]) THEN Newline ELSE s[Len(s)]
  BY <1>1, ErasedFacts
<1>3. s[Len(s)] \in Bytes
  BY <1>1, ElementOfSeq
<1>4. s[Len(s)] # Newline
  BY <1>3, NewlineIsNoByte
<1>5. Erased(s) # <<>>
  BY <1>1, <1>2, EmptySeq
<1>. QED BY <1>2, <1>4, <1>5

LEMMA TaskFlushes ==
  ASSUME TypeInv, PlaceInv, ContentInv, Flush
  PROVE  TaskInv'
<1>1. /\ pc = "flush" /\ job' = job /\ input' = input /\ accepted' = accepted
      /\ UNCHANGED <<job, input, accepted>>
      /\ \/ buf # <<>> /\ AppendRecord(buf, "join") /\ rest' = rest
         \/ buf = <<>> /\ pc' = "join" /\ UNCHANGED <<rest, buf, deadline, batch, back>>
  BY DEF Flush, sessionVars, appendVars
<1>2. rest = <<>> /\ Running /\ ~LastLineOpen /\ (Lines => NoNewline(buf))
  BY <1>1 DEF PlaceInv, Running, Admitting, LastLineOpen
<1>3. /\ rest \in Seq(Bytes) /\ buf \in Seq(Bytes) /\ batch \in Seq(Bytes) /\ input \in Seq(Bytes)
      /\ Written \in Seq(Seq(Bytes)) /\ back \in {"receive", "push", "join"} /\ MaxPayload \in Nat \ {0}
      /\ deadline <=> (~Lines /\ buf # <<>>)
  BY TaskFacts
<1>4. PICK f : f = FlattenSeq(LineText(Written))
  OBVIOUS
<1>5. f \in Seq(Symbols) /\ buf \in Seq(Symbols) /\ f \o buf \in Seq(Symbols)
  <2>1. f \in Seq(Symbols) /\ buf \in Seq(Symbols)
    BY <1>3, <1>4, LineTextAppend, SymbolFacts
  <2>. QED BY <2>1, ConcatProperties
<1>6. Lines => f \o buf = Erased(input)
  BY <1>2, <1>4, <1>5, ContentOpen, ErasedEmpty, ConcatEmptySeq
<1>7. Erased(input) \in Seq(Symbols) /\ (input = <<>> => Erased(input) = <<>>)
  BY <1>3, ErasedFacts, ErasedEmpty
<1>8. CASE buf # <<>> /\ AppendRecord(buf, "join") /\ rest' = rest
  <2>1. /\ TaskTypes' /\ Running' /\ Lines' = Lines
        /\ Written' = Append(Written, buf) /\ buf' = <<>>
        /\ FlattenSeq(LineText(Written')) = FlattenSeq(LineText(Written)) \o (buf \o <<Newline>>)
        /\ FlattenSeq(Written') = FlattenSeq(Written) \o buf
        /\ Erased(rest)' = Erased(rest') /\ Erased(input)' = Erased(input)
    <3>1. pc \notin {"admit", "wait"} /\ rest' \in Seq(Bytes)
      BY <1>1, <1>3, <1>8
    <3>. QED BY <1>1, <1>3, <1>8, <3>1, RecordTaken
  <2>2. pc' = "admit" /\ back' = "join"
    BY <1>8 DEF AppendRecord
  <2>3. Lines => LastLineOpen'
    <3>1. SUFFICES ASSUME Lines PROVE LastLineOpen'
      OBVIOUS
    <3>2. f \o buf # <<>> /\ (f \o buf)[Len(f \o buf)] = buf[Len(buf)]
      BY <1>5, <1>8, LastOfConcat
    <3>3. Len(buf) \in Nat \ {0} /\ Len(buf) \in DOMAIN buf
      BY <1>3, <1>8, EmptySeq
    <3>4. buf[Len(buf)] \in Bytes /\ buf[Len(buf)] # Newline
      <4>1. buf[Len(buf)] \in Bytes
        BY <1>3, <3>3, ElementOfSeq
      <4>. QED BY <4>1, NewlineIsNoByte
    <3>5. input # <<>>
      BY <1>6, <1>7, <3>1, <3>2
    <3>6. ~IsNewline(input[Len(input)])
      BY <1>3, <1>6, <3>1, <3>2, <3>4, <3>5, ErasedLast
    <3>. QED BY <1>1, <2>2, <3>5, <3>6, TextPrimes
  <2>4. PlaceInv'
    <3>1. Len(<<>>) < MaxPayload
      BY <1>3
    <3>. QED BY <1>2, <1>8, <2>1, <2>2, <2>3, <3>1 DEF PlaceInv, Admitting, NoNewline
  <2>5. ContentInv'
    <3>1. PICK nl \in Seq(Symbols) : nl = <<Newline>>
      <4>1. <<Newline>> \in Seq(Symbols)
        BY DEF Symbols
      <4>. QED BY <4>1
    <3>2. Lines => /\ (<<>> \o <<Newline>>) \o Erased(rest') = Erased(rest) \o nl
                   /\ Tail1' = nl
      <4>1. rest' = <<>> /\ Erased(rest') = <<>> /\ Erased(rest) = <<>>
        BY <1>2, <1>8, ErasedEmpty
      <4>2. <<>> \o nl = nl /\ nl \o <<>> = nl
        BY <3>1, ConcatEmptySeq
      <4>3. Lines => Tail1' = nl
        BY <2>3, <3>1 DEF Tail1, Newline
      <4>4. (<<>> \o nl) \o Erased(rest') = Erased(rest) \o nl
        BY <4>1, <4>2
      <4>. QED BY <3>1, <4>3, <4>4
    <3>3. buf \o <<>> = buf /\ <<>> \o rest' = rest /\ <<>> \in Seq(Bytes) /\ rest' \in Seq(Bytes)
      BY <1>3, <1>8, ConcatEmptySeq
    <3>4. /\ FlattenSeq(LineText(Written')) = FlattenSeq(LineText(Written)) \o ((buf \o <<>>) \o <<Newline>>)
          /\ FlattenSeq(Written') = FlattenSeq(Written) \o (buf \o <<>>)
      BY <2>1, <3>3
    <3>. QED BY <1>1, <1>2, <2>1, <3>1, <3>2, <3>3, <3>4, TakenContent
  <2>. QED BY <2>1, <2>4, <2>5 DEF TaskInv
<1>9. CASE buf = <<>> /\ pc' = "join" /\ UNCHANGED <<rest, buf, deadline, batch, back>>
  <2>1. /\ Bytes' = Bytes /\ Lines' = Lines /\ Written' = Written /\ Running'
        /\ Erased(rest)' = Erased(rest) /\ Erased(input)' = Erased(input)
        /\ NoNewline(buf)' = NoNewline(buf)
    BY <1>1, <1>9, TextPrimes DEF Written, Running
  <2>2. TaskTypes'
    BY <1>1, <1>3, <1>9, <2>1 DEF TaskTypes
  <2>3. PlaceInv'
    BY <1>2, <1>3, <1>9, <2>1 DEF PlaceInv, Admitting
  <2>4. Lines => ~LastLineOpen'
    <3>1. SUFFICES ASSUME Lines, input # <<>> PROVE IsNewline(input[Len(input)])
      BY <1>1, TextPrimes
    <3>2. f = Erased(input)
      BY <1>5, <1>6, <1>9, <3>1, ConcatEmptySeq
    <3>3. f # <<>> /\ Len(f) = Len(input)
      BY <1>3, <3>1, <3>2, ErasedLast
    <3>4. f[Len(f)] = Newline
      BY <1>3, <1>4, <3>3, LineTextEnds
    <3>. QED BY <1>3, <3>1, <3>2, <3>3, <3>4, ErasedLast
  <2>5. ContentInv'
    <3>1. LineText(Written)' = LineText(Written) /\ (Lines => Tail1' = <<>>)
      BY <2>1, <2>4 DEF LineText, Tail1
    <3>2. Lines => FlattenSeq(LineText(Written)) \o buf \o Erased(rest) = Erased(input)
      BY <1>2, ContentOpen
    <3>3. ~Lines => FlattenSeq(Written) \o buf \o rest = input
      BY <1>2, ContentOpen
    <3>4. Erased(input) \o <<>> = Erased(input)
      BY <1>7, ConcatEmptySeq
    <3>. QED BY <1>1, <1>9, <2>1, <3>1, <3>2, <3>3, <3>4, Zenon DEF ContentInv
  <2>. QED BY <2>2, <2>3, <2>5 DEF TaskInv
<1>. QED BY <1>1, <1>8, <1>9

LEMMA TaskStep ==
  ASSUME TypeInv, PlaceInv, ContentInv, [Next]_vars
  PROVE  TaskInv'
<1>1. job' = job
  BY JobStays
<1>2. CASE PipeStep \/ ControlStep \/ Finish \/ MakeDurable
  <2>1. UNCHANGED <<job, appendVars, input, accepted>>
    BY <1>1, <1>2 DEF PipeStep, Readers, Read, ReadEnd, Send, ChildExits, CtrlC,
       ControlStep, WaitForOldest, CloseChannel, Join, WriterFails, Finish, MakeDurable, vars,
       sessionVars
  <2>2. \/ pc' = pc \/ pc' \in {"failed", "aborted"}
        \/ (pc = "wait" /\ pc' = "admit") \/ (pc = "admit" /\ pc' = "wait")
        \/ (pc = "join" /\ pc' = "finish") \/ (pc = "finish" /\ pc' = "done")
    <3>1. PipeStep => pc' = pc \/ pc' = "aborted"
      BY DEF PipeStep, Readers, Read, ReadEnd, Send, ChildExits, CtrlC,
         InterruptStdin, InterruptCommand, InterruptFinish, InterruptLost
    <3>2. ControlStep => \/ pc' = pc \/ pc' = "failed" \/ (pc = "wait" /\ pc' = "admit")
                         \/ (pc = "join" /\ pc' = "finish")
      BY DEF ControlStep, WaitForOldest, CloseChannel, Join, Fail, WriterFails, vars
    <3>3. Finish \/ MakeDurable => pc' = pc \/ pc' = "failed" \/ (pc = "finish" /\ pc' = "done")
      BY DEF Finish, MakeDurable, Fail
    <3>. QED BY <1>2, <3>1, <3>2, <3>3
  <2>. QED BY <2>1, <2>2, TaskQuiet
<1>3. CASE Admit
  <2>1. pc = "admit" /\ UNCHANGED <<job, rest, buf, deadline, back, input>>
    BY <1>3 DEF Admit
  <2>2. CASE Submit
    BY <2>1, <2>2, TaskSubmits
  <2>3. CASE UNCHANGED <<accepted, batch>> /\ pc' \in {"wait", "failed", "admit"}
    BY <2>1, <2>3, TaskQuiet DEF appendVars
  <2>. QED BY <1>3, <2>1, <2>2, <2>3 DEF Admit, Fail, sessionVars
<1>4. CASE Receive
  BY <1>4, TaskReceives
<1>5. CASE Linger
  BY <1>5, TaskLingers
<1>6. CASE Push
  <2>1. pc = "push" /\ UNCHANGED <<job, sessionVars, input>>
    BY <1>6 DEF Push
  <2>2. CASE rest # <<>> /\ Lines /\ PushLine
    BY <2>1, <2>2, TaskPushesLine
  <2>3. CASE rest # <<>> /\ ~Lines /\ PushBytes
    BY <2>1, <2>3, TaskPushesBytes
  <2>4. CASE rest = <<>> /\ pc' = "receive" /\ UNCHANGED appendVars
    <3>1. /\ UNCHANGED <<rest, buf, deadline, batch, back, input, accepted>> /\ Running /\ Running'
      BY <2>1, <2>4 DEF appendVars, sessionVars, Running
    <3>2. /\ Bytes' = Bytes /\ Lines' = Lines /\ Erased(rest)' = Erased(rest)
          /\ Erased(input)' = Erased(input) /\ NoNewline(buf)' = NoNewline(buf)
          /\ Written' = Written /\ ~LastLineOpen /\ ~LastLineOpen'
      BY <1>1, <2>1, <2>4, <3>1, TextPrimes DEF Written, LastLineOpen
    <3>3. TaskTypes'
      BY <2>4, <3>1, <3>2 DEF TypeInv, TaskTypes
    <3>4. PlaceInv'
      BY <2>1, <2>4, <3>1, <3>2 DEF PlaceInv, Admitting
    <3>5. ContentInv'
      <4>1. Tail1' = Tail1 /\ LineText(Written)' = LineText(Written)
        BY <3>2 DEF Tail1, LineText
      <4>. QED BY <3>1, <3>2, <4>1 DEF ContentInv
    <3>. QED BY <3>3, <3>4, <3>5 DEF TaskInv
  <2>. QED BY <1>6, <2>2, <2>3, <2>4 DEF Push
<1>7. CASE Flush
  BY <1>7, TaskFlushes
<1>. QED BY <1>2, <1>3, <1>4, <1>5, <1>6, <1>7, StepCases DEF TakeStep, SessionStep

-----------------------------------------------------------------------------
(* Where the bytes of the pipes are.                                       *)

FlowInv == OrderInv /\ OnceInv /\ KeptInv

LEMMA FlowFacts ==
  ASSUME TypeInv
  PROVE  /\ input \in Seq(Bytes) /\ Len(input) \in Nat /\ DOMAIN input = 1..Len(input)
         /\ \A k \in 1..Len(input) : input[k] \in Bytes
         /\ chan \in Seq(Seq(Bytes)) /\ Len(chan) \in Nat /\ DOMAIN chan = 1..Len(chan)
         /\ \A k \in 1..Len(chan) :
              /\ chan[k] \in Seq(Bytes) /\ Len(chan[k]) \in Nat /\ DOMAIN chan[k] = 1..Len(chan[k])
              /\ \A i \in 1..Len(chan[k]) : chan[k][i] \in Bytes
         /\ hand \in [Pipes -> Seq(Bytes)] /\ read \in [Pipes -> Nat]
         /\ reader \in [Pipes -> {"running", "ended", "failed"}]
         /\ \A p \in Pipes :
              /\ hand[p] \in Seq(Bytes) /\ Len(hand[p]) \in Nat /\ DOMAIN hand[p] = 1..Len(hand[p])
              /\ \A i \in 1..Len(hand[p]) : hand[p][i] \in Bytes
         /\ \A b \in Bytes : b[1] \in Pipes /\ b[2] \in Nat \ {0} /\ b = <<b[1], b[2]>>
<1>1. /\ input \in Seq(Bytes) /\ chan \in Seq(Seq(Bytes)) /\ hand \in [Pipes -> Seq(Bytes)]
      /\ read \in [Pipes -> Nat] /\ reader \in [Pipes -> {"running", "ended", "failed"}]
  BY DEF TypeInv, PipeTypes, TaskTypes
<1>2. ASSUME NEW s \in Seq(Bytes)
      PROVE  Len(s) \in Nat /\ DOMAIN s = 1..Len(s) /\ \A i \in 1..Len(s) : s[i] \in Bytes
  BY ElementOfSeq
<1>3. /\ Len(chan) \in Nat /\ DOMAIN chan = 1..Len(chan)
      /\ \A k \in 1..Len(chan) : chan[k] \in Seq(Bytes)
  <2>. DEFINE S == Seq(Bytes)
  <2>1. chan \in Seq(S)
    BY <1>1
  <2>. HIDE DEF S
  <2>2. /\ Len(chan) \in Nat /\ DOMAIN chan = 1..Len(chan)
        /\ \A k \in 1..Len(chan) : chan[k] \in S
    BY <2>1, ElementOfSeq
  <2>. QED BY <2>2 DEF S
<1>4. \A p \in Pipes : hand[p] \in Seq(Bytes)
  BY <1>1
<1>5. \A b \in Bytes : b[1] \in Pipes /\ b[2] \in Nat \ {0} /\ b = <<b[1], b[2]>>
  BY JobFacts
<1>. QED BY <1>1, <1>2, <1>3, <1>4, <1>5

\* The reading of a pipe goes on where it was.
LEMMA FlowReads ==
  ASSUME TypeInv, FlowInv, NEW p \in Pipes, Read(p)
  PROVE  FlowInv'
<1>1. PICK n \in 1..MaxChunk :
        /\ read[p] + n <= Len(job.text[p])
        /\ hand' = [hand EXCEPT ![p] = [i \in 1..n |-> <<p, read[p] + i>>]]
        /\ read' = [read EXCEPT ![p] = @ + n]
  BY DEF Read
<1>2. /\ hand[p] = <<>> /\ reader[p] = "running" /\ reader' = reader /\ chan' = chan /\ input' = input
      /\ job' = job /\ interrupted' = interrupted
  BY DEF Read, interruptVars
<1>3. n \in Nat \ {0} /\ read[p] \in Nat
  BY JobFacts, FlowFacts
<1>4. Pipes' = Pipes /\ Bytes' = Bytes
  BY <1>2 DEF Pipes, Bytes
<1>5. /\ read'[p] = read[p] + n /\ \A q \in Pipes \ {p} : read'[q] = read[q] /\ hand'[q] = hand[q]
      /\ DOMAIN hand'[p] = 1..n /\ \A i \in 1..n : hand'[p][i] = <<p, read[p] + i>>
  BY <1>1, FlowFacts
<1>6. \A b : (InInput(b)' <=> InInput(b)) /\ (InChan(b)' <=> InChan(b))
  BY <1>2 DEF InInput, InChan
<1>7. \A b \in Bytes : b[1] \in Pipes /\ b[2] \in Nat \ {0} /\ b = <<b[1], b[2]>>
  BY FlowFacts
<1>8. OrderInv'
  <2>1. ASSUME NEW i \in DOMAIN hand'[p]
        PROVE  /\ hand'[p][i][1] = p
               /\ \/ hand'[p][i][2] = 1
                  \/ i > 1 /\ hand'[p][i - 1] = Before(hand'[p][i])
                  \/ InInput(Before(hand'[p][i])) \/ InChan(Before(hand'[p][i]))
    <3>1. i \in 1..n /\ hand'[p][i] = <<p, read[p] + i>> /\ Before(hand'[p][i]) = <<p, (read[p] + i) - 1>>
      BY <1>5 DEF Before
    <3>2. CASE i > 1
      <4>1. i - 1 \in 1..n /\ read[p] + (i - 1) = (read[p] + i) - 1
        BY <1>3, <3>1, <3>2
      <4>. QED BY <1>5, <3>1, <3>2, <4>1
    <3>3. CASE i = 1 /\ read[p] = 0
      BY <3>1, <3>3
    <3>4. CASE i = 1 /\ read[p] # 0
      <4>1. read[p] \in 1..read[p] /\ (read[p] + i) - 1 = read[p]
        BY <1>3, <3>4
      <4>2. InInput(<<p, read[p]>>) \/ InChan(<<p, read[p]>>) \/ InHand(<<p, read[p]>>)
        BY <1>2, <4>1 DEF FlowInv, KeptInv
      <4>3. ~InHand(<<p, read[p]>>)
        BY <1>2 DEF InHand
      <4>. QED BY <3>1, <4>1, <4>2, <4>3
    <3>. QED BY <1>3, <3>1, <3>2, <3>3, <3>4
  <2>2. \A q \in Pipes : \A i \in DOMAIN hand'[q] :
          /\ hand'[q][i][1] = q
          /\ \/ hand'[q][i][2] = 1
             \/ i > 1 /\ hand'[q][i - 1] = Before(hand'[q][i])
             \/ InInput(Before(hand'[q][i])) \/ InChan(Before(hand'[q][i]))
    BY <1>5, <2>1 DEF FlowInv, OrderInv, InputOrder, ChanOrder, HandOrder
  <2>3. /\ \A k \in DOMAIN input : input[k][2] = 1 \/ \E j \in 1..(k - 1) : input[j] = Before(input[k])
        /\ \A k \in DOMAIN chan : \A i \in DOMAIN chan[k] :
             \/ chan[k][i][2] = 1
             \/ i > 1 /\ chan[k][i - 1] = Before(chan[k][i])
             \/ InInput(Before(chan[k][i]))
             \/ \E l \in 1..(k - 1) : \E j \in DOMAIN chan[l] : chan[l][j] = Before(chan[k][i])
    BY DEF FlowInv, OrderInv, InputOrder, ChanOrder, HandOrder
  <2>. QED BY <1>2, <1>4, <2>2, <2>3 DEF OrderInv, InputOrder, ChanOrder, HandOrder, Before, InInput, InChan
<1>9. OnceInv'
  <2>1. \A q \in Pipes : \A i, j \in DOMAIN hand'[q] : hand'[q][i] = hand'[q][j] => i = j
    <3>1. \A i, j \in 1..n : hand'[p][i] = hand'[p][j] => i = j
      BY <1>3, <1>5
    <3>. QED BY <1>5, <3>1 DEF FlowInv, OnceInv
  <2>2. \A b \in Bytes : InHand(b)' => (b[1] = p /\ b[2] > read[p] /\ b[2] <= read'[p]) \/ (b[1] # p /\ InHand(b))
    <3>1. SUFFICES ASSUME NEW b \in Bytes, InHand(b)'
                   PROVE  (b[1] = p /\ b[2] > read[p] /\ b[2] <= read'[p]) \/ (b[1] # p /\ InHand(b))
      OBVIOUS
    <3>2. PICK i \in DOMAIN hand'[b[1]] : hand'[b[1]][i] = b
      BY <3>1 DEF InHand
    <3>3. CASE b[1] = p
      <4>1. i \in 1..n /\ b = <<p, read[p] + i>>
        BY <1>5, <3>2, <3>3
      <4>. QED BY <1>3, <1>5, <3>3, <4>1
    <3>4. CASE b[1] # p
      BY <1>5, <1>7, <3>2, <3>4 DEF InHand
    <3>. QED BY <3>3, <3>4
  <2>3. \A b \in Bytes : InInput(b) \/ InChan(b) \/ InHand(b) => b[2] <= read[b[1]]
    BY DEF FlowInv, OnceInv
  <2>4. \A b \in Bytes : InHand(b)' => ~InInput(b) /\ ~InChan(b)
    <3>1. SUFFICES ASSUME NEW b \in Bytes, InHand(b)' PROVE ~InInput(b) /\ ~InChan(b)
      OBVIOUS
    <3>2. CASE b[1] = p
      BY <1>3, <1>7, <2>2, <2>3, <3>1, <3>2
    <3>3. CASE b[1] # p
      BY <2>2, <3>1, <3>3 DEF FlowInv, OnceInv
    <3>. QED BY <3>2, <3>3
  <2>5. \A b \in Bytes : InInput(b) \/ InChan(b) \/ InHand(b)' => b[2] <= read'[b[1]]
    <3>1. SUFFICES ASSUME NEW b \in Bytes, InInput(b) \/ InChan(b) \/ InHand(b)' PROVE b[2] <= read'[b[1]]
      OBVIOUS
    <3>2. b[1] \in Pipes /\ b[2] \in Nat
      BY <1>7
    <3>3. CASE b[1] = p
      BY <1>3, <1>5, <2>2, <2>3, <3>1, <3>2, <3>3
    <3>4. CASE b[1] # p
      BY <1>5, <2>2, <2>3, <3>1, <3>2, <3>4
    <3>. QED BY <3>3, <3>4
  <2>6. /\ \A j, k \in DOMAIN input : input[j] = input[k] => j = k
        /\ \A k, l \in DOMAIN chan : \A i \in DOMAIN chan[k], j \in DOMAIN chan[l] :
             chan[k][i] = chan[l][j] => k = l /\ i = j
        /\ \A b \in Bytes : InChan(b) => ~InInput(b)
    BY DEF FlowInv, OnceInv
  <2>. QED BY <1>2, <1>4, <1>6, <2>1, <2>4, <2>5, <2>6 DEF OnceInv
<1>10. KeptInv'
  <2>1. SUFFICES ASSUME NEW q \in Pipes, reader[q] = "running" \/ ~interrupted, NEW i \in 1..read'[q]
                 PROVE  InInput(<<q, i>>) \/ InChan(<<q, i>>) \/ InHand(<<q, i>>)'
    BY <1>2, <1>4, <1>6 DEF KeptInv
  <2>2. CASE q = p
    <3>1. CASE i <= read[p]
      <4>1. InInput(<<p, i>>) \/ InChan(<<p, i>>) \/ InHand(<<p, i>>)
        BY <1>2, <1>3, <1>5, <2>1, <2>2, <3>1 DEF FlowInv, KeptInv
      <4>2. ~InHand(<<p, i>>)
        BY <1>2 DEF InHand
      <4>. QED BY <2>2, <4>1, <4>2
    <3>2. CASE ~(i <= read[p])
      <4>1. i - read[p] \in 1..n /\ read[p] + (i - read[p]) = i
        BY <1>3, <1>5, <2>1, <2>2, <3>2
      <4>2. hand'[p][i - read[p]] = <<p, i>> /\ i - read[p] \in DOMAIN hand'[p]
        BY <1>5, <4>1
      <4>. QED BY <2>2, <4>2 DEF InHand
    <3>. QED BY <3>1, <3>2
  <2>3. CASE q # p
    <3>1. InInput(<<q, i>>) \/ InChan(<<q, i>>) \/ InHand(<<q, i>>)
      BY <1>5, <2>1, <2>3 DEF FlowInv, KeptInv
    <3>. QED BY <1>5, <2>3, <3>1 DEF InHand
  <2>. QED BY <2>2, <2>3
<1>. QED BY <1>8, <1>9, <1>10 DEF FlowInv

\* A chunk is sent behind those in the channel.
LEMMA FlowSends ==
  ASSUME TypeInv, FlowInv, NEW p \in Pipes, Send(p), ~closed
  PROVE  FlowInv'
<1>. DEFINE n == Len(chan)
            c == hand[p]
<1>1. /\ chan' = Append(chan, c) /\ hand' = [hand EXCEPT ![p] = <<>>] /\ reader' = reader
      /\ read' = read /\ input' = input /\ job' = job /\ interrupted' = interrupted
  BY DEF Send, interruptVars
<1>2. Pipes' = Pipes /\ Bytes' = Bytes
  BY <1>1 DEF Pipes, Bytes
<1>3. /\ n \in Nat /\ DOMAIN chan = 1..n /\ DOMAIN chan' = 1..(n + 1)
      /\ chan'[n + 1] = c /\ \A k \in 1..n : chan'[k] = chan[k]
  <2>1. chan \in Seq(Seq(Bytes)) /\ c \in Seq(Bytes) /\ n \in Nat /\ DOMAIN chan = 1..n
    BY FlowFacts
  <2>. HIDE DEF c
  <2>. QED BY <1>1, <2>1
<1>4. /\ \A q \in Pipes \ {p} : hand'[q] = hand[q]
      /\ hand'[p] = <<>>
  BY <1>1, FlowFacts
<1>5. \A b \in Bytes : b[1] \in Pipes /\ b[2] \in Nat \ {0} /\ b = <<b[1], b[2]>>
  BY FlowFacts
<1>6. \A i \in DOMAIN c : c[i] \in Bytes /\ c[i][1] = p
  BY FlowFacts DEF FlowInv, OrderInv, InputOrder, ChanOrder, HandOrder
<1>7. \A b : (InInput(b)' <=> InInput(b)) /\ (InChan(b)' <=> InChan(b) \/ \E i \in DOMAIN c : c[i] = b)
  <2>1. \A b : InInput(b)' <=> InInput(b)
    BY <1>1 DEF InInput
  <2>2. ASSUME NEW b PROVE InChan(b)' <=> InChan(b) \/ \E i \in DOMAIN c : c[i] = b
    <3>. HIDE DEF c, n
    <3>1. InChan(b)' <=> \E k \in 1..(n + 1) : \E i \in DOMAIN chan'[k] : chan'[k][i] = b
      BY <1>3 DEF InChan
    <3>2. InChan(b) <=> \E k \in 1..n : \E i \in DOMAIN chan[k] : chan[k][i] = b
      BY <1>3 DEF InChan
    <3>3. \A k \in 1..(n + 1) : k = n + 1 \/ k \in 1..n
      BY <1>3
    <3>4. n + 1 \in 1..(n + 1) /\ \A k \in 1..n : k \in 1..(n + 1)
      BY <1>3
    <3>. QED BY <1>3, <3>1, <3>2, <3>3, <3>4
  <2>. QED BY <2>1, <2>2
<1>. HIDE DEF n
<1>8. OrderInv'
  <2>1. ASSUME NEW k \in 1..(n + 1), NEW i \in DOMAIN chan'[k]
        PROVE  \/ chan'[k][i][2] = 1
               \/ i > 1 /\ chan'[k][i - 1] = Before(chan'[k][i])
               \/ InInput(Before(chan'[k][i]))
               \/ \E l \in 1..(k - 1) : \E j \in DOMAIN chan'[l] : chan'[l][j] = Before(chan'[k][i])
    <3>1. CASE k \in 1..n
      <4>1. chan'[k] = chan[k] /\ \A l \in 1..(k - 1) : l \in 1..n /\ chan'[l] = chan[l]
        BY <1>3, <3>1
      <4>. QED BY <1>3, <2>1, <3>1, <4>1 DEF FlowInv, OrderInv, InputOrder, ChanOrder, HandOrder
    <3>2. CASE k = n + 1
      <4>1. chan'[k] = c /\ k - 1 = n /\ \A l \in 1..n : chan'[l] = chan[l]
        BY <1>3, <3>2
      <4>2. \/ c[i][2] = 1 \/ (i > 1 /\ c[i - 1] = Before(c[i]))
            \/ InInput(Before(c[i])) \/ InChan(Before(c[i]))
        BY <2>1, <4>1 DEF FlowInv, OrderInv, InputOrder, ChanOrder, HandOrder
      <4>3. InChan(Before(c[i])) => \E l \in 1..n : \E j \in DOMAIN chan[l] : chan[l][j] = Before(c[i])
        BY <1>3 DEF InChan
      <4>. QED BY <4>1, <4>2, <4>3
    <3>. QED BY <1>3, <3>1, <3>2
  <2>2. \A q \in Pipes : \A i \in DOMAIN hand'[q] :
          /\ hand'[q][i][1] = q
          /\ \/ hand'[q][i][2] = 1
             \/ i > 1 /\ hand'[q][i - 1] = Before(hand'[q][i])
             \/ InInput(Before(hand'[q][i])) \/ InChan(Before(hand'[q][i]))
    BY <1>4 DEF FlowInv, OrderInv, InputOrder, ChanOrder, HandOrder
  <2>3. \A k \in DOMAIN input : input[k][2] = 1 \/ \E j \in 1..(k - 1) : input[j] = Before(input[k])
    BY DEF FlowInv, OrderInv, InputOrder, ChanOrder, HandOrder
  <2>4. \A k \in DOMAIN chan' : k \in 1..(n + 1)
    BY <1>3
  <2>5. \A b : /\ InInput(b) => \E k \in DOMAIN input' : input'[k] = b
               /\ InChan(b) => \E k \in DOMAIN chan' : \E i \in DOMAIN chan'[k] : chan'[k][i] = b
    BY <1>7 DEF InInput, InChan
  <2>6. \A k \in DOMAIN chan' : \A i \in DOMAIN chan'[k] :
          \/ chan'[k][i][2] = 1
          \/ i > 1 /\ chan'[k][i - 1] = Before(chan'[k][i])
          \/ \E j \in DOMAIN input' : input'[j] = Before(chan'[k][i])
          \/ \E l \in 1..(k - 1) : \E j \in DOMAIN chan'[l] : chan'[l][j] = Before(chan'[k][i])
    BY <2>1, <2>4, <2>5
  <2>7. \A q \in Pipes : \A i \in DOMAIN hand'[q] :
          /\ hand'[q][i][1] = q
          /\ \/ hand'[q][i][2] = 1
             \/ i > 1 /\ hand'[q][i - 1] = Before(hand'[q][i])
             \/ \E j \in DOMAIN input' : input'[j] = Before(hand'[q][i])
             \/ \E k \in DOMAIN chan' : \E j \in DOMAIN chan'[k] : chan'[k][j] = Before(hand'[q][i])
    BY <2>2, <2>5
  <2>8. InputOrder'
    BY <1>1, <2>3 DEF InputOrder, Before
  <2>9. ChanOrder'
    BY <2>6 DEF ChanOrder, Before, InInput
  <2>10. HandOrder'
    BY <1>2, <2>7 DEF HandOrder, Before, InInput, InChan
  <2>. QED BY <2>8, <2>9, <2>10 DEF OrderInv
<1>9. /\ \A b \in Bytes : InHand(b)' => InHand(b) /\ b[1] # p
      /\ \A b \in Bytes : (\E i \in DOMAIN c : c[i] = b) => InHand(b) /\ b[1] = p
      /\ \A b \in Bytes : InHand(b) => InHand(b)' \/ \E i \in DOMAIN c : c[i] = b
  <2>1. ASSUME NEW b \in Bytes, InHand(b)' PROVE InHand(b) /\ b[1] # p
    BY <1>4, <1>5, <2>1 DEF InHand
  <2>2. ASSUME NEW b \in Bytes, NEW i \in DOMAIN c, c[i] = b PROVE InHand(b) /\ b[1] = p
    BY <1>6, <2>2 DEF InHand
  <2>3. ASSUME NEW b \in Bytes, InHand(b) PROVE InHand(b)' \/ \E i \in DOMAIN c : c[i] = b
    BY <1>4, <1>5, <2>3 DEF InHand
  <2>. QED BY <2>1, <2>2, <2>3
<1>10. OnceInv'
  <2>1. ASSUME NEW k \in 1..(n + 1), NEW l \in 1..(n + 1), NEW i \in DOMAIN chan'[k], NEW j \in DOMAIN chan'[l],
               chan'[k][i] = chan'[l][j]
        PROVE  k = l /\ i = j
    <3>1. \A m \in 1..n : \A a \in DOMAIN chan[m], d \in DOMAIN c : chan[m][a] # c[d]
      <4>1. SUFFICES ASSUME NEW m \in 1..n, NEW a \in DOMAIN chan[m], NEW d \in DOMAIN c, chan[m][a] = c[d]
                     PROVE  FALSE
        OBVIOUS
      <4>2. c[d] \in Bytes /\ InHand(c[d])
        BY <1>6, <1>9
      <4>3. InChan(c[d])
        BY <1>3, <4>1 DEF InChan
      <4>. QED BY <4>2, <4>3 DEF FlowInv, OnceInv
    <3>2. CASE k \in 1..n /\ l \in 1..n
      BY <1>3, <2>1, <3>2 DEF FlowInv, OnceInv
    <3>3. CASE k = n + 1 /\ l = n + 1
      BY <1>3, <2>1, <3>3 DEF FlowInv, OnceInv
    <3>4. CASE k \in 1..n /\ l = n + 1
      BY <1>3, <2>1, <3>1, <3>4
    <3>5. CASE k = n + 1 /\ l \in 1..n
      BY <1>3, <2>1, <3>1, <3>5
    <3>. QED BY <1>3, <3>2, <3>3, <3>4, <3>5
  <2>2. \A k, l \in DOMAIN chan' : \A i \in DOMAIN chan'[k], j \in DOMAIN chan'[l] :
          chan'[k][i] = chan'[l][j] => k = l /\ i = j
    BY <1>3, <2>1
  <2>3. \A q \in Pipes : \A i, j \in DOMAIN hand'[q] : hand'[q][i] = hand'[q][j] => i = j
    BY <1>4 DEF FlowInv, OnceInv
  <2>4. \A b \in Bytes : InChan(b)' => ~InInput(b)'
    BY <1>7, <1>9 DEF FlowInv, OnceInv
  <2>5. \A b \in Bytes : InHand(b)' => ~InInput(b)' /\ ~InChan(b)'
    BY <1>7, <1>9 DEF FlowInv, OnceInv
  <2>6. \A b \in Bytes : InInput(b)' \/ InChan(b)' \/ InHand(b)' => b[2] <= read[b[1]]
    BY <1>7, <1>9 DEF FlowInv, OnceInv
  <2>7. \A j, k \in DOMAIN input : input[j] = input[k] => j = k
    BY DEF FlowInv, OnceInv
  <2>. QED BY <1>1, <1>2, <2>2, <2>3, <2>4, <2>5, <2>6, <2>7 DEF OnceInv
<1>11. KeptInv'
  <2>1. SUFFICES ASSUME NEW q \in Pipes, reader[q] = "running" \/ ~interrupted, NEW i \in 1..read[q]
                 PROVE  InInput(<<q, i>>) \/ InChan(<<q, i>>)' \/ InHand(<<q, i>>)'
    BY <1>1, <1>2, <1>7 DEF KeptInv
  <2>2. InInput(<<q, i>>) \/ InChan(<<q, i>>) \/ InHand(<<q, i>>)
    BY <2>1 DEF FlowInv, KeptInv
  <2>3. <<q, i>> \in Bytes
    <3>1. read[q] \in Nat
      BY FlowFacts
    <3>2. i \in Nat \ {0}
      BY <3>1
    <3>. QED BY <3>2 DEF Bytes
  <2>. QED BY <1>7, <1>9, <2>2, <2>3
<1>. QED BY <1>8, <1>10, <1>11 DEF FlowInv

\* The first chunk of the channel comes behind what was received.
LEMMA FlowReceives ==
  ASSUME TypeInv, FlowInv, chan # <<>>, chan' = Tail(chan), input' = input \o Head(chan),
         UNCHANGED <<job, read, hand, reader, interrupted>>
  PROVE  FlowInv'
<1>. DEFINE n == Len(input)
            m == Len(chan)
            c == chan[1]
<1>1. /\ read' = read /\ hand' = hand /\ reader' = reader /\ interrupted' = interrupted
      /\ Pipes' = Pipes /\ Bytes' = Bytes
  BY DEF Pipes, Bytes
<1>2. /\ input \in Seq(Bytes) /\ n \in Nat /\ DOMAIN input = 1..n
      /\ m \in Nat \ {0} /\ DOMAIN chan = 1..m
      /\ c \in Seq(Bytes) /\ Len(c) \in Nat /\ DOMAIN c = 1..Len(c)
      /\ \A k \in 1..m : \A i \in DOMAIN chan[k] : chan[k][i] \in Bytes
  <2>1. m # 0
    BY FlowFacts
  <2>2. 1 \in 1..m
    BY <2>1, FlowFacts
  <2>. QED BY <2>1, <2>2, FlowFacts
<1>3. DOMAIN chan' = 1..(m - 1) /\ \A k \in 1..(m - 1) : chan'[k] = chan[k + 1]
  <2>. DEFINE S == Seq(Bytes)
  <2>1. chan \in Seq(S)
    BY FlowFacts
  <2>. HIDE DEF S
  <2>. QED BY <2>1, HeadTailProperties
<1>4. /\ DOMAIN input' = 1..(n + Len(c))
      /\ \A k \in 1..(n + Len(c)) : input'[k] = IF k <= n THEN input[k] ELSE c[k - n]
  <2>1. input' = input \o c
    OBVIOUS
  <2>2. PICK d \in Seq(Bytes) : d = c
    BY <1>2
  <2>3. /\ input \o d \in Seq(Bytes) /\ Len(input \o d) = Len(input) + Len(d)
        /\ \A i \in 1..(Len(input) + Len(d)) : (input \o d)[i] = IF i <= Len(input) THEN input[i] ELSE d[i - Len(input)]
    BY <1>2, ConcatProperties
  <2>. QED BY <2>1, <2>2, <2>3
<1>. HIDE DEF n, m, c
<1>5. /\ \A k \in 1..(n + Len(c)) : k \in 1..n \/ (k > n /\ k - n \in 1..Len(c))
      /\ \A k \in 1..n : k \in 1..(n + Len(c)) /\ k <= n
      /\ \A i \in 1..Len(c) : n + i \in 1..(n + Len(c)) /\ ~(n + i <= n) /\ (n + i) - n = i
      /\ \A k \in 1..(m - 1) : k + 1 \in 1..m /\ k + 1 # 1 /\ (k + 1) - 1 = k
      /\ \A k \in 1..m : k = 1 \/ (k - 1 \in 1..(m - 1) /\ (k - 1) + 1 = k)
      /\ 1 \in 1..m
  BY <1>2
<1>6. ASSUME NEW b
      PROVE  /\ InInput(b)' <=> InInput(b) \/ \E i \in DOMAIN c : c[i] = b
             /\ InChan(b) <=> InChan(b)' \/ \E i \in DOMAIN c : c[i] = b
             /\ InHand(b)' <=> InHand(b)
  <2>1. InInput(b)' => InInput(b) \/ \E i \in DOMAIN c : c[i] = b
    <3>1. SUFFICES ASSUME NEW k \in 1..(n + Len(c)), input'[k] = b PROVE InInput(b) \/ \E i \in DOMAIN c : c[i] = b
      BY <1>4 DEF InInput
    <3>2. CASE k \in 1..n
      BY <1>2, <1>4, <1>5, <3>1, <3>2 DEF InInput
    <3>3. CASE k > n /\ k - n \in 1..Len(c)
      <4>1. ~(k <= n)
        BY <1>2, <3>3
      <4>. QED BY <1>2, <1>4, <3>1, <3>3, <4>1
    <3>. QED BY <1>5, <3>2, <3>3
  <2>2. InInput(b) \/ (\E i \in DOMAIN c : c[i] = b) => InInput(b)'
    <3>1. ASSUME NEW k \in 1..n, input[k] = b PROVE InInput(b)'
      BY <1>4, <1>5, <3>1 DEF InInput
    <3>2. ASSUME NEW i \in 1..Len(c), c[i] = b PROVE InInput(b)'
      <4>1. n + i \in DOMAIN input' /\ input'[n + i] = b
        BY <1>4, <1>5, <3>2
      <4>. QED BY <4>1 DEF InInput
    <3>. QED BY <1>2, <3>1, <3>2 DEF InInput
  <2>3. InChan(b) => InChan(b)' \/ \E i \in DOMAIN c : c[i] = b
    <3>1. SUFFICES ASSUME NEW k \in 1..m, NEW i \in DOMAIN chan[k], chan[k][i] = b
                   PROVE  InChan(b)' \/ \E j \in DOMAIN c : c[j] = b
      BY <1>2 DEF InChan
    <3>2. CASE k = 1
      BY <3>1, <3>2 DEF c
    <3>3. CASE k - 1 \in 1..(m - 1) /\ (k - 1) + 1 = k
      <4>1. k - 1 \in DOMAIN chan' /\ chan'[k - 1] = chan[k]
        BY <1>3, <3>3
      <4>. QED BY <3>1, <4>1 DEF InChan
    <3>. QED BY <1>5, <3>2, <3>3
  <2>4. InChan(b)' => InChan(b)
    BY <1>2, <1>3, <1>5 DEF InChan
  <2>5. (\E i \in DOMAIN c : c[i] = b) => InChan(b)
    BY <1>2, <1>5 DEF InChan, c
  <2>6. InHand(b)' <=> InHand(b)
    BY <1>1 DEF InHand
  <2>. QED BY <2>1, <2>2, <2>3, <2>4, <2>5, <2>6
<1>7. OrderInv'
  <2>1. ASSUME NEW k \in 1..(n + Len(c))
        PROVE  input'[k][2] = 1 \/ \E j \in 1..(k - 1) : input'[j] = Before(input'[k])
    <3>1. CASE k \in 1..n
      <4>1. input'[k] = input[k] /\ \A j \in 1..(k - 1) : input'[j] = input[j]
        BY <1>2, <1>4, <1>5, <3>1
      <4>2. input[k][2] = 1 \/ \E j \in 1..(k - 1) : input[j] = Before(input[k])
        BY <1>2, <3>1 DEF FlowInv, OrderInv, InputOrder
      <4>. QED BY ONLY <4>1, <4>2
    <3>2. CASE k > n /\ k - n \in 1..Len(c)
      <4>1. PICK i \in 1..Len(c) : i = k - n
        BY <3>2
      <4>2. k = n + i /\ input'[k] = c[i]
        BY <1>2, <1>4, <1>5, <4>1
      <4>3. \/ c[i][2] = 1
            \/ i > 1 /\ c[i - 1] = Before(c[i])
            \/ InInput(Before(c[i]))
        <5>1. ~ \E l \in 1..(1 - 1) : TRUE
          OBVIOUS
        <5>. QED BY <1>2, <1>5, <5>1 DEF FlowInv, OrderInv, InputOrder, ChanOrder, HandOrder, c
      <4>4. CASE i > 1 /\ c[i - 1] = Before(c[i])
        <5>1. i - 1 \in 1..Len(c) /\ n + (i - 1) \in 1..(k - 1)
          BY <1>2, <4>2, <4>4
        <5>2. input'[n + (i - 1)] = c[i - 1]
          <6>1. \A h \in 1..Len(c) : input'[n + h] = c[h]
            BY <1>4, <1>5
          <6>. QED BY <5>1, <6>1
        <5>. QED BY <4>2, <4>4, <5>1, <5>2
      <4>5. CASE InInput(Before(c[i]))
        <5>1. PICK j \in 1..n : input[j] = Before(c[i])
          BY <1>2, <4>5 DEF InInput
        <5>2. j \in 1..(k - 1) /\ input'[j] = input[j]
          BY <1>2, <1>4, <1>5, <4>2
        <5>. QED BY <4>2, <5>1, <5>2
      <4>. QED BY <4>2, <4>3, <4>4, <4>5
    <3>. QED BY <1>5, <3>1, <3>2
  <2>2. ASSUME NEW k \in 1..(m - 1), NEW i \in DOMAIN chan'[k]
        PROVE  \/ chan'[k][i][2] = 1
               \/ i > 1 /\ chan'[k][i - 1] = Before(chan'[k][i])
               \/ \E a \in DOMAIN input' : input'[a] = Before(chan'[k][i])
               \/ \E l \in 1..(k - 1) : \E j \in DOMAIN chan'[l] : chan'[l][j] = Before(chan'[k][i])
    <3>1. chan'[k] = chan[k + 1] /\ k + 1 \in DOMAIN chan /\ k \in Nat \ {0} /\ (k + 1) - 1 = k
      BY <1>2, <1>3, <1>5
    <3>2. PICK b : b = Before(chan[k + 1][i])
      OBVIOUS
    <3>3. \/ chan[k + 1][i][2] = 1
          \/ i > 1 /\ chan[k + 1][i - 1] = b
          \/ InInput(b)
          \/ \E l \in 1..k : \E j \in DOMAIN chan[l] : chan[l][j] = b
      BY <2>2, <3>1, <3>2 DEF FlowInv, OrderInv, ChanOrder
    <3>4. InInput(b) => InInput(b)'
      BY <1>6
    <3>5. ASSUME NEW l \in 1..k, NEW j \in DOMAIN chan[l], chan[l][j] = b
          PROVE  InInput(b)' \/ \E q \in 1..(k - 1) : \E a \in DOMAIN chan'[q] : chan'[q][a] = b
      <4>1. CASE l = 1
        BY <1>6, <3>5, <4>1 DEF c
      <4>2. CASE l # 1
        <5>1. l - 1 \in 1..(k - 1) /\ l - 1 \in 1..(m - 1) /\ (l - 1) + 1 = l
          BY <1>2, <3>1, <4>2
        <5>2. chan'[l - 1] = chan[l]
          BY <1>3, <5>1
        <5>. QED BY <3>5, <5>1, <5>2
      <4>. QED BY <4>1, <4>2
    <3>6. Before(chan'[k][i]) = b
      BY <3>1, <3>2
    <3>7. InInput(b)' => \E a \in DOMAIN input' : input'[a] = b
      BY DEF InInput
    <3>. QED BY <3>1, <3>3, <3>4, <3>5, <3>6, <3>7
  <2>3. ASSUME NEW q \in Pipes, NEW i \in DOMAIN hand'[q]
        PROVE  /\ hand'[q][i][1] = q
               /\ \/ hand'[q][i][2] = 1
                  \/ i > 1 /\ hand'[q][i - 1] = Before(hand'[q][i])
                  \/ \E a \in DOMAIN input' : input'[a] = Before(hand'[q][i])
                  \/ \E k \in DOMAIN chan' : \E a \in DOMAIN chan'[k] : chan'[k][a] = Before(hand'[q][i])
    <3>1. hand'[q] = hand[q] /\ i \in DOMAIN hand[q]
      BY <1>1, <2>3
    <3>2. PICK b : b = Before(hand[q][i])
      OBVIOUS
    <3>3. /\ hand[q][i][1] = q
          /\ \/ hand[q][i][2] = 1
             \/ i > 1 /\ hand[q][i - 1] = b
             \/ InInput(b) \/ InChan(b)
      BY <3>1, <3>2 DEF FlowInv, OrderInv, HandOrder
    <3>4. InInput(b) \/ InChan(b) => InInput(b)' \/ InChan(b)'
      BY <1>6
    <3>5. /\ InInput(b)' => \E a \in DOMAIN input' : input'[a] = b
          /\ InChan(b)' => \E k \in DOMAIN chan' : \E a \in DOMAIN chan'[k] : chan'[k][a] = b
      BY DEF InInput, InChan
    <3>. QED BY <3>1, <3>2, <3>3, <3>4, <3>5
  <2>4. InputOrder'
    BY <1>4, <2>1 DEF InputOrder, Before
  <2>5. ChanOrder'
    BY <1>3, <2>2 DEF ChanOrder, Before, InInput
  <2>6. HandOrder'
    <3>1. Pipes' = Pipes
      BY <1>1
    <3>. QED BY <2>3, <3>1 DEF HandOrder, Before, InInput, InChan
  <2>. QED BY <2>4, <2>5, <2>6 DEF OrderInv
<1>8. OnceInv'
  <2>1. \A i \in DOMAIN c : c[i] \in Bytes /\ InChan(c[i])
    BY <1>2, <1>5, <1>6 DEF c
  <2>2. ASSUME NEW j \in 1..(n + Len(c)), NEW k \in 1..(n + Len(c)), input'[j] = input'[k]
        PROVE  j = k
    <3>1. \A a \in 1..n : \A d \in 1..Len(c) : input[a] # c[d]
      BY <1>2, <2>1 DEF FlowInv, OnceInv, InInput
    <3>2. \A a \in 1..n : input'[a] = input[a]
      BY <1>4, <1>5
    <3>3. \A a \in 1..(n + Len(c)) : a > n => input'[a] = c[a - n]
      <4>1. n \in Nat /\ Len(c) \in Nat
        BY <1>2
      <4>. QED BY ONLY <1>4, <4>1
    <3>4. CASE j \in 1..n /\ k \in 1..n
      BY <1>2, <2>2, <3>2, <3>4 DEF FlowInv, OnceInv
    <3>5. CASE j > n /\ j - n \in 1..Len(c) /\ k > n /\ k - n \in 1..Len(c)
      <4>1. c[j - n] = c[k - n]
        BY <2>2, <3>3, <3>5
      <4>2. j - n = k - n
        <5>1. \A a, d \in DOMAIN c : c[a] = c[d] => a = d
          BY <1>2, <1>5 DEF FlowInv, OnceInv, c
        <5>. QED BY <1>2, <3>5, <4>1, <5>1
      <4>. QED BY <1>2, <3>5, <4>2
    <3>6. CASE j \in 1..n /\ k > n /\ k - n \in 1..Len(c)
      BY <2>2, <3>1, <3>2, <3>3, <3>6
    <3>7. CASE k \in 1..n /\ j > n /\ j - n \in 1..Len(c)
      BY <2>2, <3>1, <3>2, <3>3, <3>7
    <3>. QED BY <1>5, <3>4, <3>5, <3>6, <3>7
  <2>3. ASSUME NEW k \in DOMAIN chan', NEW l \in DOMAIN chan',
               NEW i \in DOMAIN chan'[k], NEW j \in DOMAIN chan'[l], chan'[k][i] = chan'[l][j]
        PROVE  k = l /\ i = j
    <3>1. k \in 1..(m - 1) /\ l \in 1..(m - 1)
      BY <1>3
    <3>2. /\ chan'[k] = chan[k + 1] /\ k + 1 \in DOMAIN chan
          /\ chan'[l] = chan[l + 1] /\ l + 1 \in DOMAIN chan
      BY <1>2, <1>3, <1>5, <3>1
    <3>3. k + 1 = l + 1 /\ i = j
      BY <2>3, <3>2 DEF FlowInv, OnceInv
    <3>. QED BY <3>1, <3>3
  <2>4. ASSUME NEW b \in Bytes, InChan(b)' PROVE ~InInput(b)'
    <3>1. ~InInput(b)
      BY <1>6, <2>4 DEF FlowInv, OnceInv
    <3>2. ~ \E i \in DOMAIN c : c[i] = b
      <4>1. SUFFICES ASSUME NEW i \in DOMAIN c, c[i] = b PROVE FALSE
        OBVIOUS
      <4>2. PICK k \in 1..(m - 1) : \E j \in DOMAIN chan'[k] : chan'[k][j] = b
        BY <1>3, <2>4 DEF InChan
      <4>3. chan'[k] = chan[k + 1] /\ k + 1 \in DOMAIN chan /\ k + 1 # 1 /\ 1 \in DOMAIN chan
        BY <1>2, <1>3, <1>5
      <4>. QED BY <4>1, <4>2, <4>3 DEF FlowInv, OnceInv, c
    <3>. QED BY <1>6, <3>1, <3>2
  <2>5. \A b \in Bytes : InHand(b)' => ~InInput(b)' /\ ~InChan(b)'
    BY <1>6, <2>1 DEF FlowInv, OnceInv
  <2>6. \A b \in Bytes : InInput(b)' \/ InChan(b)' \/ InHand(b)' => b[2] <= read[b[1]]
    BY <1>6, <2>1 DEF FlowInv, OnceInv
  <2>7. \A q \in Pipes : \A i, j \in DOMAIN hand[q] : hand[q][i] = hand[q][j] => i = j
    BY DEF FlowInv, OnceInv
  <2>8. \A j, k \in DOMAIN input' : input'[j] = input'[k] => j = k
    BY <1>4, <2>2
  <2>9. \A k, l \in DOMAIN chan' : \A i \in DOMAIN chan'[k], j \in DOMAIN chan'[l] :
          chan'[k][i] = chan'[l][j] => k = l /\ i = j
    BY <2>3, Zenon
  <2>10. \A b \in Bytes : InChan(b)' => ~InInput(b)'
    BY <2>4
  <2>. QED BY <1>1, <2>5, <2>6, <2>7, <2>8, <2>9, <2>10 DEF OnceInv
<1>9. KeptInv'
  <2>1. SUFFICES ASSUME NEW q \in Pipes, reader[q] = "running" \/ ~interrupted, NEW i \in 1..read[q]
                 PROVE  InInput(<<q, i>>)' \/ InChan(<<q, i>>)' \/ InHand(<<q, i>>)'
    BY <1>1 DEF KeptInv
  <2>2. InInput(<<q, i>>) \/ InChan(<<q, i>>) \/ InHand(<<q, i>>)
    BY <2>1 DEF FlowInv, KeptInv
  <2>. QED BY <1>6, <2>2
<1>. QED BY <1>7, <1>8, <1>9 DEF FlowInv

\* Nothing moves, or what a reader held is dropped by an interrupt.
LEMMA FlowStays ==
  ASSUME TypeInv, FlowInv, UNCHANGED <<job, input, chan, read>>,
         \/ /\ hand' = hand
            /\ \A p \in Pipes : reader'[p] = "running" \/ ~interrupted' => reader[p] = "running" \/ ~interrupted
         \/ /\ hand' = [p \in Pipes |-> <<>>]
            /\ interrupted' /\ \A p \in Pipes : reader'[p] # "running"
  PROVE  FlowInv'
<1>1. Pipes' = Pipes /\ Bytes' = Bytes /\ input' = input /\ chan' = chan /\ read' = read
  BY DEF Pipes, Bytes
<1>2. \A b : (InInput(b)' <=> InInput(b)) /\ (InChan(b)' <=> InChan(b))
  BY <1>1 DEF InInput, InChan
<1>3. /\ \A p \in Pipes : hand'[p] = hand[p] \/ hand'[p] = <<>>
      /\ \A b \in Bytes : InHand(b)' => InHand(b)
  <2>1. \A p \in Pipes : hand'[p] = hand[p] \/ hand'[p] = <<>>
    OBVIOUS
  <2>2. ASSUME NEW b \in Bytes, InHand(b)' PROVE InHand(b)
    <3>1. b[1] \in Pipes
      BY FlowFacts
    <3>. QED BY <2>1, <2>2, <3>1 DEF InHand
  <2>. QED BY <2>1, <2>2
<1>4. OrderInv'
  <2>1. InputOrder'
    BY <1>1 DEF FlowInv, OrderInv, InputOrder, Before
  <2>2. ChanOrder'
    <3>1. ASSUME NEW k \in DOMAIN chan, NEW i \in DOMAIN chan[k]
          PROVE  \/ chan[k][i][2] = 1
                 \/ i > 1 /\ chan[k][i - 1] = Before(chan[k][i])
                 \/ \E a \in DOMAIN input : input[a] = Before(chan[k][i])
                 \/ \E l \in 1..(k - 1) : \E j \in DOMAIN chan[l] : chan[l][j] = Before(chan[k][i])
      BY DEF FlowInv, OrderInv, ChanOrder, InInput
    <3>2. ASSUME NEW k \in DOMAIN chan', NEW i \in DOMAIN chan'[k]
          PROVE  \/ chan'[k][i][2] = 1
                 \/ i > 1 /\ chan'[k][i - 1] = Before(chan'[k][i])
                 \/ \E a \in DOMAIN input' : input'[a] = Before(chan'[k][i])
                 \/ \E l \in 1..(k - 1) : \E j \in DOMAIN chan'[l] : chan'[l][j] = Before(chan'[k][i])
      BY ONLY <1>1, <3>1
    <3>. QED BY ONLY <3>2 DEF ChanOrder, Before, InInput
  <2>3. HandOrder'
    <3>1. ASSUME NEW q \in Pipes, NEW i \in DOMAIN hand'[q]
          PROVE  /\ hand'[q][i][1] = q
                 /\ \/ hand'[q][i][2] = 1
                    \/ i > 1 /\ hand'[q][i - 1] = Before(hand'[q][i])
                    \/ InInput(Before(hand'[q][i])) \/ InChan(Before(hand'[q][i]))
      BY <1>3, <3>1 DEF FlowInv, OrderInv, HandOrder
    <3>. QED BY <1>1, <3>1 DEF HandOrder, InInput, InChan, Before
  <2>. QED BY <2>1, <2>2, <2>3 DEF OrderInv
<1>5. OnceInv'
  <2>1. \A q \in Pipes : \A i, j \in DOMAIN hand'[q] : hand'[q][i] = hand'[q][j] => i = j
    BY <1>3 DEF FlowInv, OnceInv
  <2>2. /\ \A b \in Bytes : InChan(b)' => ~InInput(b)'
        /\ \A b \in Bytes : InHand(b)' => ~InInput(b)' /\ ~InChan(b)'
        /\ \A b \in Bytes : InInput(b)' \/ InChan(b)' \/ InHand(b)' => b[2] <= read[b[1]]
    BY <1>2, <1>3 DEF FlowInv, OnceInv
  <2>3. /\ \A j, k \in DOMAIN input : input[j] = input[k] => j = k
        /\ \A k, l \in DOMAIN chan : \A i \in DOMAIN chan[k], j \in DOMAIN chan[l] :
             chan[k][i] = chan[l][j] => k = l /\ i = j
    BY DEF FlowInv, OnceInv
  <2>. QED BY <1>1, <2>1, <2>2, <2>3 DEF OnceInv
<1>6. KeptInv'
  <2>1. SUFFICES ASSUME NEW q \in Pipes, reader'[q] = "running" \/ ~interrupted', NEW i \in 1..read[q]
                 PROVE  InInput(<<q, i>>) \/ InChan(<<q, i>>) \/ InHand(<<q, i>>)'
    BY <1>1, <1>2 DEF KeptInv
  <2>2. hand' = hand /\ (reader[q] = "running" \/ ~interrupted)
    BY <2>1
  <2>3. InInput(<<q, i>>) \/ InChan(<<q, i>>) \/ InHand(<<q, i>>)
    BY <2>1, <2>2 DEF FlowInv, KeptInv
  <2>. QED BY <2>2, <2>3 DEF InHand
<1>. QED BY <1>4, <1>5, <1>6 DEF FlowInv

LEMMA FlowStep ==
  ASSUME TypeInv, FlowInv, EndInv, [Next]_vars
  PROVE  FlowInv'
<1>1. job' = job
  BY JobStays
<1>2. ASSUME NEW p \in Pipes, Read(p) PROVE FlowInv'
  BY <1>2, FlowReads
<1>3. ASSUME NEW p \in Pipes, ReadEnd(p) PROVE FlowInv'
  <2>1. /\ UNCHANGED <<job, input, chan, read>> /\ hand' = hand /\ interrupted' = interrupted
        /\ reader[p] = "running" /\ (reader' = [reader EXCEPT ![p] = "ended"] \/ reader' = [reader EXCEPT ![p] = "failed"])
    BY <1>3 DEF ReadEnd, interruptVars
  <2>2. \A q \in Pipes : reader'[q] = "running" => reader[q] = "running"
    BY <2>1, FlowFacts
  <2>. QED BY <2>1, <2>2, FlowStays
<1>4. ASSUME NEW p \in Pipes, Send(p) PROVE FlowInv'
  <2>1. CASE closed
    <3>1. /\ UNCHANGED <<job, input, chan, read>> /\ hand' = hand /\ interrupted' = interrupted
          /\ reader[p] = "running" /\ reader' = [reader EXCEPT ![p] = "ended"]
      BY <1>4, <2>1 DEF Send, interruptVars
    <3>2. \A q \in Pipes : reader'[q] = "running" => reader[q] = "running"
      BY <3>1, FlowFacts
    <3>. QED BY <3>1, <3>2, FlowStays
  <2>2. CASE ~closed
    BY <1>4, <2>2, FlowSends
  <2>. QED BY <2>1, <2>2
<1>5. CASE CtrlC
  <2>1. UNCHANGED <<job, input, chan, read>>
    BY <1>5 DEF CtrlC
  <2>2. CASE InterruptStdin
    <3>1. /\ hand' = [p \in Pipes |-> <<>>] /\ interrupted'
          /\ \A p \in Pipes : reader'[p] # "running"
      BY <2>2 DEF InterruptStdin
    <3>. QED BY <2>1, <3>1, FlowStays
  <2>3. CASE ~InterruptStdin
    <3>1. hand' = hand /\ reader' = reader /\ (interrupted' = interrupted \/ interrupted')
      BY <1>5, <2>3 DEF CtrlC, InterruptCommand, InterruptFinish, InterruptLost
    <3>. QED BY <2>1, <3>1, FlowStays
  <2>. QED BY <2>2, <2>3
<1>6. CASE Receive
  <2>1. UNCHANGED <<job, read, hand, reader, interrupted>>
    BY <1>6 DEF Receive, readerVars, interruptVars
  <2>2. CASE UNCHANGED <<chan, input>>
    BY <2>1, <2>2, FlowStays
  <2>3. CASE chan # <<>> /\ chan' = Tail(chan) /\ input' = input \o Head(chan)
    BY <2>1, <2>3, FlowReceives
  <2>. QED BY <1>6, <2>2, <2>3 DEF Receive
<1>7. CASE ChildExits \/ Linger \/ Push \/ Flush \/ SessionStep \/ ControlStep
  <2>1. UNCHANGED <<job, input, chan, read, hand, reader, interrupted>>
    BY <1>1, <1>7 DEF ChildExits, Linger, Push, Flush, SessionStep, Admit, Finish, MakeDurable,
       ControlStep, WaitForOldest, CloseChannel, Join, WriterFails, vars, readerVars, interruptVars
  <2>. QED BY <2>1, FlowStays
<1>. QED BY <1>2, <1>3, <1>4, <1>5, <1>6, <1>7, StepCases DEF PipeStep, Readers, TakeStep

\* The task knows of the end of the input what it knew, or has seen it.
LEMMA EndStays ==
  ASSUME EndInv, UNCHANGED <<job, read, hand, reader, closed, child, interrupted>>, chan' = chan \/ chan # <<>>,
         pc' \in {"flush", "join", "finish", "done"} \/ Admitting("join")' =>
           \/ pc \in {"flush", "join", "finish", "done"} \/ Admitting("join")
           \/ interrupted \/ InputEnds,
         pc' \in {"flush", "join", "finish", "done"} \/ Admitting("join")' => chan' = chan,
         pc' \in {"finish", "done"} => pc \in {"finish", "done"} \/ \A p \in Pipes : reader[p] = "ended"
  PROVE  EndInv'
<1>1. Pipes' = Pipes
  BY DEF Pipes
<1>2. chan' = chan => (InputEnds' <=> InputEnds)
  BY <1>1 DEF InputEnds
<1>. QED BY <1>1, <1>2 DEF EndInv

LEMMA EndStep ==
  ASSUME TypeInv, EndInv, [Next]_vars
  PROVE  EndInv'
<1>1. job' = job /\ Pipes' = Pipes
  BY JobStays
<1>2. /\ reader \in [Pipes -> {"running", "ended", "failed"}]
      /\ hand \in [Pipes -> Seq(Bytes)] /\ read \in [Pipes -> Nat]
  BY FlowFacts
<1>3. ASSUME NEW p \in Pipes, Read(p) PROVE EndInv'
  <2>1. PICK n \in 1..MaxChunk :
          /\ hand' = [hand EXCEPT ![p] = [i \in 1..n |-> <<p, read[p] + i>>]]
          /\ read' = [read EXCEPT ![p] = @ + n]
    BY <1>3 DEF Read
  <2>2. \A q \in Pipes \ {p} : hand'[q] = hand[q] /\ read'[q] = read[q]
    BY <1>2, <2>1
  <2>3. /\ reader[p] = "running"
        /\ UNCHANGED <<reader, chan, closed, child, interrupted, pc, back>>
    BY <1>3 DEF Read, interruptVars, appendVars
  <2>4. (InputEnds' <=> InputEnds) /\ (Admitting("join")' <=> Admitting("join"))
    BY <1>1, <2>3 DEF InputEnds, Admitting
  <2>. QED BY <1>1, <2>2, <2>3, <2>4 DEF EndInv
<1>4. ASSUME NEW p \in Pipes, ReadEnd(p) PROVE EndInv'
  <2>1. /\ reader[p] = "running" /\ hand[p] = <<>>
        /\ \/ /\ read[p] = Len(job.text[p]) \/ child = "killed"
              /\ reader' = [reader EXCEPT ![p] = "ended"]
           \/ reader' = [reader EXCEPT ![p] = "failed"]
        /\ UNCHANGED <<read, hand, chan, closed, child, interrupted, pc, back>>
    BY <1>4 DEF ReadEnd, interruptVars, appendVars
  <2>2. ~InputEnds /\ (Admitting("join")' <=> Admitting("join"))
    BY <2>1 DEF InputEnds, Admitting
  <2>3. \A q \in Pipes \ {p} : reader'[q] = reader[q]
    BY <1>2, <2>1
  <2>4. reader'[p] = "failed" \/ (reader'[p] = "ended" /\ (read[p] = Len(job.text[p]) \/ child = "killed"))
    BY <1>2, <2>1
  <2>5. pc \notin {"finish", "done"}
    BY <2>1 DEF EndInv
  <2>. QED BY <1>1, <2>1, <2>2, <2>3, <2>4, <2>5 DEF EndInv
<1>5. ASSUME NEW p \in Pipes, Send(p) PROVE EndInv'
  <2>1. reader[p] = "running" /\ UNCHANGED <<read, closed, child, interrupted, pc, back>>
    BY <1>5 DEF Send, interruptVars, appendVars
  <2>2. ~InputEnds /\ (Admitting("join")' <=> Admitting("join"))
    BY <2>1 DEF InputEnds, Admitting
  <2>3. pc \notin {"finish", "done"}
    BY <2>1 DEF EndInv
  <2>4. CASE closed
    BY <2>1, <2>3, <2>4 DEF EndInv
  <2>5. CASE ~closed
    <3>1. reader' = reader /\ \A q \in Pipes \ {p} : hand'[q] = hand[q]
      BY <1>2, <1>5, <2>5 DEF Send
    <3>. QED BY <1>1, <2>1, <2>2, <2>3, <3>1 DEF EndInv
  <2>. QED BY <2>4, <2>5
<1>6. CASE CtrlC
  <2>1. UNCHANGED <<read, chan, closed, back>>
    BY <1>6 DEF CtrlC, appendVars
  <2>2. CASE InterruptStdin
    <3>1. interrupted' /\ \A p \in Pipes : reader'[p] = "ended"
      BY <2>2 DEF InterruptStdin
    <3>. QED BY <1>1, <3>1 DEF EndInv
  <2>3. CASE InterruptCommand
    <3>1. interrupted' /\ UNCHANGED <<reader, pc>>
      BY <2>3 DEF InterruptCommand
    <3>. QED BY <1>1, <3>1 DEF EndInv
  <2>4. CASE InterruptFinish
    <3>1. pc' = "aborted" /\ UNCHANGED <<reader, hand, child, interrupted>>
      BY <2>4 DEF InterruptFinish
    <3>. QED BY <1>1, <2>1, <3>1 DEF EndInv, Admitting
  <2>5. CASE InterruptLost
    <3>1. UNCHANGED <<reader, hand, child, interrupted, pc>>
      BY <2>5 DEF InterruptLost
    <3>2. (InputEnds' <=> InputEnds) /\ (Admitting("join")' <=> Admitting("join"))
      BY <1>1, <2>1, <3>1 DEF InputEnds, Admitting
    <3>. QED BY <1>1, <2>1, <3>1, <3>2 DEF EndInv
  <2>. QED BY <1>6, <2>2, <2>3, <2>4, <2>5 DEF CtrlC
<1>7. CASE ChildExits
  <2>1. child' = "exited" /\ UNCHANGED <<read, hand, reader, chan, closed, interrupted, pc, back>>
    BY <1>7 DEF ChildExits, readerVars, interruptVars, appendVars
  <2>2. (InputEnds' <=> InputEnds) /\ (Admitting("join")' <=> Admitting("join"))
    BY <1>1, <2>1 DEF InputEnds, Admitting
  <2>. QED BY <1>1, <2>1, <2>2 DEF EndInv
<1>8. CASE CloseChannel
  <2>1. interrupted /\ UNCHANGED <<reader, interrupted, pc>>
    BY <1>8 DEF CloseChannel, ClosesChannel, readerVars, interruptVars
  <2>. QED BY <1>1, <2>1 DEF EndInv
<1>9. CASE TakeStep \/ SessionStep \/ WaitForOldest \/ Join \/ WriterFails \/ UNCHANGED vars
  <2>1. UNCHANGED <<job, read, hand, reader, closed, child, interrupted>>
    BY <1>1, <1>9 DEF TakeStep, Receive, Linger, Push, Flush, SessionStep, Admit, Finish, MakeDurable,
       WaitForOldest, Join, WriterFails, vars, readerVars, interruptVars
  <2>2. CASE TakeStep
    <3>1. chan' = chan \/ (chan # <<>> /\ pc' = "push")
      BY <2>2 DEF TakeStep, Receive, Linger, Push, Flush
    <3>2. pc' \in {"flush", "join", "finish", "done"} \/ Admitting("join")' =>
            pc = "flush" \/ interrupted \/ InputEnds
      BY <2>2 DEF TakeStep, Receive, Linger, Push, PushLine, PushBytes, Flush, AppendRecord, Admitting
    <3>3. pc' \notin {"finish", "done"}
      BY <2>2 DEF TakeStep, Receive, Linger, Push, PushLine, PushBytes, Flush, AppendRecord
    <3>4. pc' = "push" => ~(pc' \in {"flush", "join", "finish", "done"} \/ Admitting("join")')
      BY DEF Admitting
    <3>. QED BY <2>1, <3>1, <3>2, <3>3, <3>4, EndStays
  <2>3. CASE Admit
    <3>1. /\ pc = "admit" /\ chan' = chan /\ back' = back /\ back \in {"receive", "push", "join"}
          /\ pc' \in {back, "wait", "failed", "admit"}
      BY <2>3, TaskFacts DEF Admit, Submit, Fail
    <3>2. /\ pc' \in {"flush", "join", "finish", "done"} \/ Admitting("join")' => Admitting("join")
          /\ pc' \notin {"finish", "done"}
      BY <3>1 DEF Admitting
    <3>. QED BY <2>1, <3>1, <3>2, EndStays
  <2>4. CASE WaitForOldest
    <3>1. pc = "wait" /\ pc' = "admit" /\ chan' = chan /\ back' = back
      BY <2>4 DEF WaitForOldest, appendVars
    <3>2. Admitting("join")' => Admitting("join")
      BY <3>1 DEF Admitting
    <3>. QED BY <2>1, <3>1, <3>2, EndStays
  <2>5. CASE Finish \/ Join \/ MakeDurable \/ WriterFails \/ UNCHANGED vars
    <3>1. chan' = chan /\ back' = back
      BY <2>5 DEF Finish, Join, MakeDurable, WriterFails, vars, appendVars
    <3>2. \/ pc' = pc \/ pc' = "failed" \/ (pc = "finish" /\ pc' = "done")
          \/ (pc = "join" /\ pc' = "finish" /\ \A p \in Pipes : reader[p] = "ended")
      BY <2>5 DEF Finish, Join, Fail, MakeDurable, WriterFails, vars
    <3>3. Admitting("join")' => Admitting("join")
      BY <3>1, <3>2 DEF Admitting
    <3>. QED BY <2>1, <3>1, <3>2, <3>3, EndStays
  <2>. QED BY <1>9, <2>2, <2>3, <2>4, <2>5 DEF SessionStep
<1>. QED BY <1>3, <1>4, <1>5, <1>6, <1>7, <1>8, <1>9, StepCases DEF PipeStep, Readers, ControlStep

-----------------------------------------------------------------------------
(* The invariant, and what follows from it.                                *)

LEMMA CliInvInit == Init => CliInv
<1>. SUFFICES ASSUME Init PROVE CliInv
  OBVIOUS
<1>1. /\ job \in Inputs /\ read = [p \in Pipes |-> 0] /\ hand = [p \in Pipes |-> <<>>]
      /\ reader = [p \in Pipes |-> "running"] /\ chan = <<>> /\ closed = FALSE
      /\ child \in {"exited", "running"}
      /\ pressed = 0 /\ interrupted = FALSE /\ ignored = FALSE
      /\ pc = "receive" /\ rest = <<>> /\ buf = <<>> /\ deadline = FALSE
      /\ batch = <<>> /\ back = "receive"
      /\ tickets = <<>> /\ pendRecords = 0 /\ pendBytes = 0 /\ records = 0
      /\ accepted = <<>> /\ durable = 0 /\ broken = FALSE /\ input = <<>>
  BY DEF Init
<1>2. \A S : <<>> \in Seq(S)
  OBVIOUS
<1>3. Len(<<>>) = 0 /\ DOMAIN <<>> = {}
  OBVIOUS
<1>4. /\ MaxPayload \in Nat \ {0} /\ MaxChunk \in Nat \ {0} /\ ChannelCap \in Nat \ {0}
      /\ WindowRecords \in Nat \ {0} /\ WindowBytes \in Nat \ {0} /\ MaxInterrupts \in Nat
  BY CliAssumption
<1>5. TypeInv
  <2>1. PipeTypes
    <3>1. \A p \in Pipes : Len(job.text[p]) \in Nat
      BY <1>1, CliAssumption DEF Pipes
    <3>2. read \in [Pipes -> Nat] /\ hand \in [Pipes -> Seq(Bytes)]
      <4>1. [p \in Pipes |-> <<>>] \in [Pipes -> Seq(Bytes)]
        BY <1>2
      <4>. QED BY <1>1, <4>1
    <3>3. reader \in [Pipes -> {"running", "ended", "failed"}]
      BY <1>1
    <3>4. \A p \in Pipes : read[p] <= Len(job.text[p]) /\ Len(hand[p]) <= MaxChunk
      <4>1. \A p \in Pipes : read[p] = 0 /\ hand[p] = <<>>
        BY <1>1
      <4>. QED BY <1>3, <1>4, <3>1, <4>1
    <3>5. chan \in Seq(Seq(Bytes)) /\ Len(chan) <= ChannelCap
      BY <1>1, <1>2, <1>3, <1>4
    <3>6. job \in Inputs
      BY <1>1
    <3>. QED BY <3>2, <3>3, <3>4, <3>5, <3>6 DEF PipeTypes
  <2>2. FlagTypes
    <3>1. closed \in BOOLEAN /\ interrupted \in BOOLEAN /\ ignored \in BOOLEAN /\ broken \in BOOLEAN
      BY <1>1
    <3>2. child \in {"running", "exited", "killed"} /\ pressed \in 0..MaxInterrupts
      BY <1>1, <1>4
    <3>. QED BY <3>1, <3>2, Zenon DEF FlagTypes
  <2>3. TaskTypes
    BY <1>1, <1>2 DEF TaskTypes
  <2>4. SessionTypes
    BY <1>1, <1>2, <1>3 DEF SessionTypes
  <2>. QED BY <2>1, <2>2, <2>3, <2>4 DEF TypeInv
<1>6. WindowInv
  <2>1. /\ SumRecords(tickets) = Total(<<>>) /\ SumBytes(tickets) = Total(<<>>)
        /\ Total(RecordCounts(accepted)) = Total(<<>>)
    <3>1. /\ [i \in DOMAIN tickets |-> tickets[i].records] = <<>>
          /\ [i \in DOMAIN tickets |-> tickets[i].bytes] = <<>>
          /\ RecordCounts(accepted) = <<>>
      BY <1>1, <1>3 DEF RecordCounts
    <3>. QED BY <3>1, Zenon DEF SumRecords, SumBytes
  <2>. QED BY <1>1, <1>3, <1>4, <2>1, TotalEmpty DEF WindowInv, Resolved, Overfull
<1>7. PlaceInv
  BY <1>1, <1>3, <1>4 DEF PlaceInv, Running, Admitting, NoNewline
<1>8. ContentInv
  <2>1. Written = <<>> /\ ~LastLineOpen
    BY <1>1 DEF Written, LastLineOpen
  <2>2. LineText(Written) = <<>>
    BY <1>3, <2>1 DEF LineText
  <2>3. Tail1 = <<>>
    BY <2>1 DEF Tail1
  <2>4. \A S : \A s \in Seq(S) : s \o <<>> = s
    BY ConcatEmptySeq
  <2>5. <<>> \o <<>> = <<>>
    BY <1>2, <2>4
  <2>. QED BY <1>1, <2>1, <2>2, <2>3, <2>5, FlattenEmpty, ErasedEmpty, Zenon DEF ContentInv
<1>9. PipeInv
  <2>1. \A b : ~InInput(b) /\ ~InChan(b)
    BY <1>1, <1>3 DEF InInput, InChan
  <2>2. \A b \in Bytes : ~InHand(b)
    BY <1>1, <1>3, <1>5, JobFacts DEF InHand
  <2>3. OrderInv
    BY <1>1, <1>3 DEF OrderInv, InputOrder, ChanOrder, HandOrder
  <2>4. OnceInv
    BY <1>1, <1>3, <2>1, <2>2 DEF OnceInv
  <2>5. KeptInv
    BY <1>1 DEF KeptInv
  <2>6. EndInv
    BY <1>1 DEF EndInv, Admitting
  <2>. QED BY <2>3, <2>4, <2>5, <2>6 DEF PipeInv
<1>. QED BY <1>5, <1>6, <1>7, <1>8, <1>9 DEF CliInv

LEMMA CliInvStep == CliInv /\ [Next]_vars => CliInv'
<1>. SUFFICES ASSUME CliInv, [Next]_vars PROVE CliInv'
  OBVIOUS
<1>1. TypeInv /\ WindowInv /\ PlaceInv /\ ContentInv /\ FlowInv /\ EndInv
  BY DEF CliInv, PipeInv, FlowInv
<1>2. PipeTypes' /\ FlagTypes'
  BY <1>1, PipeTypesStep, FlagTypesStep
<1>3. SessionTypes' /\ WindowInv'
  BY <1>1, WindowStep
<1>4. TaskTypes' /\ PlaceInv' /\ ContentInv'
  <2>1. TaskInv'
    BY <1>1, TaskStep
  <2>. QED BY <2>1 DEF TaskInv
<1>5. OrderInv' /\ OnceInv' /\ KeptInv'
  <2>1. FlowInv'
    BY <1>1, FlowStep
  <2>. QED BY <2>1 DEF FlowInv
<1>6. EndInv'
  BY <1>1, EndStep
<1>7. TypeInv'
  BY <1>2, <1>3, <1>4 DEF TypeInv
<1>8. PipeInv'
  BY <1>5, <1>6 DEF PipeInv
<1>. QED BY <1>3, <1>4, <1>7, <1>8 DEF CliInv

LEMMA CliInvAlways == Spec => []CliInv
BY CliInvInit, CliInvStep, PTL DEF Spec

LEMMA CliInvPreserves == CliInv => InputPreserved
<1>. SUFFICES ASSUME CliInv PROVE InputPreserved
  OBVIOUS
<1>1. TypeInv /\ ContentInv /\ InputOrder /\ OnceInv
  BY DEF CliInv, PipeInv, OrderInv
<1>2. Running => IF Lines
                   THEN FlattenSeq(LineText(Written)) \o buf \o Erased(rest) = Erased(input) \o Tail1
                   ELSE FlattenSeq(Written) \o buf \o rest = input
  BY <1>1 DEF ContentInv
<1>3. ASSUME NEW k \in DOMAIN input
      PROVE  /\ input[k][2] = 1 \/ \E j \in 1..(k - 1) : input[j] = <<input[k][1], input[k][2] - 1>>
             /\ \A j \in 1..(k - 1) : input[j] # input[k]
  <2>1. input[k][2] = 1 \/ \E j \in 1..(k - 1) : input[j] = <<input[k][1], input[k][2] - 1>>
    BY <1>1 DEF InputOrder, Before
  <2>2. k \in Nat /\ \A j \in 1..(k - 1) : j \in DOMAIN input /\ j # k
    <3>1. Len(input) \in Nat /\ DOMAIN input = 1..Len(input) /\ k \in 1..Len(input)
      BY <1>1, FlowFacts
    <3>. QED BY ONLY <3>1
  <2>3. \A a, b \in DOMAIN input : input[a] = input[b] => a = b
    BY <1>1 DEF OnceInv
  <2>4. \A j \in 1..(k - 1) : input[j] # input[k]
    BY <2>2, <2>3, Zenon
  <2>. QED BY <2>1, <2>4
<1>. QED BY <1>2, <1>3 DEF InputPreserved, Running, LineText, Tail1

LEMMA CliInvReports == CliInv => ReportIsTrue
<1>. SUFFICES ASSUME CliInv, pc = "done" PROVE ReportIsTrue
  BY DEF ReportIsTrue
<1>1. TypeInv /\ WindowInv /\ PlaceInv /\ OnceInv /\ KeptInv /\ EndInv
  BY DEF CliInv, PipeInv
<1>2. durable = Len(accepted) /\ records = Total([k \in DOMAIN accepted |-> RecordCount(accepted[k])])
  BY <1>1 DEF WindowInv, RecordCounts
<1>3. buf = <<>> /\ rest = <<>>
  BY <1>1 DEF PlaceInv, Running, Admitting
<1>4. ASSUME ~interrupted, NEW p \in Pipes, NEW i \in DOMAIN job.text[p]
      PROVE  \E k \in DOMAIN input : input[k] = <<p, i>>
  <2>1. chan = <<>> /\ hand[p] = <<>> /\ read[p] = Len(job.text[p])
    BY <1>1, <1>4 DEF EndInv, InputEnds
  <2>2. i \in 1..read[p]
    BY <1>1, <2>1, JobFacts
  <2>3. InInput(<<p, i>>) \/ InChan(<<p, i>>) \/ InHand(<<p, i>>)
    BY <1>1, <1>4, <2>2 DEF KeptInv
  <2>4. ~InChan(<<p, i>>) /\ ~InHand(<<p, i>>)
    BY <2>1 DEF InChan, InHand
  <2>. QED BY <2>3, <2>4 DEF InInput
<1>. QED BY <1>2, <1>3, <1>4 DEF ReportIsTrue

(* `tsf write` loses, duplicates and reorders nothing of its input: every  *)
(* byte it received is in exactly one record, in order, or still in the    *)
(* appender or the chunk, whatever cut in (push_bytes, flush_pending), and *)
(* what it received of a pipe is a prefix of it, each byte once            *)
(* (read_pipe_chunks, the chunk channel).                                  *)
THEOREM InputIsPreserved == Spec => []InputPreserved
BY CliInvAlways, CliInvPreserves, PTL

(* "N records durable" (finish_write) is true for every input: each record *)
(* submitted is durable, none was left pending, and unless Ctrl-C stopped  *)
(* it, every byte of every pipe was received.                              *)
THEOREM ReportsTruth == Spec => []ReportIsTrue
BY CliInvAlways, CliInvReports, PTL

(* wait_for_capacity keeps the submissions within the window: the counters *)
(* are the sums over the pending tickets, however many remove_oldest took  *)
(* away, and beyond the window there is one large record alone, or what an *)
(* interrupt found in the chunk.                                           *)
THEOREM WindowIsKept == Spec => []WindowKept
<1>1. CliInv => WindowKept
  BY TypesImplyTypeOK DEF CliInv, WindowInv, Overfull, WindowKept
<1>. QED BY <1>1, CliInvAlways, PTL

================================================================================
