----------------------------- MODULE WireProofs -----------------------------
(***************************************************************************)
(* An event stream is cut into the same events however it arrives, for     *)
(* every body, size of a chunk and limit: StreamInv is inductive.          *)
(***************************************************************************)
EXTENDS Wire, FiniteSetTheorems, SequenceTheorems, NaturalsInduction, TLAPS

-----------------------------------------------------------------------------
(* Least numbers, parts of sequences, and FlattenSeq.                      *)

LEMMA LeastNumber ==
  ASSUME NEW T, T \subseteq Nat, T # {}
  PROVE  \E m \in T : \A k \in T : m <= k
<1>. DEFINE LessThan == {p \in Nat \X Nat : p[1] < p[2]}
<1>1. IsWellFoundedOn(LessThan, Nat)
  BY NatLessThanWellFounded DEF OpToRel
<1>2. PICK m \in T : \A k \in T : ~ (<<k, m>> \in LessThan)
  <2>. HIDE DEF LessThan
  <2>. QED BY ONLY <1>1, WFMin, T \subseteq Nat, T # {}
<1>3. ASSUME NEW k \in T PROVE m <= k
  <2>1. ~ (<<k, m>> \in LessThan)
    BY <1>2
  <2>. QED BY <2>1
<1>. QED BY <1>3

\* `f` holds the first 1, ..., `n` sequences in one.
JoinUpTo(seqs, n, f) ==
  f = [i \in 1..n |-> IF i = 1 THEN seqs[i] ELSE f[i - 1] \o seqs[i]]

LEMMA JoinExists ==
  ASSUME NEW seqs, NEW n \in Nat
  PROVE  \E f : JoinUpTo(seqs, n, f)
<1>. DEFINE T == {k \in Nat : ~ \E f : JoinUpTo(seqs, k, f)}
<1>. SUFFICES ASSUME T # {} PROVE FALSE
  OBVIOUS
<1>1. PICK m \in T : \A k \in T : m <= k
  BY LeastNumber
<1>2. m # 0
  <2>. DEFINE f == [k \in 1..0 |-> seqs[k]]
  <2>1. JoinUpTo(seqs, 0, f)
    BY DEF JoinUpTo
  <2>. QED BY <2>1
<1>3. m - 1 \in Nat /\ m - 1 \notin T
  BY <1>1, <1>2
<1>4. PICK g : JoinUpTo(seqs, m - 1, g)
  BY <1>3
<1>. DEFINE new == IF m = 1 THEN seqs[m] ELSE g[m - 1] \o seqs[m]
            f == [k \in 1..m |-> IF k = m THEN new ELSE g[k]]
<1>5. \A k \in 1..(m - 1) : g[k] = IF k = 1 THEN seqs[k] ELSE g[k - 1] \o seqs[k]
  BY <1>4, <1>3 DEF JoinUpTo
<1>6. ASSUME NEW k \in 1..m
      PROVE  f[k] = IF k = 1 THEN seqs[k] ELSE f[k - 1] \o seqs[k]
  <2>1. CASE k = m
    BY <2>1, <1>2, <1>3
  <2>2. CASE k # m
    <3>1. k \in 1..(m - 1) /\ f[k] = g[k]
      BY <2>2, <1>3
    <3>2. k = 1 \/ (k - 1 \in 1..m /\ k - 1 # m /\ f[k - 1] = g[k - 1])
      BY <3>1, <1>3
    <3>. QED BY <3>1, <3>2, <1>5
  <2>. QED BY <2>1, <2>2
<1>7. JoinUpTo(seqs, m, f)
  <2>. HIDE DEF f
  <2>1. f = [k \in 1..m |-> f[k]]
    BY DEF f
  <2>. QED BY <2>1, <1>6 DEF JoinUpTo
<1>. QED BY <1>7, <1>1

LEMMA FlattenIsJoin ==
  ASSUME NEW S, NEW seqs \in Seq(Seq(S)), seqs # <<>>
  PROVE  \E f : JoinUpTo(seqs, Len(seqs), f) /\ FlattenSeq(seqs) = f[Len(seqs)]
<1>1. Len(seqs) \in Nat /\ Len(seqs) # 0
  OBVIOUS
<1>2. FlattenSeq(seqs) = (CHOOSE f : JoinUpTo(seqs, Len(seqs), f))[Len(seqs)]
  BY <1>1 DEF FlattenSeq, JoinUpTo
<1>3. PICK f : JoinUpTo(seqs, Len(seqs), f)
  BY <1>1, JoinExists
<1>4. JoinUpTo(seqs, Len(seqs), CHOOSE h : JoinUpTo(seqs, Len(seqs), h))
  BY <1>3, Zenon
<1>. QED BY <1>2, <1>4

LEMMA FlattenEmpty == FlattenSeq(<<>>) = <<>>
<1>1. Len(<<>>) = 0
  OBVIOUS
<1>. QED BY <1>1 DEF FlattenSeq

LEMMA FlattenType ==
  ASSUME NEW S, NEW seqs \in Seq(Seq(S))
  PROVE  FlattenSeq(seqs) \in Seq(S)
<1>1. CASE seqs = <<>>
  <2>1. <<>> \in Seq(S)
    OBVIOUS
  <2>. QED BY <1>1, <2>1, FlattenEmpty
<1>2. CASE seqs # <<>>
  <2>. DEFINE n == Len(seqs)
  <2>1. PICK f : JoinUpTo(seqs, n, f) /\ FlattenSeq(seqs) = f[n]
    BY <1>2, FlattenIsJoin
  <2>2. n \in Nat \ {0} /\ \A k \in 1..n : seqs[k] \in Seq(S)
    BY <1>2
  <2>. HIDE DEF n
  <2>3. \A k \in 1..n : f[k] = IF k = 1 THEN seqs[k] ELSE f[k - 1] \o seqs[k]
    BY <2>1 DEF JoinUpTo
  <2>4. \A k \in 1..n : f[k] \in Seq(S)
    <3>. DEFINE T == {k \in 1..n : f[k] \notin Seq(S)}
    <3>. SUFFICES ASSUME T # {} PROVE FALSE
      OBVIOUS
    <3>1. PICK k \in T : \A j \in T : k <= j
      <4>1. T \subseteq Nat
        OBVIOUS
      <4>. HIDE DEF T
      <4>. QED BY <4>1, LeastNumber
    <3>2. k # 1
      BY <3>1, <2>2, <2>3
    <3>3. k - 1 \in 1..n /\ f[k - 1] \in Seq(S) /\ seqs[k] \in Seq(S)
      BY <3>1, <3>2, <2>2
    <3>4. f[k] = f[k - 1] \o seqs[k]
      BY <3>1, <3>2, <2>3
    <3>5. f[k] \in Seq(S)
      BY <3>3, <3>4, ConcatProperties
    <3>. QED BY <3>1, <3>5
  <2>5. n \in 1..n
    BY <2>2
  <2>. QED BY <2>1, <2>4, <2>5
<1>. QED BY <1>1, <1>2

\* One more sequence comes behind the others.
LEMMA FlattenAppend ==
  ASSUME NEW S, NEW seqs \in Seq(Seq(S)), NEW s \in Seq(S)
  PROVE  FlattenSeq(Append(seqs, s)) = FlattenSeq(seqs) \o s
<1>. DEFINE n == Len(seqs)
            more == Append(seqs, s)
<1>1. /\ n \in Nat /\ more \in Seq(Seq(S)) /\ Len(more) = n + 1 /\ more[n + 1] = s
      /\ \A k \in 1..n : more[k] = seqs[k]
      /\ more # <<>>
  BY AppendProperties
<1>. HIDE DEF more
<1>2. PICK g : JoinUpTo(more, n + 1, g) /\ FlattenSeq(more) = g[n + 1]
  BY <1>1, FlattenIsJoin
<1>3. \A k \in 1..(n + 1) : g[k] = IF k = 1 THEN more[k] ELSE g[k - 1] \o more[k]
  BY <1>2 DEF JoinUpTo
<1>4. CASE seqs = <<>>
  <2>1. n = 0
    BY <1>4
  <2>2. g[1] = s
    BY <2>1, <1>1, <1>3
  <2>3. FlattenSeq(seqs) \o s = s
    BY <1>4, FlattenEmpty, ConcatEmptySeq
  <2>. QED BY <2>1, <2>2, <2>3, <1>2 DEF more
<1>5. CASE seqs # <<>>
  <2>1. PICK f : JoinUpTo(seqs, n, f) /\ FlattenSeq(seqs) = f[n]
    BY <1>5, FlattenIsJoin
  <2>2. \A k \in 1..n : f[k] = IF k = 1 THEN seqs[k] ELSE f[k - 1] \o seqs[k]
    BY <2>1 DEF JoinUpTo
  <2>3. n # 0
    BY <1>5, <1>1
  <2>. HIDE DEF n
  <2>4. \A k \in 1..n : f[k] = g[k]
    <3>. DEFINE T == {k \in 1..n : f[k] # g[k]}
    <3>. SUFFICES ASSUME T # {} PROVE FALSE
      OBVIOUS
    <3>1. PICK k \in T : \A j \in T : k <= j
      <4>1. T \subseteq Nat
        OBVIOUS
      <4>. HIDE DEF T
      <4>. QED BY <4>1, LeastNumber
    <3>2. k \in 1..n /\ k \in 1..(n + 1) /\ more[k] = seqs[k]
      BY <3>1, <1>1
    <3>3. k # 1
      BY <3>1, <3>2, <1>3, <2>2
    <3>4. k - 1 \in 1..n /\ f[k - 1] = g[k - 1]
      BY <3>1, <3>3, <1>1
    <3>5. f[k] = f[k - 1] \o seqs[k] /\ g[k] = g[k - 1] \o more[k]
      BY <3>2, <3>3, <1>3, <2>2
    <3>. QED BY <3>1, <3>2, <3>4, <3>5
  <2>5. n \in 1..n /\ n + 1 \in 1..(n + 1) /\ n + 1 # 1 /\ (n + 1) - 1 = n
    BY <1>1, <2>3
  <2>6. g[n + 1] = g[n] \o more[n + 1] /\ g[n] = f[n]
    BY <1>3, <2>4, <2>5
  <2>. QED BY <2>1, <2>6, <1>1, <1>2 DEF more
<1>. QED BY <1>4, <1>5

LEMMA MinFacts ==
  ASSUME NEW T, T \subseteq Nat, T # {}
  PROVE  Min(T) \in T /\ \A k \in T : Min(T) <= k
<1>1. \E m \in T : \A k \in T : m <= k
  BY LeastNumber
<1>. QED BY <1>1, Zenon DEF Min

LEMMA PartFacts ==
  ASSUME NEW S, NEW s \in Seq(S), NEW a \in Nat, NEW b \in Nat, a <= b, b <= Len(s)
  PROVE  /\ SubSeq(s, a + 1, b) \in Seq(S) /\ Len(SubSeq(s, a + 1, b)) = b - a
         /\ \A i \in 1..(b - a) : SubSeq(s, a + 1, b)[i] = s[a + i]
<1>1. SubSeq(s, a + 1, b) = [i \in 1..(1 + b - (a + 1)) |-> s[i + (a + 1) - 1]]
  OBVIOUS
<1>2. 1 + b - (a + 1) = b - a /\ \A i \in 1..(b - a) : i + (a + 1) - 1 = a + i
  OBVIOUS
<1>3. SubSeq(s, a + 1, b) = [i \in 1..(b - a) |-> s[a + i]]
  BY <1>1, <1>2
<1>4. \A i \in 1..(b - a) : s[a + i] \in S
  OBVIOUS
<1>5. b - a \in Nat
  OBVIOUS
<1>. QED BY <1>3, <1>4, <1>5

\* `t` is what stands in `s` behind `a`.
Inside(t, s, a) == a + Len(t) <= Len(s) /\ \A i \in 1..Len(t) : t[i] = s[a + i]

LEMMA PartInside ==
  ASSUME NEW S, NEW s \in Seq(S), NEW a \in Nat, NEW b \in Nat, a <= b, b <= Len(s)
  PROVE  Inside(SubSeq(s, a + 1, b), s, a)
<1>. QED BY PartFacts DEF Inside

LEMMA SameSequence ==
  ASSUME NEW S, NEW s \in Seq(S), NEW t \in Seq(S), Len(s) = Len(t),
         \A i \in 1..Len(s) : s[i] = t[i]
  PROVE  s = t
OBVIOUS

-----------------------------------------------------------------------------
(* The terminators of an event stream.                                     *)

\* A terminator ends at `at` that begins behind `start`.
Ends(s, start, at) ==
  /\ at \in (start + 2)..Len(s) /\ s[at] = LF
  /\ \/ s[at - 1] = LF
     \/ at >= start + 4 /\ s[at - 1] = CR /\ s[at - 2] = LF /\ s[at - 3] = CR

FirstEnd(s, start, at) == Ends(s, start, at) /\ \A other \in Nat : Ends(s, start, other) => at <= other

Unterminated(s, start) == \A at \in Nat : ~Ends(s, start, at)

LEMMA SomeEnd ==
  ASSUME NEW S, NEW s \in Seq(S), NEW start \in Nat
  PROVE  Unterminated(s, start) \/ \E at \in (start + 2)..Len(s) : FirstEnd(s, start, at)
<1>. DEFINE T == {at \in Nat : Ends(s, start, at)}
<1>1. CASE T = {}
  BY <1>1 DEF Unterminated
<1>2. CASE T # {}
  <2>1. PICK m \in T : \A k \in T : m <= k
    <3>1. T \subseteq Nat
      OBVIOUS
    <3>. HIDE DEF T
    <3>. QED BY <1>2, <3>1, LeastNumber
  <2>. QED BY <2>1 DEF FirstEnd, Ends
<1>. QED BY <1>1, <1>2

\* Behind a later start there are no more of them.
LEMMA EndsLater ==
  ASSUME NEW S, NEW s \in Seq(S), NEW a \in Nat, NEW b \in Nat, a <= b, NEW at \in Nat, Ends(s, b, at)
  PROVE  Ends(s, a, at)
BY DEF Ends

LEMMA EndsInside ==
  ASSUME NEW S, NEW s \in Seq(S), NEW t \in Seq(S), NEW a \in Nat, Inside(t, s, a),
         NEW start \in Nat, NEW at \in Nat
  PROVE  Ends(t, start, at) <=> at <= Len(t) /\ Ends(s, a + start, a + at)
<1>1. Len(t) \in Nat /\ Len(s) \in Nat /\ a + Len(t) <= Len(s)
  BY DEF Inside
<1>2. \A i \in 1..Len(t) : t[i] = s[a + i]
  BY DEF Inside
<1>3. CASE at \in (start + 2)..Len(t)
  <2>1. at \in 1..Len(t) /\ at - 1 \in 1..Len(t) /\ a + at - 1 = a + (at - 1)
        /\ a + at \in (a + start + 2)..Len(s)
    BY <1>1, <1>3
  <2>2. t[at] = s[a + at] /\ t[at - 1] = s[a + at - 1]
    BY <1>2, <2>1
  <2>3. CASE at >= start + 4
    <3>1. at - 2 \in 1..Len(t) /\ at - 3 \in 1..Len(t)
          /\ a + at - 2 = a + (at - 2) /\ a + at - 3 = a + (at - 3)
          /\ a + at >= a + start + 4
      BY <1>1, <1>3, <2>3
    <3>2. t[at - 2] = s[a + at - 2] /\ t[at - 3] = s[a + at - 3]
      BY <1>2, <3>1
    <3>. QED BY <1>1, <1>3, <2>1, <2>2, <2>3, <3>1, <3>2 DEF Ends
  <2>4. CASE ~(at >= start + 4)
    <3>1. ~(a + at >= a + start + 4)
      BY <2>4
    <3>. QED BY <1>1, <1>3, <2>1, <2>2, <2>4, <3>1 DEF Ends
  <2>. QED BY <2>3, <2>4
<1>4. CASE at \notin (start + 2)..Len(t)
  <2>1. at <= Len(t) => a + at \notin (a + start + 2)..Len(s)
    BY <1>1, <1>4
  <2>. QED BY <1>4, <2>1 DEF Ends
<1>. QED BY <1>3, <1>4

\* sse_boundary finds the first one.
LEMMA BoundaryFacts ==
  ASSUME NEW S, NEW s \in Seq(S)
  PROVE  \/ Unterminated(s, 0) /\ Boundary(s) = [end |-> 0, length |-> 0]
         \/ /\ Boundary(s).end \in 2..Len(s) /\ FirstEnd(s, 0, Boundary(s).end)
            /\ Boundary(s).length = IF s[Boundary(s).end - 1] = LF THEN 2 ELSE 4
<1>. DEFINE ends == {at \in DOMAIN s : Terminates(s, at)}
<1>1. \A at \in Nat : at \in ends <=> Ends(s, 0, at)
  BY DEF Terminates, Ends, LF, CR
<1>2. CASE ends = {}
  <2>1. Boundary(s) = [end |-> 0, length |-> 0]
    BY <1>2 DEF Boundary
  <2>. QED BY <1>1, <1>2, <2>1 DEF Unterminated
<1>3. CASE ends # {}
  <2>1. Boundary(s) = [end |-> Min(ends), length |-> IF s[Min(ends) - 1] = LF THEN 2 ELSE 4]
    BY <1>3 DEF Boundary
  <2>2. ends \subseteq Nat
    OBVIOUS
  <2>. HIDE DEF ends
  <2>3. Min(ends) \in ends /\ \A k \in ends : Min(ends) <= k
    BY <1>3, <2>2, MinFacts
  <2>4. PICK m : m = Min(ends)
    OBVIOUS
  <2>5. m \in Nat /\ Ends(s, 0, m) /\ \A k \in Nat : Ends(s, 0, k) => m <= k
    BY <1>1, <2>2, <2>3, <2>4
  <2>6. m \in 2..Len(s) /\ FirstEnd(s, 0, m)
    BY <2>5 DEF Ends, FirstEnd
  <2>7. Boundary(s).end = m /\ Boundary(s).length = IF s[m - 1] = LF THEN 2 ELSE 4
    BY <2>1, <2>4
  <2>. QED BY <2>6, <2>7
<1>. QED BY <1>2, <1>3

\* And so it does in a part of a longer sequence.
LEMMA BoundaryInside ==
  ASSUME NEW S, NEW s \in Seq(S), NEW t \in Seq(S), NEW a \in Nat, Inside(t, s, a)
  PROVE  \/ /\ Boundary(t).end = 0
            /\ \A at \in Nat : Ends(s, a, at) => at > a + Len(t)
         \/ /\ Boundary(t).end \in 2..Len(t) /\ FirstEnd(s, a, a + Boundary(t).end)
            /\ Boundary(t).length = IF s[a + Boundary(t).end - 1] = LF THEN 2 ELSE 4
<1>1. Len(t) \in Nat /\ Len(s) \in Nat /\ a + Len(t) <= Len(s)
  BY DEF Inside
<1>2. \A at \in Nat : Ends(t, 0, at) <=> at <= Len(t) /\ Ends(s, a, a + at)
  <2>1. a + 0 = a /\ 0 \in Nat
    OBVIOUS
  <2>. QED BY <2>1, EndsInside
<1>3. ASSUME NEW at \in Nat, Ends(s, a, at), at <= a + Len(t)
      PROVE  at - a \in Nat /\ Ends(t, 0, at - a)
  <2>1. at - a \in Nat /\ at - a <= Len(t) /\ a + (at - a) = at
    BY <1>1, <1>3 DEF Ends
  <2>. QED BY <1>2, <1>3, <2>1
<1>4. CASE Unterminated(t, 0) /\ Boundary(t) = [end |-> 0, length |-> 0]
  <2>1. \A at \in Nat : Ends(s, a, at) => ~(at <= a + Len(t))
    BY <1>3, <1>4 DEF Unterminated
  <2>. QED BY <1>1, <1>4, <2>1
<1>5. ASSUME Boundary(t).end \in 2..Len(t), FirstEnd(t, 0, Boundary(t).end),
             Boundary(t).length = IF t[Boundary(t).end - 1] = LF THEN 2 ELSE 4
      PROVE  /\ Boundary(t).end \in 2..Len(t) /\ FirstEnd(s, a, a + Boundary(t).end)
             /\ Boundary(t).length = IF s[a + Boundary(t).end - 1] = LF THEN 2 ELSE 4
  <2>1. PICK e \in 2..Len(t) : e = Boundary(t).end
    BY <1>5
  <2>2. e \in Nat /\ e - 1 \in 1..Len(t) /\ a + (e - 1) = a + e - 1
    BY <1>1
  <2>3. t[e - 1] = s[a + e - 1]
    BY <2>2 DEF Inside
  <2>4. Ends(s, a, a + e)
    BY <1>2, <1>5, <2>1, <2>2 DEF FirstEnd
  <2>5. ASSUME NEW other \in Nat, Ends(s, a, other) PROVE a + e <= other
    <3>1. CASE other <= a + Len(t)
      <4>1. other - a \in Nat /\ Ends(t, 0, other - a)
        BY <1>3, <2>5, <3>1
      <4>2. e <= other - a
        BY <1>5, <2>1, <4>1 DEF FirstEnd
      <4>. QED BY <2>2, <4>1, <4>2
    <3>. QED BY <1>1, <2>1, <2>2, <3>1
  <2>. QED BY <1>5, <2>1, <2>3, <2>4, <2>5 DEF FirstEnd
<1>. QED BY <1>4, <1>5, BoundaryFacts

-----------------------------------------------------------------------------
(* The events of a body, found without a parser.                           *)

NextEnds(s, start) ==
  {at \in (start + 2)..Len(s) :
     /\ s[at] = LF
     /\ \/ s[at - 1] = LF
        \/ at >= start + 4 /\ SubSeq(s, at - 3, at) = <<CR, LF, CR, LF>>}

LEMMA FourCells ==
  ASSUME NEW S, NEW s \in Seq(S), NEW at \in 4..Len(s), s[at] = LF
  PROVE  SubSeq(s, at - 3, at) = <<CR, LF, CR, LF>>
           <=> s[at - 1] = CR /\ s[at - 2] = LF /\ s[at - 3] = CR
<1>1. PICK a \in Nat : a = at - 4 /\ at = a + 4
  <2>1. at - 4 \in Nat /\ at = (at - 4) + 4
    OBVIOUS
  <2>. QED BY <2>1
<1>2. at - 3 = a + 1 /\ at - 2 = a + 2 /\ at - 1 = a + 3 /\ Len(s) \in Nat /\ a + 4 <= Len(s)
  BY <1>1
<1>3. PICK t : t = SubSeq(s, a + 1, a + 4)
  OBVIOUS
<1>4. t \in Seq(S) /\ Len(t) = 4 /\ \A i \in 1..4 : t[i] = s[a + i]
  <2>1. a + 4 \in Nat /\ a <= a + 4 /\ (a + 4) - a = 4
    OBVIOUS
  <2>. QED BY <1>2, <1>3, <2>1, PartFacts
<1>5. t[1] = s[a + 1] /\ t[2] = s[a + 2] /\ t[3] = s[a + 3] /\ t[4] = s[a + 4]
  BY <1>4
<1>6. t = <<t[1], t[2], t[3], t[4]>>
  BY <1>4
<1>7. t = <<CR, LF, CR, LF>> <=> t[1] = CR /\ t[2] = LF /\ t[3] = CR /\ t[4] = LF
  BY <1>6
<1>. QED BY <1>1, <1>2, <1>3, <1>5, <1>7

LEMMA NextEndsAre ==
  ASSUME NEW S, NEW s \in Seq(S), NEW start \in Nat
  PROVE  \A at \in Nat : at \in NextEnds(s, start) <=> Ends(s, start, at)
<1> SUFFICES ASSUME NEW at \in Nat PROVE at \in NextEnds(s, start) <=> Ends(s, start, at)
  OBVIOUS
<1>1. CASE at \in (start + 2)..Len(s) /\ s[at] = LF /\ at >= start + 4
  <2>1. at \in 4..Len(s)
    BY <1>1
  <2>. QED BY <1>1, <2>1, FourCells DEF NextEnds, Ends
<1>. QED BY <1>1 DEF NextEnds, Ends

LEMMA MinEnd ==
  ASSUME NEW S, NEW s \in Seq(S), NEW start \in Nat
  PROVE  IF NextEnds(s, start) = {} THEN Unterminated(s, start)
         ELSE FirstEnd(s, start, Min(NextEnds(s, start)))
<1>1. NextEnds(s, start) \subseteq Nat
  BY DEF NextEnds
<1>2. CASE NextEnds(s, start) = {}
  BY <1>2, NextEndsAre DEF Unterminated
<1>3. CASE NextEnds(s, start) # {}
  <2>1. /\ Min(NextEnds(s, start)) \in NextEnds(s, start)
        /\ \A k \in NextEnds(s, start) : Min(NextEnds(s, start)) <= k
    BY <1>1, <1>3, MinFacts
  <2>2. Min(NextEnds(s, start)) \in Nat
    BY <1>1, <2>1
  <2>3. Ends(s, start, Min(NextEnds(s, start)))
    BY <2>1, <2>2, NextEndsAre
  <2>4. \A other \in Nat : Ends(s, start, other) => Min(NextEnds(s, start)) <= other
    BY <2>1, NextEndsAre
  <2>. QED BY <1>3, <2>3, <2>4 DEF FirstEnd
<1>. QED BY <1>2, <1>3

\* `f` holds the events behind each start from `low` on.
RestFrom(s, low, f) ==
  f = [start \in low..Len(s) |->
         IF NextEnds(s, start) = {} THEN << <<start + 1, Len(s)>> >>
         ELSE << <<start + 1, Min(NextEnds(s, start))>> >> \o f[Min(NextEnds(s, start))]]

LEMMA RestExists ==
  ASSUME NEW S, NEW s \in Seq(S), NEW n \in 0..Len(s)
  PROVE  \E f : RestFrom(s, Len(s) - n, f)
<1>. DEFINE L == Len(s)
            T == {k \in 0..L : ~ \E f : RestFrom(s, L - k, f)}
<1>0. L \in Nat
  OBVIOUS
<1>. SUFFICES ASSUME T # {} PROVE FALSE
  OBVIOUS
<1>1. PICK m \in T : \A k \in T : m <= k
  <2>1. T \subseteq Nat
    OBVIOUS
  <2>. HIDE DEF T
  <2>. QED BY <2>1, LeastNumber
<1>. HIDE DEF L
<1>. DEFINE low == L - m
<1>2. low \in 0..L /\ m \in 0..L
  BY <1>0, <1>1
<1>3. \E g : \A start \in (low + 1)..L : g[start] =
                IF NextEnds(s, start) = {} THEN << <<start + 1, Len(s)>> >>
                ELSE << <<start + 1, Min(NextEnds(s, start))>> >> \o g[Min(NextEnds(s, start))]
  <2>1. CASE m = 0
    <3>1. (low + 1)..L = {}
      BY <1>0, <2>1
    <3>. QED BY <3>1
  <2>2. CASE m # 0
    <3>1. m - 1 \in 0..L /\ ~(m <= m - 1)
      BY <1>0, <1>2, <2>2
    <3>0. m - 1 \notin T
      BY <1>1, <3>1
    <3>2. PICK g : RestFrom(s, L - (m - 1), g)
      BY <3>0, <3>1
    <3>3. L - (m - 1) = low + 1
      BY <1>0, <1>2
    <3>4. RestFrom(s, low + 1, g)
      BY <3>2, <3>3
    <3>. QED BY <3>4 DEF RestFrom, L
  <2>. QED BY <2>1, <2>2
<1>4. PICK g : \A start \in (low + 1)..L : g[start] =
                IF NextEnds(s, start) = {} THEN << <<start + 1, Len(s)>> >>
                ELSE << <<start + 1, Min(NextEnds(s, start))>> >> \o g[Min(NextEnds(s, start))]
  BY <1>3
<1>. DEFINE new == IF NextEnds(s, low) = {} THEN << <<low + 1, Len(s)>> >>
                   ELSE << <<low + 1, Min(NextEnds(s, low))>> >> \o g[Min(NextEnds(s, low))]
            f == [start \in low..L |-> IF start = low THEN new ELSE g[start]]
<1>5. ASSUME NEW start \in low..L, NextEnds(s, start) # {}
      PROVE  Min(NextEnds(s, start)) \in (low + 1)..L
  <2>1. start \in Nat
    BY <1>2, <1>5
  <2>2. Ends(s, start, Min(NextEnds(s, start)))
    BY <1>5, <2>1, MinEnd DEF FirstEnd
  <2>3. Min(NextEnds(s, start)) \in (start + 2)..L
    BY <2>2 DEF Ends, L
  <2>. QED BY <1>0, <1>2, <2>1, <2>3
<1>6. ASSUME NEW start \in low..L
      PROVE  f[start] =
                IF NextEnds(s, start) = {} THEN << <<start + 1, Len(s)>> >>
                ELSE << <<start + 1, Min(NextEnds(s, start))>> >> \o f[Min(NextEnds(s, start))]
  <2>1. NextEnds(s, start) # {} => f[Min(NextEnds(s, start))] = g[Min(NextEnds(s, start))]
    <3>1. SUFFICES ASSUME NextEnds(s, start) # {}
                   PROVE  f[Min(NextEnds(s, start))] = g[Min(NextEnds(s, start))]
      OBVIOUS
    <3>2. PICK e : e = Min(NextEnds(s, start))
      OBVIOUS
    <3>3. e \in (low + 1)..L
      BY <1>5, <3>1, <3>2
    <3>4. e \in low..L /\ e # low
      BY <1>0, <1>2, <3>3
    <3>5. f[e] = g[e]
      BY <3>4
    <3>. QED BY <3>2, <3>5
  <2>2. CASE start = low
    <3>1. f[start] = new
      BY <2>2
    <3>. HIDE DEF f
    <3>. QED BY <2>1, <2>2, <3>1
  <2>3. CASE start # low
    <3>1. start \in (low + 1)..L
      BY <1>0, <1>2, <2>3
    <3>2. f[start] = g[start]
      BY <2>3
    <3>. HIDE DEF f
    <3>. QED BY <1>4, <2>1, <3>1, <3>2
  <2>. QED BY <2>2, <2>3
<1>7. RestFrom(s, low, f)
  <2>1. f = [start \in low..L |-> f[start]]
    OBVIOUS
  <2>. HIDE DEF f
  <2>. QED BY <2>1, <1>6 DEF RestFrom, L
<1>. QED BY <1>1, <1>7

LEMMA TerminatedIsRest ==
  ASSUME NEW S, NEW s \in Seq(S)
  PROVE  \E f : RestFrom(s, 0, f) /\ Terminated(s) = f[0]
<1>1. Terminated(s) = (CHOOSE f : RestFrom(s, 0, f))[0]
  BY DEF Terminated, RestFrom, NextEnds
<1>2. PICK f : RestFrom(s, 0, f)
  <2>1. Len(s) \in 0..Len(s) /\ Len(s) - Len(s) = 0
    OBVIOUS
  <2>2. \E f : RestFrom(s, Len(s) - Len(s), f)
    BY <2>1, RestExists
  <2>. QED BY <2>1, <2>2
<1>3. RestFrom(s, 0, CHOOSE h : RestFrom(s, 0, h))
  BY <1>2, Zenon
<1>. QED BY <1>1, <1>3

\* `q` cuts what is behind `start` into events and what is not terminated yet.
Cuts(s, start, q) ==
  /\ q \in Seq(Nat \X Nat) /\ Len(q) >= 1 /\ q[1][1] = start + 1
  /\ \A i \in 1..(Len(q) - 1) :
       FirstEnd(s, q[i][1] - 1, q[i][2]) /\ q[i + 1][1] = q[i][2] + 1
  /\ \A i \in 1..Len(q) : q[i][1] >= 1
  /\ Unterminated(s, q[Len(q)][1] - 1) /\ q[Len(q)][2] = Len(s)

LEMMA CutOne ==
  ASSUME NEW S, NEW s \in Seq(S), NEW start \in Nat, Unterminated(s, start)
  PROVE  Cuts(s, start, << <<start + 1, Len(s)>> >>)
<1>. DEFINE c == <<start + 1, Len(s)>>
            q == <<c>>
<1>1. c \in Nat \X Nat /\ c[1] = start + 1 /\ c[2] = Len(s)
  OBVIOUS
<1>. HIDE DEF c
<1>2. q \in Seq(Nat \X Nat) /\ Len(q) = 1 /\ q[1] = c
  BY <1>1
<1>. HIDE DEF q
<1>3. (start + 1) - 1 = start
  OBVIOUS
<1>4. Cuts(s, start, q)
  BY <1>1, <1>2, <1>3 DEF Cuts
<1>. QED BY <1>4 DEF q, c

LEMMA CutMore ==
  ASSUME NEW S, NEW s \in Seq(S), NEW start \in Nat, NEW at \in Nat, FirstEnd(s, start, at),
         NEW r, Cuts(s, at, r)
  PROVE  Cuts(s, start, << <<start + 1, at>> >> \o r)
<1>. DEFINE c == <<start + 1, at>>
            q == <<c>> \o r
<1>1. c \in Nat \X Nat /\ c[1] = start + 1 /\ c[2] = at /\ c[1] - 1 = start
  OBVIOUS
<1>. HIDE DEF c
<1>2. r \in Seq(Nat \X Nat) /\ Len(r) \in Nat /\ Len(r) >= 1 /\ r[1][1] = at + 1
  BY DEF Cuts
<1>3. /\ q \in Seq(Nat \X Nat) /\ Len(q) = Len(r) + 1 /\ q[1] = c
      /\ \A i \in 1..Len(r) : q[i + 1] = r[i]
  <2>1. <<c>> \in Seq(Nat \X Nat) /\ Len(<<c>>) = 1 /\ <<c>>[1] = c
    BY <1>1
  <2>2. q \in Seq(Nat \X Nat) /\ Len(q) = 1 + Len(r)
    BY <1>2, <2>1, ConcatProperties
  <2>3. \A i \in 1..(1 + Len(r)) : q[i] = IF i <= 1 THEN <<c>>[i] ELSE r[i - 1]
    BY <1>2, <2>1, ConcatProperties
  <2>4. q[1] = c
    BY <1>2, <2>1, <2>3
  <2>5. ASSUME NEW i \in 1..Len(r) PROVE q[i + 1] = r[i]
    <3>1. i + 1 \in 1..(1 + Len(r)) /\ ~(i + 1 <= 1) /\ (i + 1) - 1 = i
      BY <1>2
    <3>. QED BY <2>3, <3>1
  <2>. QED BY <1>2, <2>2, <2>4, <2>5
<1>. HIDE DEF q
<1>4. ASSUME NEW i \in 1..(Len(q) - 1)
      PROVE  FirstEnd(s, q[i][1] - 1, q[i][2]) /\ q[i + 1][1] = q[i][2] + 1
  <2>1. CASE i = 1
    <3>1. q[1 + 1] = r[1]
      BY <1>2, <1>3
    <3>. QED BY <1>1, <1>2, <1>3, <2>1, <3>1
  <2>2. CASE i # 1
    <3>. DEFINE n == Len(r)
    <3>0. n \in Nat /\ Len(q) = n + 1
      BY <1>2, <1>3
    <3>. HIDE DEF n
    <3>1. PICK j \in 1..(n - 1) : i = j + 1
      <4>1. i - 1 \in 1..(n - 1) /\ i = (i - 1) + 1
        BY <3>0, <2>2
      <4>. QED BY <4>1
    <3>2. j \in 1..Len(r) /\ j + 1 \in 1..Len(r) /\ j \in 1..(Len(r) - 1)
      BY <3>0, <3>1 DEF n
    <3>3. q[i] = r[j] /\ q[i + 1] = r[j + 1]
      BY <1>3, <3>1, <3>2
    <3>4. FirstEnd(s, r[j][1] - 1, r[j][2]) /\ r[j + 1][1] = r[j][2] + 1
      BY <3>2 DEF Cuts
    <3>. QED BY <3>3, <3>4
  <2>. QED BY <2>1, <2>2
<1>5. ASSUME NEW i \in 1..Len(q) PROVE q[i][1] >= 1
  <2>1. CASE i = 1
    BY <1>1, <1>3, <2>1
  <2>2. CASE i # 1
    <3>1. i - 1 \in 1..Len(r) /\ i = (i - 1) + 1
      BY <1>2, <1>3, <2>2
    <3>2. q[i] = r[i - 1]
      BY <1>3, <3>1
    <3>. QED BY <3>1, <3>2 DEF Cuts
  <2>. QED BY <2>1, <2>2
<1>6. q[Len(q)] = r[Len(r)]
  <2>1. Len(r) \in 1..Len(r)
    BY <1>2
  <2>2. q[Len(r) + 1] = r[Len(r)]
    BY <1>3, <2>1
  <2>. QED BY <1>3, <2>2
<1>7. Cuts(s, start, q)
  BY <1>1, <1>2, <1>3, <1>4, <1>5, <1>6 DEF Cuts
<1>. QED BY <1>7 DEF q, c

LEMMA TerminatedCuts ==
  ASSUME NEW S, NEW s \in Seq(S)
  PROVE  Cuts(s, 0, Terminated(s))
<1>1. PICK f : RestFrom(s, 0, f) /\ Terminated(s) = f[0]
  BY TerminatedIsRest
<1>. DEFINE L == Len(s)
            T == {k \in 0..L : ~Cuts(s, L - k, f[L - k])}
<1>0. L \in Nat
  OBVIOUS
<1>2. \A start \in 0..L : f[start] =
         IF NextEnds(s, start) = {} THEN << <<start + 1, Len(s)>> >>
         ELSE << <<start + 1, Min(NextEnds(s, start))>> >> \o f[Min(NextEnds(s, start))]
  BY <1>1 DEF RestFrom
<1>3. T = {}
  <2>. SUFFICES ASSUME T # {} PROVE FALSE
    OBVIOUS
  <2>1. PICK m \in T : \A k \in T : m <= k
    <3>1. T \subseteq Nat
      OBVIOUS
    <3>. HIDE DEF T
    <3>. QED BY <3>1, LeastNumber
  <2>2. PICK start \in 0..L : start = L - m /\ ~Cuts(s, start, f[start])
    BY <1>0, <2>1
  <2>3. CASE NextEnds(s, start) = {}
    <3>0. start \in Nat
      BY <1>0
    <3>1. Unterminated(s, start) /\ f[start] = << <<start + 1, Len(s)>> >>
      <4>1. Unterminated(s, start)
        BY <2>3, <3>0, MinEnd
      <4>. QED BY <1>2, <2>3, <4>1
    <3>. QED BY <2>2, <3>0, <3>1, CutOne
  <2>4. CASE NextEnds(s, start) # {}
    <3>1. PICK at : at = Min(NextEnds(s, start))
      OBVIOUS
    <3>0. start \in Nat
      BY <1>0
    <3>2. FirstEnd(s, start, at) /\ f[start] = << <<start + 1, at>> >> \o f[at]
      <4>1. FirstEnd(s, start, at)
        BY <2>4, <3>0, <3>1, MinEnd
      <4>. QED BY <1>2, <2>4, <3>1, <4>1
    <3>3. at \in (start + 2)..L
      BY <3>2 DEF FirstEnd, Ends
    <3>4. L - at \in 0..L /\ L - at < m /\ L - (L - at) = at
      BY <1>0, <2>1, <2>2, <3>3
    <3>5. L - at \notin T
      BY <1>0, <2>1, <3>4
    <3>6. Cuts(s, at, f[at])
      BY <3>4, <3>5
    <3>. QED BY <1>0, <2>2, <3>0, <3>2, <3>3, <3>6, CutMore
  <2>. QED BY <2>3, <2>4
<1>4. L \in 0..L /\ L - L = 0
  BY <1>0
<1>5. L \notin T
  BY <1>3
<1>6. Cuts(s, 0, f[0])
  <2>. HIDE DEF L
  <2>1. Cuts(s, L - L, f[L - L])
    BY <1>4, <1>5
  <2>. QED BY <1>4, <2>1
<1>. QED BY <1>1, <1>6

\* What is in front of an event: `c[i]` bytes in front of the one behind the `i`-th of `n`.
Points(s, c, n) ==
  /\ n \in Nat /\ c \in [0..n -> 0..Len(s)] /\ c[0] = 0
  /\ \A i \in 0..(n - 1) : FirstEnd(s, c[i], c[i + 1])
  /\ Unterminated(s, c[n])

\* The parts of a body that have these points.
PartsOf(s, c, n) ==
  [i \in 1..(n + 1) |-> IF i <= n THEN <<c[i - 1] + 1, c[i]>> ELSE <<c[n] + 1, Len(s)>>]

LEMMA TerminatedPoints ==
  ASSUME NEW S, NEW s \in Seq(S)
  PROVE  \E n, c : Points(s, c, n) /\ Terminated(s) = PartsOf(s, c, n)
<1>1. PICK q : q = Terminated(s) /\ Cuts(s, 0, q)
  BY TerminatedCuts
<1>2. q \in Seq(Nat \X Nat) /\ Len(q) >= 1 /\ q[1][1] = 1 /\ Len(q) \in Nat
  BY <1>1 DEF Cuts
<1>3. PICK n \in Nat : Len(q) = n + 1
  <2>1. Len(q) - 1 \in Nat /\ Len(q) = (Len(q) - 1) + 1
    BY <1>2
  <2>. QED BY <2>1
<1>. DEFINE c == [i \in 0..n |-> q[i + 1][1] - 1]
<1>4. ASSUME NEW i \in 1..(n + 1)
      PROVE  q[i] \in Nat \X Nat /\ q[i] = <<q[i][1], q[i][2]>> /\ q[i][1] \in Nat \ {0}
             /\ q[i][2] \in Nat
  <2>1. i \in 1..Len(q)
    BY <1>3
  <2>2. q[i] \in Nat \X Nat
    BY <1>2, <2>1
  <2>3. q[i][1] >= 1
    BY <1>1, <2>1 DEF Cuts
  <2>. QED BY <2>2, <2>3
<1>5. ASSUME NEW i \in 1..n
      PROVE  q[i][2] = c[i] /\ FirstEnd(s, c[i - 1], c[i]) /\ q[i] = <<c[i - 1] + 1, c[i]>>
             /\ c[i] \in 0..Len(s)
  <2>1. i \in 1..(Len(q) - 1) /\ i \in 1..(n + 1) /\ i + 1 \in 1..(n + 1) /\ i \in 0..n
        /\ i - 1 \in 0..n /\ (i - 1) + 1 = i
    BY <1>3
  <2>2. FirstEnd(s, q[i][1] - 1, q[i][2]) /\ q[i + 1][1] = q[i][2] + 1
    BY <1>1, <2>1 DEF Cuts
  <2>3. c[i] = q[i + 1][1] - 1 /\ c[i - 1] = q[i][1] - 1
    BY <2>1
  <2>. HIDE DEF c
  <2>4. q[i][1] \in Nat /\ q[i][2] \in Nat /\ q[i] = <<q[i][1], q[i][2]>>
    BY <1>4, <2>1
  <2>5. q[i][2] = c[i] /\ q[i][1] = c[i - 1] + 1
    BY <2>2, <2>3, <2>4
  <2>6. c[i] \in 0..Len(s)
    BY <2>2, <2>4, <2>5 DEF FirstEnd, Ends
  <2>. QED BY <2>2, <2>3, <2>4, <2>5, <2>6
<1>6. c[0] = 0
  BY <1>2, <1>3
<1>7. Unterminated(s, c[n]) /\ q[n + 1] = <<c[n] + 1, Len(s)>>
  <2>1. n + 1 \in 1..(n + 1) /\ n \in 0..n
    BY <1>3
  <2>2. q[n + 1][2] = Len(s) /\ Unterminated(s, q[n + 1][1] - 1)
    BY <1>1, <1>3 DEF Cuts
  <2>3. c[n] = q[n + 1][1] - 1
    BY <2>1
  <2>. HIDE DEF c
  <2>4. q[n + 1] = <<q[n + 1][1], q[n + 1][2]>> /\ q[n + 1][1] \in Nat
    BY <1>4, <2>1
  <2>. QED BY <2>2, <2>3, <2>4
<1>8. c \in [0..n -> 0..Len(s)]
  <2>1. \A i \in 0..n : c[i] \in 0..Len(s)
    <3>. HIDE DEF c
    <3>1. \A i \in 0..n : i = 0 \/ i \in 1..n
      OBVIOUS
    <3>2. 0 \in 0..Len(s)
      OBVIOUS
    <3>. QED BY <1>5, <1>6, <3>1, <3>2
  <2>2. c = [i \in 0..n |-> c[i]]
    OBVIOUS
  <2>. HIDE DEF c
  <2>. QED BY <2>1, <2>2
<1>. HIDE DEF c
<1>9. ASSUME NEW i \in 0..(n - 1) PROVE FirstEnd(s, c[i], c[i + 1])
  <2>1. i + 1 \in 1..n /\ (i + 1) - 1 = i
    OBVIOUS
  <2>. QED BY <1>5, <2>1
<1>10. Points(s, c, n)
  BY <1>3, <1>6, <1>7, <1>8, <1>9 DEF Points
<1>11. q = PartsOf(s, c, n)
  <2>1. DOMAIN q = 1..(n + 1) /\ q = [i \in 1..(n + 1) |-> q[i]]
    BY <1>2, <1>3
  <2>2. ASSUME NEW i \in 1..(n + 1)
        PROVE  q[i] = IF i <= n THEN <<c[i - 1] + 1, c[i]>> ELSE <<c[n] + 1, Len(s)>>
    <3>1. CASE i <= n
      BY <1>5, <3>1
    <3>2. CASE ~(i <= n)
      <4>1. i = n + 1
        BY <1>3, <3>2
      <4>. QED BY <1>7, <3>2, <4>1
    <3>. QED BY <3>1, <3>2
  <2>. QED BY <2>1, <2>2 DEF PartsOf
<1>. QED BY <1>1, <1>10, <1>11

\* A point is the only one that can follow the one before it.
LEMMA OneFirstEnd ==
  ASSUME NEW s, NEW a, NEW m \in Nat, NEW n \in Nat, FirstEnd(s, a, m), FirstEnd(s, a, n)
  PROVE  m = n
<1>1. m <= n /\ n <= m
  BY DEF FirstEnd
<1>. QED BY <1>1

LEMMA PointsGrow ==
  ASSUME NEW s, NEW c, NEW n, Points(s, c, n), NEW i \in 0..n, NEW j \in 0..n, i < j
  PROVE  c[i] + 2 <= c[j] /\ c[i] < c[j]
<1>. DEFINE T == {k \in 0..n : k > i /\ ~(c[i] + 2 <= c[k])}
<1>0. n \in Nat /\ (\A k \in 0..n : c[k] \in Nat)
  BY DEF Points
<1>1. T = {}
  <2>. SUFFICES ASSUME T # {} PROVE FALSE
    OBVIOUS
  <2>1. PICK m \in T : \A k \in T : m <= k
    <3>1. T \subseteq Nat
      OBVIOUS
    <3>. HIDE DEF T
    <3>. QED BY <3>1, LeastNumber
  <2>2. m \in 1..n /\ m - 1 \in 0..n /\ m - 1 \in 0..(n - 1) /\ (m - 1) + 1 = m /\ m > i
        /\ ~(m <= m - 1)
    BY <1>0, <2>1
  <2>3. FirstEnd(s, c[m - 1], c[m])
    BY <2>2 DEF Points
  <2>4. c[m - 1] + 2 <= c[m] /\ c[m] \in Nat /\ c[m - 1] \in Nat
    BY <1>0, <2>2, <2>3 DEF FirstEnd, Ends
  <2>5. m - 1 = i \/ m - 1 > i
    BY <2>2
  <2>6. m - 1 \notin T
    BY <2>1, <2>2
  <2>7. c[i] + 2 <= c[m]
    BY <1>0, <2>2, <2>4, <2>5, <2>6
  <2>. QED BY <2>1, <2>7
<1>2. c[i] + 2 <= c[j]
  BY <1>1
<1>. QED BY <1>0, <1>2

\* What arrives later neither moves a point nor adds one in front.
LEMMA PointsStay ==
  ASSUME NEW S, NEW s \in Seq(S), NEW t \in Seq(S), Inside(s, t, 0),
         NEW c, NEW n, Points(s, c, n), NEW e, NEW m, Points(t, e, m)
  PROVE  /\ n <= m /\ \A i \in 0..n : c[i] = e[i]
         /\ \A at \in Nat : Ends(t, c[n], at) => at > Len(s)
<1>0. n \in Nat /\ m \in Nat /\ Len(s) \in Nat /\ Len(t) \in Nat /\ Len(s) <= Len(t)
      /\ (\A i \in 0..n : c[i] \in Nat) /\ (\A i \in 0..m : e[i] \in Nat)
  BY DEF Points, Inside
<1>1. \A start \in Nat : \A at \in Nat : Ends(s, start, at) <=> at <= Len(s) /\ Ends(t, start, at)
  <2>. SUFFICES ASSUME NEW start \in Nat, NEW at \in Nat
                PROVE  Ends(s, start, at) <=> at <= Len(s) /\ Ends(t, start, at)
    OBVIOUS
  <2>1. 0 + start = start /\ 0 + at = at /\ 0 \in Nat
    OBVIOUS
  <2>. QED BY <2>1, EndsInside
<1>2. ASSUME NEW i \in 0..(n - 1) PROVE FirstEnd(t, c[i], c[i + 1])
  <2>1. i \in 0..n /\ i + 1 \in 0..n
    BY <1>0
  <2>2. FirstEnd(s, c[i], c[i + 1]) /\ c[i] \in Nat /\ c[i + 1] \in Nat
    BY <1>0, <2>1 DEF Points
  <2>3. Ends(t, c[i], c[i + 1]) /\ c[i + 1] <= Len(s)
    BY <1>1, <2>2 DEF FirstEnd
  <2>4. ASSUME NEW at \in Nat, Ends(t, c[i], at) PROVE c[i + 1] <= at
    <3>1. CASE at <= Len(s)
      BY <1>1, <2>2, <2>4, <3>1 DEF FirstEnd
    <3>2. CASE ~(at <= Len(s))
      BY <1>0, <2>2, <2>3, <3>2
    <3>. QED BY <3>1, <3>2
  <2>. QED BY <2>3, <2>4 DEF FirstEnd
<1>. DEFINE T == {i \in 0..n : ~(i <= m /\ c[i] = e[i])}
<1>3. T = {}
  <2>. SUFFICES ASSUME T # {} PROVE FALSE
    OBVIOUS
  <2>1. PICK k \in T : \A i \in T : k <= i
    <3>1. T \subseteq Nat
      OBVIOUS
    <3>. HIDE DEF T
    <3>. QED BY <3>1, LeastNumber
  <2>2. k # 0
    BY <1>0, <2>1 DEF Points
  <2>3. k \in 1..n /\ k - 1 \in 0..n /\ k - 1 \in 0..(n - 1) /\ (k - 1) + 1 = k /\ ~(k <= k - 1)
    BY <1>0, <2>1, <2>2
  <2>4. k - 1 <= m /\ c[k - 1] = e[k - 1]
    BY <2>1, <2>3
  <2>5. FirstEnd(t, e[k - 1], c[k])
    BY <1>2, <2>3, <2>4
  <2>6. c[k] \in Nat /\ k - 1 \in 0..m /\ e[k - 1] \in Nat
    BY <1>0, <2>1, <2>3, <2>4
  <2>7. k - 1 # m
    <3>1. SUFFICES ASSUME k - 1 = m PROVE FALSE
      OBVIOUS
    <3>2. ~Ends(t, e[k - 1], c[k])
      BY <2>6, <3>1 DEF Points, Unterminated
    <3>. QED BY <2>5, <3>2 DEF FirstEnd
  <2>8. k - 1 \in 0..(m - 1) /\ k \in 0..m
    BY <1>0, <2>3, <2>4, <2>7
  <2>9. FirstEnd(t, e[k - 1], e[k])
    <3>1. FirstEnd(t, e[k - 1], e[(k - 1) + 1])
      BY <2>8 DEF Points
    <3>. QED BY <2>3, <3>1
  <2>10. c[k] = e[k]
    BY <1>0, <2>5, <2>6, <2>8, <2>9, OneFirstEnd
  <2>. QED BY <2>1, <2>8, <2>10
<1>4. n \in 0..n
  BY <1>0
<1>5. ASSUME NEW at \in Nat, Ends(t, c[n], at) PROVE at > Len(s)
  <2>1. c[n] \in Nat
    BY <1>0, <1>4
  <2>2. ~Ends(s, c[n], at)
    BY DEF Points, Unterminated
  <2>3. ~(at <= Len(s))
    BY <1>1, <1>5, <2>1, <2>2
  <2>. QED BY <1>0, <2>3
<1>. QED BY <1>3, <1>4, <1>5

-----------------------------------------------------------------------------
(* Validating what has arrived.                                            *)

\* A chain of steps that lead upwards has values, all the way or joined on the way.
Chain(low, high, halt, head, step, joined, f) ==
  f = [x \in low..high |-> IF x \in halt THEN head[x]
                           ELSE IF joined THEN head[x] \o f[step[x]] ELSE f[step[x]]]

LEMMA ChainExists ==
  ASSUME NEW low \in Nat, NEW high \in Nat, NEW halt, NEW head, NEW step, NEW joined,
         \A x \in (low..high) \ halt : step[x] \in (x + 1)..high
  PROVE  \E f : Chain(low, high, halt, head, step, joined, f)
<1>. DEFINE U == {k \in 0..(high + 1) : high + 1 - k >= low /\
                    \A g : ~Chain(high + 1 - k, high, halt, head, step, joined, g)}
<1>. SUFFICES ASSUME \A f : ~Chain(low, high, halt, head, step, joined, f) PROVE FALSE
  OBVIOUS
<1>1. low <= high
  <2>. SUFFICES ASSUME ~(low <= high) PROVE FALSE
    OBVIOUS
  <2>1. low..high = {}
    OBVIOUS
  <2>. DEFINE f == [x \in {} |-> x]
  <2>2. Chain(low, high, halt, head, step, joined, f)
    BY <2>1 DEF Chain
  <2>. QED BY <2>2
<1>2. high + 1 - low \in U
  <2>1. high + 1 - low \in 0..(high + 1) /\ high + 1 - (high + 1 - low) = low
    BY <1>1
  <2>. QED BY <2>1
<1>3. PICK k \in U : \A j \in U : k <= j
  <2>1. U \subseteq Nat
    OBVIOUS
  <2>. HIDE DEF U
  <2>2. U # {}
    BY <1>2
  <2>. QED BY <2>1, <2>2, LeastNumber
<1>4. PICK m \in Nat : m = high + 1 - k /\ m >= low /\ k = high + 1 - m /\ m <= high + 1
  <2>1. high + 1 - k \in Nat /\ high + 1 - (high + 1 - k) = k
    BY <1>3
  <2>. QED BY <1>3, <2>1
<1>5. \A g : ~Chain(m, high, halt, head, step, joined, g)
  BY <1>3, <1>4
<1>6. m <= high
  <2>. SUFFICES ASSUME ~(m <= high) PROVE FALSE
    OBVIOUS
  <2>1. m..high = {}
    OBVIOUS
  <2>. DEFINE f == [x \in {} |-> x]
  <2>2. Chain(m, high, halt, head, step, joined, f)
    BY <2>1 DEF Chain
  <2>. QED BY <1>5, <2>2
<1>7. k - 1 \in 0..(high + 1) /\ high + 1 - (k - 1) = m + 1 /\ ~(k <= k - 1)
  BY <1>3, <1>4, <1>6
<1>8. k - 1 \notin U
  BY <1>3, <1>7
<1>9. PICK g : Chain(m + 1, high, halt, head, step, joined, g)
  BY <1>4, <1>7, <1>8
<1>10. \A x \in (m + 1)..high : g[x] = IF x \in halt THEN head[x]
                           ELSE IF joined THEN head[x] \o g[step[x]] ELSE g[step[x]]
  BY <1>9 DEF Chain
<1>. DEFINE new == IF m \in halt THEN head[m]
                   ELSE IF joined THEN head[m] \o g[step[m]] ELSE g[step[m]]
            f == [x \in m..high |-> IF x = m THEN new ELSE g[x]]
<1>11. ASSUME NEW x \in m..high
       PROVE  f[x] = IF x \in halt THEN head[x]
                     ELSE IF joined THEN head[x] \o f[step[x]] ELSE f[step[x]]
  <2>1. x \notin halt => f[step[x]] = g[step[x]]
    <3>. SUFFICES ASSUME x \notin halt PROVE f[step[x]] = g[step[x]]
      OBVIOUS
    <3>1. PICK y : y = step[x]
      OBVIOUS
    <3>2. x \in (low..high) \ halt
      BY <1>4
    <3>3. y \in (x + 1)..high
      BY <3>1, <3>2
    <3>4. y \in m..high /\ y # m
      BY <1>4, <3>3
    <3>5. f[y] = g[y]
      BY <3>4
    <3>. QED BY <3>1, <3>5
  <2>2. CASE x = m
    <3>1. f[x] = new
      BY <2>2
    <3>. HIDE DEF f
    <3>. QED BY <2>1, <2>2, <3>1
  <2>3. CASE x # m
    <3>1. x \in (m + 1)..high
      BY <1>4, <2>3
    <3>2. f[x] = g[x]
      BY <2>3
    <3>. HIDE DEF f
    <3>. QED BY <1>10, <2>1, <3>1, <3>2
  <2>. QED BY <2>2, <2>3
<1>12. Chain(m, high, halt, head, step, joined, f)
  <2>1. f = [x \in m..high |-> f[x]]
    OBVIOUS
  <2>. HIDE DEF f
  <2>. QED BY <2>1, <1>11 DEF Chain
<1>. QED BY <1>5, <1>12

\* Where one round of the scan finds the end of an event, if it does.
ScanEnd(p, pushed, tail) ==
  ScanFrom(p, pushed, tail) + Boundary(From(p.buffer, ScanFrom(p, pushed, tail))).end

ScanTable(p, pushed, f) ==
  f = [tail \in 0..Len(p.buffer) |->
         IF ScanEnd(p, pushed, tail) = ScanFrom(p, pushed, tail)
         THEN [tail |-> tail, ok |-> Len(p.buffer) - tail <= MaxTail]
         ELSE IF ScanEnd(p, pushed, tail) - tail > MaxEvent THEN [tail |-> tail, ok |-> FALSE]
         ELSE f[ScanEnd(p, pushed, tail)]]

LEMMA ScanStart ==
  ASSUME NEW S, NEW p, p.buffer \in Seq(S), NEW pushed \in Nat, NEW tail \in 0..Len(p.buffer)
  PROVE  LET pos == ScanFrom(p, pushed, tail) IN
         /\ pos \in tail..Len(p.buffer)
         /\ pos = tail \/ pos = Len(p.buffer) - pushed - 3
         /\ From(p.buffer, pos) \in Seq(S) /\ Len(From(p.buffer, pos)) = Len(p.buffer) - pos
         /\ Inside(From(p.buffer, pos), p.buffer, pos)
<1>. DEFINE L == Len(p.buffer)
            pos == ScanFrom(p, pushed, tail)
<1>1. L \in Nat /\ pos = IF L - pushed - 3 > tail THEN L - pushed - 3 ELSE tail
  BY DEF ScanFrom, Overlap
<1>2. pos \in tail..L /\ (pos = tail \/ pos = L - pushed - 3)
  BY <1>1
<1>. HIDE DEF pos
<1>3. pos \in Nat /\ pos <= L /\ L <= L
  BY <1>1, <1>2
<1>4. /\ SubSeq(p.buffer, pos + 1, L) \in Seq(S) /\ Len(SubSeq(p.buffer, pos + 1, L)) = L - pos
      /\ Inside(SubSeq(p.buffer, pos + 1, L), p.buffer, pos)
  <2>1. PICK s \in Seq(S) : s = p.buffer
    OBVIOUS
  <2>2. L <= Len(s)
    BY <1>1, <2>1
  <2>. HIDE DEF L
  <2>3. SubSeq(s, pos + 1, L) \in Seq(S) /\ Len(SubSeq(s, pos + 1, L)) = L - pos
    BY <1>1, <1>3, <2>2, PartFacts
  <2>4. Inside(SubSeq(s, pos + 1, L), s, pos)
    BY <1>1, <1>3, <2>2, PartInside
  <2>. QED BY <2>1, <2>3, <2>4
<1>. QED BY <1>2, <1>4 DEF From, pos

LEMMA ScanIs ==
  ASSUME NEW S, NEW p, p.buffer \in Seq(S), p.tail \in 0..Len(p.buffer), NEW pushed \in Nat
  PROVE  \E f : ScanTable(p, pushed, f) /\ Scan(p, pushed) = f[p.tail]
<1>. DEFINE L == Len(p.buffer)
            pos(x) == ScanFrom(p, pushed, x)
            end(x) == ScanEnd(p, pushed, x)
            halt == {x \in 0..L : end(x) = pos(x) \/ end(x) - x > MaxEvent}
            head == [x \in 0..L |-> IF end(x) = pos(x)
                                    THEN [tail |-> x, ok |-> L - x <= MaxTail]
                                    ELSE [tail |-> x, ok |-> FALSE]]
            step == [x \in 0..L |-> end(x)]
<1>1. L \in Nat
  OBVIOUS
<1>2. ASSUME NEW x \in 0..L, end(x) # pos(x) PROVE end(x) \in (x + 1)..L
  <2>1. PICK t : t = From(p.buffer, pos(x))
    OBVIOUS
  <2>2. pos(x) \in x..L /\ t \in Seq(S) /\ Len(t) = L - pos(x)
    BY <2>1, ScanStart
  <2>3. end(x) = pos(x) + Boundary(t).end
    BY <2>1 DEF ScanEnd
  <2>. HIDE DEF pos, end
  <2>4. Boundary(t).end = 0 \/ Boundary(t).end \in 2..Len(t)
    BY <2>2, BoundaryFacts
  <2>. QED BY <1>1, <1>2, <2>2, <2>3, <2>4
<1>3. PICK f : Chain(0, L, halt, head, step, FALSE, f)
  <2>1. \A x \in (0..L) \ halt : step[x] \in (x + 1)..L
    BY <1>2
  <2>. HIDE DEF halt, head, step, L
  <2>. QED BY <1>1, <2>1, ChainExists
<1>4. ScanTable(p, pushed, f)
  <2>1. f = [x \in 0..L |-> f[x]]
    BY <1>3 DEF Chain
  <2>2. ASSUME NEW x \in 0..L
        PROVE  f[x] = IF end(x) = pos(x) THEN [tail |-> x, ok |-> L - x <= MaxTail]
                      ELSE IF end(x) - x > MaxEvent THEN [tail |-> x, ok |-> FALSE]
                      ELSE f[end(x)]
    <3>1. f[x] = IF x \in halt THEN head[x] ELSE f[step[x]]
      <4>. HIDE DEF halt, head, step
      <4>. QED BY <1>3 DEF Chain
    <3>. HIDE DEF end, pos
    <3>. QED BY <3>1
  <2>. HIDE DEF end, pos
  <2>3. f = [x \in 0..L |-> IF end(x) = pos(x) THEN [tail |-> x, ok |-> L - x <= MaxTail]
                            ELSE IF end(x) - x > MaxEvent THEN [tail |-> x, ok |-> FALSE]
                            ELSE f[end(x)]]
    BY <2>1, <2>2
  <2>. QED BY <2>3 DEF ScanTable, end, pos
<1>5. Scan(p, pushed) = (CHOOSE h : ScanTable(p, pushed, h))[p.tail]
  BY DEF Scan, ScanTable, ScanEnd
<1>6. ScanTable(p, pushed, CHOOSE h : ScanTable(p, pushed, h))
  BY <1>4, Zenon
<1>. QED BY <1>5, <1>6

\* A round finds the next point, unless a point that is there has been passed over.
LEMMA ScanRound ==
  ASSUME NEW S, NEW t \in Seq(S), NEW p, p.buffer \in Seq(S), NEW g \in Nat,
         Inside(p.buffer, t, g), g + Len(p.buffer) = Len(t),
         NEW pushed \in Nat, NEW tail \in 0..Len(p.buffer)
  PROVE  LET pos == ScanFrom(p, pushed, tail)
             end == ScanEnd(p, pushed, tail)
             Quiet == \A at \in Nat : Ends(t, g + tail, at) => at > Len(t) - pushed
         IN /\ pos \in tail..Len(p.buffer)
            /\ end = pos \/ (end \in (tail + 2)..Len(p.buffer) /\ Ends(t, g + tail, g + end))
            /\ Quiet => IF end = pos THEN Unterminated(t, g + tail)
                        ELSE FirstEnd(t, g + tail, g + end)
<1>1. PICK b \in Seq(S) : b = p.buffer
  OBVIOUS
<1>2. PICK pos \in tail..Len(b) : pos = ScanFrom(p, pushed, tail)
  BY <1>1, ScanStart
<1>3. PICK w \in Seq(S) : w = From(p.buffer, pos) /\ Len(w) = Len(b) - pos /\ Inside(w, b, pos)
  BY <1>1, <1>2, ScanStart
<1>4. PICK e : e = Boundary(w).end
  OBVIOUS
<1>5. PICK end : end = pos + e /\ end = ScanEnd(p, pushed, tail)
  BY <1>2, <1>3, <1>4 DEF ScanEnd
<1>6. pos = tail \/ pos = Len(b) - pushed - 3
  BY <1>1, <1>2 DEF ScanFrom, Overlap
<1>7. Len(b) \in Nat /\ Len(t) \in Nat /\ g + Len(b) = Len(t) /\ tail \in Nat /\ tail <= Len(b)
      /\ pos \in Nat /\ tail <= pos /\ pos <= Len(b) /\ g + pos \in Nat /\ g + tail \in Nat
      /\ Len(w) \in Nat /\ pos + Len(w) = Len(b) /\ g + pos + Len(w) = Len(t)
  <2>1. Len(b) \in Nat /\ Len(t) \in Nat /\ Len(w) \in Nat
    BY LenProperties
  <2>2. g + Len(b) = Len(t) /\ tail \in 0..Len(b)
    BY <1>1
  <2>3. pos \in tail..Len(b) /\ Len(w) = Len(b) - pos
    BY <1>2, <1>3
  <2>4. tail \in Nat /\ tail <= Len(b) /\ pos \in Nat /\ tail <= pos /\ pos <= Len(b)
    BY <2>1, <2>2, <2>3
  <2>5. g + pos \in Nat /\ g + tail \in Nat /\ pos + Len(w) = Len(b)
    BY <2>1, <2>3, <2>4
  <2>6. g + pos + Len(w) = g + (pos + Len(w))
    BY <2>1, <2>4
  <2>. QED BY <2>1, <2>2, <2>4, <2>5, <2>6
<1>8. Inside(w, t, g + pos)
  <2>1. \A i \in 1..Len(w) : w[i] = b[pos + i] /\ pos + i \in 1..Len(b)
    BY <1>3, <1>7 DEF Inside
  <2>2. \A i \in 1..Len(b) : b[i] = t[g + i]
    BY <1>1 DEF Inside
  <2>3. ASSUME NEW i \in 1..Len(w) PROVE w[i] = t[g + pos + i]
    <3>1. g + (pos + i) = g + pos + i
      BY <1>7
    <3>2. w[i] = b[pos + i] /\ pos + i \in 1..Len(b)
      BY <2>1
    <3>. QED BY <2>2, <3>1, <3>2
  <2>. QED BY <1>7, <2>3 DEF Inside
<1>9. \/ e = 0 /\ \A at \in Nat : Ends(t, g + pos, at) => at > Len(t)
      \/ e \in 2..Len(w) /\ FirstEnd(t, g + pos, g + pos + e)
  <2>. DEFINE a == g + pos
  <2>1. a \in Nat /\ Inside(w, t, a) /\ a + Len(w) = Len(t)
    BY <1>7, <1>8
  <2>. HIDE DEF a
  <2>2. \/ Boundary(w).end = 0 /\ \A at \in Nat : Ends(t, a, at) => at > a + Len(w)
        \/ Boundary(w).end \in 2..Len(w) /\ FirstEnd(t, a, a + Boundary(w).end)
    BY <2>1, BoundaryInside
  <2>. QED BY <1>4, <2>1, <2>2 DEF a
<1>10. e \in Nat /\ (end = pos <=> e = 0) /\ g + pos + e = g + end
  <2>1. e \in Nat
    BY <1>7, <1>9
  <2>. QED BY <1>5, <1>7, <2>1
<1>11. \A at \in Nat : Ends(t, g + pos, at) => Ends(t, g + tail, at)
  BY <1>7, EndsLater
<1>12. ASSUME e # 0
       PROVE  end \in (tail + 2)..Len(b) /\ Ends(t, g + tail, g + end)
  <2>1. e \in 2..Len(w) /\ FirstEnd(t, g + pos, g + end)
    BY <1>9, <1>10, <1>12
  <2>2. g + end \in Nat /\ end \in (tail + 2)..Len(b)
    BY <1>5, <1>7, <2>1
  <2>. QED BY <1>11, <2>1, <2>2 DEF FirstEnd
<1>13. ASSUME \A at \in Nat : Ends(t, g + tail, at) => at > Len(t) - pushed
       PROVE  IF end = pos THEN Unterminated(t, g + tail) ELSE FirstEnd(t, g + tail, g + end)
  <2>1. ASSUME NEW at \in Nat, Ends(t, g + tail, at) PROVE Ends(t, g + pos, at)
    <3>1. CASE pos = tail
      BY <2>1, <3>1
    <3>2. CASE pos = Len(b) - pushed - 3
      <4>1. at > Len(t) - pushed
        BY <1>13, <2>1
      <4>0. at \in Nat /\ at <= Len(t)
        BY <2>1 DEF Ends
      <4>3. PICK y \in Nat : y = g + pos
        BY <1>7
      <4>4. PICK l \in Nat : l = Len(b) /\ g + l = Len(t) /\ pos = l - pushed - 3
        BY <1>7, <3>2
      <4>5. at > g + l - pushed
        BY <4>1, <4>4
      <4>6. at >= y + 4
        BY <4>0, <4>3, <4>4, <4>5
      <4>2. at >= g + pos + 4 /\ at \in (g + pos + 2)..Len(t)
        BY <1>7, <4>0, <4>3, <4>6
      <4>. QED BY <2>1, <4>2 DEF Ends
    <3>. QED BY <1>6, <3>1, <3>2
  <2>2. CASE e = 0
    <3>1. ASSUME NEW at \in Nat PROVE ~Ends(t, g + tail, at)
      <4>1. SUFFICES ASSUME Ends(t, g + tail, at) PROVE FALSE
        OBVIOUS
      <4>2. at > Len(t)
        BY <1>9, <2>1, <2>2, <4>1
      <4>3. at <= Len(t)
        BY <1>7, <4>1 DEF Ends
      <4>. QED BY <1>7, <4>2, <4>3
    <3>. QED BY <1>10, <2>2, <3>1 DEF Unterminated
  <2>3. CASE e # 0
    <3>1. FirstEnd(t, g + pos, g + end)
      BY <1>9, <1>10, <2>3
    <3>2. \A at \in Nat : Ends(t, g + tail, at) => g + end <= at
      BY <2>1, <3>1 DEF FirstEnd
    <3>. QED BY <1>10, <1>12, <2>3, <3>2 DEF FirstEnd
  <2>. QED BY <2>2, <2>3
<1>14. end = pos \/ (end \in (tail + 2)..Len(p.buffer) /\ Ends(t, g + tail, g + end))
  <2>1. CASE e = 0
    BY <1>5, <1>7, <2>1
  <2>2. CASE e # 0
    <3>1. end \in (tail + 2)..Len(b) /\ Ends(t, g + tail, g + end)
      BY <1>12, <2>2
    <3>. QED BY <1>1, <3>1
  <2>. QED BY <2>1, <2>2
<1>15. pos \in tail..Len(p.buffer)
  BY <1>1
<1>. QED BY <1>2, <1>5, <1>13, <1>14, <1>15

\* What a scan leaves from the `v`-th point on: it stops at a point, in front of the first
\* event that is too large.
Validated(t, g, c, n, v, r) ==
  \E w \in v..n :
    /\ r.tail \in Nat /\ g + r.tail = c[w]
    /\ \A i \in (v + 1)..w : c[i] - c[i - 1] <= MaxEvent
    /\ w < n => c[w + 1] - c[w] > MaxEvent
    /\ r.ok = ~(w < n \/ Len(t) - c[n] > MaxTail)

LEMMA ScanExact ==
  ASSUME NEW S, NEW t \in Seq(S), NEW p, p.buffer \in Seq(S), NEW g \in Nat,
         Inside(p.buffer, t, g), g + Len(p.buffer) = Len(t), NEW pushed \in Nat,
         NEW c, NEW n, Points(t, c, n), NEW v \in 0..n,
         p.tail \in 0..Len(p.buffer), g + p.tail = c[v],
         \/ \A at \in Nat : Ends(t, c[v], at) => at > Len(t) - pushed
         \/ v < n /\ c[v + 1] - c[v] > MaxEvent
  PROVE  Validated(t, g, c, n, v, Scan(p, pushed))
<1>1. PICK f : ScanTable(p, pushed, f) /\ Scan(p, pushed) = f[p.tail]
  BY ScanIs
<1>. DEFINE L == Len(p.buffer)
            pos(x) == ScanFrom(p, pushed, x)
            end(x) == ScanEnd(p, pushed, x)
<1>2. L \in Nat /\ Len(t) \in Nat /\ g + L = Len(t) /\ n \in Nat /\ (\A i \in 0..n : c[i] \in 0..Len(t))
      /\ MaxTail \in Nat /\ MaxEvent \in Nat /\ MaxTail <= MaxEvent
  BY WireAssumption DEF Points
<1>3. \A x \in 0..L :
        f[x] = IF end(x) = pos(x) THEN [tail |-> x, ok |-> L - x <= MaxTail]
               ELSE IF end(x) - x > MaxEvent THEN [tail |-> x, ok |-> FALSE]
               ELSE f[end(x)]
  BY <1>1 DEF ScanTable
<1>4. ASSUME NEW x \in 0..L
      PROVE  /\ pos(x) \in x..L
             /\ end(x) = pos(x) \/ (end(x) \in (x + 2)..L /\ Ends(t, g + x, g + end(x)))
             /\ (\A at \in Nat : Ends(t, g + x, at) => at > Len(t) - pushed) =>
                  IF end(x) = pos(x) THEN Unterminated(t, g + x)
                  ELSE FirstEnd(t, g + x, g + end(x))
  BY ScanRound
<1>. HIDE DEF pos, end
<1>5. CASE v < n /\ c[v + 1] - c[v] > MaxEvent
  <2>1. PICK x \in 0..L : x = p.tail
    OBVIOUS
  <2>2. FirstEnd(t, c[v], c[v + 1]) /\ c[v] \in Nat /\ c[v + 1] \in 0..Len(t)
    BY <1>2, <1>5 DEF Points
  <2>3. f[x].tail = x /\ f[x].ok = FALSE
    <3>1. CASE end(x) = pos(x)
      <4>0. PICK y \in Nat, z \in Nat : y = c[v] /\ z = c[v + 1] /\ z <= Len(t) /\ z - y > MaxEvent
        BY <1>5, <2>2
      <4>1. L - x > MaxTail
        <5>1. g + x = y
          BY <2>1, <4>0
        <5>2. L - x = Len(t) - y
          <6>. HIDE DEF L
          <6>1. g + L = Len(t) /\ L \in Nat /\ Len(t) \in Nat /\ x \in Nat
            BY <1>2 DEF L
          <6>. QED BY ONLY <5>1, <6>1, g \in Nat, y \in Nat
        <5>3. Len(t) - y > MaxTail
          BY <1>2, <4>0
        <5>. QED BY <5>2, <5>3
      <4>2. f[x] = [tail |-> x, ok |-> L - x <= MaxTail]
        BY <1>3, <3>1
      <4>3. f[x].tail = x /\ f[x].ok = (L - x <= MaxTail)
        BY <4>2
      <4>4. (L - x <= MaxTail) = FALSE
        BY <1>2, <4>1
      <4>. QED BY <4>3, <4>4
    <3>2. CASE end(x) # pos(x)
      <4>1. Ends(t, c[v], g + end(x)) /\ end(x) \in (x + 2)..L
        BY <1>4, <2>1, <3>2
      <4>2. c[v + 1] <= g + end(x)
        BY <1>2, <2>2, <4>1 DEF FirstEnd
      <4>3. end(x) - x > MaxEvent
        BY <1>2, <1>5, <2>1, <2>2, <4>1, <4>2
      <4>4. f[x] = [tail |-> x, ok |-> FALSE]
        BY <1>3, <3>2, <4>3
      <4>. QED BY <4>4
    <3>. QED BY <3>1, <3>2
  <2>4. v \in v..n /\ ~(v + 1 <= v) /\ \A i \in (v + 1)..v : FALSE
    BY <1>2
  <2>5. f[x].tail \in Nat /\ g + f[x].tail = c[v]
    BY <2>1, <2>3
  <2>6. f[x].ok = ~(v < n \/ Len(t) - c[n] > MaxTail)
    BY <1>5, <2>3
  <2>7. Validated(t, g, c, n, v, f[x])
    BY <1>5, <2>4, <2>5, <2>6 DEF Validated
  <2>. QED BY <1>1, <2>1, <2>7
<1>6. CASE \A at \in Nat : Ends(t, c[v], at) => at > Len(t) - pushed
  <2>1. ASSUME NEW j \in v..n
        PROVE  c[j] - g \in 0..L /\ g + (c[j] - g) = c[j]
               /\ \A at \in Nat : Ends(t, c[j], at) => at > Len(t) - pushed
    <3>1. j \in 0..n /\ v \in 0..n /\ c[j] \in 0..Len(t) /\ c[v] \in 0..Len(t)
      BY <1>2
    <3>2. c[v] <= c[j]
      <4>1. CASE j = v
        BY <3>1, <4>1
      <4>2. CASE j # v
        <5>1. v < j
          BY <1>2, <4>2
        <5>. QED BY <3>1, <5>1, PointsGrow
      <4>. QED BY <4>1, <4>2
    <3>3. g <= c[v]
      BY <1>2
    <3>4. \A at \in Nat : Ends(t, c[j], at) => Ends(t, c[v], at)
      BY <3>1, <3>2, EndsLater
    <3>5. c[j] - g \in 0..L /\ g + (c[j] - g) = c[j]
      <4>1. PICK y \in Nat, z \in Nat : y = c[j] /\ z = c[v] /\ z <= y /\ y <= Len(t) /\ g <= z
        BY <3>1, <3>2, <3>3
      <4>. HIDE DEF L
      <4>2. g + L = Len(t) /\ L \in Nat /\ Len(t) \in Nat
        BY <1>2 DEF L
      <4>3. y - g \in 0..L /\ g + (y - g) = y
        BY ONLY <4>1, <4>2, g \in Nat, y \in Nat, z \in Nat
      <4>. QED BY <4>1, <4>3 DEF L
    <3>6. \A at \in Nat : Ends(t, c[j], at) => at > Len(t) - pushed
      BY <1>6, <3>4
    <3>. QED BY <3>5, <3>6
  <2>. DEFINE T == {k \in 0..(n - v) : ~Validated(t, g, c, n, n - k, f[c[n - k] - g])}
  <2>2. T = {}
    <3>. SUFFICES ASSUME T # {} PROVE FALSE
      OBVIOUS
    <3>1. PICK k \in T : \A i \in T : k <= i
      <4>1. T \subseteq Nat
        BY <1>2
      <4>. HIDE DEF T
      <4>. QED BY <4>1, LeastNumber
    <3>2. PICK j \in v..n : j = n - k /\ k = n - j
      <4>1. n - k \in v..n /\ k = n - (n - k)
        BY <1>2, <3>1
      <4>. QED BY <4>1
    <3>3. PICK x \in 0..L : x = c[j] - g /\ g + x = c[j]
      BY <2>1
    <3>4. ~Validated(t, g, c, n, j, f[x])
      BY <3>1, <3>2, <3>3
    <3>5. j \in 0..n /\ j \in Nat /\ j <= n
      BY <1>2
    <3>6. ASSUME f[x].tail = x, f[x].ok \in BOOLEAN,
                 j < n => c[j + 1] - c[j] > MaxEvent,
                 f[x].ok = ~(j < n \/ Len(t) - c[n] > MaxTail)
          PROVE  FALSE
      <4>1. j \in j..n /\ \A i \in (j + 1)..j : FALSE
        BY <3>5
      <4>2. x \in Nat
        BY <1>2
      <4>. QED BY <3>3, <3>4, <3>6, <4>1, <4>2 DEF Validated
    <3>7. CASE end(x) = pos(x)
      <4>1. Unterminated(t, c[j])
        BY <1>4, <2>1, <3>3, <3>7
      <4>2. j = n
        <5>1. SUFFICES ASSUME j # n PROVE FALSE
          OBVIOUS
        <5>0. j \in 0..(n - 1) /\ j + 1 \in 0..n
          BY <1>2, <3>5, <5>1
        <5>2. FirstEnd(t, c[j], c[j + 1]) /\ c[j + 1] \in Nat
          BY <1>2, <5>0 DEF Points
        <5>. QED BY <4>1, <5>2 DEF Unterminated, FirstEnd
      <4>3. f[x] = [tail |-> x, ok |-> L - x <= MaxTail]
        BY <1>3, <3>7
      <4>4. L - x = Len(t) - c[n] /\ (L - x <= MaxTail <=> ~(L - x > MaxTail))
        <5>1. PICK y \in Nat : y = c[n] /\ g + x = y
          BY <1>2, <3>3, <4>2
        <5>2. x \in Nat /\ g \in Nat
          BY <1>2
        <5>3. L - x = Len(t) - y
          <6>. HIDE DEF L
          <6>1. g + L = Len(t) /\ L \in Nat /\ Len(t) \in Nat
            BY <1>2
          <6>. QED BY ONLY <5>1, <5>2, <6>1
        <5>4. L - x <= MaxTail <=> ~(L - x > MaxTail)
          BY <1>2, <5>2
        <5>. QED BY <5>1, <5>3, <5>4
      <4>5. f[x].tail = x /\ f[x].ok = (L - x <= MaxTail)
        BY <4>3
      <4>6. (L - x <= MaxTail) = ~(j < n \/ Len(t) - c[n] > MaxTail)
        BY <1>2, <4>2, <4>4
      <4>7. (L - x <= MaxTail) \in BOOLEAN /\ ~(j < n)
        BY <1>2, <4>2
      <4>. QED BY <3>6, <4>5, <4>6, <4>7
    <3>8. CASE end(x) # pos(x)
      <4>1. FirstEnd(t, c[j], g + end(x)) /\ end(x) \in (x + 2)..L /\ g + end(x) \in Nat
        <5>1. end(x) \in (x + 2)..L
          BY <1>4, <3>8
        <5>2. FirstEnd(t, g + x, g + end(x))
          BY <1>4, <2>1, <3>3, <3>8
        <5>3. end(x) \in Nat
          BY <1>2, <5>1
        <5>4. FirstEnd(t, c[j], g + end(x))
          BY <3>3, <5>2
        <5>5. g + end(x) \in Nat
          BY <5>3
        <5>. QED BY <5>1, <5>4, <5>5
      <4>2. j < n
        <5>1. SUFFICES ASSUME j = n PROVE FALSE
          BY <1>2, <3>5
        <5>2. Unterminated(t, c[j])
          BY <5>1 DEF Points
        <5>. QED BY <4>1, <5>2 DEF Unterminated, FirstEnd
      <4>3. j \in 0..(n - 1) /\ j + 1 \in v..n /\ j + 1 \in 0..n
        BY <1>2, <3>5, <4>2
      <4>4. c[j + 1] = g + end(x)
        <5>1. FirstEnd(t, c[j], c[j + 1]) /\ c[j + 1] \in Nat
          BY <1>2, <4>3 DEF Points
        <5>. QED BY <4>1, <5>1, OneFirstEnd
      <4>5. end(x) - x = c[j + 1] - c[j] /\ end(x) = c[j + 1] - g
        <5>1. PICK y \in Nat : y = end(x)
          BY <1>2, <4>1
        <5>2. c[j] = g + x /\ c[j + 1] = g + y /\ x \in Nat
          BY <1>2, <3>3, <4>4, <5>1
        <5>. QED BY <5>1, <5>2
      <4>6. CASE end(x) - x > MaxEvent
        <5>1. f[x] = [tail |-> x, ok |-> FALSE]
          BY <1>3, <3>8, <4>6
        <5>2. f[x].tail = x /\ f[x].ok = FALSE
          BY <5>1
        <5>3. c[j + 1] - c[j] > MaxEvent
          BY <4>5, <4>6
        <5>. QED BY <3>6, <4>2, <5>2, <5>3
      <4>7. CASE ~(end(x) - x > MaxEvent)
        <5>1. f[x] = f[c[j + 1] - g]
          BY <1>3, <3>8, <4>5, <4>7
        <5>2. n - (j + 1) \in 0..(n - v) /\ ~(k <= n - (j + 1)) /\ n - (n - (j + 1)) = j + 1
          BY <1>2, <3>2, <4>3
        <5>3. n - (j + 1) \notin T
          BY <3>1, <5>2
        <5>4. Validated(t, g, c, n, j + 1, f[c[j + 1] - g])
          <6>1. Validated(t, g, c, n, n - (n - (j + 1)), f[c[n - (n - (j + 1))] - g])
            BY <5>2, <5>3
          <6>. QED BY <5>2, <6>1
        <5>5. PICK w \in (j + 1)..n :
                /\ f[x].tail \in Nat /\ g + f[x].tail = c[w]
                /\ \A i \in ((j + 1) + 1)..w : c[i] - c[i - 1] <= MaxEvent
                /\ w < n => c[w + 1] - c[w] > MaxEvent
                /\ f[x].ok = ~(w < n \/ Len(t) - c[n] > MaxTail)
          BY <5>1, <5>4 DEF Validated
        <5>6. w \in j..n
          BY <3>5
        <5>7. ASSUME NEW i \in (j + 1)..w PROVE c[i] - c[i - 1] <= MaxEvent
          <6>1. CASE i = j + 1
            <7>1. i - 1 = j /\ c[j + 1] - c[j] <= MaxEvent
              <8>1. PICK y \in Nat : y = end(x) - x /\ ~(y > MaxEvent) /\ y = c[j + 1] - c[j]
                <9>1. end(x) - x \in Nat
                  BY <4>1
                <9>. QED BY <4>5, <4>7, <9>1
              <8>2. y <= MaxEvent
                BY <1>2, <8>1
              <8>. QED BY <3>5, <6>1, <8>1, <8>2
            <7>. QED BY <6>1, <7>1
          <6>2. CASE i # j + 1
            <7>1. i \in ((j + 1) + 1)..w
              BY <3>5, <6>2
            <7>. QED BY <5>5, <7>1
          <6>. QED BY <6>1, <6>2
        <5>. QED BY <3>4, <5>5, <5>6, <5>7 DEF Validated
      <4>. QED BY <4>6, <4>7
    <3>. QED BY <3>7, <3>8
  <2>3. n - v \in 0..(n - v) /\ n - (n - v) = v
    BY <1>2
  <2>4. Validated(t, g, c, n, v, f[c[v] - g])
    <3>1. n - v \notin T
      BY <2>2
    <3>2. Validated(t, g, c, n, n - (n - v), f[c[n - (n - v)] - g])
      BY <2>3, <3>1
    <3>. QED BY <2>3, <3>2
  <2>5. c[v] - g = p.tail
    BY <1>2
  <2>. QED BY <1>1, <2>4, <2>5
<1>. QED BY <1>5, <1>6

-----------------------------------------------------------------------------
(* Events.                                                                 *)

\* What is between two points, without its terminator.
Event(s, a, b) == SubSeq(s, a + 1, b - Boundary(SubSeq(s, a + 1, b)).length)

\* What has been delivered up to the `k`-th point.
EventsTo(s, c, k) == FlattenSeq([i \in 1..k |-> Delivered(Event(s, c[i - 1], c[i]))])

EventSet(s, c) == {ParseBlock(Event(s, c[i - 1], c[i])) : i \in Nat}

LEMMA EventsStep ==
  ASSUME NEW s, NEW c, NEW k \in Nat
  PROVE  /\ EventsTo(s, c, 0) = <<>>
         /\ EventsTo(s, c, k) \in Seq(EventSet(s, c))
         /\ EventsTo(s, c, k + 1) = EventsTo(s, c, k) \o Delivered(Event(s, c[k], c[k + 1]))
         /\ Delivered(Event(s, c[k], c[k + 1])) \in Seq(EventSet(s, c))
<1>. DEFINE S == EventSet(s, c)
            d(i) == Delivered(Event(s, c[i - 1], c[i]))
            seqs(n) == [i \in 1..n |-> d(i)]
<1>1. \A i \in Nat : d(i) \in Seq(S)
  <2>. SUFFICES ASSUME NEW i \in Nat PROVE d(i) \in Seq(S)
    OBVIOUS
  <2>1. PICK x : x = ParseBlock(Event(s, c[i - 1], c[i]))
    OBVIOUS
  <2>2. x \in S
    BY <2>1 DEF EventSet
  <2>3. d(i) = <<>> \/ d(i) = <<x>>
    BY <2>1 DEF Delivered
  <2>. HIDE DEF S, d
  <2>4. <<>> \in Seq(S) /\ <<x>> \in Seq(S)
    BY <2>2
  <2>. QED BY <2>3, <2>4
<1>2. d(k + 1) = Delivered(Event(s, c[k], c[k + 1]))
  <2>1. (k + 1) - 1 = k
    OBVIOUS
  <2>. QED BY <2>1
<1>3. EventsTo(s, c, 0) = FlattenSeq(seqs(0)) /\ EventsTo(s, c, k) = FlattenSeq(seqs(k))
      /\ EventsTo(s, c, k + 1) = FlattenSeq(seqs(k + 1))
  BY DEF EventsTo
<1>. HIDE DEF S, d
<1>4. seqs(0) = <<>>
  OBVIOUS
<1>5. seqs(k) \in Seq(Seq(S)) /\ seqs(k + 1) = Append(seqs(k), d(k + 1)) /\ d(k + 1) \in Seq(S)
  <2>1. seqs(k) \in Seq(Seq(S)) /\ seqs(k + 1) \in Seq(Seq(S)) /\ d(k + 1) \in Seq(S)
    BY <1>1
  <2>2. Len(seqs(k)) = k /\ Len(seqs(k + 1)) = k + 1 /\ seqs(k + 1)[k + 1] = d(k + 1)
        /\ \A i \in 1..k : seqs(k + 1)[i] = seqs(k)[i]
    OBVIOUS
  <2>. HIDE DEF seqs
  <2>3. PICK u \in Seq(Seq(S)) : u = seqs(k) /\ Len(u) = k
    BY <2>1, <2>2
  <2>4. PICK r \in Seq(Seq(S)) : r = seqs(k + 1) /\ Len(r) = k + 1
    BY <2>1, <2>2
  <2>5. Append(u, d(k + 1)) \in Seq(Seq(S)) /\ Len(Append(u, d(k + 1))) = k + 1
        /\ Append(u, d(k + 1))[k + 1] = d(k + 1) /\ \A i \in 1..k : Append(u, d(k + 1))[i] = u[i]
    <3>1. PICK y \in Seq(S) : y = d(k + 1)
      BY <2>1
    <3>2. Append(u, y) \in Seq(Seq(S)) /\ Len(Append(u, y)) = Len(u) + 1
          /\ \A i \in 1..Len(u) : Append(u, y)[i] = u[i]
          /\ Append(u, y)[Len(u) + 1] = y
      BY AppendProperties
    <3>. QED BY <2>3, <3>1, <3>2
  <2>6. \A i \in 1..(k + 1) : r[i] = Append(u, d(k + 1))[i]
    <3>. SUFFICES ASSUME NEW i \in 1..(k + 1) PROVE r[i] = Append(u, d(k + 1))[i]
      OBVIOUS
    <3>1. i = k + 1 \/ i \in 1..k
      OBVIOUS
    <3>. QED BY <2>2, <2>3, <2>4, <2>5, <3>1
  <2>7. r = Append(u, d(k + 1))
    BY <2>4, <2>5, <2>6, SameSequence
  <2>. QED BY <2>1, <2>3, <2>4, <2>7
<1>6. FlattenSeq(seqs(k + 1)) = FlattenSeq(seqs(k)) \o d(k + 1)
  <2>. HIDE DEF seqs
  <2>. QED BY <1>5, FlattenAppend
<1>7. FlattenSeq(seqs(k)) \in Seq(S)
  <2>. HIDE DEF seqs
  <2>. QED BY <1>5, FlattenType
<1>8. FlattenSeq(seqs(0)) = <<>>
  BY <1>4, FlattenEmpty
<1>. QED BY <1>2, <1>3, <1>5, <1>6, <1>7, <1>8 DEF S

LEMMA InFrontIsPrefix ==
  ASSUME NEW S, NEW s \in Seq(S), NEW t \in Seq(S), Inside(s, t, 0)
  PROVE  IsPrefix(s, t)
<1>1. Len(s) \in Nat /\ Len(t) \in Nat /\ Len(s) <= Len(t) /\ \A i \in 1..Len(s) : s[i] = t[i]
  BY DEF Inside
<1>2. PICK u : u = SubSeq(t, 0 + 1, Len(s))
  OBVIOUS
<1>3. PICK w : w = SubSeq(s, 0 + 1, Len(s))
  OBVIOUS
<1>. DEFINE l == Len(s)
<1>4. l \in Nat /\ 0 \in Nat /\ 0 <= l /\ l <= Len(s) /\ l <= Len(t) /\ l - 0 = l
  BY <1>1
<1>. HIDE DEF l
<1>5. SubSeq(t, 0 + 1, l) \in Seq(S) /\ Len(SubSeq(t, 0 + 1, l)) = l
      /\ \A i \in 1..l : SubSeq(t, 0 + 1, l)[i] = t[0 + i]
  BY <1>4, PartFacts
<1>6. SubSeq(s, 0 + 1, l) \in Seq(S) /\ Len(SubSeq(s, 0 + 1, l)) = l
      /\ \A i \in 1..l : SubSeq(s, 0 + 1, l)[i] = s[0 + i]
  BY <1>4, PartFacts
<1>7. \A i \in 1..l : u[i] = w[i]
  BY <1>1, <1>2, <1>3, <1>5, <1>6 DEF l
<1>8. u = w
  BY <1>2, <1>3, <1>5, <1>6, <1>7, SameSequence DEF l
<1>9. 0 + 1 = 1
  OBVIOUS
<1>. QED BY <1>1, <1>2, <1>3, <1>8, <1>9 DEF IsPrefix

LEMMA EventsInFront ==
  ASSUME NEW s, NEW c, NEW k \in Nat, NEW m \in Nat, k <= m
  PROVE  IsPrefix(EventsTo(s, c, k), EventsTo(s, c, m))
<1>. DEFINE S == EventSet(s, c)
            e(i) == EventsTo(s, c, i)
            d(i) == Delivered(Event(s, c[i], c[i + 1]))
            T == {i \in Nat : k <= i /\ ~Inside(e(k), e(i), 0)}
<1>1. \A i \in Nat : e(i) \in Seq(S) /\ e(i + 1) = e(i) \o d(i) /\ d(i) \in Seq(S)
  BY EventsStep
<1>. HIDE DEF e, d, S
<1>2. T = {}
  <2>. SUFFICES ASSUME T # {} PROVE FALSE
    OBVIOUS
  <2>1. PICK n \in T : \A i \in T : n <= i
    <3>1. T \subseteq Nat
      OBVIOUS
    <3>. HIDE DEF T
    <3>. QED BY <3>1, LeastNumber
  <2>2. n # k
    <3>1. Inside(e(k), e(k), 0)
      BY <1>1 DEF Inside
    <3>. QED BY <2>1, <3>1
  <2>3. PICK j \in Nat : n = j + 1 /\ k <= j /\ ~(n <= j)
    <3>1. n - 1 \in Nat /\ n = (n - 1) + 1 /\ k <= n - 1 /\ ~(n <= n - 1)
      BY <2>1, <2>2
    <3>. QED BY <3>1
  <2>4. Inside(e(k), e(j), 0)
    BY <2>1, <2>3
  <2>5. PICK x \in Seq(S) : x = e(j)
    BY <1>1
  <2>6. PICK y \in Seq(S) : y = d(j)
    BY <1>1
  <2>7. PICK z \in Seq(S) : z = e(k)
    BY <1>1
  <2>8. Len(z) <= Len(x) /\ \A i \in 1..Len(z) : z[i] = x[i]
    BY <2>4, <2>5, <2>7 DEF Inside
  <2>9. Len(x \o y) = Len(x) + Len(y) /\ \A i \in 1..Len(x) : (x \o y)[i] = x[i]
    BY ConcatProperties
  <2>10. Inside(z, x \o y, 0)
    BY <2>8, <2>9 DEF Inside
  <2>11. e(n) = x \o y
    BY <1>1, <2>3, <2>5, <2>6
  <2>. QED BY <2>1, <2>7, <2>10, <2>11
<1>3. Inside(e(k), e(m), 0)
  BY <1>2
<1>4. IsPrefix(e(k), e(m))
  BY <1>1, <1>3, InFrontIsPrefix
<1>. QED BY <1>4 DEF e

\* The same part of a sequence and of a longer one.
LEMMA SamePart ==
  ASSUME NEW S, NEW s \in Seq(S), NEW t \in Seq(S), NEW g \in Nat, Inside(t, s, g),
         NEW a \in Nat, NEW b \in Nat, a <= b, b <= Len(t)
  PROVE  SubSeq(t, a + 1, b) = SubSeq(s, g + a + 1, g + b)
<1>1. g + a \in Nat /\ g + b \in Nat /\ g + a <= g + b /\ g + b <= Len(s) /\ (g + b) - (g + a) = b - a
      /\ b - a \in Nat
  BY DEF Inside
<1>2. SubSeq(t, a + 1, b) \in Seq(S) /\ Len(SubSeq(t, a + 1, b)) = b - a
      /\ \A i \in 1..(b - a) : SubSeq(t, a + 1, b)[i] = t[a + i]
  BY PartFacts
<1>3. PICK x \in Nat : x = g + a
  BY <1>1
<1>4. PICK y \in Nat : y = g + b
  BY <1>1
<1>5. SubSeq(s, x + 1, y) \in Seq(S) /\ Len(SubSeq(s, x + 1, y)) = y - x
      /\ \A i \in 1..(y - x) : SubSeq(s, x + 1, y)[i] = s[x + i]
  BY <1>1, <1>3, <1>4, PartFacts
<1>6. ASSUME NEW i \in 1..(b - a) PROVE t[a + i] = s[x + i]
  <2>1. a + i \in 1..Len(t) /\ g + (a + i) = x + i
    BY <1>3
  <2>. QED BY <2>1 DEF Inside
<1>7. SubSeq(t, a + 1, b) = SubSeq(s, x + 1, y)
  <2>1. y - x = b - a
    BY <1>1, <1>3, <1>4
  <2>. QED BY <1>2, <1>5, <1>6, <2>1, SameSequence
<1>. QED BY <1>3, <1>4, <1>7

\* What an event is, and that it stays what it is.
LEMMA EventIs ==
  ASSUME NEW S, NEW s \in Seq(S), NEW a \in Nat, NEW b \in Nat, FirstEnd(s, a, b)
  PROVE  LET l == IF s[b - 1] = LF THEN 2 ELSE 4
         IN  Event(s, a, b) = SubSeq(s, a + 1, b - l) /\ b - l \in a..Len(s)
<1>1. a + 2 <= b /\ b <= Len(s) /\ a <= b /\ Len(s) \in Nat /\ b - 1 >= a
  BY DEF FirstEnd, Ends
<1>2. PICK w \in Seq(S) : w = SubSeq(s, a + 1, b) /\ Len(w) = b - a /\ Inside(w, s, a)
  BY <1>1, PartFacts, PartInside
<1>3. PICK e : e = Boundary(w).end
  OBVIOUS
<1>4. \/ e = 0 /\ \A at \in Nat : Ends(s, a, at) => at > a + Len(w)
      \/ /\ e \in 2..Len(w) /\ FirstEnd(s, a, a + e)
         /\ Boundary(w).length = IF s[a + e - 1] = LF THEN 2 ELSE 4
  BY <1>2, <1>3, BoundaryInside
<1>5. ~(b > a + Len(w))
  BY <1>1, <1>2
<1>6. e \in 2..Len(w) /\ FirstEnd(s, a, a + e)
      /\ Boundary(w).length = IF s[a + e - 1] = LF THEN 2 ELSE 4
  BY <1>4, <1>5 DEF FirstEnd
<1>7. a + e = b
  <2>1. a + e \in Nat
    BY <1>1, <1>2, <1>6
  <2>. QED BY <1>6, <2>1, OneFirstEnd
<1>8. Boundary(w).length = IF s[b - 1] = LF THEN 2 ELSE 4
  BY <1>6, <1>7
<1>9. s[b - 1] # LF => b >= a + 4
  BY DEF FirstEnd, Ends
<1>. QED BY <1>1, <1>2, <1>8, <1>9 DEF Event

LEMMA EventsStay ==
  ASSUME NEW S, NEW s \in Seq(S), NEW t \in Seq(S), Inside(s, t, 0),
         NEW c, NEW n, Points(s, c, n), NEW e, NEW m, Points(t, e, m), NEW k \in 0..n
  PROVE  EventsTo(t, e, k) = EventsTo(s, c, k)
<1>1. n <= m /\ \A i \in 0..n : c[i] = e[i]
  BY PointsStay
<1>2. n \in Nat /\ m \in Nat /\ (\A i \in 0..n : c[i] \in Nat) /\ Len(s) \in Nat /\ Len(t) \in Nat
      /\ Len(s) <= Len(t)
  BY DEF Points, Inside
<1>3. ASSUME NEW i \in 1..k
      PROVE  Delivered(Event(s, c[i - 1], c[i])) = Delivered(Event(t, e[i - 1], e[i]))
  <2>1. i \in 0..n /\ i - 1 \in 0..n /\ i - 1 \in 0..(n - 1) /\ i - 1 \in 0..(m - 1) /\ (i - 1) + 1 = i
    BY <1>1, <1>2
  <2>2. PICK a \in Nat : a = c[i - 1] /\ a = e[i - 1]
    BY <1>1, <1>2, <2>1
  <2>3. PICK b \in Nat : b = c[i] /\ b = e[i]
    BY <1>1, <1>2, <2>1
  <2>4. FirstEnd(s, a, b)
    BY <2>1, <2>2, <2>3 DEF Points
  <2>5. FirstEnd(t, a, b)
    BY <2>1, <2>2, <2>3 DEF Points
  <2>6. PICK l : l = IF s[b - 1] = LF THEN 2 ELSE 4
    OBVIOUS
  <2>7. b - 1 \in 1..Len(s)
    BY <1>2, <2>4 DEF FirstEnd, Ends
  <2>8. t[b - 1] = s[b - 1]
    BY <2>7 DEF Inside
  <2>9. Event(s, a, b) = SubSeq(s, a + 1, b - l) /\ b - l \in a..Len(s)
    BY <2>4, <2>6, EventIs
  <2>10. Event(t, a, b) = SubSeq(t, a + 1, b - l)
    BY <2>5, <2>6, <2>8, EventIs
  <2>11. SubSeq(s, a + 1, b - l) = SubSeq(t, 0 + a + 1, 0 + (b - l))
    <3>1. PICK x \in Nat : x = b - l /\ a <= x /\ x <= Len(s)
      BY <1>2, <2>9
    <3>2. SubSeq(s, a + 1, x) = SubSeq(t, 0 + a + 1, 0 + x)
      <4>1. a <= x /\ x <= Len(s) /\ 0 \in Nat
        BY <3>1
      <4>. QED BY ONLY <4>1, s \in Seq(S), t \in Seq(S), Inside(s, t, 0), a \in Nat, x \in Nat, SamePart
    <3>. QED BY <3>1, <3>2
  <2>12. 0 + a + 1 = a + 1 /\ 0 + (b - l) = b - l
    BY <1>2, <2>9
  <2>. QED BY <2>2, <2>3, <2>9, <2>10, <2>11, <2>12
<1>. QED BY <1>3 DEF EventsTo

-----------------------------------------------------------------------------
(* The parser, and what it keeps.                                          *)

Gone(s, p) == Len(s) - Len(p.buffer)

\* The buffer is the end of the body.
Window(s, p) ==
  /\ s \in Seq(Alphabet) /\ p \in [buffer : Seq(Alphabet), offset : Nat, tail : Nat]
  /\ p.offset <= p.tail /\ p.tail <= Len(p.buffer) /\ Len(p.buffer) <= Len(s)
  /\ Inside(p.buffer, s, Gone(s, p))

\* The parser stands at the `d`-th of `n` points and has validated up to the `v`-th.
Fits(s, p, ev, err, n, c, d, v) ==
  /\ Points(s, c, n) /\ v \in 0..n /\ d \in 0..v
  /\ Gone(s, p) + p.offset = c[d] /\ Gone(s, p) + p.tail = c[v]
  /\ \A i \in 1..v : c[i] - c[i - 1] <= MaxEvent
  /\ v < n => c[v + 1] - c[v] > MaxEvent
  /\ err = (v < n \/ Len(s) - c[n] > MaxTail)
  /\ ev = EventsTo(s, c, d)

StreamHolds(s, p, ev, err) == Window(s, p) /\ \E n, c, d, v : Fits(s, p, ev, err, n, c, d, v)

LEMMA StreamInit == StreamHolds(<<>>, [buffer |-> <<>>, offset |-> 0, tail |-> 0], <<>>, FALSE)
<1>. DEFINE p == [buffer |-> <<>>, offset |-> 0, tail |-> 0]
            c == [i \in 0..0 |-> 0]
<1>1. Len(<<>>) = 0 /\ <<>> \in Seq(Alphabet)
  OBVIOUS
<1>2. Window(<<>>, p) /\ Gone(<<>>, p) = 0
  BY <1>1 DEF Window, Gone, Inside
<1>3. Points(<<>>, c, 0)
  <2>1. c \in [0..0 -> 0..Len(<<>>)] /\ c[0] = 0 /\ 0..(0 - 1) = {} /\ 0 \in Nat
    BY <1>1
  <2>2. Unterminated(<<>>, 0)
    BY <1>1 DEF Unterminated, Ends
  <2>. HIDE DEF c
  <2>. QED BY <2>1, <2>2 DEF Points
<1>4. EventsTo(<<>>, c, 0) = <<>>
  BY EventsStep
<1>5. Fits(<<>>, p, <<>>, FALSE, 0, c, 0, 0)
  <2>1. c[0] = 0 /\ p.offset = 0 /\ p.tail = 0 /\ MaxTail \in Nat
    BY WireAssumption
  <2>2. FALSE = (0 < 0 \/ Len(<<>>) - c[0] > MaxTail)
    BY <1>1, <2>1
  <2>. HIDE DEF c, p
  <2>. QED BY <1>2, <1>3, <1>4, <2>1, <2>2 DEF Fits
<1>. QED BY <1>2, <1>5 DEF StreamHolds

\* Compacting moves nothing but the buffer.
LEMMA CompactKeeps ==
  ASSUME NEW s, NEW p, Window(s, p)
  PROVE  LET q == Compact(p) IN
         /\ Window(s, q)
         /\ Gone(s, q) + q.offset = Gone(s, p) + p.offset
         /\ Gone(s, q) + q.tail = Gone(s, p) + p.tail
<1>. DEFINE q == Compact(p)
<1>1. CASE q = p
  BY <1>1
<1>2. CASE q = [buffer |-> From(p.buffer, p.offset), offset |-> 0, tail |-> p.tail - p.offset]
  <2>1. PICK b \in Seq(Alphabet), o \in Nat, l \in Nat : b = p.buffer /\ o = p.offset /\ l = p.tail
    BY DEF Window
  <2>2. s \in Seq(Alphabet) /\ o <= l /\ l <= Len(b) /\ Len(b) <= Len(s) /\ Len(b) \in Nat
        /\ Len(s) \in Nat /\ \A i \in 1..Len(b) : b[i] = s[Gone(s, p) + i]
    BY <2>1 DEF Window, Inside
  <2>3. PICK g \in Nat : g = Gone(s, p) /\ g + Len(b) = Len(s)
    <3>1. Gone(s, p) = Len(s) - Len(b)
      BY <2>1 DEF Gone
    <3>2. Len(s) - Len(b) \in Nat /\ (Len(s) - Len(b)) + Len(b) = Len(s)
      BY <2>2
    <3>. QED BY <3>1, <3>2
  <2>4. PICK w : w = SubSeq(b, o + 1, Len(b))
    OBVIOUS
  <2>5. w \in Seq(Alphabet) /\ Len(w) = Len(b) - o /\ \A i \in 1..(Len(b) - o) : w[i] = b[o + i]
    BY <2>2, <2>4, PartFacts
  <2>6. q = [buffer |-> w, offset |-> 0, tail |-> l - o]
    BY <1>2, <2>1, <2>4 DEF From
  <2>. HIDE DEF q
  <2>7. q.buffer = w /\ q.offset = 0 /\ q.tail = l - o /\ l - o \in Nat
        /\ q \in [buffer : Seq(Alphabet), offset : Nat, tail : Nat]
    BY <2>2, <2>5, <2>6
  <2>8. Gone(s, q) = g + o /\ Len(w) \in Nat /\ g + o + Len(w) = Len(s) /\ g + o \in Nat
    <3>1. Gone(s, q) = Len(s) - Len(w)
      BY <2>7 DEF Gone
    <3>2. PICK m \in Nat, n \in Nat : m = Len(s) /\ n = Len(b) /\ g + n = m /\ o <= n
      BY <2>2, <2>3
    <3>3. Len(w) = n - o /\ n - o \in Nat
      BY <2>5, <3>2
    <3>4. m - (n - o) = g + o /\ g + o + (n - o) = m
      BY <3>2
    <3>. QED BY <3>1, <3>2, <3>3, <3>4
  <2>9. ASSUME NEW i \in 1..Len(w) PROVE w[i] = s[g + o + i]
    <3>1. o + i \in 1..Len(b) /\ g + (o + i) = g + o + i
      BY <2>2, <2>5
    <3>. QED BY <2>2, <2>3, <2>5, <3>1
  <2>10. Inside(w, s, g + o)
    BY <2>8, <2>9 DEF Inside
  <2>11. Window(s, q)
    <3>1. q.offset <= q.tail /\ q.tail <= Len(q.buffer) /\ Len(q.buffer) <= Len(s)
      BY <2>2, <2>5, <2>7, <2>8
    <3>. QED BY <2>2, <2>7, <2>8, <2>10, <3>1 DEF Window
  <2>12. g + o + 0 = g + o /\ g + o + (l - o) = g + l
    BY <2>2
  <2>. QED BY <2>1, <2>3, <2>7, <2>8, <2>11, <2>12 DEF q
<1>. QED BY <1>1, <1>2 DEF Compact

LEMMA ConcatFacts ==
  ASSUME NEW S, NEW s \in Seq(S), NEW t \in Seq(S)
  PROVE  /\ s \o t \in Seq(S) /\ Len(s \o t) = Len(s) + Len(t)
         /\ Inside(s, s \o t, 0) /\ Inside(t, s \o t, Len(s))
<1>1. PICK m \in Nat : m = Len(s)
  OBVIOUS
<1>2. PICK n \in Nat : n = Len(t)
  OBVIOUS
<1>3. s \o t \in Seq(S) /\ Len(s \o t) = m + n
      /\ \A i \in 1..(m + n) : (s \o t)[i] = IF i <= m THEN s[i] ELSE t[i - m]
  BY <1>1, <1>2, ConcatProperties
<1>4. ASSUME NEW i \in 1..m PROVE s[i] = (s \o t)[0 + i]
  <2>1. i \in 1..(m + n) /\ i <= m /\ 0 + i = i
    OBVIOUS
  <2>. QED BY <1>3, <2>1
<1>5. ASSUME NEW i \in 1..n PROVE t[i] = (s \o t)[m + i]
  <2>1. m + i \in 1..(m + n) /\ ~(m + i <= m) /\ (m + i) - m = i
    OBVIOUS
  <2>. QED BY <1>3, <2>1
<1>6. 0 + m <= m + n /\ m + n <= m + n
  OBVIOUS
<1>. QED BY <1>1, <1>2, <1>3, <1>4, <1>5, <1>6 DEF Inside

\* The end of a sequence stays the end of it when both grow by the same.
LEMMA EndGrows ==
  ASSUME NEW S, NEW s \in Seq(S), NEW b \in Seq(S), NEW x \in Seq(S), NEW g \in Nat,
         Inside(b, s, g), g + Len(b) = Len(s)
  PROVE  Inside(b \o x, s \o x, g) /\ g + Len(b \o x) = Len(s \o x)
<1>1. PICK m \in Nat : m = Len(s)
  OBVIOUS
<1>2. PICK n \in Nat : n = Len(b)
  OBVIOUS
<1>3. PICK k \in Nat : k = Len(x)
  OBVIOUS
<1>4. PICK t \in Seq(S) : t = s \o x /\ Len(t) = m + k /\ Inside(s, t, 0) /\ Inside(x, t, m)
  BY <1>1, <1>3, ConcatFacts
<1>5. PICK u \in Seq(S) : u = b \o x /\ Len(u) = n + k /\ Inside(b, u, 0) /\ Inside(x, u, n)
  BY <1>2, <1>3, ConcatFacts
<1>6. g + n = m /\ \A i \in 1..n : b[i] = s[g + i]
  BY <1>1, <1>2 DEF Inside
<1>7. ASSUME NEW i \in 1..(n + k) PROVE u[i] = t[g + i]
  <2>1. CASE i <= n
    <3>1. i \in 1..n /\ g + i \in 1..m /\ 0 + i = i /\ 0 + (g + i) = g + i
      BY <1>6, <2>1
    <3>2. b[i] = u[0 + i] /\ s[g + i] = t[0 + (g + i)]
      BY <1>1, <1>2, <1>4, <1>5, <3>1 DEF Inside
    <3>. QED BY <1>6, <3>1, <3>2
  <2>2. CASE ~(i <= n)
    <3>1. PICK j \in 1..k : i = n + j
      <4>1. i - n \in 1..k /\ i = n + (i - n)
        BY <2>2
      <4>. QED BY <4>1
    <3>2. g + i = m + j
      BY <1>6, <3>1
    <3>3. x[j] = u[n + j] /\ x[j] = t[m + j]
      BY <1>3, <1>4, <1>5 DEF Inside
    <3>. QED BY <3>1, <3>2, <3>3
  <2>. QED BY <2>1, <2>2
<1>8. g + (n + k) = m + k
  BY <1>6
<1>. QED BY <1>4, <1>5, <1>7, <1>8 DEF Inside

LEMMA PushKeeps ==
  ASSUME NEW s, NEW p, NEW ev, NEW err, StreamHolds(s, p, ev, err), NEW chunk \in Seq(Alphabet)
  PROVE  StreamHolds(s \o chunk, PushChunk(p, chunk).parser, ev, ~PushChunk(p, chunk).ok)
<1>1. PICK n, c, d, v : Fits(s, p, ev, err, n, c, d, v)
  BY DEF StreamHolds
<1>2. Window(s, p)
  BY DEF StreamHolds
<1>3. PICK q : q = Compact(p)
  OBVIOUS
<1>4. Window(s, q) /\ Gone(s, q) + q.offset = c[d] /\ Gone(s, q) + q.tail = c[v]
  BY <1>1, <1>2, <1>3, CompactKeeps DEF Fits
<1>5. PICK b \in Seq(Alphabet), o \in Nat, l \in Nat :
        b = q.buffer /\ o = q.offset /\ l = q.tail /\ q = [buffer |-> b, offset |-> o, tail |-> l]
  BY <1>4 DEF Window
<1>6. s \in Seq(Alphabet) /\ o <= l /\ l <= Len(b) /\ Len(b) <= Len(s) /\ Len(b) \in Nat
      /\ Len(s) \in Nat /\ \A i \in 1..Len(b) : b[i] = s[Gone(s, q) + i]
  BY <1>4, <1>5 DEF Window, Inside
<1>7. PICK g \in Nat : g = Gone(s, q) /\ g + Len(b) = Len(s) /\ g + o = c[d] /\ g + l = c[v]
  <2>1. Gone(s, q) \in Nat /\ Gone(s, q) + Len(b) = Len(s)
    BY <1>5, <1>6 DEF Gone
  <2>. QED BY <1>4, <1>5, <2>1
<1>8. PICK t \in Seq(Alphabet) : t = s \o chunk
  BY <1>6, ConcatFacts
<1>9. PICK u \in Seq(Alphabet) : u = b \o chunk
  BY ConcatFacts
<1>10. PICK k \in Nat : k = Len(chunk) /\ g + Len(u) = Len(t) /\ Len(t) - k = Len(s)
                        /\ Len(u) = Len(b) + k /\ Len(u) \in Nat /\ Len(t) \in Nat
  <2>1. PICK k \in Nat : k = Len(chunk)
    OBVIOUS
  <2>2. Len(t) = Len(s) + k /\ Len(u) = Len(b) + k
    BY <1>6, <1>8, <1>9, <2>1, ConcatFacts
  <2>3. PICK m \in Nat, x \in Nat : m = Len(s) /\ x = Len(b) /\ g + x = m
    BY <1>6, <1>7
  <2>4. Len(t) = m + k /\ Len(u) = x + k
    BY <2>2, <2>3
  <2>5. g + (x + k) = (g + x) + k /\ (m + k) - k = m
    OBVIOUS
  <2>6. g + Len(u) = Len(t)
    BY <2>3, <2>4, <2>5
  <2>7. Len(t) - k = Len(s) /\ Len(u) = Len(b) + k
    BY <2>3, <2>4, <2>5
  <2>8. Len(u) \in Nat /\ Len(t) \in Nat
    BY <2>4
  <2>. QED BY <2>1, <2>6, <2>7, <2>8
<1>11. Inside(u, t, g)
  <2>1. Inside(b, s, g)
    BY <1>4, <1>5, <1>7 DEF Window
  <2>. QED BY <1>6, <1>7, <1>8, <1>9, <2>1, EndGrows
<1>12. PICK r : r = [buffer |-> u, offset |-> o, tail |-> l]
  OBVIOUS
<1>13. PICK z : z = Scan(r, k)
  OBVIOUS
<1>14. PushChunk(p, chunk).parser = [buffer |-> u, offset |-> o, tail |-> z.tail]
       /\ PushChunk(p, chunk).ok = z.ok
  <2>1. [q EXCEPT !.buffer = @ \o chunk] = r
    <3>1. [q EXCEPT !.buffer = @ \o chunk] = [q EXCEPT !.buffer = u]
      BY <1>5, <1>9
    <3>2. [[buffer |-> b, offset |-> o, tail |-> l] EXCEPT !.buffer = u]
             = [buffer |-> u, offset |-> o, tail |-> l]
      OBVIOUS
    <3>3. q = [buffer |-> b, offset |-> o, tail |-> l]
      BY <1>5
    <3>. QED BY ONLY <1>12, <3>1, <3>2, <3>3
  <2>2. PushChunk(p, chunk) = [parser |-> [r EXCEPT !.tail = z.tail], ok |-> z.ok]
    BY <1>3, <1>10, <1>13, <2>1 DEF PushChunk
  <2>. QED BY <1>12, <2>2
<1>15. PICK m, e : Points(t, e, m)
  BY TerminatedPoints
<1>16. Inside(s, t, 0)
  BY <1>6, <1>8, ConcatFacts
<1>17. Points(s, c, n) /\ v \in 0..n /\ d \in 0..v /\ n \in Nat /\ v \in Nat /\ d \in 0..n
  BY <1>1 DEF Fits, Points
<1>18. n <= m /\ (\A i \in 0..n : c[i] = e[i]) /\ \A at \in Nat : Ends(t, c[n], at) => at > Len(s)
  BY <1>6, <1>15, <1>16, <1>17, PointsStay
<1>19. m \in Nat /\ v \in 0..m /\ e[v] = c[v] /\ e[d] = c[d] /\ (\A i \in 0..m : e[i] \in Nat)
  BY <1>15, <1>17, <1>18 DEF Points
<1>20. \/ \A at \in Nat : Ends(t, e[v], at) => at > Len(t) - k
       \/ v < m /\ e[v + 1] - e[v] > MaxEvent
  <2>1. CASE v = n
    BY <1>10, <1>18, <1>19, <2>1
  <2>2. CASE v < n
    <3>1. v + 1 \in 0..n /\ v \in 0..n
      BY <1>17, <2>2
    <3>2. c[v + 1] - c[v] > MaxEvent
      BY <1>1, <2>2 DEF Fits
    <3>. QED BY <1>17, <1>18, <1>19, <2>2, <3>1, <3>2
  <2>. QED BY <1>17, <2>1, <2>2
<1>21. Validated(t, g, e, m, v, z)
  <2>1. r.buffer \in Seq(Alphabet) /\ Inside(r.buffer, t, g) /\ g + Len(r.buffer) = Len(t)
        /\ r.tail \in 0..Len(r.buffer) /\ g + r.tail = e[v]
    <3>1. r.buffer = u /\ r.tail = l
      BY <1>12
    <3>2. l \in 0..Len(u)
      BY <1>6, <1>10
    <3>. QED BY <1>7, <1>10, <1>11, <1>19, <3>1, <3>2
  <2>. QED BY <1>13, <1>15, <1>19, <1>20, <2>1, ScanExact
<1>22. PICK w \in v..m :
         /\ z.tail \in Nat /\ g + z.tail = e[w]
         /\ \A i \in (v + 1)..w : e[i] - e[i - 1] <= MaxEvent
         /\ w < m => e[w + 1] - e[w] > MaxEvent
         /\ z.ok = ~(w < m \/ Len(t) - e[m] > MaxTail)
  BY <1>21 DEF Validated
<1>23. PICK x : x = [buffer |-> u, offset |-> o, tail |-> z.tail]
  OBVIOUS
<1>24. x.buffer = u /\ x.offset = o /\ x.tail = z.tail /\ Gone(t, x) = g
  <2>1. x.buffer = u /\ x.offset = o /\ x.tail = z.tail
    BY <1>23
  <2>2. Len(t) - Len(u) = g
    BY <1>10
  <2>. QED BY <2>1, <2>2 DEF Gone
<1>25. w \in 0..m /\ d \in 0..w /\ w \in Nat
  BY <1>17, <1>19, <1>22
<1>26. Window(t, x)
  <2>1. e[v] <= e[w]
    <3>1. CASE v = w
      BY <1>19, <3>1
    <3>2. CASE v < w
      <4>1. e[v] < e[w]
        BY <1>15, <1>19, <1>25, <3>2, PointsGrow
      <4>. QED BY <1>19, <1>25, <4>1
    <3>3. v = w \/ v < w
      BY <1>17, <1>22, <1>25
    <3>. QED BY <3>1, <3>2, <3>3
  <2>2. e[w] <= Len(t) /\ e[w] \in Nat /\ e[v] \in Nat
    BY <1>15, <1>19, <1>25 DEF Points
  <2>3. o <= z.tail /\ z.tail <= Len(u) /\ Len(u) <= Len(t) /\ Len(u) \in Nat
    <3>1. PICK y \in Nat : y = z.tail
      BY <1>22
    <3>2. PICK f \in Nat : f = e[w] /\ g + y = f /\ f <= Len(t)
      BY <1>22, <2>2, <3>1
    <3>3. l <= y
      BY <1>7, <1>19, <2>1, <2>2, <3>2
    <3>4. o <= l
      BY <1>6
    <3>5. g + Len(u) = Len(t) /\ Len(u) \in Nat /\ Len(t) \in Nat
      BY <1>10
    <3>. QED BY ONLY <3>1, <3>2, <3>3, <3>4, <3>5, o \in Nat, l \in Nat, g \in Nat
  <2>4. x \in [buffer : Seq(Alphabet), offset : Nat, tail : Nat]
    BY <1>22, <1>23
  <2>. QED BY <1>11, <1>24, <2>3, <2>4 DEF Window
<1>27. ASSUME NEW i \in 1..w PROVE e[i] - e[i - 1] <= MaxEvent
  <2>1. CASE i <= v
    <3>1. i \in 1..v /\ i \in 0..n /\ i - 1 \in 0..n
      BY <1>17, <2>1
    <3>2. c[i] - c[i - 1] <= MaxEvent
      BY <1>1, <3>1 DEF Fits
    <3>. QED BY <1>18, <3>1, <3>2
  <2>2. CASE ~(i <= v)
    <3>1. i \in (v + 1)..w
      BY <1>17, <1>25, <2>2
    <3>. QED BY <1>22, <3>1
  <2>. QED BY <2>1, <2>2
<1>28. ev = EventsTo(t, e, d)
  <2>1. EventsTo(t, e, d) = EventsTo(s, c, d)
    BY <1>6, <1>15, <1>16, <1>17, EventsStay
  <2>. QED BY <1>1, <2>1 DEF Fits
<1>29. ~z.ok = (w < m \/ Len(t) - e[m] > MaxTail)
  BY <1>22
<1>30. Fits(t, x, ev, ~z.ok, m, e, d, w)
  BY <1>7, <1>15, <1>19, <1>22, <1>23, <1>24, <1>25, <1>27, <1>28, <1>29 DEF Fits
<1>31. StreamHolds(t, x, ev, ~z.ok)
  BY <1>26, <1>30 DEF StreamHolds
<1>. QED BY <1>8, <1>14, <1>23, <1>31

\* There is another event exactly when one has been validated, and it is the next one.
LEMMA NextIs ==
  ASSUME NEW s, NEW p, NEW ev, NEW err, NEW n, NEW c, NEW d, NEW v,
         Window(s, p), Fits(s, p, ev, err, n, c, d, v)
  PROVE  /\ Blocks(p) <=> d < v
         /\ Blocks(p) =>
              LET b == NextBlock(p) IN
              /\ b.end \in Nat /\ p.offset + b.end <= p.tail
              /\ Gone(s, p) + p.offset + b.end = c[d + 1]
              /\ SubSeq(p.buffer, p.offset + 1, p.offset + b.end - b.length)
                   = Event(s, c[d], c[d + 1])
<1>1. PICK u \in Seq(Alphabet), o \in Nat, l \in Nat : u = p.buffer /\ o = p.offset /\ l = p.tail
  BY DEF Window
<1>2. s \in Seq(Alphabet) /\ o <= l /\ l <= Len(u) /\ Len(u) <= Len(s) /\ Len(u) \in Nat
      /\ Len(s) \in Nat
  BY <1>1 DEF Window
<1>3. PICK g \in Nat : g = Gone(s, p) /\ g + Len(u) = Len(s) /\ Inside(u, s, g)
  BY <1>1, <1>2 DEF Window, Gone
<1>4. Points(s, c, n) /\ v \in 0..n /\ d \in 0..v /\ n \in Nat /\ v \in Nat /\ d \in 0..n
      /\ g + o = c[d] /\ g + l = c[v] /\ d \in Nat
  BY <1>1, <1>3 DEF Fits, Points
<1>5. PICK a \in Nat : a = c[d] /\ a = g + o
  BY <1>4
<1>6. PICK w : w = SubSeq(u, o + 1, l)
  OBVIOUS
<1>7. w \in Seq(Alphabet) /\ Len(w) = l - o /\ \A i \in 1..(l - o) : w[i] = u[o + i]
  BY <1>2, <1>6, PartFacts
<1>8. Inside(w, s, a)
  <2>1. ASSUME NEW i \in 1..Len(w) PROVE w[i] = s[a + i]
    <3>1. o + i \in 1..Len(u) /\ g + (o + i) = a + i
      BY <1>2, <1>5, <1>7
    <3>2. u[o + i] = s[g + (o + i)]
      BY <1>3, <3>1 DEF Inside
    <3>. QED BY <1>7, <3>1, <3>2
  <2>. QED BY <1>2, <1>3, <1>5, <1>7, <2>1 DEF Inside
<1>9. PICK b : b = Boundary(w) /\ b = NextBlock(p)
  BY <1>1, <1>6 DEF NextBlock
<1>10. \/ b.end = 0 /\ \A at \in Nat : Ends(s, a, at) => at > a + Len(w)
       \/ /\ b.end \in 2..Len(w) /\ FirstEnd(s, a, a + b.end)
          /\ b.length = IF s[a + b.end - 1] = LF THEN 2 ELSE 4
  <2>1. \/ /\ Boundary(w).end = 0
           /\ \A at \in Nat : Ends(s, a, at) => at > a + Len(w)
        \/ /\ Boundary(w).end \in 2..Len(w) /\ FirstEnd(s, a, a + Boundary(w).end)
           /\ Boundary(w).length = IF s[a + Boundary(w).end - 1] = LF THEN 2 ELSE 4
    BY <1>2, <1>7, <1>8, BoundaryInside
  <2>. QED BY <1>9, <2>1
<1>11. a + Len(w) = c[v] /\ Len(w) \in Nat /\ (Blocks(p) <=> b.end > 0)
  BY <1>2, <1>4, <1>5, <1>7, <1>9 DEF Blocks
<1>12. CASE d < v
  <2>1. d \in 0..(n - 1) /\ d + 1 \in 0..n /\ d + 1 \in 0..v
    BY <1>4, <1>12
  <2>2. FirstEnd(s, a, c[d + 1]) /\ c[d + 1] \in Nat /\ c[v] \in Nat
    <3>1. FirstEnd(s, c[d], c[d + 1])
      BY <1>4, <2>1 DEF Points
    <3>2. \A i \in 0..n : c[i] \in Nat
      BY <1>4 DEF Points
    <3>. QED BY <1>4, <1>5, <2>1, <3>1, <3>2
  <2>3. c[d + 1] <= c[v]
    <3>1. CASE d + 1 = v
      BY <2>2, <3>1
    <3>2. CASE d + 1 < v
      <4>1. c[d + 1] < c[v]
        BY <1>4, <2>1, <3>2, PointsGrow
      <4>. QED BY <2>2, <4>1
    <3>. QED BY <1>4, <1>12, <3>1, <3>2
  <2>4. ~(c[d + 1] > a + Len(w))
    BY <1>11, <2>2, <2>3
  <2>5. b.end \in 2..Len(w) /\ FirstEnd(s, a, a + b.end)
        /\ b.length = IF s[a + b.end - 1] = LF THEN 2 ELSE 4
    BY <1>10, <2>2, <2>4 DEF FirstEnd
  <2>6. PICK x \in Nat : x = b.end /\ x >= 2 /\ x <= Len(w)
    BY <1>11, <2>5
  <2>7. a + x = c[d + 1] /\ a + x \in Nat
    BY <2>2, <2>5, <2>6, OneFirstEnd
  <2>8. PICK y \in Nat : y = b.length /\ y = IF s[a + x - 1] = LF THEN 2 ELSE 4
    BY <2>5, <2>6
  <2>9. Event(s, a, a + x) = SubSeq(s, a + 1, a + x - y) /\ a + x - y \in a..Len(s)
    <3>1. PICK z \in Nat : z = a + x
      BY <2>7
    <3>2. FirstEnd(s, a, z)
      BY <2>5, <2>6, <3>1
    <3>3. y = IF s[z - 1] = LF THEN 2 ELSE 4
      BY <2>8, <3>1
    <3>4. Event(s, a, z) = SubSeq(s, a + 1, z - y) /\ z - y \in a..Len(s)
      BY <1>2, <3>2, <3>3, EventIs
    <3>. QED BY <3>1, <3>4
  <2>10. PICK h \in Nat : h = o + x - y /\ o <= h /\ h <= Len(u) /\ g + h = a + x - y
    <3>0. x <= l - o /\ y <= x
      <4>1. a + x - y >= a
        BY <1>2, <2>9
      <4>2. Len(w) = l - o
        BY <1>7
      <4>. QED BY <2>6, <4>1, <4>2
    <3>1. o + x - y >= o /\ o + x - y <= Len(u) /\ g + (o + x - y) = a + x - y
      BY <1>2, <1>5, <3>0
    <3>2. o + x - y \in Nat
      BY <3>1
    <3>. QED BY <3>1, <3>2
  <2>11. SubSeq(u, o + 1, h) = SubSeq(s, g + o + 1, g + h)
    <3>1. s \in Seq(Alphabet) /\ Inside(u, s, g) /\ o <= h /\ h <= Len(u)
      BY <1>2, <1>3, <2>10
    <3>. QED BY ONLY u \in Seq(Alphabet), g \in Nat, o \in Nat, h \in Nat, <3>1, SamePart
  <2>12. SubSeq(u, o + 1, h) = Event(s, c[d], c[d + 1])
    BY <1>5, <2>7, <2>9, <2>10, <2>11
  <2>13. Blocks(p) /\ o + x <= l /\ g + o + x = c[d + 1]
    BY <1>2, <1>5, <1>7, <1>11, <2>6, <2>7
  <2>. QED BY <1>1, <1>3, <1>9, <1>12, <2>6, <2>8, <2>10, <2>12, <2>13
<1>13. CASE ~(d < v)
  <2>1. d = v
    BY <1>4, <1>13
  <2>2. Len(w) = 0
    <3>1. g + l = g + o
      BY <1>4, <2>1
    <3>2. l = o
      BY <3>1
    <3>. QED BY <1>7, <3>2
  <2>3. ~(b.end > 0)
    BY <1>10, <2>2
  <2>. QED BY <1>11, <1>13, <2>3
<1>. QED BY <1>12, <1>13

LEMMA NextKeeps ==
  ASSUME NEW s, NEW p, NEW ev, NEW err, StreamHolds(s, p, ev, err), Blocks(p)
  PROVE  LET b == NextBlock(p)
             block == SubSeq(p.buffer, p.offset + 1, p.offset + b.end - b.length)
         IN  StreamHolds(s, [p EXCEPT !.offset = @ + b.end], ev \o Delivered(block), err)
<1>1. PICK n, c, d, v : Fits(s, p, ev, err, n, c, d, v)
  BY DEF StreamHolds
<1>2. Window(s, p)
  BY DEF StreamHolds
<1>3. PICK b : b = NextBlock(p)
  OBVIOUS
<1>4. PICK block : block = SubSeq(p.buffer, p.offset + 1, p.offset + b.end - b.length)
  OBVIOUS
<1>5. d < v /\ b.end \in Nat /\ p.offset + b.end <= p.tail
      /\ Gone(s, p) + p.offset + b.end = c[d + 1] /\ block = Event(s, c[d], c[d + 1])
  BY <1>1, <1>2, <1>3, <1>4, NextIs
<1>6. PICK x : x = [p EXCEPT !.offset = @ + b.end]
  OBVIOUS
<1>7. /\ x \in [buffer : Seq(Alphabet), offset : Nat, tail : Nat]
      /\ x.buffer = p.buffer /\ x.offset = p.offset + b.end /\ x.tail = p.tail
      /\ p.offset \in Nat
  BY <1>2, <1>5, <1>6 DEF Window
<1>8. Gone(s, x) = Gone(s, p) /\ Gone(s, p) \in Int
  BY <1>2, <1>7 DEF Gone, Window
<1>9. Window(s, x)
  BY <1>2, <1>5, <1>7, <1>8 DEF Window
<1>10. v \in Nat /\ d \in Nat /\ d + 1 \in 0..v
  BY <1>1, <1>5 DEF Fits, Points
<1>11. ev \o Delivered(block) = EventsTo(s, c, d + 1)
  BY <1>1, <1>5, <1>10, EventsStep DEF Fits
<1>12. Gone(s, x) + x.offset = c[d + 1]
  BY <1>5, <1>7, <1>8
<1>13. Fits(s, x, ev \o Delivered(block), err, n, c, d + 1, v)
  BY <1>1, <1>7, <1>8, <1>10, <1>11, <1>12 DEF Fits
<1>. QED BY <1>3, <1>4, <1>6, <1>9, <1>13 DEF StreamHolds

-----------------------------------------------------------------------------
(* The events of a stream are exact.                                       *)

StreamInv == StreamHolds(body, parser, events, error)

LEMMA OnePoints ==
  ASSUME NEW S, NEW s \in Seq(S), NEW c, NEW n, Points(s, c, n), NEW e, NEW m, Points(s, e, m)
  PROVE  n = m /\ c = e
<1>1. Inside(s, s, 0)
  BY DEF Inside
<1>2. n <= m /\ m <= n /\ \A i \in 0..n : c[i] = e[i]
  BY <1>1, PointsStay
<1>3. n \in Nat /\ m \in Nat /\ c = [i \in 0..n |-> c[i]] /\ e = [i \in 0..m |-> e[i]]
  BY DEF Points
<1>4. n = m
  BY <1>2, <1>3
<1>. QED BY <1>2, <1>3, <1>4

\* What EventsExact says of a stream.
StreamExact ==
  LET parts == Terminated(body)
      Size(i) == parts[i][2] - parts[i][1] + 1
      complete == {i \in DOMAIN parts : i < Len(parts)}
      large == {i \in complete : Size(i) > MaxEvent} \cup
               {i \in {Len(parts)} : Size(i) > MaxTail}
      Block(i) == SubSeq(body, parts[i][1],
                         parts[i][2] - Boundary(SubSeq(body, parts[i][1], parts[i][2])).length)
      fine == {i \in complete : \A j \in large : i < j}
      whole == FlattenSeq([i \in 1..Cardinality(fine) |-> Delivered(Block(i))])
  IN /\ error = (large # {})
     /\ IsPrefix(events, whole)
     /\ ~Blocks(parser) => events = whole

LEMMA StreamInvExact ==
  ASSUME StreamInv
  PROVE  StreamExact
<1>. DEFINE parts == Terminated(body)
            Size(i) == parts[i][2] - parts[i][1] + 1
            complete == {i \in DOMAIN parts : i < Len(parts)}
            large == {i \in complete : Size(i) > MaxEvent} \cup
                     {i \in {Len(parts)} : Size(i) > MaxTail}
            Block(i) == SubSeq(body, parts[i][1],
                          parts[i][2] - Boundary(SubSeq(body, parts[i][1], parts[i][2])).length)
            fine == {i \in complete : \A j \in large : i < j}
            whole == FlattenSeq([i \in 1..Cardinality(fine) |-> Delivered(Block(i))])
<1>1. PICK n, c, d, v : Fits(body, parser, events, error, n, c, d, v)
  BY DEF StreamInv, StreamHolds
<1>2. Window(body, parser) /\ body \in Seq(Alphabet)
  BY DEF StreamInv, StreamHolds, Window
<1>3. Points(body, c, n) /\ v \in 0..n /\ d \in 0..v /\ n \in Nat /\ v \in Nat /\ d \in Nat /\ d <= v
      /\ (\A i \in 0..n : c[i] \in Nat) /\ Len(body) \in Nat
  BY <1>1, <1>2 DEF Fits, Points
<1>4. parts = PartsOf(body, c, n)
  <2>1. PICK m, e : Points(body, e, m) /\ parts = PartsOf(body, e, m)
    BY <1>2, TerminatedPoints
  <2>2. m = n /\ e = c
    BY <1>2, <1>3, <2>1, OnePoints
  <2>. QED BY <2>1, <2>2
<1>. HIDE DEF parts
<1>5. DOMAIN parts = 1..(n + 1) /\ Len(parts) = n + 1
      /\ (\A i \in 1..n : parts[i] = <<c[i - 1] + 1, c[i]>>) /\ parts[n + 1] = <<c[n] + 1, Len(body)>>
  <2>1. parts = [i \in 1..(n + 1) |-> IF i <= n THEN <<c[i - 1] + 1, c[i]>>
                                     ELSE <<c[n] + 1, Len(body)>>]
    BY <1>4 DEF PartsOf
  <2>2. \A i \in 1..n : i \in 1..(n + 1) /\ i <= n
    BY <1>3
  <2>3. n + 1 \in 1..(n + 1) /\ ~(n + 1 <= n) /\ n + 1 \in Nat
    BY <1>3
  <2>. QED BY <2>1, <2>2, <2>3
<1>6. \A i \in 1..n : Size(i) = c[i] - c[i - 1]
  <2>. SUFFICES ASSUME NEW i \in 1..n PROVE Size(i) = c[i] - c[i - 1]
    OBVIOUS
  <2>1. i \in 0..n /\ i - 1 \in 0..n
    BY <1>3
  <2>2. PICK a \in Nat, b \in Nat : a = c[i - 1] /\ b = c[i]
    BY <1>3, <2>1
  <2>3. parts[i][1] = a + 1 /\ parts[i][2] = b
    BY <1>5, <2>2
  <2>. QED BY <2>2, <2>3
<1>7. Size(n + 1) = Len(body) - c[n]
  <2>1. PICK a \in Nat, b \in Nat : a = c[n] /\ b = Len(body)
    BY <1>3
  <2>2. parts[n + 1][1] = a + 1 /\ parts[n + 1][2] = b
    BY <1>5, <2>1
  <2>. QED BY <2>1, <2>2
<1>8. complete = 1..n
  BY <1>3, <1>5
<1>. HIDE DEF Size, complete
<1>9. /\ \A i \in 1..v : ~(Size(i) > MaxEvent)
      /\ v < n => Size(v + 1) > MaxEvent
      /\ error = (v < n \/ Size(n + 1) > MaxTail)
  <2>1. ASSUME NEW i \in 1..v PROVE ~(Size(i) > MaxEvent)
    <3>1. i \in 1..n /\ i \in 0..n /\ i - 1 \in 0..n
      BY <1>3
    <3>2. c[i] - c[i - 1] <= MaxEvent /\ c[i] \in Nat /\ c[i - 1] \in Nat /\ MaxEvent \in Nat
      BY <1>1, <1>3, <3>1, WireAssumption DEF Fits
    <3>. QED BY <1>6, <3>1, <3>2
  <2>2. ASSUME v < n PROVE Size(v + 1) > MaxEvent
    <3>1. v + 1 \in 1..n /\ (v + 1) - 1 = v
      BY <1>3, <2>2
    <3>2. c[v + 1] - c[v] > MaxEvent
      BY <1>1, <2>2 DEF Fits
    <3>. QED BY <1>6, <3>1, <3>2
  <2>3. error = (v < n \/ Size(n + 1) > MaxTail)
    BY <1>1, <1>7 DEF Fits
  <2>. QED BY <2>1, <2>2, <2>3
<1>10. \A j : j \in large <=> (j \in 1..n /\ Size(j) > MaxEvent) \/ (j = n + 1 /\ Size(j) > MaxTail)
  BY <1>5, <1>8
<1>. HIDE DEF large
<1>11. error = (large # {})
  <2>1. CASE v < n
    <3>1. v + 1 \in large
      BY <1>3, <1>9, <1>10, <2>1
    <3>2. error = TRUE
      BY <1>9, <2>1
    <3>. QED BY <3>1, <3>2
  <2>2. CASE ~(v < n)
    <3>1. v = n
      BY <1>3, <2>2
    <3>2. large # {} <=> Size(n + 1) > MaxTail
      BY <1>9, <1>10, <3>1
    <3>3. error = (Size(n + 1) > MaxTail)
      BY <1>9, <2>2
    <3>. QED BY <3>2, <3>3
  <2>. QED BY <2>1, <2>2
<1>12. fine = 1..v
  <2>1. ASSUME NEW i \in fine PROVE i \in 1..v
    <3>1. i \in 1..n /\ \A j \in large : i < j
      BY <1>8
    <3>2. v < n => i < v + 1
      <4>1. v < n => v + 1 \in large
        BY <1>3, <1>9, <1>10
      <4>. QED BY <3>1, <4>1
    <3>. QED BY <1>3, <3>1, <3>2
  <2>2. ASSUME NEW i \in 1..v PROVE i \in fine
    <3>1. i \in 1..n
      BY <1>3
    <3>2. ASSUME NEW j \in large PROVE i < j
      <4>1. j \in 1..(n + 1) /\ j \notin 1..v
        BY <1>3, <1>9, <1>10
      <4>. QED BY <1>3, <4>1
    <3>. QED BY <1>8, <3>1, <3>2
  <2>. QED BY <2>1, <2>2
<1>. HIDE DEF fine
<1>13. Cardinality(fine) = v
  <2>1. Cardinality(1..v) = IF 1 > v THEN 0 ELSE v - 1 + 1
    BY <1>3, FS_Interval
  <2>. QED BY <1>3, <1>12, <2>1
<1>14. whole = EventsTo(body, c, v)
  <2>1. ASSUME NEW i \in 1..v PROVE Block(i) = Event(body, c[i - 1], c[i])
    <3>1. parts[i] = <<c[i - 1] + 1, c[i]>>
      BY <1>3, <1>5
    <3>2. parts[i][1] = c[i - 1] + 1 /\ parts[i][2] = c[i]
      BY <3>1
    <3>. QED BY <3>2 DEF Event
  <2>. HIDE DEF Block
  <2>2. [i \in 1..v |-> Delivered(Block(i))] = [i \in 1..v |-> Delivered(Event(body, c[i - 1], c[i]))]
    BY <2>1
  <2>. QED BY <1>13, <2>2 DEF EventsTo
<1>. HIDE DEF whole
<1>15. events = EventsTo(body, c, d) /\ (~Blocks(parser) => d = v)
  <2>1. Blocks(parser) <=> d < v
    BY <1>1, <1>2, NextIs
  <2>. QED BY <1>1, <1>3, <2>1 DEF Fits
<1>16. IsPrefix(events, whole)
  BY <1>3, <1>14, <1>15, EventsInFront
<1>17. ~Blocks(parser) => events = whole
  BY <1>14, <1>15
<1>. QED BY <1>11, <1>16, <1>17 DEF StreamExact, parts, Size, complete, large, Block, fine, whole

LEMMA StreamStep == StreamInv /\ [Next]_vars => StreamInv'
<1>. SUFFICES ASSUME StreamInv, [Next]_vars PROVE StreamInv'
  OBVIOUS
<1>1. CASE UNCHANGED streamVars
  BY <1>1 DEF StreamInv, streamVars
<1>2. CASE Socket
  <2>1. UNCHANGED streamVars
    BY <1>2 DEF Socket, Open, RecvMessage, RecvText, RecvClose, Send
  <2>. QED BY <1>1, <2>1
<1>3. ASSUME NEW chunk \in Chunks, Push(chunk) PROVE StreamInv'
  <2>1. chunk \in Seq(Alphabet)
    BY WireAssumption DEF Chunks
  <2>2. /\ body' = body \o chunk /\ parser' = PushChunk(parser, chunk).parser
        /\ error' = ~PushChunk(parser, chunk).ok /\ events' = events
    BY <1>3 DEF Push
  <2>3. StreamHolds(body \o chunk, PushChunk(parser, chunk).parser, events,
                    ~PushChunk(parser, chunk).ok)
    BY <2>1, PushKeeps DEF StreamInv
  <2>. QED BY <2>2, <2>3 DEF StreamInv
<1>4. CASE NextEvent
  <2>. DEFINE b == NextBlock(parser)
              block == SubSeq(parser.buffer, parser.offset + 1, parser.offset + b.end - b.length)
  <2>1. /\ Blocks(parser) /\ parser' = [parser EXCEPT !.offset = @ + b.end]
        /\ events' = events \o Delivered(block) /\ body' = body /\ error' = error
    BY <1>4 DEF NextEvent
  <2>2. StreamHolds(body, [parser EXCEPT !.offset = @ + b.end], events \o Delivered(block), error)
    BY <2>1, NextKeeps DEF StreamInv
  <2>. QED BY <2>1, <2>2 DEF StreamInv
<1>5. CASE UNCHANGED vars
  <2>1. UNCHANGED streamVars
    BY <1>5 DEF vars
  <2>. QED BY <1>1, <2>1
<1>. QED BY <1>2, <1>3, <1>4, <1>5 DEF Next

\* The events of a stream are those of the whole body so far, in order and none behind one
\* that is too large, and an error is reported exactly when one is, however the network
\* cuts the body, for every limit and every offset at which the buffer is compacted
\* (SseParser).
THEOREM StreamIsExact == Spec => []EventsExact
<1>1. Init => StreamInv
  BY StreamInit DEF Init, StreamInv
<1>2. StreamInv => EventsExact
  <2>1. StreamInv => StreamExact
    BY StreamInvExact
  <2>2. StreamExact => EventsExact
    BY DEF StreamExact, EventsExact
  <2>. QED BY <2>1, <2>2
<1>. QED BY <1>1, <1>2, StreamStep, PTL DEF Spec
=============================================================================
