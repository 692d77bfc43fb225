-------------------------- MODULE LogicalRecordsProofs --------------------------
(***************************************************************************)
(* What LogicalRecordAssembler returns and retains, for every stream and   *)
(* every limit.  RecordInv is inductive and says where each logical record *)
(* of a writer stands, returned, refused by a limit, or in progress in the *)
(* writer's pending state; PartsInv is, too, and says what the totals and  *)
(* the chunks of the pending records are.                                  *)
(***************************************************************************)
EXTENDS LogicalRecords, TLAPS, FiniteSetTheorems, WellFoundedInduction

-----------------------------------------------------------------------------
(* Sums over a finite set, by the least counterexample.                    *)

LEMMA LeastNumber ==
  ASSUME NEW T, T \subseteq Nat, T # {}
  PROVE  \E m \in T : \A k \in T : m <= k
<1>. DEFINE LessThan == {p \in Nat \X Nat : p[1] < p[2]}
<1>1. IsWellFoundedOn(LessThan, Nat)
  BY NatLessThanWellFounded DEF OpToRel
<1>2. PICK m \in T : \A k \in T : ~ (<<k, m>> \in LessThan)
  <2>. HIDE DEF LessThan
  <2>. QED BY ONLY <1>1, WFMin, T \subseteq Nat, T # {}
<1>3. ASSUME NEW k \in T PROVE m <= k
  <2>1. ~ (<<k, m>> \in LessThan)
    BY <1>2
  <2>. QED BY <2>1
<1>. QED BY <1>3

Chosen(T) == CHOOSE x \in T : TRUE

\* `f` holds the sums of `g` over the subsets of `S`.
Sums(g, S, f) ==
  f = [T \in SUBSET S |-> IF T = {} THEN 0 ELSE g[Chosen(T)] + f[T \ {Chosen(T)}]]

SumOf(g, S) == (CHOOSE f : Sums(g, S, f))[S]

LEMMA WithoutChosen ==
  ASSUME NEW T, IsFiniteSet(T), T # {}
  PROVE  /\ Chosen(T) \in T /\ T \ {Chosen(T)} \subseteq T
         /\ IsFiniteSet(T \ {Chosen(T)}) /\ Cardinality(T) \in Nat \ {0}
         /\ Cardinality(T \ {Chosen(T)}) = Cardinality(T) - 1
<1>1. Chosen(T) \in T
  BY DEF Chosen
<1>2. Cardinality(T) \in Nat /\ Cardinality(T) # 0
  BY FS_CardinalityType, FS_EmptySet
<1>. QED BY <1>1, <1>2, FS_RemoveElement

LEMMA SumsExist ==
  ASSUME NEW g, NEW S, IsFiniteSet(S)
  PROVE  \E f : Sums(g, S, f)
<1>. DEFINE Small(n) == {T \in SUBSET S : Cardinality(T) <= n}
            Add(f, T) == IF T = {} THEN 0 ELSE g[Chosen(T)] + f[T \ {Chosen(T)}]
            UpTo(n, f) == f = [T \in Small(n) |-> Add(f, T)]
            Bad == {n \in Nat : ~ \E f : UpTo(n, f)}
<1>1. \A T \in SUBSET S : IsFiniteSet(T) /\ Cardinality(T) \in Nat /\ (Cardinality(T) = 0 <=> T = {})
  BY FS_Subset, FS_CardinalityType, FS_EmptySet
<1>2. Bad = {}
  <2>. SUFFICES ASSUME Bad # {} PROVE FALSE
    OBVIOUS
  <2>1. PICK m \in Bad : \A k \in Bad : m <= k
    <3>1. Bad \subseteq Nat
      OBVIOUS
    <3>. HIDE DEF Bad
    <3>. QED BY <3>1, LeastNumber
  <2>2. m # 0
    <3>. DEFINE f == [T \in Small(0) |-> 0]
    <3>1. \A T \in Small(0) : T = {}
      BY <1>1
    <3>2. UpTo(0, f)
      BY <3>1
    <3>. QED BY <3>2
  <2>3. m \in Nat /\ m - 1 \in Nat /\ m - 1 \notin Bad
    <3>. HIDE DEF UpTo
    <3>. QED BY <2>1, <2>2
  <2>4. PICK h : UpTo(m - 1, h)
    BY <2>3
  <2>. DEFINE f == [T \in Small(m) |-> IF Cardinality(T) = m THEN Add(h, T) ELSE h[T]]
  <2>5. ASSUME NEW T \in Small(m) PROVE f[T] = Add(f, T)
    <3>1. f[T] = Add(h, T)
      <4>1. CASE Cardinality(T) = m
        BY <4>1
      <4>2. CASE Cardinality(T) # m
        <5>1. T \in Small(m - 1)
          BY <1>1, <2>3, <4>2
        <5>2. h[T] = Add(h, T)
          <6>. HIDE DEF Add
          <6>. QED BY <2>4, <5>1
        <5>. QED BY <4>2, <5>2
      <4>. QED BY <4>1, <4>2
    <3>2. CASE T = {}
      BY <3>1, <3>2
    <3>3. CASE T # {}
      <4>. DEFINE R == T \ {Chosen(T)}
      <4>1. /\ R \in SUBSET S /\ Cardinality(R) = Cardinality(T) - 1
            /\ Cardinality(T) \in Nat /\ Cardinality(T) <= m
        BY <1>1, <3>3, WithoutChosen
      <4>2. R \in Small(m) /\ Cardinality(R) # m
        BY <2>3, <4>1
      <4>3. f[R] = h[R]
        <5>. HIDE DEF R, Add
        <5>. QED BY <4>2
      <4>. QED BY <3>1, <3>3, <4>3
    <3>. QED BY <3>2, <3>3
  <2>6. UpTo(m, f)
    <3>1. f = [T \in Small(m) |-> f[T]]
      OBVIOUS
    <3>. HIDE DEF f, Add, Small
    <3>. QED BY <2>5, <3>1
  <2>. QED BY <2>1, <2>6
<1>3. Cardinality(S) \in Nat /\ Small(Cardinality(S)) = SUBSET S
  BY FS_CardinalityType, FS_Subset
<1>4. PICK f : UpTo(Cardinality(S), f)
  BY <1>2, <1>3
<1>5. f = [T \in SUBSET S |-> Add(f, T)]
  <2>. HIDE DEF Add, Small
  <2>. QED BY <1>3, <1>4
<1>. QED BY <1>5 DEF Sums

LEMMA SumsAgree ==
  ASSUME NEW S, IsFiniteSet(S), NEW R, S \subseteq R, NEW g, NEW h,
         \A x \in S : g[x] = h[x],
         NEW f, Sums(g, S, f), NEW k, Sums(h, R, k)
  PROVE  \A T \in SUBSET S : f[T] = k[T]
<1>. DEFINE Bad == {n \in Nat : \E T \in SUBSET S : Cardinality(T) = n /\ f[T] # k[T]}
<1>1. \A T \in SUBSET S : IsFiniteSet(T) /\ Cardinality(T) \in Nat
  BY FS_Subset, FS_CardinalityType
<1>. SUFFICES ASSUME Bad # {} PROVE FALSE
  BY <1>1
<1>2. PICK n \in Bad : \A i \in Bad : n <= i
  <2>1. Bad \subseteq Nat
    OBVIOUS
  <2>. HIDE DEF Bad
  <2>. QED BY <2>1, LeastNumber
<1>3. PICK T \in SUBSET S : Cardinality(T) = n /\ f[T] # k[T]
  BY <1>2
<1>. DEFINE c == Chosen(T)
            D == T \ {c}
<1>4. f[T] = IF T = {} THEN 0 ELSE g[c] + f[D]
  BY DEF Sums
<1>5. k[T] = IF T = {} THEN 0 ELSE h[c] + k[D]
  BY DEF Sums
<1>6. T # {}
  BY <1>3, <1>4, <1>5
<1>7. c \in T /\ D \in SUBSET S /\ n \in Nat \ {0} /\ Cardinality(D) = n - 1
  BY <1>1, <1>3, <1>6, WithoutChosen
<1>8. f[D] = k[D]
  <2>1. n - 1 \in Nat /\ n - 1 \notin Bad
    BY <1>2, <1>7
  <2>. HIDE DEF c, D
  <2>. QED BY <1>7, <2>1
<1>9. g[c] = h[c]
  BY <1>7
<1>. QED BY <1>3, <1>4, <1>5, <1>6, <1>8, <1>9

LEMMA SumIs ==
  ASSUME NEW g, NEW S, IsFiniteSet(S), NEW f, Sums(g, S, f)
  PROVE  SumOf(g, S) = f[S]
<1>1. PICK k : k = CHOOSE h : Sums(g, S, h)
  OBVIOUS
<1>2. Sums(g, S, k)
  BY <1>1, Zenon
<1>3. f[S] = k[S]
  BY <1>2, SumsAgree
<1>. QED BY <1>1, <1>3 DEF SumOf

LEMMA SumSame ==
  ASSUME NEW S, IsFiniteSet(S), NEW g, NEW h, \A x \in S : g[x] = h[x]
  PROVE  SumOf(g, S) = SumOf(h, S)
<1>1. PICK f : Sums(g, S, f)
  BY SumsExist
<1>2. PICK k : Sums(h, S, k)
  BY SumsExist
<1>3. f[S] = k[S]
  BY <1>1, <1>2, SumsAgree
<1>. QED BY <1>1, <1>2, <1>3, SumIs

LEMMA SumEmpty == ASSUME NEW g PROVE SumOf(g, {}) = 0
<1>1. IsFiniteSet({})
  BY FS_EmptySet
<1>2. PICK f : Sums(g, {}, f)
  BY <1>1, SumsExist
<1>3. f[{}] = 0
  BY <1>2 DEF Sums
<1>. QED BY <1>1, <1>2, <1>3, SumIs

LEMMA SumChosen ==
  ASSUME NEW g, NEW S, IsFiniteSet(S), S # {}
  PROVE  SumOf(g, S) = g[Chosen(S)] + SumOf(g, S \ {Chosen(S)})
<1>. DEFINE D == S \ {Chosen(S)}
<1>1. D \subseteq S /\ IsFiniteSet(D)
  BY WithoutChosen
<1>2. PICK f : Sums(g, S, f)
  BY SumsExist
<1>3. PICK k : Sums(g, D, k)
  BY <1>1, SumsExist
<1>4. k[D] = f[D]
  <2>. HIDE DEF D
  <2>. QED BY <1>1, <1>2, <1>3, SumsAgree
<1>5. f[S] = g[Chosen(S)] + f[D]
  BY <1>2 DEF Sums
<1>6. SumOf(g, S) = f[S] /\ SumOf(g, D) = k[D]
  BY <1>1, <1>2, <1>3, SumIs
<1>. QED BY <1>4, <1>5, <1>6

LEMMA SumType ==
  ASSUME NEW S, IsFiniteSet(S), NEW g, \A x \in S : g[x] \in Nat
  PROVE  SumOf(g, S) \in Nat
<1>. DEFINE Bad == {n \in Nat : \E T \in SUBSET S : Cardinality(T) = n /\ SumOf(g, T) \notin Nat}
<1>1. \A T \in SUBSET S : IsFiniteSet(T) /\ Cardinality(T) \in Nat
  BY FS_Subset, FS_CardinalityType
<1>. SUFFICES ASSUME Bad # {} PROVE FALSE
  BY <1>1
<1>2. PICK n \in Bad : \A i \in Bad : n <= i
  <2>1. Bad \subseteq Nat
    OBVIOUS
  <2>. HIDE DEF Bad
  <2>. QED BY <2>1, LeastNumber
<1>3. PICK T \in SUBSET S : Cardinality(T) = n /\ SumOf(g, T) \notin Nat
  BY <1>2
<1>4. T # {}
  BY <1>3, SumEmpty
<1>. DEFINE c == Chosen(T)
            D == T \ {c}
<1>5. c \in T /\ D \in SUBSET S /\ n \in Nat \ {0} /\ Cardinality(D) = n - 1
  BY <1>1, <1>3, <1>4, WithoutChosen
<1>6. SumOf(g, D) \in Nat
  <2>1. n - 1 \in Nat /\ n - 1 \notin Bad
    BY <1>2, <1>5
  <2>. HIDE DEF c, D
  <2>. QED BY <1>5, <2>1
<1>7. SumOf(g, T) = g[c] + SumOf(g, D) /\ g[c] \in Nat
  BY <1>1, <1>4, <1>5, SumChosen
<1>. QED BY <1>3, <1>6, <1>7

\* Any element may be taken out first.
LEMMA SumRemove ==
  ASSUME NEW S, IsFiniteSet(S), NEW g, \A x \in S : g[x] \in Nat, NEW y \in S
  PROVE  SumOf(g, S) = g[y] + SumOf(g, S \ {y})
<1>. DEFINE Bad == {n \in Nat : \E T \in SUBSET S : \E x \in T :
                      Cardinality(T) = n /\ SumOf(g, T) # g[x] + SumOf(g, T \ {x})}
<1>1. \A T \in SUBSET S : IsFiniteSet(T) /\ Cardinality(T) \in Nat
  BY FS_Subset, FS_CardinalityType
<1>. SUFFICES ASSUME Bad # {} PROVE FALSE
  BY <1>1
<1>2. PICK n \in Bad : \A i \in Bad : n <= i
  <2>1. Bad \subseteq Nat
    OBVIOUS
  <2>. HIDE DEF Bad
  <2>. QED BY <2>1, LeastNumber
<1>. PICK T \in SUBSET S :
       \E x \in T : Cardinality(T) = n /\ SumOf(g, T) # g[x] + SumOf(g, T \ {x})
  BY <1>2
<1>3. PICK x \in T : Cardinality(T) = n /\ SumOf(g, T) # g[x] + SumOf(g, T \ {x})
  OBVIOUS
<1>. DEFINE c == Chosen(T)
            D == T \ {c}
            E == T \ {x}
<1>4. c \in T /\ D \in SUBSET S /\ n \in Nat \ {0} /\ Cardinality(D) = n - 1
  BY <1>1, <1>3, WithoutChosen
<1>5. E \in SUBSET S /\ Cardinality(E) = n - 1
  BY <1>1, <1>3, FS_RemoveElement
<1>6. n - 1 \in Nat /\ n - 1 \notin Bad
  BY <1>2, <1>4
<1>7. SumOf(g, T) = g[c] + SumOf(g, D)
  BY <1>1, <1>3, SumChosen
<1>8. x # c
  BY <1>3, <1>7
<1>9. SumOf(g, D) = g[x] + SumOf(g, D \ {x})
  <2>1. x \in D
    BY <1>8
  <2>. HIDE DEF D
  <2>. QED BY <1>4, <1>6, <2>1
<1>10. SumOf(g, E) = g[c] + SumOf(g, E \ {c})
  <2>1. c \in E
    BY <1>4, <1>8
  <2>. HIDE DEF E, c
  <2>. QED BY <1>5, <1>6, <2>1
<1>11. D \ {x} = E \ {c} /\ D \ {x} \in SUBSET S
  BY <1>4
<1>12. SumOf(g, D \ {x}) \in Nat /\ g[x] \in Nat /\ g[c] \in Nat
  <2>1. IsFiniteSet(D \ {x})
    BY <1>1, <1>11
  <2>2. \A z \in D \ {x} : g[z] \in Nat
    BY <1>11
  <2>. HIDE DEF D
  <2>3. SumOf(g, D \ {x}) \in Nat
    BY <2>1, <2>2, SumType
  <2>. QED BY <1>4, <2>3
<1>13. PICK rest \in Nat : rest = SumOf(g, D \ {x})
  BY <1>12
<1>14. rest = SumOf(g, E \ {c})
  BY <1>11, <1>13
<1>15. SumOf(g, T) # g[x] + SumOf(g, E)
  BY <1>3
<1>. QED
  <2>. HIDE DEF D, E, c
  <2>. QED BY <1>7, <1>9, <1>10, <1>12, <1>13, <1>14, <1>15

\* One element gets a new value, or is added.
LEMMA SumMoved ==
  ASSUME NEW S, IsFiniteSet(S), NEW g, \A x \in S : g[x] \in Nat,
         NEW y, NEW R, R = S \cup {y},
         NEW h, \A x \in R : h[x] \in Nat, \A x \in R : x = y \/ h[x] = g[x]
  PROVE  SumOf(h, R) = SumOf(g, S) - (IF y \in S THEN g[y] ELSE 0) + h[y]
<1>. DEFINE D == S \ {y}
<1>1. /\ IsFiniteSet(D) /\ IsFiniteSet(R) /\ y \in R /\ R \ {y} = D
      /\ \A x \in D : h[x] = g[x] /\ g[x] \in Nat
  BY FS_Subset, FS_AddElement
<1>2. SumOf(h, R) = h[y] + SumOf(h, D)
  <2>. HIDE DEF D
  <2>. QED BY <1>1, SumRemove
<1>3. SumOf(h, D) = SumOf(g, D) /\ SumOf(g, D) \in Nat
  <2>. HIDE DEF D
  <2>. QED BY <1>1, SumSame, SumType
<1>4. CASE y \in S
  <2>1. SumOf(g, S) = g[y] + SumOf(g, D)
    BY <1>4, SumRemove
  <2>. QED BY <1>2, <1>3, <1>4, <2>1
<1>5. CASE y \notin S
  <2>1. D = S
    BY <1>5
  <2>. HIDE DEF D
  <2>. QED BY <1>2, <1>3, <1>5, <2>1
<1>. QED BY <1>4, <1>5

-----------------------------------------------------------------------------
(* The invariant.                                                          *)

Records == RawRecords \cup {Physical(w, s) : w \in Writers, s \in Nat}

PendingState ==
  [start : Int, next : Nat, len : Nat, parts : Nat, chunks : Seq(Records)]

WriterState == [highest : Int, pending : PendingState]

LogicalRecord == [writer : Identities, start : Int, chunks : Seq(Records)]

StateTypeOK ==
  /\ top \in [Writers -> Nat] /\ from \in [Writers -> Nat]
  /\ \A w \in Writers : from[w] <= top[w] /\ top[w] <= Len(Parts[w])
  /\ writers \in [DOMAIN writers -> WriterState]
  /\ logical \in Seq(LogicalRecord)
  /\ refused \subseteq Identities \X Int

High(w) == State(w).highest
Pend(w) == State(w).pending
Pending(w) == w \in DOMAIN writers /\ Pend(w).next > 0
Full == ~(Cardinality(DOMAIN writers) < MaxWriters)

Returned(w, s) == \E i \in DOMAIN logical : logical[i].writer = w /\ logical[i].start = s

\* What a writer's state has passed: it starts before what is pending.
Passed(w, s) ==
  /\ w \in DOMAIN writers /\ s <= High(w)
  /\ Pending(w) => s < Pend(w).start

OrderOK ==
  /\ \A w \in DOMAIN writers : Pending(w) => Pend(w).start <= High(w)
  /\ \A i \in DOMAIN logical : Passed(logical[i].writer, logical[i].start)
  /\ \A w \in Identities, s \in Int :
       <<w, s>> \in refused => (w \notin DOMAIN writers /\ Full) \/ Passed(w, s)

\* The records of a durable writer from s on are being joined.
InProgress(w, s) ==
  /\ Pending(w) /\ Pend(w).start = s /\ Pend(w).next = top[w] - s
  /\ s < top[w] /\ Parts[w][top[w]].index = top[w] - 1 - s
  /\ \A e \in s..(top[w] - 1) : ~Parts[w][e + 1].final

Settled(w, s) == <<w, s>> \in refused \/ Returned(w, s)

WriterOK(w) ==
  /\ w \in DOMAIN writers => High(w) < top[w]
  /\ top[w] > from[w] => \/ w \in DOMAIN writers /\ High(w) = top[w] - 1
                         \/ w \notin DOMAIN writers /\ Full
  /\ \A s \in Starts(w) : from[w] <= s /\ s < top[w] => Settled(w, s) \/ InProgress(w, s)

RecordInv ==
  /\ StateTypeOK
  /\ OrderOK
  /\ OnceInOrder
  /\ \A w \in Writers : WriterOK(w)

-----------------------------------------------------------------------------
(* The records of the stream and what push_record does with one.           *)

GoodRecord(r) ==
  /\ r \in Records /\ r.writer \in Identities
  /\ r.seq \in Nat /\ r.index \in Nat /\ r.final \in BOOLEAN /\ r.len \in Nat

LEMMA PartFacts ==
  ASSUME NEW w \in Writers, NEW s \in Nat, s < Len(Parts[w])
  PROVE  /\ Parts[w] \in Seq(Part) /\ Len(Parts[w]) \in Nat
         /\ Parts[w][s + 1].index \in Nat /\ Parts[w][s + 1].final \in BOOLEAN
         /\ Parts[w][s + 1].len \in Nat
<1>1. Parts[w] \in Seq(Part)
  BY AssemblerAssumption
<1>2. s + 1 \in DOMAIN Parts[w]
  BY <1>1
<1>3. Parts[w][s + 1] \in Part
  BY <1>1, <1>2
<1>. QED BY <1>1, <1>3 DEF Part

LEMMA DurableRecord ==
  ASSUME NEW w \in Writers, NEW s \in Nat, s < Len(Parts[w])
  PROVE  /\ GoodRecord(Physical(w, s))
         /\ Physical(w, s).writer = w /\ Physical(w, s).seq = s
         /\ Physical(w, s).index = Parts[w][s + 1].index
         /\ Physical(w, s).final = Parts[w][s + 1].final
<1>1. Physical(w, s) \in Records
  BY DEF Records
<1>. QED BY <1>1, PartFacts DEF GoodRecord, Physical, Identities

LEMMA RawRecord ==
  ASSUME NEW r \in RawRecords
  PROVE  GoodRecord(r) /\ r.writer \notin Writers
BY AssemblerAssumption DEF GoodRecord, Records, Identities

LEMMA StateFacts ==
  ASSUME StateTypeOK, NEW w
  PROVE  /\ State(w) \in WriterState /\ High(w) \in Int
         /\ Pend(w) \in PendingState /\ Pend(w).start \in Int /\ Pend(w).next \in Nat
<1>1. NoPending \in PendingState
  BY DEF NoPending, PendingState
<1>2. NewWriter \in WriterState
  BY <1>1 DEF NewWriter, WriterState
<1>3. State(w) \in WriterState
  BY <1>2 DEF State, StateTypeOK
<1>. QED BY <1>3 DEF High, Pend, WriterState, PendingState

\* The new state of a record's writer; the other writers keep theirs.
Moved(r, pending) ==
  /\ DOMAIN writers' = DOMAIN writers \cup {r.writer}
  /\ High(r.writer)' = r.seq /\ Pend(r.writer)' = pending
  /\ \A w : w # r.writer => State(w)' = State(w)

LEMMA Advanced ==
  ASSUME StateTypeOK, NEW r, GoodRecord(r), NEW pending \in PendingState, Advance(r, pending)
  PROVE  /\ Moved(r, pending)
         /\ writers' \in [DOMAIN writers' -> WriterState]
<1>1. writers' = [w \in DOMAIN writers \cup {r.writer} |->
                    IF w = r.writer THEN [highest |-> r.seq, pending |-> pending]
                                    ELSE writers[w]]
  BY DEF Advance
<1>2. DOMAIN writers' = DOMAIN writers \cup {r.writer}
  BY <1>1
<1>3. High(r.writer)' = r.seq /\ Pend(r.writer)' = pending
  BY <1>1, <1>2 DEF High, Pend, State
<1>4. \A w : w # r.writer => State(w)' = State(w)
  BY <1>1, <1>2 DEF State
<1>5. [highest |-> r.seq, pending |-> pending] \in WriterState
  BY DEF GoodRecord, WriterState
<1>6. \A w \in DOMAIN writers' : writers'[w] \in WriterState
  BY <1>1, <1>2, <1>5 DEF StateTypeOK
<1>. QED BY <1>1, <1>2, <1>3, <1>4, <1>6 DEF Moved

LEMMA ChunkType == ASSUME NEW r, GoodRecord(r) PROVE Chunk(r) \in Seq(Records)
BY DEF GoodRecord, Chunk

LEMMA JoinedFacts ==
  ASSUME StateTypeOK, NEW r, GoodRecord(r), r.index = 0 \/ Continues(r)
  PROVE  /\ Joined(r) \in PendingState /\ Joined(r).next = r.index + 1
         /\ Joined(r).start = Start(r)
<1>1. CASE r.index = 0
  <2>1. Joined(r) = [start |-> r.seq, next |-> 1, len |-> r.len, parts |-> 1, chunks |-> Chunk(r)]
    BY <1>1 DEF Joined
  <2>2. r.seq \in Int /\ r.len \in Nat /\ Start(r) = r.seq
    BY <1>1 DEF GoodRecord, Start
  <2>3. Joined(r) \in PendingState
    BY <2>1, <2>2, ChunkType DEF PendingState
  <2>. QED BY <1>1, <2>1, <2>2, <2>3
<1>2. CASE r.index # 0
  <2>1. Continues(r) /\ State(r.writer).pending \in PendingState
    BY <1>2, StateFacts DEF Pend
  <2>2. PICK p \in PendingState : p = State(r.writer).pending
    BY <2>1
  <2>3. PICK c \in Seq(Records) : c = Chunk(r)
    BY ChunkType
  <2>4. Joined(r) = [p EXCEPT !.next = r.index + 1, !.len = @ + r.len, !.parts = @ + 1,
                              !.chunks = @ \o c]
    BY <1>2, <2>2, <2>3 DEF Joined
  <2>5. p.chunks \o c \in Seq(Records)
    BY <2>2, <2>3 DEF PendingState
  <2>6. Joined(r) = [start |-> p.start, next |-> r.index + 1, len |-> p.len + r.len,
                     parts |-> p.parts + 1, chunks |-> p.chunks \o c]
    BY <2>2, <2>4 DEF PendingState
  <2>7. /\ p.start \in Int /\ p.len + r.len \in Nat /\ p.parts + 1 \in Nat
        /\ r.index + 1 \in Nat
    <3>1. p.start \in Int /\ p.len \in Nat /\ p.parts \in Nat
      BY DEF PendingState
    <3>2. r.len \in Nat /\ r.index \in Nat
      BY DEF GoodRecord
    <3>. QED BY <3>1, <3>2
  <2>8. Joined(r) \in PendingState
    BY <2>5, <2>6, <2>7 DEF PendingState
  <2>. QED BY <2>1, <2>2, <2>6, <2>8 DEF Continues
<1>. QED BY <1>1, <1>2

\* The ways of push_record, by what they change.
Refused(r) ==
  /\ ~Admitted(r) /\ UNCHANGED <<writers, logical>>
  /\ refused' = refused \cup {<<r.writer, Start(r)>>}

Suppressed(r) ==
  r.writer \in DOMAIN writers /\ r.seq <= High(r.writer) /\ UNCHANGED <<writers, logical, refused>>

\* Neither the first part of a record nor one that continues the pending record.
Dropped(r) ==
  /\ Fresh(r) /\ Moved(r, NoPending) /\ r.index > 0 /\ ~Continues(r)
  /\ UNCHANGED <<logical, refused>>

Kept(r) ==
  /\ Fresh(r) /\ ~r.final /\ (r.index = 0 \/ Continues(r)) /\ Moved(r, Joined(r))
  /\ UNCHANGED <<logical, refused>>

TooLarge(r) ==
  /\ Fresh(r) /\ (r.index = 0 \/ Continues(r)) /\ Moved(r, NoPending)
  /\ refused' = refused \cup {<<r.writer, Start(r)>>} /\ logical' = logical

Finished(r) ==
  /\ Fresh(r) /\ r.final /\ (r.index = 0 \/ Continues(r)) /\ Moved(r, NoPending)
  /\ refused' = refused
  /\ \E chunks \in Seq(Records) : Return(r, chunks)

LEMMA PushCases ==
  ASSUME StateTypeOK, NEW r, GoodRecord(r), PushRecord(r)
  PROVE  /\ \/ Refused(r) \/ Suppressed(r) \/ Dropped(r)
            \/ Kept(r) \/ TooLarge(r) \/ Finished(r)
         /\ writers' \in [DOMAIN writers' -> WriterState]
<1>1. NoPending \in PendingState
  BY DEF NoPending, PendingState
<1>2. writers \in [DOMAIN writers -> WriterState]
  BY DEF StateTypeOK
<1>3. CASE RefuseWriter(r)
  BY <1>2, <1>3 DEF RefuseWriter, Refused, Refuse
<1>4. CASE Suppress(r)
  <2>1. r.writer \in DOMAIN writers
    BY <1>4 DEF Suppress, Duplicate, State, NewWriter, GoodRecord
  <2>. QED BY <1>2, <1>4, <2>1 DEF Suppress, Suppressed, Duplicate, High
<1>5. CASE Unsplit(r)
  BY <1>1, <1>5, Advanced, ChunkType DEF Unsplit, Finished
<1>6. CASE Orphan(r)
  BY <1>1, <1>6, Advanced DEF Orphan, Dropped
<1>7. CASE Retain(r)
  <2>1. Fresh(r) /\ ~r.final /\ (r.index = 0 \/ Continues(r)) /\ logical' = logical
    BY <1>7 DEF Retain
  <2>2. Joined(r) \in PendingState
    BY <2>1, JoinedFacts
  <2>3. \/ Advance(r, Joined(r)) /\ UNCHANGED refused
        \/ Advance(r, NoPending) /\ Refuse(r)
    BY <1>7 DEF Retain
  <2>. QED BY <1>1, <2>1, <2>2, <2>3, Advanced DEF Kept, TooLarge, Refuse
<1>8. CASE Complete(r)
  <2>1. Fresh(r) /\ r.final /\ Continues(r) /\ Advance(r, NoPending)
    BY <1>8 DEF Complete
  <2>2. \/ Return(r, State(r.writer).pending.chunks \o Chunk(r)) /\ UNCHANGED refused
        \/ Refuse(r) /\ UNCHANGED logical
    BY <1>8 DEF Complete
  <2>3. State(r.writer).pending.chunks \o Chunk(r) \in Seq(Records)
    BY StateFacts, ChunkType DEF Pend, PendingState
  <2>. QED BY <1>1, <2>1, <2>2, <2>3, Advanced DEF Finished, TooLarge, Refuse
<1>. QED BY <1>3, <1>4, <1>5, <1>6, <1>7, <1>8 DEF PushRecord

\* A sequence with one more element.
LEMMA Appended ==
  ASSUME NEW S, NEW t \in Seq(S), NEW e \in S
  PROVE  /\ Append(t, e) \in Seq(S) /\ Len(t) \in Nat /\ Len(Append(t, e)) = Len(t) + 1
         /\ DOMAIN t = 1..Len(t) /\ DOMAIN Append(t, e) = 1..(Len(t) + 1)
         /\ \A i \in 1..Len(t) : Append(t, e)[i] = t[i]
         /\ Append(t, e)[Len(t) + 1] = e
OBVIOUS

LEMMA PushTypes ==
  ASSUME StateTypeOK, NEW r, GoodRecord(r), PushRecord(r)
  PROVE  /\ writers' \in [DOMAIN writers' -> WriterState]
         /\ logical' \in Seq(LogicalRecord)
         /\ refused' \subseteq Identities \X Int
<1>1. r.writer \in Identities /\ Start(r) \in Int
  BY DEF GoodRecord, Start
<1>2. logical \in Seq(LogicalRecord) /\ refused \subseteq Identities \X Int
  BY DEF StateTypeOK
<1>3. CASE Finished(r)
  <2>1. PICK chunks \in Seq(Records) : Return(r, chunks)
    BY <1>3 DEF Finished
  <2>2. PICK e \in LogicalRecord : logical' = Append(logical, e)
    BY <1>1, <2>1 DEF Return, LogicalRecord
  <2>. QED BY <1>2, <1>3, <2>2, Appended, PushCases DEF Finished
<1>4. CASE Refused(r) \/ TooLarge(r)
  BY <1>1, <1>2, <1>4, PushCases DEF Refused, TooLarge
<1>5. CASE Suppressed(r) \/ Dropped(r) \/ Kept(r)
  BY <1>2, <1>5, PushCases DEF Suppressed, Dropped, Kept
<1>. QED BY <1>3, <1>4, <1>5, PushCases

\* The record at s of durable writer w is read: the next one it stores, or a copy.
DurableRead(w, s) ==
  /\ s < Len(Parts[w]) /\ PushRecord(Physical(w, s))
  /\ top' = [top EXCEPT ![w] = IF s = @ THEN s + 1 ELSE @] /\ from' = from

LEMMA StateTypeStep == StateTypeOK /\ [Next]_vars => StateTypeOK'
<1>. SUFFICES ASSUME StateTypeOK, [Next]_vars PROVE StateTypeOK'
  OBVIOUS
<1>1. CASE UNCHANGED vars
  BY <1>1 DEF StateTypeOK, vars, streamVars
<1>2. CASE ReadDurable
  <2>. PICK w \in Writers : \E s \in 0..top[w] : DurableRead(w, s)
    BY <1>2 DEF ReadDurable, DurableRead
  <2>. PICK s \in 0..top[w] : DurableRead(w, s)
    OBVIOUS
  <2>1. /\ s < Len(Parts[w]) /\ PushRecord(Physical(w, s))
        /\ top' = [top EXCEPT ![w] = IF s = @ THEN s + 1 ELSE @] /\ from' = from
    BY DEF DurableRead
  <2>2. top[w] \in Nat /\ s \in Nat /\ Len(Parts[w]) \in Nat
    BY <2>1, PartFacts DEF StateTypeOK
  <2>3. GoodRecord(Physical(w, s))
    BY <2>1, <2>2, DurableRecord
  <2>4. top' \in [Writers -> Nat]
    BY <2>1, <2>2 DEF StateTypeOK
  <2>5. ASSUME NEW v \in Writers PROVE from'[v] <= top'[v] /\ top'[v] <= Len(Parts[v])
    <3>1. from[v] \in Nat /\ top[v] \in Nat /\ from[v] <= top[v] /\ top[v] <= Len(Parts[v])
      BY DEF StateTypeOK
    <3>2. CASE v = w
      BY <2>1, <2>2, <3>1, <3>2 DEF StateTypeOK
    <3>3. CASE v # w
      BY <2>1, <3>1, <3>3 DEF StateTypeOK
    <3>. QED BY <3>2, <3>3
  <2>6. from' \in [Writers -> Nat]
    BY <2>1 DEF StateTypeOK
  <2>. QED BY <2>1, <2>3, <2>4, <2>5, <2>6, PushTypes DEF StateTypeOK
<1>3. CASE ReadRaw
  <2>1. PICK r \in RawRecords : PushRecord(r) /\ UNCHANGED <<top, from>>
    BY <1>3 DEF ReadRaw
  <2>. QED BY <2>1, RawRecord, PushTypes DEF StateTypeOK
<1>. QED BY <1>1, <1>2, <1>3 DEF Next, ReadEnds

-----------------------------------------------------------------------------
(* A writer's records come out in their order.                             *)

LEMMA FreshFacts ==
  ASSUME StateTypeOK, OrderOK, NEW r, GoodRecord(r), Fresh(r)
  PROVE  /\ r.seq > High(r.writer) /\ Start(r) \in Int /\ Start(r) <= r.seq
         /\ r.writer \notin DOMAIN writers => ~Full
         /\ r.index = 0 \/ Continues(r) => \A s \in Int : Passed(r.writer, s) => s < Start(r)
         /\ Continues(r) => Pending(r.writer)
<1>1. High(r.writer) \in Int /\ Pend(r.writer).next \in Nat
  BY StateFacts
<1>2. r.seq > High(r.writer) /\ Start(r) \in Int /\ Start(r) <= r.seq
  BY <1>1 DEF Fresh, Duplicate, High, GoodRecord, Start
<1>3. r.writer \notin DOMAIN writers => ~Full
  BY DEF Fresh, Admitted, Full
<1>4. Continues(r) => Pending(r.writer)
  <2>1. r.writer \notin DOMAIN writers => Pend(r.writer).next = 0
    BY DEF Pend, State, NewWriter, NoPending
  <2>. QED BY <1>1, <2>1 DEF Continues, Pending, Pend
<1>5. ASSUME r.index = 0 \/ Continues(r), NEW s \in Int, Passed(r.writer, s)
      PROVE  s < Start(r)
  <2>1. CASE r.index = 0
    <3>1. Start(r) = r.seq
      BY <2>1 DEF Start, GoodRecord
    <3>. QED BY <1>1, <1>2, <1>5, <3>1 DEF Passed
  <2>2. CASE Continues(r)
    BY <1>4, <1>5, <2>2 DEF Continues, Passed, Pend
  <2>. QED BY <1>5, <2>1, <2>2
<1>. QED BY <1>2, <1>3, <1>4, <1>5

LEMMA PassedStep ==
  ASSUME StateTypeOK, OrderOK, NEW r, GoodRecord(r), PushRecord(r),
         NEW w, NEW s \in Int, Passed(w, s)
  PROVE  Passed(w, s)'
<1>1. CASE UNCHANGED writers
  BY <1>1 DEF Passed, Pending, High, Pend, State
<1>2. ASSUME Fresh(r), NEW p \in PendingState, Moved(r, p),
             p.next > 0 => p.start = Start(r) /\ (r.index = 0 \/ Continues(r))
      PROVE  Passed(w, s)'
  <2>1. w \in DOMAIN writers'
    BY <1>2 DEF Moved, Passed
  <2>2. CASE w # r.writer
    <3>1. High(w)' = High(w) /\ Pend(w)' = Pend(w)
      BY <1>2, <2>2 DEF Moved, High, Pend
    <3>. QED BY <2>1, <3>1 DEF Passed, Pending
  <2>3. CASE w = r.writer
    <3>1. High(w)' = r.seq /\ Pend(w)' = p /\ r.seq \in Nat /\ High(w) \in Int
      BY <1>2, <2>3, StateFacts DEF Moved, GoodRecord
    <3>2. s <= r.seq
      BY <1>2, <2>3, <3>1, FreshFacts DEF Passed
    <3>3. p.next > 0 => s < p.start
      BY <1>2, <2>3, FreshFacts
    <3>. QED BY <2>1, <3>1, <3>2, <3>3 DEF Passed, Pending
  <2>. QED BY <2>2, <2>3
<1>3. NoPending \in PendingState /\ ~(NoPending.next > 0)
  BY DEF NoPending, PendingState
<1>4. CASE Refused(r) \/ Suppressed(r)
  BY <1>1, <1>4 DEF Refused, Suppressed
<1>5. CASE Dropped(r) \/ TooLarge(r) \/ Finished(r)
  BY <1>2, <1>3, <1>5 DEF Dropped, TooLarge, Finished
<1>6. CASE Kept(r)
  <2>1. /\ Fresh(r) /\ (r.index = 0 \/ Continues(r)) /\ Moved(r, Joined(r))
    BY <1>6 DEF Kept
  <2>2. Joined(r) \in PendingState /\ Joined(r).start = Start(r)
    BY <2>1, JoinedFacts
  <2>. QED BY <1>2, <2>1, <2>2
<1>. QED BY <1>4, <1>5, <1>6, PushCases

\* With all writer states in use, no writer is added.
LEMMA FullStep ==
  ASSUME StateTypeOK, NEW r, GoodRecord(r), PushRecord(r), Full
  PROVE  DOMAIN writers' = DOMAIN writers /\ Full'
<1>1. DOMAIN writers' = DOMAIN writers
  <2>1. CASE Refused(r) \/ Suppressed(r)
    BY <2>1 DEF Refused, Suppressed
  <2>2. CASE Dropped(r) \/ Kept(r) \/ TooLarge(r) \/ Finished(r)
    <3>1. Fresh(r) /\ DOMAIN writers' = DOMAIN writers \cup {r.writer}
      BY <2>2 DEF Dropped, Kept, TooLarge, Finished, Moved
    <3>2. r.writer \in DOMAIN writers
      BY <3>1 DEF Fresh, Admitted, Full
    <3>. QED BY <3>1, <3>2
  <2>. QED BY <2>1, <2>2, PushCases
<1>. QED BY <1>1 DEF Full

LEMMA LogicalTypes ==
  ASSUME StateTypeOK, NEW i \in DOMAIN logical
  PROVE  logical[i].writer \in Identities /\ logical[i].start \in Int
<1>1. logical \in Seq(LogicalRecord)
  BY DEF StateTypeOK
<1>2. logical[i] \in LogicalRecord
  BY <1>1
<1>. QED BY <1>2 DEF LogicalRecord

\* What a record leaves that completes, or is refused, a record.
LEMMA NowPassed ==
  ASSUME StateTypeOK, OrderOK, NEW r, GoodRecord(r), Fresh(r), Moved(r, NoPending)
  PROVE  Passed(r.writer, Start(r))'
<1>1. Start(r) <= r.seq
  BY FreshFacts
<1>2. High(r.writer)' = r.seq /\ ~Pending(r.writer)' /\ r.writer \in DOMAIN writers'
  BY DEF Moved, Pending, NoPending
<1>. QED BY <1>1, <1>2 DEF Passed

\* Neither returned nor refused before.
LEMMA NotYet ==
  ASSUME StateTypeOK, OrderOK, NEW r, GoodRecord(r), Fresh(r), r.index = 0 \/ Continues(r)
  PROVE  /\ <<r.writer, Start(r)>> \notin refused
         /\ \A i \in DOMAIN logical :
              logical[i].writer = r.writer => logical[i].start < Start(r)
<1>1. Start(r) \in Int /\ r.writer \in Identities
  BY FreshFacts DEF GoodRecord
<1>2. \A s \in Int : Passed(r.writer, s) => s < Start(r)
  BY FreshFacts
<1>3. <<r.writer, Start(r)>> \notin refused
  <2>1. ~Passed(r.writer, Start(r))
    BY <1>1, <1>2
  <2>2. ~(r.writer \notin DOMAIN writers /\ Full)
    BY FreshFacts
  <2>3. <<r.writer, Start(r)>> \in refused =>
          (r.writer \notin DOMAIN writers /\ Full) \/ Passed(r.writer, Start(r))
    BY <1>1, Zenon DEF OrderOK
  <2>. QED BY <2>1, <2>2, <2>3
<1>. QED BY <1>2, <1>3, LogicalTypes DEF OrderOK

LEMMA OrderStep ==
  ASSUME StateTypeOK, OrderOK, NEW r, GoodRecord(r), PushRecord(r)
  PROVE  OrderOK'
<1>1. r.writer \in Identities /\ Start(r) \in Int
  BY DEF GoodRecord, Start
<1>2. ASSUME NEW w \in DOMAIN writers', Pending(w)' PROVE Pend(w).start' <= High(w)'
  <2>1. CASE State(w)' = State(w)
    <3>1. High(w)' = High(w) /\ Pend(w)' = Pend(w)
      BY <2>1 DEF High, Pend
    <3>2. w \in DOMAIN writers
      <4>1. SUFFICES ASSUME w \notin DOMAIN writers PROVE FALSE
        OBVIOUS
      <4>2. Pend(w).next = 0
        BY <4>1 DEF Pend, State, NewWriter, NoPending
      <4>. QED BY <1>2, <3>1, <4>2 DEF Pending
    <3>. QED BY <1>2, <3>1, <3>2 DEF OrderOK, Pending
  <2>2. CASE w = r.writer /\ Fresh(r) /\ Moved(r, NoPending)
    BY <1>2, <2>2 DEF Moved, Pending, NoPending
  <2>3. CASE w = r.writer /\ Kept(r)
    <3>1. High(w)' = r.seq /\ Pend(w)' = Joined(r) /\ Joined(r).start = Start(r)
      BY <2>3, JoinedFacts DEF Kept, Moved
    <3>. QED BY <2>3, <3>1, FreshFacts DEF Kept
  <2>4. CASE UNCHANGED writers
    BY <2>1, <2>4 DEF State
  <2>. QED BY <2>1, <2>2, <2>3, <2>4, PushCases
         DEF Refused, Suppressed, Dropped, Kept, TooLarge, Finished, Moved
<1>3. \A w : \A s \in Int : Passed(w, s) => Passed(w, s)'
  BY PassedStep
<1>4. \A i \in DOMAIN logical' : Passed(logical[i].writer, logical[i].start)'
  <2>2. ASSUME NEW i \in DOMAIN logical, logical'[i] = logical[i]
        PROVE  Passed(logical[i].writer, logical[i].start)'
    <3>1. PICK w, s : w = logical[i].writer /\ s = logical[i].start
      OBVIOUS
    <3>2. s \in Int /\ Passed(w, s)
      BY <3>1, LogicalTypes DEF OrderOK
    <3>3. Passed(w, s)'
      BY <1>3, <3>2
    <3>4. w = logical'[i].writer /\ s = logical'[i].start
      BY <2>2, <3>1
    <3>. QED BY <3>3, <3>4 DEF Passed, Pending, High, Pend, State
  <2>3. CASE logical' = logical
    BY <2>2, <2>3
  <2>4. CASE Finished(r)
    <3>1. PICK chunks \in Seq(Records) : Return(r, chunks)
      BY <2>4 DEF Finished
    <3>2. PICK e \in LogicalRecord :
            logical' = Append(logical, e) /\ e.writer = r.writer /\ e.start = Start(r)
      BY <1>1, <3>1 DEF Return, LogicalRecord
    <3>3. logical \in Seq(LogicalRecord)
      BY DEF StateTypeOK
    <3>4. \A i \in DOMAIN logical' :
            \/ i \in DOMAIN logical /\ logical'[i] = logical[i]
            \/ logical'[i] = e
      BY <3>2, <3>3, Appended
    <3>5. Passed(e.writer, e.start)'
      BY <2>4, <3>2, NowPassed DEF Finished
    <3>6. ASSUME NEW i \in DOMAIN logical', logical'[i] = e
          PROVE  Passed(logical[i].writer, logical[i].start)'
      BY <3>5, <3>6 DEF Passed, Pending, High, Pend, State
    <3>. QED BY <2>2, <3>4, <3>6
  <2>. QED BY <2>3, <2>4, PushCases DEF Refused, Suppressed, Dropped, Kept, TooLarge
<1>5. ASSUME NEW w \in Identities, NEW s \in Int, <<w, s>> \in refused'
      PROVE  (w \notin DOMAIN writers' /\ Full') \/ Passed(w, s)'
  <2>1. CASE <<w, s>> \in refused
    <3>1. (w \notin DOMAIN writers /\ Full) \/ Passed(w, s)
      BY <2>1 DEF OrderOK
    <3>. QED BY <1>3, <3>1, FullStep
  <2>2. CASE <<w, s>> \notin refused
    <3>1. w = r.writer /\ s = Start(r) /\ (Refused(r) \/ TooLarge(r))
      BY <1>5, <2>2, PushCases DEF Refused, Suppressed, Dropped, Kept, TooLarge, Finished
    <3>2. CASE TooLarge(r)
      BY <3>1, <3>2, NowPassed DEF TooLarge
    <3>3. CASE Refused(r)
      BY <3>1, <3>3, FullStep DEF Refused, Admitted, Full
    <3>. QED BY <3>1, <3>2, <3>3
  <2>. QED BY <2>1, <2>2
<1>. QED BY <1>2, <1>4, <1>5 DEF OrderOK

LEMMA OnceStep ==
  ASSUME StateTypeOK, OrderOK, OnceInOrder, NEW r, GoodRecord(r), PushRecord(r)
  PROVE  OnceInOrder'
<1>1. Start(r) \in Int /\ r.writer \in Identities
  BY DEF GoodRecord, Start
<1>2. CASE Suppressed(r) \/ Dropped(r) \/ Kept(r)
  BY <1>2 DEF Suppressed, Dropped, Kept, OnceInOrder
<1>3. CASE Refused(r) \/ TooLarge(r)
  <2>1. logical' = logical /\ refused' = refused \cup {<<r.writer, Start(r)>>}
    BY <1>3 DEF Refused, TooLarge
  <2>2. ASSUME NEW i \in DOMAIN logical
        PROVE  <<logical[i].writer, logical[i].start>> # <<r.writer, Start(r)>>
    <3>1. CASE Refused(r)
      <4>1. logical[i].writer \in DOMAIN writers /\ r.writer \notin DOMAIN writers
        BY <3>1 DEF OrderOK, Passed, Refused, Admitted
      <4>. QED BY <4>1
    <3>2. CASE TooLarge(r)
      <4>1. logical[i].writer = r.writer => logical[i].start < Start(r)
        BY <3>2, NotYet DEF TooLarge
      <4>. QED BY <1>1, <4>1, LogicalTypes
    <3>. QED BY <1>3, <3>1, <3>2
  <2>. QED BY <2>1, <2>2 DEF OnceInOrder
<1>4. CASE Finished(r)
  <2>1. PICK chunks \in Seq(Records) : Return(r, chunks)
    BY <1>4 DEF Finished
  <2>2. PICK e \in LogicalRecord :
          logical' = Append(logical, e) /\ e.writer = r.writer /\ e.start = Start(r)
    BY <1>1, <2>1 DEF Return, LogicalRecord
  <2>3. /\ Len(logical) \in Nat /\ DOMAIN logical = 1..Len(logical)
        /\ DOMAIN logical' = 1..(Len(logical) + 1)
        /\ \A i \in DOMAIN logical : logical'[i] = logical[i]
        /\ logical'[Len(logical) + 1] = e
    BY <2>2, Appended DEF StateTypeOK
  <2>4. /\ <<e.writer, e.start>> \notin refused /\ refused' = refused
        /\ \A i \in DOMAIN logical : logical[i].writer = e.writer => logical[i].start < e.start
    BY <1>4, <2>2, NotYet DEF Finished
  <2>5. ASSUME NEW i \in DOMAIN logical', NEW j \in DOMAIN logical',
               i < j, logical'[i].writer = logical'[j].writer
        PROVE  logical'[i].start < logical'[j].start
    <3>1. i \in DOMAIN logical /\ logical'[i] = logical[i]
      BY <2>3, <2>5
    <3>2. CASE j \in DOMAIN logical
      <4>1. logical'[j] = logical[j]
        BY <2>3, <3>2
      <4>. QED BY <2>5, <3>1, <3>2, <4>1 DEF OnceInOrder
    <3>3. CASE j \notin DOMAIN logical
      <4>1. logical'[j] = e
        BY <2>3, <3>3
      <4>. QED BY <2>4, <2>5, <3>1, <4>1
    <3>. QED BY <3>2, <3>3
  <2>6. ASSUME NEW i \in DOMAIN logical'
        PROVE  <<logical'[i].writer, logical'[i].start>> \notin refused'
    <3>1. CASE i \in DOMAIN logical
      BY <2>3, <2>4, <3>1 DEF OnceInOrder
    <3>2. CASE i \notin DOMAIN logical
      <4>1. logical'[i] = e
        BY <2>3, <3>2
      <4>. QED BY <2>4, <4>1
    <3>. QED BY <3>1, <3>2
  <2>. QED BY <2>5, <2>6 DEF OnceInOrder
<1>. QED BY <1>2, <1>3, <1>4, PushCases

-----------------------------------------------------------------------------
(* No whole record of a durable writer is missed.                          *)

LEMMA SettledStep ==
  ASSUME StateTypeOK, NEW r, GoodRecord(r), PushRecord(r), NEW w, NEW s, Settled(w, s)
  PROVE  Settled(w, s)'
<1>1. refused \subseteq refused'
  BY PushCases DEF Refused, Suppressed, Dropped, Kept, TooLarge, Finished
<1>2. \A i \in DOMAIN logical : i \in DOMAIN logical' /\ logical'[i] = logical[i]
  <2>1. CASE Finished(r)
    <3>1. PICK e \in LogicalRecord : logical' = Append(logical, e)
      <4>1. PICK chunks \in Seq(Records) : Return(r, chunks)
        BY <2>1 DEF Finished
      <4>. QED BY <4>1 DEF Return, LogicalRecord, GoodRecord, Start
    <3>2. logical \in Seq(LogicalRecord)
      BY DEF StateTypeOK
    <3>. QED BY <3>1, <3>2, Appended
  <2>. QED BY <2>1, PushCases DEF Refused, Suppressed, Dropped, Kept, TooLarge
<1>. QED BY <1>1, <1>2 DEF Settled, Returned

\* Records of others, and copies that change nothing, leave a writer where it is.
LEMMA WriterKept ==
  ASSUME StateTypeOK, NEW r, GoodRecord(r), PushRecord(r),
         NEW w \in Writers, WriterOK(w), State(w)' = State(w),
         w \in DOMAIN writers <=> w \in DOMAIN writers',
         top[w]' = top[w], from[w]' = from[w]
  PROVE  WriterOK(w)'
<1>1. High(w)' = High(w) /\ Pend(w)' = Pend(w)
  BY DEF High, Pend
<1>2. Full => Full'
  BY FullStep
<1>3. \A s \in Int : Settled(w, s) => Settled(w, s)'
  BY SettledStep
<1>4. \A s \in Int : InProgress(w, s) => InProgress(w, s)'
  BY <1>1 DEF InProgress, Pending
<1>5. Starts(w)' = Starts(w) /\ Starts(w) \subseteq Int
  BY DEF Starts
<1>. QED BY <1>1, <1>2, <1>3, <1>4, <1>5 DEF WriterOK

\* The parts that follow a first one.
LEMMA LayoutFacts ==
  ASSUME NEW w \in Writers, NEW s \in Nat, s < Len(Parts[w])
  PROVE  /\ s = 0 => Parts[w][s + 1].index = 0
         /\ s > 0 => /\ Parts[w][s].index \in Nat
                     /\ Parts[w][s + 1].index = 0 <=> Parts[w][s].final
                     /\ Parts[w][s + 1].index > 0 =>
                          Parts[w][s + 1].index = Parts[w][s].index + 1
<1>1. WellSplit(Parts[w])
  BY AssemblerAssumption
<1>2. Len(Parts[w]) \in Nat /\ DOMAIN Parts[w] = 1..Len(Parts[w])
  BY PartFacts
<1>3. s + 1 \in DOMAIN Parts[w] /\ (s + 1) - 1 = s
  BY <1>2
<1>4. /\ Parts[w][s + 1].index = 0 <=> s + 1 = 1 \/ Parts[w][s].final
      /\ Parts[w][s + 1].index > 0 => Parts[w][s + 1].index = Parts[w][s].index + 1
  BY <1>1, <1>3 DEF WellSplit
<1>5. s > 0 => Parts[w][s].index \in Nat
  <2>1. s > 0 => s - 1 \in Nat /\ s - 1 < Len(Parts[w]) /\ (s - 1) + 1 = s
    BY <1>2
  <2>. QED BY <2>1, PartFacts
<1>. QED BY <1>4, <1>5

LEMMA FinishReturns ==
  ASSUME StateTypeOK, NEW r, GoodRecord(r), Finished(r)
  PROVE  Returned(r.writer, Start(r))'
<1>1. PICK chunks \in Seq(Records) : Return(r, chunks)
  BY DEF Finished
<1>2. Start(r) \in Int /\ r.writer \in Identities
  BY DEF GoodRecord, Start
<1>3. PICK e \in LogicalRecord :
        logical' = Append(logical, e) /\ e.writer = r.writer /\ e.start = Start(r)
  BY <1>1, <1>2 DEF Return, LogicalRecord
<1>4. Len(logical) + 1 \in DOMAIN logical' /\ logical'[Len(logical) + 1] = e
  BY <1>3, Appended DEF StateTypeOK
<1>. QED BY <1>3, <1>4 DEF Returned

\* The next record of a writer is stored and read.
LEMMA NextRecord ==
  ASSUME StateTypeOK, OrderOK, NEW w \in Writers, WriterOK(w),
         top[w] < Len(Parts[w]), PushRecord(Physical(w, top[w])),
         top[w]' = top[w] + 1, from[w]' = from[w]
  PROVE  WriterOK(w)'
<1>. DEFINE p == Parts[w][top[w] + 1]
<1>. PICK r : r = Physical(w, top[w])
  OBVIOUS
<1>1. top[w] \in Nat /\ from[w] \in Nat /\ from[w] <= top[w]
  BY DEF StateTypeOK
<1>2. /\ GoodRecord(r) /\ r.writer = w /\ r.seq = top[w] /\ r.index = p.index
      /\ r.final = p.final /\ p.index \in Nat /\ p.final \in BOOLEAN
  BY <1>1, DurableRecord, PartFacts
<1>3. PushRecord(r)
  OBVIOUS
<1>4. w \in DOMAIN writers => r.seq > High(w)
  BY <1>1, <1>2, StateFacts DEF WriterOK
<1>5. ~Suppressed(r)
  BY <1>2, <1>4, StateFacts DEF Suppressed, GoodRecord
<1>6. \A s : Settled(w, s) => Settled(w, s)'
  BY <1>2, <1>3, SettledStep
<1>7. Starts(w)' = Starts(w) /\ Starts(w) \subseteq Nat
  BY DEF Starts
<1>8. ASSUME NEW s \in Starts(w), from[w] <= s, s < top[w] + 1
      PROVE  s = top[w] \/ Settled(w, s) \/ InProgress(w, s)
  BY <1>1, <1>7, <1>8 DEF WriterOK
<1>9. ASSUME NEW s \in Nat, InProgress(w, s)
      PROVE  p.index = top[w] - s /\ p.index > 0 /\ w \in DOMAIN writers
  <2>1. s < top[w] /\ ~Parts[w][top[w]].final /\ Parts[w][top[w]].index = top[w] - 1 - s
    <3>1. s < top[w] /\ Parts[w][top[w]].index = top[w] - 1 - s
      BY <1>9 DEF InProgress
    <3>2. top[w] - 1 \in s..(top[w] - 1) /\ (top[w] - 1) + 1 = top[w]
      BY <1>1, <3>1
    <3>. QED BY <1>9, <3>1, <3>2 DEF InProgress
  <2>2. p.index # 0 /\ (p.index > 0 => p.index = Parts[w][top[w]].index + 1)
    <3>1. PICK t \in Nat : t = top[w]
      BY <1>1
    <3>2. t > 0 /\ t < Len(Parts[w])
      BY <2>1, <3>1
    <3>3. /\ Parts[w][t + 1].index = 0 <=> Parts[w][t].final
          /\ Parts[w][t + 1].index > 0 => Parts[w][t + 1].index = Parts[w][t].index + 1
      BY <3>2, LayoutFacts
    <3>. QED BY <2>1, <3>1, <3>3
  <2>3. p.index = top[w] - s /\ p.index > 0
    BY <1>1, <1>2, <2>1, <2>2
  <2>. QED BY <1>9, <2>3 DEF InProgress, Pending
<1>10. ASSUME NEW s \in Starts(w), s = top[w]
       PROVE  p.index = 0 /\ Start(r) = s
  BY <1>1, <1>2, <1>10 DEF Starts, Start
<1>11. CASE Refused(r)
  <2>1. /\ w \notin DOMAIN writers /\ writers' = writers /\ Full
        /\ refused' = refused \cup {<<w, Start(r)>>}
    BY <1>2, <1>11 DEF Refused, Admitted, Full
  <2>2. w \notin DOMAIN writers' /\ Full'
    BY <2>1 DEF Full
  <2>3. ASSUME NEW s \in Starts(w), from[w] <= s, s < top[w] + 1
        PROVE  Settled(w, s)'
    <3>1. CASE s = top[w]
      BY <1>10, <2>1, <3>1 DEF Settled
    <3>2. ~InProgress(w, s)
      BY <2>1 DEF InProgress, Pending
    <3>. QED BY <1>6, <1>8, <2>3, <3>1, <3>2
  <2>. QED BY <1>7, <2>2, <2>3 DEF WriterOK
<1>12. CASE ~Refused(r)
  <2>1. Dropped(r) \/ Kept(r) \/ TooLarge(r) \/ Finished(r)
    BY <1>2, <1>3, <1>5, <1>12, PushCases
  <2>2. w \in DOMAIN writers' /\ High(w)' = top[w]
    BY <1>2, <2>1 DEF Dropped, Kept, TooLarge, Finished, Moved
  <2>3. ASSUME NEW s \in Nat, s <= top[w], Start(r) = s, r.index = 0 \/ Continues(r),
               p.index = top[w] - s, \A e \in s..(top[w] - 1) : ~Parts[w][e + 1].final
        PROVE  Settled(w, s)' \/ InProgress(w, s)'
    <3>1. CASE Dropped(r)
      BY <1>2, <2>3, <3>1 DEF Dropped
    <3>2. CASE TooLarge(r)
      BY <1>2, <2>3, <3>2 DEF TooLarge, Settled
    <3>3. CASE Finished(r)
      BY <1>2, <2>3, <3>3, FinishReturns DEF Settled
    <3>4. CASE Kept(r)
      <4>1. Pend(w)' = Joined(r) /\ Joined(r).next = r.index + 1 /\ Joined(r).start = s
        BY <1>2, <2>3, <3>4, JoinedFacts DEF Kept, Moved
      <4>2. Pending(w)' /\ Pend(w).start' = s /\ Pend(w).next' = top[w]' - s
        BY <1>1, <1>2, <2>2, <2>3, <4>1 DEF Pending
      <4>3. \A e \in s..top[w] : ~Parts[w][e + 1].final
        BY <1>1, <1>2, <2>3, <3>4 DEF Kept
      <4>4. s < top[w]' /\ Parts[w][top[w]'].index = top[w]' - 1 - s /\ top[w]' - 1 = top[w]
        BY <1>1, <2>3
      <4>. QED BY <4>2, <4>3, <4>4 DEF InProgress
    <3>. QED BY <2>1, <3>1, <3>2, <3>3, <3>4
  <2>4. ASSUME NEW s \in Starts(w), from[w] <= s, s < top[w] + 1
        PROVE  Settled(w, s)' \/ InProgress(w, s)'
    <3>1. s \in Nat /\ s <= top[w]
      BY <1>1, <1>7, <2>4
    <3>2. CASE s = top[w]
      <4>1. p.index = top[w] - s /\ r.index = 0 /\ Start(r) = s
        BY <1>1, <1>2, <1>10, <3>2
      <4>2. \A e \in s..(top[w] - 1) : FALSE
        BY <1>1, <3>2
      <4>. QED BY <2>3, <3>1, <4>1, <4>2
    <3>3. CASE InProgress(w, s)
      <4>1. p.index = top[w] - s /\ p.index > 0
        BY <1>9, <3>1, <3>3
      <4>2. Start(r) = s
        BY <1>1, <1>2, <3>1, <4>1 DEF Start
      <4>3. Continues(r)
        BY <1>2, <3>3, <4>1, <4>2 DEF InProgress, Continues, Pend
      <4>4. \A e \in s..(top[w] - 1) : ~Parts[w][e + 1].final
        BY <3>3 DEF InProgress
      <4>. QED BY <2>3, <3>1, <4>1, <4>2, <4>3, <4>4
    <3>. QED BY <1>6, <1>8, <2>4, <3>2, <3>3
  <2>5. top[w]' > from[w]' /\ High(w)' = top[w]' - 1 /\ High(w)' < top[w]'
    BY <1>1, <2>2
  <2>. QED BY <1>7, <2>2, <2>4, <2>5 DEF WriterOK
<1>. QED BY <1>11, <1>12

\* A record the writer stored before is read again.
LEMMA CopyRecord ==
  ASSUME StateTypeOK, OrderOK, NEW w \in Writers, WriterOK(w), NEW t \in Nat, t < top[w],
         PushRecord(Physical(w, t)), top[w]' = top[w], from[w]' = from[w]
  PROVE  WriterOK(w)'
<1>. PICK r : r = Physical(w, t)
  OBVIOUS
<1>1. top[w] \in Nat /\ from[w] \in Nat /\ from[w] <= top[w] /\ t < Len(Parts[w])
  BY PartFacts, AssemblerAssumption DEF StateTypeOK
<1>2. GoodRecord(r) /\ r.writer = w /\ r.seq = t /\ PushRecord(r)
  BY <1>1, DurableRecord
<1>3. CASE UNCHANGED writers
  BY <1>2, <1>3, WriterKept DEF State
<1>4. CASE ~UNCHANGED writers
  <2>1. Dropped(r) \/ Kept(r) \/ TooLarge(r) \/ Finished(r)
    BY <1>2, <1>4, PushCases DEF Refused, Suppressed
  <2>2. Fresh(r) /\ High(w)' = t /\ w \in DOMAIN writers'
    BY <1>2, <2>1 DEF Dropped, Kept, TooLarge, Finished, Moved
  <2>3. t > High(w) /\ (w \notin DOMAIN writers => ~Full)
    BY <1>2, <2>2, FreshFacts
  <2>4. top[w] = from[w]
    BY <1>1, <2>3 DEF WriterOK
  <2>5. ~(top[w]' > from[w]')
    BY <1>1, <2>4
  <2>6. \A s \in Starts(w)' : ~(from[w]' <= s /\ s < top[w]')
    <3>1. Starts(w)' \subseteq Int
      BY DEF Starts
    <3>. QED BY <1>1, <2>4, <3>1
  <2>. QED BY <2>2, <2>5, <2>6 DEF WriterOK
<1>. QED BY <1>3, <1>4

\* A record of another writer is read.
LEMMA OtherRecord ==
  ASSUME StateTypeOK, NEW r, GoodRecord(r), PushRecord(r),
         NEW w \in Writers, w # r.writer, WriterOK(w), top[w]' = top[w], from[w]' = from[w]
  PROVE  WriterOK(w)'
<1>1. CASE UNCHANGED writers
  BY <1>1, WriterKept DEF State
<1>2. CASE Dropped(r) \/ Kept(r) \/ TooLarge(r) \/ Finished(r)
  <2>1. State(w)' = State(w) /\ DOMAIN writers' = DOMAIN writers \cup {r.writer}
    BY <1>2 DEF Dropped, Kept, TooLarge, Finished, Moved
  <2>. QED BY <2>1, WriterKept
<1>. QED BY <1>1, <1>2, PushCases DEF Refused, Suppressed

LEMMA RecordInvInit == Init => RecordInv
<1>. SUFFICES ASSUME Init PROVE RecordInv
  OBVIOUS
<1>1. StateTypeOK
  <2>1. UNION {0..Len(Parts[w]) : w \in Writers} \subseteq Nat
    BY AssemblerAssumption
  <2>2. top \in [Writers -> Nat] /\ from = top
    BY <2>1 DEF Init
  <2>. QED BY <2>2 DEF Init, StateTypeOK
<1>2. DOMAIN writers = {} /\ logical = <<>> /\ refused = {} /\ DOMAIN logical = {}
  BY DEF Init
<1>3. OrderOK /\ OnceInOrder
  BY <1>2 DEF OrderOK, OnceInOrder
<1>4. ASSUME NEW w \in Writers PROVE WriterOK(w)
  <2>1. top[w] \in Nat /\ from[w] = top[w]
    BY <1>1 DEF Init, StateTypeOK
  <2>2. Starts(w) \subseteq Int
    BY DEF Starts
  <2>. QED BY <1>2, <2>1, <2>2 DEF WriterOK
<1>. QED BY <1>1, <1>3, <1>4 DEF RecordInv

LEMMA RecordInvStep == RecordInv /\ [Next]_vars => RecordInv'
<1>. SUFFICES ASSUME RecordInv, [Next]_vars PROVE RecordInv'
  OBVIOUS
<1>1. StateTypeOK /\ OrderOK /\ OnceInOrder /\ StateTypeOK'
  BY StateTypeStep DEF RecordInv
<1>2. CASE UNCHANGED vars
  BY <1>2 DEF RecordInv, StateTypeOK, OrderOK, OnceInOrder, WriterOK, InProgress, Settled,
     Passed, Pending, Pend, High, State, Full, Returned, Starts, vars, streamVars
<1>3. CASE ReadDurable
  <2>. PICK w \in Writers : \E s \in 0..top[w] : DurableRead(w, s)
    BY <1>3 DEF ReadDurable, DurableRead
  <2>. PICK s \in 0..top[w] : DurableRead(w, s)
    OBVIOUS
  <2>1. /\ s < Len(Parts[w]) /\ PushRecord(Physical(w, s))
        /\ top' = [top EXCEPT ![w] = IF s = @ THEN s + 1 ELSE @] /\ from' = from
    BY DEF DurableRead
  <2>2. s \in Nat /\ top[w] \in Nat /\ top \in [Writers -> Nat] /\ s <= top[w]
    BY <1>1 DEF StateTypeOK
  <2>3. GoodRecord(Physical(w, s)) /\ Physical(w, s).writer = w
    BY <2>1, <2>2, DurableRecord
  <2>4. OrderOK' /\ OnceInOrder'
    BY <1>1, <2>1, <2>3, OrderStep, OnceStep
  <2>5. ASSUME NEW v \in Writers PROVE WriterOK(v)'
    <3>1. WriterOK(v) /\ from'[v] = from[v]
      BY <2>1 DEF RecordInv
    <3>2. CASE v # w
      <4>1. top'[v] = top[v]
        BY <2>1, <2>2, <3>2
      <4>. QED BY <1>1, <2>1, <2>3, <3>1, <3>2, <4>1, OtherRecord
    <3>3. CASE v = w /\ s = top[w]
      <4>1. top'[w] = top[w] + 1
        BY <2>1, <2>2, <3>3
      <4>. QED BY <1>1, <2>1, <3>1, <3>3, <4>1, NextRecord
    <3>4. CASE v = w /\ s # top[w]
      <4>1. top'[w] = top[w] /\ s < top[w]
        BY <2>1, <2>2, <3>4
      <4>. QED BY <1>1, <2>1, <2>2, <3>1, <3>4, <4>1, CopyRecord
    <3>. QED BY <3>2, <3>3, <3>4
  <2>. QED BY <1>1, <2>4, <2>5 DEF RecordInv
<1>4. CASE ReadRaw
  <2>1. PICK r \in RawRecords : PushRecord(r) /\ UNCHANGED <<top, from>>
    BY <1>4 DEF ReadRaw
  <2>2. GoodRecord(r) /\ r.writer \notin Writers
    BY RawRecord
  <2>3. OrderOK' /\ OnceInOrder'
    BY <1>1, <2>1, <2>2, OrderStep, OnceStep
  <2>4. ASSUME NEW w \in Writers PROVE WriterOK(w)'
    BY <1>1, <2>1, <2>2, OtherRecord DEF RecordInv
  <2>. QED BY <1>1, <2>3, <2>4 DEF RecordInv
<1>. QED BY <1>2, <1>3, <1>4 DEF Next, ReadEnds

\* A logical record has a last part, and it is final.
LEMMA EndFacts ==
  ASSUME NEW w \in Writers, NEW s \in Starts(w)
  PROVE  /\ End(w, s) \in Nat /\ s <= End(w, s) /\ End(w, s) < Len(Parts[w])
         /\ Parts[w][End(w, s) + 1].final
         /\ \A e \in s..(Len(Parts[w]) - 1) : Parts[w][e + 1].final => End(w, s) <= e
<1>. DEFINE E == {e \in s..(Len(Parts[w]) - 1) : Parts[w][e + 1].final}
<1>1. Len(Parts[w]) \in Nat /\ s \in Nat /\ s < Len(Parts[w])
  BY AssemblerAssumption DEF Starts
<1>2. Len(Parts[w]) - 1 \in E
  <2>1. Parts[w] # <<>> /\ Parts[w][Len(Parts[w])].final
    BY <1>1, AssemblerAssumption DEF WellSplit
  <2>2. (Len(Parts[w]) - 1) + 1 = Len(Parts[w]) /\ Len(Parts[w]) - 1 \in s..(Len(Parts[w]) - 1)
    BY <1>1
  <2>. QED BY <2>1, <2>2
<1>3. \A e \in E : e \in Nat /\ s <= e /\ e < Len(Parts[w]) /\ Parts[w][e + 1].final
  BY <1>1
<1>. HIDE DEF E
<1>4. \E x \in E : \A y \in E : x <= y
  <2>1. E \subseteq Nat /\ E # {}
    BY <1>2, <1>3
  <2>. QED BY <2>1, LeastNumber
<1>5. End(w, s) = CHOOSE x \in E : \A y \in E : x <= y
  BY DEF End, Min, E
<1>6. End(w, s) \in E /\ \A y \in E : End(w, s) <= y
  BY <1>4, <1>5
<1>7. \A e \in s..(Len(Parts[w]) - 1) : Parts[w][e + 1].final => e \in E
  BY DEF E
<1>. QED BY <1>3, <1>6, <1>7

\* No record is missed where every record that begins is settled or in progress.
LEMMA RecordInvExact == RecordInv => ExactlyOnce
<1>. SUFFICES ASSUME RecordInv PROVE NothingMissed
  BY DEF RecordInv, ExactlyOnce
<1>. SUFFICES ASSUME NEW w \in Writers, NEW s \in Starts(w), s >= from[w],
                     End(w, s) < top[w], <<w, s>> \notin refused
              PROVE  Returned(w, s)
  BY DEF NothingMissed, Returned
<1>1. top[w] \in Nat /\ from[w] \in Nat /\ s \in Nat
  BY DEF RecordInv, StateTypeOK, Starts
<1>2. /\ End(w, s) \in Nat /\ s <= End(w, s) /\ Parts[w][End(w, s) + 1].final
  BY EndFacts
<1>3. from[w] <= s /\ s < top[w] /\ End(w, s) \in s..(top[w] - 1)
  BY <1>1, <1>2
<1>4. Settled(w, s) \/ InProgress(w, s)
  BY <1>3 DEF RecordInv, WriterOK
<1>5. ~InProgress(w, s)
  BY <1>2, <1>3 DEF InProgress
<1>. QED BY <1>4, <1>5 DEF Settled

(* Whatever the writers store, copies and limits included, every whole     *)
(* logical record of a durable writer that begins after the read started   *)
(* is returned exactly once and in its writer's order, unless a limit      *)
(* refused it, and then never (LogicalRecordAssembler::push_record).       *)
THEOREM RecordsExactlyOnce == Spec => []ExactlyOnce
<1>1. Init => RecordInv
  BY RecordInvInit
<1>2. RecordInv /\ [Next]_vars => RecordInv'
  BY RecordInvStep
<1>3. RecordInv => ExactlyOnce
  BY RecordInvExact
<1>. QED BY <1>1, <1>2, <1>3, PTL DEF Spec

-----------------------------------------------------------------------------
(* The totals.                                                             *)

Lens == [w \in DOMAIN writers |-> writers[w].pending.len]
Counts == [w \in DOMAIN writers |-> writers[w].pending.parts]

\* What the chunks of a record hold.
Retained(chunks) == SumOf([i \in DOMAIN chunks |-> chunks[i].len], DOMAIN chunks)

AccountOK ==
  /\ reads \in 0..MaxReads
  /\ IsFiniteSet(DOMAIN writers) /\ DOMAIN writers \subseteq Identities
  /\ Cardinality(DOMAIN writers) <= MaxWriters
  /\ bytes = SumOf(Lens, DOMAIN writers) /\ bytes <= MaxBytes
  /\ parts = SumOf(Counts, DOMAIN writers) /\ parts <= MaxParts
  /\ \A w \in DOMAIN writers :
       /\ High(w) \in Nat /\ Pend(w).start <= High(w)
       /\ Pend(w).len = Retained(Pend(w).chunks)

\* `chunks` are of writer w's record from `start`, in order and before part `next`.
OfOneRecord(w, start, next, chunks) ==
  \A j \in DOMAIN chunks :
    /\ GoodRecord(chunks[j]) /\ chunks[j].writer = w
    /\ Start(chunks[j]) = start /\ chunks[j].index < next
    /\ j > 1 => chunks[j].index > chunks[j - 1].index

\* `chunks` are what the first `next` parts hold of durable writer w's record from
\* `start`, which has more parts.
FirstParts(w, start, next, chunks) ==
  /\ start \in Starts(w) /\ start + next <= Len(Parts[w])
  /\ \A e \in start..(start + next - 1) : ~Parts[w][e + 1].final
  /\ Range(chunks) = NonemptyParts(w, start, start + next - 1)

ChunksOK ==
  \A w \in DOMAIN writers :
    LET p == Pend(w)
    IN /\ OfOneRecord(w, p.start, p.next, p.chunks)
       /\ w \in Writers /\ p.next > 0 => FirstParts(w, p.start, p.next, p.chunks)

\* What is retained of a record before part r of it.
Prior(r) == IF r.index = 0 THEN <<>> ELSE Pend(r.writer).chunks

\* The ways of push_record, by what they retain and return.
LEMMA PushParts ==
  ASSUME StateTypeOK, NEW r, GoodRecord(r), PushRecord(r)
  PROVE  \/ UNCHANGED <<writers, bytes, parts, logical>>
         \/ Fresh(r) /\ Advance(r, NoPending) /\ logical' = logical
         \/ /\ Fresh(r) /\ ~r.final /\ (r.index = 0 \/ Continues(r))
            /\ Fits(TakenBytes(r) + Joined(r).len, TakenParts(r) + Joined(r).parts)
            /\ Advance(r, Joined(r)) /\ logical' = logical
         \/ /\ Fresh(r) /\ r.final /\ (r.index = 0 \/ Continues(r))
            /\ Advance(r, NoPending) /\ Return(r, Prior(r) \o Chunk(r))
<1>1. CASE RefuseWriter(r) \/ Suppress(r)
  BY <1>1 DEF RefuseWriter, Suppress
<1>2. CASE Unsplit(r)
  <2>1. Prior(r) \o Chunk(r) = Chunk(r)
    BY <1>2, ChunkType DEF Unsplit, Prior
  <2>. QED BY <1>2, <2>1 DEF Unsplit
<1>3. CASE Orphan(r)
  BY <1>3 DEF Orphan
<1>4. CASE Retain(r)
  BY <1>4 DEF Retain
<1>5. CASE Complete(r)
  <2>1. Prior(r) = State(r.writer).pending.chunks
    BY <1>5 DEF Complete, Continues, Prior, Pend, GoodRecord
  <2>. QED BY <1>5, <2>1 DEF Complete
<1>. QED BY <1>1, <1>2, <1>3, <1>4, <1>5 DEF PushRecord

LEMMA RetainedNone == Retained(<<>>) = 0
<1>1. DOMAIN <<>> = {}
  OBVIOUS
<1>. QED BY <1>1, SumEmpty DEF Retained

LEMMA RetainedMore ==
  ASSUME NEW chunks \in Seq(Records), \A j \in DOMAIN chunks : GoodRecord(chunks[j]),
         NEW r, GoodRecord(r)
  PROVE  Retained(chunks \o Chunk(r)) = Retained(chunks) + r.len
<1>. DEFINE n == Len(chunks)
            more == chunks \o Chunk(r)
            g == [i \in DOMAIN chunks |-> chunks[i].len]
            h == [i \in DOMAIN more |-> more[i].len]
<1>1. n \in Nat /\ DOMAIN chunks = 1..n /\ r.len \in Nat /\ r \in Records
  BY DEF GoodRecord
<1>2. IsFiniteSet(1..n) /\ \A i \in 1..n : g[i] \in Nat
  <2>1. IsFiniteSet(1..n)
    <3>. HIDE DEF n
    <3>. QED BY <1>1, FS_Interval
  <2>2. \A i \in 1..n : chunks[i].len \in Nat
    BY <1>1 DEF GoodRecord
  <2>. HIDE DEF n
  <2>. QED BY <1>1, <2>1, <2>2
<1>3. SumOf(g, 1..n) \in Nat
  <2>. HIDE DEF g, n
  <2>. QED BY <1>2, SumType
<1>4. CASE r.len = 0
  <2>1. more = chunks
    BY <1>4 DEF Chunk
  <2>. QED BY <1>1, <1>3, <1>4, <2>1 DEF Retained
<1>5. CASE r.len # 0
  <2>1. more = Append(chunks, r)
    BY <1>1, <1>5 DEF Chunk
  <2>2. /\ DOMAIN more = 1..(n + 1) /\ 1..(n + 1) = (1..n) \cup {n + 1} /\ n + 1 \notin 1..n
        /\ \A i \in 1..n : more[i] = chunks[i]
        /\ more[n + 1] = r
    BY <1>1, <2>1, Appended
  <2>3. \A i \in (1..n) \cup {n + 1} : h[i] \in Nat
    <3>1. \A i \in 1..n : chunks[i].len \in Nat
      BY <1>1 DEF GoodRecord
    <3>. HIDE DEF n, more
    <3>. QED BY <1>1, <2>2, <3>1
  <2>4. h[n + 1] = r.len /\ \A i \in (1..n) \ {n + 1} : h[i] = g[i]
    <3>. HIDE DEF n, more
    <3>. QED BY <1>1, <2>2
  <2>5. SumOf(h, (1..n) \cup {n + 1}) =
          SumOf(g, 1..n) - (IF n + 1 \in 1..n THEN g[n + 1] ELSE 0) + h[n + 1]
    <3>1. PICK S, R, y, old, new :
            S = 1..n /\ R = S \cup {y} /\ y = n + 1 /\ old = g /\ new = h
      OBVIOUS
    <3>. HIDE DEF n, g, h
    <3>2. /\ IsFiniteSet(S) /\ R = S \cup {y} /\ (\A i \in S : old[i] \in Nat)
          /\ (\A i \in R : new[i] \in Nat) /\ \A i \in R : i = y \/ new[i] = old[i]
      BY <1>2, <2>3, <2>4, <3>1
    <3>3. SumOf(new, R) = SumOf(old, S) - (IF y \in S THEN old[y] ELSE 0) + new[y]
      BY ONLY <3>2, SumMoved
    <3>. QED BY <3>1, <3>3
  <2>6. SumOf(h, DOMAIN more) = SumOf(g, DOMAIN chunks) + r.len
    <3>1. DOMAIN more = (1..n) \cup {n + 1}
      BY <2>2
    <3>. HIDE DEF n, g, h, more
    <3>2. SumOf(h, DOMAIN more) = SumOf(g, 1..n) - 0 + h[n + 1]
      BY <2>2, <2>5, <3>1
    <3>. QED BY <1>1, <1>3, <2>4, <3>2
  <2>. QED BY <2>6 DEF Retained
<1>. QED BY <1>4, <1>5

\* Part r and what is retained before it.
LEMMA PriorFacts ==
  ASSUME StateTypeOK, AccountOK, ChunksOK, NEW r, GoodRecord(r), Fresh(r),
         r.index = 0 \/ Continues(r)
  PROVE  /\ Prior(r) \in Seq(Records) /\ OfOneRecord(r.writer, Start(r), r.index, Prior(r))
         /\ ~r.final => /\ Joined(r).chunks = Prior(r) \o Chunk(r)
                        /\ Joined(r).len = Retained(Prior(r)) + r.len
<1>1. CASE r.index = 0
  <2>1. Prior(r) = <<>> /\ Retained(Prior(r)) = 0
    BY <1>1, RetainedNone DEF Prior
  <2>2. Joined(r).chunks = Chunk(r) /\ Joined(r).len = r.len
    BY <1>1 DEF Joined
  <2>3. Prior(r) \o Chunk(r) = Chunk(r) /\ r.len \in Nat
    BY <2>1, ChunkType DEF GoodRecord
  <2>. QED BY <2>1, <2>2, <2>3 DEF OfOneRecord
<1>2. CASE r.index # 0
  <2>. DEFINE p == Pend(r.writer)
  <2>1. Continues(r) /\ p \in PendingState /\ p.next = r.index /\ p.start = Start(r)
    BY <1>2, StateFacts DEF Continues, Pend
  <2>2. r.writer \in DOMAIN writers
    <3>1. r.writer \notin DOMAIN writers => p.next = 0
      BY DEF Pend, State, NewWriter, NoPending
    <3>. QED BY <1>2, <2>1, <3>1
  <2>3. /\ OfOneRecord(r.writer, p.start, p.next, p.chunks)
        /\ p.len = Retained(p.chunks) /\ p.chunks \in Seq(Records)
    BY <2>1, <2>2 DEF ChunksOK, AccountOK, PendingState
  <2>4. Prior(r) = p.chunks
    BY <1>2 DEF Prior
  <2>5. Joined(r) = [p EXCEPT !.next = r.index + 1, !.len = @ + r.len, !.parts = @ + 1,
                              !.chunks = @ \o Chunk(r)]
    BY <1>2 DEF Joined, Pend
  <2>6. Joined(r).chunks = p.chunks \o Chunk(r) /\ Joined(r).len = p.len + r.len
    <3>. HIDE DEF p
    <3>. QED BY <2>1, <2>5 DEF PendingState
  <2>. QED BY <2>1, <2>3, <2>4, <2>6
<1>. QED BY <1>1, <1>2

LEMMA AdvanceAccount ==
  ASSUME StateTypeOK, AccountOK, NEW r, GoodRecord(r), Fresh(r), NEW p \in PendingState,
         Advance(r, p), reads' \in 0..MaxReads, p.start <= r.seq, p.len = Retained(p.chunks),
         TakenBytes(r) + p.len <= MaxBytes, TakenParts(r) + p.parts <= MaxParts
  PROVE  AccountOK'
<1>. DEFINE D == DOMAIN writers
            w == r.writer
<1>1. /\ IsFiniteSet(D) /\ D \subseteq Identities /\ Cardinality(D) <= MaxWriters
      /\ bytes = SumOf(Lens, D) /\ parts = SumOf(Counts, D)
  BY DEF AccountOK
<1>2. /\ r.writer \in Identities /\ r.seq \in Nat
      /\ p.len \in Nat /\ p.parts \in Nat /\ p.start \in Int
  BY DEF GoodRecord, PendingState
<1>3. Moved(r, p)
  BY Advanced
<1>4. DOMAIN writers' = D \cup {w}
  BY <1>3 DEF Moved
<1>5. \A v \in D : Lens[v] = Pend(v).len /\ Counts[v] = Pend(v).parts
  BY DEF Lens, Counts, Pend, State
<1>6. \A v \in D : Lens[v] \in Nat /\ Counts[v] \in Nat
  BY <1>5, StateFacts DEF PendingState
<1>7. \A v \in D \cup {w} :
        Lens'[v] = IF v = w THEN p.len ELSE Lens[v]
  <2>1. \A v \in D \cup {w} : Lens'[v] = Pend(v)'.len
    BY <1>4 DEF Lens, Pend, State
  <2>2. \A v \in D \cup {w} : v # w => Pend(v)' = Pend(v)
    BY <1>3 DEF Moved, Pend
  <2>3. Pend(w)' = p
    BY <1>3 DEF Moved
  <2>. QED BY <1>5, <2>1, <2>2, <2>3
<1>8. \A v \in D \cup {w} :
        Counts'[v] = IF v = w THEN p.parts ELSE Counts[v]
  <2>1. \A v \in D \cup {w} : Counts'[v] = Pend(v)'.parts
    BY <1>4 DEF Counts, Pend, State
  <2>2. \A v \in D \cup {w} : v # w => Pend(v)' = Pend(v)
    BY <1>3 DEF Moved, Pend
  <2>3. Pend(w)' = p
    BY <1>3 DEF Moved
  <2>. QED BY <1>5, <2>1, <2>2, <2>3
<1>9. /\ IsFiniteSet(D \cup {w}) /\ D \cup {w} \subseteq Identities
      /\ Cardinality(D \cup {w}) <= MaxWriters
  <2>1. MaxWriters \in Nat /\ Cardinality(D) \in Nat
    BY <1>1, FS_CardinalityType, AssemblerAssumption
  <2>2. w \in D \/ Cardinality(D) < MaxWriters
    BY DEF Fresh, Admitted
  <2>3. Cardinality(D \cup {w}) = IF w \in D THEN Cardinality(D) ELSE Cardinality(D) + 1
    BY <1>1, FS_AddElement
  <2>4. Cardinality(D \cup {w}) <= MaxWriters
    <3>. HIDE DEF D, w
    <3>. QED BY <1>1, <2>1, <2>2, <2>3
  <2>. QED BY <1>1, <1>2, <2>4, FS_AddElement
<1>10. /\ TakenBytes(r) = SumOf(Lens, D) - (IF w \in D THEN Lens[w] ELSE 0)
       /\ TakenParts(r) = SumOf(Counts, D) - (IF w \in D THEN Counts[w] ELSE 0)
  <2>1. /\ TakenBytes(r) = bytes - Pend(w).len /\ TakenParts(r) = parts - Pend(w).parts
    BY DEF TakenBytes, TakenParts, Taken, Pend
  <2>2. w \notin D => Pend(w).len = 0 /\ Pend(w).parts = 0
    BY DEF Pend, State, NewWriter, NoPending
  <2>. QED BY <1>1, <1>5, <2>1, <2>2
<1>11. bytes' = TakenBytes(r) + p.len /\ parts' = TakenParts(r) + p.parts
  BY DEF Advance
<1>12. bytes' = SumOf(Lens', D \cup {w})
  <2>1. (\A v \in D \cup {w} : Lens'[v] \in Nat) /\ (\A v \in D \ {w} : Lens'[v] = Lens[v])
        /\ Lens'[w] = p.len
    <3>. HIDE DEF D, w
    <3>. QED BY <1>2, <1>6, <1>7
  <2>2. PICK g, h, R : g = Lens /\ h = Lens' /\ R = D \cup {w}
    OBVIOUS
  <2>3. SumOf(h, R) = SumOf(g, D) - (IF w \in D THEN g[w] ELSE 0) + h[w]
    <3>1. IsFiniteSet(D) /\ (\A v \in D : g[v] \in Nat) /\ (\A v \in R : h[v] \in Nat)
          /\ \A v \in R : v = w \/ h[v] = g[v]
      BY <1>1, <1>6, <2>1, <2>2
    <3>. HIDE DEF D, w
    <3>. QED BY <2>2, <3>1, SumMoved
  <2>. HIDE DEF D, w
  <2>. QED BY <1>10, <1>11, <2>1, <2>2, <2>3
<1>13. parts' = SumOf(Counts', D \cup {w})
  <2>1. (\A v \in D \cup {w} : Counts'[v] \in Nat) /\ (\A v \in D \ {w} : Counts'[v] = Counts[v])
        /\ Counts'[w] = p.parts
    <3>. HIDE DEF D, w
    <3>. QED BY <1>2, <1>6, <1>8
  <2>2. PICK g, h, R : g = Counts /\ h = Counts' /\ R = D \cup {w}
    OBVIOUS
  <2>3. SumOf(h, R) = SumOf(g, D) - (IF w \in D THEN g[w] ELSE 0) + h[w]
    <3>1. IsFiniteSet(D) /\ (\A v \in D : g[v] \in Nat) /\ (\A v \in R : h[v] \in Nat)
          /\ \A v \in R : v = w \/ h[v] = g[v]
      BY <1>1, <1>6, <2>1, <2>2
    <3>. HIDE DEF D, w
    <3>. QED BY <2>2, <3>1, SumMoved
  <2>. HIDE DEF D, w
  <2>. QED BY <1>10, <1>11, <2>1, <2>2, <2>3
<1>14. ASSUME NEW v \in DOMAIN writers'
       PROVE  /\ High(v)' \in Nat /\ Pend(v)'.start <= High(v)'
              /\ Pend(v)'.len = Retained(Pend(v)'.chunks)
  <2>1. CASE v = w
    <3>1. High(v)' = r.seq /\ Pend(v)' = p
      BY <1>3, <2>1 DEF Moved
    <3>. QED BY <1>2, <3>1
  <2>2. CASE v # w
    <3>1. High(v)' = High(v) /\ Pend(v)' = Pend(v) /\ v \in D
      BY <1>3, <1>4, <1>14, <2>2 DEF Moved, High, Pend
    <3>. QED BY <3>1 DEF AccountOK
  <2>. QED BY <2>1, <2>2
<1>15. bytes' <= MaxBytes /\ parts' <= MaxParts
  BY <1>11
<1>16. \A v \in DOMAIN writers' : (Pend(v).len = Retained(Pend(v).chunks))'
  BY <1>14 DEF Retained
<1>. QED BY <1>4, <1>9, <1>12, <1>13, <1>14, <1>15, <1>16 DEF AccountOK

LEMMA StartsInside ==
  ASSUME NEW r, GoodRecord(r)
  PROVE  Start(r) \in Int /\ Start(r) <= r.seq /\ (r.index = 0 => Start(r) = r.seq)
BY DEF GoodRecord, Start

LEMMA AccountPush ==
  ASSUME StateTypeOK, AccountOK, ChunksOK, NEW r, GoodRecord(r), PushRecord(r),
         reads' \in 0..MaxReads
  PROVE  AccountOK'
<1>1. CASE UNCHANGED <<writers, bytes, parts>>
  BY <1>1 DEF AccountOK, Lens, Counts, High, Pend, State, Retained
<1>2. CASE Fresh(r) /\ Advance(r, NoPending)
  <2>1. /\ NoPending \in PendingState /\ NoPending.start = 0 /\ NoPending.len = 0
        /\ NoPending.parts = 0 /\ NoPending.chunks = <<>>
    BY DEF NoPending, PendingState
  <2>2. NoPending.len = Retained(NoPending.chunks) /\ NoPending.start <= r.seq
    BY <2>1, RetainedNone DEF GoodRecord
  <2>3. /\ IsFiniteSet(DOMAIN writers) /\ MaxBytes \in Nat /\ MaxParts \in Nat
        /\ \A v \in DOMAIN writers : Lens[v] \in Nat /\ Counts[v] \in Nat
    <3>1. \A v \in DOMAIN writers : Lens[v] = Pend(v).len /\ Counts[v] = Pend(v).parts
      BY DEF Lens, Counts, Pend, State
    <3>. QED BY <3>1, StateFacts, AssemblerAssumption DEF AccountOK, PendingState
  <2>4. bytes \in Nat /\ parts \in Nat /\ bytes <= MaxBytes /\ parts <= MaxParts
    BY <2>3, SumType DEF AccountOK
  <2>5. State(r.writer).pending.len \in Nat /\ State(r.writer).pending.parts \in Nat
    BY StateFacts DEF Pend, PendingState
  <2>6. TakenBytes(r) + NoPending.len <= MaxBytes /\ TakenParts(r) + NoPending.parts <= MaxParts
    BY <2>1, <2>3, <2>4, <2>5 DEF TakenBytes, TakenParts, Taken
  <2>. QED BY <1>2, <2>1, <2>2, <2>6, AdvanceAccount
<1>3. ASSUME Fresh(r), ~r.final, r.index = 0 \/ Continues(r),
             Fits(TakenBytes(r) + Joined(r).len, TakenParts(r) + Joined(r).parts),
             Advance(r, Joined(r))
      PROVE  AccountOK'
  <2>1. Joined(r) \in PendingState /\ Joined(r).start = Start(r)
    BY <1>3, JoinedFacts
  <2>2. Joined(r).start <= r.seq
    BY <2>1, StartsInside
  <2>3. /\ Prior(r) \in Seq(Records) /\ \A j \in DOMAIN Prior(r) : GoodRecord(Prior(r)[j])
        /\ Joined(r).chunks = Prior(r) \o Chunk(r)
        /\ Joined(r).len = Retained(Prior(r)) + r.len
    BY <1>3, PriorFacts DEF OfOneRecord
  <2>4. Joined(r).len = Retained(Joined(r).chunks)
    BY <2>3, RetainedMore
  <2>. QED BY <1>3, <2>1, <2>2, <2>4, AdvanceAccount DEF Fits
<1>. QED BY <1>1, <1>2, <1>3, PushParts

-----------------------------------------------------------------------------
(* The chunks.                                                             *)

\* A record of a durable writer is the part that has its number.
AsSubmitted(r) ==
  r.writer \in Writers => r.seq < Len(Parts[r.writer]) /\ r = Physical(r.writer, r.seq)

LEMMA WithChunk ==
  ASSUME NEW chunks \in Seq(Records), NEW r, GoodRecord(r)
  PROVE  \/ r.len = 0 /\ chunks \o Chunk(r) = chunks
         \/ r.len > 0 /\ chunks \o Chunk(r) = Append(chunks, r)
BY DEF Chunk, GoodRecord

LEMMA MoreOfRecord ==
  ASSUME NEW chunks \in Seq(Records), NEW r, GoodRecord(r),
         OfOneRecord(r.writer, Start(r), r.index, chunks)
  PROVE  OfOneRecord(r.writer, Start(r), r.index + 1, chunks \o Chunk(r))
<1>1. r.index \in Nat /\ r \in Records
  BY DEF GoodRecord
<1>2. ASSUME NEW j \in DOMAIN chunks
      PROVE  /\ GoodRecord(chunks[j]) /\ chunks[j].writer = r.writer
             /\ Start(chunks[j]) = Start(r) /\ chunks[j].index < r.index
             /\ chunks[j].index \in Nat
             /\ j > 1 => chunks[j].index > chunks[j - 1].index
  BY DEF OfOneRecord, GoodRecord
<1>3. CASE chunks \o Chunk(r) = chunks
  BY <1>1, <1>2, <1>3 DEF OfOneRecord
<1>4. CASE chunks \o Chunk(r) = Append(chunks, r)
  <2>. DEFINE n == Len(chunks)
              more == Append(chunks, r)
  <2>1. /\ n \in Nat /\ DOMAIN chunks = 1..n /\ DOMAIN more = 1..(n + 1)
        /\ (\A j \in 1..n : more[j] = chunks[j]) /\ more[n + 1] = r
    BY <1>1, Appended
  <2>. HIDE DEF n, more
  <2>2. ASSUME NEW j \in 1..(n + 1)
        PROVE  /\ GoodRecord(more[j]) /\ more[j].writer = r.writer
               /\ Start(more[j]) = Start(r) /\ more[j].index < r.index + 1
               /\ j > 1 => more[j].index > more[j - 1].index
    <3>1. CASE j \in 1..n
      <4>1. more[j] = chunks[j] /\ (j > 1 => j - 1 \in 1..n /\ more[j - 1] = chunks[j - 1])
        BY <2>1, <3>1
      <4>. QED BY <1>1, <1>2, <2>1, <3>1, <4>1
    <3>2. CASE j = n + 1
      <4>1. more[j] = r /\ (j > 1 => j - 1 \in 1..n /\ more[j - 1] = chunks[j - 1])
        BY <2>1, <3>2
      <4>. QED BY <1>1, <1>2, <2>1, <4>1
    <3>. QED BY <2>1, <3>1, <3>2
  <2>3. chunks \o Chunk(r) = more
    BY <1>4 DEF more
  <2>. QED BY <2>1, <2>2, <2>3 DEF OfOneRecord
<1>. QED BY <1>3, <1>4, WithChunk

LEMMA MoreParts ==
  ASSUME NEW w \in Writers, NEW s \in Nat, s < Len(Parts[w]), NEW start \in Nat, start <= s,
         NEW chunks \in Seq(Records), Range(chunks) = NonemptyParts(w, start, s - 1)
  PROVE  Range(chunks \o Chunk(Physical(w, s))) = NonemptyParts(w, start, s)
<1>. DEFINE r == Physical(w, s)
<1>1. GoodRecord(r) /\ r.len = Parts[w][s + 1].len /\ r \in Records /\ r.len \in Nat
  BY DurableRecord DEF Physical, GoodRecord
<1>2. start..s = start..(s - 1) \cup {s} /\ s \notin start..(s - 1)
  OBVIOUS
<1>3. CASE r.len = 0
  <2>1. {i \in start..s : Parts[w][i + 1].len > 0} = {i \in start..(s - 1) : Parts[w][i + 1].len > 0}
    <3>1. ~(Parts[w][s + 1].len > 0)
      BY <1>1, <1>3
    <3>2. \A i : i \in start..s <=> i \in start..(s - 1) \/ i = s
      BY <1>2
    <3>. QED BY ONLY <3>1, <3>2
  <2>. HIDE DEF r
  <2>2. NonemptyParts(w, start, s) = NonemptyParts(w, start, s - 1)
    BY <2>1, Zenon DEF NonemptyParts
  <2>3. chunks \o Chunk(r) = chunks
    BY <1>1, <1>3, WithChunk
  <2>. QED BY <2>2, <2>3 DEF r
<1>4. CASE r.len > 0
  <2>1. NonemptyParts(w, start, s) = NonemptyParts(w, start, s - 1) \cup {r}
    BY <1>1, <1>2, <1>4 DEF NonemptyParts
  <2>. HIDE DEF r
  <2>2. chunks \o Chunk(r) = Append(chunks, r)
    BY <1>1, <1>4, WithChunk
  <2>3. Range(Append(chunks, r)) = Range(chunks) \cup {r}
    <3>. DEFINE n == Len(chunks)
                more == Append(chunks, r)
    <3>1. /\ n \in Nat /\ DOMAIN chunks = 1..n /\ DOMAIN more = (1..n) \cup {n + 1}
          /\ (\A j \in 1..n : more[j] = chunks[j]) /\ more[n + 1] = r
      BY <1>1, Appended
    <3>. HIDE DEF n, more
    <3>2. Range(more) = Range(chunks) \cup {r}
      BY <3>1 DEF Range
    <3>. QED BY <3>2 DEF more
  <2>. QED BY <2>1, <2>2, <2>3 DEF r
<1>. QED BY <1>1, <1>3, <1>4

LEMMA PriorParts ==
  ASSUME StateTypeOK, ChunksOK, NEW r, GoodRecord(r), AsSubmitted(r), r.writer \in Writers,
         r.index = 0 \/ Continues(r)
  PROVE  FirstParts(r.writer, Start(r), r.index, Prior(r))
<1>. DEFINE w == r.writer
<1>1. /\ r.seq \in Nat /\ r.seq < Len(Parts[w]) /\ r.index = Parts[w][r.seq + 1].index
      /\ Len(Parts[w]) \in Nat /\ r.index \in Nat
  BY PartFacts DEF GoodRecord, AsSubmitted, Physical
<1>2. CASE r.index = 0
  <2>1. Prior(r) = <<>> /\ Start(r) = r.seq
    BY <1>1, <1>2 DEF Prior, Start
  <2>2. r.seq \in Starts(w) /\ r.seq + 0 <= Len(Parts[w])
    <3>1. PICK s \in Nat : s = r.seq
      BY <1>1
    <3>2. PICK n \in Nat : n = Len(Parts[w]) /\ s < n
      BY <1>1, <3>1
    <3>3. s \in 0..(n - 1) /\ s + 0 <= n
      BY <3>2
    <3>4. Parts[w][s + 1].index = 0
      BY <1>1, <1>2, <3>1
    <3>. QED BY <3>1, <3>2, <3>3, <3>4 DEF Starts
  <2>3. r.seq..(r.seq + 0 - 1) = {}
    BY <1>1
  <2>4. Range(<<>>) = {} /\ NonemptyParts(w, r.seq, r.seq + 0 - 1) = {}
    BY <2>3 DEF Range, NonemptyParts
  <2>. QED BY <1>2, <2>1, <2>2, <2>3, <2>4 DEF FirstParts
<1>3. CASE r.index # 0
  <2>1. Continues(r) /\ Pend(w).next = r.index /\ Pend(w).start = Start(r)
    BY <1>3 DEF Continues, Pend
  <2>2. w \in DOMAIN writers /\ Pend(w).next > 0
    <3>1. w \notin DOMAIN writers => Pend(w).next = 0
      BY DEF Pend, State, NewWriter, NoPending
    <3>. QED BY <1>1, <1>3, <2>1, <3>1
  <2>3. FirstParts(w, Pend(w).start, Pend(w).next, Pend(w).chunks)
    BY <2>2 DEF ChunksOK
  <2>. QED BY <1>3, <2>1, <2>3 DEF Prior
<1>. QED BY <1>2, <1>3

\* Part r of a record of a durable writer, and what was retained before it.
LEMMA NextPart ==
  ASSUME StateTypeOK, ChunksOK, NEW r, GoodRecord(r), AsSubmitted(r), r.writer \in Writers,
         r.index = 0 \/ Continues(r), Prior(r) \in Seq(Records)
  PROVE  /\ Start(r) \in Starts(r.writer) /\ Start(r) + r.index = r.seq
         /\ Range(Prior(r) \o Chunk(r)) = NonemptyParts(r.writer, Start(r), r.seq)
         /\ \A e \in Start(r)..(r.seq - 1) : ~Parts[r.writer][e + 1].final
<1>. DEFINE w == r.writer
<1>1. r.seq \in Nat /\ r.index \in Nat /\ r.seq < Len(Parts[w]) /\ r = Physical(w, r.seq)
  BY DEF GoodRecord, AsSubmitted
<1>2. FirstParts(w, Start(r), r.index, Prior(r))
  BY PriorParts
<1>3. /\ Start(r) \in Starts(w)
      /\ \A e \in Start(r)..(Start(r) + r.index - 1) : ~Parts[w][e + 1].final
      /\ Range(Prior(r)) = NonemptyParts(w, Start(r), Start(r) + r.index - 1)
  BY <1>2 DEF FirstParts
<1>4. Start(r) \in Nat /\ Start(r) + r.index = r.seq /\ Start(r) <= r.seq
  BY <1>1, <1>3 DEF Start, Starts
<1>5. PICK start \in Nat, n \in Nat, chunks \in Seq(Records) :
        start = Start(r) /\ n = r.seq /\ chunks = Prior(r)
  BY <1>1, <1>4
<1>6. Range(chunks) = NonemptyParts(w, start, n - 1)
  <2>1. PICK last : last = Start(r) + r.index - 1
    OBVIOUS
  <2>2. last = n - 1
    BY <1>1, <1>4, <1>5, <2>1
  <2>3. Range(Prior(r)) = NonemptyParts(w, Start(r), last)
    BY <1>3, <2>1
  <2>. QED BY <1>5, <2>2, <2>3
<1>7. Range(chunks \o Chunk(Physical(w, n))) = NonemptyParts(w, start, n)
  BY <1>1, <1>4, <1>5, <1>6, MoreParts
<1>8. Range(Prior(r) \o Chunk(r)) = NonemptyParts(w, Start(r), r.seq)
  <2>1. Physical(w, n) = r
    BY ONLY <1>1, <1>5
  <2>2. Range(chunks \o Chunk(r)) = NonemptyParts(w, start, n)
    BY ONLY <1>7, <2>1
  <2>. QED BY ONLY <1>5, <2>2, Zenon
<1>9. \A e \in Start(r)..(r.seq - 1) : ~Parts[w][e + 1].final
  <2>1. Start(r) + r.index - 1 = r.seq - 1
    BY <1>1, <1>4
  <2>. QED BY <1>3, <2>1
<1>. QED BY <1>3, <1>4, <1>8, <1>9

LEMMA ChunksPush ==
  ASSUME StateTypeOK, AccountOK, ChunksOK, NEW r, GoodRecord(r), AsSubmitted(r), PushRecord(r)
  PROVE  ChunksOK'
<1>1. CASE UNCHANGED writers
  BY <1>1 DEF ChunksOK, Pend, State, OfOneRecord, FirstParts
<1>2. ASSUME NEW p \in PendingState, Moved(r, p), OfOneRecord(r.writer, p.start, p.next, p.chunks),
             r.writer \in Writers /\ p.next > 0 => FirstParts(r.writer, p.start, p.next, p.chunks)
      PROVE  ChunksOK'
  <2>1. ASSUME NEW w \in DOMAIN writers'
        PROVE  \E q : /\ q = Pend(w)' /\ OfOneRecord(w, q.start, q.next, q.chunks)
                      /\ w \in Writers /\ q.next > 0 => FirstParts(w, q.start, q.next, q.chunks)
    <3>1. CASE w = r.writer
      BY <1>2, <3>1 DEF Moved
    <3>2. CASE w # r.writer
      <4>1. w \in DOMAIN writers /\ Pend(w)' = Pend(w)
        BY <1>2, <2>1, <3>2 DEF Moved, Pend
      <4>. QED BY <4>1 DEF ChunksOK
    <3>. QED BY <3>1, <3>2
  <2>. QED BY <2>1 DEF ChunksOK, OfOneRecord, FirstParts
<1>3. CASE Fresh(r) /\ Advance(r, NoPending)
  <2>1. NoPending \in PendingState /\ NoPending.next = 0 /\ NoPending.chunks = <<>>
    BY DEF NoPending, PendingState
  <2>2. OfOneRecord(r.writer, NoPending.start, NoPending.next, NoPending.chunks)
    BY <2>1 DEF OfOneRecord
  <2>. QED BY <1>2, <1>3, <2>1, <2>2, Advanced
<1>4. ASSUME Fresh(r), ~r.final, r.index = 0 \/ Continues(r), Advance(r, Joined(r))
      PROVE  ChunksOK'
  <2>1. /\ Joined(r) \in PendingState /\ Joined(r).next = r.index + 1
        /\ Joined(r).start = Start(r)
    BY <1>4, JoinedFacts
  <2>2. /\ Prior(r) \in Seq(Records) /\ OfOneRecord(r.writer, Start(r), r.index, Prior(r))
        /\ Joined(r).chunks = Prior(r) \o Chunk(r)
    BY <1>4, PriorFacts
  <2>3. OfOneRecord(r.writer, Start(r), r.index + 1, Joined(r).chunks)
    BY <2>2, MoreOfRecord
  <2>4. ASSUME r.writer \in Writers
        PROVE  FirstParts(r.writer, Start(r), r.index + 1, Joined(r).chunks)
    <3>1. /\ Start(r) \in Starts(r.writer) /\ Start(r) + r.index = r.seq
          /\ Range(Joined(r).chunks) = NonemptyParts(r.writer, Start(r), r.seq)
          /\ \A e \in Start(r)..(r.seq - 1) : ~Parts[r.writer][e + 1].final
      BY <1>4, <2>2, <2>4, NextPart
    <3>2. /\ r.seq \in Nat /\ r.index \in Nat /\ r.seq < Len(Parts[r.writer])
          /\ Len(Parts[r.writer]) \in Nat /\ ~Parts[r.writer][r.seq + 1].final
      BY <1>4, <2>4, PartFacts DEF GoodRecord, AsSubmitted, Physical
    <3>3. Start(r) \in Nat
      BY <3>1 DEF Starts
    <3>4. /\ Start(r) + (r.index + 1) <= Len(Parts[r.writer])
          /\ Start(r) + (r.index + 1) - 1 = r.seq
      BY <3>1, <3>2, <3>3
    <3>5. \A e \in Start(r)..r.seq : e = r.seq \/ e \in Start(r)..(r.seq - 1)
      BY <3>2, <3>3
    <3>6. \A e \in Start(r)..r.seq : ~Parts[r.writer][e + 1].final
      BY <3>1, <3>2, <3>5
    <3>. QED BY <3>1, <3>4, <3>6 DEF FirstParts
  <2>. QED BY <1>2, <1>4, <2>1, <2>3, <2>4, Advanced
<1>. QED BY <1>1, <1>3, <1>4, PushParts

\* What a returned logical record must be.
WholeRecord(l) ==
  /\ l.writer \in Writers =>
       /\ l.start \in Starts(l.writer)
       /\ Range(l.chunks) = NonemptyParts(l.writer, l.start, End(l.writer, l.start))
  /\ \A j \in DOMAIN l.chunks :
       /\ l.chunks[j].writer = l.writer /\ Start(l.chunks[j]) = l.start
       /\ j > 1 => l.chunks[j].index > l.chunks[j - 1].index

LEMMA WholeUnchanged == WholeRecords /\ logical' = logical => WholeRecords'
<1>. SUFFICES ASSUME WholeRecords, logical' = logical PROVE WholeRecords'
  OBVIOUS
<1>1. \A i \in DOMAIN logical : WholeRecord(logical[i])
  BY DEF WholeRecords, WholeRecord
<1>2. \A i \in DOMAIN logical' : WholeRecord(logical'[i])
  BY <1>1
<1>. QED BY <1>2 DEF WholeRecord, WholeRecords, Starts, End, NonemptyParts

LEMMA WholePush ==
  ASSUME StateTypeOK, AccountOK, ChunksOK, WholeRecords,
         NEW r, GoodRecord(r), AsSubmitted(r), PushRecord(r)
  PROVE  WholeRecords'
<1>1. \A i \in DOMAIN logical : WholeRecord(logical[i])
  BY DEF WholeRecords, WholeRecord
<1>2. CASE logical' = logical
  BY <1>2, WholeUnchanged
<1>3. ASSUME Fresh(r), r.final, r.index = 0 \/ Continues(r), Return(r, Prior(r) \o Chunk(r))
      PROVE  WholeRecords'
  <2>. DEFINE chunks == Prior(r) \o Chunk(r)
              l == [writer |-> r.writer, start |-> Start(r), chunks |-> chunks]
  <2>1. Prior(r) \in Seq(Records) /\ OfOneRecord(r.writer, Start(r), r.index, Prior(r))
    BY <1>3, PriorFacts
  <2>2. OfOneRecord(r.writer, Start(r), r.index + 1, chunks)
    BY <2>1, MoreOfRecord
  <2>3. ASSUME r.writer \in Writers
        PROVE  /\ Start(r) \in Starts(r.writer)
               /\ Range(chunks) = NonemptyParts(r.writer, Start(r), End(r.writer, Start(r)))
    <3>1. /\ Start(r) \in Starts(r.writer) /\ Start(r) + r.index = r.seq
          /\ Range(chunks) = NonemptyParts(r.writer, Start(r), r.seq)
          /\ \A e \in Start(r)..(r.seq - 1) : ~Parts[r.writer][e + 1].final
      BY <1>3, <2>1, <2>3, NextPart
    <3>2. /\ r.seq \in Nat /\ r.index \in Nat /\ r.seq < Len(Parts[r.writer])
          /\ Len(Parts[r.writer]) \in Nat /\ Parts[r.writer][r.seq + 1].final
      BY <1>3, <2>3, PartFacts DEF GoodRecord, AsSubmitted, Physical
    <3>3. PICK e : e = End(r.writer, Start(r))
      OBVIOUS
    <3>4. /\ e \in Nat /\ Start(r) <= e /\ Parts[r.writer][e + 1].final
          /\ \A i \in Start(r)..(Len(Parts[r.writer]) - 1) :
               Parts[r.writer][i + 1].final => e <= i
      BY <2>3, <3>1, <3>3, EndFacts
    <3>5. Start(r) \in Nat /\ r.seq \in Start(r)..(Len(Parts[r.writer]) - 1)
      BY <3>1, <3>2 DEF Starts
    <3>6. e <= r.seq
      BY <3>2, <3>4, <3>5
    <3>7. ~(e < r.seq)
      <4>1. e < r.seq => e \in Start(r)..(r.seq - 1)
        BY <3>2, <3>4, <3>5
      <4>. QED BY <3>1, <3>4, <4>1
    <3>8. e = r.seq
      BY <3>2, <3>4, <3>6, <3>7
    <3>. QED BY <3>1, <3>3, <3>8
  <2>4. WholeRecord(l)
    <3>. HIDE DEF chunks
    <3>. QED BY <2>2, <2>3 DEF WholeRecord, OfOneRecord
  <2>5. logical' = Append(logical, l) /\ l \in LogicalRecord /\ logical \in Seq(LogicalRecord)
    <3>1. chunks \in Seq(Records) /\ r.writer \in Identities /\ Start(r) \in Int
      BY <2>1, ChunkType, StartsInside DEF GoodRecord
    <3>. QED BY <1>3, <3>1 DEF Return, LogicalRecord, StateTypeOK
  <2>. HIDE DEF l
  <2>6. \A i \in DOMAIN logical' : logical'[i] = l \/ (i \in DOMAIN logical /\ logical'[i] = logical[i])
    BY <2>5, Appended
  <2>7. \A i \in DOMAIN logical' : WholeRecord(logical'[i])
    BY <1>1, <2>4, <2>6
  <2>. QED BY <2>7 DEF WholeRecord, WholeRecords, Starts, End, NonemptyParts
<1>. QED BY <1>2, <1>3, PushParts

-----------------------------------------------------------------------------

PartsInv == StateTypeOK /\ AccountOK /\ ChunksOK /\ WholeRecords

LEMMA PartsInvInit == Init => PartsInv
<1>. SUFFICES ASSUME Init PROVE PartsInv
  OBVIOUS
<1>1. /\ DOMAIN writers = {} /\ bytes = 0 /\ parts = 0 /\ reads = 0 /\ DOMAIN logical = {}
  BY DEF Init
<1>2. StateTypeOK
  BY RecordInvInit DEF RecordInv
<1>3. IsFiniteSet({}) /\ Cardinality({}) = 0
  BY FS_EmptySet
<1>4. SumOf(Lens, DOMAIN writers) = 0 /\ SumOf(Counts, DOMAIN writers) = 0
  BY <1>1, SumEmpty
<1>5. AccountOK
  BY <1>1, <1>3, <1>4, AssemblerAssumption DEF AccountOK
<1>. QED BY <1>1, <1>2, <1>5 DEF PartsInv, ChunksOK, WholeRecords

LEMMA PartsInvStep == PartsInv /\ [Next]_vars => PartsInv'
<1>. SUFFICES ASSUME PartsInv, [Next]_vars PROVE PartsInv'
  OBVIOUS
<1>1. StateTypeOK /\ AccountOK /\ ChunksOK /\ WholeRecords /\ StateTypeOK'
  BY StateTypeStep DEF PartsInv
<1>2. ASSUME NEW r, GoodRecord(r), AsSubmitted(r), PushRecord(r), reads < MaxReads, reads' = reads + 1
      PROVE  PartsInv'
  <2>1. reads' \in 0..MaxReads
    BY <1>1, <1>2, AssemblerAssumption DEF AccountOK
  <2>. QED BY <1>1, <1>2, <2>1, AccountPush, ChunksPush, WholePush DEF PartsInv
<1>3. CASE UNCHANGED vars
  <2>1. UNCHANGED <<reads, writers, bytes, parts, logical>>
    BY <1>3 DEF vars, streamVars
  <2>2. AccountOK'
    BY <1>1, <2>1 DEF AccountOK, Lens, Counts, High, Pend, State, Retained
  <2>3. ChunksOK'
    BY <1>1, <2>1 DEF ChunksOK, Pend, State, OfOneRecord, FirstParts
  <2>4. WholeRecords'
    BY <1>1, <2>1, WholeUnchanged
  <2>. QED BY <1>1, <2>2, <2>3, <2>4 DEF PartsInv
<1>4. CASE ReadDurable
  <2>. PICK w \in Writers : \E s \in 0..top[w] :
         /\ reads < MaxReads /\ s < Len(Parts[w]) /\ PushRecord(Physical(w, s))
         /\ reads' = reads + 1
    BY <1>4 DEF ReadDurable
  <2>1. PICK s \in 0..top[w] :
          /\ reads < MaxReads /\ s < Len(Parts[w]) /\ PushRecord(Physical(w, s))
          /\ reads' = reads + 1
    OBVIOUS
  <2>2. s \in Nat
    BY <1>1 DEF StateTypeOK
  <2>3. /\ GoodRecord(Physical(w, s)) /\ Physical(w, s).writer = w
        /\ Physical(w, s).seq = s
    BY <2>1, <2>2, DurableRecord
  <2>4. AsSubmitted(Physical(w, s))
    BY <2>1, <2>3 DEF AsSubmitted
  <2>. QED BY <1>2, <2>1, <2>3, <2>4
<1>5. CASE ReadRaw
  <2>1. PICK r \in RawRecords : reads < MaxReads /\ PushRecord(r) /\ reads' = reads + 1
    BY <1>5 DEF ReadRaw
  <2>2. GoodRecord(r) /\ AsSubmitted(r)
    BY RawRecord DEF AsSubmitted
  <2>. QED BY <1>2, <2>1, <2>2
<1>. QED BY <1>3, <1>4, <1>5 DEF Next, ReadEnds

\* The sums that TotalsExact names.
LEMMA TotalBytes ==
  ASSUME IsFiniteSet(DOMAIN writers)
  PROVE  MapThenSumSet(LAMBDA w : writers[w].pending.len, DOMAIN writers)
           = SumOf(Lens, DOMAIN writers)
<1>. DEFINE D == DOMAIN writers
            c(T) == CHOOSE w \in T : TRUE
            IsSum(f) == f = [T \in SUBSET D |->
                               IF T = {} THEN 0 ELSE writers[c(T)].pending.len + f[T \ {c(T)}]]
<1>1. MapThenSumSet(LAMBDA w : writers[w].pending.len, D) = (CHOOSE f : IsSum(f))[D]
  BY Zenon DEF MapThenSumSet, MapThenFoldSet
<1>2. ASSUME NEW f PROVE IsSum(f) <=> Sums(Lens, D, f)
  <2>. DEFINE A(T) == IF T = {} THEN 0 ELSE writers[c(T)].pending.len + f[T \ {c(T)}]
              B(T) == IF T = {} THEN 0 ELSE Lens[Chosen(T)] + f[T \ {Chosen(T)}]
  <2>1. ASSUME NEW T \in SUBSET D PROVE A(T) = B(T)
    <3>1. c(T) = Chosen(T)
      BY DEF Chosen
    <3>2. T # {} => writers[c(T)].pending.len = Lens[Chosen(T)]
      BY DEF Lens, Chosen
    <3>. HIDE DEF c
    <3>. QED BY <3>1, <3>2
  <2>2. IsSum(f) <=> f = [T \in SUBSET D |-> A(T)]
    OBVIOUS
  <2>3. Sums(Lens, D, f) <=> f = [T \in SUBSET D |-> B(T)]
    BY DEF Sums
  <2>. HIDE DEF A, B, IsSum
  <2>. QED BY <2>1, <2>2, <2>3
<1>3. PICK f : f = CHOOSE h : IsSum(h)
  OBVIOUS
<1>4. Sums(Lens, D, f)
  <2>1. PICK k : Sums(Lens, D, k)
    BY SumsExist
  <2>. HIDE DEF IsSum
  <2>2. IsSum(k)
    BY <1>2, <2>1
  <2>. QED BY <1>2, <1>3, <2>2
<1>. QED
  <2>. HIDE DEF IsSum
  <2>. QED BY <1>1, <1>3, <1>4, SumIs

LEMMA TotalParts ==
  ASSUME IsFiniteSet(DOMAIN writers)
  PROVE  MapThenSumSet(LAMBDA w : writers[w].pending.parts, DOMAIN writers)
           = SumOf(Counts, DOMAIN writers)
<1>. DEFINE D == DOMAIN writers
            c(T) == CHOOSE w \in T : TRUE
            IsSum(f) == f = [T \in SUBSET D |->
                               IF T = {} THEN 0 ELSE writers[c(T)].pending.parts + f[T \ {c(T)}]]
<1>1. MapThenSumSet(LAMBDA w : writers[w].pending.parts, D) = (CHOOSE f : IsSum(f))[D]
  BY Zenon DEF MapThenSumSet, MapThenFoldSet
<1>2. ASSUME NEW f PROVE IsSum(f) <=> Sums(Counts, D, f)
  <2>. DEFINE A(T) == IF T = {} THEN 0 ELSE writers[c(T)].pending.parts + f[T \ {c(T)}]
              B(T) == IF T = {} THEN 0 ELSE Counts[Chosen(T)] + f[T \ {Chosen(T)}]
  <2>1. ASSUME NEW T \in SUBSET D PROVE A(T) = B(T)
    <3>1. c(T) = Chosen(T)
      BY DEF Chosen
    <3>2. T # {} => writers[c(T)].pending.parts = Counts[Chosen(T)]
      BY DEF Counts, Chosen
    <3>. HIDE DEF c
    <3>. QED BY <3>1, <3>2
  <2>2. IsSum(f) <=> f = [T \in SUBSET D |-> A(T)]
    OBVIOUS
  <2>3. Sums(Counts, D, f) <=> f = [T \in SUBSET D |-> B(T)]
    BY DEF Sums
  <2>. HIDE DEF A, B, IsSum
  <2>. QED BY <2>1, <2>2, <2>3
<1>3. PICK f : f = CHOOSE h : IsSum(h)
  OBVIOUS
<1>4. Sums(Counts, D, f)
  <2>1. PICK k : Sums(Counts, D, k)
    BY SumsExist
  <2>. HIDE DEF IsSum
  <2>2. IsSum(k)
    BY <1>2, <2>1
  <2>. QED BY <1>2, <1>3, <2>2
<1>. QED
  <2>. HIDE DEF IsSum
  <2>. QED BY <1>1, <1>3, <1>4, SumIs

LEMMA TotalChunks ==
  ASSUME NEW chunks \in Seq(Records)
  PROVE  FoldFunction(LAMBDA r, sum : r.len + sum, 0, chunks) = Retained(chunks)
<1>. DEFINE D == DOMAIN chunks
            g == [i \in D |-> chunks[i].len]
            c(T) == CHOOSE i \in T : TRUE
            IsSum(f) == f = [T \in SUBSET D |->
                               IF T = {} THEN 0 ELSE chunks[c(T)].len + f[T \ {c(T)}]]
<1>1. FoldFunction(LAMBDA r, sum : r.len + sum, 0, chunks) = (CHOOSE f : IsSum(f))[D]
  BY Zenon DEF FoldFunction, FoldFunctionOnSet, MapThenFoldSet
<1>2. ASSUME NEW f PROVE IsSum(f) <=> Sums(g, D, f)
  <2>. DEFINE A(T) == IF T = {} THEN 0 ELSE chunks[c(T)].len + f[T \ {c(T)}]
              B(T) == IF T = {} THEN 0 ELSE g[Chosen(T)] + f[T \ {Chosen(T)}]
  <2>1. ASSUME NEW T \in SUBSET D PROVE A(T) = B(T)
    <3>1. c(T) = Chosen(T)
      BY DEF Chosen
    <3>2. T # {} => chunks[c(T)].len = g[Chosen(T)]
      BY DEF Chosen
    <3>. HIDE DEF c
    <3>. QED BY <3>1, <3>2
  <2>2. IsSum(f) <=> f = [T \in SUBSET D |-> A(T)]
    OBVIOUS
  <2>3. Sums(g, D, f) <=> f = [T \in SUBSET D |-> B(T)]
    BY DEF Sums
  <2>. HIDE DEF A, B, IsSum
  <2>. QED BY <2>1, <2>2, <2>3
<1>3. IsFiniteSet(D)
  BY FS_Interval
<1>4. PICK f : f = CHOOSE h : IsSum(h)
  OBVIOUS
<1>. HIDE DEF IsSum, D, g
<1>5. Sums(g, D, f)
  <2>1. PICK k : Sums(g, D, k)
    BY <1>3, SumsExist
  <2>2. IsSum(k)
    BY <1>2, <2>1
  <2>. QED BY <1>2, <1>4, <2>2
<1>6. FoldFunction(LAMBDA r, sum : r.len + sum, 0, chunks) = SumOf(g, D)
  BY <1>1, <1>3, <1>4, <1>5, SumIs
<1>. QED BY <1>6 DEF Retained, D, g

LEMMA PartsInvTotals == PartsInv => TotalsExact
<1>. SUFFICES ASSUME PartsInv PROVE TotalsExact
  OBVIOUS
<1>1. StateTypeOK /\ AccountOK
  BY DEF PartsInv
<1>2. \A w \in DOMAIN writers : Lens[w] \in Nat /\ Counts[w] \in Nat
  <2>1. \A w \in DOMAIN writers : Lens[w] = Pend(w).len /\ Counts[w] = Pend(w).parts
    BY DEF Lens, Counts, Pend, State
  <2>. QED BY <1>1, <2>1, StateFacts DEF PendingState
<1>3. bytes \in Nat /\ parts \in Nat
  BY <1>1, <1>2, SumType DEF AccountOK
<1>4. \A i \in DOMAIN logical : logical[i].writer \in Identities
  BY <1>1, LogicalTypes
<1>5. \A w \in DOMAIN writers :
        writers[w].highest \in Nat /\ writers[w].pending.start <= writers[w].highest
  BY <1>1 DEF AccountOK, High, Pend, State
<1>6. TypeOK
  BY <1>1, <1>3, <1>4, <1>5, AssemblerAssumption DEF TypeOK, AccountOK, StateTypeOK
<1>7. ASSUME NEW w \in DOMAIN writers
      PROVE  writers[w].pending.len =
               FoldFunction(LAMBDA r, sum : r.len + sum, 0, writers[w].pending.chunks)
  <2>1. writers[w].pending = Pend(w)
    BY DEF Pend, State
  <2>2. PICK chunks \in Seq(Records) : chunks = Pend(w).chunks /\ Pend(w).len = Retained(chunks)
    BY <1>1, StateFacts DEF PendingState, AccountOK
  <2>3. FoldFunction(LAMBDA r, sum : r.len + sum, 0, chunks) = Retained(chunks)
    BY TotalChunks
  <2>. QED BY <2>1, <2>2, <2>3
<1>8. /\ bytes = MapThenSumSet(LAMBDA w : writers[w].pending.len, DOMAIN writers)
      /\ parts = MapThenSumSet(LAMBDA w : writers[w].pending.parts, DOMAIN writers)
  BY <1>1, TotalBytes, TotalParts DEF AccountOK
<1>. QED BY <1>6, <1>7, <1>8, Zenon DEF TotalsExact

(* Whatever is dropped, refused, resent or completed, the totals that the  *)
(* limits are checked against are the sums over all writers of what is     *)
(* really retained, and stay within the limits, for every stream and every *)
(* limit (PendingTotals of LogicalRecordAssembler).                        *)
THEOREM TotalsStayExact == Spec => []TotalsExact
<1>1. Init => PartsInv
  BY PartsInvInit
<1>2. PartsInv /\ [Next]_vars => PartsInv'
  BY PartsInvStep
<1>3. PartsInv => TotalsExact
  BY PartsInvTotals
<1>. QED BY <1>1, <1>2, <1>3, PTL DEF Spec

(* No record is ever made of fragments: what is returned are all the parts *)
(* that hold something of one logical record, in their order, wherever the *)
(* read starts and whatever other writers store (push_record and           *)
(* take_pending).                                                          *)
THEOREM OnlyWholeRecords == Spec => []WholeRecords
<1>1. Init => PartsInv
  BY PartsInvInit
<1>2. PartsInv /\ [Next]_vars => PartsInv'
  BY PartsInvStep
<1>3. PartsInv => WholeRecords
  BY DEF PartsInv
<1>. QED BY <1>1, <1>2, <1>3, PTL DEF Spec

================================================================================
