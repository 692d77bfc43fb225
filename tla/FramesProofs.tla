---------------------------- MODULE FramesProofs ----------------------------
(***************************************************************************)
(* What is read is what was sent, for every size of the fields, limits and *)
(* records: splitting a logical record loses nothing, and a frame is       *)
(* exactly what its message says.                                          *)
(***************************************************************************)
EXTENDS WireProofs

-----------------------------------------------------------------------------
(* Splitting a logical record.                                           *)

LEMMA Bounds == MaxRecord \in Nat \ {0} /\ FinalBit \in Nat \ {0}
BY FramesAssumption

\* Multiples of MaxRecord, and what is between two of them.
LEMMA Division ==
  ASSUME NEW a \in Nat
  PROVE  /\ a \div MaxRecord \in Nat
         /\ (a \div MaxRecord) * MaxRecord \in Nat
         /\ (a \div MaxRecord) * MaxRecord <= a
         /\ a < (a \div MaxRecord) * MaxRecord + MaxRecord
<1>1. a = MaxRecord * (a \div MaxRecord) + (a % MaxRecord)
      /\ a % MaxRecord \in 0..(MaxRecord - 1) /\ a \div MaxRecord \in Nat
  BY Bounds
<1>. QED BY <1>1, Bounds

LEMMA Multiples ==
  ASSUME NEW i \in Nat, NEW j \in Nat
  PROVE  /\ i * MaxRecord \in Nat /\ (i + 1) * MaxRecord = i * MaxRecord + MaxRecord
         /\ i < j => (i + 1) * MaxRecord <= j * MaxRecord
         /\ i * MaxRecord < j * MaxRecord => i < j
<1>1. i * MaxRecord \in Nat /\ (i + 1) * MaxRecord = i * MaxRecord + MaxRecord
  BY Bounds
<1>2. ASSUME i < j PROVE (i + 1) * MaxRecord <= j * MaxRecord
  <2>1. PICK k \in Nat : j = i + 1 + k
    <3>1. j - i - 1 \in Nat /\ j = i + 1 + (j - i - 1)
      BY <1>2
    <3>. QED BY <3>1
  <2>2. j * MaxRecord = (i + 1) * MaxRecord + k * MaxRecord /\ k * MaxRecord \in Nat
    BY <2>1, Bounds
  <2>. QED BY <1>1, <2>2, Bounds
<1>3. ASSUME i * MaxRecord < j * MaxRecord, ~(i < j) PROVE FALSE
  <2>1. PICK k \in Nat : i = j + k
    <3>1. i - j \in Nat /\ i = j + (i - j)
      BY <1>3
    <3>. QED BY <3>1
  <2>2. i * MaxRecord = j * MaxRecord + k * MaxRecord /\ k * MaxRecord \in Nat
        /\ j * MaxRecord \in Nat
    BY <2>1, Bounds
  <2>. QED BY <1>3, <2>2
<1>. QED BY <1>1, <1>2, <1>3

\* The last part begins within the record and is the last one that is needed.
LEMMA Parts ==
  ASSUME NEW S, NEW data \in Seq(S)
  PROVE  LET n == PartCount(data)
         IN /\ n \in Nat \ {0}
            /\ (n - 1) * MaxRecord \in Nat
            /\ (n - 1) * MaxRecord <= Len(data)
            /\ Len(data) <= (n - 1) * MaxRecord + MaxRecord
<1>1. Len(data) \in Nat
  OBVIOUS
<1>2. CASE data = <<>>
  <2>1. PartCount(data) = 1 /\ Len(data) = 0
    BY <1>2 DEF PartCount
  <2>. QED BY <2>1, Bounds
<1>3. CASE data # <<>>
  <2>. DEFINE a == Len(data) + MaxRecord - 1
              n == a \div MaxRecord
  <2>1. a \in Nat /\ Len(data) >= 1 /\ a >= MaxRecord
    BY <1>1, <1>3, Bounds
  <2>2. PartCount(data) = n
    BY <1>3 DEF PartCount
  <2>3. n \in Nat /\ n * MaxRecord \in Nat /\ n * MaxRecord <= a /\ a < n * MaxRecord + MaxRecord
    BY <2>1, Division
  <2>. HIDE DEF n
  <2>4. n # 0
    BY <2>1, <2>3, Bounds
  <2>5. n - 1 \in Nat /\ (n - 1) * MaxRecord \in Nat
        /\ n * MaxRecord = (n - 1) * MaxRecord + MaxRecord
    <3>1. n - 1 \in Nat /\ n = (n - 1) + 1
      BY <2>3, <2>4
    <3>. QED BY <3>1, Multiples
  <2>. QED BY <1>1, <2>2, <2>3, <2>4, <2>5, Bounds
<1>. QED BY <1>2, <1>3

LEMMA Remainders ==
  ASSUME NEW m \in Nat \ {0}, NEW i \in 0..(m - 1)
  PROVE  i % m = i /\ i \div m = 0 /\ (m + i) % m = i /\ (m + i) \div m = 1
OBVIOUS

LEMMA SubSeqFacts ==
  ASSUME NEW S, NEW s \in Seq(S), NEW a \in Nat, NEW m \in Nat, a + m <= Len(s)
  PROVE  /\ Len(SubSeq(s, a + 1, a + m)) = m
         /\ \A k \in 1..m : SubSeq(s, a + 1, a + m)[k] = s[a + k]
<1>1. SubSeq(s, a + 1, a + m) = [k \in 1..(1 + (a + m) - (a + 1)) |-> s[k + (a + 1) - 1]]
  OBVIOUS
<1>2. 1 + (a + m) - (a + 1) = m /\ \A k \in 1..m : k + (a + 1) - 1 = a + k
  OBVIOUS
<1>3. SubSeq(s, a + 1, a + m) = [k \in 1..m |-> s[a + k]]
  BY <1>1, <1>2
<1>. QED BY <1>3

LEMMA HeaderFacts ==
  ASSUME NEW index \in 0..MaxIndex, NEW final \in BOOLEAN
  PROVE  PartIndex(PartRaw(index, final)) = index /\ IsFinal(PartRaw(index, final)) = final
<1>1. index \in 0..(FinalBit - 1) /\ index \in Nat
  BY Bounds DEF MaxIndex
<1>2. /\ index % FinalBit = index /\ index \div FinalBit = 0
      /\ (FinalBit + index) % FinalBit = index /\ (FinalBit + index) \div FinalBit = 1
  <2>. DEFINE m == FinalBit
  <2>1. m \in Nat \ {0} /\ index \in 0..(m - 1)
    BY <1>1, Bounds
  <2>. HIDE DEF m
  <2>2. index % m = index /\ index \div m = 0 /\ (m + index) % m = index /\ (m + index) \div m = 1
    BY <2>1, Remainders
  <2>. QED BY <2>2 DEF m
<1>3. CASE final
  <2>1. PartRaw(index, final) = FinalBit + index
    BY <1>3 DEF PartRaw
  <2>2. PartIndex(FinalBit + index) = index /\ IsFinal(FinalBit + index) = TRUE
    BY <1>2 DEF PartIndex, IsFinal
  <2>. QED BY <1>3, <2>1, <2>2
<1>4. CASE ~final
  <2>1. PartRaw(index, final) = index
    BY <1>4 DEF PartRaw
  <2>2. PartIndex(index) = index /\ IsFinal(index) = FALSE
    BY <1>2 DEF PartIndex, IsFinal
  <2>. QED BY <1>4, <2>1, <2>2
<1>. QED BY <1>3, <1>4

LEMMA SliceFacts ==
  ASSUME NEW S, NEW data \in Seq(S), NEW i \in 1..PartCount(data)
  PROVE  LET n == PartCount(data)
             start == (i - 1) * MaxRecord
             part == Slice(data, i - 1)
         IN /\ start \in Nat /\ start <= Len(data)
            /\ Len(part) = (IF i < n THEN MaxRecord ELSE Len(data) - start)
            /\ Len(part) \in 0..MaxRecord /\ start + Len(part) <= Len(data)
            /\ \A k \in 1..Len(part) : part[k] = data[start + k]
<1>. DEFINE n == PartCount(data)
            start == (i - 1) * MaxRecord
            end == IF i * MaxRecord < Len(data) THEN i * MaxRecord ELSE Len(data)
<1>1. /\ n \in Nat \ {0} /\ Len(data) \in Nat
      /\ (n - 1) * MaxRecord \in Nat /\ (n - 1) * MaxRecord <= Len(data)
      /\ Len(data) <= (n - 1) * MaxRecord + MaxRecord
  BY Parts
<1>. HIDE DEF n
<1>2. i - 1 \in Nat /\ n - 1 \in Nat /\ i \in Nat /\ i <= n /\ (i - 1) + 1 = i
  BY <1>1 DEF n
<1>3. start \in Nat /\ i * MaxRecord = start + MaxRecord
  BY <1>2, Multiples
<1>4. CASE i < n
  <2>1. i - 1 < n - 1
    BY <1>1, <1>2, <1>4
  <2>2. i * MaxRecord <= (n - 1) * MaxRecord
    BY <1>2, <2>1, Multiples
  <2>3. start <= Len(data) /\ end - start = MaxRecord /\ end <= Len(data)
    BY <1>1, <1>3, <2>2, Bounds
  <2>. QED
    <3>1. Slice(data, i - 1) = SubSeq(data, start + 1, end)
      BY <1>2 DEF Slice
    <3>. HIDE DEF start, end
    <3>. DEFINE m == MaxRecord
    <3>2. end = start + m /\ m \in Nat /\ start + m <= Len(data)
      BY <1>1, <1>3, <2>3, Bounds DEF end
    <3>. HIDE DEF m
    <3>3. Len(Slice(data, i - 1)) = m
          /\ \A k \in 1..m : Slice(data, i - 1)[k] = data[start + k]
      <4>1. start \in Nat /\ m \in Nat /\ start + m <= Len(data)
        BY <1>3, <3>2
      <4>2. /\ Len(SubSeq(data, start + 1, start + m)) = m
            /\ \A k \in 1..m : SubSeq(data, start + 1, start + m)[k] = data[start + k]
        BY ONLY <4>1, data \in Seq(S), SubSeqFacts
      <4>. QED BY <3>1, <3>2, <4>2
    <3>. QED BY <1>3, <1>4, <2>3, <3>2, <3>3, Bounds DEF n, start, m
<1>5. CASE i = n
  <2>1. start = (n - 1) * MaxRecord
    BY <1>5
  <2>2. start <= Len(data) /\ end = Len(data) /\ Len(data) - start \in 0..MaxRecord
    BY <1>1, <1>3, <2>1, Bounds
  <2>. QED
    <3>1. Slice(data, i - 1) = SubSeq(data, start + 1, end)
      BY <1>2 DEF Slice
    <3>. HIDE DEF start, end
    <3>. DEFINE m == Len(data) - start
    <3>2. end = start + m /\ m \in Nat /\ start + m <= Len(data)
      BY <1>1, <1>3, <2>2
    <3>. HIDE DEF m
    <3>3. Len(Slice(data, i - 1)) = m
          /\ \A k \in 1..m : Slice(data, i - 1)[k] = data[start + k]
      <4>1. start \in Nat /\ m \in Nat /\ start + m <= Len(data)
        BY <1>3, <3>2
      <4>2. /\ Len(SubSeq(data, start + 1, start + m)) = m
            /\ \A k \in 1..m : SubSeq(data, start + 1, start + m)[k] = data[start + k]
        BY ONLY <4>1, data \in Seq(S), SubSeqFacts
      <4>. QED BY <3>1, <3>2, <4>2
    <3>4. m \in 0..MaxRecord /\ start + m = Len(data)
      BY <1>1, <1>3, <2>2 DEF m
    <3>. QED BY <1>3, <1>5, <2>2, <3>3, <3>4 DEF n, start, m
<1>. QED BY <1>1, <1>2, <1>4, <1>5

\* A record that is split can be submitted; its parts are numbered from zero, only the
\* last one is marked final, and behind one another they are the record: all but the last
\* are full, and each holds the bytes from its own offset on (split_record_payloads).
THEOREM SplitExact ==
  ASSUME NEW S, NEW data \in Seq(S), SplitValid(data)
  PROVE  LET parts == SplitRecord(data)
             n == PartCount(data)
         IN /\ SubmissionValid(parts) /\ DOMAIN parts = 1..n
            /\ \A i \in 1..n :
                 /\ PartIndex(parts[i].part) = i - 1
                 /\ IsFinal(parts[i].part) = (i = n)
                 /\ Len(parts[i].data) = (IF i < n THEN MaxRecord ELSE Len(data) - (n - 1) * MaxRecord)
                 /\ \A k \in 1..Len(parts[i].data) :
                      parts[i].data[k] = data[(i - 1) * MaxRecord + k]
<1>. DEFINE n == PartCount(data)
            parts == SplitRecord(data)
<1>1. n \in Nat \ {0} /\ n <= MaxIndex + 1
  BY Parts DEF SplitValid
<1>2. parts = [i \in 1..n |-> [part |-> PartRaw(i - 1, i = n), data |-> Slice(data, i - 1)]]
  BY DEF SplitRecord
<1>. HIDE DEF n, parts
<1>3. DOMAIN parts = 1..n /\ parts # <<>>
  <2>1. 1 \in DOMAIN parts /\ DOMAIN parts = 1..n
    BY <1>1, <1>2
  <2>2. 1 \notin DOMAIN <<>>
    OBVIOUS
  <2>. QED BY <2>1, <2>2
<1>4. ASSUME NEW i \in 1..n
      PROVE  /\ PartIndex(parts[i].part) = i - 1 /\ IsFinal(parts[i].part) = (i = n)
             /\ Len(parts[i].data) = (IF i < n THEN MaxRecord ELSE Len(data) - (n - 1) * MaxRecord)
             /\ Len(parts[i].data) \in 0..MaxRecord
             /\ \A k \in 1..Len(parts[i].data) :
                  parts[i].data[k] = data[(i - 1) * MaxRecord + k]
  <2>1. parts[i].part = PartRaw(i - 1, i = n) /\ parts[i].data = Slice(data, i - 1)
    BY <1>2
  <2>2. i - 1 \in 0..MaxIndex /\ (i = n) \in BOOLEAN
    BY <1>1, Bounds DEF MaxIndex
  <2>3. PartIndex(parts[i].part) = i - 1 /\ IsFinal(parts[i].part) = (i = n)
    BY <2>1, <2>2, HeaderFacts
  <2>4. i < n \/ i = n
    BY <1>1
  <2>5. /\ Len(Slice(data, i - 1)) = (IF i < n THEN MaxRecord ELSE Len(data) - (i - 1) * MaxRecord)
        /\ Len(Slice(data, i - 1)) \in 0..MaxRecord
        /\ \A k \in 1..Len(Slice(data, i - 1)) :
             Slice(data, i - 1)[k] = data[(i - 1) * MaxRecord + k]
    BY SliceFacts DEF n
  <2>. QED BY <2>1, <2>3, <2>4, <2>5
<1>5. SubmissionValid(parts)
  BY <1>1, <1>3, <1>4, Bounds DEF SubmissionValid, RecordLenValid
<1>. QED BY <1>3, <1>4, <1>5 DEF n, parts

-----------------------------------------------------------------------------
-----------------------------------------------------------------------------
(* Sequences laid out one behind the other.                                *)

LEMMA GreatestNumber ==
  ASSUME NEW n \in Nat, NEW T, T \subseteq 0..n, T # {}
  PROVE  \E m \in T : \A k \in T : k <= m
<1>. DEFINE U == {k \in 0..n : n - k \in T}
<1>1. U \subseteq Nat /\ U # {}
  <2>1. PICK k \in 0..n : k \in T
    OBVIOUS
  <2>2. PICK j \in 0..n : j = n - k
    OBVIOUS
  <2>3. n - j = k
    BY <2>2
  <2>4. j \in U
    BY <2>1, <2>3
  <2>5. U \subseteq Nat
    OBVIOUS
  <2>. HIDE DEF U
  <2>. QED BY <2>4, <2>5
<1>2. PICK u \in U : \A k \in U : u <= k
  <2>. HIDE DEF U
  <2>. QED BY <1>1, LeastNumber
<1>3. ASSUME NEW k \in T PROVE k <= n - u
  <2>1. n - k \in 0..n /\ n - (n - k) = k
    OBVIOUS
  <2>2. n - k \in U
    BY <2>1
  <2>3. u <= n - k
    BY <1>2, <2>2
  <2>. QED BY <2>3
<1>. QED BY <1>2, <1>3

\* What is in front of the sequences from the first on.
UpTo(cells, i) == FlattenSeq(SubSeq(cells, 1, i - 1))

LEMMA UpToFacts ==
  ASSUME NEW S, NEW cells \in Seq(Seq(S))
  PROVE  /\ UpTo(cells, 1) = <<>> /\ UpTo(cells, Len(cells) + 1) = FlattenSeq(cells)
         /\ \A i \in 1..(Len(cells) + 1) : UpTo(cells, i) \in Seq(S)
         /\ \A i \in 1..Len(cells) :
              /\ cells[i] \in Seq(S)
              /\ UpTo(cells, i + 1) = UpTo(cells, i) \o cells[i]
<1>. DEFINE n == Len(cells)
<1>1. n \in Nat
  OBVIOUS
<1>2. SubSeq(cells, 1, 0) = <<>> /\ SubSeq(cells, 1, n) = cells
  BY SubSeqEmpty, SubSeqFull
<1>3. UpTo(cells, 1) = <<>> /\ UpTo(cells, n + 1) = FlattenSeq(cells)
  <2>1. 1 - 1 = 0 /\ n + 1 - 1 = n
    BY <1>1
  <2>2. UpTo(cells, 1) = FlattenSeq(SubSeq(cells, 1, 0))
    BY <2>1 DEF UpTo
  <2>3. UpTo(cells, n + 1) = FlattenSeq(SubSeq(cells, 1, n))
    BY <2>1 DEF UpTo
  <2>. QED BY <1>2, <2>2, <2>3, FlattenEmpty
<1>4. ASSUME NEW i \in 1..(n + 1)
      PROVE  SubSeq(cells, 1, i - 1) \in Seq(Seq(S)) /\ UpTo(cells, i) \in Seq(S)
  <2>1. i - 1 \in 0..n /\ 0 + 1 = 1
    BY <1>1
  <2>2. SubSeq(cells, 0 + 1, i - 1) \in Seq(Seq(S))
    <3>. DEFINE j == i - 1
    <3>1. j \in Nat /\ 0 <= j /\ j <= Len(cells) /\ 0 \in Nat
      BY <2>1
    <3>. HIDE DEF j
    <3>2. SubSeq(cells, 0 + 1, j) \in Seq(Seq(S))
      BY ONLY <3>1, cells \in Seq(Seq(S)), PartFacts
    <3>. QED BY <3>2 DEF j
  <2>3. SubSeq(cells, 1, i - 1) \in Seq(Seq(S))
    BY <2>1, <2>2
  <2>. QED BY <2>3, FlattenType DEF UpTo
<1>5. ASSUME NEW i \in 1..n
      PROVE  cells[i] \in Seq(S) /\ UpTo(cells, i + 1) = UpTo(cells, i) \o cells[i]
  <2>1. cells[i] \in Seq(S)
    OBVIOUS
  <2>2. SubSeq(cells, 1, i) = SubSeq(cells, 1, i - 1) \o <<cells[i]>>
    BY SubSeqRecursiveSecond
  <2>3. i \in 1..(n + 1) /\ i + 1 - 1 = i
    BY <1>1
  <2>4. SubSeq(cells, 1, i - 1) \in Seq(Seq(S))
    BY <1>4, <2>3
  <2>5. SubSeq(cells, 1, i) = Append(SubSeq(cells, 1, i - 1), cells[i])
    BY <2>1, <2>2, <2>4, AppendIsConcat
  <2>6. FlattenSeq(Append(SubSeq(cells, 1, i - 1), cells[i]))
        = FlattenSeq(SubSeq(cells, 1, i - 1)) \o cells[i]
    BY <2>1, <2>4, FlattenAppend
  <2>7. UpTo(cells, i + 1) = FlattenSeq(SubSeq(cells, 1, i))
    BY <2>3 DEF UpTo
  <2>8. UpTo(cells, i) = FlattenSeq(SubSeq(cells, 1, i - 1))
    BY DEF UpTo
  <2>. QED BY <2>1, <2>5, <2>6, <2>7, <2>8
<1>. QED BY <1>3, <1>4, <1>5

\* `m` holds the cells one behind the other, the i-th behind e[i], to its end.
Laid(m, cells, e) ==
  /\ e \in [1..(Len(cells) + 1) -> Nat] /\ e[Len(cells) + 1] = Len(m)
  /\ \A i \in 1..Len(cells) : e[i + 1] = e[i] + Len(cells[i]) /\ Inside(cells[i], m, e[i])

LEMMA ConcatInside ==
  ASSUME NEW S, NEW c \in Seq(S), NEW x \in Seq(S), NEW y \in Seq(S), NEW a \in Nat
  PROVE  /\ Inside(c, x, a) => Inside(c, x \o y, a)
         /\ Inside(c, y, a) => Inside(c, x \o y, Len(x) + a)
<1>1. Len(c) \in Nat /\ Len(x) \in Nat /\ Len(y) \in Nat
  OBVIOUS
<1>4. PICK w \in Seq(S) : w = x \o y
  BY ConcatFacts
<1>5. Len(w) = Len(x) + Len(y) /\ Inside(x, w, 0) /\ Inside(y, w, Len(x))
  BY <1>4, ConcatFacts
<1>6. \A i \in 1..Len(x) : w[i] = x[i]
  <2>1. \A i \in 1..Len(x) : 0 + i = i
    OBVIOUS
  <2>. QED BY <1>5, <2>1 DEF Inside
<1>7. \A i \in 1..Len(y) : w[Len(x) + i] = y[i]
  BY <1>5 DEF Inside
<1>2. ASSUME Inside(c, x, a) PROVE Inside(c, w, a)
  <2>1. ASSUME NEW i \in 1..Len(c) PROVE a + i \in 1..Len(x) /\ c[i] = x[a + i]
    BY <1>1, <1>2 DEF Inside
  <2>. QED BY <1>1, <1>2, <1>5, <1>6, <2>1 DEF Inside
<1>3. ASSUME Inside(c, y, a) PROVE Inside(c, w, Len(x) + a)
  <2>1. ASSUME NEW i \in 1..Len(c) PROVE c[i] = w[Len(x) + a + i]
    <3>1. a + i \in 1..Len(y) /\ c[i] = y[a + i] /\ Len(x) + (a + i) = Len(x) + a + i
      BY <1>1, <1>3 DEF Inside
    <3>. QED BY <1>7, <3>1
  <2>. QED BY <1>1, <1>3, <1>5, <2>1 DEF Inside
<1>. QED BY <1>2, <1>3, <1>4

LEMMA FlattenLaid ==
  ASSUME NEW S, NEW cells \in Seq(Seq(S)), NEW head \in Seq(S)
  PROVE  LET e == [i \in 1..(Len(cells) + 1) |-> Len(head) + Len(UpTo(cells, i))]
         IN Laid(head \o FlattenSeq(cells), cells, e) /\ e[1] = Len(head)
<1>. DEFINE n == Len(cells)
            e == [i \in 1..(n + 1) |-> Len(head) + Len(UpTo(cells, i))]
            m == head \o FlattenSeq(cells)
<1>1. /\ n \in Nat /\ Len(head) \in Nat
      /\ UpTo(cells, 1) = <<>> /\ UpTo(cells, n + 1) = FlattenSeq(cells)
      /\ \A i \in 1..(n + 1) : UpTo(cells, i) \in Seq(S)
      /\ \A i \in 1..n : cells[i] \in Seq(S) /\ UpTo(cells, i + 1) = UpTo(cells, i) \o cells[i]
  BY UpToFacts
<1>2. PICK size : size = [i \in 1..(n + 1) |-> Len(UpTo(cells, i))]
  OBVIOUS
<1>3. /\ \A i \in 1..(n + 1) : size[i] = Len(UpTo(cells, i)) /\ size[i] \in Nat
      /\ size[1] = 0 /\ size[n + 1] = Len(FlattenSeq(cells))
  BY <1>1, <1>2
<1>4. ASSUME NEW i \in 1..(n + 1) PROVE e[i] = Len(head) + size[i] /\ e[i] \in Nat
  <2>1. e[i] = Len(head) + Len(UpTo(cells, i))
    OBVIOUS
  <2>2. size[i] = Len(UpTo(cells, i)) /\ size[i] \in Nat
    BY <1>3
  <2>. HIDE DEF e
  <2>. QED BY <1>1, <2>1, <2>2
<1>5. Len(m) = Len(head) + size[n + 1] /\ m \in Seq(S) /\ FlattenSeq(cells) \in Seq(S)
  <2>1. n + 1 \in 1..(n + 1)
    BY <1>1
  <2>. QED BY <1>1, <1>3, <2>1, ConcatProperties
<1>6. ASSUME NEW i \in 1..n
      PROVE  e[i + 1] = e[i] + Len(cells[i]) /\ Inside(cells[i], m, e[i])
  <2>1. i \in 1..(n + 1) /\ i + 1 \in 1..(n + 1)
    BY <1>1
  <2>2. PICK c \in Seq(S) : c = cells[i] /\ UpTo(cells, i + 1) = UpTo(cells, i) \o c
    BY <1>1
  <2>3. size[i + 1] = size[i] + Len(c) /\ Len(c) \in Nat
    <3>1. UpTo(cells, i) \in Seq(S)
      BY <1>1, <2>1
    <3>2. Len(UpTo(cells, i) \o c) = Len(UpTo(cells, i)) + Len(c)
      BY <3>1, ConcatProperties
    <3>3. size[i] = Len(UpTo(cells, i)) /\ size[i + 1] = Len(UpTo(cells, i + 1))
      BY <1>3, <2>1
    <3>. HIDE DEF e, m
    <3>. QED BY <2>2, <3>2, <3>3
  <2>. DEFINE T == {j \in (i + 1)..(n + 1) : ~Inside(c, UpTo(cells, j), size[i])}
  <2>4. T = {}
    <3>. SUFFICES ASSUME T # {} PROVE FALSE
      OBVIOUS
    <3>1. PICK j \in T : \A k \in T : j <= k
      <4>1. T \subseteq Nat
        BY <1>1
      <4>. HIDE DEF T
      <4>. QED BY <4>1, LeastNumber
    <3>2. j \in (i + 1)..(n + 1) /\ ~Inside(c, UpTo(cells, j), size[i])
      BY <3>1
    <3>3. j # i + 1
      <4>1. Inside(c, c, 0)
        BY DEF Inside
      <4>2. Inside(c, UpTo(cells, i) \o c, Len(UpTo(cells, i)) + 0)
        BY <1>1, <2>1, <4>1, ConcatInside
      <4>3. Len(UpTo(cells, i)) + 0 = size[i]
        BY <1>3, <2>1
      <4>. QED BY <2>2, <3>2, <4>2, <4>3
    <3>4. j - 1 \in (i + 1)..(n + 1) /\ j - 1 \in 1..n /\ j - 1 + 1 = j /\ ~(j <= j - 1)
      BY <1>1, <3>2, <3>3
    <3>5. j - 1 \notin T
      BY <3>1, <3>4
    <3>6. Inside(c, UpTo(cells, j - 1), size[i])
      BY <3>4, <3>5
    <3>7. PICK x \in Seq(S), y \in Seq(S) : x = UpTo(cells, j - 1) /\ UpTo(cells, j) = x \o y
      <4>1. UpTo(cells, j - 1) \in Seq(S)
        BY <1>1, <3>4
      <4>2. cells[j - 1] \in Seq(S) /\ UpTo(cells, j - 1 + 1) = UpTo(cells, j - 1) \o cells[j - 1]
        BY <1>1, <3>4
      <4>. QED BY <3>4, <4>1, <4>2
    <3>8. Inside(c, x \o y, size[i])
      <4>1. Inside(c, x, size[i]) /\ size[i] \in Nat
        BY <1>3, <2>1, <3>6, <3>7
      <4>. QED BY <4>1, ConcatInside
    <3>. QED BY <3>2, <3>7, <3>8
  <2>5. Inside(c, FlattenSeq(cells), size[i])
    <3>1. n + 1 \in (i + 1)..(n + 1)
      BY <1>1
    <3>. QED BY <1>1, <2>4, <3>1
  <2>6. Inside(c, m, Len(head) + size[i])
    <3>1. PICK x \in Seq(S) : x = FlattenSeq(cells)
      BY <1>5
    <3>2. Inside(c, x, size[i]) /\ size[i] \in Nat /\ c \in Seq(S)
      BY <1>3, <2>1, <2>5, <3>1
    <3>3. Inside(c, head \o x, Len(head) + size[i])
      BY <3>2, ConcatInside
    <3>. QED BY <3>1, <3>3
  <2>7. e[i] = Len(head) + size[i] /\ e[i + 1] = Len(head) + size[i + 1] /\ size[i] \in Nat
    BY <1>3, <1>4, <2>1
  <2>. HIDE DEF e, m
  <2>. QED BY <1>1, <2>2, <2>3, <2>6, <2>7
<1>7. e \in [1..(n + 1) -> Nat] /\ e[n + 1] = Len(m) /\ e[1] = Len(head)
  <2>1. n + 1 \in 1..(n + 1) /\ 1 \in 1..(n + 1)
    BY <1>1
  <2>. QED BY <1>1, <1>3, <1>4, <1>5, <2>1
<1>. HIDE DEF e, m
<1>8. Laid(m, cells, e)
  BY <1>6, <1>7 DEF Laid
<1>. QED BY <1>7, <1>8 DEF e, m

\* Two ways to lay out the same cells from the same place are one.
LEMMA LaidSame ==
  ASSUME NEW S, NEW cells \in Seq(Seq(S)), NEW m \in Seq(S), NEW w \in Seq(S), NEW e, NEW f,
         Laid(m, cells, e), Laid(w, cells, f), e[1] = f[1],
         \A k \in 1..e[1] : m[k] = w[k]
  PROVE  m = w
<1>. DEFINE n == Len(cells)
<1>1. /\ n \in Nat /\ \A i \in 1..n : Len(cells[i]) \in Nat
      /\ \A i \in 1..(n + 1) : e[i] \in Nat /\ f[i] \in Nat
      /\ e[n + 1] = Len(m) /\ f[n + 1] = Len(w)
      /\ \A i \in 1..n : e[i + 1] = e[i] + Len(cells[i]) /\ Inside(cells[i], m, e[i])
      /\ \A i \in 1..n : f[i + 1] = f[i] + Len(cells[i]) /\ Inside(cells[i], w, f[i])
  <2>1. n \in Nat /\ \A i \in 1..n : Len(cells[i]) \in Nat
    OBVIOUS
  <2>2. e \in [1..(n + 1) -> Nat] /\ f \in [1..(n + 1) -> Nat]
    BY DEF Laid
  <2>3. \A i \in 1..(n + 1) : e[i] \in Nat /\ f[i] \in Nat
    BY <2>2
  <2>. QED BY <2>1, <2>3 DEF Laid
<1>. HIDE DEF n
<1>2. ASSUME NEW i \in 1..(n + 1) PROVE e[i] = f[i]
  <2>. DEFINE T == {j \in 1..(n + 1) : e[j] # f[j]}
  <2>. SUFFICES ASSUME T # {} PROVE FALSE
    OBVIOUS
  <2>1. PICK j \in T : \A k \in T : j <= k
    <3>1. T \subseteq Nat
      BY <1>1
    <3>. HIDE DEF T
    <3>. QED BY <3>1, LeastNumber
  <2>2. j \in 1..(n + 1) /\ e[j] # f[j]
    BY <2>1
  <2>3. j - 1 \in 1..n /\ j - 1 \in 1..(n + 1) /\ j - 1 + 1 = j /\ ~(j <= j - 1)
    BY <1>1, <2>2
  <2>4. j - 1 \notin T
    BY <2>1, <2>3
  <2>5. e[j - 1] = f[j - 1]
    BY <2>3, <2>4
  <2>. HIDE DEF T
  <2>6. e[j - 1 + 1] = f[j - 1 + 1]
    BY <1>1, <2>3, <2>5
  <2>. QED BY <2>2, <2>3, <2>6
<1>3. Len(m) = Len(w) /\ Len(m) \in Nat
  <2>1. n + 1 \in 1..(n + 1)
    BY <1>1
  <2>. QED BY <1>1, <1>2, <2>1
<1>4. ASSUME NEW k \in 1..Len(m) PROVE m[k] = w[k]
  <2>. DEFINE T == {j \in 1..(n + 1) : k <= e[j]}
  <2>1. PICK j \in T : \A x \in T : j <= x
    <3>1. T \subseteq Nat
      BY <1>1
    <3>2. n + 1 \in T
      BY <1>1
    <3>. HIDE DEF T
    <3>. QED BY <3>1, <3>2, LeastNumber
  <2>2. j \in 1..(n + 1) /\ k <= e[j]
    BY <2>1
  <2>3. CASE j = 1
    <3>1. e[1] \in Nat
      BY <1>1, <2>2, <2>3
    <3>2. k \in 1..e[1]
      BY <2>2, <2>3, <3>1
    <3>. QED BY <3>2
  <2>4. CASE j # 1
    <3>1. PICK i \in 1..n : j = i + 1 /\ i \in 1..(n + 1) /\ ~(j <= i)
      <4>1. j - 1 \in 1..n /\ j = (j - 1) + 1 /\ j - 1 \in 1..(n + 1) /\ ~(j <= j - 1)
        BY <1>1, <2>2, <2>4
      <4>. QED BY <4>1
    <3>2. ~(k <= e[i])
      BY <2>1, <3>1
    <3>. HIDE DEF T
    <3>3. PICK a \in Nat, l \in Nat : a = e[i] /\ l = Len(cells[i]) /\ a < k /\ k <= a + l
      <4>1. e[i] \in Nat /\ Len(cells[i]) \in Nat /\ e[j] = e[i] + Len(cells[i])
        BY <1>1, <3>1
      <4>. QED BY <2>2, <3>2, <4>1
    <3>4. k - a \in 1..l /\ a + (k - a) = k
      BY <3>3
    <3>5. cells[i][k - a] = m[a + (k - a)]
      <4>1. Inside(cells[i], m, a)
        BY <1>1, <3>1, <3>3
      <4>. QED BY <3>3, <3>4, <4>1 DEF Inside
    <3>6. cells[i][k - a] = w[a + (k - a)]
      <4>1. Inside(cells[i], w, a)
        BY <1>1, <1>2, <3>1, <3>3
      <4>. QED BY <3>3, <3>4, <4>1 DEF Inside
    <3>. QED BY <3>4, <3>5, <3>6
  <2>. QED BY <2>3, <2>4
<1>. QED BY <1>3, <1>4, SameSequence

\* A message is its first cell and what is laid out behind it.
LEMMA LaidBehind ==
  ASSUME NEW S, NEW cells \in Seq(Seq(S)), NEW op \in S
  PROVE  LET m == <<op>> \o FlattenSeq(cells)
         IN m \in Seq(S) /\ m # <<>> /\ m[1] = op /\ \E e : Laid(m, cells, e) /\ e[1] = 1
<1>1. PICK x \in Seq(S) : x = FlattenSeq(cells)
  BY FlattenType
<1>2. PICK h \in Seq(S) : h = <<op>> /\ Len(h) = 1 /\ h[1] = op
  <2>1. <<op>> \in Seq(S)
    OBVIOUS
  <2>2. Len(<<op>>) = 1 /\ <<op>>[1] = op
    OBVIOUS
  <2>. QED BY <2>1, <2>2
<1>3. PICK m \in Seq(S) : m = h \o x
  BY ConcatFacts
<1>4. Len(m) = 1 + Len(x) /\ Inside(h, m, 0) /\ Len(x) \in Nat
  <2>1. Len(h \o x) = Len(h) + Len(x) /\ Inside(h, h \o x, 0)
    BY ConcatFacts
  <2>. QED BY <1>2, <1>3, <2>1
<1>5. m # <<>>
  <2>1. Len(m) # 0
    BY <1>4
  <2>. QED BY <2>1
<1>6. m[1] = op
  <2>1. 1 \in 1..Len(h) /\ 0 + 1 = 1
    BY <1>2
  <2>. QED BY <1>2, <1>4, <2>1 DEF Inside
<1>7. \E e : Laid(h \o FlattenSeq(cells), cells, e) /\ e[1] = Len(h)
  BY FlattenLaid
<1>. QED BY <1>1, <1>2, <1>3, <1>5, <1>6, <1>7

LEMMA LaidIs ==
  ASSUME NEW S, NEW cells \in Seq(Seq(S)), NEW m \in Seq(S), m # <<>>,
         NEW e, Laid(m, cells, e), e[1] = 1
  PROVE  m = <<m[1]>> \o FlattenSeq(cells)
<1>1. m[1] \in S
  <2>1. Len(m) \in Nat \ {0}
    OBVIOUS
  <2>2. 1 \in 1..Len(m)
    BY <2>1
  <2>. QED BY <2>2, ElementOfSeq
<1>2. PICK w \in Seq(S) : w = <<m[1]>> \o FlattenSeq(cells) /\ w[1] = m[1]
  BY <1>1, LaidBehind
<1>3. PICK f : Laid(w, cells, f) /\ f[1] = 1
  BY <1>1, <1>2, LaidBehind
<1>4. \A k \in 1..e[1] : m[k] = w[k]
  <2>1. \A k \in 1..1 : k = 1
    OBVIOUS
  <2>. QED BY <1>2, <2>1
<1>5. m = w
  BY <1>3, <1>4, LaidSame
<1>. QED BY <1>2, <1>5

-----------------------------------------------------------------------------
(* The bodies of a message.                                                *)

BodiesTable(m, f) ==
  f = [at \in 2..(Len(m) + 1) |->
         IF at > Len(m) THEN <<>>
         ELSE IF m[at] = 0 \/ at + m[at] > Len(m) THEN << <<at, at - 1>> >>
         ELSE << <<at + 1, at + m[at]>> >> \o f[at + m[at] + 1]]

LEMMA BodiesAre ==
  ASSUME NEW m \in Seq(Nat)
  PROVE  \E f : BodiesTable(m, f) /\ Bodies(m) = f[2]
<1>. DEFINE high == Len(m) + 1
            halt == {at \in 2..high : at > Len(m) \/ m[at] = 0 \/ at + m[at] > Len(m)}
            head == [at \in 2..high |->
                       IF at > Len(m) THEN <<>>
                       ELSE IF m[at] = 0 \/ at + m[at] > Len(m) THEN << <<at, at - 1>> >>
                       ELSE << <<at + 1, at + m[at]>> >>]
            step == [at \in 2..high |-> at + m[at] + 1]
<1>1. high \in Nat /\ 2 \in Nat /\ Len(m) \in Nat
  OBVIOUS
<1>2. \A x \in (2..high) \ halt : step[x] \in (x + 1)..high
  <2>. SUFFICES ASSUME NEW x \in 2..high, x \notin halt PROVE step[x] \in (x + 1)..high
    OBVIOUS
  <2>1. x <= Len(m) /\ m[x] # 0 /\ x + m[x] <= Len(m) /\ m[x] \in Nat
    <3>1. ~(x > Len(m)) /\ m[x] # 0 /\ ~(x + m[x] > Len(m))
      OBVIOUS
    <3>2. x \in 1..Len(m)
      BY <1>1, <3>1
    <3>3. m[x] \in Nat
      BY <3>2, ElementOfSeq
    <3>. QED BY <1>1, <3>1, <3>2, <3>3
  <2>2. step[x] = x + m[x] + 1
    OBVIOUS
  <2>. HIDE DEF step, halt, head
  <2>. QED BY <1>1, <2>1, <2>2
<1>3. PICK f : Chain(2, high, halt, head, step, TRUE, f)
  <2>. HIDE DEF high, halt, head, step
  <2>. QED BY <1>1, <1>2, ChainExists
<1>4. BodiesTable(m, f)
  <2>1. f = [x \in 2..high |-> IF x \in halt THEN head[x] ELSE head[x] \o f[step[x]]]
    BY <1>3 DEF Chain
  <2>2. ASSUME NEW x \in 2..high
        PROVE  (IF x \in halt THEN head[x] ELSE head[x] \o f[step[x]])
               = IF x > Len(m) THEN <<>>
                 ELSE IF m[x] = 0 \/ x + m[x] > Len(m) THEN << <<x, x - 1>> >>
                 ELSE << <<x + 1, x + m[x]>> >> \o f[x + m[x] + 1]
    <3>1. step[x] = x + m[x] + 1
      OBVIOUS
    <3>2. head[x] = IF x > Len(m) THEN <<>>
                    ELSE IF m[x] = 0 \/ x + m[x] > Len(m) THEN << <<x, x - 1>> >>
                    ELSE << <<x + 1, x + m[x]>> >>
      OBVIOUS
    <3>3. x \in halt <=> (x > Len(m) \/ m[x] = 0 \/ x + m[x] > Len(m))
      OBVIOUS
    <3>. HIDE DEF halt, head, step
    <3>. QED BY <3>1, <3>2, <3>3
  <2>. HIDE DEF halt, head, step
  <2>3. f = [x \in 2..high |-> IF x > Len(m) THEN <<>>
                 ELSE IF m[x] = 0 \/ x + m[x] > Len(m) THEN << <<x, x - 1>> >>
                 ELSE << <<x + 1, x + m[x]>> >> \o f[x + m[x] + 1]]
    BY <2>1, <2>2
  <2>. QED BY <2>3 DEF BodiesTable
<1>5. BodiesTable(m, CHOOSE h : BodiesTable(m, h))
  BY <1>4, Zenon
<1>6. Bodies(m) = (CHOOSE h : BodiesTable(m, h))[2]
  BY DEF Bodies, BodiesTable
<1>. QED BY <1>5, <1>6

\* Cells that begin with the number of those behind it.
Sized(cells) ==
  \A i \in 1..Len(cells) : Len(cells[i]) > 1 /\ cells[i][1] = Len(cells[i]) - 1

BodyMarks(n, e) == [i \in 1..n |-> <<e[i] + 2, e[i + 1]>>]

MarksFrom(n, e, i) == [j \in 1..(n + 1 - i) |-> <<e[i + j - 1] + 2, e[i + j]>>]

LEMMA MarksJoin ==
  ASSUME NEW n \in Nat, NEW e, \A i \in 1..(n + 1) : e[i] \in Nat, NEW i \in 1..n
  PROVE  MarksFrom(n, e, i) = << <<e[i] + 2, e[i + 1]>> >> \o MarksFrom(n, e, i + 1)
<1>1. PICK k \in Nat : n + 1 - (i + 1) = k /\ n + 1 - i = k + 1 /\ i + k = n
  <2>1. n - i \in Nat /\ n + 1 - (i + 1) = n - i /\ n + 1 - i = (n - i) + 1 /\ i + (n - i) = n
    OBVIOUS
  <2>. QED BY <2>1
<1>2. PICK first \in Nat \X Nat : first = <<e[i] + 2, e[i + 1]>>
  <2>1. i \in 1..(n + 1) /\ i + 1 \in 1..(n + 1)
    OBVIOUS
  <2>2. e[i] + 2 \in Nat /\ e[i + 1] \in Nat
    BY <2>1
  <2>. QED BY <2>2
<1>3. PICK r : r = [j \in 1..k |-> <<e[i + j] + 2, e[i + j + 1]>>]
  OBVIOUS
<1>4. ASSUME NEW j \in 1..k
      PROVE  r[j] = <<e[i + j] + 2, e[i + j + 1]>> /\ r[j] \in Nat \X Nat
  <2>1. i + j \in 1..(n + 1) /\ i + j + 1 \in 1..(n + 1)
    BY <1>1
  <2>2. r[j] = <<e[i + j] + 2, e[i + j + 1]>>
    BY <1>3
  <2>3. e[i + j] + 2 \in Nat /\ e[i + j + 1] \in Nat
    BY <2>1
  <2>. QED BY <2>2, <2>3
<1>5. r \in Seq(Nat \X Nat) /\ Len(r) = k
  <2>1. r = [j \in 1..k |-> r[j]]
    BY <1>3
  <2>2. \A j \in 1..k : r[j] \in Nat \X Nat
    BY <1>4
  <2>. QED BY <2>1, <2>2
<1>6. r = MarksFrom(n, e, i + 1)
  <2>1. \A j \in 1..k : i + 1 + j - 1 = i + j /\ i + 1 + j = i + j + 1
    OBVIOUS
  <2>. QED BY <1>1, <1>3, <2>1 DEF MarksFrom
<1>7. PICK h \in Seq(Nat \X Nat) : h = <<first>> /\ Len(h) = 1 /\ h[1] = first
  <2>1. <<first>> \in Seq(Nat \X Nat)
    OBVIOUS
  <2>2. Len(<<first>>) = 1 /\ <<first>>[1] = first
    OBVIOUS
  <2>. QED BY <2>1, <2>2
<1>8. PICK w \in Seq(Nat \X Nat) : w = h \o r
  BY <1>5, ConcatFacts
<1>9. Len(w) = k + 1 /\ \A j \in 1..(k + 1) : w[j] = IF j <= 1 THEN h[j] ELSE r[j - 1]
  <2>1. 1 + k = k + 1
    OBVIOUS
  <2>. QED BY <1>5, <1>7, <1>8, <2>1, ConcatProperties
<1>10. ASSUME NEW j \in 1..(k + 1) PROVE w[j] = <<e[i + j - 1] + 2, e[i + j]>>
  <2>1. CASE j = 1
    <3>1. i + j - 1 = i /\ i + j = i + 1 /\ j <= 1
      BY <2>1
    <3>2. w[j] = h[j]
      BY <1>9, <3>1
    <3>. QED BY <1>2, <1>7, <2>1, <3>1, <3>2
  <2>2. CASE j # 1
    <3>1. j - 1 \in 1..k /\ ~(j <= 1) /\ i + (j - 1) = i + j - 1 /\ i + (j - 1) + 1 = i + j
      BY <2>2
    <3>2. w[j] = r[j - 1]
      BY <1>9, <3>1
    <3>. QED BY <1>4, <3>1, <3>2
  <2>. QED BY <2>1, <2>2
<1>11. w = [j \in 1..(k + 1) |-> w[j]]
  BY <1>9
<1>12. w = [j \in 1..(k + 1) |-> <<e[i + j - 1] + 2, e[i + j]>>]
  BY <1>10, <1>11
<1>13. w = MarksFrom(n, e, i)
  BY <1>1, <1>12 DEF MarksFrom
<1>. QED BY <1>2, <1>6, <1>7, <1>8, <1>13

LEMMA BodiesLaid ==
  ASSUME NEW m \in Seq(Nat), NEW cells \in Seq(Seq(Nat)), NEW e, Laid(m, cells, e), e[1] = 1,
         Sized(cells)
  PROVE  Bodies(m) = BodyMarks(Len(cells), e)
<1>1. PICK f : BodiesTable(m, f) /\ Bodies(m) = f[2]
  BY BodiesAre
<1>2. PICK n \in Nat : n = Len(cells)
  OBVIOUS
<1>3. /\ \A i \in 1..(n + 1) : e[i] \in Nat
      /\ e[n + 1] = Len(m) /\ Len(m) \in Nat
  <2>1. e \in [1..(n + 1) -> Nat] /\ e[n + 1] = Len(m)
    BY <1>2 DEF Laid
  <2>. QED BY <2>1
<1>4. ASSUME NEW i \in 1..n
      PROVE  /\ e[i + 1] > e[i] + 1 /\ e[i + 1] <= Len(m)
             /\ m[e[i] + 1] = e[i + 1] - e[i] - 1
             /\ e[i] \in Nat /\ e[i + 1] \in Nat
  <2>1. PICK c \in Seq(Nat) : c = cells[i]
    BY <1>2
  <2>2. PICK a \in Nat : a = e[i]
    <3>1. i \in 1..(n + 1)
      OBVIOUS
    <3>. QED BY <1>3, <3>1
  <2>3. PICK l \in Nat : l = Len(c) /\ l > 1 /\ c[1] = l - 1
    BY <1>2, <2>1 DEF Sized
  <2>4. e[i + 1] = a + l /\ a + l <= Len(m) /\ c[1] = m[a + 1]
    <3>1. e[i + 1] = a + l /\ Inside(c, m, a)
      BY <1>2, <2>1, <2>2, <2>3 DEF Laid
    <3>2. 1 \in 1..l
      BY <2>3
    <3>. QED BY <2>3, <3>1, <3>2 DEF Inside
  <2>5. a + l > a + 1 /\ l - 1 = a + l - a - 1 /\ a + l \in Nat
    BY <2>3
  <2>6. m[a + 1] = a + l - a - 1
    BY <2>3, <2>4, <2>5
  <2>7. e[i] \in Nat /\ e[i + 1] \in Nat /\ e[i + 1] > e[i] + 1 /\ e[i + 1] <= Len(m)
    <3>1. e[i] \in Nat /\ e[i + 1] \in Nat
      BY <2>2, <2>4, <2>5
    <3>2. e[i + 1] <= Len(m)
      BY <2>4
    <3>3. e[i + 1] > e[i] + 1
      BY ONLY <2>2, <2>4, <2>5
    <3>. QED BY <3>1, <3>2, <3>3
  <2>8. m[e[i] + 1] = e[i + 1] - e[i] - 1
    BY <2>2, <2>4, <2>6
  <2>. QED BY <2>7, <2>8
<1>5. \A i \in 1..(n + 1) : e[i] >= 1
  <2>. DEFINE T == {i \in 1..(n + 1) : ~(e[i] >= 1)}
  <2>. SUFFICES ASSUME T # {} PROVE FALSE
    OBVIOUS
  <2>1. PICK i \in T : \A k \in T : i <= k
    <3>1. T \subseteq Nat
      OBVIOUS
    <3>. HIDE DEF T
    <3>. QED BY <3>1, LeastNumber
  <2>2. i \in 1..(n + 1) /\ ~(e[i] >= 1) /\ i # 1
    BY <2>1
  <2>3. i - 1 \in 1..n /\ i - 1 \in 1..(n + 1) /\ i - 1 + 1 = i /\ ~(i <= i - 1)
    BY <2>2
  <2>4. i - 1 \notin T
    BY <2>1, <2>3
  <2>5. e[i - 1] >= 1
    BY <2>3, <2>4
  <2>6. e[i] > e[i - 1] + 1 /\ e[i - 1] \in Nat /\ e[i] \in Nat
    BY <1>4, <2>3
  <2>. QED BY <2>2, <2>5, <2>6
<1>. DEFINE Rest(i) == MarksFrom(n, e, i)
            T == {i \in 1..(n + 1) : f[e[i] + 1] # Rest(i)}
<1>6. T = {}
  <2>. SUFFICES ASSUME T # {} PROVE FALSE
    OBVIOUS
  <2>1. PICK i \in T : \A k \in T : k <= i
    <3>1. T \subseteq 0..(n + 1) /\ n + 1 \in Nat
      OBVIOUS
    <3>. HIDE DEF T
    <3>. QED BY <3>1, GreatestNumber
  <2>2. i \in 1..(n + 1) /\ f[e[i] + 1] # Rest(i)
    BY <2>1
  <2>3. PICK at \in Nat : at = e[i] + 1 /\ at \in 2..(Len(m) + 1)
    <3>1. e[i] \in Nat /\ e[i] >= 1
      BY <1>3, <1>5, <2>2
    <3>2. e[i] <= Len(m)
      <4>1. CASE i = n + 1
        BY <1>3, <4>1
      <4>2. CASE i # n + 1
        <5>1. i \in 1..n
          BY <2>2, <4>2
        <5>2. PICK a \in Nat, b \in Nat : a = e[i] /\ b = e[i + 1] /\ b > a + 1 /\ b <= Len(m)
          BY <1>4, <5>1
        <5>. QED BY <1>3, <5>2
      <4>. QED BY <4>1, <4>2
    <3>3. e[i] + 1 \in Nat /\ e[i] + 1 \in 2..(Len(m) + 1)
      BY <3>1, <3>2
    <3>. QED BY <3>3
  <2>4. f[at] = IF at > Len(m) THEN <<>>
                ELSE IF m[at] = 0 \/ at + m[at] > Len(m) THEN << <<at, at - 1>> >>
                ELSE << <<at + 1, at + m[at]>> >> \o f[at + m[at] + 1]
    BY <1>1, <2>3 DEF BodiesTable
  <2>5. CASE i = n + 1
    <3>1. at > Len(m)
      BY <1>3, <2>3, <2>5
    <3>2. f[at] = <<>>
      BY <2>4, <3>1
    <3>3. n + 1 - i = 0
      BY <2>5
    <3>4. Rest(i) = [j \in 1..0 |-> <<e[i + j - 1] + 2, e[i + j]>>]
      BY <3>3 DEF MarksFrom
    <3>5. Rest(i) = <<>>
      BY <3>4
    <3>. QED BY <2>2, <2>3, <3>2, <3>5
  <2>6. CASE i # n + 1
    <3>1. i \in 1..n /\ i + 1 \in 1..(n + 1) /\ ~(i + 1 <= i)
      BY <2>2, <2>6
    <3>2. i + 1 \notin T
      BY <2>1, <3>1
    <3>3. f[e[i + 1] + 1] = Rest(i + 1)
      BY <3>1, <3>2
    <3>4. PICK a \in Nat, b \in Nat : a = e[i] /\ b = e[i + 1] /\ b > a + 1 /\ b <= Len(m)
                                    /\ m[at] = b - a - 1
      BY <1>4, <2>3, <3>1
    <3>5. at = a + 1 /\ at + m[at] = b /\ m[at] # 0 /\ ~(at > Len(m)) /\ ~(b > Len(m))
      <4>1. at = a + 1
        BY <2>3, <3>4
      <4>2. a + 1 + (b - a - 1) = b
        OBVIOUS
      <4>3. b - a - 1 # 0
        BY <3>4
      <4>4. ~(a + 1 > Len(m)) /\ ~(b > Len(m))
        <5>1. PICK l \in Nat : l = Len(m)
          OBVIOUS
        <5>2. b > a + 1 /\ b <= l
          BY <3>4, <5>1
        <5>3. ~(a + 1 > l) /\ ~(b > l)
          BY <5>2
        <5>. QED BY <5>1, <5>3
      <4>. QED BY <3>4, <4>1, <4>2, <4>3, <4>4
    <3>6. f[at] = << <<a + 2, b>> >> \o Rest(i + 1)
      <4>1. at + 1 = a + 2 /\ at + m[at] + 1 = b + 1
        <5>1. a + 1 + 1 = a + 2
          OBVIOUS
        <5>. QED BY <3>5, <5>1
      <4>. HIDE DEF Rest
      <4>. QED BY <2>4, <3>3, <3>4, <3>5, <4>1
    <3>7. Rest(i) = << <<a + 2, b>> >> \o Rest(i + 1)
      <4>1. MarksFrom(n, e, i) = << <<e[i] + 2, e[i + 1]>> >> \o MarksFrom(n, e, i + 1)
        <5>. HIDE DEF Rest, T
        <5>. QED BY <1>3, <3>1, MarksJoin
      <4>. QED BY <3>4, <4>1
    <3>. QED BY <2>2, <2>3, <3>6, <3>7
  <2>. QED BY <2>5, <2>6
<1>7. f[e[1] + 1] = Rest(1)
  <2>1. 1 \in 1..(n + 1)
    BY <1>2
  <2>. QED BY <1>6, <2>1
<1>8. Rest(1) = BodyMarks(n, e)
  <2>1. n + 1 - 1 = n /\ \A j \in 1..n : 1 + j - 1 = j /\ 1 + j = j + 1
    BY <1>2
  <2>. QED BY <2>1 DEF BodyMarks, MarksFrom
<1>9. e[1] + 1 = 2
  OBVIOUS
<1>. HIDE DEF Rest, T
<1>. QED BY <1>1, <1>2, <1>7, <1>8, <1>9

\* A walk through a message: each length leads to the end of its body, the last one to the
\* end of the message.
Walk(m, n, e) ==
  /\ e \in [1..(n + 1) -> Nat] /\ e[n + 1] = Len(m)
  /\ \A i \in 1..n : e[i + 1] = e[i] + 1 + m[e[i] + 1] /\ e[i + 1] <= Len(m)

\* The record behind `a` comes before the walk `e`.
Longer(m, n, e, a) ==
  \E f : /\ Walk(m, n + 1, f) /\ f[1] = a
        /\ BodyMarks(n + 1, f) = << <<a + 2, e[1]>> >> \o BodyMarks(n, e)

LEMMA WalkMore ==
  ASSUME NEW m \in Seq(Nat), NEW n \in Nat, NEW e, Walk(m, n, e), NEW a \in Nat,
         e[1] = a + 1 + m[a + 1], e[1] <= Len(m)
  PROVE  Longer(m, n, e, a)
<1>. DEFINE f == [i \in 1..(n + 2) |-> IF i = 1 THEN a ELSE e[i - 1]]
<1>1. n + 1 + 1 = n + 2 /\ n + 1 \in Nat
  OBVIOUS
<1>2. \A i \in 1..(n + 1) : e[i] \in Nat
  <2>1. e \in [1..(n + 1) -> Nat]
    BY DEF Walk
  <2>. QED BY <2>1
<1>3. f[1] = a
  OBVIOUS
<1>4. ASSUME NEW i \in 1..(n + 1) PROVE f[i + 1] = e[i]
  <2>1. i + 1 \in 1..(n + 2) /\ i + 1 # 1 /\ i + 1 - 1 = i
    OBVIOUS
  <2>. QED BY <2>1
<1>5. f = [i \in 1..(n + 2) |-> f[i]]
  OBVIOUS
<1>. HIDE DEF f
<1>6. ASSUME NEW i \in 1..(n + 2) PROVE f[i] \in Nat
  <2>1. CASE i = 1
    BY <1>3, <2>1
  <2>2. CASE i # 1
    <3>1. i - 1 \in 1..(n + 1) /\ (i - 1) + 1 = i
      BY <2>2
    <3>. QED BY <1>2, <1>4, <3>1
  <2>. QED BY <2>1, <2>2
<1>7. f \in [1..(n + 1 + 1) -> Nat] /\ f[n + 1 + 1] = Len(m)
  <2>1. f \in [1..(n + 2) -> Nat]
    BY <1>5, <1>6
  <2>2. n + 1 \in 1..(n + 1)
    OBVIOUS
  <2>3. f[n + 1 + 1] = e[n + 1] /\ e[n + 1] = Len(m)
    BY <1>4, <2>2 DEF Walk
  <2>. QED BY <1>1, <2>1, <2>3
<1>8. ASSUME NEW i \in 1..(n + 1)
      PROVE  f[i + 1] = f[i] + 1 + m[f[i] + 1] /\ f[i + 1] <= Len(m)
  <2>1. CASE i = 1
    <3>1. f[1 + 1] = e[1]
      BY <1>4, <2>1
    <3>. QED BY <1>3, <2>1, <3>1
  <2>2. CASE i # 1
    <3>1. i - 1 \in 1..n /\ i - 1 \in 1..(n + 1) /\ (i - 1) + 1 = i
      BY <2>2
    <3>2. f[i] = e[i - 1] /\ f[i + 1] = e[i]
      BY <1>4, <3>1
    <3>3. e[(i - 1) + 1] = e[i - 1] + 1 + m[e[i - 1] + 1] /\ e[(i - 1) + 1] <= Len(m)
      BY <3>1 DEF Walk
    <3>. QED BY <3>1, <3>2, <3>3
  <2>. QED BY <2>1, <2>2
<1>9. BodyMarks(n + 1, f) = MarksFrom(n + 1, f, 1)
  <2>1. n + 1 + 1 - 1 = n + 1 /\ \A j \in 1..(n + 1) : 1 + j - 1 = j /\ 1 + j = j + 1
    OBVIOUS
  <2>. QED BY <2>1 DEF BodyMarks, MarksFrom
<1>10. BodyMarks(n, e) = MarksFrom(n + 1, f, 2)
  <2>1. n + 1 + 1 - 2 = n
    OBVIOUS
  <2>2. ASSUME NEW j \in 1..n PROVE f[2 + j - 1] = e[j] /\ f[2 + j] = e[j + 1]
    <3>1. j \in 1..(n + 1) /\ j + 1 \in 1..(n + 1) /\ 2 + j - 1 = j + 1 /\ 2 + j = j + 1 + 1
      OBVIOUS
    <3>. QED BY <1>4, <3>1
  <2>. QED BY <2>1, <2>2 DEF BodyMarks, MarksFrom
<1>11. MarksFrom(n + 1, f, 1) = << <<f[1] + 2, f[1 + 1]>> >> \o MarksFrom(n + 1, f, 1 + 1)
  <2>1. \A i \in 1..(n + 1 + 1) : f[i] \in Nat
    BY <1>1, <1>6
  <2>2. 1 \in 1..(n + 1)
    OBVIOUS
  <2>. QED BY ONLY <1>1, <2>1, <2>2, MarksJoin
<1>12. 1 + 1 = 2 /\ f[1 + 1] = e[1]
  <2>1. 1 \in 1..(n + 1) /\ 1 + 1 = 2
    OBVIOUS
  <2>. QED BY <1>4, <2>1
<1>13. BodyMarks(n + 1, f) = << <<a + 2, e[1]>> >> \o BodyMarks(n, e)
  BY <1>3, <1>9, <1>10, <1>11, <1>12
<1>14. Walk(m, n + 1, f)
  BY <1>7, <1>8 DEF Walk
<1>. QED BY <1>3, <1>13, <1>14 DEF Longer

LEMMA MarksFacts ==
  ASSUME NEW n \in Nat, NEW e \in [1..(n + 1) -> Nat]
  PROVE  /\ BodyMarks(n, e) \in Seq(Nat \X Nat) /\ Len(BodyMarks(n, e)) = n
         /\ DOMAIN BodyMarks(n, e) = 1..n
         /\ \A i \in 1..n : BodyMarks(n, e)[i][1] = e[i] + 2 /\ BodyMarks(n, e)[i][2] = e[i + 1]
<1>1. PICK c : c = BodyMarks(n, e)
  OBVIOUS
<1>2. c = [i \in 1..n |-> <<e[i] + 2, e[i + 1]>>]
  BY <1>1 DEF BodyMarks
<1>3. ASSUME NEW i \in 1..n
      PROVE  c[i] \in Nat \X Nat /\ c[i][1] = e[i] + 2 /\ c[i][2] = e[i + 1]
  <2>1. i \in 1..(n + 1) /\ i + 1 \in 1..(n + 1)
    OBVIOUS
  <2>2. e[i] + 2 \in Nat /\ e[i + 1] \in Nat
    BY <2>1
  <2>. QED BY <1>2, <2>2
<1>4. c \in Seq(Nat \X Nat) /\ Len(c) = n /\ DOMAIN c = 1..n
  <2>1. c = [i \in 1..n |-> c[i]]
    BY <1>2
  <2>2. \A i \in 1..n : c[i] \in Nat \X Nat
    BY <1>3
  <2>. QED BY <2>1, <2>2
<1>. QED BY <1>1, <1>3, <1>4

Walked(m, at, c) ==
  \E n \in Nat : \E e : Walk(m, n, e) /\ e[1] + 1 = at /\ c = BodyMarks(n, e)

\* A body that is not there.
Broken(c) == c \in Seq(Nat \X Int) /\ \E i \in 1..Len(c) : ~(c[i][1] <= c[i][2])

LEMMA BodiesWalk ==
  ASSUME NEW m \in Seq(Nat), m # <<>>
  PROVE  Walked(m, 2, Bodies(m)) \/ Broken(Bodies(m))
<1>1. PICK f : BodiesTable(m, f) /\ Bodies(m) = f[2]
  BY BodiesAre
<1>2. PICK l \in Nat : l = Len(m) /\ l # 0
  OBVIOUS
<1>. DEFINE Fine(at) == Walked(m, at, f[at]) \/ Broken(f[at])
            T == {at \in 2..(l + 1) : ~Fine(at)}
<1>3. T = {}
  <2>. SUFFICES ASSUME T # {} PROVE FALSE
    OBVIOUS
  <2>1. PICK at \in T : \A k \in T : k <= at
    <3>1. T \subseteq 0..(l + 1) /\ l + 1 \in Nat
      OBVIOUS
    <3>. HIDE DEF T
    <3>. QED BY <3>1, GreatestNumber
  <2>2. at \in 2..(l + 1) /\ ~Fine(at)
    BY <2>1
  <2>3. \A k \in 2..(l + 1) : k > at => Fine(k)
    <3>. SUFFICES ASSUME NEW k \in 2..(l + 1), k > at PROVE Fine(k)
      OBVIOUS
    <3>1. ~(k <= at)
      BY <2>2
    <3>2. k \notin T
      BY <2>1, <3>1
    <3>. QED BY <3>2
  <2>. HIDE DEF T
  <2>4. f[at] = IF at > l THEN <<>>
                ELSE IF m[at] = 0 \/ at + m[at] > l THEN << <<at, at - 1>> >>
                ELSE << <<at + 1, at + m[at]>> >> \o f[at + m[at] + 1]
    BY <1>1, <1>2, <2>2 DEF BodiesTable
  <2>5. CASE at > l
    <3>1. f[at] = <<>> /\ at = l + 1
      BY <2>2, <2>4, <2>5
    <3>. DEFINE e == [i \in 1..1 |-> l]
    <3>2. e \in [1..(0 + 1) -> Nat] /\ e[0 + 1] = l /\ e[1] = l
      OBVIOUS
    <3>. HIDE DEF e
    <3>3. Walk(m, 0, e)
      BY <1>2, <3>2 DEF Walk
    <3>4. BodyMarks(0, e) = <<>>
      BY DEF BodyMarks
    <3>5. Walked(m, at, f[at])
      <4>1. e[1] + 1 = at /\ f[at] = BodyMarks(0, e)
        BY <3>1, <3>2, <3>4
      <4>. QED BY <3>3, <4>1 DEF Walked
    <3>. QED BY <2>2, <3>5
  <2>6. CASE ~(at > l) /\ (m[at] = 0 \/ at + m[at] > l)
    <3>1. f[at] = << <<at, at - 1>> >>
      BY <2>4, <2>6
    <3>2. << <<at, at - 1>> >> \in Seq(Nat \X Int)
      BY <2>2
    <3>3. 1 \in 1..Len(<< <<at, at - 1>> >>)
          /\ << <<at, at - 1>> >>[1][1] = at /\ << <<at, at - 1>> >>[1][2] = at - 1
      OBVIOUS
    <3>4. ~(at <= at - 1)
      BY <2>2
    <3>5. Broken(f[at])
      BY <3>1, <3>2, <3>3, <3>4 DEF Broken
    <3>. QED BY <2>2, <3>5
  <2>7. CASE ~(at > l) /\ m[at] # 0 /\ ~(at + m[at] > l)
    <3>1. PICK k \in Nat : k = m[at] /\ k # 0 /\ at + k <= l
      <4>1. at \in 1..Len(m)
        BY <1>2, <2>2, <2>7
      <4>2. m[at] \in Nat
        BY <4>1, ElementOfSeq
      <4>. QED BY <2>2, <2>7, <4>2
    <3>2. f[at] = << <<at + 1, at + k>> >> \o f[at + k + 1]
      BY <2>4, <2>7, <3>1
    <3>3. at + k + 1 \in 2..(l + 1) /\ at + k + 1 > at /\ at + k \in Nat /\ at \in Nat
      <4>1. at \in Nat /\ at >= 2
        BY <2>2
      <4>. QED BY ONLY <3>1, <4>1, k \in Nat, l \in Nat
    <3>4. CASE Walked(m, at + k + 1, f[at + k + 1])
      <4>0. PICK n \in Nat : \E e : Walk(m, n, e) /\ e[1] + 1 = at + k + 1
                                   /\ f[at + k + 1] = BodyMarks(n, e)
        BY <3>4 DEF Walked
      <4>1. PICK e : Walk(m, n, e) /\ e[1] + 1 = at + k + 1 /\ f[at + k + 1] = BodyMarks(n, e)
        BY <4>0
      <4>2. PICK a \in Nat : a = at - 1 /\ a + 1 = at /\ a + 2 = at + 1
        BY <2>2
      <4>3. e[1] \in Nat
        <5>1. e \in [1..(n + 1) -> Nat] /\ 1 \in 1..(n + 1)
          BY <4>1 DEF Walk
        <5>. QED BY <5>1
      <4>4. e[1] = at + k
        BY <3>3, <4>1, <4>3
      <4>5. e[1] = a + 1 + m[a + 1] /\ e[1] <= Len(m)
        BY <1>2, <3>1, <4>2, <4>4
      <4>6. PICK g : /\ Walk(m, n + 1, g) /\ g[1] = a
                     /\ BodyMarks(n + 1, g) = << <<a + 2, e[1]>> >> \o BodyMarks(n, e)
        <5>1. Walk(m, n, e)
          BY <4>1
        <5>2. Longer(m, n, e, a)
          BY ONLY m \in Seq(Nat), n \in Nat, a \in Nat, <5>1, <4>5, WalkMore
        <5>. QED BY <5>2 DEF Longer
      <4>7. n + 1 \in Nat /\ g[1] + 1 = at
        BY <4>2, <4>6
      <4>8. f[at] = BodyMarks(n + 1, g)
        BY <3>2, <4>1, <4>2, <4>4, <4>6
      <4>9. Walked(m, at, f[at])
        BY <4>6, <4>7, <4>8 DEF Walked
      <4>. QED BY <2>2, <4>9
    <3>5. CASE Broken(f[at + k + 1])
      <4>1. PICK r \in Seq(Nat \X Int) : r = f[at + k + 1]
        BY <3>5 DEF Broken
      <4>2. PICK i \in 1..Len(r) : ~(r[i][1] <= r[i][2])
        BY <3>5, <4>1 DEF Broken
      <4>3. PICK h \in Seq(Nat \X Int) : h = << <<at + 1, at + k>> >> /\ Len(h) = 1
        <5>1. <<at + 1, at + k>> \in Nat \X Int
          BY <3>3
        <5>2. << <<at + 1, at + k>> >> \in Seq(Nat \X Int)
          BY <5>1
        <5>3. Len(<< <<at + 1, at + k>> >>) = 1
          OBVIOUS
        <5>. QED BY <5>2, <5>3
      <4>4. PICK w \in Seq(Nat \X Int) : w = h \o r
        BY ConcatFacts
      <4>5. Len(w) = Len(h) + Len(r) /\ Inside(r, w, Len(h))
        BY <4>4, ConcatFacts
      <4>6. 1 + i \in 1..Len(w) /\ w[1 + i] = r[i]
        BY <4>3, <4>5 DEF Inside
      <4>7. f[at] = w
        BY <3>2, <4>1, <4>3, <4>4
      <4>8. Broken(f[at])
        BY <4>2, <4>6, <4>7 DEF Broken
      <4>. QED BY <2>2, <4>8
    <3>6. Fine(at + k + 1)
      BY <2>3, <3>3
    <3>. QED BY <3>4, <3>5, <3>6
  <2>. QED BY <2>5, <2>6, <2>7
<1>4. Fine(2)
  <2>1. 2 \in 2..(l + 1)
    BY <1>2
  <2>. QED BY <1>3, <2>1
<1>. QED BY <1>1, <1>4

\* Bodies that are all there are the walk through the message.
LEMMA BodiesValidWalk ==
  ASSUME NEW m \in Seq(Nat), m # <<>>, NEW header \in Nat \ {0}, NEW max,
         BodiesValid(Bodies(m), header, max)
  PROVE  \E n \in Nat : \E e \in [1..(n + 1) -> Nat] :
           /\ e[1] = 1 /\ e[n + 1] = Len(m) /\ Bodies(m) = BodyMarks(n, e)
           /\ \A i \in 1..n : /\ e[i + 1] >= e[i] + 1 + header /\ e[i + 1] <= Len(m)
                             /\ m[e[i] + 1] = e[i + 1] - e[i] - 1
<1>1. ~Broken(Bodies(m))
  <2>. SUFFICES ASSUME Broken(Bodies(m)) PROVE FALSE
    OBVIOUS
  <2>1. PICK c \in Seq(Nat \X Int) : c = Bodies(m)
    BY DEF Broken
  <2>2. PICK i \in 1..Len(c) : ~(c[i][1] <= c[i][2])
    BY <2>1 DEF Broken
  <2>3. c[i][2] - c[i][1] + 1 >= header
    BY <2>1 DEF BodiesValid
  <2>4. c[i] \in Nat \X Int
    OBVIOUS
  <2>5. c[i][1] \in Nat /\ c[i][2] \in Int
    BY <2>4
  <2>. QED BY <2>2, <2>3, <2>5
<1>2. PICK n \in Nat : \E e : Walk(m, n, e) /\ e[1] + 1 = 2 /\ Bodies(m) = BodyMarks(n, e)
  BY <1>1, BodiesWalk DEF Walked
<1>3. PICK e : Walk(m, n, e) /\ e[1] + 1 = 2 /\ Bodies(m) = BodyMarks(n, e)
  BY <1>2
<1>4. e \in [1..(n + 1) -> Nat] /\ e[n + 1] = Len(m)
  BY <1>3 DEF Walk
<1>5. e[1] = 1
  <2>1. 1 \in 1..(n + 1)
    OBVIOUS
  <2>2. e[1] \in Nat
    BY <1>4, <2>1
  <2>. QED BY <1>3, <2>2
<1>6. ASSUME NEW i \in 1..n
      PROVE  /\ e[i + 1] >= e[i] + 1 + header /\ e[i + 1] <= Len(m)
             /\ m[e[i] + 1] = e[i + 1] - e[i] - 1
  <2>1. i \in 1..(n + 1) /\ i + 1 \in 1..(n + 1)
    OBVIOUS
  <2>2. PICK a \in Nat, b \in Nat : a = e[i] /\ b = e[i + 1]
    BY <1>4, <2>1
  <2>3. b = a + 1 + m[a + 1] /\ b <= Len(m)
    BY <1>3, <2>2 DEF Walk
  <2>4. b - (a + 2) + 1 >= header
    <3>1. i \in DOMAIN Bodies(m) /\ Bodies(m)[i][1] = a + 2 /\ Bodies(m)[i][2] = b
      <4>1. /\ DOMAIN BodyMarks(n, e) = 1..n
            /\ BodyMarks(n, e)[i][1] = e[i] + 2 /\ BodyMarks(n, e)[i][2] = e[i + 1]
        BY <1>4, MarksFacts
      <4>. QED BY <1>3, <2>2, <4>1
    <3>. QED BY <3>1 DEF BodiesValid
  <2>5. b >= a + 1 + header
    BY <2>4
  <2>6. m[a + 1] \in Nat
    <3>1. a + 1 \in 1..Len(m)
      BY <2>3, <2>5
    <3>. QED BY <3>1, ElementOfSeq
  <2>7. m[a + 1] = b - a - 1
    <3>1. PICK k \in Nat : k = m[a + 1]
      BY <2>6
    <3>2. b = a + 1 + k
      BY <2>3, <3>1
    <3>3. k = b - a - 1
      BY <3>2
    <3>. QED BY <3>1, <3>3
  <2>. QED BY <2>2, <2>3, <2>5, <2>7
<1>. QED BY <1>3, <1>4, <1>5, <1>6

LEMMA InsideIs ==
  ASSUME NEW S, NEW d \in Seq(S), NEW m \in Seq(S), NEW a \in Nat, Inside(d, m, a)
  PROVE  SubSeq(m, a + 1, a + Len(d)) = d
<1>1. PICK l \in Nat : l = Len(d)
  OBVIOUS
<1>2. PICK b \in Nat : b = a + l /\ a <= b /\ b <= Len(m) /\ b - a = l
  BY <1>1 DEF Inside
<1>3. PICK y : y = SubSeq(m, a + 1, b)
  OBVIOUS
<1>4. y \in Seq(S) /\ Len(y) = b - a /\ \A k \in 1..(b - a) : y[k] = m[a + k]
  <2>1. /\ SubSeq(m, a + 1, b) \in Seq(S) /\ Len(SubSeq(m, a + 1, b)) = b - a
        /\ \A i \in 1..(b - a) : SubSeq(m, a + 1, b)[i] = m[a + i]
    BY ONLY m \in Seq(S), a \in Nat, b \in Nat, <1>2, PartFacts
  <2>. QED BY <1>3, <2>1
<1>5. \A k \in 1..l : d[k] = m[a + k]
  BY <1>1 DEF Inside
<1>6. \A k \in 1..l : y[k] = d[k]
  BY <1>2, <1>4, <1>5
<1>7. y = d
  BY <1>1, <1>2, <1>4, <1>6, SameSequence
<1>. QED BY <1>1, <1>2, <1>3, <1>7

-----------------------------------------------------------------------------
(* Batches of records in a message.                                        *)

LEMMA SequenceOf ==
  ASSUME NEW S, NEW n \in Nat, NEW f, f = [i \in 1..n |-> f[i]], \A i \in 1..n : f[i] \in S
  PROVE  f \in Seq(S) /\ Len(f) = n /\ DOMAIN f = 1..n
OBVIOUS

ReadRecord ==
  [seq : Nat, ts : Nat, writer : Nat, wseq : Nat, part : Nat, data : Seq(Nat)]
AppendRecord == [wseq : Nat, part : Nat, data : Seq(Nat)]

LEMMA FieldsInFront ==
  ASSUME NEW h \in Seq(Nat), NEW d \in Seq(Nat)
  PROVE  /\ h \o d \in Seq(Nat) /\ Len(h \o d) = Len(h) + Len(d)
         /\ \A i \in 1..Len(h) : (h \o d)[i] = h[i]
         /\ Inside(d, h \o d, Len(h))
<1>1. PICK w \in Seq(Nat) : w = h \o d
  BY ConcatFacts
<1>2. Len(w) = Len(h) + Len(d) /\ Inside(h, w, 0) /\ Inside(d, w, Len(h))
  BY <1>1, ConcatFacts
<1>3. \A i \in 1..Len(h) : 0 + i = i
  OBVIOUS
<1>4. \A i \in 1..Len(h) : w[i] = h[i]
  BY <1>2, <1>3 DEF Inside
<1>. QED BY <1>1, <1>2, <1>4

LEMMA ReadCellsAre ==
  ASSUME NEW r \in ReadRecord
  PROVE  LET c == ReadCells(r)
         IN /\ c \in Seq(Nat) /\ Len(c) = 6 + Len(r.data) /\ c[1] = 5 + Len(r.data)
            /\ c[2] = r.seq /\ c[3] = r.ts /\ c[4] = r.writer /\ c[5] = r.wseq /\ c[6] = r.part
            /\ Inside(r.data, c, 6)
<1>1. PICK d \in Seq(Nat) : d = r.data
  BY DEF ReadRecord
<1>2. PICK l \in Nat : l = Len(d)
  OBVIOUS
<1>3. PICK h : h = <<5 + l, r.seq, r.ts, r.writer, r.wseq, r.part>>
  OBVIOUS
<1>4. /\ h \in Seq(Nat) /\ Len(h) = 6
      /\ h[1] = 5 + l /\ h[2] = r.seq /\ h[3] = r.ts /\ h[4] = r.writer /\ h[5] = r.wseq
      /\ h[6] = r.part
  <2>1. 5 + l \in Nat /\ r.seq \in Nat /\ r.ts \in Nat /\ r.writer \in Nat /\ r.wseq \in Nat
        /\ r.part \in Nat
    BY DEF ReadRecord
  <2>. QED BY <1>3, <2>1
<1>5. PICK c : c = h \o d
  OBVIOUS
<1>6. c \in Seq(Nat) /\ Len(c) = 6 + l /\ Inside(d, c, 6) /\ \A i \in 1..6 : c[i] = h[i]
  <2>1. /\ h \o d \in Seq(Nat) /\ Len(h \o d) = Len(h) + Len(d)
        /\ \A i \in 1..Len(h) : (h \o d)[i] = h[i]
        /\ Inside(d, h \o d, Len(h))
    BY ONLY <1>4, d \in Seq(Nat), FieldsInFront
  <2>. QED BY ONLY <1>2, <1>4, <1>5, <2>1
<1>7. ReadCells(r) = c
  BY <1>1, <1>2, <1>3, <1>5 DEF ReadCells
<1>8. c[1] = h[1] /\ c[2] = h[2] /\ c[3] = h[3] /\ c[4] = h[4] /\ c[5] = h[5] /\ c[6] = h[6]
  <2>1. 1 \in 1..6 /\ 2 \in 1..6 /\ 3 \in 1..6 /\ 4 \in 1..6 /\ 5 \in 1..6 /\ 6 \in 1..6
    OBVIOUS
  <2>. QED BY <1>6, <2>1
<1>. QED BY <1>1, <1>2, <1>4, <1>6, <1>7, <1>8

ReadCellsOf(records) == [i \in DOMAIN records |-> ReadCells(records[i])]

LEMMA ReadCellsType ==
  ASSUME NEW records \in Seq(ReadRecord)
  PROVE  /\ ReadCellsOf(records) \in Seq(Seq(Nat)) /\ Len(ReadCellsOf(records)) = Len(records)
         /\ \A i \in 1..Len(records) :
              records[i] \in ReadRecord /\ ReadCellsOf(records)[i] = ReadCells(records[i])
         /\ Sized(ReadCellsOf(records))
<1>1. PICK n \in Nat : n = Len(records) /\ DOMAIN records = 1..n
  OBVIOUS
<1>2. PICK c : c = ReadCellsOf(records)
  OBVIOUS
<1>3. c = [i \in 1..n |-> ReadCells(records[i])]
  BY <1>1, <1>2 DEF ReadCellsOf
<1>4. ASSUME NEW i \in 1..n
      PROVE  /\ records[i] \in ReadRecord /\ c[i] = ReadCells(records[i]) /\ c[i] \in Seq(Nat)
             /\ Len(c[i]) > 1 /\ c[i][1] = Len(c[i]) - 1
  <2>1. PICK r \in ReadRecord : r = records[i]
    BY <1>1
  <2>2. c[i] = ReadCells(r)
    BY <1>3, <2>1
  <2>3. PICK l \in Nat : l = Len(r.data)
    BY DEF ReadRecord
  <2>4. c[i] \in Seq(Nat) /\ Len(c[i]) = 6 + l /\ c[i][1] = 5 + l
    BY <2>2, <2>3, ReadCellsAre
  <2>5. 6 + l > 1 /\ 5 + l = 6 + l - 1
    OBVIOUS
  <2>. QED BY <2>1, <2>2, <2>4, <2>5
<1>5. c \in Seq(Seq(Nat)) /\ Len(c) = n
  <2>1. \A i \in 1..n : c[i] \in Seq(Nat)
    BY <1>4
  <2>2. c = [i \in 1..n |-> c[i]]
    BY <1>3
  <2>. QED BY <2>1, <2>2
<1>. QED BY <1>1, <1>2, <1>4, <1>5 DEF Sized

ReadAt(m, first, last) ==
  [seq |-> m[first], ts |-> m[first + 1], writer |-> m[first + 2], wseq |-> m[first + 3],
   part |-> m[first + 4], data |-> SubSeq(m, first + 4 + 1, last)]
ReadAll(m) ==
  [i \in DOMAIN Bodies(m) |-> ReadAt(m, Bodies(m)[i][1], Bodies(m)[i][2])]
BatchAt(m, records) ==
  [payload |-> m,
   records |-> [i \in DOMAIN Bodies(m) |-> Meta(records[i], Bodies(m)[i][1] + 4)]]

LEMMA DecodeReadIs ==
  ASSUME NEW m
  PROVE  DecodeReadBatch(m) =
           IF BodiesValid(Bodies(m), 5, ReadRecords) /\ ReadValid(ReadAll(m))
           THEN ReadBatch(BatchAt(m, ReadAll(m))) ELSE Invalid
<1>1. ReadAll(m) = [i \in DOMAIN Bodies(m) |->
         [seq |-> m[Bodies(m)[i][1]], ts |-> m[Bodies(m)[i][1] + 1],
          writer |-> m[Bodies(m)[i][1] + 2], wseq |-> m[Bodies(m)[i][1] + 3],
          part |-> m[Bodies(m)[i][1] + 4],
          data |-> SubSeq(m, Bodies(m)[i][1] + 4 + 1, Bodies(m)[i][2])]]
  BY DEF ReadAll, ReadAt
<1>. QED BY <1>1 DEF DecodeReadBatch, BatchAt

\* A message is read as the records it is laid out with, if they are valid.
LEMMA ReadLaid ==
  ASSUME NEW records \in Seq(ReadRecord), NEW m \in Seq(Nat), NEW e,
         Laid(m, ReadCellsOf(records), e), e[1] = 1
  PROVE  LET batch == BatchAt(m, records)
         IN /\ DecodeReadBatch(m) = IF ReadValid(records) THEN ReadBatch(batch) ELSE Invalid
            /\ DOMAIN batch.records = DOMAIN records /\ View(batch) = records
<1>1. PICK n \in Nat : n = Len(records) /\ DOMAIN records = 1..n
  OBVIOUS
<1>2. PICK c \in Seq(Seq(Nat)) : c = ReadCellsOf(records) /\ Len(c) = n /\ Sized(c)
                                /\ \A i \in 1..n : c[i] = ReadCells(records[i])
  BY <1>1, ReadCellsType
<1>3. Laid(m, c, e) /\ e \in [1..(n + 1) -> Nat]
  BY <1>2 DEF Laid
<1>4. PICK b : b = Bodies(m) /\ b = BodyMarks(n, e)
  BY <1>2, <1>3, BodiesLaid
<1>5. Len(b) = n /\ DOMAIN b = 1..n /\ \A i \in 1..n : b[i][1] = e[i] + 2 /\ b[i][2] = e[i + 1]
  BY <1>3, <1>4, MarksFacts
<1>6. ASSUME NEW i \in 1..n
      PROVE  /\ b[i][2] - b[i][1] + 1 >= 5
             /\ ReadAt(m, b[i][1], b[i][2]) = records[i]
             /\ SubSeq(m, b[i][1] + 4 + 1, b[i][1] + 4 + Len(records[i].data)) = records[i].data
             /\ records[i] \in ReadRecord
  <2>1. PICK r \in ReadRecord : r = records[i]
    BY <1>1
  <2>2. PICK d \in Seq(Nat), l \in Nat : d = r.data /\ l = Len(d)
    BY DEF ReadRecord
  <2>3. PICK a \in Nat : a = e[i]
    <3>1. i \in 1..(n + 1)
      OBVIOUS
    <3>. QED BY <1>3, <3>1
  <2>4. PICK x \in Seq(Nat) : /\ x = c[i] /\ Len(x) = 6 + l /\ x[2] = r.seq /\ x[3] = r.ts
                             /\ x[4] = r.writer /\ x[5] = r.wseq /\ x[6] = r.part
                             /\ Inside(d, x, 6)
    <3>1. c[i] = ReadCells(r)
      BY <1>2, <2>1
    <3>. QED BY <2>2, <3>1, ReadCellsAre
  <2>5. e[i + 1] = a + (6 + l) /\ Inside(x, m, a)
    BY <1>2, <1>3, <2>3, <2>4 DEF Laid
  <2>6. b[i][1] = a + 2 /\ b[i][2] = a + 6 + l
    <3>1. a + (6 + l) = a + 6 + l
      OBVIOUS
    <3>. QED BY <1>5, <2>3, <2>5, <3>1
  <2>7. x[2] = m[a + 2] /\ x[3] = m[a + 3] /\ x[4] = m[a + 4] /\ x[5] = m[a + 5] /\ x[6] = m[a + 6]
    <3>1. 2 \in 1..Len(x) /\ 3 \in 1..Len(x) /\ 4 \in 1..Len(x) /\ 5 \in 1..Len(x) /\ 6 \in 1..Len(x)
      BY <2>4
    <3>. QED BY <2>5, <3>1 DEF Inside
  <2>8. SubSeq(m, a + 6 + 1, a + 6 + l) = d
    <3>1. PICK g \in Nat : g = a + 6
      OBVIOUS
    <3>2. g + l <= Len(m)
      <4>1. a + (6 + l) <= Len(m) /\ Len(m) \in Nat
        BY <2>4, <2>5 DEF Inside
      <4>. QED BY <3>1, <4>1
    <3>3. ASSUME NEW k \in 1..l PROVE d[k] = m[g + k]
      <4>1. d[k] = x[6 + k] /\ 6 + k \in 1..Len(x)
        <5>1. 6 + k \in 1..(6 + l) /\ k \in 1..Len(d)
          BY <2>2
        <5>. QED BY <2>4, <5>1 DEF Inside
      <4>2. x[6 + k] = m[a + (6 + k)]
        BY <2>5, <4>1 DEF Inside
      <4>3. a + (6 + k) = g + k
        BY <3>1
      <4>. QED BY <4>1, <4>2, <4>3
    <3>4. Inside(d, m, g)
      BY <2>2, <3>2, <3>3 DEF Inside
    <3>5. SubSeq(m, g + 1, g + Len(d)) = d
      BY ONLY <3>4, InsideIs, d \in Seq(Nat), m \in Seq(Nat), g \in Nat
    <3>. QED BY <2>2, <3>1, <3>5
  <2>9. /\ a + 2 + 1 = a + 3 /\ a + 2 + 2 = a + 4 /\ a + 2 + 3 = a + 5 /\ a + 2 + 4 = a + 6
        /\ a + 6 + l - (a + 2) + 1 >= 5
    OBVIOUS
  <2>10. ReadAt(m, b[i][1], b[i][2]) =
           [seq |-> r.seq, ts |-> r.ts, writer |-> r.writer, wseq |-> r.wseq, part |-> r.part,
            data |-> d]
    BY <2>4, <2>6, <2>7, <2>8, <2>9 DEF ReadAt
  <2>11. r = [seq |-> r.seq, ts |-> r.ts, writer |-> r.writer, wseq |-> r.wseq, part |-> r.part,
              data |-> d]
    BY <2>2 DEF ReadRecord
  <2>12. ReadAt(m, b[i][1], b[i][2]) = records[i]
    BY <2>1, <2>10, <2>11
  <2>13. SubSeq(m, b[i][1] + 4 + 1, b[i][1] + 4 + Len(records[i].data)) = records[i].data
    BY <2>1, <2>2, <2>6, <2>8, <2>9
  <2>14. b[i][2] - b[i][1] + 1 >= 5
    BY <2>6, <2>9
  <2>. QED BY <2>1, <2>12, <2>13, <2>14
<1>7. ReadAll(m) = records
  <2>1. ReadAll(m) = [i \in 1..n |-> ReadAt(m, b[i][1], b[i][2])]
    BY <1>4, <1>5 DEF ReadAll
  <2>2. records = [i \in 1..n |-> records[i]]
    BY <1>1
  <2>. QED BY <1>6, <2>1, <2>2
<1>8. BodiesValid(b, 5, ReadRecords) <=> BatchCountValid(records, ReadRecords)
  BY <1>1, <1>5, <1>6 DEF BodiesValid, BatchCountValid
<1>9. ReadValid(records) => BatchCountValid(records, ReadRecords)
  BY DEF ReadValid, BatchValid
<1>10. DecodeReadBatch(m) = IF ReadValid(records) THEN ReadBatch(BatchAt(m, records)) ELSE Invalid
  BY <1>4, <1>7, <1>8, <1>9, DecodeReadIs
<1>11. PICK batch : batch = BatchAt(m, records)
  OBVIOUS
<1>12. batch.payload = m /\ batch.records = [i \in 1..n |-> Meta(records[i], b[i][1] + 4)]
  BY <1>4, <1>5, <1>11 DEF BatchAt
<1>13. DOMAIN batch.records = 1..n
  BY <1>12
<1>14. ASSUME NEW i \in 1..n
       PROVE  LET q == batch.records[i] IN
              [seq |-> q.seq, ts |-> q.ts, writer |-> q.writer, wseq |-> q.wseq, part |-> q.part,
               data |-> SubSeq(batch.payload, q.start + 1, q.start + q.len)] = records[i]
  <2>1. PICK r \in ReadRecord : r = records[i]
    BY <1>6
  <2>2. PICK q : q = batch.records[i]
    OBVIOUS
  <2>3. q = Meta(r, b[i][1] + 4)
    BY <1>12, <2>1, <2>2
  <2>4. /\ q.seq = r.seq /\ q.ts = r.ts /\ q.writer = r.writer /\ q.wseq = r.wseq /\ q.part = r.part
        /\ q.start = b[i][1] + 4 /\ q.len = Len(r.data)
    BY <2>3 DEF Meta
  <2>5. SubSeq(batch.payload, q.start + 1, q.start + q.len) = r.data
    BY <1>6, <1>12, <2>1, <2>4
  <2>6. r = [seq |-> r.seq, ts |-> r.ts, writer |-> r.writer, wseq |-> r.wseq, part |-> r.part,
             data |-> r.data]
    BY DEF ReadRecord
  <2>. QED BY <2>1, <2>2, <2>4, <2>5, <2>6
<1>15. View(batch) = records
  <2>1. View(batch) = [i \in 1..n |->
              LET q == batch.records[i] IN
              [seq |-> q.seq, ts |-> q.ts, writer |-> q.writer, wseq |-> q.wseq, part |-> q.part,
               data |-> SubSeq(batch.payload, q.start + 1, q.start + q.len)]]
    BY <1>13 DEF View
  <2>2. records = [i \in 1..n |-> records[i]]
    BY <1>1
  <2>. QED BY <1>14, <2>1, <2>2
<1>. QED BY <1>1, <1>10, <1>11, <1>13, <1>15

\* A message that is read is laid out with records.
LEMMA ReadIsLaid ==
  ASSUME NEW m \in Seq(Nat), m # <<>>, DecodeReadBatch(m) # Invalid
  PROVE  \E records \in Seq(ReadRecord) : \E e : Laid(m, ReadCellsOf(records), e) /\ e[1] = 1
<1>1. BodiesValid(Bodies(m), 5, ReadRecords)
  BY DecodeReadIs
<1>2. PICK n \in Nat : \E e \in [1..(n + 1) -> Nat] :
           /\ e[1] = 1 /\ e[n + 1] = Len(m) /\ Bodies(m) = BodyMarks(n, e)
           /\ \A i \in 1..n : /\ e[i + 1] >= e[i] + 1 + 5 /\ e[i + 1] <= Len(m)
                             /\ m[e[i] + 1] = e[i + 1] - e[i] - 1
  <2>1. 5 \in Nat \ {0}
    OBVIOUS
  <2>. QED BY ONLY m \in Seq(Nat), m # <<>>, <1>1, <2>1, BodiesValidWalk
<1>3. PICK e \in [1..(n + 1) -> Nat] :
           /\ e[1] = 1 /\ e[n + 1] = Len(m)
           /\ \A i \in 1..n : /\ e[i + 1] >= e[i] + 1 + 5 /\ e[i + 1] <= Len(m)
                             /\ m[e[i] + 1] = e[i + 1] - e[i] - 1
  BY <1>2
<1>4. PICK records : records = [i \in 1..n |-> ReadAt(m, e[i] + 2, e[i + 1])]
  OBVIOUS
<1>5. ASSUME NEW i \in 1..n
      PROVE  /\ records[i] \in ReadRecord
             /\ e[i + 1] = e[i] + Len(ReadCells(records[i]))
             /\ Inside(ReadCells(records[i]), m, e[i])
  <2>1. PICK a \in Nat, z \in Nat : a = e[i] /\ z = e[i + 1]
    <3>1. i \in 1..(n + 1) /\ i + 1 \in 1..(n + 1)
      OBVIOUS
    <3>. QED BY <3>1
  <2>2. PICK l \in Nat : z = a + 6 + l /\ z <= Len(m) /\ m[a + 1] = 5 + l
    <3>1. z >= a + 1 + 5 /\ z <= Len(m) /\ m[a + 1] = z - a - 1
      BY <1>3, <2>1
    <3>2. z - a - 6 \in Nat /\ z = a + 6 + (z - a - 6) /\ z - a - 1 = 5 + (z - a - 6)
      BY <3>1
    <3>. QED BY <3>1, <3>2
  <2>3. PICK d : d = SubSeq(m, a + 6 + 1, a + 6 + l)
    OBVIOUS
  <2>4. d \in Seq(Nat) /\ Len(d) = l /\ \A k \in 1..l : d[k] = m[a + 6 + k]
    <3>1. a + 6 \in Nat /\ a + 6 + l \in Nat /\ a + 6 <= a + 6 + l /\ a + 6 + l <= Len(m)
      BY <2>2
    <3>2. (a + 6 + l) - (a + 6) = l
      OBVIOUS
    <3>3. d \in Seq(Nat) /\ Len(d) = (a + 6 + l) - (a + 6)
          /\ \A k \in 1..((a + 6 + l) - (a + 6)) : d[k] = m[a + 6 + k]
      BY <2>3, <3>1, PartFacts
    <3>. QED BY <3>2, <3>3
  <2>5. /\ m[a + 2] \in Nat /\ m[a + 3] \in Nat /\ m[a + 4] \in Nat /\ m[a + 5] \in Nat
        /\ m[a + 6] \in Nat
    <3>1. /\ a + 2 \in 1..Len(m) /\ a + 3 \in 1..Len(m) /\ a + 4 \in 1..Len(m)
          /\ a + 5 \in 1..Len(m) /\ a + 6 \in 1..Len(m)
      BY <2>2
    <3>. QED BY <3>1, ElementOfSeq
  <2>6. PICK r : r = [seq |-> m[a + 2], ts |-> m[a + 3], writer |-> m[a + 4], wseq |-> m[a + 5],
                      part |-> m[a + 6], data |-> d]
    OBVIOUS
  <2>7. r \in ReadRecord /\ r.data = d
    BY <2>4, <2>5, <2>6 DEF ReadRecord
  <2>8. records[i] = r
    <3>1. /\ a + 2 + 1 = a + 3 /\ a + 2 + 2 = a + 4 /\ a + 2 + 3 = a + 5 /\ a + 2 + 4 = a + 6
      OBVIOUS
    <3>2. records[i] = ReadAt(m, a + 2, a + 6 + l)
      BY <1>4, <2>1, <2>2
    <3>. QED BY <2>3, <2>6, <3>1, <3>2 DEF ReadAt
  <2>9. PICK c \in Seq(Nat) : /\ c = ReadCells(r) /\ Len(c) = 6 + l /\ c[1] = m[a + 1]
                             /\ c[2] = m[a + 2] /\ c[3] = m[a + 3] /\ c[4] = m[a + 4]
                             /\ c[5] = m[a + 5] /\ c[6] = m[a + 6] /\ Inside(d, c, 6)
    <3>1. r.seq = m[a + 2] /\ r.ts = m[a + 3] /\ r.writer = m[a + 4] /\ r.wseq = m[a + 5]
          /\ r.part = m[a + 6]
      BY <2>6
    <3>2. Len(r.data) = l
      BY <2>4, <2>7
    <3>. QED BY <2>2, <2>7, <3>1, <3>2, ReadCellsAre
  <2>10. ASSUME NEW k \in 1..(6 + l) PROVE c[k] = m[a + k]
    <3>1. CASE k \in 1..6
      <4>1. k = 1 \/ k = 2 \/ k = 3 \/ k = 4 \/ k = 5 \/ k = 6
        BY <3>1
      <4>. QED BY <2>9, <4>1
    <3>2. CASE k \notin 1..6
      <4>1. k - 6 \in 1..l /\ 6 + (k - 6) = k /\ a + 6 + (k - 6) = a + k
        BY <3>2
      <4>2. d[k - 6] = c[6 + (k - 6)]
        BY <2>4, <2>9, <4>1 DEF Inside
      <4>3. d[k - 6] = m[a + 6 + (k - 6)]
        BY <2>4, <4>1
      <4>. QED BY <4>1, <4>2, <4>3
    <3>. QED BY <3>1, <3>2
  <2>11. a + (6 + l) = a + 6 + l
    OBVIOUS
  <2>12. Inside(c, m, a)
    BY <2>2, <2>9, <2>10, <2>11 DEF Inside
  <2>13. z = a + Len(c)
    BY <2>2, <2>9, <2>11
  <2>. QED BY <2>1, <2>7, <2>8, <2>9, <2>12, <2>13
<1>6. records \in Seq(ReadRecord) /\ Len(records) = n
  <2>1. \A i \in 1..n : records[i] \in ReadRecord
    BY <1>5
  <2>2. records = [i \in 1..n |-> records[i]]
    BY <1>4
  <2>. QED BY ONLY n \in Nat, <2>1, <2>2, SequenceOf
<1>7. /\ Len(ReadCellsOf(records)) = n
      /\ \A i \in 1..n : ReadCellsOf(records)[i] = ReadCells(records[i])
  BY <1>6, ReadCellsType
<1>8. Laid(m, ReadCellsOf(records), e)
  BY <1>3, <1>5, <1>7 DEF Laid
<1>. QED BY <1>3, <1>6, <1>8

\* Without a gap and within the width of a number: one check of neighbours says both.
LEMMA ContiguousIs ==
  ASSUME NEW records \in Seq(ReadRecord), \A i \in 1..Len(records) : records[i].seq \in Numbers
  PROVE  ReadValid(records) <=> ProtocolBatch(records)
<1>1. PICK n \in Nat : n = Len(records) /\ DOMAIN records = 1..n
  OBVIOUS
<1>2. U64Max \in Nat
  BY FramesAssumption
<1>3. PICK x : x = [i \in 1..n |-> records[i].seq]
  OBVIOUS
<1>4. \A i \in 1..n : records[i].seq = x[i] /\ x[i] \in 0..U64Max
  BY <1>1, <1>3 DEF Numbers
<1>5. BatchValid(records, ReadRecords) => n >= 1
  BY <1>1 DEF BatchValid, BatchCountValid
<1>6. ASSUME ReadValid(records) PROVE ProtocolBatch(records)
  <2>1. \A i \in 2..n : x[i - 1] # U64Max /\ x[i] = x[i - 1] + 1
    <3>1. \A i \in 2..n : i \in 1..n /\ i - 1 \in 1..n
      OBVIOUS
    <3>. QED BY <1>1, <1>4, <1>6, <3>1 DEF ReadValid, SequenceContiguous
  <2>2. n >= 1
    BY <1>5, <1>6 DEF ReadValid
  <2>3. \A i \in 1..n : x[i] = x[1] + i - 1
    <3>. DEFINE T == {i \in 1..n : x[i] # x[1] + i - 1}
    <3>. SUFFICES ASSUME T # {} PROVE FALSE
      OBVIOUS
    <3>1. PICK i \in T : \A k \in T : i <= k
      <4>1. T \subseteq Nat
        OBVIOUS
      <4>. HIDE DEF T
      <4>. QED BY <4>1, LeastNumber
    <3>2. x[1] \in Nat /\ i \in 1..n /\ x[i] # x[1] + i - 1
      <4>1. 1 \in 1..n
        BY <2>2
      <4>. QED BY <1>4, <3>1, <4>1
    <3>3. i # 1
      BY <3>2
    <3>4. i - 1 \in 1..n /\ i \in 2..n /\ ~(i <= i - 1)
      BY <3>2, <3>3
    <3>5. i - 1 \notin T
      BY <3>1, <3>4
    <3>6. x[i - 1] = x[1] + (i - 1) - 1
      BY <3>4, <3>5
    <3>7. x[i] = x[1] + (i - 1) - 1 + 1
      BY <2>1, <3>4, <3>6
    <3>8. x[1] + (i - 1) - 1 + 1 = x[1] + i - 1
      <4>1. PICK y \in Nat : y = x[1]
        BY <3>2
      <4>2. y + (i - 1) - 1 + 1 = y + i - 1
        BY <3>4
      <4>. QED BY <4>1, <4>2
    <3>. QED BY <3>2, <3>7, <3>8
  <2>4. x[1] + n - 1 <= U64Max
    <3>1. n \in 1..n
      BY <2>2
    <3>2. x[n] <= U64Max
      BY <1>2, <1>4, <3>1
    <3>. QED BY <2>3, <3>1, <3>2
  <2>5. x[1] = records[1].seq
    <3>1. 1 \in 1..n
      BY <2>2
    <3>. QED BY <1>4, <3>1
  <2>. QED BY <1>1, <1>4, <1>6, <2>3, <2>4, <2>5 DEF ProtocolBatch, ReadValid
<1>7. ASSUME ProtocolBatch(records) PROVE ReadValid(records)
  <2>1. n >= 1
    BY <1>5, <1>7 DEF ProtocolBatch
  <2>2. PICK first \in Nat : first = records[1].seq
    <3>1. 1 \in 1..n
      BY <2>1
    <3>. QED BY <1>2, <1>4, <3>1
  <2>3. first + n - 1 <= U64Max /\ \A i \in 1..n : x[i] = first + i - 1
    BY <1>1, <1>4, <1>7, <2>2 DEF ProtocolBatch
  <2>4. ASSUME NEW i \in 2..n PROVE x[i - 1] # U64Max /\ x[i] = x[i - 1] + 1
    <3>1. i \in 1..n /\ i - 1 \in 1..n
      OBVIOUS
    <3>2. x[i] = first + i - 1 /\ x[i - 1] = first + (i - 1) - 1
      BY <2>3, <3>1
    <3>3. first + (i - 1) - 1 < first + n - 1 /\ first + i - 1 = first + (i - 1) - 1 + 1
      BY <3>1
    <3>. QED BY <1>2, <2>3, <3>2, <3>3
  <2>5. ASSUME NEW i \in 2..n
        PROVE  records[i - 1].seq # U64Max /\ records[i].seq = records[i - 1].seq + 1
    <3>1. i \in 1..n /\ i - 1 \in 1..n
      OBVIOUS
    <3>2. records[i].seq = x[i] /\ records[i - 1].seq = x[i - 1]
      BY <1>4, <3>1
    <3>. QED BY <2>4, <3>2
  <2>. QED BY <1>1, <1>7, <2>5 DEF ProtocolBatch, ReadValid, SequenceContiguous
<1>. QED BY <1>6, <1>7

\* The fields behind the first cell have the width of a number.
Wide(m) == \A i \in 2..Len(m) : m[i] \in Numbers

LEMMA LaidNumbers ==
  ASSUME NEW records \in Seq(ReadRecord), NEW m \in Seq(Nat), Wide(m), NEW e,
         Laid(m, ReadCellsOf(records), e), e[1] = 1
  PROVE  \A i \in 1..Len(records) : records[i].seq \in Numbers
<1>. SUFFICES ASSUME NEW i \in 1..Len(records) PROVE records[i].seq \in Numbers
  OBVIOUS
<1>1. PICK n \in Nat : n = Len(records)
  OBVIOUS
<1>2. PICK r \in ReadRecord : r = records[i] /\ ReadCellsOf(records)[i] = ReadCells(r)
  BY ReadCellsType
<1>3. PICK c \in Seq(Nat), l \in Nat : c = ReadCells(r) /\ Len(c) = 6 + l /\ c[2] = r.seq
  <2>1. Len(r.data) \in Nat
    BY DEF ReadRecord
  <2>. QED BY <2>1, ReadCellsAre
<1>4. Inside(c, m, e[i]) /\ e \in [1..(n + 1) -> Nat]
  BY <1>1, <1>2, <1>3, ReadCellsType DEF Laid
<1>5. PICK a \in Nat : a = e[i]
  <2>1. i \in 1..(n + 1)
    BY <1>1
  <2>. QED BY <1>4, <2>1
<1>6. m[a + 2] = r.seq /\ a + 2 \in 2..Len(m)
  <2>1. 2 \in 1..Len(c)
    BY <1>3
  <2>2. c[2] = m[a + 2] /\ a + Len(c) <= Len(m)
    BY <1>4, <1>5, <2>1 DEF Inside
  <2>. QED BY <1>3, <2>2
<1>. QED BY <1>2, <1>6 DEF Wide

\* A batch that is read is one the protocol allows, and its message is its encoding.
LEMMA ReadBatchExact ==
  ASSUME NEW m \in Seq(Nat), m # <<>>, m[1] = ReadBatchOp, Wide(m), DecodeReadBatch(m) # Invalid
  PROVE  LET frame == DecodeReadBatch(m)
         IN frame.op = "read_batch" /\ ProtocolBatch(View(frame.batch)) /\ EncodeServer(frame) = m
<1>1. PICK records \in Seq(ReadRecord) : \E e : Laid(m, ReadCellsOf(records), e) /\ e[1] = 1
  BY ReadIsLaid
<1>2. PICK e : Laid(m, ReadCellsOf(records), e) /\ e[1] = 1
  BY <1>1
<1>3. PICK batch : batch = BatchAt(m, records)
  OBVIOUS
<1>4. /\ DecodeReadBatch(m) = IF ReadValid(records) THEN ReadBatch(batch) ELSE Invalid
      /\ DOMAIN batch.records = DOMAIN records /\ View(batch) = records
  BY <1>2, <1>3, ReadLaid
<1>5. ReadValid(records)
  BY <1>4
<1>6. PICK frame : frame = DecodeReadBatch(m) /\ frame = ReadBatch(batch)
  BY <1>4, <1>5
<1>7. frame.op = "read_batch" /\ frame.batch = batch
  BY <1>6 DEF ReadBatch
<1>8. ProtocolBatch(records)
  BY <1>2, <1>5, ContiguousIs, LaidNumbers
<1>9. EncodeServer(frame) = <<ReadBatchOp>> \o FlattenSeq(ReadCellsOf(records))
  BY <1>4, <1>7 DEF EncodeServer, ReadCellsOf
<1>10. m = <<m[1]>> \o FlattenSeq(ReadCellsOf(records))
  BY <1>2, ReadCellsType, LaidIs
<1>. QED BY <1>4, <1>6, <1>7, <1>8, <1>9, <1>10

\* Records that are put into a message are read again, if the protocol allows them.
LEMMA ReadBatchComes ==
  ASSUME NEW records \in Seq(ReadRecord), \A i \in 1..Len(records) : records[i].seq \in Numbers
  PROVE  LET frame == DecodeReadBatch(RawBatch(records))
         IN /\ (frame # Invalid) = ProtocolBatch(records)
            /\ ProtocolBatch(records) => View(frame.batch) = records
<1>1. PICK c \in Seq(Seq(Nat)) : c = ReadCellsOf(records)
  BY ReadCellsType
<1>2. PICK m \in Seq(Nat) : m = <<ReadBatchOp>> \o FlattenSeq(c) /\ \E e : Laid(m, c, e) /\ e[1] = 1
  <2>1. ReadBatchOp \in Nat
    BY DEF ReadBatchOp
  <2>2. LET m == <<ReadBatchOp>> \o FlattenSeq(c)
        IN m \in Seq(Nat) /\ m # <<>> /\ m[1] = ReadBatchOp /\ \E e : Laid(m, c, e) /\ e[1] = 1
    BY ONLY <2>1, c \in Seq(Seq(Nat)), LaidBehind
  <2>. QED BY <2>2
<1>3. PICK e : Laid(m, c, e) /\ e[1] = 1
  BY <1>2
<1>4. RawBatch(records) = m
  BY <1>1, <1>2 DEF RawBatch, ReadCellsOf
<1>5. PICK batch : batch = BatchAt(m, records)
  OBVIOUS
<1>6. /\ DecodeReadBatch(m) = IF ReadValid(records) THEN ReadBatch(batch) ELSE Invalid
      /\ View(batch) = records
  BY <1>1, <1>3, <1>5, ReadLaid
<1>7. ReadValid(records) <=> ProtocolBatch(records)
  BY ContiguousIs
<1>8. ReadBatch(batch) # Invalid /\ ReadBatch(batch).batch = batch
  <2>1. ReadBatch(batch).op = "read_batch" /\ Invalid.op = "invalid"
    BY DEF ReadBatch, Invalid
  <2>2. ReadBatch(batch).batch = batch
    BY DEF ReadBatch
  <2>. QED BY <2>1, <2>2
<1>9. ProtocolBatch(records) \in BOOLEAN
  BY DEF ProtocolBatch, BatchValid
<1>10. CASE ProtocolBatch(records)
  <2>1. DecodeReadBatch(m) = ReadBatch(batch)
    BY <1>6, <1>7, <1>10
  <2>2. (DecodeReadBatch(m) # Invalid) = TRUE /\ View(DecodeReadBatch(m).batch) = records
    BY <1>6, <1>8, <2>1
  <2>. QED BY <1>4, <1>9, <1>10, <2>2
<1>11. CASE ~ProtocolBatch(records)
  <2>1. DecodeReadBatch(m) = Invalid
    BY <1>6, <1>7, <1>11
  <2>2. (DecodeReadBatch(m) # Invalid) = FALSE
    BY <2>1
  <2>. QED BY <1>4, <1>9, <1>11, <2>2
<1>. QED BY <1>10, <1>11

LEMMA AppendCellsAre ==
  ASSUME NEW r \in AppendRecord
  PROVE  LET c == AppendCells(r)
         IN /\ c \in Seq(Nat) /\ Len(c) = 3 + Len(r.data) /\ c[1] = 2 + Len(r.data)
            /\ c[2] = r.wseq /\ c[3] = r.part /\ Inside(r.data, c, 3)
<1>1. PICK d \in Seq(Nat) : d = r.data
  BY DEF AppendRecord
<1>2. PICK l \in Nat : l = Len(d)
  OBVIOUS
<1>3. PICK h : h = <<2 + l, r.wseq, r.part>>
  OBVIOUS
<1>4. h \in Seq(Nat) /\ Len(h) = 3 /\ h[1] = 2 + l /\ h[2] = r.wseq /\ h[3] = r.part
  <2>1. 2 + l \in Nat /\ r.wseq \in Nat /\ r.part \in Nat
    BY DEF AppendRecord
  <2>. QED BY <1>3, <2>1
<1>5. PICK c : c = h \o d
  OBVIOUS
<1>6. c \in Seq(Nat) /\ Len(c) = 3 + l /\ Inside(d, c, 3) /\ \A i \in 1..3 : c[i] = h[i]
  BY <1>2, <1>4, <1>5, FieldsInFront
<1>7. AppendCells(r) = c
  BY <1>1, <1>2, <1>3, <1>5 DEF AppendCells
<1>8. c[1] = h[1] /\ c[2] = h[2] /\ c[3] = h[3]
  <2>1. 1 \in 1..3 /\ 2 \in 1..3 /\ 3 \in 1..3
    OBVIOUS
  <2>. QED BY <1>6, <2>1
<1>. QED BY <1>1, <1>2, <1>4, <1>6, <1>7, <1>8

AppendCellsOf(records) == [i \in DOMAIN records |-> AppendCells(records[i])]

LEMMA AppendCellsType ==
  ASSUME NEW records \in Seq(AppendRecord)
  PROVE  /\ AppendCellsOf(records) \in Seq(Seq(Nat)) /\ Len(AppendCellsOf(records)) = Len(records)
         /\ \A i \in 1..Len(records) :
              records[i] \in AppendRecord /\ AppendCellsOf(records)[i] = AppendCells(records[i])
         /\ Sized(AppendCellsOf(records))
<1>1. PICK n \in Nat : n = Len(records) /\ DOMAIN records = 1..n
  OBVIOUS
<1>2. PICK c : c = AppendCellsOf(records)
  OBVIOUS
<1>3. c = [i \in 1..n |-> AppendCells(records[i])]
  BY <1>1, <1>2 DEF AppendCellsOf
<1>4. ASSUME NEW i \in 1..n
      PROVE  /\ records[i] \in AppendRecord /\ c[i] = AppendCells(records[i]) /\ c[i] \in Seq(Nat)
             /\ Len(c[i]) > 1 /\ c[i][1] = Len(c[i]) - 1
  <2>1. PICK r \in AppendRecord : r = records[i]
    BY <1>1
  <2>2. c[i] = AppendCells(r)
    BY <1>3, <2>1
  <2>3. PICK l \in Nat : l = Len(r.data)
    BY DEF AppendRecord
  <2>4. c[i] \in Seq(Nat) /\ Len(c[i]) = 3 + l /\ c[i][1] = 2 + l
    BY <2>2, <2>3, AppendCellsAre
  <2>5. 3 + l > 1 /\ 2 + l = 3 + l - 1
    OBVIOUS
  <2>. QED BY <2>1, <2>2, <2>4, <2>5
<1>5. c \in Seq(Seq(Nat)) /\ Len(c) = n
  <2>1. \A i \in 1..n : c[i] \in Seq(Nat)
    BY <1>4
  <2>2. c = [i \in 1..n |-> c[i]]
    BY <1>3
  <2>. QED BY <2>1, <2>2
<1>. QED BY <1>1, <1>2, <1>4, <1>5 DEF Sized

AppendAt(m, first, last) ==
  [wseq |-> m[first], part |-> m[first + 1], data |-> SubSeq(m, first + 2, last)]
AppendAll(m) ==
  [i \in DOMAIN Bodies(m) |-> AppendAt(m, Bodies(m)[i][1], Bodies(m)[i][2])]

LEMMA DecodeAppendIs ==
  ASSUME NEW m
  PROVE  DecodeAppend(m) =
           IF BodiesValid(Bodies(m), 2, AppendRecords) /\ AppendValid(AppendAll(m))
           THEN AppendBatch(AppendAll(m)) ELSE Invalid
BY DEF DecodeAppend, AppendAll, AppendAt

LEMMA AppendLaid ==
  ASSUME NEW records \in Seq(AppendRecord), NEW m \in Seq(Nat), NEW e,
         Laid(m, AppendCellsOf(records), e), e[1] = 1
  PROVE  DecodeAppend(m) = IF AppendValid(records) THEN AppendBatch(records) ELSE Invalid
<1>1. PICK n \in Nat : n = Len(records) /\ DOMAIN records = 1..n
  OBVIOUS
<1>2. PICK c \in Seq(Seq(Nat)) : c = AppendCellsOf(records) /\ Len(c) = n /\ Sized(c)
                                /\ \A i \in 1..n : c[i] = AppendCells(records[i])
  BY <1>1, AppendCellsType
<1>3. Laid(m, c, e) /\ e \in [1..(n + 1) -> Nat]
  BY <1>2 DEF Laid
<1>4. PICK b : b = Bodies(m) /\ b = BodyMarks(n, e)
  BY <1>2, <1>3, BodiesLaid
<1>5. Len(b) = n /\ DOMAIN b = 1..n /\ \A i \in 1..n : b[i][1] = e[i] + 2 /\ b[i][2] = e[i + 1]
  BY <1>3, <1>4, MarksFacts
<1>6. ASSUME NEW i \in 1..n
      PROVE  /\ b[i][2] - b[i][1] + 1 >= 2
             /\ AppendAt(m, b[i][1], b[i][2]) = records[i]
             /\ records[i] \in AppendRecord
  <2>1. PICK r \in AppendRecord : r = records[i]
    BY <1>1
  <2>2. PICK d \in Seq(Nat), l \in Nat : d = r.data /\ l = Len(d)
    BY DEF AppendRecord
  <2>3. PICK a \in Nat : a = e[i]
    <3>1. i \in 1..(n + 1)
      OBVIOUS
    <3>. QED BY <1>3, <3>1
  <2>4. PICK x \in Seq(Nat) : /\ x = c[i] /\ Len(x) = 3 + l /\ x[2] = r.wseq /\ x[3] = r.part
                             /\ Inside(d, x, 3)
    <3>1. c[i] = AppendCells(r)
      BY <1>2, <2>1
    <3>. QED BY <2>2, <3>1, AppendCellsAre
  <2>5. e[i + 1] = a + (3 + l) /\ Inside(x, m, a)
    BY <1>2, <1>3, <2>3, <2>4 DEF Laid
  <2>6. b[i][1] = a + 2 /\ b[i][2] = a + 3 + l
    <3>1. a + (3 + l) = a + 3 + l
      OBVIOUS
    <3>. QED BY <1>5, <2>3, <2>5, <3>1
  <2>7. x[2] = m[a + 2] /\ x[3] = m[a + 3]
    <3>1. 2 \in 1..Len(x) /\ 3 \in 1..Len(x)
      BY <2>4
    <3>. QED BY <2>5, <3>1 DEF Inside
  <2>8. SubSeq(m, a + 3 + 1, a + 3 + l) = d
    <3>1. a + 3 \in Nat /\ a + 3 + l \in Nat /\ a + 3 <= a + 3 + l /\ a + 3 + l <= Len(m)
      <4>1. a + (3 + l) <= Len(m) /\ Len(m) \in Nat
        BY <2>4, <2>5 DEF Inside
      <4>. QED BY <4>1
    <3>2. PICK y : y = SubSeq(m, a + 3 + 1, a + 3 + l)
      OBVIOUS
    <3>3. y \in Seq(Nat) /\ Len(y) = (a + 3 + l) - (a + 3)
          /\ \A k \in 1..((a + 3 + l) - (a + 3)) : y[k] = m[a + 3 + k]
      BY <3>1, <3>2, PartFacts
    <3>4. (a + 3 + l) - (a + 3) = l
      OBVIOUS
    <3>5. ASSUME NEW k \in 1..l PROVE y[k] = d[k]
      <4>1. d[k] = x[3 + k] /\ 3 + k \in 1..Len(x)
        <5>1. 3 + k \in 1..(3 + l) /\ k \in 1..Len(d)
          BY <2>2
        <5>. QED BY <2>4, <5>1 DEF Inside
      <4>2. x[3 + k] = m[a + (3 + k)] /\ a + (3 + k) = a + 3 + k
        BY <2>5, <4>1 DEF Inside
      <4>. QED BY <3>3, <3>4, <4>1, <4>2
    <3>6. y = d
      BY <2>2, <3>3, <3>4, <3>5, SameSequence
    <3>. QED BY <3>2, <3>6
  <2>9. a + 2 + 1 = a + 3 /\ a + 2 + 2 = a + 3 + 1 /\ a + 3 + l - (a + 2) + 1 >= 2
    OBVIOUS
  <2>10. AppendAt(m, b[i][1], b[i][2]) = [wseq |-> r.wseq, part |-> r.part, data |-> d]
    BY <2>4, <2>6, <2>7, <2>8, <2>9 DEF AppendAt
  <2>11. r = [wseq |-> r.wseq, part |-> r.part, data |-> d]
    BY <2>2 DEF AppendRecord
  <2>12. AppendAt(m, b[i][1], b[i][2]) = records[i]
    BY <2>1, <2>10, <2>11
  <2>13. b[i][2] - b[i][1] + 1 >= 2
    BY <2>6, <2>9
  <2>. QED BY <2>1, <2>12, <2>13
<1>7. AppendAll(m) = records
  <2>1. AppendAll(m) = [i \in 1..n |-> AppendAt(m, b[i][1], b[i][2])]
    BY <1>4, <1>5 DEF AppendAll
  <2>2. records = [i \in 1..n |-> records[i]]
    BY <1>1
  <2>. QED BY <1>6, <2>1, <2>2
<1>8. BodiesValid(b, 2, AppendRecords) <=> BatchCountValid(records, AppendRecords)
  BY <1>1, <1>5, <1>6 DEF BodiesValid, BatchCountValid
<1>9. AppendValid(records) => BatchCountValid(records, AppendRecords)
  BY DEF AppendValid, BatchValid
<1>. QED BY <1>4, <1>7, <1>8, <1>9, DecodeAppendIs

LEMMA AppendIsLaid ==
  ASSUME NEW m \in Seq(Nat), m # <<>>, DecodeAppend(m) # Invalid
  PROVE  \E records \in Seq(AppendRecord) :
           \E e : Laid(m, AppendCellsOf(records), e) /\ e[1] = 1
<1>1. BodiesValid(Bodies(m), 2, AppendRecords)
  BY DecodeAppendIs
<1>2. PICK n \in Nat : \E e \in [1..(n + 1) -> Nat] :
           /\ e[1] = 1 /\ e[n + 1] = Len(m) /\ Bodies(m) = BodyMarks(n, e)
           /\ \A i \in 1..n : /\ e[i + 1] >= e[i] + 1 + 2 /\ e[i + 1] <= Len(m)
                             /\ m[e[i] + 1] = e[i + 1] - e[i] - 1
  <2>1. 2 \in Nat \ {0}
    OBVIOUS
  <2>. QED BY ONLY m \in Seq(Nat), m # <<>>, <1>1, <2>1, BodiesValidWalk
<1>3. PICK e \in [1..(n + 1) -> Nat] :
           /\ e[1] = 1 /\ e[n + 1] = Len(m)
           /\ \A i \in 1..n : /\ e[i + 1] >= e[i] + 1 + 2 /\ e[i + 1] <= Len(m)
                             /\ m[e[i] + 1] = e[i + 1] - e[i] - 1
  BY <1>2
<1>4. PICK records : records = [i \in 1..n |-> AppendAt(m, e[i] + 2, e[i + 1])]
  OBVIOUS
<1>5. ASSUME NEW i \in 1..n
      PROVE  /\ records[i] \in AppendRecord
             /\ e[i + 1] = e[i] + Len(AppendCells(records[i]))
             /\ Inside(AppendCells(records[i]), m, e[i])
  <2>1. PICK a \in Nat, z \in Nat : a = e[i] /\ z = e[i + 1]
    <3>1. i \in 1..(n + 1) /\ i + 1 \in 1..(n + 1)
      OBVIOUS
    <3>. QED BY <3>1
  <2>2. PICK l \in Nat : z = a + 3 + l /\ z <= Len(m) /\ m[a + 1] = 2 + l
    <3>1. z >= a + 1 + 2 /\ z <= Len(m) /\ m[a + 1] = z - a - 1
      BY <1>3, <2>1
    <3>2. z - a - 3 \in Nat /\ z = a + 3 + (z - a - 3) /\ z - a - 1 = 2 + (z - a - 3)
      BY <3>1
    <3>. QED BY <3>1, <3>2
  <2>3. PICK d : d = SubSeq(m, a + 3 + 1, a + 3 + l)
    OBVIOUS
  <2>4. d \in Seq(Nat) /\ Len(d) = l /\ \A k \in 1..l : d[k] = m[a + 3 + k]
    <3>1. a + 3 \in Nat /\ a + 3 + l \in Nat /\ a + 3 <= a + 3 + l /\ a + 3 + l <= Len(m)
      BY <2>2
    <3>2. (a + 3 + l) - (a + 3) = l
      OBVIOUS
    <3>3. d \in Seq(Nat) /\ Len(d) = (a + 3 + l) - (a + 3)
          /\ \A k \in 1..((a + 3 + l) - (a + 3)) : d[k] = m[a + 3 + k]
      BY <2>3, <3>1, PartFacts
    <3>. QED BY <3>2, <3>3
  <2>5. m[a + 2] \in Nat /\ m[a + 3] \in Nat
    <3>1. a + 2 \in 1..Len(m) /\ a + 3 \in 1..Len(m)
      BY <2>2
    <3>. QED BY <3>1, ElementOfSeq
  <2>6. PICK r : r = [wseq |-> m[a + 2], part |-> m[a + 3], data |-> d]
    OBVIOUS
  <2>7. r \in AppendRecord /\ r.data = d
    BY <2>4, <2>5, <2>6 DEF AppendRecord
  <2>8. records[i] = r
    <3>1. a + 2 + 1 = a + 3 /\ a + 2 + 2 = a + 3 + 1
      OBVIOUS
    <3>2. records[i] = AppendAt(m, a + 2, a + 3 + l)
      BY <1>4, <2>1, <2>2
    <3>. QED BY <2>3, <2>6, <3>1, <3>2 DEF AppendAt
  <2>9. PICK c \in Seq(Nat) : /\ c = AppendCells(r) /\ Len(c) = 3 + l /\ c[1] = m[a + 1]
                             /\ c[2] = m[a + 2] /\ c[3] = m[a + 3] /\ Inside(d, c, 3)
    <3>1. r.wseq = m[a + 2] /\ r.part = m[a + 3]
      BY <2>6
    <3>2. Len(r.data) = l
      BY <2>4, <2>7
    <3>. QED BY <2>2, <2>7, <3>1, <3>2, AppendCellsAre
  <2>10. ASSUME NEW k \in 1..(3 + l) PROVE c[k] = m[a + k]
    <3>1. CASE k \in 1..3
      <4>1. k = 1 \/ k = 2 \/ k = 3
        BY <3>1
      <4>. QED BY <2>9, <4>1
    <3>2. CASE k \notin 1..3
      <4>1. k - 3 \in 1..l /\ 3 + (k - 3) = k /\ a + 3 + (k - 3) = a + k
        BY <3>2
      <4>2. d[k - 3] = c[3 + (k - 3)]
        BY <2>4, <2>9, <4>1 DEF Inside
      <4>3. d[k - 3] = m[a + 3 + (k - 3)]
        BY <2>4, <4>1
      <4>. QED BY <4>1, <4>2, <4>3
    <3>. QED BY <3>1, <3>2
  <2>11. a + (3 + l) = a + 3 + l
    OBVIOUS
  <2>12. Inside(c, m, a)
    BY <2>2, <2>9, <2>10, <2>11 DEF Inside
  <2>13. z = a + Len(c)
    BY <2>2, <2>9, <2>11
  <2>. QED BY <2>1, <2>7, <2>8, <2>9, <2>12, <2>13
<1>6. records \in Seq(AppendRecord) /\ Len(records) = n
  <2>1. \A i \in 1..n : records[i] \in AppendRecord
    BY <1>5
  <2>2. records = [i \in 1..n |-> records[i]]
    BY <1>4
  <2>. QED BY ONLY n \in Nat, <2>1, <2>2, SequenceOf
<1>7. /\ Len(AppendCellsOf(records)) = n
      /\ \A i \in 1..n : AppendCellsOf(records)[i] = AppendCells(records[i])
  BY <1>6, AppendCellsType
<1>8. Laid(m, AppendCellsOf(records), e)
  BY <1>3, <1>5, <1>7 DEF Laid
<1>. QED BY <1>3, <1>6, <1>8

\* An append that is read is one a client may send, and its message is its encoding.
LEMMA AppendExact ==
  ASSUME NEW m \in Seq(Nat), m # <<>>, m[1] = AppendBatchOp, DecodeAppend(m) # Invalid
  PROVE  LET frame == DecodeAppend(m)
         IN frame.op = "append_batch" /\ AppendValid(frame.records) /\ EncodeClient(frame) = m
<1>1. PICK records \in Seq(AppendRecord) :
        \E e : Laid(m, AppendCellsOf(records), e) /\ e[1] = 1
  BY AppendIsLaid
<1>2. PICK e : Laid(m, AppendCellsOf(records), e) /\ e[1] = 1
  BY <1>1
<1>3. DecodeAppend(m) = IF AppendValid(records) THEN AppendBatch(records) ELSE Invalid
  BY <1>2, AppendLaid
<1>4. AppendValid(records)
  BY <1>3
<1>5. PICK frame : frame = DecodeAppend(m) /\ frame = AppendBatch(records)
  BY <1>3, <1>4
<1>6. frame.op = "append_batch" /\ frame.records = records
  BY <1>5 DEF AppendBatch
<1>7. EncodeClient(frame) = <<AppendBatchOp>> \o FlattenSeq(AppendCellsOf(records))
  BY <1>4, <1>6 DEF EncodeClient, EncodeAppend, AppendCellsOf
<1>8. m = <<m[1]>> \o FlattenSeq(AppendCellsOf(records))
  BY <1>2, AppendCellsType, LaidIs
<1>. QED BY <1>4, <1>5, <1>6, <1>7, <1>8

LEMMA AppendComes ==
  ASSUME NEW records \in Seq(AppendRecord)
  PROVE  /\ EncodeAppend(records) \in Seq(Nat)
         /\ DecodeClient(EncodeAppend(records)) =
              IF AppendValid(records) THEN AppendBatch(records) ELSE Invalid
<1>1. CASE ~AppendValid(records)
  <2>1. EncodeAppend(records) = <<>> /\ <<>> \in Seq(Nat)
    BY <1>1 DEF EncodeAppend
  <2>2. DecodeClient(<<>>) = Invalid
    BY DEF DecodeClient
  <2>. QED BY <1>1, <2>1, <2>2
<1>2. CASE AppendValid(records)
  <2>1. PICK c \in Seq(Seq(Nat)) : c = AppendCellsOf(records)
    BY AppendCellsType
  <2>2. PICK m \in Seq(Nat) : /\ m = <<AppendBatchOp>> \o FlattenSeq(c) /\ m # <<>>
                             /\ m[1] = AppendBatchOp /\ \E e : Laid(m, c, e) /\ e[1] = 1
    <3>1. AppendBatchOp \in Nat
      BY DEF AppendBatchOp
    <3>2. LET m == <<AppendBatchOp>> \o FlattenSeq(c)
          IN /\ m \in Seq(Nat) /\ m # <<>> /\ m[1] = AppendBatchOp
             /\ \E e : Laid(m, c, e) /\ e[1] = 1
      BY ONLY <3>1, c \in Seq(Seq(Nat)), LaidBehind
    <3>. QED BY <3>2
  <2>3. PICK e : Laid(m, c, e) /\ e[1] = 1
    BY <2>2
  <2>4. EncodeAppend(records) = m
    BY <1>2, <2>1, <2>2 DEF EncodeAppend, AppendCellsOf
  <2>5. DecodeAppend(m) = AppendBatch(records)
    BY <1>2, <2>1, <2>3, AppendLaid
  <2>6. DecodeClient(m) = DecodeAppend(m)
    BY <2>2 DEF DecodeClient, OpenReadOp, OpenWriteOp, AppendBatchOp
  <2>. QED BY <1>2, <2>4, <2>5, <2>6
<1>. QED BY <1>1, <1>2

-----------------------------------------------------------------------------
(* The other frames.                                                       *)

LEMMA OpsDiffer ==
  /\ ReadyOp # AppendAckOp /\ ReadyOp # ReadBatchOp /\ ReadyOp # HeartbeatOp
  /\ ReadyOp # CaughtUpOp /\ ReadyOp # StreamMetadataOp
  /\ AppendAckOp # ReadBatchOp /\ AppendAckOp # HeartbeatOp /\ AppendAckOp # CaughtUpOp
  /\ AppendAckOp # StreamMetadataOp
  /\ ReadBatchOp # HeartbeatOp /\ ReadBatchOp # CaughtUpOp /\ ReadBatchOp # StreamMetadataOp
  /\ HeartbeatOp # CaughtUpOp /\ HeartbeatOp # StreamMetadataOp
  /\ CaughtUpOp # StreamMetadataOp
  /\ OpenReadOp # OpenWriteOp /\ OpenReadOp # AppendBatchOp /\ OpenWriteOp # AppendBatchOp
BY DEF ReadyOp, AppendAckOp, ReadBatchOp, HeartbeatOp, CaughtUpOp, StreamMetadataOp,
   OpenReadOp, OpenWriteOp, AppendBatchOp

LEMMA OpsNat ==
  /\ ReadyOp \in Nat /\ AppendAckOp \in Nat /\ ReadBatchOp \in Nat /\ HeartbeatOp \in Nat
  /\ CaughtUpOp \in Nat /\ StreamMetadataOp \in Nat
  /\ OpenReadOp \in Nat /\ OpenWriteOp \in Nat /\ AppendBatchOp \in Nat
BY DEF ReadyOp, AppendAckOp, ReadBatchOp, HeartbeatOp, CaughtUpOp, StreamMetadataOp,
   OpenReadOp, OpenWriteOp, AppendBatchOp

LEMMA Read_Ready ==
  ASSUME NEW m, m # <<>>, m[1] = ReadyOp
  PROVE  DecodeServer(m) = IF Len(m) = 2 /\ m[2] \in Kinds THEN Ready(m[2]) ELSE Invalid
BY OpsDiffer DEF DecodeServer

LEMMA Read_AppendAck ==
  ASSUME NEW m, m # <<>>, m[1] = AppendAckOp
  PROVE  DecodeServer(m) = IF Len(m) = 5 THEN AppendAck(m[2], m[3], m[4], m[5]) ELSE Invalid
BY OpsDiffer DEF DecodeServer

LEMMA Read_ReadBatch ==
  ASSUME NEW m, m # <<>>, m[1] = ReadBatchOp
  PROVE  DecodeServer(m) = DecodeReadBatch(m)
BY OpsDiffer DEF DecodeServer

LEMMA Read_Heartbeat ==
  ASSUME NEW m, m # <<>>, m[1] = HeartbeatOp
  PROVE  DecodeServer(m) = IF Len(m) = 1 THEN Heartbeat ELSE Invalid
BY OpsDiffer DEF DecodeServer

LEMMA Read_CaughtUp ==
  ASSUME NEW m, m # <<>>, m[1] = CaughtUpOp
  PROVE  DecodeServer(m) = IF Len(m) = 3 THEN CaughtUp(m[2], m[3]) ELSE Invalid
BY OpsDiffer DEF DecodeServer

LEMMA Read_StreamMetadata ==
  ASSUME NEW m, m # <<>>, m[1] = StreamMetadataOp
  PROVE  DecodeServer(m) = IF Len(m) = 2 /\ JsonValid(m[2])
                           THEN StreamMetadata(m[2] \div 10, m[2] % 10) ELSE Invalid
BY OpsDiffer DEF DecodeServer

LEMMA Read_None ==
  ASSUME NEW m,
         \/ m = <<>>
         \/ m[1] \notin {ReadyOp, AppendAckOp, ReadBatchOp, HeartbeatOp, CaughtUpOp, StreamMetadataOp}
  PROVE  DecodeServer(m) = Invalid
BY OpsDiffer DEF DecodeServer

LEMMA Read_OpenRead ==
  ASSUME NEW m, m # <<>>, m[1] = OpenReadOp
  PROVE  DecodeClient(m) = DecodeOpenRead(m)
BY OpsDiffer DEF DecodeClient

LEMMA Read_OpenWrite ==
  ASSUME NEW m, m # <<>>, m[1] = OpenWriteOp
  PROVE  DecodeClient(m) = DecodeOpenWrite(m)
BY OpsDiffer DEF DecodeClient

LEMMA Read_Append ==
  ASSUME NEW m, m # <<>>, m[1] = AppendBatchOp
  PROVE  DecodeClient(m) = DecodeAppend(m)
BY OpsDiffer DEF DecodeClient

LEMMA Read_Nothing ==
  ASSUME NEW m, m = <<>> \/ m[1] \notin {OpenReadOp, OpenWriteOp, AppendBatchOp}
  PROVE  DecodeClient(m) = Invalid
BY OpsDiffer DEF DecodeClient

LEMMA One == ASSUME NEW m \in Seq(Nat), Len(m) = 1 PROVE m = <<m[1]>>
OBVIOUS

LEMMA Two == ASSUME NEW m \in Seq(Nat), Len(m) = 2 PROVE m = <<m[1], m[2]>> /\ m[2] \in Nat
OBVIOUS

LEMMA Three == ASSUME NEW m \in Seq(Nat), Len(m) = 3 PROVE m = <<m[1], m[2], m[3]>> /\ m[3] \in Nat
OBVIOUS

LEMMA Four == ASSUME NEW m \in Seq(Nat), Len(m) = 4 PROVE m = <<m[1], m[2], m[3], m[4]>>
OBVIOUS

LEMMA CellIsNat == ASSUME NEW m \in Seq(Nat), NEW i \in 1..Len(m) PROVE m[i] \in Nat
OBVIOUS

LEMMA Five ==
  ASSUME NEW m \in Seq(Nat), Len(m) = 5
  PROVE  m = <<m[1], m[2], m[3], m[4], m[5]>> /\ m[4] \in Nat /\ m[5] \in Nat
<1>1. m = <<m[1], m[2], m[3], m[4], m[5]>>
  OBVIOUS
<1>2. 4 \in 1..Len(m) /\ 5 \in 1..Len(m)
  OBVIOUS
<1>. QED BY ONLY <1>1, <1>2, CellIsNat, m \in Seq(Nat)

LEMMA Behind ==
  ASSUME NEW a, NEW b, NEW c, NEW d, NEW e
  PROVE  <<a>> \o <<b, c, d, e>> = <<a, b, c, d, e>>
<1>1. PICK S : S = {a, b, c, d, e}
  OBVIOUS
<1>2. <<a>> \in Seq(S) /\ <<b, c, d, e>> \in Seq(S) /\ <<a, b, c, d, e>> \in Seq(S)
  BY <1>1
<1>3. PICK x \in Seq(S), y \in Seq(S), z \in Seq(S) :
        x = <<a>> /\ y = <<b, c, d, e>> /\ z = <<a, b, c, d, e>>
  BY <1>2
<1>4. Len(x) = 1 /\ Len(y) = 4 /\ Len(z) = 5 /\ x[1] = a /\ y[1] = b /\ y[2] = c /\ y[3] = d
      /\ y[4] = e
  BY <1>3
<1>5. z[1] = a /\ z[2] = b /\ z[3] = c /\ z[4] = d /\ z[5] = e
  BY <1>3
<1>6. ASSUME NEW i \in 1..5  PROVE (x \o y)[i] = z[i]
  <2>1. i \in 1..(Len(x) + Len(y))
    BY <1>4
  <2>2. (x \o y)[i] = IF i <= Len(x) THEN x[i] ELSE y[i - Len(x)]
    BY ONLY <2>1, ConcatProperties, x \in Seq(S), y \in Seq(S)
  <2>3. (x \o y)[i] = IF i <= 1 THEN x[i] ELSE y[i - 1]
    BY ONLY <2>2, <1>4
  <2>4. i = 1 \/ i = 2 \/ i = 3 \/ i = 4 \/ i = 5
    OBVIOUS
  <2>5. i = 1 => (x \o y)[i] = z[i]
    BY <1>4, <1>5, <2>3
  <2>6. i = 2 => (x \o y)[i] = z[i]
    BY <1>4, <1>5, <2>3
  <2>7. i = 3 => (x \o y)[i] = z[i]
    BY <1>4, <1>5, <2>3
  <2>8. i = 4 => (x \o y)[i] = z[i]
    BY <1>4, <1>5, <2>3
  <2>9. i = 5 => (x \o y)[i] = z[i]
    BY <1>4, <1>5, <2>3
  <2>. QED BY ONLY <2>4, <2>5, <2>6, <2>7, <2>8, <2>9
<1>7. x \o y \in Seq(S) /\ Len(x \o y) = 5
  <2>1. x \o y \in Seq(S) /\ Len(x \o y) = Len(x) + Len(y)
    BY ConcatProperties
  <2>. QED BY <1>4, <2>1
<1>8. x \o y = z
  BY <1>4, <1>6, <1>7, SameSequence
<1>. QED BY <1>3, <1>8

LEMMA Digits ==
  ASSUME NEW x \in Nat
  PROVE  10 * (x \div 10) + (x % 10) = x /\ x \div 10 \in Nat
OBVIOUS

\* What is built from a frame, and what its encoding is.
LEMMA ReadyFrame ==
  ASSUME NEW k
  PROVE  /\ Constructible(Ready(k)) /\ Reencoded(Ready(k)) = <<ReadyOp, k>>
         /\ EncodeServer(Ready(k)) = <<ReadyOp, k>>
BY DEF Ready, Constructible, Reencoded, EncodeServer

LEMMA AppendAckFrame ==
  ASSUME NEW a, NEW b, NEW c, NEW d
  PROVE  /\ Constructible(AppendAck(a, b, c, d))
         /\ Reencoded(AppendAck(a, b, c, d)) = <<AppendAckOp, a, b, c, d>>
         /\ EncodeServer(AppendAck(a, b, c, d)) = <<AppendAckOp, a, b, c, d>>
BY Behind DEF AppendAck, Constructible, Reencoded, EncodeServer

LEMMA HeartbeatFrame ==
  /\ Constructible(Heartbeat) /\ Reencoded(Heartbeat) = <<HeartbeatOp>>
  /\ EncodeServer(Heartbeat) = <<HeartbeatOp>>
BY DEF Heartbeat, Constructible, Reencoded, EncodeServer

LEMMA CaughtUpFrame ==
  ASSUME NEW a, NEW b
  PROVE  /\ Constructible(CaughtUp(a, b)) /\ Reencoded(CaughtUp(a, b)) = <<CaughtUpOp, a, b>>
         /\ EncodeServer(CaughtUp(a, b)) = <<CaughtUpOp, a, b>>
BY DEF CaughtUp, Constructible, Reencoded, EncodeServer

LEMMA StreamMetadataFrame ==
  ASSUME NEW a, NEW b
  PROVE  /\ Constructible(StreamMetadata(a, b))
         /\ Reencoded(StreamMetadata(a, b)) = <<StreamMetadataOp, Json(a, b)>>
         /\ EncodeServer(StreamMetadata(a, b)) = <<StreamMetadataOp, Json(a, b)>>
BY DEF StreamMetadata, Constructible, Reencoded, EncodeServer

LEMMA OpenReadFrame ==
  ASSUME NEW a
  PROVE  /\ Constructible(OpenRead(a)) /\ Reencoded(OpenRead(a)) = EncodeClient(OpenRead(a))
         /\ a = None => EncodeClient(OpenRead(a)) = <<OpenReadOp, 0>>
         /\ a # None => EncodeClient(OpenRead(a)) = <<OpenReadOp, 1, a>>
BY DEF OpenRead, Constructible, Reencoded, EncodeClient

LEMMA OpenWriteFrame ==
  ASSUME NEW a, NEW b, NEW c
  PROVE  /\ Constructible(OpenWrite(a, b, c)) = (b <= SafeMax)
         /\ Reencoded(OpenWrite(a, b, c)) = EncodeClient(OpenWrite(a, b, c))
         /\ b = None => EncodeClient(OpenWrite(a, b, c)) = <<OpenWriteOp, 0, a, c>>
         /\ b # None /\ b > SafeMax => EncodeClient(OpenWrite(a, b, c)) = <<>>
         /\ b # None /\ ~(b > SafeMax) => EncodeClient(OpenWrite(a, b, c)) = <<OpenWriteOp, 1, a, b, c>>
BY DEF OpenWrite, Constructible, Reencoded, EncodeClient

LEMMA BatchFrame ==
  ASSUME NEW f, f.op = "read_batch", ProtocolBatch(View(f.batch))
  PROVE  Constructible(f) /\ Reencoded(f) = EncodeServer(f)
BY DEF Constructible, Reencoded

LEMMA AppendFrame ==
  ASSUME NEW f, f.op = "append_batch", AppendValid(f.records)
  PROVE  Constructible(f) /\ Reencoded(f) = EncodeClient(f)
BY DEF Constructible, Reencoded

\* A frame of a server that is read could have been sent, and its message is its encoding.
LEMMA ServerExact ==
  ASSUME NEW m \in Seq(Nat), m # <<>> /\ m[1] = ReadBatchOp => Wide(m), DecodeServer(m) # Invalid
  PROVE  Constructible(DecodeServer(m)) /\ Reencoded(DecodeServer(m)) = m
<1>1. /\ m # <<>>
      /\ m[1] \in {ReadyOp, AppendAckOp, ReadBatchOp, HeartbeatOp, CaughtUpOp, StreamMetadataOp}
  BY Read_None
<1>2. CASE m[1] = ReadyOp
  <2>1. DecodeServer(m) = Ready(m[2]) /\ Len(m) = 2
    BY <1>1, <1>2, Read_Ready
  <2>2. m = <<ReadyOp, m[2]>>
    BY <1>2, <2>1, Two
  <2>. QED BY <2>1, <2>2, ReadyFrame
<1>3. CASE m[1] = AppendAckOp
  <2>1. DecodeServer(m) = AppendAck(m[2], m[3], m[4], m[5]) /\ Len(m) = 5
    BY <1>1, <1>3, Read_AppendAck
  <2>2. m = <<AppendAckOp, m[2], m[3], m[4], m[5]>>
    BY <1>3, <2>1, Five
  <2>. QED BY <2>1, <2>2, AppendAckFrame
<1>4. CASE m[1] = ReadBatchOp
  <2>1. DecodeServer(m) = DecodeReadBatch(m)
    BY <1>1, <1>4, Read_ReadBatch
  <2>2. PICK f : f = DecodeReadBatch(m)
    OBVIOUS
  <2>3. f.op = "read_batch" /\ ProtocolBatch(View(f.batch)) /\ EncodeServer(f) = m
    BY <1>1, <1>4, <2>1, <2>2, ReadBatchExact
  <2>. QED BY <2>1, <2>2, <2>3, BatchFrame
<1>5. CASE m[1] = HeartbeatOp
  <2>1. DecodeServer(m) = Heartbeat /\ Len(m) = 1
    BY <1>1, <1>5, Read_Heartbeat
  <2>. QED BY <1>5, <2>1, One, HeartbeatFrame
<1>6. CASE m[1] = CaughtUpOp
  <2>1. DecodeServer(m) = CaughtUp(m[2], m[3]) /\ Len(m) = 3
    BY <1>1, <1>6, Read_CaughtUp
  <2>2. m = <<CaughtUpOp, m[2], m[3]>>
    BY <1>6, <2>1, Three
  <2>. QED BY <2>1, <2>2, CaughtUpFrame
<1>7. CASE m[1] = StreamMetadataOp
  <2>1. DecodeServer(m) = StreamMetadata(m[2] \div 10, m[2] % 10) /\ Len(m) = 2
    BY <1>1, <1>7, Read_StreamMetadata
  <2>2. m = <<StreamMetadataOp, m[2]>> /\ m[2] \in Nat
    BY <1>7, <2>1, Two
  <2>3. Json(m[2] \div 10, m[2] % 10) = m[2]
    BY <2>2, Digits DEF Json
  <2>. QED BY <2>1, <2>2, <2>3, StreamMetadataFrame
<1>. QED BY <1>1, <1>2, <1>3, <1>4, <1>5, <1>6, <1>7

\* The same for a frame of a client.
LEMMA ClientExact ==
  ASSUME NEW m \in Seq(Nat), DecodeClient(m) # Invalid
  PROVE  Constructible(DecodeClient(m)) /\ Reencoded(DecodeClient(m)) = m
<1>1. m # <<>> /\ m[1] \in {OpenReadOp, OpenWriteOp, AppendBatchOp}
  BY Read_Nothing
<1>2. None = -1 /\ SafeMax \in Nat
  BY FramesAssumption DEF None
<1>3. CASE m[1] = OpenReadOp
  <2>1. DecodeClient(m) = DecodeOpenRead(m)
    BY <1>1, <1>3, Read_OpenRead
  <2>2. CASE Len(m) = 2 /\ m[2] = 0
    <3>1. DecodeClient(m) = OpenRead(None)
      BY <2>1, <2>2 DEF DecodeOpenRead
    <3>. QED BY <1>3, <2>2, <3>1, Two, OpenReadFrame
  <2>3. CASE ~(Len(m) = 2 /\ m[2] = 0)
    <3>1. DecodeClient(m) = OpenRead(m[3]) /\ Len(m) = 3 /\ m[2] = 1
      BY <2>1, <2>3 DEF DecodeOpenRead
    <3>2. m = <<OpenReadOp, 1, m[3]>> /\ m[3] \in Nat
      BY <1>3, <3>1, Three
    <3>3. m[3] # None
      BY <1>2, <3>2
    <3>. QED BY <3>1, <3>2, <3>3, OpenReadFrame
  <2>. QED BY <2>2, <2>3
<1>4. CASE m[1] = OpenWriteOp
  <2>1. DecodeClient(m) = DecodeOpenWrite(m)
    BY <1>1, <1>4, Read_OpenWrite
  <2>2. CASE Len(m) = 4 /\ m[2] = 0 /\ m[4] \in Secrets
    <3>1. DecodeClient(m) = OpenWrite(m[3], None, m[4])
      BY <2>1, <2>2 DEF DecodeOpenWrite
    <3>2. m = <<OpenWriteOp, 0, m[3], m[4]>>
      BY <1>4, <2>2, Four
    <3>3. None <= SafeMax
      BY <1>2
    <3>. QED BY <3>1, <3>2, <3>3, OpenWriteFrame
  <2>3. CASE ~(Len(m) = 4 /\ m[2] = 0 /\ m[4] \in Secrets)
    <3>1. DecodeClient(m) = OpenWrite(m[3], m[4], m[5]) /\ Len(m) = 5 /\ m[2] = 1 /\ m[4] <= SafeMax
      BY <2>1, <2>3 DEF DecodeOpenWrite
    <3>2. m = <<OpenWriteOp, 1, m[3], m[4], m[5]>> /\ m[4] \in Nat
      BY <1>4, <3>1, Five
    <3>3. m[4] # None /\ ~(m[4] > SafeMax)
      BY <1>2, <3>1, <3>2
    <3>. QED BY <3>1, <3>2, <3>3, OpenWriteFrame
  <2>. QED BY <2>2, <2>3
<1>5. CASE m[1] = AppendBatchOp
  <2>1. DecodeClient(m) = DecodeAppend(m)
    BY <1>1, <1>5, Read_Append
  <2>2. PICK f : f = DecodeAppend(m)
    OBVIOUS
  <2>3. f.op = "append_batch" /\ AppendValid(f.records) /\ EncodeClient(f) = m
    BY <1>1, <1>5, <2>1, <2>2, AppendExact
  <2>. QED BY <2>1, <2>2, <2>3, AppendFrame
<1>. QED BY <1>1, <1>3, <1>4, <1>5

OtherAnswers ==
  [op : {"ready"}, kind : Kinds] \cup [op : {"heartbeat"}]
    \cup [op : {"append_ack"}, ack : Numbers \X Numbers \X Numbers \X Numbers]
    \cup [op : {"caught_up"}, next : Numbers, last : Numbers]
    \cup [op : {"stream_metadata"}, stream : Nat, kind : Kinds]

LEMMA NumbersAreNat == Numbers \subseteq Nat /\ U64Max \in Nat /\ 0 \in Numbers
BY FramesAssumption DEF Numbers

\* What else a server sends is read as it was sent.
LEMMA AnswerComes ==
  ASSUME NEW f \in OtherAnswers
  PROVE  /\ EncodeServer(f) \in Seq(Nat) /\ EncodeServer(f) # <<>>
         /\ DecodeServer(EncodeServer(f)) = f
         /\ \/ EncodeServer(f)[1] \in {ReadyOp, StreamMetadataOp}
            \/ Wide(EncodeServer(f))
<1>1. CASE f \in [op : {"ready"}, kind : Kinds]
  <2>1. PICK k \in Kinds : f = Ready(k)
    BY <1>1 DEF Ready
  <2>2. PICK m : m = <<ReadyOp, k>>
    OBVIOUS
  <2>3. m \in Seq(Nat) /\ Len(m) = 2 /\ m[1] = ReadyOp /\ m[2] = k
    <3>1. k \in Nat
      BY DEF Kinds
    <3>2. ReadyOp \in Nat
      BY OpsNat
    <3>3. m \in Seq(Nat)
      BY <2>2, <3>1, <3>2
    <3>. QED BY <2>2, <3>3
  <2>4. m # <<>>
    BY <2>2
  <2>5. EncodeServer(f) = m
    BY <2>1, <2>2, ReadyFrame
  <2>6. DecodeServer(m) = f
    BY <2>1, <2>3, <2>4, Read_Ready
  <2>. QED BY <2>3, <2>4, <2>5, <2>6
<1>2. CASE f \in [op : {"heartbeat"}]
  <2>1. f = Heartbeat
    BY <1>2 DEF Heartbeat
  <2>2. PICK m : m = <<HeartbeatOp>>
    OBVIOUS
  <2>3. m \in Seq(Nat) /\ Len(m) = 1 /\ m[1] = HeartbeatOp
    BY <2>2, OpsNat
  <2>4. m # <<>> /\ Wide(m)
    BY <2>3 DEF Wide
  <2>5. EncodeServer(f) = m
    BY <2>1, <2>2, HeartbeatFrame
  <2>6. DecodeServer(m) = f
    BY <2>1, <2>3, <2>4, Read_Heartbeat
  <2>. QED BY <2>3, <2>4, <2>5, <2>6
<1>3. CASE f \in [op : {"append_ack"}, ack : Numbers \X Numbers \X Numbers \X Numbers]
  <2>1. PICK a \in Numbers, b \in Numbers, c \in Numbers, d \in Numbers : f = AppendAck(a, b, c, d)
    <3>1. PICK x \in Numbers \X Numbers \X Numbers \X Numbers : f = [op |-> "append_ack", ack |-> x]
      BY <1>3
    <3>2. PICK a \in Numbers, b \in Numbers, c \in Numbers, d \in Numbers : x = <<a, b, c, d>>
      OBVIOUS
    <3>. QED BY <3>1, <3>2 DEF AppendAck
  <2>2. PICK m : m = <<AppendAckOp, a, b, c, d>>
    OBVIOUS
  <2>3. m \in Seq(Nat) /\ Len(m) = 5 /\ m[1] = AppendAckOp /\ m[2] = a /\ m[3] = b /\ m[4] = c
        /\ m[5] = d
    <3>1. a \in Nat /\ b \in Nat /\ c \in Nat /\ d \in Nat /\ AppendAckOp \in Nat
      BY NumbersAreNat, OpsNat
    <3>2. m \in Seq(Nat)
      BY <2>2, <3>1
    <3>3. Len(m) = 5 /\ m[1] = AppendAckOp /\ m[2] = a /\ m[3] = b
      BY <2>2
    <3>4. m[4] = c /\ m[5] = d
      BY <2>2
    <3>. QED BY <3>2, <3>3, <3>4
  <2>4. m # <<>>
    BY <2>2
  <2>5. Wide(m)
    <3>1. \A i \in 2..5 : i = 2 \/ i = 3 \/ i = 4 \/ i = 5
      OBVIOUS
    <3>. QED BY <2>3, <3>1 DEF Wide
  <2>6. EncodeServer(f) = m
    BY <2>1, <2>2, AppendAckFrame
  <2>7. DecodeServer(m) = f
    BY <2>1, <2>3, <2>4, Read_AppendAck
  <2>. QED BY <2>3, <2>4, <2>5, <2>6, <2>7
<1>4. CASE f \in [op : {"caught_up"}, next : Numbers, last : Numbers]
  <2>1. PICK a \in Numbers, b \in Numbers : f = CaughtUp(a, b)
    BY <1>4 DEF CaughtUp
  <2>2. PICK m : m = <<CaughtUpOp, a, b>>
    OBVIOUS
  <2>3. m \in Seq(Nat) /\ Len(m) = 3 /\ m[1] = CaughtUpOp /\ m[2] = a /\ m[3] = b
    BY <2>2, NumbersAreNat, OpsNat
  <2>4. m # <<>>
    BY <2>3
  <2>5. Wide(m)
    <3>1. \A i \in 2..3 : i = 2 \/ i = 3
      OBVIOUS
    <3>. QED BY <2>3, <3>1 DEF Wide
  <2>6. EncodeServer(f) = m
    BY <2>1, <2>2, CaughtUpFrame
  <2>7. DecodeServer(m) = f
    BY <2>1, <2>3, <2>4, Read_CaughtUp
  <2>. QED BY <2>3, <2>4, <2>5, <2>6, <2>7
<1>5. CASE f \in [op : {"stream_metadata"}, stream : Nat, kind : Kinds]
  <2>1. PICK y \in Nat, k \in Kinds : f = StreamMetadata(y, k)
    BY <1>5 DEF StreamMetadata
  <2>2. PICK x : x = Json(y, k)
    OBVIOUS
  <2>3. x \in Nat /\ x % 10 = k /\ x \div 10 = y
    BY <2>2 DEF Json, Kinds
  <2>4. PICK m : m = <<StreamMetadataOp, x>>
    OBVIOUS
  <2>5. m \in Seq(Nat) /\ Len(m) = 2 /\ m[1] = StreamMetadataOp /\ m[2] = x
    BY <2>3, <2>4, OpsNat
  <2>6. m # <<>>
    BY <2>5
  <2>7. JsonValid(x)
    BY <2>1, <2>3 DEF JsonValid
  <2>8. EncodeServer(f) = m
    BY <2>1, <2>2, <2>4, StreamMetadataFrame
  <2>9. DecodeServer(m) = f
    BY <2>1, <2>3, <2>5, <2>6, <2>7, Read_StreamMetadata
  <2>. QED BY <2>5, <2>6, <2>8, <2>9
<1>. QED BY <1>1, <1>2, <1>3, <1>4, <1>5 DEF OtherAnswers

AnyOpening ==
  [op : {"open_read"}, secret : Nat \cup {None}]
    \cup [op : {"open_write"}, writer : Numbers, expected : Nat \cup {None}, secret : Nat]

\* An opening frame is read as it was sent, or refused.
LEMMA OpeningComes ==
  ASSUME NEW f \in AnyOpening
  PROVE  EncodeClient(f) \in Seq(Nat) /\ DecodeClient(EncodeClient(f)) \in {f, Invalid}
<1>0. SafeMax \in Nat /\ <<>> \in Seq(Nat) /\ DecodeClient(<<>>) = Invalid
  BY FramesAssumption, Read_Nothing
<1>1. CASE f \in [op : {"open_read"}, secret : Nat \cup {None}]
  <2>1. PICK a \in Nat \cup {None} : f = OpenRead(a)
    BY <1>1 DEF OpenRead
  <2>2. CASE a = None
    <3>1. PICK m : m = <<OpenReadOp, 0>>
      OBVIOUS
    <3>2. m \in Seq(Nat) /\ Len(m) = 2 /\ m[1] = OpenReadOp /\ m[2] = 0
      BY <3>1, OpsNat
    <3>3. m # <<>>
      BY <3>1
    <3>4. DecodeClient(m) = OpenRead(None)
      BY <3>2, <3>3, Read_OpenRead DEF DecodeOpenRead
    <3>5. EncodeClient(f) = m
      BY <2>1, <2>2, <3>1, OpenReadFrame
    <3>. QED BY <2>1, <2>2, <3>2, <3>4, <3>5
  <2>3. CASE a # None
    <3>1. PICK m : m = <<OpenReadOp, 1, a>>
      OBVIOUS
    <3>2. m \in Seq(Nat) /\ Len(m) = 3 /\ m[1] = OpenReadOp /\ m[2] = 1 /\ m[3] = a
      BY <2>3, <3>1, OpsNat
    <3>3. m # <<>>
      BY <3>1
    <3>4. DecodeClient(m) \in {OpenRead(a), Invalid}
      BY <3>2, <3>3, Read_OpenRead DEF DecodeOpenRead
    <3>5. EncodeClient(f) = m
      BY <2>1, <2>3, <3>1, OpenReadFrame
    <3>. QED BY <2>1, <3>2, <3>4, <3>5
  <2>. QED BY <2>2, <2>3
<1>2. CASE f \in [op : {"open_write"}, writer : Numbers, expected : Nat \cup {None}, secret : Nat]
  <2>1. PICK a \in Numbers, b \in Nat \cup {None}, c \in Nat : f = OpenWrite(a, b, c)
    BY <1>2 DEF OpenWrite
  <2>2. a \in Nat
    BY NumbersAreNat
  <2>3. CASE b = None
    <3>1. PICK m : m = <<OpenWriteOp, 0, a, c>>
      OBVIOUS
    <3>2. m \in Seq(Nat) /\ Len(m) = 4 /\ m[1] = OpenWriteOp /\ m[2] = 0 /\ m[3] = a /\ m[4] = c
      BY <2>2, <3>1, OpsNat
    <3>3. m # <<>>
      BY <3>1
    <3>4. DecodeClient(m) \in {OpenWrite(a, None, c), Invalid}
      BY <3>2, <3>3, Read_OpenWrite DEF DecodeOpenWrite
    <3>5. EncodeClient(f) = m
      BY <2>1, <2>3, <3>1, OpenWriteFrame
    <3>. QED BY <2>1, <2>3, <3>2, <3>4, <3>5
  <2>4. CASE b # None /\ b > SafeMax
    <3>1. EncodeClient(f) = <<>>
      BY <2>1, <2>4, OpenWriteFrame
    <3>. QED BY <1>0, <3>1
  <2>5. CASE b # None /\ ~(b > SafeMax)
    <3>1. PICK m : m = <<OpenWriteOp, 1, a, b, c>>
      OBVIOUS
    <3>2. m \in Seq(Nat) /\ Len(m) = 5 /\ m[1] = OpenWriteOp /\ m[2] = 1 /\ m[3] = a /\ m[4] = b
          /\ m[5] = c
      BY <2>2, <2>5, <3>1, OpsNat
    <3>3. m # <<>>
      BY <3>1
    <3>4. DecodeClient(m) \in {OpenWrite(a, b, c), Invalid}
      BY <3>2, <3>3, Read_OpenWrite DEF DecodeOpenWrite
    <3>5. EncodeClient(f) = m
      BY <2>1, <2>5, <3>1, OpenWriteFrame
    <3>. QED BY <2>1, <3>2, <3>4, <3>5
  <2>. QED BY <2>3, <2>4, <2>5
<1>. QED BY <1>1, <1>2 DEF AnyOpening

-----------------------------------------------------------------------------
(* Records as JSON.                                                        *)

DataOf(records) == [i \in DOMAIN records |-> records[i].data]

LEMMA DataType ==
  ASSUME NEW records \in Seq(ReadRecord)
  PROVE  /\ DataOf(records) \in Seq(Seq(Nat)) /\ Len(DataOf(records)) = Len(records)
         /\ \A i \in 1..Len(records) : DataOf(records)[i] = records[i].data
         /\ Payloads(records) = FlattenSeq(DataOf(records))
<1>1. PICK n \in Nat : n = Len(records) /\ DOMAIN records = 1..n
  OBVIOUS
<1>2. PICK f : f = DataOf(records)
  OBVIOUS
<1>3. f = [i \in 1..n |-> records[i].data]
  BY <1>1, <1>2 DEF DataOf
<1>4. \A i \in 1..n : f[i] = records[i].data
  BY <1>3
<1>5. \A i \in 1..n : f[i] \in Seq(Nat)
  <2>1. \A i \in 1..n : records[i] \in ReadRecord
    BY <1>1
  <2>. QED BY <1>4, <2>1 DEF ReadRecord
<1>6. f = [i \in 1..n |-> f[i]]
  BY <1>3
<1>7. f \in Seq(Seq(Nat)) /\ Len(f) = n
  BY <1>5, <1>6, SequenceOf
<1>8. Payloads(records) = FlattenSeq(DataOf(records))
  BY DEF Payloads, DataOf
<1>. QED BY <1>1, <1>2, <1>4, <1>7, <1>8

\* Where a payload begins among the payloads laid out one behind the other.
LEMMA PayloadsLaid ==
  ASSUME NEW records \in Seq(ReadRecord), NEW i \in 1..Len(records)
  PROVE  /\ Payloads(records) \in Seq(Nat) /\ PayloadBytes(SubSeq(records, 1, i - 1)) \in Nat
         /\ Inside(records[i].data, Payloads(records), PayloadBytes(SubSeq(records, 1, i - 1)))
<1>1. PICK n \in Nat : n = Len(records)
  OBVIOUS
<1>2. PICK c \in Seq(Seq(Nat)) : c = DataOf(records) /\ Len(c) = n
                                /\ \A k \in 1..n : c[k] = records[k].data
  BY <1>1, DataType
<1>3. Payloads(records) = FlattenSeq(c)
  BY <1>2, DataType
<1>4. PICK w \in Seq(Nat) : w = FlattenSeq(c)
  BY FlattenType
<1>5. PICK h \in Seq(Nat) : h = <<>> /\ Len(h) = 0 /\ h \o w = w
  <2>1. <<>> \in Seq(Nat) /\ Len(<<>>) = 0 /\ <<>> \o w = w
    BY <1>4
  <2>. QED BY <2>1
<1>6. PICK e : /\ e = [k \in 1..(n + 1) |-> Len(h) + Len(UpTo(c, k))]
               /\ Laid(h \o FlattenSeq(c), c, e)
  <2>1. LET e == [k \in 1..(Len(c) + 1) |-> Len(h) + Len(UpTo(c, k))]
        IN Laid(h \o FlattenSeq(c), c, e) /\ e[1] = Len(h)
    BY ONLY c \in Seq(Seq(Nat)), h \in Seq(Nat), FlattenLaid
  <2>. QED BY <1>2, <2>1
<1>7. Laid(w, c, e) /\ e \in [1..(n + 1) -> Nat]
  <2>1. Laid(w, c, e)
    BY <1>4, <1>5, <1>6
  <2>. QED BY <1>2, <2>1 DEF Laid
<1>8. i \in 1..n /\ i \in 1..(n + 1)
  BY <1>1
<1>9. Inside(records[i].data, w, e[i]) /\ e[i] \in Nat
  <2>1. Inside(c[i], w, e[i])
    BY <1>2, <1>7, <1>8 DEF Laid
  <2>. QED BY <1>2, <1>7, <1>8, <2>1
<1>10. e[i] = Len(UpTo(c, i))
  <2>1. e[i] = Len(h) + Len(UpTo(c, i))
    BY <1>6, <1>8
  <2>2. UpTo(c, i) \in Seq(Nat)
    BY <1>2, <1>8, UpToFacts
  <2>3. Len(UpTo(c, i)) \in Nat
    BY <2>2
  <2>. QED BY <1>5, <2>1, <2>3
<1>11. Payloads(SubSeq(records, 1, i - 1)) = UpTo(c, i)
  <2>1. PICK k \in Nat : k = i - 1 /\ k <= n /\ 0 <= k
    BY <1>8
  <2>2. PICK p : p = SubSeq(records, 1, k)
    OBVIOUS
  <2>3. p \in Seq(ReadRecord) /\ Len(p) = k /\ \A j \in 1..k : p[j] = records[j]
    <3>1. SubSeq(records, 0 + 1, k) \in Seq(ReadRecord) /\ Len(SubSeq(records, 0 + 1, k)) = k - 0
          /\ \A j \in 1..(k - 0) : SubSeq(records, 0 + 1, k)[j] = records[0 + j]
      BY <1>1, <2>1, PartFacts
    <3>2. 0 + 1 = 1 /\ k - 0 = k /\ \A j \in 1..k : 0 + j = j
      OBVIOUS
    <3>. QED BY <2>2, <3>1, <3>2
  <2>4. PICK q : q = SubSeq(c, 1, k)
    OBVIOUS
  <2>5. q \in Seq(Seq(Nat)) /\ Len(q) = k /\ \A j \in 1..k : q[j] = c[j]
    <3>1. SubSeq(c, 0 + 1, k) \in Seq(Seq(Nat)) /\ Len(SubSeq(c, 0 + 1, k)) = k - 0
          /\ \A j \in 1..(k - 0) : SubSeq(c, 0 + 1, k)[j] = c[0 + j]
      BY <1>2, <2>1, PartFacts
    <3>2. 0 + 1 = 1 /\ k - 0 = k /\ \A j \in 1..k : 0 + j = j
      OBVIOUS
    <3>. QED BY <2>4, <3>1, <3>2
  <2>6. PICK x \in Seq(Seq(Nat)) : x = DataOf(p) /\ Len(x) = k /\ \A j \in 1..k : x[j] = p[j].data
    BY <2>3, DataType
  <2>7. \A j \in 1..k : x[j] = q[j]
    <3>1. \A j \in 1..k : j \in 1..n
      BY <2>1
    <3>. QED BY <1>2, <2>3, <2>5, <2>6, <3>1
  <2>8. x = q
    BY <2>5, <2>6, <2>7, SameSequence
  <2>9. Payloads(p) = FlattenSeq(x)
    BY <2>3, <2>6, DataType
  <2>. QED BY <2>1, <2>2, <2>4, <2>8, <2>9 DEF UpTo
<1>. QED BY <1>3, <1>4, <1>9, <1>10, <1>11 DEF PayloadBytes

\* A batch over the payloads holds the records it is made of.
LEMMA BatchOfIs ==
  ASSUME NEW records \in Seq(ReadRecord)
  PROVE  View(BatchOf(records)) = records
<1>1. PICK n \in Nat : n = Len(records) /\ DOMAIN records = 1..n
  OBVIOUS
<1>2. PICK batch : batch = BatchOf(records)
  OBVIOUS
<1>3. PICK s : s = [i \in 1..n |-> PayloadBytes(SubSeq(records, 1, i - 1))]
  OBVIOUS
<1>4. batch.payload = Payloads(records) /\ batch.records = [i \in 1..n |-> Meta(records[i], s[i])]
  BY <1>1, <1>2, <1>3 DEF BatchOf
<1>5. DOMAIN batch.records = 1..n
  BY <1>4
<1>6. ASSUME NEW i \in 1..n
      PROVE  LET q == batch.records[i] IN
             [seq |-> q.seq, ts |-> q.ts, writer |-> q.writer, wseq |-> q.wseq, part |-> q.part,
              data |-> SubSeq(batch.payload, q.start + 1, q.start + q.len)] = records[i]
  <2>1. PICK r \in ReadRecord : r = records[i]
    BY <1>1
  <2>2. PICK q : q = batch.records[i]
    OBVIOUS
  <2>3. q = Meta(r, s[i])
    BY <1>4, <2>1, <2>2
  <2>4. /\ q.seq = r.seq /\ q.ts = r.ts /\ q.writer = r.writer /\ q.wseq = r.wseq /\ q.part = r.part
        /\ q.start = s[i] /\ q.len = Len(r.data)
    BY <2>3 DEF Meta
  <2>5. SubSeq(batch.payload, q.start + 1, q.start + q.len) = r.data
    <3>1. /\ Payloads(records) \in Seq(Nat) /\ s[i] \in Nat
          /\ Inside(r.data, Payloads(records), s[i]) /\ r.data \in Seq(Nat)
      <4>1. s[i] = PayloadBytes(SubSeq(records, 1, i - 1))
        BY <1>3
      <4>2. r.data \in Seq(Nat)
        BY DEF ReadRecord
      <4>. QED BY <1>1, <2>1, <4>1, <4>2, PayloadsLaid
    <3>2. SubSeq(Payloads(records), s[i] + 1, s[i] + Len(r.data)) = r.data
      BY <3>1, InsideIs
    <3>. QED BY <1>4, <2>4, <3>2
  <2>6. r = [seq |-> r.seq, ts |-> r.ts, writer |-> r.writer, wseq |-> r.wseq, part |-> r.part,
             data |-> r.data]
    BY DEF ReadRecord
  <2>. QED BY <2>1, <2>2, <2>4, <2>5, <2>6
<1>7. View(batch) = records
  <2>1. View(batch) = [i \in 1..n |->
              LET q == batch.records[i] IN
              [seq |-> q.seq, ts |-> q.ts, writer |-> q.writer, wseq |-> q.wseq, part |-> q.part,
               data |-> SubSeq(batch.payload, q.start + 1, q.start + q.len)]]
    BY <1>5 DEF View
  <2>2. records = [i \in 1..n |-> records[i]]
    BY <1>1
  <2>. QED BY <1>6, <2>1, <2>2
<1>. QED BY <1>2, <1>7

LEMMA PartComes ==
  ASSUME NEW p \in Headers
  PROVE  PartIndex(p) <= MaxIndex /\ JsonPart(<<PartIndex(p), IsFinal(p)>>) = p
<1>1. FinalBit \in Nat \ {0} /\ MaxIndex = FinalBit - 1 /\ p \in 0..(2 * FinalBit - 1)
  BY FramesAssumption DEF MaxIndex, Headers
<1>2. PICK index \in 0..MaxIndex, final \in BOOLEAN : p = PartRaw(index, final)
  <2>1. CASE p < FinalBit
    <3>1. p \in 0..MaxIndex /\ p = PartRaw(p, FALSE)
      BY <1>1, <2>1 DEF PartRaw
    <3>. QED BY <3>1
  <2>2. CASE ~(p < FinalBit)
    <3>1. p - FinalBit \in 0..MaxIndex /\ FinalBit + (p - FinalBit) = p
      BY <1>1, <2>2
    <3>2. PartRaw(p - FinalBit, TRUE) = p
      BY <3>1 DEF PartRaw
    <3>. QED BY <3>1, <3>2
  <2>. QED BY <2>1, <2>2
<1>3. PartIndex(p) = index /\ IsFinal(p) = final
  BY <1>2, HeaderFacts
<1>4. PICK part : part = <<index, final>>
  OBVIOUS
<1>5. part # <<>> /\ part[1] = index /\ part[2] = final
  BY <1>4
<1>6. JsonPart(part) = p
  BY <1>2, <1>5 DEF JsonPart
<1>7. index <= MaxIndex
  BY <1>1
<1>. QED BY <1>3, <1>4, <1>6, <1>7

WireRecord ==
  [seq : Numbers, ts : Numbers, writer : Numbers, wseq : Numbers, part : Headers, data : Seq(Numbers)]

\* What is read of a JSON record.
JsonIs(j) ==
  [seq |-> j.seq, ts |-> j.ts, writer |-> j.writer, wseq |-> j.wseq, part |-> JsonPart(j.part),
   data |-> JsonPayload(j)]

LEMMA JsonFormIs ==
  ASSUME NEW r \in WireRecord, NEW p,
         \/ p = <<PartIndex(r.part), IsFinal(r.part)>>
         \/ p = <<>> /\ r.part = Unsplit,
         NEW j, j = JsonRecord(r, p, r.data, Absent) \/ j = JsonRecord(r, p, Absent, r.data)
  PROVE  JsonRecordValid(j) /\ JsonIs(j) = r
<1>1. JsonPart(p) = r.part /\ (p # <<>> => p[1] <= MaxIndex)
  <2>1. r.part \in Headers
    BY DEF WireRecord
  <2>2. CASE p = <<PartIndex(r.part), IsFinal(r.part)>>
    <3>1. p[1] = PartIndex(r.part)
      BY <2>2
    <3>. QED BY <2>1, <2>2, <3>1, PartComes
  <2>3. CASE p = <<>> /\ r.part = Unsplit
    BY <2>3 DEF JsonPart
  <2>. QED BY <2>2, <2>3
<1>2. r.data # Absent
  <2>1. r.data \in Seq(Numbers)
    BY DEF WireRecord
  <2>2. PICK x \in Seq(Numbers) : x = r.data
    BY <2>1
  <2>3. x # <<-1>>
    <3>1. SUFFICES ASSUME x = <<-1>> PROVE FALSE
      OBVIOUS
    <3>2. Len(x) = 1 /\ x[1] = -1
      BY <3>1
    <3>3. 1 \in 1..Len(x)
      BY <3>2
    <3>4. x[1] \in Numbers
      BY <3>3, ElementOfSeq
    <3>. QED BY <3>2, <3>4, NumbersAreNat
  <2>. QED BY <2>2, <2>3 DEF Absent
<1>3. j.seq = r.seq /\ j.ts = r.ts /\ j.writer = r.writer /\ j.wseq = r.wseq /\ j.part = p
  BY DEF JsonRecord
<1>4. (j.text = r.data /\ j.bytes = Absent) \/ (j.text = Absent /\ j.bytes = r.data)
  BY DEF JsonRecord
<1>5. JsonPayload(j) = r.data
  BY <1>2, <1>4 DEF JsonPayload
<1>6. (j.text = Absent) # (j.bytes = Absent)
  BY <1>2, <1>4
<1>7. JsonRecordValid(j)
  BY <1>1, <1>3, <1>6 DEF JsonRecordValid
<1>8. r = [seq |-> r.seq, ts |-> r.ts, writer |-> r.writer, wseq |-> r.wseq, part |-> r.part,
           data |-> r.data]
  BY DEF WireRecord
<1>9. JsonIs(j) = r
  BY <1>1, <1>3, <1>5, <1>8 DEF JsonIs
<1>. QED BY <1>7, <1>9

LEMMA JsonFormOf ==
  ASSUME NEW r \in WireRecord, NEW j \in JsonForms(r)
  PROVE  JsonRecordValid(j) /\ JsonIs(j) = r
<1>1. PICK p : /\ \/ p = <<PartIndex(r.part), IsFinal(r.part)>>
                  \/ p = <<>> /\ r.part = Unsplit
               /\ j = JsonRecord(r, p, r.data, Absent) \/ j = JsonRecord(r, p, Absent, r.data)
  BY Zenon DEF JsonForms
<1>. QED BY <1>1, JsonFormIs

LEMMA SseReads ==
  ASSUME NEW json, NEW records \in Seq(ReadRecord), DOMAIN json = DOMAIN records,
         \A i \in DOMAIN records : JsonRecordValid(json[i]) /\ JsonIs(json[i]) = records[i]
  PROVE  SseReadBatch(json) =
           IF ReadValid(records) THEN ReadBatch(BatchOf(records)) ELSE Invalid
<1>1. records = [i \in DOMAIN json |-> records[i]]
  OBVIOUS
<1>2. records = [i \in DOMAIN json |->
         [seq |-> json[i].seq, ts |-> json[i].ts, writer |-> json[i].writer,
          wseq |-> json[i].wseq, part |-> JsonPart(json[i].part), data |-> JsonPayload(json[i])]]
  BY <1>1 DEF JsonIs
<1>3. \A i \in DOMAIN json : JsonRecordValid(json[i])
  OBVIOUS
<1>. QED BY <1>2, <1>3 DEF SseReadBatch

LEMMA NumbersSequence ==
  ASSUME NEW s \in Seq(Numbers)
  PROVE  s \in Seq(Nat)
<1>1. PICK n \in Nat : n = Len(s) /\ s = [i \in 1..n |-> s[i]]
  OBVIOUS
<1>2. \A i \in 1..n : s[i] \in Nat
  BY <1>1, NumbersAreNat, ElementOfSeq
<1>. QED BY <1>1, <1>2, SequenceOf

LEMMA WireRecords ==
  ASSUME NEW records \in Seq(WireRecord)
  PROVE  /\ records \in Seq(ReadRecord) /\ \A i \in 1..Len(records) : records[i].seq \in Numbers
         /\ \A i \in 1..Len(records) : records[i] \in WireRecord
<1>1. WireRecord \subseteq ReadRecord
  <2>1. Headers \subseteq Nat /\ Numbers \subseteq Nat
    BY WireAssumption, NumbersAreNat
  <2>2. \A s \in Seq(Numbers) : s \in Seq(Nat)
    BY NumbersSequence
  <2>. QED BY <2>1, <2>2 DEF WireRecord, ReadRecord
<1>2. records \in Seq(ReadRecord)
  BY <1>1
<1>3. \A i \in 1..Len(records) : records[i] \in WireRecord
  OBVIOUS
<1>4. \A i \in 1..Len(records) : records[i].seq \in Numbers
  BY <1>3 DEF WireRecord
<1>. QED BY <1>2, <1>3, <1>4

\* Whatever form a service gives a record, it is read as it was.
LEMMA JsonComes ==
  ASSUME NEW records \in Seq(WireRecord), NEW json \in JsonOf(records)
  PROVE  /\ (SseReadBatch(json) # Invalid) = ProtocolBatch(records)
         /\ ProtocolBatch(records) => View(SseReadBatch(json).batch) = records
<1>1. DOMAIN json = DOMAIN records /\ \A i \in DOMAIN records : json[i] \in JsonForms(records[i])
  BY DEF JsonOf
<1>2. \A i \in DOMAIN records : records[i] \in WireRecord
  OBVIOUS
<1>3. \A i \in DOMAIN records : JsonRecordValid(json[i]) /\ JsonIs(json[i]) = records[i]
  BY <1>1, <1>2, JsonFormOf
<1>4. PICK batch : batch = BatchOf(records)
  OBVIOUS
<1>5. records \in Seq(ReadRecord) /\ \A i \in 1..Len(records) : records[i].seq \in Numbers
  BY WireRecords
<1>6. SseReadBatch(json) = IF ReadValid(records) THEN ReadBatch(batch) ELSE Invalid
  BY <1>1, <1>3, <1>4, <1>5, SseReads
<1>7. ReadValid(records) <=> ProtocolBatch(records)
  BY <1>5, ContiguousIs
<1>8. ReadBatch(batch) # Invalid /\ ReadBatch(batch).batch = batch
  <2>1. ReadBatch(batch).op = "read_batch" /\ Invalid.op = "invalid"
    BY DEF ReadBatch, Invalid
  <2>2. ReadBatch(batch).batch = batch
    BY DEF ReadBatch
  <2>. QED BY <2>1, <2>2
<1>9. ProtocolBatch(records) \in BOOLEAN
  BY DEF ProtocolBatch, BatchValid
<1>10. View(batch) = records
  BY <1>4, <1>5, BatchOfIs
<1>11. CASE ProtocolBatch(records)
  <2>1. SseReadBatch(json) = ReadBatch(batch)
    BY <1>6, <1>7, <1>11
  <2>2. (SseReadBatch(json) # Invalid) = TRUE /\ View(SseReadBatch(json).batch) = records
    BY <1>8, <1>10, <2>1
  <2>. QED BY <1>9, <1>11, <2>2
<1>12. CASE ~ProtocolBatch(records)
  <2>1. SseReadBatch(json) = Invalid
    BY <1>6, <1>7, <1>12
  <2>2. (SseReadBatch(json) # Invalid) = FALSE
    BY <2>1
  <2>. QED BY <1>9, <1>12, <2>2
<1>. QED BY <1>11, <1>12


-----------------------------------------------------------------------------
(* What comes of a message on its way.                                     *)

LEMMA CutShort ==
  ASSUME NEW enc \in Seq(Nat), NEW n \in 0..(Len(enc) - 1)
  PROVE  /\ SubSeq(enc, 1, n) \in Seq(Nat) /\ Len(SubSeq(enc, 1, n)) = n /\ n <= Len(enc)
         /\ \A k \in 1..n : SubSeq(enc, 1, n)[k] = enc[k]
<1>1. n \in Nat /\ 0 <= n /\ n <= Len(enc) /\ n - 0 = n /\ 0 + 1 = 1 /\ \A k \in 1..n : 0 + k = k
  OBVIOUS
<1>2. SubSeq(enc, 0 + 1, n) \in Seq(Nat) /\ Len(SubSeq(enc, 0 + 1, n)) = n - 0
      /\ \A k \in 1..(n - 0) : SubSeq(enc, 0 + 1, n)[k] = enc[0 + k]
  BY <1>1, PartFacts
<1>. QED BY <1>1, <1>2

LEMMA OneMore ==
  ASSUME NEW enc \in Seq(Nat)
  PROVE  /\ Append(enc, 0) \in Seq(Nat) /\ Len(Append(enc, 0)) = Len(enc) + 1
         /\ \A k \in 1..(Len(enc) + 1) : Append(enc, 0)[k] = IF k <= Len(enc) THEN enc[k] ELSE 0
OBVIOUS

LEMMA OneOther ==
  ASSUME NEW enc \in Seq(Nat), NEW i \in DOMAIN enc, NEW x \in Nat
  PROVE  /\ [enc EXCEPT ![i] = x] \in Seq(Nat) /\ Len([enc EXCEPT ![i] = x]) = Len(enc)
         /\ \A k \in 1..Len(enc) : [enc EXCEPT ![i] = x][k] = IF k = i THEN x ELSE enc[k]
OBVIOUS

\* A message that is near another: each of its cells, but one.
LEMMA NearIs ==
  ASSUME NEW enc \in Seq(Nat), NEW m \in Near(enc)
  PROVE  /\ m \in Seq(Nat)
         /\ \A k \in 1..Len(m) :
              \/ k <= Len(enc) /\ m[k] = enc[k]
              \/ m[k] = 0
              \/ k <= Len(enc) /\ enc[k] # U64Max /\ m[k] = enc[k] + 1
              \/ k <= Len(enc) /\ enc[k] > 0 /\ m[k] = enc[k] - 1
<1>1. \/ m = enc
      \/ \E n \in 0..(Len(enc) - 1) : m = SubSeq(enc, 1, n)
      \/ m = Append(enc, 0)
      \/ \E i \in DOMAIN enc : enc[i] # U64Max /\ m = [enc EXCEPT ![i] = enc[i] + 1]
      \/ \E i \in DOMAIN enc : enc[i] > 0 /\ m = [enc EXCEPT ![i] = enc[i] - 1]
  BY Zenon DEF Near
<1>2. CASE m = enc
  BY <1>2
<1>3. ASSUME NEW n \in 0..(Len(enc) - 1), m = SubSeq(enc, 1, n)
      PROVE  m \in Seq(Nat) /\ \A k \in 1..Len(m) : k <= Len(enc) /\ m[k] = enc[k]
  <2>1. /\ m \in Seq(Nat) /\ Len(m) = n /\ n <= Len(enc) /\ Len(enc) \in Nat
        /\ \A k \in 1..n : m[k] = enc[k]
    BY <1>3, CutShort
  <2>. QED BY <2>1
<1>4. CASE m = Append(enc, 0)
  <2>1. /\ m \in Seq(Nat) /\ Len(m) = Len(enc) + 1 /\ Len(enc) \in Nat
        /\ \A k \in 1..(Len(enc) + 1) : m[k] = IF k <= Len(enc) THEN enc[k] ELSE 0
    BY <1>4, OneMore
  <2>. QED BY <2>1
<1>5. ASSUME NEW i \in DOMAIN enc, enc[i] # U64Max, m = [enc EXCEPT ![i] = enc[i] + 1]
      PROVE  m \in Seq(Nat)
             /\ \A k \in 1..Len(m) : \/ k <= Len(enc) /\ m[k] = enc[k]
                                     \/ k <= Len(enc) /\ enc[k] # U64Max /\ m[k] = enc[k] + 1
  <2>1. PICK x \in Nat : x = enc[i] + 1
    <3>1. enc[i] \in Nat
      OBVIOUS
    <3>. QED BY <3>1
  <2>2. /\ m \in Seq(Nat) /\ Len(m) = Len(enc) /\ Len(enc) \in Nat
        /\ \A k \in 1..Len(enc) : m[k] = IF k = i THEN x ELSE enc[k]
    BY <1>5, <2>1, OneOther
  <2>. QED BY <1>5, <2>1, <2>2
<1>6. ASSUME NEW i \in DOMAIN enc, enc[i] > 0, m = [enc EXCEPT ![i] = enc[i] - 1]
      PROVE  m \in Seq(Nat)
             /\ \A k \in 1..Len(m) : \/ k <= Len(enc) /\ m[k] = enc[k]
                                     \/ k <= Len(enc) /\ enc[k] > 0 /\ m[k] = enc[k] - 1
  <2>1. PICK x \in Nat : x = enc[i] - 1
    <3>1. enc[i] \in Nat
      OBVIOUS
    <3>. QED BY <1>6, <3>1
  <2>2. /\ m \in Seq(Nat) /\ Len(m) = Len(enc) /\ Len(enc) \in Nat
        /\ \A k \in 1..Len(enc) : m[k] = IF k = i THEN x ELSE enc[k]
    BY <1>6, <2>1, OneOther
  <2>. QED BY <1>6, <2>1, <2>2
<1>. QED BY <1>1, <1>2, <1>3, <1>4, <1>5, <1>6

LEMMA NearWide ==
  ASSUME NEW enc \in Seq(Nat), Wide(enc), NEW m \in Near(enc)
  PROVE  Wide(m)
<1>1. m \in Seq(Nat)
  BY NearIs
<1>2. ASSUME NEW k \in 2..Len(m) PROVE m[k] \in Numbers
  <2>1. k \in 1..Len(m)
    BY <1>1
  <2>2. \/ k <= Len(enc) /\ m[k] = enc[k]
        \/ m[k] = 0
        \/ k <= Len(enc) /\ enc[k] # U64Max /\ m[k] = enc[k] + 1
        \/ k <= Len(enc) /\ enc[k] > 0 /\ m[k] = enc[k] - 1
    BY <2>1, NearIs
  <2>3. k <= Len(enc) => enc[k] \in Numbers
    <3>1. k <= Len(enc) => k \in 2..Len(enc)
      BY <1>1
    <3>. QED BY <3>1 DEF Wide
  <2>. QED BY <2>2, <2>3, NumbersAreNat DEF Numbers
<1>. QED BY <1>2 DEF Wide

LEMMA NearOp ==
  ASSUME NEW enc \in Seq(Nat), enc # <<>>, enc[1] \in {ReadyOp, StreamMetadataOp},
         NEW m \in Near(enc), m # <<>>
  PROVE  m[1] # ReadBatchOp
<1>1. m \in Seq(Nat)
  BY NearIs
<1>2. Len(m) \in Nat \ {0}
  BY <1>1
<1>3. 1 \in 1..Len(m)
  BY <1>2
<1>4. m[1] = enc[1] \/ m[1] = 0 \/ m[1] = enc[1] + 1 \/ m[1] = enc[1] - 1
  BY <1>3, NearIs
<1>. QED BY <1>4 DEF ReadyOp, StreamMetadataOp, ReadBatchOp

LEMMA RawWide ==
  ASSUME NEW records \in Seq(WireRecord), \A i \in DOMAIN records : 5 + Len(records[i].data) \in Numbers
  PROVE  LET m == RawBatch(records)
         IN m \in Seq(Nat) /\ m # <<>> /\ m[1] = ReadBatchOp /\ Wide(m)
<1>1. PICK n \in Nat : n = Len(records) /\ DOMAIN records = 1..n
  OBVIOUS
<1>2. PICK c : c = ReadCellsOf(records)
  OBVIOUS
<1>3. c = [i \in 1..n |-> ReadCells(records[i])]
  BY <1>1, <1>2 DEF ReadCellsOf
<1>4. ASSUME NEW i \in 1..n PROVE c[i] \in Seq(Numbers)
  <2>1. PICK r \in WireRecord : r = records[i]
    BY <1>1
  <2>2. PICK d \in Seq(Numbers) : d = r.data
    BY DEF WireRecord
  <2>3. PICK x \in Numbers : x = 5 + Len(d)
    BY <1>1, <2>1, <2>2
  <2>4. PICK h : h = <<x, r.seq, r.ts, r.writer, r.wseq, r.part>>
    OBVIOUS
  <2>5. r.seq \in Numbers /\ r.ts \in Numbers /\ r.writer \in Numbers /\ r.wseq \in Numbers
        /\ r.part \in Numbers
    BY WireAssumption DEF WireRecord
  <2>6. h \in Seq(Numbers)
    BY <2>4, <2>5
  <2>7. h \o d \in Seq(Numbers)
    BY <2>6
  <2>8. ReadCells(r) = h \o d
    BY <2>2, <2>3, <2>4 DEF ReadCells
  <2>. QED BY <1>3, <2>1, <2>7, <2>8
<1>5. c \in Seq(Seq(Numbers))
  <2>1. c = [i \in 1..n |-> c[i]]
    BY <1>3
  <2>. QED BY <1>4, <2>1, SequenceOf
<1>6. PICK x \in Seq(Numbers) : x = FlattenSeq(c)
  BY <1>5, FlattenType
<1>7. x \in Seq(Nat)
  BY NumbersSequence
<1>8. PICK m : m = <<ReadBatchOp>> \o x
  OBVIOUS
<1>9. RawBatch(records) = m
  BY <1>2, <1>6, <1>8 DEF RawBatch, ReadCellsOf
<1>10. PICK h \in Seq(Nat) : h = <<ReadBatchOp>> /\ Len(h) = 1 /\ h[1] = ReadBatchOp
  <2>1. PICK op \in Nat : op = ReadBatchOp
    BY OpsNat
  <2>2. <<op>> \in Seq(Nat) /\ Len(<<op>>) = 1 /\ <<op>>[1] = op
    OBVIOUS
  <2>. QED BY <2>1, <2>2
<1>11. /\ m \in Seq(Nat) /\ Len(m) = 1 + Len(x) /\ Len(x) \in Nat
       /\ \A k \in 1..(1 + Len(x)) : m[k] = IF k <= 1 THEN h[k] ELSE x[k - 1]
  BY <1>7, <1>8, <1>10, ConcatProperties
<1>12. m # <<>> /\ m[1] = ReadBatchOp
  <2>1. 1 \in 1..(1 + Len(x))
    BY <1>11
  <2>2. m[1] = h[1]
    BY <1>11, <2>1
  <2>. QED BY <1>10, <1>11, <2>2
<1>13. Wide(m)
  <2>1. ASSUME NEW k \in 2..Len(m) PROVE m[k] \in Numbers
    <3>1. k \in 1..(1 + Len(x)) /\ ~(k <= 1) /\ k - 1 \in 1..Len(x)
      BY <1>11
    <3>2. x[k - 1] \in Numbers
      BY <3>1, ElementOfSeq
    <3>. QED BY <1>11, <3>1, <3>2
  <2>. QED BY <2>1 DEF Wide
<1>. QED BY <1>9, <1>11, <1>12, <1>13


-----------------------------------------------------------------------------
(* Frames come through unchanged.                                          *)

Exact(content, m, frame) ==
  /\ frame.op \notin {"nothing", "invalid", "sequence_mismatch", "closed"} =>
       Constructible(frame) /\ Reencoded(frame) = m
  /\ content.op = "records" =>
       LET valid == ProtocolBatch(content.records) IN
       /\ (frame # Invalid) = valid
       /\ valid => View(frame.batch) = content.records
       /\ \A json \in JsonOf(content.records) :
            /\ (SseReadBatch(json) # Invalid) = valid
            /\ valid => View(SseReadBatch(json).batch) = content.records
  /\ content.op = "append_batch" =>
       frame = IF AppendValid(content.records) THEN content ELSE Invalid
  /\ content.op \notin {"nothing", "records", "append_batch"} /\ frame # Invalid => frame = content

LEMMA NothingExact ==
  ASSUME NEW frame, frame.op \in {"nothing", "sequence_mismatch", "closed"}, NEW m
  PROVE  Exact(Nothing, m, frame)
<1>1. Nothing.op = "nothing"
  BY DEF Nothing
<1>. QED BY <1>1 DEF Exact

\* What a service puts into a message, and what a client reads of it.
LEMMA MessageIs ==
  ASSUME NEW content \in Contents
  PROVE  /\ MessageOf(content) \in Seq(Nat) /\ MessageOf(content) # <<>>
         /\ \/ MessageOf(content)[1] \in {ReadyOp, StreamMetadataOp}
            \/ Wide(MessageOf(content))
<1>1. CASE \E b \in Batches : content = [op |-> "records", records |-> b]
  <2>1. PICK b \in Batches : content.op = "records" /\ content.records = b
    BY <1>1
  <2>2. b \in Seq(WireRecord) /\ \A i \in DOMAIN b : 5 + Len(b[i].data) \in Numbers
    BY WireAssumption DEF WireRecord
  <2>3. MessageOf(content) = RawBatch(b)
    BY <2>1 DEF MessageOf
  <2>. QED BY <2>2, <2>3, RawWide
<1>2. CASE content \in Answers
  <2>1. content \in OtherAnswers
    BY <1>2, WireAssumption DEF OtherAnswers
  <2>2. content.op # "records"
    BY <2>1 DEF OtherAnswers
  <2>3. MessageOf(content) = EncodeServer(content)
    BY <2>2 DEF MessageOf
  <2>. QED BY <2>1, <2>3, AnswerComes
<1>. QED BY <1>1, <1>2 DEF Contents

LEMMA ReadExact ==
  ASSUME NEW content \in Contents, NEW m \in Near(MessageOf(content))
  PROVE  DecodeServer(m) = Invalid \/ (Constructible(DecodeServer(m)) /\ Reencoded(DecodeServer(m)) = m)
<1>1. PICK enc \in Seq(Nat) : /\ enc = MessageOf(content) /\ enc # <<>>
                              /\ enc[1] \in {ReadyOp, StreamMetadataOp} \/ Wide(enc)
  BY MessageIs
<1>2. m \in Seq(Nat)
  BY <1>1, NearIs
<1>3. m # <<>> /\ m[1] = ReadBatchOp => Wide(m)
  BY <1>1, NearOp, NearWide
<1>. QED BY <1>2, <1>3, ServerExact

LEMMA ReceivedExact ==
  ASSUME NEW content \in Contents, NEW m \in Near(MessageOf(content)),
         NEW s, s = IF m = MessageOf(content) THEN content ELSE Nothing
  PROVE  Exact(s, m, DecodeServer(m))
<1>1. PICK frame : frame = DecodeServer(m)
  OBVIOUS
<1>2. frame.op \notin {"nothing", "invalid", "sequence_mismatch", "closed"} =>
        Constructible(frame) /\ Reencoded(frame) = m
  <2>1. Invalid.op = "invalid"
    BY DEF Invalid
  <2>. QED BY <1>1, <2>1, ReadExact
<1>3. CASE m # MessageOf(content)
  <2>1. s.op = "nothing"
    BY <1>3 DEF Nothing
  <2>. QED BY <1>1, <1>2, <2>1 DEF Exact
<1>4. CASE m = MessageOf(content) /\ \E b \in Batches : content = [op |-> "records", records |-> b]
  <2>1. PICK b \in Batches : content = [op |-> "records", records |-> b]
    BY <1>4
  <2>2. s.op = "records" /\ s.records = b /\ content.op = "records" /\ content.records = b
    BY <1>4, <2>1
  <2>3. b \in Seq(WireRecord) /\ \A i \in DOMAIN b : 5 + Len(b[i].data) \in Numbers
    BY WireAssumption DEF WireRecord
  <2>4. m = RawBatch(b)
    BY <1>4, <2>2 DEF MessageOf
  <2>5. m # <<>> /\ m[1] = ReadBatchOp
    BY <2>3, <2>4, RawWide
  <2>6. frame = DecodeReadBatch(m)
    BY <1>1, <2>5, Read_ReadBatch
  <2>7. b \in Seq(ReadRecord) /\ \A i \in 1..Len(b) : b[i].seq \in Numbers
    BY <2>3, WireRecords
  <2>8. (frame # Invalid) = ProtocolBatch(b) /\ (ProtocolBatch(b) => View(frame.batch) = b)
    BY <2>4, <2>6, <2>7, ReadBatchComes
  <2>9. \A json \in JsonOf(b) : /\ (SseReadBatch(json) # Invalid) = ProtocolBatch(b)
                                /\ ProtocolBatch(b) => View(SseReadBatch(json).batch) = b
    BY <2>3, JsonComes
  <2>. QED BY <1>1, <1>2, <2>2, <2>8, <2>9 DEF Exact
<1>5. CASE m = MessageOf(content) /\ content \in Answers
  <2>1. content \in OtherAnswers
    BY <1>5, WireAssumption DEF OtherAnswers
  <2>2. content.op \notin {"records", "append_batch"}
    BY <2>1 DEF OtherAnswers
  <2>3. frame = content
    <3>1. m = EncodeServer(content)
      BY <1>5, <2>2 DEF MessageOf
    <3>. QED BY <1>1, <2>1, <3>1, AnswerComes
  <2>4. s = content
    BY <1>5
  <2>. QED BY <1>1, <1>2, <2>2, <2>3, <2>4 DEF Exact
<1>. QED BY <1>3, <1>4, <1>5 DEF Contents

LEMMA SubmissionsAre == ASSUME NEW records \in Submissions PROVE records \in Seq(AppendRecord)
<1>0. PICK S : S = [wseq : Numbers, part : Headers, data : Seq(Numbers)]
  OBVIOUS
<1>1. records \in Seq(S)
  BY <1>0, WireAssumption
<1>2. PICK n \in Nat : n = Len(records) /\ records = [i \in 1..n |-> records[i]]
  BY <1>1
<1>6. \A i \in 1..n : records[i] \in S
  BY <1>1, <1>2, ElementOfSeq
<1>3. Headers \subseteq Nat /\ Numbers \subseteq Nat
  BY WireAssumption, NumbersAreNat
<1>4. \A s \in Seq(Numbers) : s \in Seq(Nat)
  BY NumbersSequence
<1>5. \A i \in 1..n : records[i] \in AppendRecord
  BY <1>0, <1>3, <1>4, <1>6 DEF AppendRecord
<1>. QED BY <1>2, <1>5, SequenceOf

LEMMA DeliveredExact ==
  ASSUME NEW f, NEW enc, enc = EncodeClient(f),
         \/ f \in AnyOpening
         \/ \E records \in Seq(AppendRecord) : f = AppendBatch(records),
         NEW m \in Near(enc), NEW s, s = IF m = enc THEN f ELSE Nothing
  PROVE  Exact(s, m, DecodeClient(m))
<1>1. PICK frame : frame = DecodeClient(m)
  OBVIOUS
<1>2. /\ enc \in Seq(Nat)
      /\ f \in AnyOpening => DecodeClient(enc) \in {f, Invalid}
      /\ \A records \in Seq(AppendRecord) : f = AppendBatch(records) =>
           DecodeClient(enc) = IF AppendValid(records) THEN f ELSE Invalid
  <2>1. CASE f \in AnyOpening
    <3>1. f.op # "append_batch"
      BY <2>1 DEF AnyOpening
    <3>2. \A records : f # AppendBatch(records)
      BY <3>1 DEF AppendBatch
    <3>. QED BY <2>1, <3>2, OpeningComes
  <2>2. CASE \E records \in Seq(AppendRecord) : f = AppendBatch(records)
    <3>1. PICK records \in Seq(AppendRecord) : f = AppendBatch(records)
      BY <2>2
    <3>2. f.op = "append_batch" /\ f.records = records
      BY <3>1 DEF AppendBatch
    <3>3. EncodeClient(f) = EncodeAppend(records)
      BY <3>2 DEF EncodeClient
    <3>4. f \notin AnyOpening
      BY <3>2 DEF AnyOpening
    <3>5. \A other : f = AppendBatch(other) => other = records
      BY <3>2 DEF AppendBatch
    <3>. QED BY <3>1, <3>3, <3>4, <3>5, AppendComes
  <2>. QED BY <2>1, <2>2
<1>3. m \in Seq(Nat)
  BY <1>2, NearIs
<1>4. frame.op \notin {"nothing", "invalid", "sequence_mismatch", "closed"} =>
        Constructible(frame) /\ Reencoded(frame) = m
  <2>1. Invalid.op = "invalid"
    BY DEF Invalid
  <2>. QED BY <1>1, <1>3, <2>1, ClientExact
<1>5. CASE m # enc
  <2>1. s.op = "nothing"
    BY <1>5 DEF Nothing
  <2>. QED BY <1>1, <1>4, <2>1 DEF Exact
<1>6. CASE m = enc /\ f \in AnyOpening
  <2>1. f.op \in {"open_read", "open_write"}
    BY <1>6 DEF AnyOpening
  <2>2. s = f /\ frame \in {f, Invalid}
    BY <1>1, <1>2, <1>6
  <2>. QED BY <1>1, <1>4, <2>1, <2>2 DEF Exact
<1>7. CASE m = enc /\ \E records \in Seq(AppendRecord) : f = AppendBatch(records)
  <2>1. PICK records \in Seq(AppendRecord) : f = AppendBatch(records)
    BY <1>7
  <2>2. f.op = "append_batch" /\ f.records = records
    BY <2>1 DEF AppendBatch
  <2>3. s = f /\ frame = IF AppendValid(records) THEN f ELSE Invalid
    BY <1>1, <1>2, <1>7, <2>1
  <2>. QED BY <1>1, <1>4, <2>2, <2>3 DEF Exact
<1>. QED BY <1>5, <1>6, <1>7

\* A frame comes through encoding and decoding unchanged; a message that is read at all is
\* the encoding of what is read; and both transports accept the same batches, with every
\* payload from the right place of the shared buffer (frame.rs, sse_read_batch).
THEOREM FramesAreExact == Spec => []FramesExact
<1>1. Init => FramesExact
  <2>. SUFFICES ASSUME Init PROVE FramesExact
    OBVIOUS
  <2>1. sent = Nothing /\ outcome = Nothing
    BY DEF Init
  <2>2. Nothing.op = "nothing"
    BY DEF Nothing
  <2>3. Exact(sent, message, outcome)
    BY <2>1, <2>2, NothingExact
  <2>. QED BY <2>3 DEF FramesExact, Exact
<1>2. FramesExact /\ [Next]_vars => FramesExact'
  <2>. SUFFICES ASSUME FramesExact, [Next]_vars PROVE FramesExact'
    OBVIOUS
  <2>1. ASSUME UNCHANGED <<sent, message, outcome>> PROVE FramesExact'
    BY <2>1 DEF FramesExact
  <2>2. ASSUME Exact(sent', message', outcome') PROVE FramesExact'
    BY <2>2 DEF FramesExact, Exact
  <2>3. ASSUME NEW f \in Openings, Open(f) PROVE FramesExact'
    <3>1. f \in AnyOpening
      BY WireAssumption DEF AnyOpening
    <3>2. PICK m \in Near(EncodeClient(f)) :
            /\ sent' = (IF m = EncodeClient(f) THEN f ELSE Nothing) /\ message' = m
            /\ outcome' = DecodeClient(m)
      BY <2>3 DEF Open, Deliver
    <3>3. Exact(sent', m, DecodeClient(m))
      BY <3>1, <3>2, DeliveredExact
    <3>. QED BY <2>2, <3>2, <3>3
  <2>4. ASSUME NEW records \in Submissions, Send(records) PROVE FramesExact'
    <3>1. records \in Seq(AppendRecord)
      BY SubmissionsAre
    <3>2. PICK m \in Near(EncodeAppend(records)) :
            /\ sent' = (IF m = EncodeAppend(records) THEN AppendBatch(records) ELSE Nothing)
            /\ message' = m /\ outcome' = DecodeClient(m)
      BY <2>4 DEF Send, Deliver
    <3>3. EncodeClient(AppendBatch(records)) = EncodeAppend(records)
      BY DEF EncodeClient, AppendBatch
    <3>4. Exact(sent', m, DecodeClient(m))
      BY <3>1, <3>2, <3>3, DeliveredExact
    <3>. QED BY <2>2, <3>2, <3>4
  <2>5. ASSUME NEW content \in Contents, NEW m \in Near(MessageOf(content)), RecvMessage(content, m)
        PROVE  FramesExact'
    <3>1. /\ sent' = (IF m = MessageOf(content) THEN content ELSE Nothing) /\ message' = m
          /\ outcome' = DecodeServer(m)
      BY <2>5 DEF RecvMessage
    <3>2. Exact(sent', m, DecodeServer(m))
      BY <3>1, ReceivedExact
    <3>. QED BY <2>2, <3>1, <3>2
  <2>6. CASE RecvText
    BY <2>1, <2>6 DEF RecvText
  <2>7. ASSUME NEW close \in Closes, RecvClose(close) PROVE FramesExact'
    <3>1. sent' = Nothing /\ (outcome' = Nothing \/ outcome' = CloseError(close))
      BY <2>7 DEF RecvClose
    <3>2. Nothing.op = "nothing" /\ CloseError(close).op \in {"sequence_mismatch", "closed"}
      BY DEF Nothing, CloseError
    <3>3. Exact(sent', message', outcome')
      BY <3>1, <3>2, NothingExact
    <3>. QED BY <2>2, <3>3
  <2>8. ASSUME NEW chunk \in Chunks, Push(chunk) PROVE FramesExact'
    BY <2>1, <2>8 DEF Push, socketVars
  <2>9. CASE NextEvent
    BY <2>1, <2>9 DEF NextEvent, socketVars
  <2>10. CASE UNCHANGED vars
    BY <2>1, <2>10 DEF vars, socketVars
  <2>. QED BY <2>3, <2>4, <2>5, <2>6, <2>7, <2>8, <2>9, <2>10 DEF Next, Socket
<1>. QED BY <1>1, <1>2, PTL DEF Spec
=============================================================================
