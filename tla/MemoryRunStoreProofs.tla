------------------------ MODULE MemoryRunStoreProofs ------------------------
(***************************************************************************)
(* The run store stays consistent, for every set of ids and every limit,   *)
(* whatever operations are called in whatever order.  StoreConsistent is   *)
(* inductive relative to StoreTypeOK; the lemmas about the operations, and *)
(* those about the bytes of a part of a log, are also what                 *)
(* ObservedRunProofs needs of a store that a run uses.                     *)
(***************************************************************************)
EXTENDS MemoryRunStore, TLAPS, SequenceTheorems, FiniteSetTheorems, NumberFacts

StoreInv == StoreTypeOK /\ StoreConsistent

\* The list o names each run that c has a record of, and names it once.
Lists(o, c) ==
  /\ o \in Seq(Ids) /\ c \in [Ids -> Terminal \cup {"absent"}]
  /\ {o[k] : k \in 1 .. Len(o)} = {id \in Ids : c[id] # "absent"}
  /\ \A j, k \in 1 .. Len(o) : o[j] = o[k] => j = k

\* The counter and the limits of each log.
LogsConsistent ==
  \A id \in Ids :
    /\ rawBytes[id] = bytes(stored[id], 1, Len(stored[id]))
    /\ ~eventLimitExceeded(Len(stored[id]), rawBytes[id])

-----------------------------------------------------------------------------
(* The bytes of raw data of a part of a log.                               *)

\* There are finitely many.
LEMMA BytesType ==
  ASSUME NEW s, NEW j \in Int, NEW k \in Int, \A i \in j .. k : s[i].raw \in Nat
  PROVE  IsFiniteSet(rawData(s, j, k)) /\ bytes(s, j, k) \in Nat
<1> DEFINE f == [i \in j .. k |-> {i} \X (1 .. s[i].raw)]
           T == {{i} \X (1 .. s[i].raw) : i \in j .. k}
<1>1. IsFiniteSet(j .. k)
  BY FS_Interval
<1>2. f \in Surjection(j .. k, T)
  <2>1. f \in [j .. k -> T]
    OBVIOUS
  <2>2. \A t \in T : \E i \in j .. k : f[i] = t
    OBVIOUS
  <2> HIDE DEF f, T
  <2> QED BY <2>1, <2>2 DEF Surjection
<1>3. IsFiniteSet(T)
  <2> HIDE DEF f, T
  <2> QED BY <1>1, <1>2, FS_Surjection
<1>4. ASSUME NEW t \in T PROVE IsFiniteSet(t)
  <2>1. PICK i \in j .. k : t = {i} \X (1 .. s[i].raw)
    BY <1>4
  <2>2. IsFiniteSet({i})
    BY FS_Singleton
  <2>3. IsFiniteSet(1 .. s[i].raw)
    BY FS_Interval
  <2> QED BY <2>1, <2>2, <2>3, FS_Product
<1>5. IsFiniteSet(UNION T)
  <2> HIDE DEF T
  <2> QED BY <1>3, <1>4, FS_UNION
<1> QED BY <1>5, FS_CardinalityType DEF rawData, bytes

\* A part is cut in two.
LEMMA BytesSplit ==
  ASSUME NEW s, NEW j \in Int, NEW m \in Int, NEW k \in Int, j <= m + 1, m <= k,
         \A i \in j .. k : s[i].raw \in Nat
  PROVE  bytes(s, j, k) = bytes(s, j, m) + bytes(s, m + 1, k)
<1>1. IsFiniteSet(rawData(s, j, m)) /\ bytes(s, j, m) \in Nat
  <2>1. \A i \in j .. m : s[i].raw \in Nat
    OBVIOUS
  <2> QED BY <2>1, BytesType
<1>2. IsFiniteSet(rawData(s, m + 1, k)) /\ bytes(s, m + 1, k) \in Nat
  <2>1. \A i \in m + 1 .. k : s[i].raw \in Nat
    OBVIOUS
  <2>2. m + 1 \in Int
    OBVIOUS
  <2> QED BY <2>1, <2>2, BytesType
<1>3. rawData(s, j, k) = rawData(s, j, m) \cup rawData(s, m + 1, k)
  <2>1. j .. k = (j .. m) \cup (m + 1 .. k)
    OBVIOUS
  <2> QED BY <2>1, Zenon DEF rawData
<1>4. rawData(s, j, m) \cap rawData(s, m + 1, k) = {}
  <2> SUFFICES ASSUME NEW x \in rawData(s, j, m), x \in rawData(s, m + 1, k) PROVE FALSE
    OBVIOUS
  <2>1. PICK i \in j .. m : x \in {i} \X (1 .. s[i].raw)
    BY DEF rawData
  <2>2. PICK l \in m + 1 .. k : x \in {l} \X (1 .. s[l].raw)
    BY DEF rawData
  <2>3. x[1] = i /\ x[1] = l
    BY <2>1, <2>2
  <2> QED BY <2>3
<1>5. Cardinality({}) = 0
  BY FS_EmptySet
<1>6. Cardinality(rawData(s, j, m) \cup rawData(s, m + 1, k))
      = Cardinality(rawData(s, j, m)) + Cardinality(rawData(s, m + 1, k))
        - Cardinality(rawData(s, j, m) \cap rawData(s, m + 1, k))
  BY <1>1, <1>2, FS_Union
<1>7. bytes(s, j, k) = bytes(s, j, m) + bytes(s, m + 1, k) - 0
  BY <1>3, <1>4, <1>5, <1>6, Zenon DEF bytes
<1> QED BY <1>1, <1>2, <1>7

\* One event, and none.
LEMMA BytesOfOne ==
  ASSUME NEW s, NEW i \in Int, s[i].raw \in Nat
  PROVE  bytes(s, i, i) = s[i].raw
<1>1. rawData(s, i, i) = {i} \X (1 .. s[i].raw)
  BY DEF rawData
<1>2. IsFiniteSet({i}) /\ Cardinality({i}) = 1
  BY FS_Singleton
<1>3. IsFiniteSet(1 .. s[i].raw) /\ Cardinality(1 .. s[i].raw) = s[i].raw
  <2> DEFINE r == s[i].raw
  <2>1. 1 \in Int /\ r \in Int
    OBVIOUS
  <2>2. IsFiniteSet(1 .. r) /\ Cardinality(1 .. r) = IF 1 > r THEN 0 ELSE r - 1 + 1
    <3> HIDE DEF r
    <3> QED BY <2>1, FS_Interval
  <2> QED BY <2>2
<1>4. Cardinality({i} \X (1 .. s[i].raw)) = 1 * s[i].raw
  <2>1. Cardinality({i} \X (1 .. s[i].raw)) = Cardinality({i}) * Cardinality(1 .. s[i].raw)
    BY <1>2, <1>3, FS_Product
  <2> QED BY <1>2, <1>3, <2>1, Zenon
<1> QED BY <1>1, <1>4 DEF bytes

LEMMA BytesOfNone ==
  ASSUME NEW s, NEW j \in Int, NEW k \in Int, k < j
  PROVE  bytes(s, j, k) = 0
<1>1. rawData(s, j, k) = {}
  BY DEF rawData
<1> QED BY <1>1, FS_EmptySet DEF bytes

\* The part of s from j to k, found again in t from m + j to m + k.
LEMMA BytesShift ==
  ASSUME NEW s, NEW t, NEW m \in Int, NEW j \in Int, NEW k \in Int,
         \A i \in j .. k : s[i].raw \in Nat /\ t[m + i].raw = s[i].raw
  PROVE  bytes(s, j, k) = bytes(t, m + j, m + k)
<1>1. CASE k < j
  <2>1. m + j \in Int /\ m + k \in Int /\ m + k < m + j
    BY <1>1
  <2> QED BY <1>1, <2>1, BytesOfNone
<1>2. CASE ~(k < j)
  <2> DEFINE n == k - j + 1
             S == {i \in 0 .. n : bytes(s, j, j + i - 1) = bytes(t, m + j, m + j + i - 1)}
  <2>1. n \in Nat
    BY <1>2
  <2>2. 0 \in S
    <3>1. bytes(s, j, j + 0 - 1) = 0
      BY BytesOfNone
    <3>2. bytes(t, m + j, m + j + 0 - 1) = 0
      BY BytesOfNone
    <3> QED BY <2>1, <3>1, <3>2
  <2>3. ASSUME NEW i \in 0 .. n, i + 1 \in 0 .. n, i \in S PROVE i + 1 \in S
    <3> DEFINE e == j + i
    <3>1. /\ e \in Int /\ e - 1 \in Int /\ m + e \in Int /\ m + e - 1 \in Int /\ m + j \in Int
          /\ e \in j .. k
          /\ j + (i + 1) - 1 = e /\ m + j + (i + 1) - 1 = m + e /\ m + j + i - 1 = m + e - 1
      BY <2>1, <2>3
    <3>2. \A x \in j .. e : s[x].raw \in Nat
      BY <3>1
    <3>3. \A x \in m + j .. m + e : t[x].raw \in Nat
      <4> SUFFICES ASSUME NEW x \in m + j .. m + e PROVE t[x].raw \in Nat
        OBVIOUS
      <4>1. x - m \in j .. k /\ m + (x - m) = x
        BY <3>1
      <4> QED BY <4>1
    <3>4. bytes(s, j, e) = bytes(s, j, e - 1) + bytes(s, e, e)
      <4>1. e - 1 + 1 = e /\ j <= e - 1 + 1 /\ e - 1 <= e
        BY <3>1
      <4>2. bytes(s, j, e) = bytes(s, j, e - 1) + bytes(s, e - 1 + 1, e)
        <5> HIDE DEF e
        <5> QED BY <3>1, <3>2, <4>1, BytesSplit
      <4> QED BY <4>1, <4>2
    <3>5. bytes(t, m + j, m + e) = bytes(t, m + j, m + e - 1) + bytes(t, m + e, m + e)
      <4>1. m + e - 1 + 1 = m + e /\ m + j <= m + e - 1 + 1 /\ m + e - 1 <= m + e
        BY <3>1
      <4>2. bytes(t, m + j, m + e) = bytes(t, m + j, m + e - 1) + bytes(t, m + e - 1 + 1, m + e)
        <5> HIDE DEF e
        <5> QED BY <3>1, <3>3, <4>1, BytesSplit
      <4> QED BY <4>1, <4>2
    <3>6. s[e].raw \in Nat /\ t[m + e].raw = s[e].raw
      BY <3>1
    <3>7. bytes(s, e, e) = s[e].raw
      <4> HIDE DEF e
      <4> QED BY <3>1, <3>6, BytesOfOne
    <3>8. bytes(t, m + e, m + e) = t[m + e].raw
      <4> HIDE DEF e
      <4> QED BY <3>1, <3>6, BytesOfOne
    <3>9. bytes(s, j, e - 1) = bytes(t, m + j, m + e - 1)
      BY <2>3, <3>1
    <3>10. bytes(s, j, e) = bytes(t, m + j, m + e)
      BY <3>4, <3>5, <3>6, <3>7, <3>8, <3>9
    <3> QED BY <2>3, <3>1, <3>10
  <2>4. n \in S
    <3> HIDE DEF n, S
    <3>1. \A i \in 0 .. n : i \in S
      BY <2>1, <2>2, <2>3, UpTo
    <3> QED BY <2>1, <3>1
  <2>5. j + n - 1 = k /\ m + j + n - 1 = m + k
    OBVIOUS
  <2> QED BY <2>4, <2>5
<1> QED BY <1>1, <1>2

\* The same, with the ends of the second part named.
LEMMA BytesMoved ==
  ASSUME NEW s, NEW t, NEW m \in Int, NEW j \in Int, NEW k \in Int, NEW p, NEW q,
         p = m + j, q = m + k,
         \A i \in j .. k : s[i].raw \in Nat,
         \A i \in j .. k : t[m + i].raw = s[i].raw
  PROVE  bytes(s, j, k) = bytes(t, p, q)
<1>1. \A i \in j .. k : s[i].raw \in Nat /\ t[m + i].raw = s[i].raw
  OBVIOUS
<1>2. bytes(s, j, k) = bytes(t, m + j, m + k)
  BY <1>1, BytesShift
<1> QED BY <1>2

\* Only the sizes count.
LEMMA BytesSame ==
  ASSUME NEW s, NEW t, NEW j, NEW k, \A i \in j .. k : t[i].raw = s[i].raw
  PROVE  bytes(s, j, k) = bytes(t, j, k)
<1>1. rawData(s, j, k) = rawData(t, j, k)
  BY Zenon DEF rawData
<1> QED BY <1>1 DEF bytes

\* An event more.
LEMMA BytesAppended ==
  ASSUME NEW s \in Seq(EventRecord), NEW e \in EventRecord
  PROVE  bytes(Append(s, e), 1, Len(s) + 1) = bytes(s, 1, Len(s)) + e.raw
<1> DEFINE a == Append(s, e)
           n == Len(s)
<1>1. /\ n \in Nat /\ a \in Seq(EventRecord) /\ Len(a) = n + 1 /\ a[n + 1] = e
      /\ \A i \in 1 .. n : a[i] = s[i]
  BY AppendProperties, LenProperties
<1>2. /\ \A i \in 1 .. n + 1 : a[i].raw \in Nat
      /\ \A i \in 1 .. n : s[i].raw \in Nat
  <2>1. (\A i \in 1 .. n : s[i] \in EventRecord) /\ \A i \in 1 .. n + 1 : a[i] \in EventRecord
    BY <1>1, ElementOfSeq
  <2> QED BY <2>1 DEF EventRecord
<1> HIDE DEF a, n
<1>3. bytes(s, 1, n) = bytes(a, 1, n)
  <2>1. \A i \in 1 .. n : a[i].raw = s[i].raw
    BY <1>1
  <2> QED BY <2>1, BytesSame
<1>4. bytes(a, 1, n + 1) = bytes(a, 1, n) + bytes(a, n + 1, n + 1)
  <2>1. n \in Int /\ n + 1 \in Int /\ 1 <= n + 1 /\ n <= n + 1
    BY <1>1
  <2> QED BY <1>2, <2>1, BytesSplit
<1>5. bytes(a, n + 1, n + 1) = e.raw
  <2>1. n + 1 \in Int /\ a[n + 1].raw = e.raw /\ a[n + 1].raw \in Nat
    BY <1>1, <1>2
  <2> QED BY <2>1, BytesOfOne
<1> QED BY <1>3, <1>4, <1>5 DEF a, n

\* What is left of a sequence without its first k elements.
LEMMA TailProperties ==
  ASSUME NEW S, NEW s \in Seq(S), NEW k \in 0 .. Len(s)
  PROVE  /\ SubSeq(s, k + 1, Len(s)) \in Seq(S) /\ Len(SubSeq(s, k + 1, Len(s))) = Len(s) - k
         /\ \A i \in 1 .. Len(s) - k : SubSeq(s, k + 1, Len(s))[i] = s[k + i]
<1>1. Len(s) \in Nat /\ \A i \in 1 .. Len(s) : s[i] \in S
  BY LenProperties, ElementOfSeq
<1>2. \A i \in k + 1 .. Len(s) : s[i] \in S
  BY <1>1
<1>3. /\ SubSeq(s, k + 1, Len(s)) \in Seq(S)
      /\ Len(SubSeq(s, k + 1, Len(s))) = IF k + 1 <= Len(s) THEN Len(s) - (k + 1) + 1 ELSE 0
      /\ \A i \in 1 .. Len(s) - (k + 1) + 1 : SubSeq(s, k + 1, Len(s))[i] = s[k + 1 + i - 1]
  BY <1>1, <1>2, SubSeqProperties
<1> QED BY <1>1, <1>3

\* What the loop at the end of AppendEvent drops of a log whose counter is right: it
\* stops within the limits, and would have been over one with an event less dropped.
LEMMA DropOldest ==
  ASSUME NEW s \in Seq(EventRecord), NEW b, b = bytes(s, 1, Len(s)), NEW k, k = dropCount(s, b)
  PROVE  /\ k \in 0 .. Len(s)
         /\ b - bytes(s, 1, k) = bytes(s, k + 1, Len(s)) /\ bytes(s, k + 1, Len(s)) \in Nat
         /\ ~eventLimitExceeded(Len(s) - k, bytes(s, k + 1, Len(s)))
         /\ \A j \in 0 .. k - 1 : eventLimitExceeded(Len(s) - j, bytes(s, j + 1, Len(s)))
<1> DEFINE n == Len(s)
           over(j) == eventLimitExceeded(n - j, b - bytes(s, 1, j))
           stops(j) == j = n \/ ~over(j)
           T == {j \in 0 .. n : stops(j)}
<1>1. n \in Nat /\ \A i \in 1 .. n : s[i].raw \in Nat
  <2>1. Len(s) \in Nat /\ \A i \in 1 .. Len(s) : s[i] \in EventRecord
    BY LenProperties, ElementOfSeq
  <2> QED BY <2>1 DEF EventRecord
<1>2. ASSUME NEW j \in 0 .. n
      PROVE  b - bytes(s, 1, j) = bytes(s, j + 1, n) /\ bytes(s, j + 1, n) \in Nat
  <2>1. bytes(s, 1, n) = bytes(s, 1, j) + bytes(s, j + 1, n)
    <3> HIDE DEF n
    <3> QED BY <1>1, BytesSplit
  <2>2. bytes(s, 1, j) \in Nat
    <3>1. \A i \in 1 .. j : s[i].raw \in Nat
      BY <1>1
    <3> QED BY <3>1, BytesType
  <2>3. bytes(s, j + 1, n) \in Nat
    <3>1. (\A i \in j + 1 .. n : s[i].raw \in Nat) /\ j + 1 \in Int /\ n \in Int
      BY <1>1
    <3> HIDE DEF n
    <3> QED BY <3>1, BytesType
  <2> QED BY <2>1, <2>2, <2>3
<1>3. PICK l \in T : \A j \in T : l <= j
  <2>1. T \in SUBSET Nat /\ n \in T
    BY <1>1
  <2> HIDE DEF T, n
  <2> QED BY <2>1, LeastNumber
<1>4. \E x \in 0 .. n : stops(x) /\ \A j \in 0 .. x - 1 : ~stops(j)
  <2> HIDE DEF stops
  <2>1. l \in 0 .. n /\ stops(l)
    BY <1>3
  <2>2. ASSUME NEW j \in 0 .. l - 1, stops(j) PROVE FALSE
    <3>1. j \in 0 .. n /\ ~(l <= j)
      BY <2>1, <1>1
    <3> QED BY <3>1, <2>2, <1>3
  <2> QED BY <2>1, <2>2
<1>5. k = CHOOSE x \in 0 .. n : stops(x) /\ \A j \in 0 .. x - 1 : ~stops(j)
  BY DEF dropCount
<1>6. k \in 0 .. n /\ stops(k) /\ \A j \in 0 .. k - 1 : ~stops(j)
  <2> HIDE DEF stops, n
  <2> QED BY <1>4, <1>5
<1>7. ~over(k)
  <2>1. CASE k = n
    <3>1. bytes(s, n + 1, n) = 0
      BY <1>1, BytesOfNone
    <3>2. n - n = 0 /\ ~eventLimitExceeded(0, 0)
      BY <1>1, StoreAssumption DEF StoreAssumption, eventLimitExceeded, exceeds
    <3> QED BY <1>1, <1>2, <2>1, <3>1, <3>2
  <2> QED BY <1>6, <2>1
<1>8. ASSUME NEW j \in 0 .. k - 1 PROVE over(j) /\ j \in 0 .. n
  BY <1>1, <1>6
<1> HIDE DEF n
<1> QED BY <1>2, <1>6, <1>7, <1>8 DEF n

-----------------------------------------------------------------------------
(* The operations.                                                         *)

\* evictCompletedLocked drops the same runs from the list and from the records,
\* and leaves no more than the limit.
LEMMA EvictKeepsStore ==
  ASSUME NEW o, NEW c, NEW n \in 0 .. Len(o), Lists(o, c),
         active' \subseteq Ids, evicted \subseteq Ids, stored \in [Ids -> Seq(EventRecord)],
         rawBytes \in [Ids -> Nat], LogsConsistent, evictCompleted(o, c, n)
  PROVE  StoreInv'
<1> DEFINE k == IF exceeds(Len(o) - n, MaxCompletedRuns) THEN Len(o) - MaxCompletedRuns ELSE n
           gone == {o[j] : j \in 1 .. k}
<1> USE StoreAssumption DEF StoreAssumption
<1>1. Len(o) \in Nat /\ k \in 0 .. Len(o) /\ ~exceeds(Len(o) - k, MaxCompletedRuns)
  BY LenProperties DEF Lists, exceeds
<1>2. /\ order' = SubSeq(o, k + 1, Len(o))
      /\ completed' = [id \in Ids |-> IF id \in gone THEN "absent" ELSE c[id]]
      /\ stored' = [id \in Ids |-> IF id \in gone THEN <<>> ELSE stored[id]]
      /\ rawBytes' = [id \in Ids |-> IF id \in gone THEN 0 ELSE rawBytes[id]]
      /\ evicted' = evicted \cup gone
  BY DEF evictCompleted
<1>3. \A i \in 1 .. Len(o) : o[i] \in Ids
  BY ElementOfSeq DEF Lists
<1> HIDE DEF k
<1>4. /\ order' \in Seq(Ids) /\ Len(order') = Len(o) - k
      /\ \A i \in 1 .. Len(o) - k : order'[i] = o[k + i]
  BY <1>1, <1>2, TailProperties DEF Lists
<1>5. gone \subseteq Ids
  BY <1>1, <1>3
<1>6. StoreTypeOK'
  <2>1. completed' \in [Ids -> Terminal \cup {"absent"}]
    BY <1>2 DEF Lists
  <2>2. stored' \in [Ids -> Seq(EventRecord)] /\ rawBytes' \in [Ids -> Nat]
    BY <1>2
  <2> QED BY <1>2, <1>4, <1>5, <2>1, <2>2 DEF StoreTypeOK
<1>7. {order'[i] : i \in 1 .. Len(order')} = {id \in Ids : completed'[id] # "absent"}
  <2>1. ASSUME NEW i \in 1 .. Len(order')
        PROVE  order'[i] \in Ids /\ completed'[order'[i]] # "absent"
    <3>1. k + i \in 1 .. Len(o) /\ order'[i] = o[k + i]
      BY <1>1, <1>4
    <3>2. ASSUME NEW j \in 1 .. k, o[k + i] = o[j] PROVE FALSE
      <4>1. j \in 1 .. Len(o) /\ j # k + i
        BY <1>1, <3>1
      <4> QED BY <3>1, <3>2, <4>1 DEF Lists
    <3>3. o[k + i] \in {id \in Ids : c[id] # "absent"}
      BY <3>1 DEF Lists
    <3> QED BY <1>2, <3>1, <3>2, <3>3
  <2>2. ASSUME NEW id \in Ids, completed'[id] # "absent"
        PROVE  \E i \in 1 .. Len(order') : order'[i] = id
    <3>1. id \notin gone /\ c[id] # "absent"
      BY <2>2, <1>2
    <3>2. PICK j \in 1 .. Len(o) : o[j] = id
      <4>1. id \in {o[m] : m \in 1 .. Len(o)}
        BY <3>1 DEF Lists
      <4> QED BY <4>1
    <3>3. j > k
      BY <3>1, <3>2, <1>1
    <3>4. j - k \in 1 .. Len(order') /\ order'[j - k] = o[k + (j - k)] /\ k + (j - k) = j
      BY <3>3, <1>1, <1>4
    <3> QED BY <3>2, <3>4
  <2> QED BY <2>1, <2>2
<1>8. \A i, j \in 1 .. Len(order') : order'[i] = order'[j] => i = j
  <2> SUFFICES ASSUME NEW i \in 1 .. Len(order'), NEW j \in 1 .. Len(order'), order'[i] = order'[j]
               PROVE  i = j
    OBVIOUS
  <2>1. k + i \in 1 .. Len(o) /\ k + j \in 1 .. Len(o)
    BY <1>1, <1>4
  <2>2. order'[i] = o[k + i] /\ order'[j] = o[k + j]
    BY <1>4
  <2>3. k + i = k + j
    BY <2>1, <2>2 DEF Lists
  <2> QED BY <2>3, <1>1, <1>4
<1>9. LogsConsistent'
  <2> SUFFICES ASSUME NEW id \in Ids
               PROVE  /\ rawBytes'[id] = bytes(stored'[id], 1, Len(stored'[id]))
                      /\ ~eventLimitExceeded(Len(stored'[id]), rawBytes'[id])
    BY DEF LogsConsistent
  <2>1. CASE id \in gone
    <3>1. stored'[id] = <<>> /\ Len(<<>>) = 0 /\ rawBytes'[id] = 0
      BY <1>2, <2>1
    <3>2. bytes(<<>>, 1, 0) = 0
      BY BytesOfNone
    <3>3. ~eventLimitExceeded(0, 0)
      BY DEF eventLimitExceeded, exceeds
    <3> QED BY <3>1, <3>2, <3>3
  <2>2. CASE id \notin gone
    BY <1>2, <2>2 DEF LogsConsistent
  <2> QED BY <2>1, <2>2
<1> QED BY <1>1, <1>4, <1>6, <1>7, <1>8, <1>9 DEF StoreInv, StoreConsistent, LogsConsistent

\* UpsertRun keeps the store consistent: a run that is stored again is not listed
\* again.
LEMMA UpsertKeepsStore ==
  ASSUME StoreInv, NEW id \in Ids, NEW status \in RecordStatus, UpsertRun(id, status)
  PROVE  StoreInv'
<1> USE DEF StoreInv, StoreTypeOK, StoreConsistent, LogsConsistent
<1>1. CASE status \in Terminal
  <2> DEFINE c == [completed EXCEPT ![id] = status]
  <2>1. PICK n \in 0 .. Len(order) : evictCompleted(appended(id), c, n)
    BY <1>1 DEF UpsertRun
  <2>2. c \in [Ids -> Terminal \cup {"absent"}] /\ c[id] # "absent"
    BY <1>1 DEF Terminal
  <2>3. n \in 0 .. Len(appended(id)) /\ Lists(appended(id), c)
    <3>1. CASE completed[id] = "absent"
      <4>1. appended(id) = Append(order, id)
        BY <3>1 DEF appended
      <4>2. /\ Append(order, id) \in Seq(Ids) /\ Len(Append(order, id)) = Len(order) + 1
            /\ \A i \in 1 .. Len(order) : Append(order, id)[i] = order[i]
            /\ Append(order, id)[Len(order) + 1] = id
        BY AppendProperties
      <4>3. Len(order) \in Nat
        BY LenProperties
      <4>4. \A i \in 1 .. Len(order) : order[i] # id
        BY <3>1
      <4>5. {Append(order, id)[i] : i \in 1 .. Len(order) + 1}
            = {order[i] : i \in 1 .. Len(order)} \cup {id}
        BY <4>2, <4>3
      <4>6. {x \in Ids : c[x] # "absent"} = {x \in Ids : completed[x] # "absent"} \cup {id}
        BY <2>2
      <4>7. \A j, k \in 1 .. Len(order) + 1 : Append(order, id)[j] = Append(order, id)[k] => j = k
        BY <4>2, <4>3, <4>4
      <4>8. {Append(order, id)[i] : i \in 1 .. Len(order) + 1} = {x \in Ids : c[x] # "absent"}
        BY <4>5, <4>6
      <4>9. n \in 0 .. Len(order) + 1
        BY <4>3
      <4> HIDE DEF c
      <4> QED BY <2>2, <4>1, <4>2, <4>7, <4>8, <4>9 DEF Lists
    <3>2. CASE completed[id] # "absent"
      <4>1. appended(id) = order
        BY <3>2 DEF appended
      <4>2. {x \in Ids : c[x] # "absent"} = {x \in Ids : completed[x] # "absent"}
        BY <2>2, <3>2
      <4> QED BY <2>2, <4>1, <4>2 DEF Lists
    <3> QED BY <3>1, <3>2
  <2>4. active' \subseteq Ids
    BY <1>1 DEF UpsertRun
  <2> HIDE DEF c
  <2> QED BY <2>1, <2>3, <2>4, EvictKeepsStore
<1>2. CASE status \notin Terminal
  BY <1>2 DEF UpsertRun
<1> QED BY <1>1, <1>2

\* AppendEvent touches one log, whose counter stays right and which ends within its
\* limits.
LEMMA AppendKeepsStore ==
  ASSUME StoreInv, NEW id \in Ids, NEW e \in EventRecord, AppendEvent(id, e)
  PROVE  StoreInv'
<1> USE DEF StoreInv, StoreTypeOK, StoreConsistent
<1> DEFINE s == Append(stored[id], e)
           b == rawBytes[id] + e.raw
           k == dropCount(s, b)
           t == SubSeq(s, k + 1, Len(s))
<1>1. /\ s \in Seq(EventRecord) /\ Len(s) = Len(stored[id]) + 1 /\ Len(stored[id]) \in Nat
  BY AppendProperties, LenProperties
<1>2. \A i \in 1 .. Len(s) : s[i] \in EventRecord /\ s[i].raw \in Nat
  <2>1. \A i \in 1 .. Len(s) : s[i] \in EventRecord
    BY <1>1, ElementOfSeq
  <2> QED BY <2>1 DEF EventRecord
<1>3. b = bytes(s, 1, Len(s))
  BY <1>1, BytesAppended
<1>4. /\ k \in 0 .. Len(s)
      /\ b - bytes(s, 1, k) = bytes(s, k + 1, Len(s)) /\ bytes(s, k + 1, Len(s)) \in Nat
      /\ ~eventLimitExceeded(Len(s) - k, bytes(s, k + 1, Len(s)))
  <2> HIDE DEF s, b
  <2> QED BY <1>1, <1>3, DropOldest
<1> HIDE DEF k
<1>5. /\ t \in Seq(EventRecord) /\ Len(t) = Len(s) - k
      /\ \A i \in 1 .. Len(s) - k : t[i] = s[k + i]
  <2> HIDE DEF s
  <2> QED BY <1>1, <1>4, TailProperties
<1>6. bytes(t, 1, Len(t)) = bytes(s, k + 1, Len(s))
  <2>1. /\ \A i \in 1 .. Len(t) : t[i].raw \in Nat
        /\ \A i \in 1 .. Len(t) : s[k + i].raw = t[i].raw
    <3> SUFFICES ASSUME NEW i \in 1 .. Len(t) PROVE t[i].raw \in Nat /\ s[k + i].raw = t[i].raw
      OBVIOUS
    <3> HIDE DEF StoreInv, StoreTypeOK, StoreConsistent, s, t
    <3>1. i \in 1 .. Len(s) - k /\ k + i \in 1 .. Len(s)
      BY <1>1, <1>4, <1>5
    <3> QED BY <1>2, <1>5, <3>1
  <2>2. k \in Int /\ 1 \in Int /\ Len(t) \in Int /\ k + Len(t) = Len(s)
    <3> HIDE DEF s, t
    <3> QED BY <1>1, <1>4, <1>5
  <2>3. bytes(t, 1, Len(t)) = bytes(s, k + 1, k + Len(t))
    <3> HIDE DEF StoreInv, StoreTypeOK, StoreConsistent, s, t
    <3> QED BY <2>1, <2>2, BytesMoved
  <2> QED BY <2>2, <2>3
<1>7. /\ stored' = [stored EXCEPT ![id] = t]
      /\ rawBytes' = [rawBytes EXCEPT ![id] = b - bytes(s, 1, k)]
      /\ UNCHANGED <<active, completed, order, evicted>>
  BY DEF AppendEvent, k
<1> HIDE DEF s, b, t
<1>8. stored' \in [Ids -> Seq(EventRecord)] /\ rawBytes' \in [Ids -> Nat]
  BY <1>4, <1>5, <1>7
<1>9. LogsConsistent'
  <2> SUFFICES ASSUME NEW x \in Ids
               PROVE  /\ rawBytes'[x] = bytes(stored'[x], 1, Len(stored'[x]))
                      /\ ~eventLimitExceeded(Len(stored'[x]), rawBytes'[x])
    BY DEF LogsConsistent
  <2>1. CASE x = id
    BY <1>4, <1>5, <1>6, <1>7, <2>1
  <2>2. CASE x # id
    BY <1>7, <2>2
  <2> QED BY <2>1, <2>2
<1>10. {order'[i] : i \in 1 .. Len(order')} = {x \in Ids : completed'[x] # "absent"}
  BY <1>7
<1> QED BY <1>7, <1>8, <1>9, <1>10 DEF LogsConsistent

\* Looking a run up evicts, and keeps the store consistent.
LEMMA InspectKeepsStore ==
  ASSUME StoreInv, Inspect
  PROVE  StoreInv'
<1> USE DEF StoreInv, StoreTypeOK, StoreConsistent, LogsConsistent
<1>1. PICK n \in 0 .. Len(order) : evictCompleted(order, completed, n)
  BY DEF Inspect
<1>2. Lists(order, completed) /\ active' \subseteq Ids
  BY DEF Lists, Inspect
<1> QED BY <1>1, <1>2, EvictKeepsStore

\* The list of completed runs and their records, and each log and its counter of
\* raw bytes, never drift apart, and neither the runs nor the events of a run nor
\* their raw data exceed their limits (a negative limit is none), whatever sequence
\* of UpsertRun, AppendEvent, GetCompletedRun and ListRunEvents is called.
THEOREM StoreStaysConsistent == StoreSpec => []StoreConsistent
<1>1. StoreInit => StoreInv
  <2> SUFFICES ASSUME StoreInit PROVE StoreInv
    OBVIOUS
  <2>1. /\ \A id \in Ids : stored[id] = <<>> /\ rawBytes[id] = 0
        /\ order = <<>> /\ Len(<<>>) = 0 /\ \A id \in Ids : completed[id] = "absent"
    BY DEF StoreInit
  <2>2. bytes(<<>>, 1, 0) = 0
    BY BytesOfNone
  <2>3. ~eventLimitExceeded(0, 0) /\ ~exceeds(0, MaxCompletedRuns)
    BY StoreAssumption DEF StoreAssumption, eventLimitExceeded, exceeds
  <2>4. StoreTypeOK
    BY EmptySeq DEF StoreInit, StoreTypeOK
  <2>5. {order[k] : k \in 1 .. Len(order)} = {id \in Ids : completed[id] # "absent"}
    BY <2>1
  <2> QED BY <2>1, <2>2, <2>3, <2>4, <2>5 DEF StoreInv, StoreConsistent
<1>2. StoreInv /\ [StoreNext]_storeVars => StoreInv'
  <2> SUFFICES ASSUME StoreInv, [StoreNext]_storeVars PROVE StoreInv'
    OBVIOUS
  <2>1. CASE UNCHANGED storeVars
    BY <2>1 DEF storeVars, StoreInv, StoreTypeOK, StoreConsistent
  <2> QED BY <2>1, UpsertKeepsStore, AppendKeepsStore, InspectKeepsStore DEF StoreNext
<1>3. StoreInv => StoreConsistent
  BY DEF StoreInv
<1> QED BY <1>1, <1>2, <1>3, PTL DEF StoreSpec
=============================================================================
