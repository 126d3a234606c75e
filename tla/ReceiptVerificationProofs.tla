--------------------- MODULE ReceiptVerificationProofs ---------------------
(***************************************************************************)
(* Proofs about ShardFunctions and ReceiptVerification, for any number of  *)
(* nodes, group sizes, edges, addresses and receipts.                      *)
(***************************************************************************)
EXTENDS ReceiptVerification, FiniteSetTheorems, TLAPS

-----------------------------------------------------------------------------
(* Remainders *)

LEMMA Division ==
  ASSUME NEW n \in Nat \ {0}, NEW a \in Int
  PROVE  /\ a \div n \in Int /\ a % n \in 0..(n - 1)
         /\ a = (a \div n) * n + (a % n)
<1>1. a = (a \div n) * n + (a % n)
  OBVIOUS
<1>2. a \div n \in Int
  OBVIOUS
<1>3. a % n \in 0..(n - 1)
  OBVIOUS
<1> QED
  BY <1>1, <1>2, <1>3

LEMMA Unique ==
  ASSUME NEW n \in Nat \ {0}, NEW q \in Int, NEW p \in Int,
         NEW k \in 0..(n - 1), NEW m \in 0..(n - 1), p * n + k = q * n + m
  PROVE  k = m
OBVIOUS

\* A remainder is determined by what it differs by.
LEMMA Remainder ==
  ASSUME NEW n \in Nat \ {0}, NEW a \in Int, NEW q \in Int, NEW m \in 0..(n - 1),
         a = q * n + m
  PROVE  a % n = m
BY Division, Unique

LEMMA RemainderOfSum ==
  ASSUME NEW n \in Nat \ {0}, NEW a \in Int, NEW b \in Int
  PROVE  (a + b) % n = ((a % n) + b) % n
<1>1. PICK q \in Int, m \in 0..(n - 1) : a = q * n + m /\ a % n = m
  BY Division
<1>2. PICK p \in Int, k \in 0..(n - 1) : m + b = p * n + k /\ (m + b) % n = k
  <2>1. m + b \in Int
    OBVIOUS
  <2> QED
    BY <2>1, Division
<1>3. a + b = (q + p) * n + k
  BY <1>1, <1>2
<1>4. (a + b) % n = k
  <2>1. a + b \in Int /\ q + p \in Int
    OBVIOUS
  <2> QED
    BY <2>1, <1>3, Remainder
<1> QED
  BY <1>1, <1>2, <1>4

\* The place on a ring of n of what has gone round it less than three times.
OnRing(n, x) == IF x < n THEN x ELSE IF x < 2 * n THEN x - n ELSE x - 2 * n

LEMMA RemainderOnRing ==
  ASSUME NEW n \in Nat \ {0}, NEW x \in 0..(3 * n - 1)
  PROVE  x % n = OnRing(n, x) /\ OnRing(n, x) \in 0..(n - 1)
<1>1. OnRing(n, x) \in 0..(n - 1)
  BY DEF OnRing
<1>2. \E q \in {0, 1, 2} : x = q * n + OnRing(n, x)
  <2>1. x = 0 * n + OnRing(n, x) \/ x = 1 * n + OnRing(n, x) \/ x = 2 * n + OnRing(n, x)
    BY DEF OnRing
  <2> QED
    BY <2>1
<1> QED
  BY <1>1, <1>2, Remainder
-----------------------------------------------------------------------------
(* The consensus range of a node *)

\* Globals of n partitions with a consensus radius r and a store radius s.
Ring(g, n, r, s) ==
  /\ n \in Nat \ {0} /\ r \in Nat \ {0} /\ s \in Nat /\ r <= s
  /\ g.numPartitions = n /\ g.consensusRadius = r /\ StoreRadius(g) = s
  /\ g.nodesPerConsenusGroup = 2 * r + 1

\* The partition o ahead of h.
Ahead(n, h, o) == IF h + o < n THEN h + o ELSE h + o - n

\* The scan goes round the ring from the partition -s ahead.
LEMMA ScanAhead ==
  ASSUME NEW g, NEW n, NEW r, NEW s, Ring(g, n, r, s),
         NEW h \in 0..(n - 1), NEW d, d = (-s) % n, NEW i \in DOMAIN Scan(g, h)
  PROVE  /\ d \in 0..(n - 1) /\ i - 1 \in 0..(n - 1)
         /\ Scan(g, h)[i] = Ahead(n, h, Ahead(n, d, i - 1))
<1> USE DEF Ring
<1>1. d \in 0..(n - 1)
  BY Division
<1>2. i \in 1..n /\ Scan(g, h)[i] = (h - s + i - 1) % n
  BY DEF Scan
<1>3. (h - s + i - 1) % n = (d + (h + i - 1)) % n
  <2> DEFINE m == -s
             k == h + i - 1
  <2>1. m \in Int /\ k \in Int /\ h - s + i - 1 = m + k /\ d = m % n
    BY <1>2
  <2> HIDE DEF m, k
  <2>2. (m + k) % n = (d + k) % n
    BY <2>1, RemainderOfSum
  <2> QED
    BY <2>1, <2>2 DEF k
<1>4. d + (h + i - 1) \in 0..(3 * n - 1)
  BY <1>1, <1>2
<1>5. (d + (h + i - 1)) % n = OnRing(n, d + (h + i - 1))
  BY <1>4, RemainderOnRing
<1> HIDE DEF Ring
<1>6. OnRing(n, d + (h + i - 1)) = Ahead(n, h, Ahead(n, d, i - 1))
  BY <1>1, <1>2 DEF OnRing, Ahead, Ring
<1> QED
  BY <1>1, <1>2, <1>3, <1>5, <1>6 DEF Ring

\* In a network with more nodes than the group the range are the partitions up to r away.
LEMMA ConsensusRange ==
  ASSUME NEW g, NEW n, NEW r, NEW s, Ring(g, n, r, s), n > 2 * r + 1,
         NEW h \in 0..(n - 1), NEW o \in 0..(n - 1)
  PROVE  InRange(Ahead(n, h, o), ConsensusPartitions(g, h)) <=> o <= r \/ o >= n - r
<1> DEFINE first == IF h - r < 0 THEN h - r + n ELSE h - r
           last == IF h + r >= n THEN h + r - n ELSE h + r
<1>1. ConsensusPartitions(g, h) = WrappedRange(g, h - r, h + r)
  BY DEF Ring, ConsensusPartitions, PartitionRange
<1>2. ~ (last < first /\ last + 1 = first)
  BY DEF Ring
<1>3. WrappedRange(g, h - r, h + r) =
        [partitionStart |-> first, partitionEnd |-> last, rangeIsSplit |-> last < first]
  BY <1>2 DEF Ring, WrappedRange
<1> HIDE DEF first, last
<1> DEFINE p == Ahead(n, h, o)
           Inside == IF last < first THEN p <= last \/ p >= first ELSE p \in first..last
<1> HIDE DEF p
<1>4. first \in 0..(n - 1) /\ last \in 0..(n - 1) /\ p \in 0..(n - 1)
  BY DEF first, last, p, Ahead, Ring
<1>5. InRange(p, ConsensusPartitions(g, h)) <=> Inside
  <2> DEFINE range == ConsensusPartitions(g, h)
  <2>1. range.partitionStart = first /\ range.partitionEnd = last
    BY <1>1, <1>3
  <2>2. range.rangeIsSplit = (last < first)
    BY <1>1, <1>3
  <2> HIDE DEF range
  <2>3. CASE last < first
    <3>1. range.rangeIsSplit = TRUE
      BY <2>2, <2>3
    <3>2. InRange(p, range) <=> p <= last \/ p >= first
      BY <2>1, <3>1 DEF InRange
    <3> QED
      BY <2>3, <3>2 DEF range
  <2>4. CASE ~(last < first)
    <3>1. range.rangeIsSplit = FALSE
      <4>1. (last < first) = FALSE
        BY <1>4, <2>4
      <4> QED
        BY <2>2, <4>1
    <3>2. InRange(p, range) <=> p \in first..last
      BY <2>1, <3>1 DEF InRange
    <3> QED
      BY <2>4, <3>2 DEF range
  <2> QED
    BY <2>3, <2>4
<1>6. Inside <=> (o <= r \/ o >= n - r)
  <2>1. CASE h + o < n
    BY <2>1 DEF first, last, p, Ahead, Ring
  <2>2. CASE h + o >= n
    BY <2>2 DEF first, last, p, Ahead, Ring
  <2> QED
    BY <2>1, <2>2 DEF Ring
<1> HIDE DEF Inside
<1> QED
  BY <1>5, <1>6 DEF p

\* Otherwise it is all of them.
LEMMA ConsensusRangeWhole ==
  ASSUME NEW g, NEW n, NEW r, NEW s, Ring(g, n, r, s), n <= 2 * r + 1,
         NEW h \in 0..(n - 1), NEW p \in 0..(n - 1)
  PROVE  InRange(p, ConsensusPartitions(g, h))
<1>1. InRange(p, WholeRange(g))
  BY DEF InRange, WholeRange, Ring
<1>2. CASE n <= 2 * r
  BY <1>1, <1>2 DEF Ring, ConsensusPartitions, PartitionRange
<1>3. CASE n = 2 * r + 1
  <2>1. ConsensusPartitions(g, h) = WrappedRange(g, h - r, h + r)
    BY <1>3 DEF Ring, ConsensusPartitions, PartitionRange
  <2>2. CASE h = r
    <3>1. WrappedRange(g, h - r, h + r) =
            [partitionStart |-> h - r, partitionEnd |-> h + r, rangeIsSplit |-> h + r < h - r]
      BY <1>3, <2>2 DEF Ring, WrappedRange
    <3> QED
      BY <1>3, <2>1, <2>2, <3>1 DEF InRange, Ring
  <2>3. CASE h # r
    <3>1. WrappedRange(g, h - r, h + r) = WholeRange(g)
      BY <1>3, <2>3 DEF Ring, WrappedRange
    <3> QED
      BY <1>1, <2>1, <3>1
  <2> QED
    BY <2>2, <2>3
<1> QED
  BY <1>2, <1>3 DEF Ring

\* The span of a node from its first and its last place in the scan.
LEMMA SpanOfPlaces ==
  ASSUME NEW g, NEW n, NEW r, NEW s, Ring(g, n, r, s), NEW h \in 0..(n - 1),
         NEW a \in ConsensusPlaces(g, h), NEW b \in ConsensusPlaces(g, h), a # b,
         \A i \in ConsensusPlaces(g, h) : a <= i /\ i <= b
  PROVE  ConsensusSpan(g, h) = [first |-> Scan(g, h)[a], last |-> Scan(g, h)[b]]
<1> DEFINE places == ConsensusPlaces(g, h)
<1>1. places \subseteq 1..n
  BY DEF ConsensusPlaces, Scan, Ring
<1> HIDE DEF places
<1>2. Min(places) = a
  <2>1. \A x \in places : (\A y \in places : x <= y) => x = a
    BY <1>1 DEF places
  <2>2. \E x \in places : \A y \in places : x <= y
    BY DEF places
  <2> QED
    BY <2>1, <2>2 DEF Min
<1>3. Max(places) = b
  <2>1. \A x \in places : (\A y \in places : x >= y) => x = b
    BY <1>1 DEF places
  <2>2. \E x \in places : \A y \in places : x >= y
    BY <1>1 DEF places
  <2> QED
    BY <2>1, <2>2 DEF Max
<1>4. Cardinality(places) >= 2
  <2>1. IsFiniteSet(places)
    <3>1. IsFiniteSet(1..n)
      BY FS_Interval DEF Ring
    <3> QED
      BY <1>1, <3>1, FS_Subset
  <2>2. {a, b} \subseteq places
    BY DEF places
  <2>3. Cardinality({a, b}) = 2
    <3>1. IsFiniteSet({a}) /\ Cardinality({a}) = 1
      BY FS_Singleton
    <3>2. {a, b} = {a} \cup {b} /\ b \notin {a}
      OBVIOUS
    <3> QED
      BY <3>1, <3>2, FS_AddElement
  <2> QED
    BY <2>1, <2>2, <2>3, FS_Subset, FS_CardinalityType
<1> QED
  BY <1>2, <1>3, <1>4 DEF ConsensusSpan, places
-----------------------------------------------------------------------------
(* The partitions a node covers *)

\* Where a scan starts that starts inside the consensus range, after its start.
StartsInside(n, r, d) == n > 2 * r + 1 /\ d # n - r /\ (d <= r \/ d >= n - r)

LEMMA ScanStart ==
  ASSUME NEW g, NEW n, NEW r, NEW s, Ring(g, n, r, s), NEW d, d = (-s) % n
  PROVE  /\ d \in 0..(n - 1)
         /\ ScanStartsInside(g) <=> StartsInside(n, r, d)
         /\ 2 * s + 1 < n => d = n - s
<1>1. 0 \in 0..(n - 1) /\ 1 \in DOMAIN Scan(g, 0)
  BY DEF Scan, Ring
<1>2. d \in 0..(n - 1) /\ Scan(g, 0)[1] = d
  <2>1. d \in 0..(n - 1) /\ Scan(g, 0)[1] = Ahead(n, 0, Ahead(n, d, 1 - 1))
    BY <1>1, ScanAhead
  <2> QED
    BY <2>1 DEF Ahead, Ring
<1>3. ScanStartsInside(g) <=> StartsInside(n, r, d)
  BY <1>2 DEF ScanStartsInside, StartsInside, Distance, Ring
<1>4. ASSUME 2 * s + 1 < n PROVE d = n - s
  <2>1. -s \in Int /\ -s = (-1) * n + (n - s) /\ n - s \in 0..(n - 1) /\ n \in Nat \ {0}
    BY <1>4 DEF Ring
  <2> QED
    BY <2>1, Remainder
<1> QED
  BY <1>2, <1>3, <1>4

\* Which places of the scan are in the range.
LEMMA PlacesAhead ==
  ASSUME NEW g, NEW n, NEW r, NEW s, Ring(g, n, r, s), NEW d, d = (-s) % n,
         NEW h \in 0..(n - 1), NEW i \in DOMAIN Scan(g, h)
  PROVE  /\ Ahead(n, d, i - 1) \in 0..(n - 1)
         /\ Scan(g, h)[i] = Ahead(n, h, Ahead(n, d, i - 1))
         /\ n <= 2 * r + 1 => i \in ConsensusPlaces(g, h)
         /\ n > 2 * r + 1 =>
              (i \in ConsensusPlaces(g, h) <=>
                 Ahead(n, d, i - 1) <= r \/ Ahead(n, d, i - 1) >= n - r)
<1> DEFINE o == Ahead(n, d, i - 1)
<1>1. /\ d \in 0..(n - 1) /\ i - 1 \in 0..(n - 1)
      /\ Scan(g, h)[i] = Ahead(n, h, o)
  BY ScanAhead
<1>2. o \in 0..(n - 1) /\ n \in Nat /\ r \in Nat
  BY <1>1 DEF Ahead, Ring
<1> HIDE DEF o
<1>3. Ahead(n, h, o) \in 0..(n - 1) /\ (Ahead(n, h, o) = h <=> o = 0)
  BY <1>2 DEF Ahead
<1>4. i \in ConsensusPlaces(g, h) <=>
        Ahead(n, h, o) = h \/ InRange(Ahead(n, h, o), ConsensusPartitions(g, h))
  BY <1>1 DEF ConsensusPlaces
<1>5. n <= 2 * r + 1 => i \in ConsensusPlaces(g, h)
  BY <1>3, <1>4, ConsensusRangeWhole
<1>6. n > 2 * r + 1 => (i \in ConsensusPlaces(g, h) <=> o <= r \/ o >= n - r)
  <2> SUFFICES ASSUME n > 2 * r + 1
               PROVE  i \in ConsensusPlaces(g, h) <=> o <= r \/ o >= n - r
    OBVIOUS
  <2>1. InRange(Ahead(n, h, o), ConsensusPartitions(g, h)) <=> o <= r \/ o >= n - r
    BY <1>2, ConsensusRange
  <2>2. o = 0 => o <= r
    BY <1>2
  <2> QED
    BY <1>3, <1>4, <2>1, <2>2
<1> QED
  BY <1>1, <1>2, <1>5, <1>6 DEF o

\* In a network no larger than the group, or when the scan starts inside the range, a node
\* covers all partitions.
LEMMA CoversAll ==
  ASSUME NEW g, NEW n, NEW r, NEW s, Ring(g, n, r, s), NEW d, d = (-s) % n,
         NEW h \in 0..(n - 1), n <= 2 * r + 1 \/ StartsInside(n, r, d)
  PROVE  Covers(g, h) = 0..(n - 1)
<1>1. d \in 0..(n - 1) /\ (2 * s + 1 < n => d = n - s)
  BY ScanStart
<1>2. 2 * s + 1 >= n
  BY <1>1 DEF StartsInside, Ring
<1>3. DOMAIN Scan(g, h) = 1..n
  BY <1>2 DEF Scan, Ring
<1>4. CASE n = 1
  <2>1. ConsensusPlaces(g, h) \subseteq 1..1
    BY <1>3, <1>4 DEF ConsensusPlaces
  <2>2. IsFiniteSet(1..1) /\ Cardinality(1..1) = 1
    <3>1. 1..1 = {1}
      OBVIOUS
    <3> QED
      BY <3>1, FS_Singleton
  <2>3. Cardinality(ConsensusPlaces(g, h)) <= 1 /\ Cardinality(ConsensusPlaces(g, h)) \in Nat
    BY <2>1, <2>2, FS_Subset, FS_CardinalityType
  <2>4. ConsensusSpan(g, h) = [first |-> h, last |-> h]
    BY <2>3 DEF ConsensusSpan
  <2> QED
    BY <1>4, <2>4 DEF Covers
<1>5. CASE n # 1
  <2>1. 1 \in DOMAIN Scan(g, h) /\ n \in DOMAIN Scan(g, h) /\ n \in Nat /\ n > 1
    BY <1>3, <1>5 DEF Ring
  <2> DEFINE o == Ahead(n, d, 1 - 1)
             q == Ahead(n, d, n - 1)
  <2>2. o = d /\ q = (IF d = 0 THEN n - 1 ELSE d - 1)
    BY <1>1, <2>1 DEF Ahead
  <2>3. 1 \in ConsensusPlaces(g, h) /\ Scan(g, h)[1] = Ahead(n, h, d)
    <3>1. n > 2 * r + 1 => o <= r \/ o >= n - r
      BY <1>1, <2>2 DEF StartsInside, Ring
    <3> HIDE DEF o
    <3>2. /\ Scan(g, h)[1] = Ahead(n, h, o)
          /\ n <= 2 * r + 1 => 1 \in ConsensusPlaces(g, h)
          /\ n > 2 * r + 1 => (1 \in ConsensusPlaces(g, h) <=> o <= r \/ o >= n - r)
      BY <2>1, PlacesAhead DEF o
    <3> QED
      BY <2>1, <2>2, <3>1, <3>2 DEF Ring
  <2>4. n \in ConsensusPlaces(g, h) /\ Scan(g, h)[n] = Ahead(n, h, q)
    <3>1. n > 2 * r + 1 => q <= r \/ q >= n - r
      BY <1>1, <2>2 DEF StartsInside, Ring
    <3> HIDE DEF q
    <3>2. /\ Scan(g, h)[n] = Ahead(n, h, q)
          /\ n <= 2 * r + 1 => n \in ConsensusPlaces(g, h)
          /\ n > 2 * r + 1 => (n \in ConsensusPlaces(g, h) <=> q <= r \/ q >= n - r)
      BY <2>1, PlacesAhead DEF q
    <3> QED
      BY <2>1, <3>1, <3>2 DEF Ring
  <2> HIDE DEF o, q
  <2>5. \A i \in ConsensusPlaces(g, h) : 1 <= i /\ i <= n
    BY <1>3, <2>1 DEF ConsensusPlaces
  <2>6. ConsensusSpan(g, h) = [first |-> Ahead(n, h, d), last |-> Ahead(n, h, q)]
    BY <2>1, <2>3, <2>4, <2>5, SpanOfPlaces
  <2>7. Covers(g, h) = IF Ahead(n, h, d) <= Ahead(n, h, q)
                         THEN Ahead(n, h, d)..Ahead(n, h, q)
                         ELSE 0..Ahead(n, h, q) \cup Ahead(n, h, d)..(n - 1)
    BY <2>6 DEF Covers, Ring
  <2>8. \/ Ahead(n, h, d) = 0 /\ Ahead(n, h, q) = n - 1
        \/ Ahead(n, h, d) \in 1..(n - 1) /\ Ahead(n, h, q) = Ahead(n, h, d) - 1
    BY <1>1, <2>1, <2>2 DEF Ahead
  <2> DEFINE first == Ahead(n, h, d)
             last == Ahead(n, h, q)
  <2> HIDE DEF first, last
  <2>9. CASE first = 0 /\ last = n - 1
    BY <2>1, <2>7, <2>9 DEF first, last
  <2>10. CASE first \in 1..(n - 1) /\ last = first - 1
    <3>1. Covers(g, h) = 0..last \cup first..(n - 1)
      BY <2>1, <2>7, <2>10 DEF first, last
    <3> QED
      BY <2>1, <2>10, <3>1
  <2> QED
    BY <2>8, <2>9, <2>10 DEF first, last
<1> QED
  BY <1>4, <1>5

\* Otherwise it covers those up to the consensus radius away.
LEMMA CoversNear ==
  ASSUME NEW g, NEW n, NEW r, NEW s, Ring(g, n, r, s), NEW d, d = (-s) % n,
         NEW h \in 0..(n - 1), n > 2 * r + 1, ~ StartsInside(n, r, d)
  PROVE  Covers(g, h) = {p \in 0..(n - 1) : Distance(g, h, p) <= r}
<1>1. d \in 0..(n - 1) /\ (2 * s + 1 < n => d = n - s)
  BY ScanStart
<1>2. d > r /\ d <= n - r
  BY <1>1 DEF StartsInside, Ring
<1> DEFINE a == n - r - d + 1
           b == n + r - d + 1
           m == IF 2 * s + 1 > n THEN n ELSE 2 * s + 1
<1>3. DOMAIN Scan(g, h) = 1..m
  BY DEF Scan, Ring
<1>4. a \in 1..m /\ b \in 1..m /\ a # b /\ m <= n
  BY <1>1, <1>2 DEF Ring
<1>5. Ahead(n, d, a - 1) = n - r /\ Ahead(n, d, b - 1) = r
  BY <1>1, <1>2 DEF Ahead, Ring
<1>6. \A i \in 1..m :
        Ahead(n, d, i - 1) <= r \/ Ahead(n, d, i - 1) >= n - r => a <= i /\ i <= b
  BY <1>1, <1>2, <1>4 DEF Ahead, Ring
<1> HIDE DEF a, b, m
<1>7. \A i \in 1..m : i \in ConsensusPlaces(g, h) <=>
                        Ahead(n, d, i - 1) <= r \/ Ahead(n, d, i - 1) >= n - r
  BY <1>3, PlacesAhead
<1>8. a \in ConsensusPlaces(g, h) /\ b \in ConsensusPlaces(g, h)
  BY <1>4, <1>5, <1>7 DEF Ring
<1>9. \A i \in ConsensusPlaces(g, h) : a <= i /\ i <= b
  BY <1>3, <1>6, <1>7 DEF ConsensusPlaces
<1>10. Scan(g, h)[a] = Ahead(n, h, n - r) /\ Scan(g, h)[b] = Ahead(n, h, r)
  <2>1. ASSUME NEW i \in DOMAIN Scan(g, h)
        PROVE  Scan(g, h)[i] = Ahead(n, h, Ahead(n, d, i - 1))
    BY PlacesAhead
  <2>2. a \in DOMAIN Scan(g, h) /\ b \in DOMAIN Scan(g, h)
    BY <1>3, <1>4
  <2> QED
    BY <1>5, <2>1, <2>2
<1>11. ConsensusSpan(g, h) = [first |-> Ahead(n, h, n - r), last |-> Ahead(n, h, r)]
  BY <1>4, <1>8, <1>9, <1>10, SpanOfPlaces
<1>12. Covers(g, h) = IF Ahead(n, h, n - r) <= Ahead(n, h, r)
                        THEN Ahead(n, h, n - r)..Ahead(n, h, r)
                        ELSE 0..Ahead(n, h, r) \cup Ahead(n, h, n - r)..(n - 1)
  BY <1>11 DEF Covers, Ring
<1> DEFINE first == Ahead(n, h, n - r)
           last == Ahead(n, h, r)
<1>13. first \in 0..(n - 1) /\ last \in 0..(n - 1)
  BY DEF Ahead, Ring
<1>14. \A p \in 0..(n - 1) :
         (IF first <= last THEN p \in first..last ELSE p <= last \/ p >= first)
           <=> Distance(g, h, p) <= r
  BY DEF Ahead, Distance, Ring
<1> HIDE DEF first, last
<1>15. CASE first <= last
  <2>1. Covers(g, h) = first..last
    BY <1>12, <1>15 DEF first, last
  <2> QED
    BY <1>13, <1>14, <1>15, <2>1 DEF Ring
<1>16. CASE ~(first <= last)
  <2>1. Covers(g, h) = 0..last \cup first..(n - 1)
    BY <1>12, <1>16 DEF first, last
  <2>2. \A p : p \in Covers(g, h) <=> p \in 0..(n - 1) /\ (p <= last \/ p >= first)
    BY <1>13, <2>1 DEF Ring
  <2>3. \A p \in 0..(n - 1) : p <= last \/ p >= first <=> Distance(g, h, p) <= r
    BY <1>14, <1>16
  <2> QED
    BY <2>2, <2>3
<1> QED
  BY <1>15, <1>16

\* The nodes that cover a partition are the ones around it, or all of them.
LEMMA CoveredByIntended ==
  ASSUME NEW g, NEW n, NEW r, NEW s, Ring(g, n, r, s), NEW p \in 0..(n - 1)
  PROVE  CoveredBy(g, p) = {h \in 0..(n - 1) : ScanStartsInside(g) \/ Distance(g, h, p) <= r}
<1> DEFINE d == (-s) % n
<1>1. ScanStartsInside(g) <=> StartsInside(n, r, d)
  BY ScanStart
<1> HIDE DEF d
<1>2. Partitions(g) = 0..(n - 1)
  BY DEF Partitions, Ring
<1>3. CASE StartsInside(n, r, d)
  BY <1>1, <1>2, <1>3, CoversAll DEF CoveredBy, d
<1>4. CASE n > 2 * r + 1 /\ ~ StartsInside(n, r, d)
  BY <1>1, <1>2, <1>4, CoversNear DEF CoveredBy, d
<1>5. CASE n <= 2 * r + 1
  <2>1. \A h \in 0..(n - 1) : Distance(g, h, p) <= r
    BY <1>5 DEF Distance, Ring
  <2> QED
    BY <1>2, <1>5, <2>1, CoversAll DEF CoveredBy, d
<1> QED
  BY <1>3, <1>4, <1>5 DEF Ring
-----------------------------------------------------------------------------
(* Addresses and places *)

LEMMA Times ==
  ASSUME NEW a \in Int, NEW b \in Int, NEW k \in Nat, a <= b
  PROVE  a * k <= b * k
OBVIOUS

\* Globals of the configuration are those of a ring.
LEMMA GlobalsRing ==
  ASSUME config \in [group : GroupSizes, edge : Edges], NEW n \in Nat \ {0}
  PROVE  /\ Globals(n).numPartitions = n
         /\ \E r \in Nat, s \in Nat : Ring(Globals(n), n, r, s)
         /\ Globals(n).consensusRadius \in Nat /\ Globals(n).nodesPerConsenusGroup \in Nat \ {0}
<1> DEFINE g == Globals(n)
           odd == OddSize(config.group)
           r == (odd - 1) \div 2
<1>1. config.group \in Nat \ {0, 1} /\ config.edge \in Nat
  BY NodesAssumption
<1>2. odd \in Nat /\ r \in Nat \ {0} /\ odd = 2 * r + 1
  <2>1. CASE config.group % 2 = 0
    BY <1>1, <2>1 DEF OddSize
  <2>2. CASE config.group % 2 # 0
    BY <1>1, <2>2 DEF OddSize
  <2> QED
    BY <2>1, <2>2
<1> HIDE DEF odd
<1>3. /\ g.numPartitions = n /\ g.nodesPerConsenusGroup = odd
      /\ g.consensusRadius = r /\ g.nodesPerEdge = config.edge
  BY DEF Globals, ShardGlobals, odd
<1> HIDE DEF g, r
<1>4. Ring(g, n, r, r + config.edge)
  BY <1>1, <1>2, <1>3 DEF Ring, StoreRadius
<1> QED
  BY <1>1, <1>2, <1>3, <1>4 DEF g

\* Every address is in a partition, as long as rounding moves the last ones by less than one.
LEMMA AddressInPartition ==
  ASSUME NEW g, NEW n \in Nat \ {0}, g.numPartitions = n, n * n <= 2 * AddressSpace,
         NEW address \in 0..(AddressSpace - 1)
  PROVE  AddressToPartition(g, address) \in Partitions(g)
<1> DEFINE A == AddressSpace
           size == PartitionSize(g)
           home == address \div size
<1>1. A \in Nat \ {0}
  BY AddressSpaceAssumption
<1>2. PICK q \in Int, m \in 0..(2 * n - 1) : 2 * A + n = q * (2 * n) + m /\ size = q
  <2>1. 2 * A + n \in Int /\ 2 * n \in Nat \ {0}
    BY <1>1
  <2> QED
    BY <2>1, Division DEF PartitionSize
<1> HIDE DEF size
<1>3. n <= n * n
  <2>1. 1 * n <= n * n
    BY Times
  <2> QED
    BY <2>1
<1>4. q >= 1
  <2> SUFFICES ASSUME q <= 0 PROVE FALSE
    BY <1>2
  <2>1. q * (2 * n) <= 0 * (2 * n)
    BY <1>2, Times
  <2> QED
    BY <1>1, <1>2, <1>3, <2>1
<1>5. PICK h \in Int, k \in 0..(q - 1) : address = h * q + k /\ home = h
  <2>1. q \in Nat \ {0} /\ address \in Int
    BY <1>1, <1>2, <1>4
  <2>2. /\ address \div q \in Int /\ address % q \in 0..(q - 1)
        /\ address = (address \div q) * q + (address % q)
    BY <2>1, Division
  <2> QED
    BY <1>2, <2>2
<1> HIDE DEF home
<1>6. h >= 0
  <2> SUFFICES ASSUME h <= -1 PROVE FALSE
    BY <1>5
  <2>1. h * q <= (-1) * q
    BY <1>2, <1>4, <1>5, Times
  <2> QED
    BY <1>2, <1>4, <1>5, <2>1
<1>7. h <= n
  <2> SUFFICES ASSUME h >= n + 1 PROVE FALSE
    BY <1>5
  <2>1. (n + 1) * q <= h * q
    BY <1>2, <1>4, <1>5, Times
  <2>2. (n + 1) * q <= A - 1
    BY <1>1, <1>2, <1>4, <1>5, <2>1
  <2>3. ((n + 1) * q) * (2 * n) <= (A - 1) * (2 * n)
    BY <1>1, <1>2, <2>2, Times
  <2>4. ((n + 1) * q) * (2 * n) = (n + 1) * (2 * A + n - m)
    <3>1. q * (2 * n) = 2 * A + n - m
      BY <1>1, <1>2
    <3>2. ((n + 1) * q) * (2 * n) = (n + 1) * (q * (2 * n))
      BY <1>2
    <3> QED
      BY <3>1, <3>2
  <2>5. (2 * A + 1 - n) * (n + 1) <= (2 * A + n - m) * (n + 1)
    <3>1. 2 * A + 1 - n \in Int /\ 2 * A + n - m \in Int /\ 2 * A + 1 - n <= 2 * A + n - m
      BY <1>1, <1>2
    <3> QED
      BY <3>1, Times
  <2>6. (2 * A + 1 - n) * (n + 1) = 2 * A * n + 2 * A + 1 - n * n
    BY <1>1
  <2>7. (A - 1) * (2 * n) = 2 * A * n - 2 * n
    BY <1>1
  <2> QED
    BY <1>1, <1>2, <2>3, <2>4, <2>5, <2>6, <2>7
<1>8. AddressToPartition(g, address) = IF h = n THEN h - 1 ELSE h
  BY <1>5 DEF AddressToPartition, home, size
<1> QED
  BY <1>5, <1>6, <1>7, <1>8 DEF Partitions
-----------------------------------------------------------------------------
(* Shard data *)

S == INSTANCE NodeListSorting WITH NoId <- -1

\* Nodes and their sets are finite; a place is a home partition ...
LEMMA IndexBelow ==
  ASSUME NEW nodes \in SUBSET Nodes, NEW node \in nodes
  PROVE  IsFiniteSet(nodes) /\ IndexIn(nodes, node) \in 0..(Cardinality(nodes) - 1)
<1>1. IsFiniteSet(nodes)
  BY NodesAssumption, FS_Subset
<1> DEFINE before == {other \in nodes : other < node}
<1>2. before \subseteq nodes /\ before # nodes
  BY NodesAssumption
<1>3. IsFiniteSet(before) /\ Cardinality(before) <= Cardinality(nodes)
      /\ Cardinality(before) # Cardinality(nodes)
  BY <1>1, <1>2, FS_Subset
<1> HIDE DEF before
<1>4. Cardinality(before) \in Nat /\ Cardinality(nodes) \in Nat
  BY <1>1, <1>3, FS_CardinalityType
<1> QED
  BY <1>1, <1>3, <1>4 DEF IndexIn, before

\* ... and every partition is a node's home.
LEMMA EveryPlace ==
  ASSUME NEW nodes \in SUBSET Nodes
  PROVE  \A k \in 0..(Cardinality(nodes) - 1) : \E node \in nodes : IndexIn(nodes, node) = k
<1> DEFINE count == Cardinality(nodes)
           homeless == {k \in 0..(count - 1) : \A node \in nodes : IndexIn(nodes, node) # k}
<1>1. IsFiniteSet(nodes) /\ count \in Nat /\ nodes \in SUBSET Nat
  BY NodesAssumption, FS_Subset, FS_CardinalityType
<1>0. \A node \in nodes : node \in Nat
  BY <1>1
<1> SUFFICES ASSUME homeless # {} PROVE FALSE
  OBVIOUS
<1> HIDE DEF count
<1>2. homeless \in SUBSET Nat
  BY <1>1
<1>3. PICK k \in homeless : \A other \in homeless : k <= other
  BY <1>2, S!Least
<1>4. k \in 0..(count - 1) /\ \A node \in nodes : IndexIn(nodes, node) # k
  OBVIOUS
<1>5. CASE k = 0
  <2>1. nodes # {}
    BY <1>1, <1>4, FS_EmptySet DEF count
  <2>2. PICK first \in nodes : \A other \in nodes : first <= other
    BY <1>1, <2>1, S!Least
  <2>3. {other \in nodes : other < first} = {}
    BY <1>0, <2>2
  <2> QED
    BY <1>4, <1>5, <2>3, FS_EmptySet DEF IndexIn
<1>6. CASE k # 0
  <2>1. PICK node \in nodes : IndexIn(nodes, node) = k - 1
    <3>1. k - 1 \in 0..(count - 1) /\ k - 1 \notin homeless
      BY <1>1, <1>3, <1>4, <1>6
    <3> QED
      BY <3>1
  <2> DEFINE upTo == {other \in nodes : other <= node}
             before == {other \in nodes : other < node}
             after == nodes \ upTo
  <2>2. IsFiniteSet(upTo) /\ Cardinality(upTo) = k
    <3>1. IsFiniteSet(before) /\ Cardinality(before) = k - 1
      BY <1>1, <2>1, FS_Subset DEF IndexIn
    <3>2. upTo = before \cup {node} /\ node \notin before
      BY <1>0
    <3> HIDE DEF upTo, before
    <3>3. IsFiniteSet(upTo) /\ Cardinality(upTo) = Cardinality(before) + 1
      BY <3>1, <3>2, FS_AddElement
    <3> QED
      BY <1>4, <3>1, <3>3
  <2>3. after # {}
    <3> SUFFICES ASSUME after = {} PROVE FALSE
      OBVIOUS
    <3>1. nodes = upTo
      OBVIOUS
    <3> HIDE DEF upTo
    <3> QED
      BY <1>1, <1>4, <2>2, <3>1 DEF count
  <2>4. PICK next \in after : \A other \in after : next <= other
    <3>1. after \in SUBSET Nat
      BY <1>1
    <3> HIDE DEF after
    <3> QED
      BY <2>3, <3>1, S!Least
  <2>5. {other \in nodes : other < next} = upTo
    BY <1>0, <2>4
  <2> HIDE DEF upTo, after
  <2>6. IndexIn(nodes, next) = k
    BY <2>2, <2>5 DEF IndexIn
  <2> QED
    BY <1>4, <2>4, <2>6 DEF after
<1> QED
  BY <1>5, <1>6

Configured == config \in [group : GroupSizes, edge : Edges]

\* What is kept of a cycle: the groups of its members, and a list in which members stay.
ShardDataOK(data) ==
  /\ DOMAIN data = {"globals", "members", "coveredBy", "nodes", "live"}
  /\ data.members # {} /\ data.members \subseteq data.nodes /\ data.nodes \subseteq Nodes
  /\ data.globals = Globals(Cardinality(data.members))
  /\ data.coveredBy =
       [p \in 0..(Cardinality(data.members) - 1) |->
          {node \in data.members : IndexIn(data.members, node) \in CoveredBy(data.globals, p)}]
  /\ data.live \in BOOLEAN

LEMMA ShardDataMade ==
  ASSUME NEW nodes \in SUBSET Nodes, nodes # {}
  PROVE  ShardDataOK(ShardData(nodes)) /\ ShardData(nodes).members = nodes
BY DEF ShardDataOK, ShardData

LEMMA SomeMembers ==
  ASSUME NEW nodes \in SUBSET Nodes, nodes # {}
  PROVE  /\ Cardinality(nodes) \in 1..Cardinality(Nodes)
         /\ IsFiniteSet(nodes)
<1>1. IsFiniteSet(nodes) /\ Cardinality(nodes) <= Cardinality(Nodes)
  BY NodesAssumption, FS_Subset
<1>2. Cardinality(nodes) \in Nat /\ Cardinality(nodes) # 0 /\ Cardinality(Nodes) \in Nat
  BY <1>1, NodesAssumption, FS_CardinalityType, FS_EmptySet
<1> QED
  BY <1>1, <1>2

\* The groups of a cycle are those intended, and none is empty.
LEMMA GroupsIntended ==
  ASSUME Configured, NEW data, ShardDataOK(data), NEW p \in Partitions(data.globals)
  PROVE  /\ data.coveredBy[p] = IntendedGroup(data, p)
         /\ data.coveredBy[p] \in (SUBSET data.members) \ {{}}
<1> DEFINE members == data.members
           n == Cardinality(members)
           g == data.globals
<1>1. members \in SUBSET Nodes /\ members # {}
  BY DEF ShardDataOK
<1>2. n \in Nat \ {0} /\ g = Globals(n)
  BY <1>1, SomeMembers DEF ShardDataOK
<1>3. ASSUME NEW node \in members PROVE IndexIn(members, node) \in 0..(n - 1)
  BY <1>1, IndexBelow
<1>4. \E node \in members : IndexIn(members, node) = p
  <2>1. Globals(n).numPartitions = n
    BY <1>2, GlobalsRing DEF Configured
  <2>2. p \in 0..(n - 1)
    BY <1>2, <2>1 DEF Partitions
  <2> QED
    BY <1>1, <2>2, EveryPlace
<1>5. data.coveredBy[p] = {node \in members : IndexIn(members, node) \in CoveredBy(g, p)}
  BY <1>2, GlobalsRing DEF ShardDataOK, Partitions, Configured
<1> HIDE DEF members, n, g
<1>6. p \in 0..(n - 1) /\ n = g.numPartitions
  BY <1>2, GlobalsRing DEF Partitions, Configured, g
<1>7. PICK r \in Nat, s \in Nat : Ring(g, n, r, s)
  BY <1>2, GlobalsRing DEF Configured
<1>8. CoveredBy(g, p) = {h \in 0..(n - 1) : ScanStartsInside(g) \/ Distance(g, h, p) <= r}
  BY <1>6, <1>7, CoveredByIntended
<1>9. data.coveredBy[p] = IntendedGroup(data, p)
  BY <1>3, <1>5, <1>6, <1>7, <1>8 DEF IntendedGroup, Within, Partitions, Ring, members, g
<1>10. p \in CoveredBy(g, p)
  BY <1>6, <1>7, <1>8 DEF Distance, Ring
<1>11. data.coveredBy[p] # {}
  BY <1>4, <1>5, <1>10
<1>12. data.coveredBy[p] \subseteq members
  BY <1>5
<1> DEFINE group == data.coveredBy[p]
<1>13. group \in (SUBSET data.members) \ {{}}
  <2> HIDE DEF group
  <2>1. group # {} /\ group \subseteq data.members
    BY <1>11, <1>12 DEF members, group
  <2> QED
    BY <2>1
<1> QED
  BY <1>9, <1>13
-----------------------------------------------------------------------------
(* Counting *)

\* Rounding up is the least number that reaches the quotient.
LEMMA RoundUp ==
  ASSUME NEW x \in Nat, NEW num \in Nat \ {0}, NEW den \in Nat \ {0}
  PROVE  LET c == (x * num + den - 1) \div den
         IN /\ c \in Nat
            /\ x >= 1 => c >= 1
            /\ \A k \in Nat : k >= c <=> den * k >= num * x
<1>1. x * num \in Nat
  OBVIOUS
<1>2. PICK q \in Int, m \in 0..(den - 1) :
        x * num + den - 1 = q * den + m /\ (x * num + den - 1) \div den = q
  <2>1. x * num + den - 1 \in Int
    BY <1>1
  <2> QED
    BY <2>1, Division
<1>3. \A k \in Int : k >= q => k * den >= x * num
  <2> TAKE k \in Int
  <2> HAVE k >= q
  <2>1. q * den <= k * den
    BY Times
  <2> QED
    BY <1>1, <1>2, <2>1
<1>4. \A k \in Int : k * den >= x * num => k >= q
  <2> TAKE k \in Int
  <2> SUFFICES ASSUME k <= q - 1 PROVE k * den < x * num
    OBVIOUS
  <2>1. k * den <= (q - 1) * den
    BY Times
  <2>2. (q - 1) * den = q * den - den
    OBVIOUS
  <2> QED
    BY <1>1, <1>2, <2>1, <2>2
<1>5. q >= 0
  <2> SUFFICES ASSUME q <= -1 PROVE FALSE
    OBVIOUS
  <2>1. q * den <= (-1) * den
    BY Times
  <2> QED
    BY <1>1, <1>2, <2>1
<1>6. x >= 1 => q >= 1
  <2> SUFFICES ASSUME x >= 1, q = 0 PROVE FALSE
    BY <1>5
  <2>1. 1 * num <= x * num
    BY Times
  <2>2. 0 * den >= x * num
    BY <1>3
  <2> QED
    BY <2>1, <2>2
<1>7. \A k \in Nat : k * den = den * k /\ x * num = num * x
  OBVIOUS
<1> QED
  BY <1>2, <1>3, <1>4, <1>5, <1>6, <1>7

\* The voting group counts the list, in which members stay and others come.
LEMMA VotingGroup ==
  ASSUME Configured, NEW data, ShardDataOK(data)
  PROVE  /\ VotingGroupCount(data) \in Nat \ {0}
         /\ SetMin(data.globals.nodesPerConsenusGroup, Cardinality(data.members))
              <= VotingGroupCount(data)
         /\ SetMin(data.globals.nodesPerConsenusGroup, Cardinality(data.members)) \in Nat
         /\ ~Outgrown(data) =>
              SetMin(data.globals.nodesPerConsenusGroup, Cardinality(data.members))
                = VotingGroupCount(data)
<1> DEFINE n == Cardinality(data.members)
           k == Cardinality(data.nodes)
           size == data.globals.nodesPerConsenusGroup
<1>1. data.members \in SUBSET Nodes /\ data.nodes \in SUBSET Nodes
      /\ data.members # {} /\ data.nodes # {} /\ data.members \subseteq data.nodes
  BY DEF ShardDataOK
<1>2. n \in Nat \ {0} /\ k \in Nat \ {0} /\ n <= k
  <2>1. IsFiniteSet(data.nodes) /\ k \in 1..Cardinality(Nodes) /\ n \in 1..Cardinality(Nodes)
    BY <1>1, SomeMembers
  <2>2. n <= k
    BY <1>1, <2>1, FS_Subset
  <2> QED
    BY <2>1, <2>2
<1>3. size \in Nat \ {0}
  BY <1>2, GlobalsRing DEF ShardDataOK, Configured
<1>4. data.nodes = data.members => n = k
  OBVIOUS
<1> HIDE DEF n, k, size
<1>5. /\ VotingGroupCount(data) = SetMin(size, k)
      /\ ~Outgrown(data) => n = k \/ n >= size
  BY <1>2, <1>3, <1>4 DEF VotingGroupCount, Outgrown, size, k, n
<1> QED
  BY <1>2, <1>3, <1>5 DEF SetMin, size, n

\* What verification needs of the form of a receipt.
ReceiptOK(r) ==
  /\ DOMAIN r = {"type", "cycle", "key", "signers", "signedOffsets", "voteOffsets", "vote",
                 "proposal", "tx", "beforeStates", "afterStates"}
  /\ r.signers \in Seq(Nat) /\ r.key \in Keys

\* Signers are counted once each.
LEMMA OwnersCounted ==
  ASSUME NEW r, ReceiptOK(r), NEW T
  PROVE  /\ IsFiniteSet(Owners(r)) /\ IsFiniteSet(Owners(r) \cap T)
         /\ Cardinality(Owners(r)) \in Nat /\ Cardinality(Owners(r) \cap T) \in Nat
         /\ Cardinality(Owners(r) \cap T) <= Cardinality(Owners(r))
         /\ Cardinality(Owners(r)) <= Len(r.signers)
<1>1. Len(r.signers) \in Nat /\ DOMAIN r.signers = 1..Len(r.signers)
  BY DEF ReceiptOK
<1>2. IsFiniteSet(DOMAIN r.signers) /\ Cardinality(DOMAIN r.signers) = Len(r.signers)
  BY <1>1, FS_Interval
<1>3. r.signers \in Surjection(DOMAIN r.signers, Owners(r))
  BY DEF ReceiptOK, Owners, Surjection
<1>4. IsFiniteSet(Owners(r)) /\ Cardinality(Owners(r)) <= Len(r.signers)
  BY <1>2, <1>3, FS_Surjection
<1>5. Owners(r) \cap T \subseteq Owners(r)
  OBVIOUS
<1> QED
  BY <1>4, <1>5, FS_Subset, FS_CardinalityType

\* The home of an address is a partition.
LEMMA HomeInPartitions ==
  ASSUME Configured, NEW data, ShardDataOK(data), NEW key \in Keys
  PROVE  Home(data, key) \in Partitions(data.globals)
<1> DEFINE n == Cardinality(data.members)
<1>1. data.members \in SUBSET Nodes /\ data.members # {}
  BY DEF ShardDataOK
<1>2. n \in Nat \ {0} /\ n <= Cardinality(Nodes) /\ Cardinality(Nodes) \in Nat
  BY <1>1, SomeMembers, NodesAssumption, FS_CardinalityType
<1> HIDE DEF n
<1>3. n * n <= 2 * AddressSpace
  <2>1. n * n <= Cardinality(Nodes) * n
    BY <1>2, Times
  <2>2. n * Cardinality(Nodes) <= Cardinality(Nodes) * Cardinality(Nodes)
    BY <1>2, Times
  <2>3. n * Cardinality(Nodes) = Cardinality(Nodes) * n
    BY <1>2
  <2> QED
    BY <1>2, <2>1, <2>2, <2>3, NodesAssumption, AddressSpaceAssumption
<1>4. data.globals.numPartitions = n
  BY <1>2, GlobalsRing DEF ShardDataOK, Configured, n
<1>5. key \in 0..(AddressSpace - 1)
  BY NodesAssumption
<1> QED
  BY <1>2, <1>3, <1>4, <1>5, AddressInPartition DEF Home

\* Of the signers those are counted who execute the transaction, whatever the list has become.
LEMMA Executors ==
  ASSUME Configured, NEW data, ShardDataOK(data), NEW r, ReceiptOK(r)
  PROVE  LET executors == IntendedGroup(data, Home(data, r.key))
         IN /\ Home(data, r.key) \in Partitions(data.globals)
            /\ Owners(r) \cap data.nodes \cap ExecutionGroup(data, r) = Owners(r) \cap executors
            /\ UniqueSigners(data, r) = Cardinality(Owners(r) \cap executors)
<1>6. Home(data, r.key) \in Partitions(data.globals)
  BY HomeInPartitions DEF ReceiptOK
<1>7. ExecutionGroup(data, r) = IntendedGroup(data, Home(data, r.key))
  BY <1>6, GroupsIntended DEF ExecutionGroup, Home
<1>8. IntendedGroup(data, Home(data, r.key)) \subseteq data.nodes
  BY DEF IntendedGroup, ShardDataOK
<1> DEFINE executors == IntendedGroup(data, Home(data, r.key))
<1> HIDE DEF executors
<1>9. Owners(r) \cap data.nodes \cap ExecutionGroup(data, r) = Owners(r) \cap executors
  BY <1>7, <1>8 DEF executors
<1> QED
  BY <1>6, <1>9 DEF UniqueSigners, executors

\* The count of signatures the code asks of a normal receipt is a quorum, and is reached by
\* every quorum while the list has not outgrown the cycle.
LEMMA VotesAreQuorum ==
  ASSUME Configured, NEW data, ShardDataOK(data), NEW r, ReceiptOK(r)
  PROVE  /\ RequiredSignatures(data) \in Nat
         /\ BackedByVotes(data, r) =>
              /\ 1 <= RequiredSignatures(data)
              /\ RequiredSignatures(data) <= Cardinality(Owners(r))
              /\ Quorum(data, r)
         /\ ~Outgrown(data) /\ Quorum(data, r) => BackedByVotes(data, r)
<1> DEFINE group == SetMin(data.globals.nodesPerConsenusGroup, Cardinality(data.members))
           count == VotingGroupCount(data)
           executors == IntendedGroup(data, Home(data, r.key))
           backers == Cardinality(Owners(r) \cap executors)
           num == VotesNeeded.num
           den == VotesNeeded.den
           required == RequiredSignatures(data)
<1>1. /\ count \in Nat \ {0} /\ group \in Nat /\ group <= count
      /\ ~Outgrown(data) => group = count
  BY VotingGroup
<1>2. /\ backers \in Nat /\ Cardinality(Owners(r)) \in Nat /\ Len(r.signers) \in Nat
      /\ backers <= Cardinality(Owners(r)) /\ Cardinality(Owners(r)) <= Len(r.signers)
  <2>1. Len(r.signers) \in Nat
    BY DEF ReceiptOK
  <2> HIDE DEF executors
  <2> QED
    BY <2>1, OwnersCounted
<1>3. num \in Nat \ {0} /\ den \in Nat \ {0}
  BY VotesAssumption
<1>4. required = (count * num + den - 1) \div den
  BY DEF RequiredSignatures
<1>5. BackedByVotes(data, r) <=> Len(r.signers) >= required /\ backers >= required
  BY Executors DEF BackedByVotes
<1>6. Quorum(data, r) <=> den * backers >= num * group
  BY DEF Quorum
<1> HIDE DEF group, count, executors, backers, num, den, required
<1>7. required \in Nat /\ required >= 1 /\ \A k \in Nat : k >= required <=> den * k >= num * count
  BY <1>1, <1>3, <1>4, RoundUp
<1>8. num * group <= num * count
  <2>1. group * num <= count * num
    BY <1>1, <1>3, Times
  <2> QED
    BY <1>1, <1>3, <2>1
<1>9. num * group \in Nat /\ num * count \in Nat /\ den * backers \in Nat
  BY <1>1, <1>2, <1>3
<1>10. ASSUME BackedByVotes(data, r) PROVE required <= Cardinality(Owners(r)) /\ Quorum(data, r)
  <2>1. backers >= required
    BY <1>5, <1>10
  <2>2. den * backers >= num * count
    BY <1>2, <1>7, <2>1
  <2> QED
    BY <1>2, <1>6, <1>7, <1>8, <1>9, <2>1, <2>2
<1>11. ASSUME ~Outgrown(data), Quorum(data, r) PROVE BackedByVotes(data, r)
  <2>1. den * backers >= num * count
    BY <1>1, <1>6, <1>11
  <2>2. backers >= required
    BY <1>2, <1>7, <2>1
  <2> QED
    BY <1>2, <1>5, <1>7, <2>2
<1> QED
  BY <1>7, <1>10, <1>11 DEF required

\* The majority asked of a global receipt, and the count asked for once it is reached.
LEMMA MajorityBacked ==
  ASSUME Configured, NEW data, ShardDataOK(data), NEW r, ReceiptOK(r)
  PROVE  LET backers == Owners(r) \cap IntendedGroup(data, Home(data, r.key))
             Met(k) == k * (100 * MajorityNeeded.den)
                         <= MajorityNeeded.num * VotingGroupCount(data)
         IN /\ GlobalRequired(data) \in Nat /\ Met(GlobalRequired(data))
            /\ Majority(Cardinality(backers), data) => BackedByMajority(data, r)
            /\ \A k \in Nat :
                 Met(k) /\ Majority(Cardinality(backers), data) => Cardinality(backers) >= k
<1> DEFINE count == VotingGroupCount(data)
           executors == IntendedGroup(data, Home(data, r.key))
           backers == Cardinality(Owners(r) \cap executors)
           num == MajorityNeeded.num
           den == MajorityNeeded.den
           scale == 100 * den
           len == Len(r.signers)
           required == GlobalRequired(data)
<1>1. count \in Nat \ {0}
  BY VotingGroup
<1>2. backers \in Nat /\ len \in Nat /\ backers <= len
  <2>1. Len(r.signers) \in Nat
    BY DEF ReceiptOK
  <2> HIDE DEF executors
  <2>2. /\ backers \in Nat /\ backers <= Cardinality(Owners(r))
        /\ Cardinality(Owners(r)) \in Nat /\ Cardinality(Owners(r)) <= Len(r.signers)
    BY OwnersCounted
  <2> QED
    BY <2>1, <2>2
<1>3. num \in Nat \ {0} /\ den \in Nat \ {0}
  BY VotesAssumption
<1>4. required = (count * num) \div (den * 100)
  BY DEF GlobalRequired
<1>5. /\ Majority(backers, data) <=> backers * 100 * den >= num * count
      /\ Majority(len, data) <=> len * 100 * den >= num * count
      /\ BackedByMajority(data, r) <=> Majority(len, data) /\ Majority(backers, data)
  BY Executors DEF BackedByMajority, Majority
<1> HIDE DEF count, executors, backers, num, den, len, required
<1>6. scale \in Nat \ {0} /\ den * 100 = scale
  BY <1>3
<1>7. backers * 100 * den = backers * scale /\ len * 100 * den = len * scale
  BY <1>2, <1>3
<1> HIDE DEF scale
<1>8. count * num \in Nat /\ count * num = num * count
  BY <1>1, <1>3
<1>9. required \in Nat /\ required * scale <= num * count
  <2>1. PICK q \in Int, m \in 0..(scale - 1) :
          count * num = q * scale + m /\ (count * num) \div scale = q
    <3> DEFINE total == count * num
    <3>1. total \in Int
      BY <1>8
    <3> HIDE DEF total
    <3>2. scale \in Nat \ {0}
      BY <1>6
    <3>3. /\ total \div scale \in Int /\ total % scale \in 0..(scale - 1)
          /\ total = (total \div scale) * scale + (total % scale)
      BY <3>1, <3>2, Division
    <3> QED
      BY <3>3 DEF total
  <2>2. q >= 0
    <3> SUFFICES ASSUME q <= -1 PROVE FALSE
      BY <2>1
    <3>1. q * scale <= (-1) * scale
      BY <1>6, Times
    <3> QED
      BY <1>6, <1>8, <2>1, <3>1
  <2>3. q * scale \in Int
    BY <1>6
  <2> QED
    BY <1>4, <1>6, <1>8, <2>1, <2>2, <2>3
<1>10. backers * scale <= len * scale /\ backers * scale \in Nat /\ len * scale \in Nat
  BY <1>2, <1>6, Times
<1>11. Majority(backers, data) => BackedByMajority(data, r)
  BY <1>5, <1>7, <1>8, <1>10
<1>12. ASSUME NEW k \in Nat, k * scale <= num * count, Majority(backers, data)
       PROVE  backers >= k
  <2> SUFFICES ASSUME backers <= k - 1 PROVE FALSE
    BY <1>2
  <2>1. backers * scale <= (k - 1) * scale
    BY <1>2, <1>6, Times
  <2>2. (k - 1) * scale = k * scale - scale /\ k * scale \in Nat
    BY <1>6
  <2> QED
    BY <1>5, <1>6, <1>7, <1>8, <1>10, <1>12, <2>1, <2>2
<1> QED
  BY <1>9, <1>11, <1>12 DEF backers, executors, required, scale, num, den, count

\* What becomes of the shard data of a cycle: the list grows, and nothing else.
Grown(data, later) ==
  /\ ShardDataOK(later)
  /\ later.globals = data.globals /\ later.members = data.members
  /\ data.nodes \subseteq later.nodes

\* Then the quorum is the same one, and the votes needed are no fewer.
LEMMA GrownBacked ==
  ASSUME Configured, NEW data, ShardDataOK(data), NEW later, Grown(data, later), NEW r
  PROVE  /\ Quorum(data, r) => Quorum(later, r)
         /\ VotingGroupCount(data) \in Nat /\ VotingGroupCount(later) \in Nat
         /\ VotingGroupCount(data) <= VotingGroupCount(later)
<1>1. Quorum(data, r) => Quorum(later, r)
  BY DEF Grown, Quorum, Home, IntendedGroup
<1>2. VotingGroupCount(data) \in Nat /\ VotingGroupCount(later) \in Nat
  BY VotingGroup DEF Grown
<1> DEFINE n == Cardinality(data.nodes)
           k == Cardinality(later.nodes)
           size == data.globals.nodesPerConsenusGroup
<1>3. n \in Nat /\ k \in Nat /\ n <= k
  <2>1. /\ data.nodes \in SUBSET Nodes /\ later.nodes \in SUBSET Nodes
        /\ data.nodes # {} /\ later.nodes # {} /\ data.nodes \subseteq later.nodes
    BY DEF ShardDataOK, Grown
  <2> QED
    BY <2>1, SomeMembers, FS_Subset, FS_CardinalityType
<1>4. size \in Nat
  <2>1. data.members \in SUBSET Nodes /\ data.members # {}
    BY DEF ShardDataOK
  <2>2. Cardinality(data.members) \in Nat \ {0} /\ data.globals = Globals(Cardinality(data.members))
    BY <2>1, SomeMembers DEF ShardDataOK
  <2> QED
    BY <2>2, GlobalsRing DEF Configured
<1>5. VotingGroupCount(data) = SetMin(size, n) /\ VotingGroupCount(later) = SetMin(size, k)
  BY DEF VotingGroupCount, Grown
<1> HIDE DEF n, k, size
<1>6. SetMin(size, n) <= SetMin(size, k)
  BY <1>3, <1>4 DEF SetMin
<1> QED
  BY <1>1, <1>2, <1>5, <1>6
-----------------------------------------------------------------------------
(* The inductive invariant *)

\* Kept shard data are of past cycles, the latest among them while there are active nodes.
\* That the cleaning of the latest cycle bounds them is what TypeOK says of all cleanings.
DataInv ==
  /\ Configured
  /\ cycle \in 1..MaxCycle
  /\ active \subseteq Nodes
  /\ cleanups \subseteq 1..cycle
  /\ DOMAIN shardValues \subseteq 1..cycle
  /\ cycle \notin cleanups => DOMAIN shardValues \subseteq (cycle - ShardDataKept)..cycle
  /\ active # {} => cycle \in DOMAIN shardValues /\ shardValues[cycle].members = active
  /\ \A c \in DOMAIN shardValues : ShardDataOK(shardValues[c])

\* What a verification found before it awaited the database still holds: its signers are
\* enough for a normal receipt, and for a global one no more are asked for than its cycle
\* would need now.
Pending(c) ==
  LET receipt == c.receipt
      kept == receipt.cycle \in DOMAIN shardValues
  IN /\ ReceiptOK(receipt)
     /\ receipt.cycle \in 1..cycle
     /\ c.requiredSignatures \in Nat
     /\ receipt.type = "normal" =>
          /\ 1 <= c.requiredSignatures
          /\ c.requiredSignatures <= Cardinality(Owners(receipt))
          /\ kept => Quorum(shardValues[receipt.cycle], receipt)
     /\ receipt.type = "global" /\ kept =>
          c.requiredSignatures * (100 * MajorityNeeded.den)
            <= MajorityNeeded.num * VotingGroupCount(shardValues[receipt.cycle])

CallInv ==
  \/ call = NoCall
  \/ call.pc = "archiver" /\ result = NoResult /\ Pending(call)

ResultInv ==
  /\ result.over \in BOOLEAN
  /\ AcceptedBacked
  /\ GenuineAccepted

Inv == DataInv /\ CallInv /\ ResultInv
-----------------------------------------------------------------------------
(* The steps that change the shard data *)

\* The data of a cycle when nodes have been activated and removed.
LEMMA RelistedOK ==
  ASSUME Configured, NEW values, NEW activated \in SUBSET Nodes, NEW removed,
         \A c \in DOMAIN values : ShardDataOK(values[c]),
         NEW c \in DOMAIN values
  PROVE  Grown(values[c], Relisted(values, activated, removed)[c])
<1> DEFINE data == values[c]
           later == [data EXCEPT !.nodes = @ \cup activated, !.live = removed = {}]
<1>1. ShardDataOK(data)
  OBVIOUS
<1>2. Relisted(values, activated, removed)[c] = IF data.live THEN later ELSE data
  BY DEF Relisted
<1> HIDE DEF data
<1>3. /\ DOMAIN later = {"globals", "members", "coveredBy", "nodes", "live"}
      /\ later.globals = data.globals /\ later.members = data.members
      /\ later.coveredBy = data.coveredBy /\ later.nodes = data.nodes \cup activated
      /\ later.live = (removed = {})
  BY <1>1 DEF ShardDataOK
<1> HIDE DEF later
<1>4. ShardDataOK(later)
  <2>1. later.live \in BOOLEAN
    <3>1. CASE removed = {}
      BY <1>3, <3>1
    <3>2. CASE removed # {}
      BY <1>3, <3>2
    <3> QED
      BY <3>1, <3>2
  <2>2. later.members # {} /\ later.members \subseteq later.nodes /\ later.nodes \subseteq Nodes
    BY <1>1, <1>3 DEF ShardDataOK
  <2> QED
    BY <1>1, <1>3, <2>1, <2>2 DEF ShardDataOK
<1>5. Grown(data, later) /\ Grown(data, data)
  BY <1>1, <1>3, <1>4 DEF Grown
<1> QED
  BY <1>2, <1>5 DEF data

\* What happens to kept shard data in a step.
Continued(values, later) ==
  \A c \in DOMAIN later :
    c <= cycle => c \in DOMAIN values /\ Grown(values[c], later[c])

LEMMA ProcessCycleStep ==
  ASSUME DataInv, ProcessCycle
  PROVE  DataInv' /\ Continued(shardValues, shardValues')
<1>1. PICK activated \in {{}} \cup {{node} : node \in Nodes \ active},
           removed \in {{}} \cup {{node} : node \in active} :
        /\ active' = (active \cup activated) \ removed
        /\ UpdateShardValues(activated, removed)
  BY DEF ProcessCycle
<1>2. /\ cycle \in Nat /\ cycle' = cycle + 1 /\ cycle' \in 1..MaxCycle
      /\ config' = config /\ cleanups' = cleanups \cup {cycle'}
  BY NodesAssumption DEF ProcessCycle, DataInv
<1>3. activated \in SUBSET Nodes
  OBVIOUS
<1> DEFINE nodes == (active \cup activated) \ removed
           kept == Relisted(shardValues, activated, removed)
           later == [c \in DOMAIN kept \cup (IF nodes = {} THEN {} ELSE {cycle + 1}) |->
                       IF c = cycle + 1 THEN ShardData(nodes) ELSE kept[c]]
<1>4. shardValues' = later /\ active' = nodes
  BY <1>1 DEF UpdateShardValues
<1>5. nodes \in SUBSET Nodes
  BY <1>3 DEF DataInv
<1>6. DOMAIN kept = DOMAIN shardValues
  BY DEF Relisted
<1> HIDE DEF nodes, kept
<1>7. DOMAIN later = DOMAIN shardValues \cup (IF nodes = {} THEN {} ELSE {cycle + 1})
  BY <1>6
<1>8. /\ \A c \in DOMAIN shardValues : c \in 1..cycle /\ c # cycle + 1
      /\ cycle + 1 \in DOMAIN later <=> nodes # {}
  BY <1>2, <1>7 DEF DataInv
<1>9. \A c \in DOMAIN shardValues : later[c] = kept[c]
  BY <1>7, <1>8, <1>6
<1>10. nodes # {} => later[cycle + 1] = ShardData(nodes)
  BY <1>7
<1> HIDE DEF later
<1>11. ASSUME NEW c \in DOMAIN shardValues PROVE Grown(shardValues[c], later[c])
  <2>1. \A d \in DOMAIN shardValues : ShardDataOK(shardValues[d])
    BY DEF DataInv
  <2>2. Grown(shardValues[c], kept[c])
    BY <1>3, <2>1, RelistedOK DEF DataInv, kept
  <2> QED
    BY <1>9, <2>2
<1>12. Continued(shardValues, later)
  BY <1>2, <1>7, <1>11 DEF Continued
<1>13. \A c \in DOMAIN later : ShardDataOK(later[c])
  BY <1>5, <1>7, <1>10, <1>11, ShardDataMade DEF Grown
<1>14. nodes # {} => cycle + 1 \in DOMAIN later /\ later[cycle + 1].members = nodes
  BY <1>5, <1>8, <1>10, ShardDataMade
<1>15. DOMAIN later \subseteq 1..(cycle + 1)
  BY <1>2, <1>7 DEF DataInv
<1>16. \A c \in DOMAIN shardValues' : ShardDataOK(shardValues[c])'
  BY <1>2, <1>4, <1>13 DEF ShardDataOK, Globals
<1>17. cleanups' \subseteq 1..cycle' /\ cycle' \in cleanups'
  <2>1. \A c \in cleanups : c \in 1..cycle
    BY DEF DataInv
  <2>2. \A c \in 1..cycle : c \in 1..(cycle + 1)
    BY <1>2
  <2>3. cycle + 1 \in 1..(cycle + 1)
    BY <1>2
  <2> QED
    BY <1>2, <2>1, <2>2, <2>3
<1>18. Configured'
  BY <1>2 DEF DataInv, Configured
<1>19. /\ active' \subseteq Nodes /\ DOMAIN shardValues' \subseteq 1..cycle'
       /\ active' # {} => cycle' \in DOMAIN shardValues' /\ shardValues'[cycle'].members = active'
  BY <1>2, <1>4, <1>5, <1>14, <1>15
<1>20. DataInv'
  BY <1>2, <1>16, <1>17, <1>18, <1>19 DEF DataInv
<1> QED
  BY <1>4, <1>12, <1>20

LEMMA CleanStep ==
  ASSUME DataInv, Clean
  PROVE  DataInv' /\ Continued(shardValues, shardValues')
<1>1. PICK counter \in cleanups :
        shardValues' = Cleaned(shardValues, counter) /\ cleanups' = cleanups \ {counter}
  BY DEF Clean
<1>2. config' = config /\ cycle' = cycle /\ active' = active /\ cycle \in Nat
  BY NodesAssumption DEF Clean, DataInv
<1>3. counter \in 1..cycle /\ ShardDataKept \in Nat
  BY NodesAssumption DEF DataInv
<1>4. DOMAIN shardValues' = {c \in DOMAIN shardValues : c >= counter - ShardDataKept}
  BY <1>1 DEF Cleaned
<1>5. \A c \in DOMAIN shardValues' : c \in DOMAIN shardValues /\ shardValues'[c] = shardValues[c]
  BY <1>1 DEF Cleaned
<1>6. \A c \in DOMAIN shardValues' : Grown(shardValues[c], shardValues'[c])
  BY <1>5 DEF Grown, DataInv
<1>7. \A c \in DOMAIN shardValues' : ShardDataOK(shardValues[c])'
  BY <1>2, <1>6 DEF Grown, ShardDataOK, Globals
<1>8. cycle \notin cleanups' => DOMAIN shardValues' \subseteq (cycle - ShardDataKept)..cycle
  <2>1. CASE counter = cycle
    BY <1>2, <1>3, <1>4, <2>1 DEF DataInv
  <2>2. CASE counter # cycle
    BY <1>1, <1>4, <2>2 DEF DataInv
  <2> QED
    BY <2>1, <2>2
<1>9. active # {} => cycle \in DOMAIN shardValues' /\ shardValues'[cycle].members = active
  BY <1>2, <1>3, <1>4, <1>5 DEF DataInv
<1>10. DOMAIN shardValues' \subseteq 1..cycle /\ cleanups' \subseteq 1..cycle
  BY <1>1, <1>4 DEF DataInv
<1>11. Configured'
  BY <1>2 DEF DataInv, Configured
<1> QED
  BY <1>2, <1>5, <1>6, <1>7, <1>8, <1>9, <1>10, <1>11 DEF DataInv, Continued

LEMMA CallKept ==
  ASSUME DataInv, CallInv, ResultInv, ~result.over,
         DataInv', Continued(shardValues, shardValues'),
         cycle <= cycle', call' = call, result' = result
  PROVE  CallInv' /\ ResultInv'
<1>1. ResultInv'
  BY DEF ResultInv, AcceptedBacked, GenuineAccepted
<1>2. CASE call = NoCall
  BY <1>1, <1>2 DEF CallInv
<1>3. CASE call.pc = "archiver" /\ result = NoResult /\ Pending(call)
  <2> DEFINE receipt == call.receipt
             c == receipt.cycle
  <2>1. cycle \in Nat /\ cycle' \in Nat
    BY NodesAssumption DEF DataInv
  <2>2. c \in 1..cycle /\ c \in 1..cycle'
    BY <1>3, <2>1 DEF Pending
  <2>3. c \in DOMAIN shardValues' =>
          c \in DOMAIN shardValues /\ Grown(shardValues[c], shardValues'[c])
    BY <2>1, <2>2 DEF Continued
  <2>4. ASSUME c \in DOMAIN shardValues'
        PROVE  /\ Quorum(shardValues[c], receipt) => Quorum(shardValues'[c], receipt)
               /\ VotingGroupCount(shardValues[c]) \in Nat
               /\ VotingGroupCount(shardValues'[c]) \in Nat
               /\ VotingGroupCount(shardValues[c]) <= VotingGroupCount(shardValues'[c])
    <3>1. ShardDataOK(shardValues[c]) /\ Configured
      BY <2>3, <2>4 DEF DataInv
    <3> QED
      BY <2>3, <2>4, <3>1, GrownBacked
  <2>5. ASSUME c \in DOMAIN shardValues', receipt.type = "global"
        PROVE  call.requiredSignatures * (100 * MajorityNeeded.den)
                 <= MajorityNeeded.num * VotingGroupCount(shardValues'[c])
    <3> DEFINE now == VotingGroupCount(shardValues[c])
               then == VotingGroupCount(shardValues'[c])
               asked == call.requiredSignatures * (100 * MajorityNeeded.den)
               num == MajorityNeeded.num
    <3>1. asked \in Nat /\ asked <= num * now /\ num \in Nat
      BY <1>3, <2>3, <2>5, VotesAssumption DEF Pending
    <3>2. now \in Nat /\ then \in Nat /\ now <= then
      BY <2>4, <2>5
    <3> HIDE DEF now, then, asked, num
    <3>3. num * now <= num * then
      <4>1. now * num <= then * num
        BY <3>1, <3>2, Times
      <4> QED
        BY <3>1, <3>2, <4>1
    <3>4. num * now \in Nat /\ num * then \in Nat
      BY <3>1, <3>2
    <3> QED
      BY <3>1, <3>3, <3>4 DEF now, then, asked, num
  <2>6. Pending(call)'
    BY <1>3, <2>2, <2>3, <2>4, <2>5 DEF Pending
  <2> QED
    BY <1>1, <1>3, <2>6 DEF CallInv
<1> QED
  BY <1>2, <1>3 DEF CallInv

-----------------------------------------------------------------------------
(* The steps of a verification *)

\* A receipt that was stored has the form of one.
LEMMA CopyOK ==
  ASSUME NEW s \in Receipts, NEW r \in Copies(s), NEW key \in Keys, NEW c \in Nat
  PROVE  LET receipt == [r EXCEPT !.key = key, !.cycle = c]
         IN ReceiptOK(receipt) /\ receipt.cycle = c
<1> DEFINE fields == {"type", "cycle", "key", "signers", "signedOffsets", "voteOffsets", "vote",
                      "proposal", "tx", "beforeStates", "afterStates"}
<1>1. DOMAIN s = fields /\ s.signers \in Seq(Nat)
  BY ReceiptsAssumption
<1>2. r = s \/ r = AsSaved(s)
  BY DEF Copies
<1>3. DOMAIN AsSaved(s) = fields /\ AsSaved(s).signers = s.signers
  BY <1>1 DEF AsSaved, AfterCheck
<1>4. DOMAIN r = fields /\ r.signers \in Seq(Nat)
  BY <1>1, <1>2, <1>3
<1> QED
  BY <1>4 DEF ReceiptOK

\* A refusal is right when the shard data are gone or the receipt is not backed.
LEMMA RefusedRight ==
  ASSUME NEW receipt, Refused(receipt),
         \/ receipt.cycle \notin DOMAIN shardValues'
         \/ Outgrown(shardValues'[receipt.cycle])
         \/ ~Genuine(receipt, shardValues'[receipt.cycle])
  PROVE  ResultInv'
<1>1. result'.over = TRUE /\ result'.accepted = FALSE /\ result'.receipt = receipt
  BY DEF Refused
<1> QED
  BY <1>1 DEF ResultInv, AcceptedBacked, GenuineAccepted

LEMMA Delivered ==
  ASSUME DataInv, NEW receipt, ReceiptOK(receipt), receipt.cycle \in Nat \ {0},
         VerifyReceiptData(receipt), UNCHANGED networkVars
  PROVE  CallInv' /\ ResultInv'
<1> DEFINE c == receipt.cycle
           data == shardValues[c]
<1>1. shardValues' = shardValues /\ cycle' = cycle
  BY DEF networkVars
<1>2. CASE c \notin DOMAIN shardValues
  <2>1. Refused(receipt) /\ call' = NoCall
    BY <1>2 DEF VerifyReceiptData
  <2> QED
    BY <1>1, <1>2, <2>1, RefusedRight DEF CallInv
<1>3. CASE c \in DOMAIN shardValues
  <2>1. ShardDataOK(data) /\ Configured /\ c \in 1..cycle
    BY <1>3 DEF DataInv
  <2>2. CASE receipt.type = "global" /\ BackedByMajority(data, receipt)
    <3>1. /\ call' = [pc |-> "archiver", receipt |-> receipt,
                      requiredSignatures |-> GlobalRequired(data)]
          /\ result' = NoResult
      BY <1>3, <2>2 DEF VerifyReceiptData
    <3>2. /\ GlobalRequired(data) \in Nat
          /\ GlobalRequired(data) * (100 * MajorityNeeded.den)
               <= MajorityNeeded.num * VotingGroupCount(data)
      BY <2>1, MajorityBacked
    <3>3. Pending(call)'
      BY <1>1, <2>1, <2>2, <3>1, <3>2 DEF Pending
    <3>4. ResultInv'
      BY <3>1 DEF ResultInv, AcceptedBacked, GenuineAccepted, NoResult
    <3> QED
      BY <3>1, <3>3, <3>4 DEF CallInv, NoResult
  <2>3. CASE receipt.type = "normal" /\ BackedByVotes(data, receipt)
    <3>1. /\ call' = [pc |-> "archiver", receipt |-> receipt,
                      requiredSignatures |-> RequiredSignatures(data)]
          /\ result' = NoResult
      BY <1>3, <2>3 DEF VerifyReceiptData
    <3>2. /\ RequiredSignatures(data) \in Nat /\ 1 <= RequiredSignatures(data)
          /\ RequiredSignatures(data) <= Cardinality(Owners(receipt))
          /\ Quorum(data, receipt)
      BY <2>1, <2>3, VotesAreQuorum
    <3>3. Pending(call)'
      BY <1>1, <2>1, <2>3, <3>1, <3>2 DEF Pending
    <3>4. ResultInv'
      BY <3>1 DEF ResultInv, AcceptedBacked, GenuineAccepted, NoResult
    <3> QED
      BY <3>1, <3>3, <3>4 DEF CallInv, NoResult
  <2>4. CASE /\ ~(receipt.type = "global" /\ BackedByMajority(data, receipt))
             /\ ~(receipt.type = "normal" /\ BackedByVotes(data, receipt))
    <3>1. Refused(receipt) /\ call' = NoCall
      BY <1>3, <2>4 DEF VerifyReceiptData
    <3>2. Outgrown(data) \/ ~Genuine(receipt, data)
      BY <2>1, <2>4, VotesAreQuorum, MajorityBacked DEF Genuine
    <3> QED
      BY <1>1, <3>1, <3>2, RefusedRight DEF CallInv
  <2> QED
    BY <2>2, <2>3, <2>4
<1> QED
  BY <1>2, <1>3

\* Signatures that verify are the signers' own, and all of them on the receipt's vote.
LEMMA Signed ==
  ASSUME NEW r, ReceiptOK(r)
  PROVE  /\ GoodSignatures(r) \in Nat
         /\ GoodSignatures(r) >= 1 => r.vote = VoteHash(r)
         /\ r.vote = VoteHash(r) /\ ~Resorted(r) => GoodSignatures(r) = Cardinality(Owners(r))
<1>1. IsFiniteSet(Owners(r)) /\ SignersOfVote(r) \subseteq Owners(r)
  BY OwnersCounted DEF SignersOfVote, Owners
<1>2. GoodSignatures(r) \in Nat
  BY <1>1, FS_Subset, FS_CardinalityType DEF GoodSignatures
<1>3. r.vote # VoteHash(r) => GoodSignatures(r) = 0
  BY FS_EmptySet DEF GoodSignatures, SignersOfVote
<1>4. r.vote = VoteHash(r) /\ ~Resorted(r) => SignersOfVote(r) = Owners(r)
  BY DEF SignersOfVote, Owners, Resorted
<1> QED
  BY <1>2, <1>3, <1>4 DEF GoodSignatures

\* The states that are saved are those that were verified.
LEMMA SavedStates ==
  ASSUME NEW r, ReceiptOK(r)
  PROVE  AsSaved(r).afterStates = r.afterStates
BY DEF ReceiptOK, AsSaved, AfterCheck

LEMMA Verified ==
  ASSUME DataInv, CallInv, VerifyArchiverReceipt
  PROVE  CallInv' /\ ResultInv'
<1> DEFINE receipt == call.receipt
           c == receipt.cycle
           data == shardValues[c]
           backers == Owners(receipt) \cap IntendedGroup(data, Home(data, receipt.key))
           verified ==
             \/ /\ receipt.type = "normal"
                /\ AccountsAsVoted(receipt)
                /\ GoodSignatures(receipt) >= call.requiredSignatures
             \/ /\ receipt.type = "global"
                /\ GlobalAccountChange(receipt)
                /\ c \in DOMAIN shardValues
                /\ GoodGlobalSignatures(receipt) >= call.requiredSignatures
<1>1. /\ result' = [over |-> TRUE, accepted |-> verified, receipt |-> receipt,
                    saved |-> AsSaved(receipt)]
      /\ call' = NoCall /\ shardValues' = shardValues
  BY DEF VerifyArchiverReceipt, networkVars
<1>2. Pending(call) /\ ReceiptOK(receipt)
  BY DEF VerifyArchiverReceipt, CallInv, NoCall, Pending
<1> DEFINE answer == verified
<1>3. /\ result'.over = TRUE /\ result'.receipt = receipt
      /\ result'.saved = AsSaved(receipt) /\ result'.accepted = answer
  BY <1>1
<1>4. c \in DOMAIN shardValues => ShardDataOK(data) /\ Configured
  BY DEF DataInv
<1>5. ASSUME verified, receipt.type = "normal"
      PROVE  /\ c \in DOMAIN shardValues => Quorum(data, receipt)
             /\ receipt.vote = VoteHash(receipt)
             /\ \A i \in DOMAIN receipt.vote.accountIDs :
                  LET id == receipt.vote.accountIDs[i]
                  IN id \in DOMAIN receipt.afterStates
                     /\ receipt.afterStates[id] = receipt.vote.afterStateHashes[i]
  <2>1. /\ AccountsAsVoted(receipt)
        /\ GoodSignatures(receipt) >= call.requiredSignatures
    BY <1>5
  <2>2. /\ call.requiredSignatures \in Nat /\ 1 <= call.requiredSignatures
        /\ c \in DOMAIN shardValues => Quorum(data, receipt)
    BY <1>2, <1>5 DEF Pending
  <2>3. receipt.vote = VoteHash(receipt)
    <3>1. GoodSignatures(receipt) \in Nat
      BY <1>2, Signed
    <3>2. GoodSignatures(receipt) >= 1
      BY <2>1, <2>2, <3>1
    <3> QED
      BY <1>2, <3>2, Signed
  <2> QED
    BY <2>1, <2>2, <2>3 DEF AccountsAsVoted, VoteHash
<1>6. ASSUME ~verified, c \in DOMAIN shardValues, ~Resorted(receipt), Genuine(receipt, data)
      PROVE  FALSE
  <2>1. receipt.vote = VoteHash(receipt)
    BY <1>6 DEF Genuine
  <2>2. CASE receipt.type = "normal" /\ AccountsAsVoted(receipt)
    <3>1. GoodSignatures(receipt) = Cardinality(Owners(receipt))
      BY <1>2, <1>6, <2>1, Signed
    <3>2. call.requiredSignatures <= Cardinality(Owners(receipt))
      BY <1>2, <2>2 DEF Pending
    <3>3. call.requiredSignatures \in Nat /\ Cardinality(Owners(receipt)) \in Nat
      BY <1>2, OwnersCounted DEF Pending
    <3>4. GoodSignatures(receipt) >= call.requiredSignatures
      BY <3>1, <3>2, <3>3
    <3> QED
      BY <1>6, <2>2, <3>4
  <2>3. CASE /\ receipt.type = "global" /\ GlobalAccountChange(receipt)
             /\ Majority(Cardinality(backers), data)
    <3>1. ShardDataOK(data) /\ Configured
      BY <1>4, <1>6
    <3>2. GoodGlobalSignatures(receipt) = Cardinality(backers)
      BY <1>2, <2>1, <3>1, Executors DEF GoodGlobalSignatures
    <3>3. /\ call.requiredSignatures \in Nat
          /\ call.requiredSignatures * (100 * MajorityNeeded.den)
               <= MajorityNeeded.num * VotingGroupCount(data)
      BY <1>2, <1>6, <2>3 DEF Pending
    <3>4. Cardinality(backers) >= call.requiredSignatures
      BY <1>2, <2>3, <3>1, <3>3, MajorityBacked
    <3> QED
      BY <1>6, <2>3, <3>2, <3>4
  <2> QED
    BY <1>6, <2>2, <2>3 DEF Genuine
<1>7. AsSaved(receipt).afterStates = receipt.afterStates
  BY <1>2, SavedStates
<1> HIDE DEF verified
<1>8. AcceptedBacked'
  <2> SUFFICES ASSUME verified, receipt.type = "normal" PROVE AcceptedBacked'
    BY <1>3 DEF AcceptedBacked
  <2> QED
    BY <1>1, <1>3, <1>5, <1>7 DEF AcceptedBacked
<1>9. GenuineAccepted'
  <2> SUFFICES ASSUME ~verified PROVE GenuineAccepted'
    BY <1>3 DEF GenuineAccepted
  <2> QED
    BY <1>1, <1>3, <1>6 DEF GenuineAccepted
<1> QED
  BY <1>1, <1>3, <1>8, <1>9 DEF CallInv, ResultInv

-----------------------------------------------------------------------------
(* The theorems *)

LEMMA InitInv == Init => Inv
<1> SUFFICES ASSUME Init PROVE Inv
  OBVIOUS
<1>1. /\ Configured /\ cycle = 1 /\ active \in SUBSET Nodes /\ cleanups = {}
      /\ call = NoCall /\ result = NoResult
      /\ shardValues = [c \in (IF active = {} THEN {} ELSE {1}) |-> ShardData(active)]
  BY NodesAssumption DEF Init, Configured
<1>2. /\ DOMAIN shardValues = (IF active = {} THEN {} ELSE {1})
      /\ active # {} => shardValues[1] = ShardData(active)
  BY <1>1
<1>3. active # {} => ShardDataOK(shardValues[1]) /\ shardValues[1].members = active
  BY <1>1, <1>2, ShardDataMade
<1>4. MaxCycle \in Nat \ {0} /\ ShardDataKept \in Nat
  BY NodesAssumption
<1>5. DOMAIN shardValues \subseteq (1 - ShardDataKept)..1 /\ DOMAIN shardValues \subseteq 1..1
  BY <1>2, <1>4
<1>6. \A c \in DOMAIN shardValues : ShardDataOK(shardValues[c])
  BY <1>2, <1>3
<1>7. active # {} => cycle \in DOMAIN shardValues /\ shardValues[cycle].members = active
  BY <1>1, <1>2, <1>3
<1>8. cycle \in 1..MaxCycle /\ cleanups \subseteq 1..cycle
  BY <1>1, <1>4
<1>9. DataInv
  BY <1>1, <1>5, <1>6, <1>7, <1>8 DEF DataInv
<1>10. CallInv /\ ResultInv
  BY <1>1 DEF CallInv, ResultInv, AcceptedBacked, GenuineAccepted, NoResult
<1> QED
  BY <1>9, <1>10 DEF Inv

LEMMA Unchanged ==
  ASSUME DataInv, UNCHANGED networkVars
  PROVE  DataInv'
<1>1. /\ config' = config /\ cycle' = cycle /\ active' = active /\ cleanups' = cleanups
      /\ shardValues' = shardValues
  BY DEF networkVars
<1> QED
  BY <1>1 DEF DataInv, Configured, ShardDataOK, Globals

LEMMA NextInv == Inv /\ [Next]_vars => Inv'
<1> SUFFICES ASSUME Inv, [Next]_vars PROVE Inv'
  OBVIOUS
<1>1. DataInv /\ CallInv /\ ResultInv
  BY DEF Inv
<1>2. CASE ProcessCycle
  <2>1. DataInv' /\ Continued(shardValues, shardValues')
    BY <1>1, <1>2, ProcessCycleStep
  <2>2. ~result.over /\ call' = call /\ result' = result /\ cycle <= cycle'
    BY <1>1, <1>2, NodesAssumption DEF ProcessCycle, DataInv
  <2> QED
    BY <1>1, <2>1, <2>2, CallKept DEF Inv
<1>3. CASE Clean
  <2>1. DataInv' /\ Continued(shardValues, shardValues')
    BY <1>1, <1>3, CleanStep
  <2>2. ~result.over /\ call' = call /\ result' = result /\ cycle <= cycle'
    BY <1>1, <1>3, NodesAssumption DEF Clean, DataInv
  <2> QED
    BY <1>1, <2>1, <2>2, CallKept DEF Inv
<1>4. CASE Deliver
  <2>1. PICK key \in Keys, c \in 1..(cycle + 1), r \in UNION {Copies(s) : s \in Receipts} :
          VerifyReceiptData([r EXCEPT !.key = key, !.cycle = c])
    BY <1>4 DEF Deliver
  <2>2. PICK s \in Receipts : r \in Copies(s)
    BY <2>1
  <2> DEFINE receipt == [r EXCEPT !.key = key, !.cycle = c]
  <2>3. c \in Nat \ {0}
    BY <1>1, NodesAssumption DEF DataInv
  <2>4. ReceiptOK(receipt) /\ receipt.cycle \in Nat \ {0}
    <3>1. key \in Keys /\ c \in Nat
      BY <2>1, <2>3
    <3>2. ReceiptOK(receipt) /\ receipt.cycle = c
      BY <2>2, <3>1, CopyOK
    <3> QED
      BY <2>3, <3>2
  <2>5. VerifyReceiptData(receipt) /\ UNCHANGED networkVars
    BY <1>4, <2>1 DEF Deliver
  <2> HIDE DEF receipt
  <2>6. CallInv' /\ ResultInv' /\ DataInv'
    BY <1>1, <2>4, <2>5, Delivered, Unchanged
  <2> QED
    BY <2>6 DEF Inv
<1>5. CASE VerifyArchiverReceipt
  <2>1. UNCHANGED networkVars
    BY <1>5 DEF VerifyArchiverReceipt
  <2> QED
    BY <1>1, <1>5, <2>1, Verified, Unchanged DEF Inv
<1>6. CASE TakeUp
  <2>1. UNCHANGED networkVars /\ call' = call /\ result' = NoResult /\ call = NoCall
    BY <1>1, <1>6 DEF TakeUp, CallInv, NoResult
  <2>2. ResultInv' /\ CallInv'
    BY <2>1 DEF ResultInv, AcceptedBacked, GenuineAccepted, NoResult, CallInv
  <2> QED
    BY <1>1, <2>1, <2>2, Unchanged DEF Inv
<1>7. CASE UNCHANGED vars
  <2>1. UNCHANGED networkVars /\ call' = call /\ result' = result /\ shardValues' = shardValues
        /\ cycle' = cycle
    BY <1>7 DEF vars, networkVars
  <2>2. ResultInv'
    BY <1>1, <2>1 DEF ResultInv, AcceptedBacked, GenuineAccepted
  <2>3. CallInv'
    BY <1>1, <2>1 DEF CallInv, Pending
  <2> QED
    BY <1>1, <2>1, <2>2, <2>3, Unchanged DEF Inv
<1> QED
  BY <1>2, <1>3, <1>4, <1>5, <1>6, <1>7 DEF Next

LEMMA Invariant == Spec => []Inv
BY InitInv, NextInv, PTL DEF Spec

\* The data of a cycle have the types they are meant to have.
LEMMA DataTyped ==
  ASSUME Configured, NEW data, ShardDataOK(data)
  PROVE  /\ [x \in {"globals", "members", "nodes", "live"} |-> data[x]] \in Data
         /\ data.coveredBy \in [Partitions(data.globals) -> (SUBSET data.members) \ {{}}]
<1>1. data.members \in SUBSET Nodes /\ data.members # {}
  BY DEF ShardDataOK
<1>2. Cardinality(data.members) \in 1..Cardinality(Nodes) /\ Cardinality(data.members) \in Nat \ {0}
  BY <1>1, SomeMembers
<1>3. data.globals \in {Globals(n) : n \in 1..Cardinality(Nodes)}
  BY <1>2 DEF ShardDataOK
<1>4. data.members \in (SUBSET Nodes) \ {{}} /\ data.nodes \in SUBSET Nodes
  BY <1>1 DEF ShardDataOK
<1>5. data.live \in BOOLEAN
  BY DEF ShardDataOK
<1> DEFINE fields == [x \in {"globals", "members", "nodes", "live"} |-> data[x]]
<1>6. /\ DOMAIN fields = {"globals", "members", "nodes", "live"}
      /\ fields = [x \in DOMAIN fields |-> fields[x]]
      /\ fields["globals"] = data.globals /\ fields["members"] = data.members
      /\ fields["nodes"] = data.nodes /\ fields["live"] = data.live
  OBVIOUS
<1> HIDE DEF fields
<1>7. fields \in Data
  BY <1>3, <1>4, <1>5, <1>6 DEF Data
<1>8. data.coveredBy \in [Partitions(data.globals) -> (SUBSET data.members) \ {{}}]
  <2>1. Partitions(data.globals) = 0..(Cardinality(data.members) - 1)
    BY <1>2, GlobalsRing DEF Partitions, Configured, ShardDataOK
  <2>2. /\ DOMAIN data.coveredBy = Partitions(data.globals)
        /\ data.coveredBy = [p \in Partitions(data.globals) |-> data.coveredBy[p]]
    BY <2>1 DEF ShardDataOK
  <2>3. \A p \in Partitions(data.globals) : data.coveredBy[p] \in (SUBSET data.members) \ {{}}
    BY GroupsIntended
  <2> QED
    BY <2>2, <2>3
<1> QED
  BY <1>7, <1>8 DEF fields

\* The shard data of every cycle that is kept say of every address which of the nodes that
\* were active in it execute its transactions, and always some (computePartitionShardDataMap
\* and computeNodePartitionDataMap as Collector.ts reads them), whatever the sizes of groups
\* and edges, and however nodes were activated and removed since.
THEOREM ExecutionGroupsHold == Spec => []ExecutionGroups
<1>1. Inv => ExecutionGroups
  <2> SUFFICES ASSUME Inv PROVE ExecutionGroups
    OBVIOUS
  <2>1. DataInv /\ CallInv /\ ResultInv
    BY DEF Inv
  <2>2. TypeOK
    <3>1. ASSUME NEW c \in DOMAIN shardValues
          PROVE  /\ [x \in {"globals", "members", "nodes", "live"} |-> shardValues[c][x]] \in Data
                 /\ shardValues[c].coveredBy \in
                      [Partitions(shardValues[c].globals) -> (SUBSET shardValues[c].members) \ {{}}]
      BY <2>1, DataTyped DEF DataInv
    <3>2. call = NoCall \/ call.requiredSignatures \in Nat
      BY <2>1 DEF CallInv, Pending
    <3>3. cleanups = {} => DOMAIN shardValues \subseteq (cycle - ShardDataKept)..cycle
      BY <2>1 DEF DataInv
    <3> QED
      BY <2>1, <3>1, <3>2, <3>3 DEF TypeOK, DataInv, Configured, ResultInv
  <2>3. ASSUME NEW c \in DOMAIN shardValues, NEW p \in Partitions(shardValues[c].globals)
        PROVE  shardValues[c].coveredBy[p] = IntendedGroup(shardValues[c], p)
    BY <2>1, GroupsIntended DEF DataInv
  <2>4. ASSUME NEW c \in DOMAIN shardValues, NEW key \in Keys
        PROVE  Home(shardValues[c], key) \in Partitions(shardValues[c].globals)
    BY <2>1, HomeInPartitions DEF DataInv
  <2> QED
    BY <2>1, <2>2, <2>3, <2>4 DEF ExecutionGroups, DataInv
<1> QED
  BY Invariant, <1>1, PTL

\* A receipt is accepted only with a quorum of the nodes that executed its transaction in
\* its cycle, who voted for the states that are stored, although the shard data are read
\* before verifyArchiverReceipt awaits and may be changed or cleaned meanwhile.
THEOREM AcceptedBackedHolds == Spec => []AcceptedBacked
<1>1. Inv => AcceptedBacked
  BY DEF Inv, ResultInv
<1> QED
  BY Invariant, <1>1, PTL

\* No receipt that is backed as it should be is refused, but for the cases GenuineAccepted
\* names: the shard data are gone, the node list has outgrown a group that counted all
\* nodes, or the offsets of the votes have been sorted.
THEOREM GenuineAcceptedHolds == Spec => []GenuineAccepted
<1>1. Inv => GenuineAccepted
  BY DEF Inv, ResultInv
<1> QED
  BY Invariant, <1>1, PTL

=============================================================================
