-------------------------- MODULE NodeListSorting --------------------------
(***************************************************************************)
(* What the recursive operators of NodeList compute, for every list: where *)
(* the binary search of insertSorted puts a node, what a batch of inserted *)
(* nodes leaves, what the filter leaves.  A recursive function is first    *)
(* shown to exist, by iterating its defining step as often as its argument *)
(* needs; what it computes is then shown by its least counterexample.      *)
(***************************************************************************)
EXTENDS NodeList, FiniteSetTheorems, SequenceTheorems, TLAPS

\* A set of natural numbers that is not empty has a least element.  The proofs below are
\* by contradiction, from the least number for which something fails.
LEMMA Least ==
  ASSUME NEW T \in SUBSET Nat, T # {}
  PROVE  \E m \in T : \A k \in T : m <= k
<1> DEFINE R == StrictSubsetOrdering(Nat)
           U == {1..n : n \in T}
<1>1. IsWellFoundedOn(R, FiniteSubsetsOf(Nat))
  BY FS_StrictSubsetOrderingWellFounded
<1>2. U \subseteq FiniteSubsetsOf(Nat) /\ U # {}
  <2>1. \A n \in T : IsFiniteSet(1..n) /\ 1..n \subseteq Nat
    BY FS_Interval
  <2> QED
    BY <2>1 DEF FiniteSubsetsOf
<1> HIDE DEF U, R
<1>3. PICK x \in U : \A y \in U : <<y, x>> \notin R
  BY <1>1, <1>2, WFMin
<1>4. PICK m \in T : x = 1..m
  BY <1>3 DEF U
<1>5. ASSUME NEW k \in T, k < m
      PROVE  FALSE
  <2>1. m \in 1..m /\ m \notin 1..k
    BY <1>5
  <2>2. 1..k \subseteq 1..m /\ 1..m \subseteq Nat /\ 1..k \in U
    BY <1>5 DEF U
  <2>3. <<1..k, x>> \in R
    BY <1>4, <2>1, <2>2 DEF R, StrictSubsetOrdering
  <2> QED
    BY <1>3, <2>2, <2>3
<1> QED
  BY <1>5

-----------------------------------------------------------------------------
(* The binary search of insertSorted *)

Intervals(seq) == (1..(Len(seq) + 1)) \X (0..Len(seq))

\* One round of the search, which goes on with f.
Search(f, ids, seq, pk) ==
  [between \in Intervals(seq) |->
     LET m == between[1]
         n == between[2]
         k == (m + n) \div 2
     IN IF m > n THEN m
        ELSE IF Greater(ids[pk], ids[seq[k]]) THEN f[<<k + 1, n>>] ELSE f[<<m, k - 1>>]]

LEMMA SearchEnd ==
  ASSUME NEW f, NEW ids, NEW pk, NEW seq, Len(seq) \in Nat,
         NEW m \in 1..(Len(seq) + 1), NEW n \in 0..Len(seq), m > n
  PROVE  Search(f, ids, seq, pk)[<<m, n>>] = m
<1>1. <<m, n>> \in Intervals(seq)
  BY DEF Intervals
<1> QED
  BY <1>1 DEF Search

LEMMA SearchRound ==
  ASSUME NEW f, NEW ids, NEW pk, NEW seq, Len(seq) \in Nat,
         NEW m \in 1..(Len(seq) + 1), NEW n \in 0..Len(seq), m <= n
  PROVE  LET k == (m + n) \div 2
         IN /\ k \in m..n
            /\ Search(f, ids, seq, pk)[<<m, n>>] =
                 IF Greater(ids[pk], ids[seq[k]]) THEN f[<<k + 1, n>>] ELSE f[<<m, k - 1>>]
<1> DEFINE k == (m + n) \div 2
<1>1. <<m, n>> \in Intervals(seq)
  BY DEF Intervals
<1>2. Search(f, ids, seq, pk)[<<m, n>>] =
        IF m > n THEN m
        ELSE IF Greater(ids[pk], ids[seq[k]]) THEN f[<<k + 1, n>>] ELSE f[<<m, k - 1>>]
  BY <1>1 DEF Search
<1>3. k \in m..n
  OBVIOUS
<1> HIDE DEF k
<1>4. ~ (m > n)
  OBVIOUS
<1> QED
  BY <1>2, <1>3, <1>4 DEF k

\* The recursion of insertSorted has a solution: repeating the search from any function
\* settles the intervals one length after the other.
LEMMA SearchExists ==
  ASSUME NEW ids, NEW pk, NEW seq, Len(seq) \in Nat
  PROVE  \E f : f = Search(f, ids, seq, pk)
<1> DEFINE L == Len(seq)
           Next(f) == Search(f, ids, seq, pk)
           Settled(f, d) == \A m \in 1..(L + 1), n \in 0..L :
                              n - m < d => f[<<m, n>>] = Next(f)[<<m, n>>]
           unsettled == {d \in Nat : \A f : ~ Settled(f, d)}
<1>1. 0 \notin unsettled
  <2> DEFINE f == [between \in Intervals(seq) |-> between[1]]
  <2>1. ASSUME NEW m \in 1..(L + 1), NEW n \in 0..L, n - m < 0
        PROVE  f[<<m, n>>] = Next(f)[<<m, n>>]
    <3>1. f[<<m, n>>] = m
      BY DEF Intervals
    <3> HIDE DEF f
    <3>2. Search(f, ids, seq, pk)[<<m, n>>] = m
      BY <2>1, SearchEnd
    <3> QED
      BY <3>1, <3>2
  <2>2. Settled(f, 0)
    BY <2>1
  <2> QED
    BY <2>2
<1>2. ASSUME NEW d \in Nat, d \notin unsettled
      PROVE  d + 1 \notin unsettled
  <2>1. PICK f : Settled(f, d)
    BY <1>2
  <2>2. ASSUME NEW m \in 1..(L + 1), NEW n \in 0..L, n - m < d + 1
        PROVE  Next(f)[<<m, n>>] = Next(Next(f))[<<m, n>>]
    <3>1. CASE m > n
      <4>1. \A g : Search(g, ids, seq, pk)[<<m, n>>] = m
        BY <3>1, SearchEnd
      <4> QED
        BY <4>1
    <3>2. CASE m <= n
      <4> DEFINE k == (m + n) \div 2
      <4>1. k \in m..n
        BY <3>2
      <4> HIDE DEF k, Next
      <4>2. /\ k + 1 \in 1..(L + 1) /\ n - (k + 1) < d
            /\ k - 1 \in 0..L /\ (k - 1) - m < d
        BY <2>2, <4>1
      <4>3. Next(f)[<<k + 1, n>>] = f[<<k + 1, n>>] /\ Next(f)[<<m, k - 1>>] = f[<<m, k - 1>>]
        BY <2>1, <4>2
      <4>4. Next(f)[<<m, n>>] = IF Greater(ids[pk], ids[seq[k]])
                                  THEN f[<<k + 1, n>>] ELSE f[<<m, k - 1>>]
        BY <3>2, SearchRound DEF k, Next
      <4>5. Next(Next(f))[<<m, n>>] = IF Greater(ids[pk], ids[seq[k]])
                                  THEN Next(f)[<<k + 1, n>>] ELSE Next(f)[<<m, k - 1>>]
        BY <3>2, SearchRound DEF k, Next
      <4> QED
        BY <4>3, <4>4, <4>5
    <3> QED
      BY <3>1, <3>2
  <2>3. Settled(Next(f), d + 1)
    BY <2>2
  <2> QED
    BY <2>3
<1>3. unsettled = {}
  <2> HIDE DEF unsettled
  <2> SUFFICES ASSUME unsettled # {} PROVE FALSE
    OBVIOUS
  <2>1. unsettled \subseteq Nat
    BY DEF unsettled
  <2>2. PICK d \in unsettled : \A e \in unsettled : d <= e
    BY <2>1, Least
  <2>3. d - 1 \in Nat /\ d - 1 \notin unsettled
    BY <1>1, <2>1, <2>2
  <2>4. (d - 1) + 1 \notin unsettled
    BY <1>2, <2>3
  <2> QED
    BY <2>1, <2>2, <2>4
<1>4. PICK f : Settled(f, L)
  BY <1>3
<1>5. \A between \in Intervals(seq) : f[between] = Next(f)[between]
  <2> TAKE between \in Intervals(seq)
  <2>1. PICK m \in 1..(L + 1), n \in 0..L : between = <<m, n>>
    BY DEF Intervals
  <2>2. n - m < L
    OBVIOUS
  <2> HIDE DEF Next
  <2> QED
    BY <1>4, <2>1, <2>2
<1>6. Next(Next(f)) = Next(f)
  <2> DEFINE g == Next(f)
  <2>1. ASSUME NEW between \in Intervals(seq)
        PROVE  Next(g)[between] = Next(f)[between]
    <3>1. PICK m \in 1..(L + 1), n \in 0..L : between = <<m, n>>
      BY DEF Intervals
    <3>2. CASE m > n
      <4>1. \A h : Search(h, ids, seq, pk)[<<m, n>>] = m
        BY <3>2, SearchEnd
      <4> QED
        BY <3>1, <4>1
    <3>3. CASE m <= n
      <4> DEFINE k == (m + n) \div 2
      <4>1. k \in m..n
        BY <3>3
      <4> HIDE DEF k, Next, g
      <4>2. <<k + 1, n>> \in Intervals(seq) /\ <<m, k - 1>> \in Intervals(seq)
        BY <4>1 DEF Intervals
      <4>3. g[<<k + 1, n>>] = f[<<k + 1, n>>] /\ g[<<m, k - 1>>] = f[<<m, k - 1>>]
        BY <1>5, <4>2 DEF g
      <4>4. \A h : Search(h, ids, seq, pk)[<<m, n>>] =
                     IF Greater(ids[pk], ids[seq[k]]) THEN h[<<k + 1, n>>] ELSE h[<<m, k - 1>>]
        BY <3>3, SearchRound DEF k
      <4> QED
        BY <3>1, <4>3, <4>4 DEF Next
    <3> QED
      BY <3>2, <3>3
  <2> QED
    BY <2>1 DEF Search
<1> QED
  BY <1>6

\* Where a search ends: behind a node with a smaller id and before one that has none.
Between(ids, seq, pk, p) ==
  /\ p \in 1..(Len(seq) + 1)
  /\ p > 1 => Greater(ids[pk], ids[seq[p - 1]])
  /\ p <= Len(seq) => ~Greater(ids[pk], ids[seq[p]])

\* A solution of the recursion keeps the place between the ends of the interval.
LEMMA SearchFinds ==
  ASSUME NEW ids, NEW pk, NEW seq, Len(seq) \in Nat,
         NEW f, f = Search(f, ids, seq, pk)
  PROVE  Between(ids, seq, pk, f[<<1, Len(seq)>>])
<1> DEFINE L == Len(seq)
           Above(i) == Greater(ids[pk], ids[seq[i]])
           Ends(m, n) == /\ m <= n + 1
                         /\ m > 1 => Above(m - 1)
                         /\ n < L => ~Above(n + 1)
           Wrong(d) == \E m \in 1..(L + 1), n \in 0..L :
                         /\ n + 1 - m = d
                         /\ Ends(m, n)
                         /\ ~Between(ids, seq, pk, f[<<m, n>>])
           wrong == {d \in Nat : Wrong(d)}
<1>1. wrong = {}
  <2> SUFFICES ASSUME wrong # {} PROVE FALSE
    OBVIOUS
  <2> HIDE DEF wrong
  <2>1. wrong \subseteq Nat
    BY DEF wrong
  <2>2. PICK d \in wrong : \A e \in wrong : d <= e
    BY <2>1, Least
  <2>3. PICK m \in 1..(L + 1), n \in 0..L :
          n + 1 - m = d /\ Ends(m, n) /\ ~Between(ids, seq, pk, f[<<m, n>>])
    BY <2>2 DEF wrong
  <2>4. CASE m > n
    <3>1. f[<<m, n>>] = m
      BY <2>4, SearchEnd
    <3>2. m = n + 1
      BY <2>3, <2>4
    <3>3. Between(ids, seq, pk, m)
      BY <2>3, <3>2 DEF Between
    <3> QED
      BY <2>3, <3>1, <3>3
  <2>5. CASE m <= n
    <3> DEFINE k == (m + n) \div 2
    <3>1. /\ k \in m..n
          /\ f[<<m, n>>] = IF Above(k) THEN f[<<k + 1, n>>] ELSE f[<<m, k - 1>>]
      BY <2>5, SearchRound
    <3> HIDE DEF k, Above
    <3>2. CASE Above(k)
      <4>1. /\ k + 1 \in 1..(L + 1) /\ n + 1 - (k + 1) \in Nat /\ n + 1 - (k + 1) < d
            /\ k + 1 <= n + 1 /\ (k + 1) - 1 = k
        BY <2>3, <3>1
      <4>2. Ends(k + 1, n)
        BY <2>3, <3>2, <4>1
      <4>3. ~Between(ids, seq, pk, f[<<k + 1, n>>])
        BY <2>3, <3>1, <3>2
      <4>4. n + 1 - (k + 1) \in wrong
        BY <4>1, <4>2, <4>3 DEF wrong
      <4> QED
        BY <2>1, <2>2, <4>1, <4>4
    <3>3. CASE ~Above(k)
      <4>1. /\ k - 1 \in 0..L /\ (k - 1) + 1 - m \in Nat /\ (k - 1) + 1 - m < d
            /\ m <= (k - 1) + 1 /\ (k - 1) + 1 = k
        BY <2>3, <3>1
      <4>2. Ends(m, k - 1)
        BY <2>3, <3>3, <4>1
      <4>3. ~Between(ids, seq, pk, f[<<m, k - 1>>])
        BY <2>3, <3>1, <3>3
      <4>4. (k - 1) + 1 - m \in wrong
        BY <4>1, <4>2, <4>3 DEF wrong
      <4> QED
        BY <2>1, <2>2, <4>1, <4>4
    <3> QED
      BY <3>2, <3>3
  <2> QED
    BY <2>4, <2>5
<1>2. /\ 1 \in 1..(L + 1) /\ L \in 0..L /\ L + 1 - 1 = L
      /\ Ends(1, L)
  OBVIOUS
<1>3. L \notin wrong
  BY <1>1
<1> QED
  BY <1>2, <1>3

\* insertSorted puts a node behind one with a smaller id.
LEMMA InsertSortedBetween ==
  ASSUME NEW ids, NEW pk, NEW seq, Len(seq) \in Nat
  PROVE  \E p : /\ Between(ids, seq, pk, p)
                /\ InsertSorted(ids, seq, pk) = InsertAt(seq, p, pk)
<1> DEFINE position == CHOOSE f : f = Search(f, ids, seq, pk)
<1>1. position = Search(position, ids, seq, pk)
  BY SearchExists
<1>2. InsertSorted(ids, seq, pk) = InsertAt(seq, position[<<1, Len(seq)>>], pk)
  BY DEF InsertSorted, Search, Intervals
<1> HIDE DEF position
<1> QED
  BY <1>1, <1>2, SearchFinds

-----------------------------------------------------------------------------
(* What insertion leaves behind *)

Extended(longer, seq, p, pk) ==
  /\ Len(longer) = Len(seq) + 1
  /\ \A i \in 1..(Len(seq) + 1) :
       longer[i] = IF i < p THEN seq[i] ELSE IF i = p THEN pk ELSE seq[i - 1]

LEMMA InsertAtElements ==
  ASSUME NEW S, NEW seq \in Seq(S), NEW pk \in S, NEW p \in 1..(Len(seq) + 1)
  PROVE  InsertAt(seq, p, pk) \in Seq(S) /\ Extended(InsertAt(seq, p, pk), seq, p, pk)
<1> DEFINE before == SubSeq(seq, 1, p - 1)
           after == SubSeq(seq, p, Len(seq))
<1>1. /\ before \in Seq(S) /\ Len(before) = p - 1
      /\ \A i \in 1..(p - 1) : before[i] = seq[i]
  OBVIOUS
<1>2. /\ after \in Seq(S) /\ Len(after) = Len(seq) + 1 - p
      /\ \A i \in 1..(Len(seq) + 1 - p) : after[i] = seq[p + i - 1]
  OBVIOUS
<1>3. InsertAt(seq, p, pk) = before \o <<pk>> \o after
  BY DEF InsertAt
<1> HIDE DEF before, after
<1> DEFINE front == before \o <<pk>>
<1>4. /\ front \in Seq(S) /\ Len(front) = p
      /\ \A i \in 1..p : front[i] = IF i < p THEN seq[i] ELSE pk
  BY <1>1
<1> HIDE DEF front
<1> DEFINE longer == front \o after
<1>5. longer \in Seq(S) /\ Len(longer) = Len(seq) + 1
  BY <1>2, <1>4
<1>6. ASSUME NEW i \in 1..(Len(seq) + 1)
      PROVE  longer[i] = IF i < p THEN seq[i] ELSE IF i = p THEN pk ELSE seq[i - 1]
  <2>1. CASE i <= p
    BY <1>2, <1>4, <2>1
  <2>2. CASE i > p
    <3>1. longer[i] = after[i - p] /\ i - p \in 1..(Len(seq) + 1 - p)
      BY <1>2, <1>4, <2>2
    <3>2. after[i - p] = seq[p + (i - p) - 1] /\ p + (i - p) - 1 = i - 1
      BY <1>2, <3>1
    <3> QED
      BY <2>2, <3>1, <3>2
  <2>3. i <= p \/ i > p
    OBVIOUS
  <2> HIDE DEF longer
  <2> QED
    BY <2>1, <2>2, <2>3
<1>7. InsertAt(seq, p, pk) = longer
  BY <1>3 DEF front
<1> HIDE DEF longer
<1> QED
  BY <1>5, <1>6, <1>7 DEF Extended

\* Each node has a smaller id than those that follow it.
Ascending(ids, seq) ==
  \A i, j \in DOMAIN seq : i < j => Greater(ids[seq[j]], ids[seq[i]])

\* Nodes with ids, each with its own.
Identifying(ids, pks) ==
  /\ \A pk \in pks : ids[pk] \in Int /\ ids[pk] # NoId
  /\ \A p, q \in pks : ids[p] = ids[q] => p = q

\* The array with the nodes of a batch: in order, if it was and they are new.
Merged(longer, S, ids, seq, pks) ==
  /\ longer \in Seq(S)
  /\ Range(longer) = Range(seq) \cup pks
  /\ Ascending(ids, seq) /\ pks \cap Range(seq) = {} /\ Identifying(ids, Range(seq) \cup pks)
       => Ascending(ids, longer)

LEMMA InsertSortedElements ==
  ASSUME NEW S, NEW ids, NEW seq \in Seq(S), NEW pk \in S
  PROVE  Merged(InsertSorted(ids, seq, pk), S, ids, seq, {pk})
<1> DEFINE longer == InsertSorted(ids, seq, pk)
           n == Len(seq)
<1>1. n \in Nat /\ DOMAIN seq = 1..n
  OBVIOUS
<1>2. PICK p : Between(ids, seq, pk, p) /\ longer = InsertAt(seq, p, pk)
  BY <1>1, InsertSortedBetween
<1>3. p \in 1..(n + 1)
  BY <1>2 DEF Between
<1>4. /\ longer \in Seq(S) /\ Len(longer) = n + 1
      /\ \A i \in 1..(n + 1) :
           longer[i] = IF i < p THEN seq[i] ELSE IF i = p THEN pk ELSE seq[i - 1]
  <2>1. longer \in Seq(S) /\ Extended(longer, seq, p, pk)
    BY <1>2, <1>3, InsertAtElements
  <2> QED
    BY <2>1 DEF Extended
<1> HIDE DEF longer
<1>5. DOMAIN longer = 1..(n + 1)
  BY <1>4
<1>6. Range(longer) = Range(seq) \cup {pk}
  <2>1. ASSUME NEW i \in 1..(n + 1)
        PROVE  longer[i] \in Range(seq) \cup {pk}
    <3>1. i < p => i \in 1..n
      BY <1>1, <1>3
    <3>2. i > p => i - 1 \in 1..n
      BY <1>1, <1>3
    <3> QED
      BY <1>1, <1>3, <1>4, <3>1, <3>2 DEF Range
  <2>2. pk \in Range(longer)
    BY <1>3, <1>4, <1>5 DEF Range
  <2>3. ASSUME NEW i \in 1..n
        PROVE  seq[i] \in Range(longer)
    <3>1. CASE i < p
      <4>1. i \in 1..(n + 1) /\ longer[i] = seq[i]
        BY <1>1, <1>4, <3>1
      <4> QED
        BY <1>5, <4>1 DEF Range
    <3>2. CASE i >= p
      <4>1. i + 1 \in 1..(n + 1) /\ longer[i + 1] = seq[(i + 1) - 1] /\ (i + 1) - 1 = i
        BY <1>1, <1>3, <1>4, <3>2
      <4> QED
        BY <1>5, <4>1 DEF Range
    <3> QED
      BY <1>1, <1>3, <3>1, <3>2
  <2> QED
    BY <1>1, <1>5, <2>1, <2>2, <2>3 DEF Range
<1>7. ASSUME Ascending(ids, seq), pk \notin Range(seq),
             Identifying(ids, Range(seq) \cup {pk})
      PROVE  Ascending(ids, longer)
  <2> DEFINE id(i) == ids[seq[i]]
             mine == ids[pk]
  <2>1. mine \in Int /\ mine # NoId
    BY <1>7 DEF Identifying
  <2>2. \A i \in 1..n : id(i) \in Int /\ id(i) # NoId /\ id(i) # mine
    BY <1>1, <1>7 DEF Identifying, Range
  <2>3. \A i, j \in 1..n : i < j => id(i) < id(j)
    BY <1>1, <1>7, <2>2 DEF Ascending, Greater
  <2>4. p > 1 => p - 1 \in 1..n /\ id(p - 1) < mine
    <3>1. p > 1 => p - 1 \in 1..n /\ Greater(mine, id(p - 1))
      BY <1>1, <1>2, <1>3 DEF Between
    <3> QED
      BY <2>1, <2>2, <3>1 DEF Greater
  <2>5. p <= n => mine < id(p)
    <3>1. p <= n => p \in 1..n /\ ~Greater(mine, id(p))
      BY <1>1, <1>2, <1>3 DEF Between
    <3> HIDE DEF id, mine
    <3> QED
      BY <2>1, <2>2, <3>1 DEF Greater
  <2> HIDE DEF id, mine
  <2>6. \A i \in 1..n : IF i < p THEN id(i) < mine ELSE mine < id(i)
    BY <1>1, <1>3, <2>1, <2>2, <2>3, <2>4, <2>5
  <2>7. \A i \in 1..(n + 1) :
          /\ i < p => i \in 1..n /\ ids[longer[i]] = id(i)
          /\ i = p => ids[longer[i]] = mine
          /\ i > p => i - 1 \in 1..n /\ ~(i - 1 < p) /\ ids[longer[i]] = id(i - 1)
    BY <1>1, <1>3, <1>4 DEF id, mine
  <2> SUFFICES ASSUME NEW i \in 1..(n + 1), NEW j \in 1..(n + 1), i < j
               PROVE  Greater(ids[longer[j]], ids[longer[i]])
    BY <1>5 DEF Ascending
  <2>8. /\ ids[longer[i]] \in Int /\ ids[longer[i]] # NoId
        /\ ids[longer[j]] \in Int /\ ids[longer[j]] # NoId
    BY <1>1, <1>3, <2>1, <2>2, <2>7
  <2>9. ids[longer[i]] < ids[longer[j]]
    <3>1. CASE j < p
      BY <1>1, <1>3, <2>3, <2>7, <3>1
    <3>2. CASE j = p
      BY <1>1, <1>3, <2>6, <2>7, <3>2
    <3>3. CASE j > p /\ i < p
      BY <1>1, <1>3, <2>1, <2>2, <2>6, <2>7, <3>3
    <3>4. CASE j > p /\ i = p
      BY <1>1, <1>3, <2>6, <2>7, <3>4
    <3>5. CASE i > p
      <4>1. i - 1 < j - 1
        OBVIOUS
      <4> QED
        BY <1>1, <1>3, <2>3, <2>7, <3>5, <4>1
    <3> QED
      BY <1>3, <3>1, <3>2, <3>3, <3>4, <3>5
  <2> QED
    BY <2>8, <2>9 DEF Greater
<1> QED
  BY <1>4, <1>6, <1>7 DEF longer, Merged

-----------------------------------------------------------------------------
(* Inserting a batch *)

\* One step of the fold of a batch, which goes on with f.
Folding(f, ids, seq, pks) ==
  [s \in SUBSET pks |->
     IF s = {} THEN seq
     ELSE LET x == CHOOSE x \in s : TRUE
          IN InsertSorted(ids, f[s \ {x}], x)]

\* The fold of s inserts x into the fold of the others.
LastInserted(x, s, ids, seq, pks) ==
  /\ s \ {x} \in SUBSET pks
  /\ Cardinality(s \ {x}) \in Nat
  /\ Cardinality(s \ {x}) < Cardinality(s)
  /\ \A f : Folding(f, ids, seq, pks)[s] = InsertSorted(ids, f[s \ {x}], x)

LEMMA FoldingEmpty ==
  ASSUME NEW ids, NEW seq, NEW pks, NEW f
  PROVE  Folding(f, ids, seq, pks)[{}] = seq
BY DEF Folding

LEMMA FoldingStep ==
  ASSUME NEW ids, NEW seq, NEW pks, IsFiniteSet(pks), NEW s \in SUBSET pks, s # {}
  PROVE  \E x \in s : LastInserted(x, s, ids, seq, pks)
<1>1. IsFiniteSet(s) /\ Cardinality(s) \in Nat
  BY FS_Subset, FS_CardinalityType
<1> DEFINE x == CHOOSE x \in s : TRUE
<1>2. x \in s
  OBVIOUS
<1>3. \A f : Folding(f, ids, seq, pks)[s] = InsertSorted(ids, f[s \ {x}], x)
  BY DEF Folding
<1> HIDE DEF x
<1>4. Cardinality(s \ {x}) = Cardinality(s) - 1 /\ IsFiniteSet(s \ {x})
  BY <1>1, <1>2, FS_RemoveElement
<1>5. Cardinality(s \ {x}) \in Nat
  BY <1>4, FS_CardinalityType
<1>6. s \ {x} \in SUBSET pks /\ Cardinality(s \ {x}) < Cardinality(s)
  BY <1>1, <1>4
<1>7. LastInserted(x, s, ids, seq, pks)
  BY <1>3, <1>5, <1>6, Zenon DEF LastInserted
<1> QED
  BY <1>2, <1>7

LEMMA FoldingExists ==
  ASSUME NEW ids, NEW seq, NEW pks, IsFiniteSet(pks)
  PROVE  \E f : f = Folding(f, ids, seq, pks)
<1> DEFINE Next(f) == Folding(f, ids, seq, pks)
           Settled(f, d) == \A s \in SUBSET pks : Cardinality(s) < d => f[s] = Next(f)[s]
           unsettled == {d \in Nat : \A f : ~ Settled(f, d)}
<1>1. 0 \notin unsettled
  <2>1. ASSUME NEW s \in SUBSET pks
        PROVE  ~(Cardinality(s) < 0)
    BY FS_Subset, FS_CardinalityType
  <2> HIDE DEF Next
  <2>2. \A f : Settled(f, 0)
    BY <2>1
  <2> QED
    BY <2>2
<1>2. ASSUME NEW d \in Nat, d \notin unsettled
      PROVE  d + 1 \notin unsettled
  <2>1. PICK f : Settled(f, d)
    BY <1>2
  <2>2. ASSUME NEW s \in SUBSET pks, Cardinality(s) < d + 1
        PROVE  Next(f)[s] = Next(Next(f))[s]
    <3>1. CASE s = {}
      BY <3>1, FoldingEmpty
    <3>2. CASE s # {}
      <4>1. PICK x \in s : LastInserted(x, s, ids, seq, pks)
        BY <3>2, FoldingStep
      <4>2. Cardinality(s) \in Nat
        BY FS_Subset, FS_CardinalityType
      <4>3. f[s \ {x}] = Next(f)[s \ {x}]
        <5>1. Cardinality(s \ {x}) < d
          BY <2>2, <4>1, <4>2 DEF LastInserted
        <5> HIDE DEF Next
        <5> QED
          BY <2>1, <4>1, <5>1 DEF LastInserted
      <4> QED
        BY <4>1, <4>3 DEF LastInserted
    <3> QED
      BY <3>1, <3>2
  <2>3. Settled(Next(f), d + 1)
    BY <2>2
  <2> QED
    BY <2>3
<1>3. unsettled = {}
  <2> HIDE DEF unsettled
  <2> SUFFICES ASSUME unsettled # {} PROVE FALSE
    OBVIOUS
  <2>1. unsettled \subseteq Nat
    BY DEF unsettled
  <2>2. PICK d \in unsettled : \A e \in unsettled : d <= e
    BY <2>1, Least
  <2>3. d - 1 \in Nat /\ d - 1 \notin unsettled
    BY <1>1, <2>1, <2>2
  <2>4. (d - 1) + 1 \notin unsettled
    BY <1>2, <2>3
  <2> QED
    BY <2>1, <2>2, <2>4
<1>4. Cardinality(pks) + 1 \in Nat
  BY FS_CardinalityType
<1>5. PICK f : Settled(f, Cardinality(pks) + 1)
  BY <1>3, <1>4
<1>6. ASSUME NEW s \in SUBSET pks
      PROVE  f[s] = Next(f)[s]
  <2>1. Cardinality(s) < Cardinality(pks) + 1
    BY FS_Subset, FS_CardinalityType
  <2> HIDE DEF Next
  <2> QED
    BY <1>5, <2>1
<1>7. ASSUME NEW s \in SUBSET pks
      PROVE  Next(Next(f))[s] = Next(f)[s]
  <2>1. CASE s = {}
    BY <2>1, FoldingEmpty
  <2>2. CASE s # {}
    <3>1. PICK x \in s : LastInserted(x, s, ids, seq, pks)
      BY <2>2, FoldingStep
    <3> QED
      BY <1>6, <3>1 DEF LastInserted
  <2> QED
    BY <2>1, <2>2
<1>8. Next(Next(f)) = Next(f)
  BY <1>7 DEF Folding
<1> QED
  BY <1>8

\* A batch is inserted one node after the other, so that what holds of the array and is
\* kept by an insertion holds when all of them are in.
LEMMA InsertAllSortedElements ==
  ASSUME NEW S, NEW ids, NEW seq \in Seq(S), NEW pks \in SUBSET S, IsFiniteSet(pks)
  PROVE  Merged(InsertAllSorted(ids, seq, pks), S, ids, seq, pks)
<1> DEFINE fold == CHOOSE f : f = Folding(f, ids, seq, pks)
           Sortable == /\ Ascending(ids, seq)
                       /\ pks \cap Range(seq) = {}
                       /\ Identifying(ids, Range(seq) \cup pks)
           Right(s) == /\ fold[s] \in Seq(S)
                       /\ Range(fold[s]) = Range(seq) \cup s
                       /\ Sortable => Ascending(ids, fold[s])
           wrong == {d \in Nat : \E s \in SUBSET pks : Cardinality(s) = d /\ ~Right(s)}
<1>1. fold = Folding(fold, ids, seq, pks)
  BY FoldingExists
<1>2. InsertAllSorted(ids, seq, pks) = fold[pks]
  BY DEF InsertAllSorted, FoldSet, MapThenFoldSet, Folding
<1> HIDE DEF fold
<1>3. wrong = {}
  <2> HIDE DEF wrong
  <2> SUFFICES ASSUME wrong # {} PROVE FALSE
    OBVIOUS
  <2>1. wrong \subseteq Nat
    BY DEF wrong
  <2>2. PICK d \in wrong : \A e \in wrong : d <= e
    BY <2>1, Least
  <2>3. PICK s \in SUBSET pks : Cardinality(s) = d /\ ~Right(s)
    BY <2>2 DEF wrong
  <2>4. CASE s = {}
    <3>1. fold[s] = seq
      BY <1>1, <2>4, FoldingEmpty
    <3> QED
      BY <2>3, <2>4, <3>1
  <2>5. CASE s # {}
    <3>1. PICK x \in s : LastInserted(x, s, ids, seq, pks)
      BY <2>5, FoldingStep
    <3> DEFINE t == s \ {x}
    <3>2. fold[s] = InsertSorted(ids, fold[t], x)
      BY <1>1, <3>1 DEF LastInserted
    <3>3. Right(t)
      <4>1. Cardinality(t) \in Nat /\ Cardinality(t) < d
        BY <2>3, <3>1 DEF LastInserted
      <4> HIDE DEF Right, t
      <4>2. Cardinality(t) \notin wrong
        BY <2>1, <2>2, <4>1
      <4> QED
        BY <3>1, <4>1, <4>2 DEF wrong, t, LastInserted
    <3>4. x \in S /\ s = t \cup {x} /\ x \notin t /\ x \in pks
      BY <3>1
    <3> HIDE DEF t, Sortable
    <3>5. /\ fold[s] \in Seq(S)
          /\ Range(fold[s]) = Range(fold[t]) \cup {x}
          /\ Ascending(ids, fold[t]) /\ x \notin Range(fold[t])
               /\ Identifying(ids, Range(fold[t]) \cup {x}) => Ascending(ids, fold[s])
      <4>1. Merged(fold[s], S, ids, fold[t], {x})
        BY <3>2, <3>3, <3>4, InsertSortedElements
      <4> QED
        BY <4>1 DEF Merged
    <3>6. Sortable => Ascending(ids, fold[s])
      <4> SUFFICES ASSUME Sortable PROVE Ascending(ids, fold[s])
        OBVIOUS
      <4>1. x \notin Range(fold[t]) /\ Range(fold[t]) \cup {x} \subseteq Range(seq) \cup pks
        BY <3>1, <3>3, <3>4 DEF Sortable
      <4>2. Identifying(ids, Range(fold[t]) \cup {x})
        BY <4>1 DEF Identifying, Sortable
      <4> QED
        BY <3>3, <3>5, <4>1, <4>2
    <3> QED
      BY <2>3, <3>3, <3>4, <3>5, <3>6
  <2> QED
    BY <2>4, <2>5
<1>4. Right(pks)
  <2>1. Cardinality(pks) \in Nat
    BY FS_CardinalityType
  <2> HIDE DEF Right
  <2> QED
    BY <1>3, <2>1
<1> QED
  BY <1>2, <1>4 DEF Merged

-----------------------------------------------------------------------------
(* Taking nodes out *)

\* One step of the filter of the array, which goes on with f.
Filtering(f, seq, pks) ==
  [i \in 0..Len(seq) |->
     IF i = 0 THEN <<>>
     ELSE IF seq[i] \in pks THEN f[i - 1] ELSE Append(f[i - 1], seq[i])]

LEMMA FilteringExists ==
  ASSUME NEW seq, NEW pks, Len(seq) \in Nat
  PROVE  \E f : f = Filtering(f, seq, pks)
<1> DEFINE Next(f) == Filtering(f, seq, pks)
           Settled(f, d) == \A i \in 0..Len(seq) : i < d => f[i] = Next(f)[i]
           unsettled == {d \in Nat : \A f : ~ Settled(f, d)}
<1>1. 0 \notin unsettled
  <2> HIDE DEF Next
  <2>1. \A f : Settled(f, 0)
    OBVIOUS
  <2> QED
    BY <2>1
<1>2. ASSUME NEW d \in Nat, d \notin unsettled
      PROVE  d + 1 \notin unsettled
  <2>1. PICK f : Settled(f, d)
    BY <1>2
  <2>2. ASSUME NEW i \in 0..Len(seq), i < d + 1
        PROVE  Next(f)[i] = Next(Next(f))[i]
    <3>1. CASE i = 0
      BY <3>1 DEF Filtering
    <3>2. CASE i # 0
      <4>1. i - 1 \in 0..Len(seq) /\ i - 1 < d
        BY <2>2, <3>2
      <4>2. f[i - 1] = Next(f)[i - 1]
        <5> HIDE DEF Next
        <5> QED
          BY <2>1, <4>1
      <4>3. \A g : Filtering(g, seq, pks)[i] =
                     IF seq[i] \in pks THEN g[i - 1] ELSE Append(g[i - 1], seq[i])
        BY <3>2 DEF Filtering
      <4> QED
        BY <4>2, <4>3
    <3> QED
      BY <3>1, <3>2
  <2>3. Settled(Next(f), d + 1)
    BY <2>2
  <2> QED
    BY <2>3
<1>3. unsettled = {}
  <2> HIDE DEF unsettled
  <2> SUFFICES ASSUME unsettled # {} PROVE FALSE
    OBVIOUS
  <2>1. unsettled \subseteq Nat
    BY DEF unsettled
  <2>2. PICK d \in unsettled : \A e \in unsettled : d <= e
    BY <2>1, Least
  <2>3. d - 1 \in Nat /\ d - 1 \notin unsettled
    BY <1>1, <2>1, <2>2
  <2>4. (d - 1) + 1 \notin unsettled
    BY <1>2, <2>3
  <2> QED
    BY <2>1, <2>2, <2>4
<1>4. PICK f : Settled(f, Len(seq) + 1)
  <2>1. Len(seq) + 1 \in Nat
    OBVIOUS
  <2> HIDE DEF Settled
  <2> QED
    BY <1>3, <2>1
<1>5. ASSUME NEW i \in 0..Len(seq)
      PROVE  f[i] = Next(f)[i]
  <2> HIDE DEF Next
  <2> QED
    BY <1>4
<1>6. ASSUME NEW i \in 0..Len(seq)
      PROVE  Next(Next(f))[i] = Next(f)[i]
  <2>1. CASE i = 0
    BY <2>1 DEF Filtering
  <2>2. CASE i # 0
    <3>1. i - 1 \in 0..Len(seq)
      BY <2>2
    <3>2. \A g : Filtering(g, seq, pks)[i] =
                   IF seq[i] \in pks THEN g[i - 1] ELSE Append(g[i - 1], seq[i])
      BY <2>2 DEF Filtering
    <3> QED
      BY <1>5, <3>1, <3>2
  <2> QED
    BY <2>1, <2>2
<1>7. Next(Next(f)) = Next(f)
  BY <1>6 DEF Filtering
<1> QED
  BY <1>7

\* The array without a batch: the other nodes, in order if they were.
Thinned(shorter, S, seq, pks) ==
  /\ shorter \in Seq(S)
  /\ Range(shorter) = Range(seq) \ pks
  /\ \A ids : Ascending(ids, seq) => Ascending(ids, shorter)

LEMMA WithoutElements ==
  ASSUME NEW S, NEW seq \in Seq(S), NEW pks
  PROVE  Thinned(Without(seq, pks), S, seq, pks)
<1> DEFINE n == Len(seq)
           kept == CHOOSE f : f = Filtering(f, seq, pks)
           Right(i) == /\ kept[i] \in Seq(S)
                       /\ Range(kept[i]) = {seq[j] : j \in 1..i} \ pks
                       /\ \A ids : Ascending(ids, seq) => Ascending(ids, kept[i])
           wrong == {i \in 0..n : ~Right(i)}
<1>1. n \in Nat /\ DOMAIN seq = 1..n /\ \A i \in 1..n : seq[i] \in S
  OBVIOUS
<1>2. kept = Filtering(kept, seq, pks)
  BY <1>1, FilteringExists
<1>3. Without(seq, pks) = kept[n]
  BY DEF Without, Filtering
<1> HIDE DEF kept
<1>4. kept[0] = <<>>
  BY <1>1, <1>2 DEF Filtering
<1>5. ASSUME NEW i \in 1..n
      PROVE  kept[i] = IF seq[i] \in pks THEN kept[i - 1] ELSE Append(kept[i - 1], seq[i])
  <2>1. i \in 0..n /\ i # 0
    BY <1>1
  <2>2. Filtering(kept, seq, pks)[i] =
          IF seq[i] \in pks THEN kept[i - 1] ELSE Append(kept[i - 1], seq[i])
    BY <2>1 DEF Filtering
  <2> QED
    BY <1>2, <2>2
<1>6. Right(0)
  <2>1. DOMAIN <<>> = {}
    OBVIOUS
  <2> QED
    BY <1>4, <2>1 DEF Range, Ascending
<1>7. ASSUME NEW i \in 1..n, Right(i - 1)
      PROVE  Right(i)
  <2> DEFINE before == kept[i - 1]
  <2>1. {seq[j] : j \in 1..i} = {seq[j] : j \in 1..(i - 1)} \cup {seq[i]}
    OBVIOUS
  <2>2. CASE seq[i] \in pks
    <3>1. kept[i] = before
      BY <1>5, <2>2
    <3> QED
      BY <1>7, <2>1, <2>2, <3>1
  <2>3. CASE seq[i] \notin pks
    <3>1. kept[i] = Append(before, seq[i])
      BY <1>5, <2>3
    <3>2. before \in Seq(S) /\ Range(before) = {seq[j] : j \in 1..(i - 1)} \ pks
      BY <1>7
    <3> HIDE DEF before
    <3>3. /\ kept[i] \in Seq(S) /\ Len(kept[i]) = Len(before) + 1
          /\ \A j \in 1..Len(before) : kept[i][j] = before[j]
          /\ kept[i][Len(before) + 1] = seq[i]
      BY <1>1, <3>1, <3>2
    <3>4. DOMAIN kept[i] = 1..(Len(before) + 1) /\ DOMAIN before = 1..Len(before)
          /\ Len(before) \in Nat
      BY <3>2, <3>3
    <3>5. Range(kept[i]) = Range(before) \cup {seq[i]}
      BY <3>3, <3>4 DEF Range
    <3>6. ASSUME NEW ids, Ascending(ids, seq)
          PROVE  Ascending(ids, kept[i])
      <4>1. Ascending(ids, before)
        BY <1>7, <3>6 DEF before
      <4>2. \A pk \in Range(before) : Greater(ids[seq[i]], ids[pk])
        BY <1>1, <3>2, <3>6 DEF Ascending
      <4>3. \A j \in 1..Len(before) : before[j] \in Range(before)
        BY <3>4 DEF Range
      <4> SUFFICES ASSUME NEW j \in DOMAIN kept[i], NEW k \in DOMAIN kept[i], j < k
                   PROVE  Greater(ids[kept[i][k]], ids[kept[i][j]])
        BY DEF Ascending
      <4>4. CASE k = Len(before) + 1
        BY <3>3, <3>4, <4>2, <4>3, <4>4
      <4>5. CASE k # Len(before) + 1
        <5>1. j \in DOMAIN before /\ k \in DOMAIN before
          BY <3>4, <4>5
        <5>2. Greater(ids[before[k]], ids[before[j]])
          BY <4>1, <5>1 DEF Ascending
        <5> QED
          BY <3>3, <3>4, <5>1, <5>2
      <4> QED
        BY <4>4, <4>5
    <3>7. Range(kept[i]) = {seq[j] : j \in 1..i} \ pks
      BY <2>1, <2>3, <3>2, <3>5
    <3> QED
      BY <3>3, <3>6, <3>7
  <2> QED
    BY <2>2, <2>3
<1>8. wrong = {}
  <2> HIDE DEF Right
  <2> SUFFICES ASSUME wrong # {} PROVE FALSE
    OBVIOUS
  <2>1. wrong \in SUBSET Nat
    BY <1>1
  <2>2. PICK i \in wrong : \A j \in wrong : i <= j
    BY <2>1, Least
  <2>3. i \in 1..n
    BY <1>1, <1>6, <2>2
  <2>4. i - 1 \in 0..n /\ i - 1 \notin wrong
    BY <1>1, <2>1, <2>2, <2>3
  <2>5. Right(i - 1)
    BY <2>4
  <2> QED
    BY <1>7, <2>2, <2>3, <2>5
<1>9. Right(n)
  <2> HIDE DEF Right
  <2> QED
    BY <1>1, <1>8
<1>10. Range(seq) = {seq[j] : j \in 1..n}
  BY <1>1 DEF Range
<1> QED
  BY <1>3, <1>9, <1>10 DEF Thinned

=============================================================================
