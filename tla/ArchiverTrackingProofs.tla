----------------------- MODULE ArchiverTrackingProofs -----------------------
(***************************************************************************)
(* Proofs about ArchiverTracking, for any archivers, changes, patience and *)
(* numbers of cycles and restarts: the lists of archivers follow those of  *)
(* the records, gossip reaches every archiver, and an archiver that is up  *)
(* refutes in time that it is lost.                                        *)
(***************************************************************************)
EXTENDS ArchiverTracking, FiniteSetTheorems, SequenceTheorems, TLAPS

S == INSTANCE NodeListSorting WITH NoId <- -1

-----------------------------------------------------------------------------
(* Sequences of archivers *)

Sorted(seq) == \A i, j \in DOMAIN seq : i < j => seq[i] < seq[j]

LEMMA KeysAscend ==
  ASSUME NEW seq \in Seq(Archivers)
  PROVE  S!Ascending(Key, seq) <=> Sorted(seq)
<1>1. \A i \in DOMAIN seq : seq[i] \in Archivers /\ Key[seq[i]] = seq[i] /\ seq[i] \in Nat
  BY ArchiverAssumption DEF Key
<1> QED
  BY <1>1 DEF S!Ascending, S!Greater, Sorted

LEMMA SortedInjective ==
  ASSUME NEW seq \in Seq(Archivers), Sorted(seq)
  PROVE  IsInjective(seq)
<1>1. DOMAIN seq \subseteq Nat
  OBVIOUS
<1>2. \A i \in DOMAIN seq : seq[i] \in Archivers
  OBVIOUS
<1>3. \A i \in DOMAIN seq : seq[i] \in Nat /\ i \in Nat
  BY <1>1, <1>2, ArchiverAssumption
<1> QED
  BY <1>3 DEF Sorted, IsInjective

\* The instances of the operators of NodeList in ArchiverTracking and here are the same.
LEMMA SameOperators ==
  ASSUME NEW ids, NEW seq, NEW pks
  PROVE  /\ N!InsertAllSorted(ids, seq, pks) = S!InsertAllSorted(ids, seq, pks)
         /\ N!Without(seq, pks) = S!Without(seq, pks)
BY DEF N!InsertAllSorted, S!InsertAllSorted, N!InsertSorted, S!InsertSorted,
       N!Greater, S!Greater, N!FoldSet, S!FoldSet, N!MapThenFoldSet, S!MapThenFoldSet,
       N!InsertAt, S!InsertAt, N!Without, S!Without

\* Inserting archivers that a sorted list does not have.
LEMMA Inserting ==
  ASSUME NEW seq \in Seq(Archivers), Sorted(seq),
         NEW archivers, archivers \subseteq Archivers, archivers \cap Range(seq) = {}
  PROVE  LET longer == N!InsertAllSorted(Key, seq, archivers)
         IN /\ longer \in Seq(Archivers) /\ Sorted(longer)
            /\ Range(longer) = Range(seq) \cup archivers
<1> DEFINE longer == N!InsertAllSorted(Key, seq, archivers)
<1>1. S!IsFiniteSet(archivers) /\ archivers \in SUBSET Archivers
  <2>1. IsFiniteSet(archivers)
    BY ArchiverAssumption, FS_Subset
  <2> QED
    BY <2>1 DEF IsFiniteSet, S!IsFiniteSet
<1>2. longer = S!InsertAllSorted(Key, seq, archivers)
  BY SameOperators
<1> HIDE DEF longer
<1>3. S!Merged(longer, Archivers, Key, seq, archivers)
  <2>1. S!Merged(S!InsertAllSorted(Key, seq, archivers), Archivers, Key, seq, archivers)
    BY <1>1, S!InsertAllSortedElements
  <2> QED
    BY <1>2, <2>1
<1>4. longer \in Seq(Archivers) /\ Range(longer) = Range(seq) \cup archivers
  BY <1>3 DEF S!Merged, S!Range, Range
<1>5. S!Identifying(Key, S!Range(seq) \cup archivers)
  <2>1. S!Range(seq) \cup archivers \subseteq Archivers
    BY DEF S!Range
  <2>2. \A a \in Archivers : Key[a] = a /\ a \in Nat
    BY ArchiverAssumption DEF Key
  <2> QED
    BY <2>1, <2>2 DEF S!Identifying
<1>6. S!Ascending(Key, longer)
  BY <1>3, <1>5, KeysAscend DEF S!Merged, S!Range, Range
<1> QED
  BY <1>4, <1>6, KeysAscend DEF longer

LEMMA Ordering ==
  ASSUME NEW archivers, archivers \subseteq Archivers
  PROVE  /\ InOrder(archivers) \in Seq(Archivers)
         /\ Sorted(InOrder(archivers)) /\ IsInjective(InOrder(archivers))
         /\ Range(InOrder(archivers)) = archivers
<1>1. <<>> \in Seq(Archivers) /\ Sorted(<<>>) /\ Range(<<>>) = {}
  BY DEF Sorted, Range
<1>2. LET longer == N!InsertAllSorted(Key, <<>>, archivers)
      IN /\ longer \in Seq(Archivers) /\ Sorted(longer)
         /\ Range(longer) = Range(<<>>) \cup archivers
  BY <1>1, Inserting
<1>3. /\ InOrder(archivers) \in Seq(Archivers) /\ Sorted(InOrder(archivers))
      /\ Range(InOrder(archivers)) = archivers
  BY <1>1, <1>2 DEF InOrder
<1> QED
  BY <1>3, SortedInjective

\* Dropping archivers keeps what is left in order, and once.  (A list in which nothing is
\* twice is sorted by the places that things have in it.)
LEMMA Dropping ==
  ASSUME NEW seq \in Seq(Archivers), NEW archivers
  PROVE  LET shorter == N!Without(seq, archivers)
         IN /\ shorter \in Seq(Archivers)
            /\ Range(shorter) = Range(seq) \ archivers
            /\ Sorted(seq) => Sorted(shorter)
            /\ IsInjective(seq) => IsInjective(shorter)
<1> DEFINE shorter == N!Without(seq, archivers)
<1>1. shorter = S!Without(seq, archivers)
  BY SameOperators
<1> HIDE DEF shorter
<1>2. S!Thinned(shorter, Archivers, seq, archivers)
  BY <1>1, S!WithoutElements
<1>3. shorter \in Seq(Archivers) /\ Range(shorter) = Range(seq) \ archivers
  BY <1>2 DEF S!Thinned, S!Range, Range
<1>4. \A ids : S!Ascending(ids, seq) => S!Ascending(ids, shorter)
  BY <1>2 DEF S!Thinned
<1>5. Sorted(seq) => Sorted(shorter)
  BY <1>3, <1>4, KeysAscend
<1>6. ASSUME IsInjective(seq) PROVE IsInjective(shorter)
  <2> DEFINE place == [a \in Range(seq) |-> CHOOSE i \in DOMAIN seq : seq[i] = a]
  <2>1. \A i \in DOMAIN seq : place[seq[i]] = i /\ i \in Nat
    <3>1. \A i \in DOMAIN seq : i \in Nat /\ seq[i] \in Range(seq)
      BY DEF Range
    <3> QED
      BY <1>6, <3>1 DEF IsInjective
  <2> HIDE DEF place
  <2>2. S!Ascending(place, seq)
    <3>1. \A i, j \in DOMAIN seq : i < j => ~(i > j)
      BY <2>1
    <3> QED
      BY <2>1, <3>1 DEF S!Ascending, S!Greater
  <2>3. S!Ascending(place, shorter)
    BY <1>4, <2>2
  <2>4. \A i \in DOMAIN shorter : place[shorter[i]] \in Nat /\ i \in Nat
    <3>1. \A i \in DOMAIN shorter : shorter[i] \in Range(seq)
      BY <1>3 DEF Range
    <3>2. \A a \in Range(seq) : place[a] \in Nat
      BY <2>1 DEF Range
    <3> QED
      BY <1>3, <3>1, <3>2
  <2> QED
    BY <2>3, <2>4 DEF S!Ascending, S!Greater, IsInjective
<1> QED
  BY <1>3, <1>5, <1>6 DEF shorter

\* One list after another one that has none of its elements.
LEMMA Appending ==
  ASSUME NEW s \in Seq(Archivers), NEW t \in Seq(Archivers)
  PROVE  /\ s \o t \in Seq(Archivers)
         /\ Range(s \o t) = Range(s) \cup Range(t)
         /\ IsInjective(s) /\ IsInjective(t) /\ Range(s) \cap Range(t) = {}
              => IsInjective(s \o t)
<1> DEFINE m == Len(s)
           n == Len(t)
           st == s \o t
<1>1. /\ m \in Nat /\ n \in Nat /\ DOMAIN s = 1..m /\ DOMAIN t = 1..n
      /\ st \in Seq(Archivers) /\ DOMAIN st = 1..(m + n)
      /\ \A i \in 1..m : st[i] = s[i]
      /\ \A i \in 1..n : st[m + i] = t[i]
  BY ConcatProperties
<1> HIDE DEF m, n, st
<1>2. \A i \in (m + 1)..(m + n) : i - m \in 1..n /\ st[i] = t[i - m]
  BY <1>1
<1>3. Range(st) = Range(s) \cup Range(t)
  <2>1. \A i \in 1..n : m + i \in 1..(m + n)
    BY <1>1
  <2>2. \A i \in 1..(m + n) : i \in 1..m \/ i \in (m + 1)..(m + n)
    BY <1>1
  <2>3. \A i \in 1..m : i \in 1..(m + n)
    BY <1>1
  <2>4. \A a \in Range(st) : a \in Range(s) \/ a \in Range(t)
    <3>1. \A i \in 1..m : st[i] \in Range(s)
      BY <1>1 DEF Range
    <3>2. \A i \in (m + 1)..(m + n) : st[i] \in Range(t)
      BY <1>1, <1>2 DEF Range
    <3> QED
      BY <1>1, <2>2, <3>1, <3>2 DEF Range
  <2>5. \A a \in Range(s) : a \in Range(st)
    BY <1>1, <2>3 DEF Range
  <2>6. \A a \in Range(t) : a \in Range(st)
    BY <1>1, <2>1 DEF Range
  <2> QED
    BY <2>4, <2>5, <2>6
<1>4. ASSUME IsInjective(s), IsInjective(t), Range(s) \cap Range(t) = {}
      PROVE  IsInjective(st)
  <2> SUFFICES ASSUME NEW i \in 1..(m + n), NEW j \in 1..(m + n), st[i] = st[j]
               PROVE  i = j
    BY <1>1 DEF IsInjective
  <2>1. CASE i \in 1..m /\ j \in 1..m
    BY <1>1, <1>4, <2>1 DEF IsInjective
  <2>2. CASE i \in (m + 1)..(m + n) /\ j \in (m + 1)..(m + n)
    <3>1. i - m \in 1..n /\ j - m \in 1..n /\ t[i - m] = t[j - m]
      BY <1>2, <2>2
    <3>2. i - m = j - m
      BY <1>1, <1>4, <3>1 DEF IsInjective
    <3> QED
      BY <1>1, <3>2
  <2>3. ASSUME NEW k \in 1..m, NEW o \in (m + 1)..(m + n) PROVE st[k] # st[o]
    <3>1. st[k] \in Range(s) /\ st[o] \in Range(t)
      BY <1>1, <1>2 DEF Range
    <3> QED
      BY <1>4, <3>1
  <2> QED
    BY <1>1, <2>1, <2>2, <2>3
<1> QED
  BY <1>1, <1>3, <1>4 DEF st

-----------------------------------------------------------------------------
(* The three lists *)

\* The lists of State.ts when the archivers of the network are these.
ListsOf(l, archivers) ==
  /\ l.active \in Seq(Archivers) /\ l.sorted \in Seq(Archivers) /\ l.other \in Seq(Archivers)
  /\ Range(l.active) = archivers /\ Range(l.sorted) = archivers
  /\ Range(l.other) = archivers \ {Self}
  /\ IsInjective(l.active) /\ IsInjective(l.other) /\ Sorted(l.sorted)

LEMMA AddedLists ==
  ASSUME NEW l, NEW before, ListsOf(l, before), NEW archivers, archivers \subseteq Archivers
  PROVE  ListsOf(Added(l, archivers), before \cup archivers)
<1> DEFINE missing == archivers \ Range(l.active)
           a == Added(l, archivers)
<1>1. /\ a.active = l.active \o InOrder(missing)
      /\ a.sorted = N!InsertAllSorted(Key, l.sorted, missing)
      /\ a.other = l.other \o InOrder(missing \ {Self})
  BY DEF Added
<1> HIDE DEF a
<1>2. missing = archivers \ before /\ missing \subseteq Archivers
  BY DEF ListsOf
<1> HIDE DEF missing
<1>3. a.active \in Seq(Archivers) /\ Range(a.active) = before \cup archivers /\ IsInjective(a.active)
  <2>1. /\ InOrder(missing) \in Seq(Archivers) /\ IsInjective(InOrder(missing))
        /\ Range(InOrder(missing)) = missing
    BY <1>2, Ordering
  <2>2. /\ l.active \in Seq(Archivers) /\ IsInjective(l.active) /\ Range(l.active) = before
    BY DEF ListsOf
  <2>3. /\ l.active \o InOrder(missing) \in Seq(Archivers)
        /\ Range(l.active \o InOrder(missing)) = before \cup missing
        /\ IsInjective(l.active \o InOrder(missing))
    BY <1>2, <2>1, <2>2, Appending
  <2> QED
    BY <1>1, <1>2, <2>3
<1>4. /\ a.other \in Seq(Archivers) /\ Range(a.other) = (before \cup archivers) \ {Self}
      /\ IsInjective(a.other)
  <2> DEFINE new == InOrder(missing \ {Self})
  <2>1. new \in Seq(Archivers) /\ IsInjective(new) /\ Range(new) = missing \ {Self}
    BY <1>2, Ordering
  <2>2. /\ l.other \in Seq(Archivers) /\ IsInjective(l.other) /\ Range(l.other) = before \ {Self}
    BY DEF ListsOf
  <2> HIDE DEF new
  <2>3. /\ l.other \o new \in Seq(Archivers)
        /\ Range(l.other \o new) = (before \ {Self}) \cup (missing \ {Self})
        /\ IsInjective(l.other \o new)
    BY <1>2, <2>1, <2>2, Appending
  <2> QED
    BY <1>1, <1>2, <2>3 DEF new
<1>5. /\ a.sorted \in Seq(Archivers) /\ Range(a.sorted) = before \cup archivers
      /\ Sorted(a.sorted)
  <2>1. l.sorted \in Seq(Archivers) /\ Sorted(l.sorted) /\ Range(l.sorted) = before
    BY DEF ListsOf
  <2>2. LET longer == N!InsertAllSorted(Key, l.sorted, missing)
        IN /\ longer \in Seq(Archivers) /\ Sorted(longer)
           /\ Range(longer) = Range(l.sorted) \cup missing
    BY <1>2, <2>1, Inserting
  <2> QED
    BY <1>1, <1>2, <2>1, <2>2
<1> QED
  BY <1>3, <1>4, <1>5 DEF ListsOf, a

LEMMA RemovedLists ==
  ASSUME NEW l, NEW before, ListsOf(l, before), NEW archivers
  PROVE  ListsOf(Removed(l, archivers), before \ archivers)
<1> DEFINE r == Removed(l, archivers)
<1>1. /\ r.active = N!Without(l.active, archivers)
      /\ r.sorted = N!Without(l.sorted, archivers)
      /\ r.other = N!Without(l.other, archivers)
  BY DEF Removed
<1> HIDE DEF r
<1>2. r.active \in Seq(Archivers) /\ Range(r.active) = before \ archivers /\ IsInjective(r.active)
  BY <1>1, Dropping DEF ListsOf
<1>3. r.sorted \in Seq(Archivers) /\ Range(r.sorted) = before \ archivers /\ Sorted(r.sorted)
  BY <1>1, Dropping DEF ListsOf
<1>4. /\ r.other \in Seq(Archivers) /\ Range(r.other) = (before \ {Self}) \ archivers
      /\ IsInjective(r.other)
  BY <1>1, Dropping DEF ListsOf
<1> QED
  BY <1>2, <1>3, <1>4 DEF ListsOf, r

LEMMA ResetLists ==
  ASSUME NEW archivers, archivers \subseteq Archivers
  PROVE  ListsOf(Reset(archivers), archivers)
BY Ordering DEF Reset, ListsOf

LEMMA NoLists == ListsOf(NoArchivers, {})
BY DEF NoArchivers, ListsOf, Range, IsInjective, Sorted

-----------------------------------------------------------------------------
(* Neighbours *)

LEMMA Place ==
  ASSUME NEW seq \in Seq(Archivers), IsInjective(seq), NEW a
  PROVE  LET index == SelectInSeq(seq, LAMBDA b : b = a)
         IN \/ index = 0 /\ a \notin Range(seq)
            \/ index \in 1..Len(seq) /\ seq[index] = a
<1> DEFINE places == {i \in 1..Len(seq) : seq[i] = a}
<1>1. CASE places = {}
  BY <1>1 DEF SelectInSeq, Range
<1>2. CASE places # {}
  <2>1. PICK i \in 1..Len(seq) : seq[i] = a
    BY <1>2
  <2>2. \A j \in places : j = i
    BY <2>1 DEF IsInjective
  <2>3. places = {i} /\ i \in Nat
    BY <2>1, <2>2
  <2>4. Min({i}) = i
    BY <2>3 DEF Min
  <2> QED
    BY <1>2, <2>1, <2>3, <2>4 DEF SelectInSeq
<1> QED
  BY <1>1, <1>2

\* The neighbours of an archiver are in the list, and others than itself.
LEMMA AdjacentOthers ==
  ASSUME NEW seq \in Seq(Archivers), IsInjective(seq), Len(seq) > 1, NEW a
  PROVE  Adjacent(seq, a) \subseteq Range(seq) \ {a}
<1> DEFINE index == SelectInSeq(seq, LAMBDA b : b = a)
           left == IF index <= 1 THEN Len(seq) ELSE index - 1
           right == IF index = Len(seq) THEN 1 ELSE index + 1
<1>1. \/ index = 0 /\ a \notin Range(seq)
      \/ index \in 1..Len(seq) /\ seq[index] = a
  BY Place
<1>2. Adjacent(seq, a) = IF Len(seq) = 2
                           THEN IF index = 1 THEN {seq[2]} ELSE {seq[1]}
                           ELSE {seq[left], seq[right]}
  BY DEF Adjacent
<1> HIDE DEF index
<1>3. Len(seq) \in Nat /\ DOMAIN seq = 1..Len(seq)
  OBVIOUS
<1>4. ASSUME NEW i \in 1..Len(seq), i # index
      PROVE  seq[i] \in Range(seq) \ {a}
  <2>1. seq[i] \in Range(seq)
    BY <1>3 DEF Range
  <2>2. seq[i] # a
    BY <1>1, <1>3, <1>4, <2>1 DEF IsInjective
  <2> QED
    BY <2>1, <2>2
<1>5. left \in 1..Len(seq) /\ right \in 1..Len(seq) /\ left # index /\ right # index
  BY <1>1, <1>3
<1>6. CASE Len(seq) = 2
  <2>1. 1 \in 1..Len(seq) /\ 2 \in 1..Len(seq)
    BY <1>6
  <2>2. CASE index = 1
    BY <1>2, <1>4, <1>6, <2>1, <2>2
  <2>3. CASE index # 1
    BY <1>2, <1>4, <1>6, <2>1, <2>3
  <2> QED
    BY <2>2, <2>3
<1>7. CASE Len(seq) # 2
  BY <1>2, <1>4, <1>5, <1>7
<1> QED
  BY <1>6, <1>7

\* Two archivers next to each other in the list are each other's neighbours.
LEMMA NextToEachOther ==
  ASSUME NEW seq \in Seq(Archivers), IsInjective(seq), NEW i \in 2..Len(seq)
  PROVE  seq[i - 1] \in Adjacent(seq, seq[i]) /\ seq[i] \in Adjacent(seq, seq[i - 1])
<1> DEFINE Index(a) == SelectInSeq(seq, LAMBDA b : b = a)
<1>1. Len(seq) \in Nat /\ DOMAIN seq = 1..Len(seq)
  OBVIOUS
<1>2. ASSUME NEW j \in 1..Len(seq) PROVE Index(seq[j]) = j
  <2>1. seq[j] \in Range(seq)
    BY <1>1 DEF Range
  <2>2. Index(seq[j]) \in 1..Len(seq) /\ seq[Index(seq[j])] = seq[j]
    BY <2>1, Place
  <2> HIDE DEF Index
  <2> QED
    BY <1>1, <2>2 DEF IsInjective
<1>3. \A a : Adjacent(seq, a) =
               LET left == IF Index(a) <= 1 THEN Len(seq) ELSE Index(a) - 1
                   right == IF Index(a) = Len(seq) THEN 1 ELSE Index(a) + 1
               IN IF Len(seq) = 2
                    THEN IF Index(a) = 1 THEN {seq[2]} ELSE {seq[1]}
                    ELSE {seq[left], seq[right]}
  BY DEF Adjacent
<1> HIDE DEF Index
<1>4. i \in 1..Len(seq) /\ i - 1 \in 1..Len(seq)
  BY <1>1
<1>5. Index(seq[i]) = i /\ Index(seq[i - 1]) = i - 1
  BY <1>2, <1>4
<1>6. seq[i - 1] \in Adjacent(seq, seq[i])
  BY <1>1, <1>3, <1>4, <1>5
<1>7. seq[i] \in Adjacent(seq, seq[i - 1])
  BY <1>1, <1>3, <1>4, <1>5
<1> QED
  BY <1>6, <1>7

\* A set of archivers of the list that is neither empty nor all has one with a neighbour
\* that is not in it: there is a first place in the list where the archivers on the two
\* sides differ in that.
LEMMA Connected ==
  ASSUME NEW seq \in Seq(Archivers), IsInjective(seq),
         NEW reached \in SUBSET Range(seq), reached # {}, reached # Range(seq)
  PROVE  \E a \in reached, b \in Range(seq) \ reached : b \in Adjacent(seq, a)
<1>1. Len(seq) \in Nat /\ DOMAIN seq = 1..Len(seq)
  OBVIOUS
<1>2. PICK k \in 1..Len(seq) : ~(seq[k] \in reached <=> seq[1] \in reached)
  <2>1. PICK a \in reached, b \in Range(seq) : b \notin reached
    OBVIOUS
  <2>2. PICK i \in 1..Len(seq), j \in 1..Len(seq) : seq[i] \in reached /\ seq[j] \notin reached
    BY <1>1, <2>1 DEF Range
  <2> QED
    BY <2>2
<1> DEFINE differing == {i \in Nat : i \in 1..Len(seq) /\ ~(seq[i] \in reached <=> seq[1] \in reached)}
<1>3. PICK i \in differing : \A j \in differing : i <= j
  <2>1. k \in differing /\ differing \in SUBSET Nat
    BY <1>1, <1>2
  <2> HIDE DEF differing
  <2> QED
    BY <2>1, S!Least
<1>4. i \in 2..Len(seq) /\ i - 1 \in 1..Len(seq) /\ i - 1 \in Nat
  BY <1>1, <1>3
<1>5. i - 1 \notin differing
  BY <1>3, <1>4
<1>6. ~(seq[i] \in reached <=> seq[i - 1] \in reached)
  BY <1>3, <1>4, <1>5
<1>7. seq[i] \in Range(seq) /\ seq[i - 1] \in Range(seq)
  BY <1>1, <1>4 DEF Range
<1>8. seq[i - 1] \in Adjacent(seq, seq[i]) /\ seq[i] \in Adjacent(seq, seq[i - 1])
  BY <1>4, NextToEachOther
<1> QED
  BY <1>6, <1>7, <1>8

-----------------------------------------------------------------------------
(* The inductive invariant *)

Phases ==
  {"start", "asking", "joining", "waiting", "syncing", "up", "exited", "compare", "serving"}

\* What records say follows from what the one before said: who is lost is a member, and
\* is reported when it is found so.
NetworkInv ==
  /\ now \in Nat \ {0}
  /\ heard \in [join : BOOLEAN, leave : BOOLEAN, refute : BOOLEAN]
  /\ record.before \subseteq Archivers /\ record.joinedArchivers \subseteq Archivers
  /\ record.members = (record.before \cup record.joinedArchivers)
                      \ (record.leavingArchivers \cup record.removedArchivers)
  /\ record.joinedArchivers \cap record.before = {}
  /\ record.refreshedArchivers \subseteq record.before
  /\ record.removedArchivers \subseteq record.before
  /\ DOMAIN lostIn \subseteq record.members
  /\ \A a \in DOMAIN lostIn : lostIn[a] \in Nat /\ lostIn[a] <= Newest
  /\ record.lostArchivers = {a \in DOMAIN lostIn : lostIn[a] = Newest}
  /\ record.refutedArchivers \cap DOMAIN lostIn = {}

TypesInv ==
  /\ phase \in Phases
  /\ stored \in Nat /\ current \in Nat /\ stored <= current /\ current <= Newest
  /\ timers \subseteq Int /\ \A t \in timers : t <= now + 1
  /\ shouldSendRefutes \in BOOLEAN /\ reading \in BOOLEAN /\ unheard \in BOOLEAN
  /\ adjacent \subseteq Archivers \ {Self} /\ remaining \subseteq Archivers \ {Self}
  /\ checking \subseteq Archivers /\ DOMAIN reputation \subseteq Archivers

\* The archivers the lists are of: of the newest record, when it has been processed.
Followed == stale \cup (IF current = Newest THEN record.members ELSE record.before)

ListsInv ==
  /\ ListsOf(Lists, Range(active))
  /\ phase = "up" =>
       /\ Newest - 1 <= current
       /\ Range(active) = Followed
       /\ DOMAIN reputation \subseteq Range(active) \cup late
       /\ Len(active) > 1 => /\ adjacent = Adjacent(sorted, Self)
                             /\ remaining = Range(other) \ adjacent

\* What is under way when this archiver has been lost since the last record, and since
\* the one before.
Refuting ==
  /\ Self \notin record.removedArchivers
  /\ Self \in DOMAIN lostIn =>
       \/ lostIn[Self] = Newest /\ current = Newest - 1
       \/ /\ lostIn[Self] = Newest /\ current = Newest /\ shouldSendRefutes = TRUE
          /\ reading = TRUE \/ heard.refute = TRUE \/ \E t \in timers : t <= now + 1
       \/ /\ lostIn[Self] = Newest - 1 /\ shouldSendRefutes = TRUE
          /\ heard.refute = TRUE \/ \E t \in timers : t <= now

RefutesInv == phase = "up" /\ unheard = FALSE => Refuting

-----------------------------------------------------------------------------
(* The network *)

\* Only a record changes what the network knows; requests are heard one at a time.
LEMMA NetworkSteps ==
  ASSUME [Next]_vars
  PROVE  \/ NetworkCycle
         \/ /\ UNCHANGED <<now, record, lostIn>>
            /\ \/ UNCHANGED heard
               \/ \E request \in {"join", "leave", "refute"} :
                    heard' = [heard EXCEPT ![request] = TRUE]
<1>1. CASE NetworkCycle
  BY <1>1
<1>2. CASE UNCHANGED network
  BY <1>2 DEF network
<1>3. CASE SendRefute
  BY <1>3 DEF SendRefute, Hear, network
<1>4. CASE SubmitJoin
  BY <1>4 DEF SubmitJoin, Hear, network
<1>5. CASE Exit
  BY <1>5 DEF Exit, Hear, network
<1>6. CASE ReceiveRecord
  BY <1>6, <1>2 DEF ReceiveRecord
<1>7. CASE StoreRecord \/ ReputationAnswers \/ ScheduleRefute
  BY <1>7, <1>2 DEF StoreRecord, ReputationAnswers, ScheduleRefute
<1>8. CASE Discover \/ AskJoined \/ AskAgain \/ Sync \/ Restart \/ CompareRecords
  BY <1>8, <1>2 DEF Discover, AskJoined, AskAgain, Sync, Restart, CompareRecords
<1>9. CASE UNCHANGED vars
  BY <1>9, <1>2 DEF vars
<1> QED
  BY <1>1, <1>3, <1>4, <1>5, <1>6, <1>7, <1>8, <1>9 DEF Next

\* What a record says, in terms of the one before.
Recorded(joined, leaving, refreshed, lost, refuted, removed) ==
  /\ record'.joinedArchivers = joined /\ record'.leavingArchivers = leaving
  /\ record'.refreshedArchivers = refreshed /\ record'.lostArchivers = lost
  /\ record'.refutedArchivers = refuted /\ record'.removedArchivers = removed
  /\ record'.before = record.members
  /\ record'.members = (record.members \cup joined) \ (leaving \cup removed)

Missing(leaving, lost, refuted, removed) ==
  lostIn' = [a \in (DOMAIN lostIn \cup lost) \ (refuted \cup removed \cup leaving) |->
               IF a \in lost THEN now ELSE lostIn[a]]

LEMMA CycleRecord ==
  ASSUME NetworkInv, NetworkCycle
  PROVE  \E joined, leaving, refreshed, lost, refuted, removed :
           /\ Recorded(joined, leaving, refreshed, lost, refuted, removed)
           /\ Missing(leaving, lost, refuted, removed)
           /\ joined \subseteq Archivers /\ joined \cap record.members = {}
           /\ refreshed \subseteq record.members
           /\ refuted = (IF heard.refute THEN {Self} ELSE {}) \cap DOMAIN lostIn
           /\ removed = {a \in DOMAIN lostIn : lostIn[a] + Patience <= now} \ refuted
           /\ lost \subseteq record.members /\ lost \cap (DOMAIN lostIn \cup leaving) = {}
<1>1. PICK change \in Changes :
       LET members == record.members
           joined == (change.joined \cup (IF heard.join THEN {Self} ELSE {})) \ members
           leaving == (change.leaving \cup (IF heard.leave THEN {Self} ELSE {})) \cap members
           refuted == (IF heard.refute THEN {Self} ELSE {}) \cap DOMAIN lostIn
           removed == {a \in DOMAIN lostIn : lostIn[a] + Patience <= now} \ refuted
           lost == (change.lost \cap members) \ (DOMAIN lostIn \cup leaving)
           after == (members \cup joined) \ (leaving \cup removed)
           missing == [a \in (DOMAIN lostIn \cup lost) \ (refuted \cup removed \cup leaving) |->
                         IF a \in lost THEN now ELSE lostIn[a]]
       IN /\ record' = [joinedArchivers |-> joined, leavingArchivers |-> leaving,
                         refreshedArchivers |-> change.refreshed \cap members,
                         lostArchivers |-> lost, refutedArchivers |-> refuted,
                         removedArchivers |-> removed, before |-> members, members |-> after]
          /\ lostIn' = missing
  BY DEF NetworkCycle
<1> DEFINE members == record.members
           joined == (change.joined \cup (IF heard.join THEN {Self} ELSE {})) \ members
           leaving == (change.leaving \cup (IF heard.leave THEN {Self} ELSE {})) \cap members
           refuted == (IF heard.refute THEN {Self} ELSE {}) \cap DOMAIN lostIn
           removed == {a \in DOMAIN lostIn : lostIn[a] + Patience <= now} \ refuted
           lost == (change.lost \cap members) \ (DOMAIN lostIn \cup leaving)
           after == (members \cup joined) \ (leaving \cup removed)
           refreshed == change.refreshed \cap members
<1>2. record' = [joinedArchivers |-> joined, leavingArchivers |-> leaving,
                 refreshedArchivers |-> refreshed,
                 lostArchivers |-> lost, refutedArchivers |-> refuted,
                 removedArchivers |-> removed, before |-> members, members |-> after]
  BY <1>1
<1>3. Missing(leaving, lost, refuted, removed)
  BY <1>1 DEF Missing
<1>4. joined \subseteq Archivers /\ joined \cap members = {}
  BY ArchiverAssumption
<1>5. lost \subseteq members /\ lost \cap (DOMAIN lostIn \cup leaving) = {}
  OBVIOUS
<1>6. refuted = (IF heard.refute THEN {Self} ELSE {}) \cap DOMAIN lostIn
  OBVIOUS
<1>7. removed = {a \in DOMAIN lostIn : lostIn[a] + Patience <= now} \ refuted
  OBVIOUS
<1>8. refreshed \subseteq members
  OBVIOUS
<1>9. after = (members \cup joined) \ (leaving \cup removed)
  OBVIOUS
<1> HIDE DEF joined, leaving, refuted, removed, lost, after, refreshed
<1>10. Recorded(joined, leaving, refreshed, lost, refuted, removed)
  BY <1>2, <1>9 DEF Recorded
<1> QED
  BY <1>3, <1>4, <1>5, <1>6, <1>7, <1>8, <1>10

LEMMA NetworkInvariance ==
  ASSUME NetworkInv, [Next]_vars
  PROVE  NetworkInv'
<1>1. ASSUME UNCHANGED <<now, record, lostIn>>,
             \/ UNCHANGED heard
             \/ \E request \in {"join", "leave", "refute"} :
                  heard' = [heard EXCEPT ![request] = TRUE]
      PROVE  NetworkInv'
  <2>1. heard' \in [join : BOOLEAN, leave : BOOLEAN, refute : BOOLEAN]
    <3>1. CASE UNCHANGED heard
      BY <3>1 DEF NetworkInv
    <3>2. CASE heard' = [heard EXCEPT !["join"] = TRUE]
      BY <3>2 DEF NetworkInv
    <3>3. CASE heard' = [heard EXCEPT !["leave"] = TRUE]
      BY <3>3 DEF NetworkInv
    <3>4. CASE heard' = [heard EXCEPT !["refute"] = TRUE]
      BY <3>4 DEF NetworkInv
    <3> QED
      BY <1>1, <3>1, <3>2, <3>3, <3>4
  <2> QED
    BY <1>1, <2>1 DEF NetworkInv, Newest
<1>2. ASSUME NetworkCycle PROVE NetworkInv'
  <2>1. PICK joined, leaving, refreshed, lost, refuted, removed :
           /\ Recorded(joined, leaving, refreshed, lost, refuted, removed)
           /\ Missing(leaving, lost, refuted, removed)
           /\ joined \subseteq Archivers /\ joined \cap record.members = {}
           /\ refreshed \subseteq record.members
           /\ refuted = (IF heard.refute THEN {Self} ELSE {}) \cap DOMAIN lostIn
           /\ removed = {a \in DOMAIN lostIn : lostIn[a] + Patience <= now} \ refuted
           /\ lost \subseteq record.members /\ lost \cap (DOMAIN lostIn \cup leaving) = {}
    BY <1>2, CycleRecord
  <2>2. now' = now + 1 /\ heard' = NoRequest /\ now \in Nat \ {0}
    BY <1>2 DEF NetworkCycle, NetworkInv
  <2>3. heard' \in [join : BOOLEAN, leave : BOOLEAN, refute : BOOLEAN]
    BY <2>2 DEF NoRequest
  <2>4. record.members \subseteq Archivers
    BY DEF NetworkInv
  <2>5. refuted \subseteq DOMAIN lostIn /\ removed \subseteq DOMAIN lostIn
        /\ removed \cap refuted = {}
    BY <2>1
  <2>6. DOMAIN lostIn \subseteq record.members
    BY DEF NetworkInv
  <2>7. /\ DOMAIN lostIn' = (DOMAIN lostIn \cup lost) \ (refuted \cup removed \cup leaving)
        /\ \A a \in DOMAIN lostIn' : lostIn'[a] = IF a \in lost THEN now ELSE lostIn[a]
    BY <2>1 DEF Missing
  <2>8. \A a \in DOMAIN lostIn : lostIn[a] \in Nat /\ lostIn[a] <= now - 1
    BY DEF NetworkInv, Newest
  <2>9. Newest' = now
    BY <2>2 DEF Newest
  <2>10. lost \subseteq DOMAIN lostIn'
    BY <2>1, <2>5, <2>7
  <2>11. \A a \in DOMAIN lostIn' : a \in lost \/ a \in DOMAIN lostIn
    BY <2>7
  <2>12. \A a \in DOMAIN lostIn' : lostIn'[a] \in Nat /\ lostIn'[a] <= now
    BY <2>2, <2>7, <2>8, <2>11
  <2>13. \A a \in DOMAIN lostIn' : lostIn'[a] = now <=> a \in lost
    BY <2>2, <2>7, <2>8, <2>11
  <2>14. record'.lostArchivers = {a \in DOMAIN lostIn' : lostIn'[a] = Newest'}
    <3>1. record'.lostArchivers = lost
      BY <2>1 DEF Recorded
    <3> QED
      BY <2>9, <2>10, <2>13, <3>1
  <2>15. DOMAIN lostIn' \subseteq record'.members
    BY <2>1, <2>6, <2>7, <2>11 DEF Recorded
  <2>16. record'.refutedArchivers \cap DOMAIN lostIn' = {}
    BY <2>1, <2>7 DEF Recorded
  <2>17. /\ record'.before \subseteq Archivers /\ record'.joinedArchivers \subseteq Archivers
         /\ record'.joinedArchivers \cap record'.before = {}
         /\ record'.refreshedArchivers \subseteq record'.before
         /\ record'.removedArchivers \subseteq record'.before
    BY <2>1, <2>4, <2>5, <2>6 DEF Recorded
  <2>18. record'.members = (record'.before \cup record'.joinedArchivers)
                           \ (record'.leavingArchivers \cup record'.removedArchivers)
    BY <2>1 DEF Recorded
  <2> QED
    BY <2>2, <2>3, <2>9, <2>12, <2>14, <2>15, <2>16, <2>17, <2>18 DEF NetworkInv
<1> QED
  BY <1>1, <1>2, NetworkSteps

-----------------------------------------------------------------------------
(* Types and lists *)

\* What setting the lists, and then the neighbours, gives.
ListsAre(archivers) ==
  /\ ListsOf(Lists', archivers)
  /\ Range(active') = archivers
  /\ adjacent' \subseteq Archivers \ {Self} /\ remaining' \subseteq Archivers \ {Self}
  /\ Len(active') > 1 => /\ adjacent' = Adjacent(sorted', Self)
                         /\ remaining' = Range(other') \ adjacent'

LEMMA LongEnough ==
  ASSUME NEW s \in Seq(Archivers), NEW t \in Seq(Archivers), IsInjective(s),
         Range(s) \subseteq Range(t), Len(s) > 1
  PROVE  Len(t) > 1
<1>1. /\ Len(s) \in Nat /\ Len(t) \in Nat /\ DOMAIN s = 1..Len(s) /\ DOMAIN t = 1..Len(t)
  OBVIOUS
<1>2. 1 \in DOMAIN s /\ 2 \in DOMAIN s
  BY <1>1
<1>3. s[1] \in Range(s) /\ s[2] \in Range(s) /\ s[1] # s[2]
  BY <1>2 DEF Range, IsInjective
<1>4. PICK i \in 1..Len(t), j \in 1..Len(t) : t[i] = s[1] /\ t[j] = s[2]
  BY <1>1, <1>3 DEF Range
<1>5. i # j
  BY <1>3, <1>4
<1> QED
  BY <1>1, <1>5

LEMMA SettingLists ==
  ASSUME NEW l, NEW archivers, archivers \subseteq Archivers, ListsOf(l, archivers),
         SetLists(l), Neighbours(l), remaining \subseteq Archivers \ {Self}
  PROVE  ListsAre(archivers)
<1>1. active' = l.active /\ sorted' = l.sorted /\ other' = l.other
  BY DEF SetLists
<1>2. ListsOf(Lists', archivers) /\ Range(active') = archivers
  BY <1>1 DEF ListsOf, Lists
<1>3. CASE Len(l.active) > 1
  <2>1. Len(l.sorted) > 1 /\ l.sorted \in Seq(Archivers) /\ IsInjective(l.sorted)
    BY <1>3, LongEnough, SortedInjective DEF ListsOf
  <2>2. adjacent' = Adjacent(l.sorted, Self) /\ remaining' = Range(l.other) \ adjacent'
    <3>1. ~(Len(l.active) <= 1)
      BY <1>3 DEF ListsOf
    <3> QED
      BY <3>1 DEF Neighbours
  <2>3. adjacent' \subseteq archivers \ {Self}
    BY <2>1, <2>2, AdjacentOthers DEF ListsOf
  <2>4. remaining' \subseteq archivers \ {Self}
    BY <2>2 DEF ListsOf
  <2> QED
    BY <1>1, <1>2, <2>2, <2>3, <2>4 DEF ListsAre
<1>4. CASE ~(Len(l.active) > 1)
  <2>1. Len(l.active) <= 1
    BY <1>4 DEF ListsOf
  <2>2. adjacent' = {} /\ remaining' = remaining
    BY <2>1 DEF Neighbours
  <2> QED
    BY <1>1, <1>2, <1>4, <2>2 DEF ListsAre
<1> QED
  BY <1>3, <1>4

\* The lists that a start finds, or has none of yet; neighbours come with the first reset.
LEMMA SettingListsAlone ==
  ASSUME NEW l, NEW archivers, ListsOf(l, archivers), SetLists(l)
  PROVE  ListsOf(Lists', Range(active'))
BY DEF SetLists, ListsOf, Lists

\* A record takes the lists to the archivers that it leaves in the network.
LEMMA RecordLists ==
  ASSUME NetworkInv, TypesInv, ListsInv, ReceiveRecord
  PROVE  /\ ListsAre((Range(active) \cup record.joinedArchivers \cup record.refreshedArchivers)
                       \ record.leavingArchivers)
         /\ stale' = (stale \cup (record.removedArchivers \cap Range(active')))
                     \ (record.leavingArchivers \cup record.joinedArchivers)
<1> DEFINE joined == Added(Lists, record.joinedArchivers)
           refreshed == Added(joined, record.refreshedArchivers)
           l == Removed(refreshed, record.leavingArchivers)
           after == (Range(active) \cup record.joinedArchivers \cup record.refreshedArchivers)
                       \ record.leavingArchivers
<1>1. /\ SetLists(l) /\ Neighbours(l)
      /\ stale' = (stale \cup (record.removedArchivers \cap Range(l.active)))
                  \ (record.leavingArchivers \cup record.joinedArchivers)
  BY DEF ReceiveRecord
<1>2. record.joinedArchivers \subseteq Archivers /\ record.refreshedArchivers \subseteq Archivers
  BY DEF NetworkInv
<1>3. ListsOf(Lists, Range(active))
  BY DEF ListsInv
<1>4. ListsOf(joined, Range(active) \cup record.joinedArchivers)
  BY <1>2, <1>3, AddedLists
<1> HIDE DEF joined
<1>5. ListsOf(refreshed, Range(active) \cup record.joinedArchivers \cup record.refreshedArchivers)
  BY <1>2, <1>4, AddedLists
<1> HIDE DEF refreshed
<1>6. ListsOf(l, after)
  BY <1>5, RemovedLists
<1> HIDE DEF l
<1>7. after \subseteq Archivers
  <2>1. Range(active) \subseteq Archivers
    BY <1>3 DEF ListsOf, Lists, Range
  <2> QED
    BY <1>2, <2>1
<1>8. remaining \subseteq Archivers \ {Self}
  BY DEF TypesInv
<1> HIDE DEF after
<1>9. ListsAre(after)
  BY <1>1, <1>6, <1>7, <1>8, SettingLists
<1>10. active' = l.active
  BY <1>1 DEF SetLists
<1> QED
  BY <1>1, <1>9, <1>10 DEF after

LEMMA ResetTo ==
  ASSUME NEW archivers, archivers \subseteq Archivers, TypesInv,
         SetLists(Reset(archivers)), Neighbours(Reset(archivers))
  PROVE  ListsAre(archivers)
<1>1. remaining \subseteq Archivers \ {Self}
  BY DEF TypesInv
<1>2. ListsOf(Reset(archivers), archivers)
  BY ResetLists
<1> QED
  BY <1>1, <1>2, SettingLists

\* The answers that recordArchiversReputation sets.
LEMMA Answers ==
  ASSUME ReputationAnswers
  PROVE  DOMAIN reputation' = checking \cup DOMAIN reputation
BY DEF ReputationAnswers

LEMMA TypesInvariance ==
  ASSUME NetworkInv, TypesInv, ListsInv, [Next]_vars
  PROVE  TypesInv'
<1> USE DEF TypesInv, Newest
<1>0. now \in Nat \ {0} /\ Range(active) \subseteq Archivers /\ record.before \subseteq Archivers
  BY DEF NetworkInv, ListsInv, ListsOf, Lists, Range
<1>1. CASE NetworkCycle
  BY <1>0, <1>1 DEF NetworkCycle, lists, refuting, starting, history
<1>2. CASE ReceiveRecord
  <2>1. adjacent' \subseteq Archivers \ {Self} /\ remaining' \subseteq Archivers \ {Self}
    BY <1>2, RecordLists DEF ListsAre
  <2>2. /\ phase' \in Phases /\ shouldSendRefutes' \in BOOLEAN /\ reading' \in BOOLEAN
        /\ UNCHANGED <<stored, timers, checking, unheard, now>>
        /\ current < Newest /\ current' = current + 1
    BY <1>2 DEF ReceiveRecord, HandleLostArchivers, network, Phases
  <2>3. DOMAIN reputation' \subseteq Archivers
    BY <1>2 DEF ReceiveRecord, ReputationWithout, Restrict
  <2> QED
    BY <1>0, <2>1, <2>2, <2>3
<1>3. CASE StoreRecord
  BY <1>0, <1>3 DEF StoreRecord, network, lists, refuting, starting, history
<1>4. CASE ReputationAnswers
  BY <1>0, <1>4, Answers DEF ReputationAnswers, network, lists, refuting, starting
<1>5. CASE ScheduleRefute
  <2>1. timers' = timers \cup {stored + 2} /\ reading' = FALSE /\ now' = now
    BY <1>5 DEF ScheduleRefute, Due, network
  <2>2. stored + 2 \in Int /\ stored + 2 <= now + 1
    BY <1>0
  <2>3. timers' \subseteq Int /\ \A t \in timers' : t <= now' + 1
    BY <2>1, <2>2
  <2> QED
    BY <1>0, <1>5, <2>1, <2>3 DEF ScheduleRefute, lists, starting, history
<1>6. CASE SendRefute
  <2>1. now' = now
    BY <1>6 DEF SendRefute, Hear, network
  <2>2. unheard' \in BOOLEAN
    BY <1>6 DEF SendRefute
  <2>3. timers' \subseteq timers
    BY <1>6 DEF SendRefute
  <2> QED
    BY <1>6, <2>1, <2>2, <2>3 DEF SendRefute, lists, starting
<1>7. CASE Discover
  <2>1. phase' \in Phases
    BY <1>7 DEF Discover, Phases
  <2> QED
    BY <1>7, <2>1 DEF Discover, network, refuting, history
<1>8. CASE AskJoined
  <2>1. phase' \in Phases
    BY <1>8 DEF AskJoined, Phases
  <2> QED
    BY <1>8, <2>1 DEF AskJoined, network, lists, refuting, history
<1>9. CASE SubmitJoin
  <2>1. now' = now
    BY <1>9 DEF SubmitJoin, Hear, network
  <2> QED
    BY <1>9, <2>1 DEF SubmitJoin, lists, refuting, history, Phases
<1>10. CASE AskAgain
  BY <1>10 DEF AskAgain, network, lists, refuting, history, Phases
<1>11. CASE Sync
  <2>1. adjacent' \subseteq Archivers \ {Self} /\ remaining' \subseteq Archivers \ {Self}
    BY <1>0, <1>11, ResetTo DEF Sync, ListsAre
  <2>2. DOMAIN reputation' = record.before
    BY <1>11 DEF Sync
  <2>3. /\ unheard' \in BOOLEAN /\ UNCHANGED <<now, timers, shouldSendRefutes, reading, checking>>
        /\ current' = Newest - 1 /\ stored' = Newest - 1 /\ phase' \in Phases /\ Newest > 0
    BY <1>11 DEF Sync, network, refuting, Phases
  <2> QED
    BY <1>0, <2>1, <2>2, <2>3
<1>12. CASE Exit
  <2>1. now' = now
    BY <1>12 DEF Exit, Hear, network
  <2> QED
    BY <1>12, <2>1 DEF Exit, lists, refuting, history, Phases
<1>13. CASE Restart
  <2>1. DOMAIN reputation' = {}
    BY <1>13 DEF Restart
  <2>2. timers' = {} /\ checking' = {} /\ adjacent' = {} /\ remaining' = {}
    BY <1>13 DEF Restart
  <2>3. /\ phase' \in Phases /\ now' = now /\ current' = 0 /\ stored' = 0
        /\ shouldSendRefutes' = FALSE /\ reading' = FALSE /\ unheard' = FALSE
    BY <1>13 DEF Restart, network, Phases
  <2>4. timers' \subseteq Int /\ \A t \in timers' : t <= now' + 1
    BY <2>2
  <2>5. /\ adjacent' \subseteq Archivers \ {Self} /\ remaining' \subseteq Archivers \ {Self}
        /\ checking' \subseteq Archivers /\ DOMAIN reputation' \subseteq Archivers
    BY <2>1, <2>2
  <2>6. stored' \in Nat /\ current' \in Nat /\ stored' <= current' /\ current' <= now' - 1
    BY <1>0, <2>3
  <2> QED
    BY <2>3, <2>4, <2>5, <2>6
<1>14. CASE CompareRecords
  <2>1. Members \subseteq Archivers
    BY ArchiverAssumption
  <2>2. CASE UNCHANGED <<lists, reputation>> /\ phase' = "start"
    BY <1>14, <2>2 DEF CompareRecords, network, lists, refuting, Phases
  <2>3. CASE /\ SetLists(Reset(Members)) /\ Neighbours(Reset(Members))
             /\ reputation' = [a \in Members |-> "up"] /\ phase' = "serving"
    <3>1. adjacent' \subseteq Archivers \ {Self} /\ remaining' \subseteq Archivers \ {Self}
      BY <2>1, <2>3, ResetTo DEF ListsAre
    <3>2. DOMAIN reputation' \subseteq Archivers
      BY <2>1, <2>3
    <3> QED
      BY <1>14, <2>3, <3>1, <3>2 DEF CompareRecords, network, refuting, Phases
  <2> QED
    BY <1>14, <2>2, <2>3 DEF CompareRecords
<1>15. CASE UNCHANGED vars
  BY <1>15 DEF vars, network, lists, refuting, starting, history
<1> QED
  BY <1>1, <1>2, <1>3, <1>4, <1>5, <1>6, <1>7, <1>8, <1>9, <1>10, <1>11, <1>12, <1>13, <1>14,
     <1>15 DEF Next

\* What ListsInv says needs no more than this of a step that keeps the lists and does not
\* come up.
LEMMA SameLists ==
  ASSUME ListsInv, UNCHANGED lists, phase' # "up"
  PROVE  ListsInv'
BY DEF ListsInv, lists, Lists, ListsOf

LEMMA SameListsUp ==
  ASSUME ListsInv, UNCHANGED <<lists, phase, current, stale, late, now, record>>,
         DOMAIN reputation' \subseteq DOMAIN reputation
  PROVE  ListsInv'
<1>1. ListsOf(Lists', Range(active'))
  BY DEF ListsInv, lists, Lists, ListsOf
<1> QED
  BY <1>1 DEF ListsInv, lists, Newest, Followed

LEMMA ListsInvariance ==
  ASSUME NetworkInv, TypesInv, ListsInv, [Next]_vars
  PROVE  ListsInv'
<1>0. now \in Nat \ {0} /\ current \in Nat /\ current <= Newest
  BY DEF NetworkInv, TypesInv
<1>1. CASE NetworkCycle
  <2>1. UNCHANGED <<active, sorted, other, adjacent, remaining, phase, current, stale, late, reputation>>
    BY <1>1 DEF NetworkCycle, lists, starting, history
  <2>2. now' = now + 1 /\ record'.before = record.members
    BY <1>1, CycleRecord DEF Recorded, NetworkCycle
  <2>3. ListsOf(Lists', Range(active'))
    BY <2>1 DEF ListsInv, Lists, ListsOf
  <2>4. phase = "up" => current = Newest
    BY <1>1 DEF NetworkCycle, Paced
  <2>5. phase = "up" => Newest' - 1 <= current' /\ Followed' = Followed
    BY <1>0, <2>1, <2>2, <2>4 DEF Newest, Followed
  <2> QED
    BY <2>1, <2>3, <2>5 DEF ListsInv
<1>2. CASE ReceiveRecord
  <2> DEFINE after == (Range(active) \cup record.joinedArchivers \cup record.refreshedArchivers)
                       \ record.leavingArchivers
  <2>1. ListsAre(after)
    BY <1>2, RecordLists
  <2>2. stale' = (stale \cup (record.removedArchivers \cap Range(active')))
                     \ (record.leavingArchivers \cup record.joinedArchivers)
    BY <1>2, RecordLists
  <2>3. /\ phase = "up" /\ current < Newest /\ current' = current + 1
        /\ now' = now /\ record' = record /\ late' = late \ record.leavingArchivers
    BY <1>2 DEF ReceiveRecord, network
  <2>4. Newest - 1 = current /\ Newest' = current'
    BY <1>0, <2>3 DEF ListsInv, Newest
  <2>5. Range(active) = stale \cup record.before /\ DOMAIN reputation \subseteq Range(active) \cup late
    BY <1>0, <2>3 DEF ListsInv, Followed
  <2>6. Range(active') = after
    BY <2>1 DEF ListsAre
  <2>7. after = stale' \cup record.members
    <3>1. /\ record.members = (record.before \cup record.joinedArchivers)
                              \ (record.leavingArchivers \cup record.removedArchivers)
          /\ record.joinedArchivers \cap record.before = {}
          /\ record.refreshedArchivers \subseteq record.before
          /\ record.removedArchivers \subseteq record.before
      BY DEF NetworkInv
    <3>2. \A a \in after : a \in stale' \/ a \in record.members
      BY <2>2, <2>5, <2>6, <3>1
    <3>3. \A a \in stale' \cup record.members : a \in after
      BY <2>2, <2>5, <2>6, <3>1
    <3> QED
      BY <3>2, <3>3
  <2>8. DOMAIN reputation' \subseteq after \cup late'
    <3>1. DOMAIN reputation' = DOMAIN reputation \ record.leavingArchivers
      BY <1>2 DEF ReceiveRecord, ReputationWithout, Restrict
    <3> QED
      BY <2>3, <2>5, <3>1
  <2> HIDE DEF after
  <2>9. Followed' = after
    BY <2>3, <2>4, <2>7 DEF Followed
  <2>10. Newest' - 1 <= current'
    BY <1>0, <2>3, <2>4
  <2> QED
    BY <2>1, <2>6, <2>8, <2>9, <2>10 DEF ListsInv, ListsAre
<1>3. CASE StoreRecord
  BY <1>3, SameListsUp DEF StoreRecord, network, starting, history
<1>4. CASE ReputationAnswers
  <2>1. /\ UNCHANGED <<active, sorted, other, adjacent, remaining, phase, current, stale, now, record>>
        /\ late' = late \cup (checking \ Range(active))
    BY <1>4 DEF ReputationAnswers, network, lists, starting
  <2>2. ListsOf(Lists', Range(active'))
    BY <2>1 DEF ListsInv, Lists, ListsOf
  <2>3. Followed' = Followed /\ Newest' = Newest
    BY <2>1 DEF Followed, Newest
  <2>4. phase = "up" => DOMAIN reputation' \subseteq Range(active) \cup late'
    BY <1>4, <2>1, Answers DEF ListsInv
  <2> QED
    BY <2>1, <2>2, <2>3, <2>4 DEF ListsInv
<1>5. CASE ScheduleRefute
  BY <1>5, SameListsUp DEF ScheduleRefute, network, starting, history
<1>6. CASE SendRefute
  BY <1>6, SameListsUp DEF SendRefute, Hear, network, starting
<1>7. CASE Discover
  <2>1. phase' # "up"
    BY <1>7 DEF Discover
  <2>2. CASE phase' = "exited" /\ UNCHANGED <<active, sorted, other>>
    BY <1>7, <2>1, <2>2, SameLists DEF Discover, lists
  <2>3. ASSUME NEW found \in SUBSET (Archivers \ {Self}), SetLists(Added(NoArchivers, found))
        PROVE  ListsOf(Lists', Range(active'))
    <3>1. ListsOf(Added(NoArchivers, found), {} \cup found)
      BY AddedLists, NoLists
    <3> QED
      BY <2>3, <3>1, SettingListsAlone
  <2> QED
    BY <1>7, <2>1, <2>2, <2>3 DEF Discover, ListsInv
<1>8. CASE AskJoined
  BY <1>8, SameLists DEF AskJoined
<1>9. CASE SubmitJoin
  BY <1>9, SameLists DEF SubmitJoin
<1>10. CASE AskAgain
  BY <1>10, SameLists DEF AskAgain
<1>11. CASE Sync
  <2>1. /\ current' = Newest - 1 /\ now' = now /\ record' = record /\ stale' = {}
        /\ reputation' = [a \in record.before |-> "up"]
    BY <1>11 DEF Sync, network
  <2>2. ListsAre(record.before)
    BY <1>11, ResetTo DEF Sync, NetworkInv
  <2>3. Newest' - 1 <= current' /\ current' # Newest'
    BY <1>0, <2>1 DEF Newest
  <2>4. Followed' = record.before
    BY <2>1, <2>3 DEF Followed
  <2>5. Range(active') = record.before /\ DOMAIN reputation' = record.before
    BY <2>1, <2>2 DEF ListsAre
  <2> QED
    BY <2>2, <2>3, <2>4, <2>5 DEF ListsInv, ListsAre
<1>12. CASE Exit
  BY <1>12, SameLists DEF Exit
<1>13. CASE Restart
  BY <1>13, NoLists, SettingListsAlone DEF Restart, ListsInv
<1>14. CASE CompareRecords
  <2>1. CASE UNCHANGED lists /\ phase' = "start"
    BY <2>1, SameLists
  <2>2. CASE /\ SetLists(Reset(Members)) /\ Neighbours(Reset(Members)) /\ phase' = "serving"
    <3>1. ListsAre(Members)
      BY <2>2, ResetTo, ArchiverAssumption
    <3> QED
      BY <2>2, <3>1 DEF ListsAre, ListsInv
  <2> QED
    BY <1>14, <2>1, <2>2 DEF CompareRecords
<1>15. CASE UNCHANGED vars
  BY <1>15, SameListsUp DEF vars, network, starting, history
<1> QED
  BY <1>1, <1>2, <1>3, <1>4, <1>5, <1>6, <1>7, <1>8, <1>9, <1>10, <1>11, <1>12, <1>13, <1>14,
     <1>15 DEF Next

-----------------------------------------------------------------------------
(* Refutes *)

\* A step keeps Refuting if it leaves the network and the counter, and what is under way.
LEMMA StillRefuting ==
  ASSUME NetworkInv, Refuting, UNCHANGED <<now, record, lostIn, current>>,
         shouldSendRefutes = TRUE => shouldSendRefutes' = TRUE,
         heard.refute = TRUE => heard'.refute = TRUE,
         reading = TRUE => \/ reading' = TRUE
                           \/ \E t \in timers' : t <= now + 1,
         \A t \in timers : \/ t \in timers'
                           \/ heard'.refute = TRUE
  PROVE  Refuting'
BY DEF Refuting, Newest

\* Requests other than a refute leave what is known of it.
LEMMA Heard ==
  ASSUME NetworkInv, NEW request \in {"join", "leave", "refute"}, Hear(request)
  PROVE  /\ heard.refute = TRUE => heard'.refute = TRUE
         /\ request = "refute" => heard'.refute = TRUE
<1>1. heard' = [heard EXCEPT ![request] = TRUE]
  BY DEF Hear
<1>2. CASE request = "refute"
  BY <1>1, <1>2 DEF NetworkInv
<1>3. CASE request = "leave"
  BY <1>1, <1>3 DEF NetworkInv
<1>4. CASE request = "join"
  BY <1>1, <1>4 DEF NetworkInv
<1> QED
  BY <1>2, <1>3, <1>4

\* The end of a cycle: a refute that was due is sent, and one that was heard is taken in.
LEMMA CycleRefuting ==
  ASSUME Patience >= 2, NetworkInv, TypesInv, ListsInv, Refuting, phase = "up", NetworkCycle
  PROVE  Refuting'
<1>1. PICK joined, leaving, refreshed, lost, refuted, removed :
         /\ Recorded(joined, leaving, refreshed, lost, refuted, removed)
         /\ Missing(leaving, lost, refuted, removed)
         /\ joined \subseteq Archivers /\ joined \cap record.members = {}
         /\ refreshed \subseteq record.members
         /\ refuted = (IF heard.refute THEN {Self} ELSE {}) \cap DOMAIN lostIn
         /\ removed = {a \in DOMAIN lostIn : lostIn[a] + Patience <= now} \ refuted
         /\ lost \subseteq record.members /\ lost \cap (DOMAIN lostIn \cup leaving) = {}
  BY CycleRecord
<1>2. /\ current = now - 1 /\ reading = FALSE /\ \A t \in timers : t \in Int /\ t > now
      /\ now' = now + 1 /\ UNCHANGED <<current, shouldSendRefutes, reading, timers>>
      /\ now \in Nat \ {0} /\ current \in Nat
  BY DEF NetworkCycle, Paced, Newest, TypesInv, NetworkInv, refuting
<1>3. Newest = now - 1 /\ Newest' = now
  BY <1>2 DEF Newest
<1>4. /\ DOMAIN lostIn' = (DOMAIN lostIn \cup lost) \ (refuted \cup removed \cup leaving)
      /\ \A a \in DOMAIN lostIn' : lostIn'[a] = IF a \in lost THEN now ELSE lostIn[a]
  BY <1>1 DEF Missing
<1>5. \A a \in DOMAIN lostIn : lostIn[a] \in Nat /\ Patience \in Nat
  BY ArchiverAssumption DEF NetworkInv
<1>6. Self \in DOMAIN lostIn =>
        \/ heard.refute = TRUE
        \/ /\ lostIn[Self] = now - 1 /\ shouldSendRefutes = TRUE
           /\ \E t \in timers : t <= now + 1
  <2> SUFFICES ASSUME Self \in DOMAIN lostIn, heard.refute # TRUE
               PROVE  /\ lostIn[Self] = now - 1 /\ shouldSendRefutes = TRUE
                      /\ \E t \in timers : t <= now + 1
    OBVIOUS
  <2>1. ~(\E t \in timers : t <= now) /\ current # Newest - 1 /\ reading # TRUE
    <3>1. \A t \in timers : ~(t <= now)
      BY <1>2
    <3>2. current # Newest - 1
      BY <1>2, <1>3
    <3>3. reading # TRUE
      BY <1>2
    <3> QED
      BY <3>1, <3>2, <3>3
  <2>2. \/ lostIn[Self] = Newest /\ current = Newest - 1
        \/ /\ lostIn[Self] = Newest /\ current = Newest /\ shouldSendRefutes = TRUE
           /\ reading = TRUE \/ heard.refute = TRUE \/ \E t \in timers : t <= now + 1
        \/ /\ lostIn[Self] = Newest - 1 /\ shouldSendRefutes = TRUE
           /\ heard.refute = TRUE \/ \E t \in timers : t <= now
    BY DEF Refuting
  <2> QED
    BY <1>3, <2>1, <2>2
<1>7. Self \notin record'.removedArchivers
  <2>1. Self \in DOMAIN lostIn => Self \in refuted \/ lostIn[Self] = now - 1
    BY <1>1, <1>6
  <2>2. Self \notin removed
    BY <1>1, <1>2, <1>5, <2>1
  <2> QED
    BY <1>1, <2>2 DEF Recorded
<1>8. ASSUME Self \in DOMAIN lostIn'
      PROVE  \/ lostIn'[Self] = Newest' /\ current' = Newest' - 1
             \/ /\ lostIn'[Self] = Newest' - 1 /\ shouldSendRefutes' = TRUE
                /\ heard'.refute = TRUE \/ \E t \in timers' : t <= now'
  <2>1. CASE Self \in lost
    BY <1>2, <1>3, <1>4, <1>8, <2>1
  <2>2. CASE Self \notin lost
    <3>1. Self \in DOMAIN lostIn /\ Self \notin refuted
      BY <1>4, <1>8, <2>2
    <3>2. heard.refute # TRUE
      BY <1>1, <3>1
    <3>3. /\ lostIn[Self] = now - 1 /\ shouldSendRefutes = TRUE
          /\ \E t \in timers : t <= now + 1
      BY <1>6, <3>1, <3>2
    <3> QED
      BY <1>2, <1>3, <1>4, <1>8, <2>2, <3>3
  <2> QED
    BY <2>1, <2>2
<1> QED
  BY <1>7, <1>8 DEF Refuting

\* A record that reports this archiver lost makes it schedule a refute.
LEMMA RecordRefuting ==
  ASSUME NetworkInv, TypesInv, ListsInv, Refuting, phase = "up", ReceiveRecord
  PROVE  Refuting'
<1>1. /\ UNCHANGED <<now, record, lostIn, heard, timers>> /\ current < Newest
      /\ current' = current + 1 /\ HandleLostArchivers
  BY DEF ReceiveRecord, network
<1>2. /\ now \in Nat \ {0} /\ current \in Nat /\ Newest = now - 1
      /\ current = Newest - 1 /\ Newest' = Newest
  BY <1>1 DEF NetworkInv, TypesInv, ListsInv, Newest
<1>3. CASE Self \notin DOMAIN lostIn
  BY <1>1, <1>3 DEF Refuting
<1>4. CASE Self \in DOMAIN lostIn
  <2>1. Self \notin record.refutedArchivers
    BY <1>4 DEF NetworkInv
  <2>2. CASE lostIn[Self] = Newest
    <3>1. Self \in record.lostArchivers
      BY <1>4, <2>2 DEF NetworkInv
    <3>2. shouldSendRefutes' = TRUE /\ reading' = TRUE
      BY <1>1, <2>1, <3>1 DEF HandleLostArchivers
    <3>3. Self \notin record'.removedArchivers
      BY <1>1 DEF Refuting
    <3>4. lostIn'[Self] = Newest' /\ current' = Newest'
      BY <1>1, <1>2, <2>2
    <3> QED
      BY <3>2, <3>3, <3>4 DEF Refuting
  <2>3. CASE lostIn[Self] # Newest
    <3>1. Self \notin record.lostArchivers
      BY <2>3 DEF NetworkInv
    <3>2. shouldSendRefutes' = shouldSendRefutes
      BY <1>1, <2>1, <3>1 DEF HandleLostArchivers
    <3> QED
      BY <1>1, <1>2, <1>4, <2>3, <3>2 DEF Refuting
  <2> QED
    BY <2>2, <2>3
<1> QED
  BY <1>3, <1>4

LEMMA RefutesInvariance ==
  ASSUME Patience >= 2, NetworkInv, TypesInv, ListsInv, RefutesInv, [Next]_vars
  PROVE  RefutesInv'
<1> SUFFICES ASSUME phase' = "up", unheard' = FALSE
             PROVE  Refuting'
  BY DEF RefutesInv
<1>0. now \in Nat \ {0} /\ \A t \in timers : t \in Int /\ t <= now + 1
  BY DEF NetworkInv, TypesInv
<1>1. CASE NetworkCycle
  <2>1. UNCHANGED <<phase, unheard>>
    BY <1>1 DEF NetworkCycle, starting, history
  <2> QED
    BY <1>1, <2>1, CycleRefuting DEF RefutesInv
<1>2. CASE ReceiveRecord
  <2>1. phase = "up" /\ UNCHANGED unheard
    BY <1>2 DEF ReceiveRecord
  <2> QED
    BY <1>2, <2>1, RecordRefuting DEF RefutesInv
<1>3. CASE StoreRecord
  <2>1. UNCHANGED <<phase, unheard, now, record, lostIn, current, shouldSendRefutes, heard, reading, timers>>
    BY <1>3 DEF StoreRecord, network, refuting, starting, history
  <2> QED
    BY <2>1, StillRefuting DEF RefutesInv
<1>4. CASE ReputationAnswers
  <2>1. UNCHANGED <<phase, unheard, now, record, lostIn, current, shouldSendRefutes, heard, reading, timers>>
    BY <1>4 DEF ReputationAnswers, network, refuting, starting
  <2> QED
    BY <2>1, StillRefuting DEF RefutesInv
<1>5. CASE ScheduleRefute
  <2>1. /\ UNCHANGED <<phase, unheard, now, record, lostIn, current, shouldSendRefutes, heard>>
        /\ timers' = timers \cup {stored + 2}
    BY <1>5 DEF ScheduleRefute, Due, network, starting, history
  <2>2. stored + 2 <= now + 1
    BY <1>0 DEF TypesInv, Newest
  <2> QED
    BY <2>1, <2>2, StillRefuting DEF RefutesInv
<1>6. CASE SendRefute
  <2>1. /\ UNCHANGED <<phase, now, record, lostIn, current, shouldSendRefutes, reading>>
    BY <1>6 DEF SendRefute, Hear, network, starting
  <2>2. CASE shouldSendRefutes = TRUE
    <3>1. Hear("refute") /\ UNCHANGED unheard
      BY <1>6, <2>2 DEF SendRefute
    <3>2. heard'.refute = TRUE
      BY <3>1, Heard
    <3> QED
      BY <2>1, <3>1, <3>2, StillRefuting DEF RefutesInv
  <2>3. CASE shouldSendRefutes # TRUE
    <3>1. shouldSendRefutes = FALSE
      BY <2>3 DEF TypesInv
    <3>2. UNCHANGED <<heard, unheard>>
      BY <1>6, <3>1 DEF SendRefute, network
    <3> QED
      BY <2>1, <2>3, <3>2 DEF RefutesInv, Refuting, Newest
  <2> QED
    BY <2>2, <2>3
<1>7. CASE Sync
  <2>1. /\ UNCHANGED <<now, record, lostIn>> /\ current' = Newest - 1
        /\ Self \notin (DOMAIN lostIn \cup record.removedArchivers) \ record.lostArchivers
    BY <1>7 DEF Sync, network
  <2>2. Newest' = Newest
    BY <2>1 DEF Newest
  <2>3. /\ record.lostArchivers = {a \in DOMAIN lostIn : lostIn[a] = Newest}
        /\ record.removedArchivers \cap DOMAIN lostIn = {}
    <3>1. record.removedArchivers \cap record.members = {}
      BY DEF NetworkInv
    <3> QED
      BY <3>1 DEF NetworkInv
  <2>4. Self \notin record.removedArchivers
    BY <2>1, <2>3
  <2>5. Self \in DOMAIN lostIn => lostIn[Self] = Newest
    BY <2>1, <2>3
  <2> QED
    BY <2>1, <2>2, <2>4, <2>5 DEF Refuting
<1>8. CASE Discover \/ AskJoined \/ SubmitJoin \/ AskAgain \/ Exit \/ Restart \/ CompareRecords
  BY <1>8 DEF Discover, AskJoined, SubmitJoin, AskAgain, Exit, Restart, CompareRecords
<1>9. CASE UNCHANGED vars
  <2>1. UNCHANGED <<phase, unheard, now, record, lostIn, current, shouldSendRefutes, heard, reading, timers>>
    BY <1>9 DEF vars, network, refuting, starting, history
  <2> QED
    BY <2>1, StillRefuting DEF RefutesInv
<1> QED
  BY <1>1, <1>2, <1>3, <1>4, <1>5, <1>6, <1>7, <1>8, <1>9 DEF Next

-----------------------------------------------------------------------------
(* Theorems *)

LEMMA Initially ==
  ASSUME Init
  PROVE  NetworkInv /\ TypesInv /\ ListsInv /\ RefutesInv
<1>1. DOMAIN <<>> = {}
  OBVIOUS
<1>2. /\ now = 1 /\ lostIn = <<>> /\ heard = NoRequest /\ Newest = 0
      /\ record.joinedArchivers = {} /\ record.leavingArchivers = {}
      /\ record.refreshedArchivers = {} /\ record.lostArchivers = {}
      /\ record.refutedArchivers = {} /\ record.removedArchivers = {}
      /\ record.before = Members /\ record.members = Members
  BY DEF Init, Newest
<1>3. phase \in {"start", "compare"} /\ phase # "up"
  BY ArchiverAssumption DEF Init
<1>4. NetworkInv
  <2>1. Members \subseteq Archivers
    BY ArchiverAssumption
  <2>2. NoRequest \in [join : BOOLEAN, leave : BOOLEAN, refute : BOOLEAN]
    BY DEF NoRequest
  <2>3. DOMAIN lostIn = {}
    BY <1>1, <1>2
  <2>4. record.lostArchivers = {a \in DOMAIN lostIn : lostIn[a] = Newest}
    BY <1>2, <2>3
  <2> QED
    BY <1>2, <2>1, <2>2, <2>3, <2>4 DEF NetworkInv
<1>5. TypesInv
  <2>1. DOMAIN reputation = {} /\ timers = {} /\ checking = {} /\ adjacent = {} /\ remaining = {}
    BY <1>1 DEF Init
  <2>2. timers \subseteq Int /\ \A t \in timers : t <= now + 1
    BY <2>1
  <2>3. /\ stored = 0 /\ current = 0 /\ Newest = 0
        /\ shouldSendRefutes = FALSE /\ reading = FALSE /\ unheard = FALSE
    BY <1>2 DEF Init
  <2>4. phase \in Phases
    BY <1>3 DEF Phases
  <2>5. stored \in Nat /\ current \in Nat /\ stored <= current /\ current <= Newest
    BY <2>3
  <2>6. shouldSendRefutes \in BOOLEAN /\ reading \in BOOLEAN /\ unheard \in BOOLEAN
    BY <2>3
  <2>7. /\ adjacent \subseteq Archivers \ {Self} /\ remaining \subseteq Archivers \ {Self}
        /\ checking \subseteq Archivers /\ DOMAIN reputation \subseteq Archivers
    BY <2>1
  <2> QED
    BY <2>2, <2>4, <2>5, <2>6, <2>7 DEF TypesInv
<1>6. ListsInv
  <2>1. ListsOf(Lists, {}) /\ Range(active) = {}
    BY NoLists DEF Init, Lists, NoArchivers, ListsOf
  <2> QED
    BY <1>3, <2>1 DEF ListsInv
<1>7. RefutesInv
  BY <1>3 DEF RefutesInv
<1> QED
  BY <1>4, <1>5, <1>6, <1>7

\* The lists follow the records, whatever the patience of the network.
LEMMA ListsAlways == Spec => [](NetworkInv /\ TypesInv /\ ListsInv)
<1>1. Init => NetworkInv /\ TypesInv /\ ListsInv
  BY Initially
<1>2. NetworkInv /\ TypesInv /\ ListsInv /\ [Next]_vars => (NetworkInv /\ TypesInv /\ ListsInv)'
  BY NetworkInvariance, TypesInvariance, ListsInvariance
<1> QED
  BY <1>1, <1>2, PTL DEF Spec

LEMMA Typed ==
  ASSUME NetworkInv, TypesInv, ListsInv
  PROVE  TypeOK
<1>1. ListsOf(Lists, Range(active))
  BY DEF ListsInv
<1>2. Range(active) \subseteq Archivers /\ Self \notin Range(other)
  <2>1. active \in Seq(Archivers) /\ Range(other) = Range(active) \ {Self}
    BY <1>1 DEF ListsOf, Lists
  <2>2. Range(active) \subseteq Archivers
    BY <2>1 DEF Range
  <2> QED
    BY <2>1, <2>2
<1> QED
  BY <1>2 DEF TypesInv, TypeOK, Phases

\* TracksArchivers for any archivers, changes, patience and number of cycles: what an
\* archiver that is up has in its lists and reputations (updateNodeList, addArchiver,
\* removeActiveArchiver, resetActiveArchivers, recordArchiversReputation) is what the
\* records that it has processed say.
THEOREM TracksArchiversHolds == Spec => []TracksArchivers
<1>1. ASSUME NetworkInv, TypesInv, ListsInv PROVE TracksArchivers
  <2>1. TypeOK
    BY <1>1, Typed
  <2>2. ASSUME phase = "up"
        PROVE  /\ Range(active) = Followed
               /\ DOMAIN reputation \subseteq Range(active) \cup late
    BY <1>1, <2>2 DEF ListsInv
  <2>3. /\ Range(sorted) = Range(active) /\ Range(other) = Range(active) \ {Self}
        /\ IsInjective(active) /\ IsInjective(other) /\ Sorted(sorted)
    BY <1>1 DEF ListsInv, ListsOf, Lists
  <2> QED
    BY <2>1, <2>2, <2>3 DEF TracksArchivers, Followed, Sorted
<1>2. NetworkInv /\ TypesInv /\ ListsInv => TracksArchivers
  BY <1>1
<1> QED
  BY <1>2, ListsAlways, PTL

\* GossipConnects for any archivers: neighbours of getAdjacentLeftAndRightArchivers take
\* what one archiver sends to all of them.
THEOREM GossipConnectsHolds == Spec => []GossipConnects
<1>1. ASSUME NetworkInv, TypesInv, ListsInv PROVE GossipConnects
  <2> SUFFICES ASSUME phase = "up", Len(active) > 1
               PROVE  /\ adjacent \cup remaining = Range(other) /\ adjacent \cap remaining = {}
                      /\ \A reached \in SUBSET Range(sorted) :
                           reached \in {{}, Range(sorted)} \/
                           \E a \in reached, b \in Range(sorted) \ reached : b \in Adjacent(sorted, a)
    BY DEF GossipConnects
  <2>1. /\ active \in Seq(Archivers) /\ sorted \in Seq(Archivers) /\ IsInjective(active)
        /\ Range(sorted) = Range(active) /\ Range(other) = Range(active) \ {Self}
        /\ Sorted(sorted)
    BY <1>1 DEF ListsInv, ListsOf, Lists
  <2>2. IsInjective(sorted) /\ Len(sorted) > 1
    BY <2>1, SortedInjective, LongEnough
  <2>3. adjacent = Adjacent(sorted, Self) /\ remaining = Range(other) \ adjacent
    BY <1>1 DEF ListsInv
  <2>4. adjacent \subseteq Range(other)
    BY <2>1, <2>2, <2>3, AdjacentOthers
  <2>5. ASSUME NEW reached \in SUBSET Range(sorted), reached \notin {{}, Range(sorted)}
        PROVE  \E a \in reached, b \in Range(sorted) \ reached : b \in Adjacent(sorted, a)
    BY <2>1, <2>2, <2>5, Connected
  <2> QED
    BY <2>3, <2>4, <2>5
<1>2. NetworkInv /\ TypesInv /\ ListsInv => GossipConnects
  BY <1>1
<1> QED
  BY <1>2, ListsAlways, PTL

\* RefutedInTime for any network that waits for two cycles or more after it has reported
\* an archiver lost (handleLostArchivers, scheduleRefute, sendRefute).
THEOREM RefutedInTimeHolds ==
  ASSUME Patience >= 2
  PROVE  Spec => []RefutedInTime
<1>1. Init => NetworkInv /\ TypesInv /\ ListsInv /\ RefutesInv
  BY Initially
<1>2. NetworkInv /\ TypesInv /\ ListsInv /\ RefutesInv /\ [Next]_vars
        => (NetworkInv /\ TypesInv /\ ListsInv /\ RefutesInv)'
  BY NetworkInvariance, TypesInvariance, ListsInvariance, RefutesInvariance
<1>3. NetworkInv /\ TypesInv /\ ListsInv /\ RefutesInv => RefutedInTime
  BY DEF TypesInv, RefutesInv, RefutedInTime, Refuting
<1> QED
  BY <1>1, <1>2, <1>3, PTL DEF Spec

=============================================================================
