-------------------------- MODULE ShardFunctions --------------------------
(***************************************************************************)
(* The part of ShardFunctions.ts the archiver uses: how the active nodes   *)
(* of a cycle divide the addresses into as many partitions, and which of   *)
(* them execute the transactions of a partition.                           *)
(*                                                                         *)
(* A node is its index in the list of active nodes sorted by id, which is  *)
(* its home partition, and an address is the number its first 32 bits      *)
(* make.  The address ranges of partitions, the lists per node that are    *)
(* only kept for debugging and the functions nothing calls are left out.   *)
(***************************************************************************)
EXTENDS Integers, FiniteSetsExt

CONSTANT AddressSpace   \* 2^32

ASSUME AddressSpaceAssumption == AddressSpace \in Nat \ {0}

(* calculateShardGlobals throws for a group of one node. *)
OddSize(groupSize) == IF groupSize % 2 = 0 THEN groupSize + 1 ELSE groupSize

ShardGlobals(numNodes, groupSize, edge) ==
  [numPartitions |-> numNodes,
   nodesPerConsenusGroup |-> OddSize(groupSize),
   consensusRadius |-> (OddSize(groupSize) - 1) \div 2,
   nodesPerEdge |-> edge]

Partitions(g) == 0..(g.numPartitions - 1)
StoreRadius(g) == g.consensusRadius + g.nodesPerEdge

\* Math.round(AddressSpace / numPartitions).
PartitionSize(g) == (2 * AddressSpace + g.numPartitions) \div (2 * g.numPartitions)

\* addressToPartition and addressNumberToPartition.
AddressToPartition(g, address) ==
  LET home == address \div PartitionSize(g)
  IN IF home = g.numPartitions THEN home - 1 ELSE home

-----------------------------------------------------------------------------
(* Ranges of partitions that may wrap around *)

WholeRange(g) ==
  [partitionStart |-> 0, partitionEnd |-> g.numPartitions - 1, rangeIsSplit |-> FALSE]

\* Wrong on purpose: a range that wraps past the last partition is cut off there.
WrappedRangeCut(g, start, end) ==
  LET first == IF start < 0 THEN start + g.numPartitions ELSE start
      last == IF end >= g.numPartitions THEN g.numPartitions - 1 ELSE end
  IN IF last < first /\ last + 1 = first
       THEN WholeRange(g)
       ELSE [partitionStart |-> first, partitionEnd |-> last, rangeIsSplit |-> last < first]

\* calculatePartitionRangeInternal: a range that leaves the partitions at one end is
\* split in two, unless the two meet.
WrappedRange(g, start, end) ==
  LET first == IF start < 0 THEN start + g.numPartitions ELSE start
      last == IF end >= g.numPartitions THEN end - g.numPartitions ELSE end
  IN IF last < first /\ last + 1 = first
       THEN WholeRange(g)
       ELSE [partitionStart |-> first, partitionEnd |-> last, rangeIsSplit |-> last < first]

\* calculateParitionRange.
PartitionRange(g, home, radius) ==
  IF g.numPartitions <= 2 * radius
    THEN WholeRange(g)
    ELSE WrappedRange(g, home - radius, home + radius)

StoredPartitions(g, home) == PartitionRange(g, home, StoreRadius(g))
ConsensusPartitions(g, home) == PartitionRange(g, home, g.consensusRadius)

\* testInRange.
InRange(partition, range) ==
  IF range.rangeIsSplit
    THEN partition <= range.partitionEnd \/ partition >= range.partitionStart
    ELSE partition \in range.partitionStart..range.partitionEnd

-----------------------------------------------------------------------------
(* The nodes around a node, and the partitions it covers *)

\* The partitions getCombinedNodeLists looks at, in its order: from the start of the
\* stored range, each at most once.
Scan(g, home) ==
  LET width == 2 * StoreRadius(g) + 1
      scanned == IF width > g.numPartitions THEN g.numPartitions ELSE width
  IN [i \in 1..scanned |-> (home - StoreRadius(g) + i - 1) % g.numPartitions]

\* The places of consensusNodeForOurNodeFull in the scan.
ConsensusPlaces(g, home) ==
  {i \in DOMAIN Scan(g, home) :
     Scan(g, home)[i] = home \/ InRange(Scan(g, home)[i], ConsensusPartitions(g, home))}

\* consensusStartPartition and consensusEndPartition: those of the first and of the last
\* node of the list.
ConsensusSpan(g, home) ==
  LET places == ConsensusPlaces(g, home)
  IN IF Cardinality(places) >= 2
       THEN [first |-> Scan(g, home)[Min(places)], last |-> Scan(g, home)[Max(places)]]
       ELSE [first |-> home, last |-> home]

\* computeExtendedNodePartitionData: the partitions where this node enters coveredBy ...
Covers(g, home) ==
  LET span == ConsensusSpan(g, home)
  IN IF span.first <= span.last
       THEN span.first..span.last
       ELSE 0..span.last \cup span.first..(g.numPartitions - 1)

\* ... and those where it enters storedBy.
Stores(g, home) ==
  LET range == StoredPartitions(g, home)
  IN IF range.rangeIsSplit
       THEN 0..range.partitionEnd \cup range.partitionStart..(g.numPartitions - 1)
       ELSE range.partitionStart..range.partitionEnd

CoveredBy(g, partition) == {h \in Partitions(g) : partition \in Covers(g, h)}
StoredBy(g, partition) == {h \in Partitions(g) : partition \in Stores(g, h)}

-----------------------------------------------------------------------------
(* What these are meant to be: the nodes within a distance on the ring *)

Distance(g, p, q) ==
  LET apart == IF p > q THEN p - q ELSE q - p
  IN IF 2 * apart > g.numPartitions THEN g.numPartitions - apart ELSE apart

Within(g, partition, radius) == {h \in Partitions(g) : Distance(g, h, partition) <= radius}

\* The scan starts inside the consensus range, after its start: in networks with more
\* nodes than the consensus group, but fewer than the stored range would have.
ScanStartsInside(g) ==
  LET first == Scan(g, 0)[1]
  IN /\ g.numPartitions > g.nodesPerConsenusGroup
     /\ first # g.numPartitions - g.consensusRadius
     /\ Distance(g, 0, first) <= g.consensusRadius
=============================================================================
