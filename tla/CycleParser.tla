---------------------------- MODULE CycleParser ----------------------------
(***************************************************************************)
(* ChangeSquasher, parse and applyNodeListChange of CycleParser.ts: node   *)
(* lists rebuilt from cycle records read newest first, while no node is    *)
(* listed.  Of the orders in a record only the one its three parts are     *)
(* looked at in matters.                                                   *)
(***************************************************************************)
EXTENDS NodeList

\* parseRecord: a refreshed node gets an update that makes it active; nodes lost after
\* their selection are not among the removed.
parse(record) ==
  [added |-> record.joinedConsensors,
   removed |-> record.apoptosized \cup record.removed,
   updated |-> record.activated \cup record.refreshedConsensors]

EmptySquasher == [added |-> {}, updated |-> {}, removedIds |-> {}, seenUpdates |-> {}]

\* Wrong on purpose: forgets the ids that newer records removed.
addChangeUnremoved(squasher, change) ==
  LET seen == squasher.seenUpdates \cup (change.updated \ change.removed)
      added == change.added \ (squasher.added \cup change.removed)
  IN [added |-> squasher.added \cup added,
      updated |-> squasher.updated \cup (added \cap seen),
      removedIds |-> change.removed,
      seenUpdates |-> seen \ added]

\* The updates of nodes wait in seenUpdates until the record that adds them is met.
addChange(squasher, change) ==
  LET removed == squasher.removedIds \cup change.removed
      seen == squasher.seenUpdates \cup (change.updated \ removed)
      added == change.added \ (squasher.added \cup removed)
  IN [added |-> squasher.added \cup added,
      updated |-> squasher.updated \cup (added \cap seen),
      removedIds |-> removed,
      seenUpdates |-> seen \ added]

activeNodeCount(cycle) ==
  cycle.active + Cardinality(cycle.activated) - Cardinality(cycle.apoptosized)
    - Cardinality(cycle.removed) - Cardinality(cycle.lost)

totalNodeCount(cycle) ==
  cycle.syncing + Cardinality(cycle.joinedConsensors) + cycle.active
    - Cardinality(cycle.apoptosized) - Cardinality(cycle.removed)

\* The squasher holds as many nodes as the newest record counts.
Complete(squasher, cycle) ==
  /\ Cardinality(squasher.updated) >= activeNodeCount(cycle)
  /\ Cardinality(squasher.added) >= totalNodeCount(cycle)

\* A node's key is its id here: an id is assigned once, and no node is listed twice.
Keyed(ids) == [id \in ids |-> id]
applyNodeListChange(lists, squasher) ==
  LET added == addSyncingNodes(lists, Keyed(squasher.added))
  IN setActive(added, KeysOf(added, squasher.updated))
=============================================================================
