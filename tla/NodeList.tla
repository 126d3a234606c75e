----------------------------- MODULE NodeList -----------------------------
(***************************************************************************)
(* The node lists of NodeList.ts and their operations, as operators from   *)
(* lists to lists.  A node is its public key; its id is assigned when it   *)
(* joins the network.  The objects the maps share per public key are the   *)
(* ids in byPublicKey, so that an id assigned in place is seen by every    *)
(* list at once, the sorted array included.                                *)
(*                                                                         *)
(* A batch of nodes is a set, or a function from public keys to ids: the   *)
(* order within a batch only matters to the array once it is out of order. *)
(***************************************************************************)
EXTENDS Integers, SequencesExt

CONSTANTS NoId      \* undefined: the first node is listed before it has an id

EmptyLists == [
  standby |-> {}, syncing |-> {}, active |-> {},
  byPublicKey |-> <<>>,           \* public key -> id, of syncing and active nodes
  byId |-> <<>>,                  \* id -> public key
  activeListByIdSorted |-> <<>>]  \* public keys

\* byAscendingNodeId: comparing with undefined is never true.
Greater(a, b) == a # NoId /\ b # NoId /\ a > b

\* Utils.insertSorted: the binary search between two indices never stops early, since
\* the comparator never returns 0.
InsertSorted(ids, seq, pk) ==
  LET position[between \in (1..(Len(seq) + 1)) \X (0..Len(seq))] ==
        LET m == between[1]
            n == between[2]
            k == (m + n) \div 2
        IN IF m > n THEN m
           ELSE IF Greater(ids[pk], ids[seq[k]]) THEN position[<<k + 1, n>>]
                                                 ELSE position[<<m, k - 1>>]
  IN InsertAt(seq, position[<<1, Len(seq)>>], pk)

InsertAllSorted(ids, seq, pks) ==
  FoldSet(LAMBDA pk, sorted : InsertSorted(ids, sorted, pk), seq, pks)

\* Wrong on purpose: assigns ids in place without entering them in byId.
IdentifiedUnmapped(lists, nodes) ==
  LET given == {pk \in DOMAIN nodes : nodes[pk] # NoId}
      added == DOMAIN nodes \ DOMAIN lists.byPublicKey
  IN [lists EXCEPT
       !.byPublicKey = [pk \in DOMAIN @ \cup DOMAIN nodes |->
                          IF pk \in given \/ pk \notin DOMAIN @ THEN nodes[pk] ELSE @[pk]],
       !.byId = [id \in DOMAIN @ \cup {nodes[pk] : pk \in given \cap added} |->
                   IF \E pk \in given : nodes[pk] = id
                     THEN CHOOSE pk \in given : nodes[pk] = id
                     ELSE @[id]]]

\* Wrong on purpose: enters a node's id in byId as its key.
IdentifiedByItself(lists, nodes) ==
  LET given == {pk \in DOMAIN nodes : nodes[pk] # NoId}
  IN [lists EXCEPT
       !.byPublicKey = [pk \in DOMAIN @ \cup DOMAIN nodes |->
                          IF pk \in given \/ pk \notin DOMAIN @ THEN nodes[pk] ELSE @[pk]],
       !.byId = [id \in DOMAIN @ \cup {nodes[pk] : pk \in given} |-> id]]

\* The array without some nodes: a filter, written out since no prover knows SelectSeq.
Without(seq, pks) ==
  LET kept[i \in 0..Len(seq)] ==
        IF i = 0 THEN <<>>
        ELSE IF seq[i] \in pks THEN kept[i - 1] ELSE Append(kept[i - 1], seq[i])
  IN kept[Len(seq)]

WithoutIds(ids, seq, gone) == Without(seq, {pk \in Range(seq) : ids[pk] \in gone})

\* The map of nodes after the nodes of a batch were added where missing and their ids,
\* where given, assigned in place.
Identified(lists, nodes) ==
  LET given == {pk \in DOMAIN nodes : nodes[pk] # NoId}
  IN [lists EXCEPT
       !.byPublicKey = [pk \in DOMAIN @ \cup DOMAIN nodes |->
                          IF pk \in given \/ pk \notin DOMAIN @ THEN nodes[pk] ELSE @[pk]],
       !.byId = [id \in DOMAIN @ \cup {nodes[pk] : pk \in given} |->
                   IF \E pk \in given : nodes[pk] = id
                     THEN CHOOSE pk \in given : nodes[pk] = id
                     ELSE @[id]]]

\* The two cases of the switch that addNodes and setStatus share.
ToSyncing(lists, pks) ==
  [lists EXCEPT !.standby = @ \ pks,
                !.active = @ \ pks,
                !.activeListByIdSorted = Without(@, pks),
                !.syncing = @ \cup pks]

\* Wrong on purpose: pushes activated nodes at the end of the array.
ToActivePushed(lists, pks) ==
  [lists EXCEPT !.standby = @ \ pks,
                !.syncing = @ \ pks,
                !.active = @ \cup pks,
                !.activeListByIdSorted = @ \o SetToSeq(pks \ lists.active)]

ToActive(lists, pks) ==
  [lists EXCEPT !.standby = @ \ pks,
                !.syncing = @ \ pks,
                !.active = @ \cup pks,
                !.activeListByIdSorted =
                   InsertAllSorted(lists.byPublicKey, @, pks \ lists.active)]

Unlisted(lists, nodes) == DOMAIN nodes \ DOMAIN lists.byPublicKey

addSyncingNodes(lists, nodes) ==
  ToSyncing(Identified(lists, nodes), Unlisted(lists, nodes))

addActiveNodes(lists, nodes) ==
  ToActive(Identified(lists, nodes), Unlisted(lists, nodes))

\* refreshNodes, always called for active nodes: it leaves the standby list alone.
refreshNodes(lists, nodes) ==
  LET identified == Identified(lists, nodes)
      missing == Unlisted(lists, nodes)
  IN [identified EXCEPT !.active = @ \cup missing,
                        !.activeListByIdSorted =
                           InsertAllSorted(identified.byPublicKey, @, missing)]

setActive(lists, pks) == ToActive(lists, pks \cap DOMAIN lists.byPublicKey)
setSyncing(lists, pks) == ToSyncing(lists, pks \cap DOMAIN lists.byPublicKey)

addStandbyNodes(lists, pks) == [lists EXCEPT !.standby = @ \cup pks]
removeStandbyNodes(lists, pks) == [lists EXCEPT !.standby = @ \ pks]

\* getNodeInfoById for every id of a batch that has one.
KeysOf(lists, ids) ==
  {lists.byId[id] : id \in ids \cap DOMAIN lists.byId} \cap DOMAIN lists.byPublicKey

removeNodes(lists, pks) ==
  LET gone == pks \cap DOMAIN lists.byPublicKey
      goneIds == {lists.byPublicKey[pk] : pk \in gone}
  IN [lists EXCEPT
       !.standby = @ \ gone, !.syncing = @ \ gone, !.active = @ \ gone,
       !.activeListByIdSorted = WithoutIds(lists.byPublicKey, @, goneIds),
       !.byId = Restrict(@, DOMAIN @ \ goneIds),
       !.byPublicKey = Restrict(@, DOMAIN @ \ gone)]

changeNodeListInRestore(lists) == setSyncing(lists, Range(lists.activeListByIdSorted))

clearNodeLists(lists) == [EmptyLists EXCEPT !.standby = lists.standby]

\* Cycles.updateNodeList: what a cycle record does to the lists, in the code's order.
updateNodeList(lists, cycle) ==
  LET joined == addSyncingNodes(lists, cycle.joinedConsensors)
      activated == setActive(joined, cycle.activated)
      refreshed == refreshNodes(activated, cycle.refreshedConsensors)
      waiting == removeStandbyNodes(addStandbyNodes(refreshed, cycle.standbyAdd),
                                    cycle.standbyRemove)
      kept == removeNodes(waiting, KeysOf(waiting, cycle.removed))
      alive == removeNodes(kept, KeysOf(kept, cycle.apoptosized))
  IN removeNodes(alive, KeysOf(alive, cycle.lostAfterSelection))

=============================================================================
