-------------------------- MODULE NodeListProofs --------------------------
(***************************************************************************)
(* Proofs about NodeListTracking, for any nodes, ids, network modes and    *)
(* pattern of missed records.  First, what needs no history: each          *)
(* operation keeps the lists consistent when it is given ids that belong   *)
(* to their nodes, and the network only produces such records.  Then, what *)
(* does: lists that mirror the network's before a record mirror them after *)
(* it, stage by stage of updateNodeList.                                   *)
(* Last, the lists an archiver asks for or rebuilds from records:          *)
(* ListDownload.                                                           *)
(***************************************************************************)
EXTENDS NodeListTracking, ListDownload, NodeListSorting, TLAPS

\* A map from nodes to ids of their own.
Owned(nodes) ==
  \A pk \in DOMAIN nodes :
    nodes[pk] # NoId => nodes[pk] \in Ids /\ Owner[nodes[pk]] = pk

WellFormed(l) ==
  l = [standby |-> l.standby, syncing |-> l.syncing, active |-> l.active,
       byPublicKey |-> l.byPublicKey, byId |-> l.byId,
       activeListByIdSorted |-> l.activeListByIdSorted]

Partition(l) ==
  /\ l.syncing \cap l.active = {}
  /\ DOMAIN l.byPublicKey = l.syncing \cup l.active

Found(l) ==
  \A pk \in DOMAIN l.byPublicKey :
    l.byPublicKey[pk] # NoId =>
      l.byPublicKey[pk] \in DOMAIN l.byId /\ l.byId[l.byPublicKey[pk]] = pk

Consistent(l) == WellFormed(l) /\ Partition(l) /\ Owned(l.byPublicKey) /\ Found(l)

-----------------------------------------------------------------------------
(* The operations of NodeList keep the lists consistent *)

\* Empty lists are consistent, and so are lists of standby nodes only.
LEMMA EmptyConsistent ==
  /\ Consistent(EmptyLists)
  /\ \A l : Consistent(clearNodeLists(l))
<1>1. DOMAIN <<>> = {}
  OBVIOUS
<1>2. Consistent(EmptyLists)
  <2>1. WellFormed(EmptyLists)
    BY DEF WellFormed, EmptyLists
  <2>2. Partition(EmptyLists)
    BY <1>1 DEF Partition, EmptyLists
  <2>3. Owned(EmptyLists.byPublicKey) /\ Found(EmptyLists)
    BY <1>1 DEF Owned, Found, EmptyLists
  <2> QED
    BY <2>1, <2>2, <2>3 DEF Consistent
<1>3. ASSUME NEW l PROVE Consistent(clearNodeLists(l))
  <2> DEFINE cleared == clearNodeLists(l)
  <2>1. cleared = [standby |-> l.standby, syncing |-> {}, active |-> {},
                   byPublicKey |-> <<>>, byId |-> <<>>, activeListByIdSorted |-> <<>>]
    BY DEF clearNodeLists, EmptyLists
  <2> HIDE DEF cleared
  <2>2. /\ WellFormed(cleared) /\ cleared.byPublicKey = <<>>
        /\ cleared.syncing = {} /\ cleared.active = {}
    BY <2>1 DEF WellFormed
  <2>3. Partition(cleared) /\ Owned(cleared.byPublicKey) /\ Found(cleared)
    BY <1>1, <2>2 DEF Partition, Owned, Found
  <2> QED
    BY <2>2, <2>3 DEF Consistent, cleared
<1> QED
  BY <1>2, <1>3

\* Identifying the nodes of a batch changes the two maps only: the batch's nodes are
\* mapped, with ids that are their own and lead back to them.
LEMMA IdentifiedMaps ==
  ASSUME NEW l, WellFormed(l), Owned(l.byPublicKey), Found(l), NEW nodes, Owned(nodes)
  PROVE  LET k == Identified(l, nodes)
         IN /\ WellFormed(k)
            /\ k.standby = l.standby /\ k.syncing = l.syncing /\ k.active = l.active
            /\ DOMAIN k.byPublicKey = DOMAIN l.byPublicKey \cup DOMAIN nodes
            /\ Owned(k.byPublicKey) /\ Found(k)
<1> DEFINE k == Identified(l, nodes)
           given == {pk \in DOMAIN nodes : nodes[pk] # NoId}
           byPk == [pk \in DOMAIN l.byPublicKey \cup DOMAIN nodes |->
                      IF pk \in given \/ pk \notin DOMAIN l.byPublicKey
                        THEN nodes[pk] ELSE l.byPublicKey[pk]]
           ids == [id \in DOMAIN l.byId \cup {nodes[pk] : pk \in given} |->
                     IF \E pk \in given : nodes[pk] = id
                       THEN CHOOSE pk \in given : nodes[pk] = id
                       ELSE l.byId[id]]
<1>1. k = [l EXCEPT !.byPublicKey = byPk, !.byId = ids]
  BY DEF Identified
<1> HIDE DEF byPk, ids
<1>2. /\ WellFormed(k) /\ k.byPublicKey = byPk /\ k.byId = ids
      /\ k.standby = l.standby /\ k.syncing = l.syncing /\ k.active = l.active
  BY <1>1 DEF WellFormed
<1>3. DOMAIN byPk = DOMAIN l.byPublicKey \cup DOMAIN nodes
  BY DEF byPk
<1>4. Owned(byPk)
  BY DEF byPk, Owned
<1>5. ASSUME NEW pk \in DOMAIN byPk, byPk[pk] # NoId
      PROVE  byPk[pk] \in DOMAIN ids /\ ids[byPk[pk]] = pk
  <2> DEFINE id == byPk[pk]
  <2>1. Owner[id] = pk
    BY <1>4, <1>5 DEF Owned
  <2>2. CASE pk \in given
    <3>1. id = nodes[pk]
      BY <2>2, <1>3 DEF byPk
    <3>2. id \in DOMAIN ids /\ \E q \in given : nodes[q] = id
      BY <2>2, <3>1 DEF ids
    <3>3. ids[id] \in given /\ nodes[ids[id]] = id
      BY <3>2 DEF ids
    <3> QED
      BY <2>1, <3>2, <3>3 DEF Owned
  <2>3. CASE pk \notin given
    <3>1. pk \in DOMAIN l.byPublicKey /\ id = l.byPublicKey[pk]
      BY <1>3, <1>5, <2>3 DEF byPk
    <3>2. id \in DOMAIN l.byId /\ l.byId[id] = pk
      BY <1>5, <3>1 DEF Found
    <3>3. ~ \E q \in given : nodes[q] = id
      BY <2>1, <2>3 DEF Owned
    <3> QED
      BY <3>2, <3>3 DEF ids
  <2> QED
    BY <2>2, <2>3
<1> QED
  BY <1>2, <1>3, <1>4, <1>5 DEF Found

\* Moving listed nodes to the syncing or the active list keeps the lists consistent; so
\* does moving nodes of which the map has just been told.
LEMMA ToSyncingConsistent ==
  ASSUME NEW l, WellFormed(l), Owned(l.byPublicKey), Found(l), NEW pks,
         l.syncing \cap l.active = {},
         DOMAIN l.byPublicKey = l.syncing \cup l.active \cup pks
  PROVE  Consistent(ToSyncing(l, pks))
<1> DEFINE k == ToSyncing(l, pks)
           rest == Without(l.activeListByIdSorted, pks)
<1>1. k = [l EXCEPT !.standby = l.standby \ pks, !.active = l.active \ pks,
                    !.activeListByIdSorted = rest, !.syncing = l.syncing \cup pks]
  BY DEF ToSyncing
<1> HIDE DEF k, rest
<1>2. /\ WellFormed(k) /\ k.byPublicKey = l.byPublicKey /\ k.byId = l.byId
      /\ k.syncing = l.syncing \cup pks /\ k.active = l.active \ pks
  BY <1>1 DEF WellFormed
<1>3. Partition(k)
  BY <1>2 DEF Partition
<1>4. Owned(k.byPublicKey) /\ Found(k)
  BY <1>2 DEF Found
<1> QED
  BY <1>2, <1>3, <1>4 DEF Consistent, k

LEMMA ToActiveConsistent ==
  ASSUME NEW l, WellFormed(l), Owned(l.byPublicKey), Found(l), NEW pks,
         l.syncing \cap l.active = {},
         DOMAIN l.byPublicKey = l.syncing \cup l.active \cup pks
  PROVE  Consistent(ToActive(l, pks))
<1> DEFINE k == ToActive(l, pks)
           rest == InsertAllSorted(l.byPublicKey, l.activeListByIdSorted, pks \ l.active)
<1>1. k = [l EXCEPT !.standby = l.standby \ pks, !.syncing = l.syncing \ pks,
                    !.active = l.active \cup pks, !.activeListByIdSorted = rest]
  BY DEF ToActive
<1> HIDE DEF k, rest
<1>2. /\ WellFormed(k) /\ k.byPublicKey = l.byPublicKey /\ k.byId = l.byId
      /\ k.syncing = l.syncing \ pks /\ k.active = l.active \cup pks
  BY <1>1 DEF WellFormed
<1>3. Partition(k)
  BY <1>2 DEF Partition
<1>4. Owned(k.byPublicKey) /\ Found(k)
  BY <1>2 DEF Found
<1> QED
  BY <1>2, <1>3, <1>4 DEF Consistent, k

LEMMA AddNodesConsistent ==
  ASSUME NEW l, Consistent(l), NEW nodes, Owned(nodes)
  PROVE  /\ Consistent(addSyncingNodes(l, nodes))
         /\ Consistent(addActiveNodes(l, nodes))
<1> DEFINE k == Identified(l, nodes)
           new == Unlisted(l, nodes)
<1>1. /\ WellFormed(k) /\ Owned(k.byPublicKey) /\ Found(k)
      /\ k.syncing = l.syncing /\ k.active = l.active
      /\ DOMAIN k.byPublicKey = DOMAIN l.byPublicKey \cup DOMAIN nodes
  BY IdentifiedMaps DEF Consistent
<1> HIDE DEF k
<1>2. /\ k.syncing \cap k.active = {}
      /\ DOMAIN k.byPublicKey = k.syncing \cup k.active \cup new
  BY <1>1 DEF Consistent, Partition, Unlisted
<1>3. Consistent(ToSyncing(k, new)) /\ Consistent(ToActive(k, new))
  BY <1>1, <1>2, ToSyncingConsistent, ToActiveConsistent
<1> QED
  BY <1>3 DEF addSyncingNodes, addActiveNodes, k

LEMMA RefreshNodesConsistent ==
  ASSUME NEW l, Consistent(l), NEW nodes, Owned(nodes)
  PROVE  Consistent(refreshNodes(l, nodes))
<1> DEFINE k == Identified(l, nodes)
           new == Unlisted(l, nodes)
           r == refreshNodes(l, nodes)
<1>1. /\ WellFormed(k) /\ Owned(k.byPublicKey) /\ Found(k)
      /\ k.syncing = l.syncing /\ k.active = l.active
      /\ DOMAIN k.byPublicKey = DOMAIN l.byPublicKey \cup DOMAIN nodes
  BY IdentifiedMaps DEF Consistent
<1> DEFINE rest == InsertAllSorted(k.byPublicKey, k.activeListByIdSorted, new)
<1>2. r = [k EXCEPT !.active = k.active \cup new, !.activeListByIdSorted = rest]
  BY DEF refreshNodes
<1> HIDE DEF k, r, rest
<1>3. /\ WellFormed(r) /\ r.byPublicKey = k.byPublicKey /\ r.byId = k.byId
      /\ r.syncing = k.syncing /\ r.active = k.active \cup new
  BY <1>2, <1>1 DEF WellFormed
<1>4. Partition(r)
  BY <1>1, <1>3 DEF Consistent, Partition, Unlisted
<1>5. Owned(r.byPublicKey) /\ Found(r)
  BY <1>1, <1>3 DEF Found
<1> QED
  BY <1>3, <1>4, <1>5 DEF Consistent, r

LEMMA SetStatusConsistent ==
  ASSUME NEW l, Consistent(l), NEW pks
  PROVE  /\ Consistent(setSyncing(l, pks))
         /\ Consistent(setActive(l, pks))
         /\ Consistent(changeNodeListInRestore(l))
<1>1. ASSUME NEW keys
      PROVE  LET listed == keys \cap DOMAIN l.byPublicKey
             IN Consistent(ToSyncing(l, listed)) /\ Consistent(ToActive(l, listed))
  BY ToSyncingConsistent, ToActiveConsistent DEF Consistent, Partition
<1> QED
  BY <1>1 DEF setSyncing, setActive, changeNodeListInRestore

LEMMA StandbyConsistent ==
  ASSUME NEW l, Consistent(l), NEW pks
  PROVE  /\ Consistent(addStandbyNodes(l, pks))
         /\ Consistent(removeStandbyNodes(l, pks))
<1> DEFINE a == addStandbyNodes(l, pks)
           r == removeStandbyNodes(l, pks)
<1>1. /\ WellFormed(a) /\ a.byPublicKey = l.byPublicKey /\ a.byId = l.byId
      /\ a.syncing = l.syncing /\ a.active = l.active
  BY DEF addStandbyNodes, Consistent, WellFormed
<1>2. /\ WellFormed(r) /\ r.byPublicKey = l.byPublicKey /\ r.byId = l.byId
      /\ r.syncing = l.syncing /\ r.active = l.active
  BY DEF removeStandbyNodes, Consistent, WellFormed
<1> HIDE DEF a, r
<1>3. Consistent(a)
  BY <1>1 DEF Consistent, Partition, Found
<1>4. Consistent(r)
  BY <1>2 DEF Consistent, Partition, Found
<1> QED
  BY <1>3, <1>4 DEF a, r

\* Removing nodes drops their ids from byId; no other node has one of them.
LEMMA RemoveNodesConsistent ==
  ASSUME NEW l, Consistent(l), NEW pks
  PROVE  Consistent(removeNodes(l, pks))
<1> DEFINE gone == pks \cap DOMAIN l.byPublicKey
           goneIds == {l.byPublicKey[pk] : pk \in gone}
           k == removeNodes(l, pks)
           rest == WithoutIds(l.byPublicKey, l.activeListByIdSorted, goneIds)
           byId == Restrict(l.byId, DOMAIN l.byId \ goneIds)
           byPk == Restrict(l.byPublicKey, DOMAIN l.byPublicKey \ gone)
<1>1. k = [l EXCEPT !.standby = l.standby \ gone, !.syncing = l.syncing \ gone,
                    !.active = l.active \ gone, !.activeListByIdSorted = rest,
                    !.byId = byId, !.byPublicKey = byPk]
  BY DEF removeNodes
<1>2. /\ byPk = [pk \in DOMAIN l.byPublicKey \ gone |-> l.byPublicKey[pk]]
      /\ byId = [id \in DOMAIN l.byId \ goneIds |-> l.byId[id]]
  BY DEF Restrict
<1>3. WellFormed(l)
  BY DEF Consistent
<1> HIDE DEF k, rest, byId, byPk, gone, goneIds
<1>4. /\ WellFormed(k) /\ k.byPublicKey = byPk /\ k.byId = byId
      /\ k.syncing = l.syncing \ gone /\ k.active = l.active \ gone
  BY <1>1, <1>3 DEF WellFormed
<1>5. /\ WellFormed(k)
      /\ k.byPublicKey = [pk \in DOMAIN l.byPublicKey \ gone |-> l.byPublicKey[pk]]
      /\ k.byId = [id \in DOMAIN l.byId \ goneIds |-> l.byId[id]]
      /\ k.syncing = l.syncing \ gone /\ k.active = l.active \ gone
  BY <1>2, <1>4
<1>6. Partition(k)
  BY <1>5 DEF Consistent, Partition
<1>7. Owned(k.byPublicKey)
  BY <1>5 DEF Consistent, Owned
<1>8. Found(k)
  <2> SUFFICES ASSUME NEW pk \in DOMAIN k.byPublicKey, k.byPublicKey[pk] # NoId
               PROVE  /\ k.byPublicKey[pk] \in DOMAIN k.byId
                      /\ k.byId[k.byPublicKey[pk]] = pk
    BY DEF Found
  <2> DEFINE id == l.byPublicKey[pk]
  <2>1. pk \in DOMAIN l.byPublicKey \ gone /\ k.byPublicKey[pk] = id /\ id # NoId
    BY <1>5
  <2>2. id \in DOMAIN l.byId /\ l.byId[id] = pk /\ Owner[id] = pk
    BY <2>1 DEF Consistent, Found, Owned
  <2>3. id \notin goneIds
    BY <2>1, <2>2 DEF Consistent, Owned, goneIds, gone
  <2> QED
    BY <1>5, <2>1, <2>2, <2>3
<1> QED
  BY <1>5, <1>6, <1>7, <1>8 DEF Consistent, k

\* A whole cycle record keeps the lists consistent.
LEMMA UpdateNodeListConsistent ==
  ASSUME NEW l, Consistent(l), NEW cycle,
         Owned(cycle.joinedConsensors), Owned(cycle.refreshedConsensors)
  PROVE  Consistent(updateNodeList(l, cycle))
<1> DEFINE joined == addSyncingNodes(l, cycle.joinedConsensors)
           activated == setActive(joined, cycle.activated)
           refreshed == refreshNodes(activated, cycle.refreshedConsensors)
           added == addStandbyNodes(refreshed, cycle.standbyAdd)
           waiting == removeStandbyNodes(added, cycle.standbyRemove)
           kept == removeNodes(waiting, KeysOf(waiting, cycle.removed))
           alive == removeNodes(kept, KeysOf(kept, cycle.apoptosized))
           last == removeNodes(alive, KeysOf(alive, cycle.lostAfterSelection))
<1>1. updateNodeList(l, cycle) = last
  BY DEF updateNodeList
<1>2. Consistent(joined)
  BY AddNodesConsistent
<1> HIDE DEF joined
<1>3. Consistent(activated)
  BY <1>2, SetStatusConsistent
<1> HIDE DEF activated
<1>4. Consistent(refreshed)
  BY <1>3, RefreshNodesConsistent
<1> HIDE DEF refreshed
<1>5. Consistent(added)
  BY <1>4, StandbyConsistent
<1> HIDE DEF added
<1>6. Consistent(waiting)
  BY <1>5, StandbyConsistent
<1> HIDE DEF waiting
<1>7. Consistent(kept)
  BY <1>6, RemoveNodesConsistent
<1> HIDE DEF kept
<1>8. Consistent(alive)
  BY <1>7, RemoveNodesConsistent
<1> HIDE DEF alive
<1>9. Consistent(last)
  BY <1>8, RemoveNodesConsistent
<1> QED
  BY <1>1, <1>9

LEMMA ProcessedConsistent ==
  ASSUME NEW l, Consistent(l), NEW mode, NEW cycle,
         Owned(cycle.joinedConsensors), Owned(cycle.refreshedConsensors)
  PROVE  Consistent(Processed(l, mode, cycle))
<1> DEFINE updated == updateNodeList(l, cycle)
<1>1. Consistent(updated)
  BY UpdateNodeListConsistent
<1> HIDE DEF updated
<1>2. Consistent(changeNodeListInRestore(updated))
  BY <1>1, SetStatusConsistent
<1> QED
  BY <1>1, <1>2 DEF Processed, updated

-----------------------------------------------------------------------------
(* What the operations leave in each list *)

\* The types of the lists.
Typed(l) ==
  /\ WellFormed(l)
  /\ l.standby \cup l.syncing \cup l.active \subseteq PublicKeys
  /\ l.byPublicKey \in [DOMAIN l.byPublicKey -> Ids \cup {NoId}]
  /\ DOMAIN l.byPublicKey \subseteq PublicKeys
  /\ l.byId \in [DOMAIN l.byId -> PublicKeys]
  /\ DOMAIN l.byId \subseteq Ids
  /\ l.activeListByIdSorted \in Seq(PublicKeys)

LEMMA FiniteBatch ==
  ASSUME NEW pks, pks \subseteq PublicKeys
  PROVE  IsFiniteSet(pks)
BY IdAssumption, FS_Subset

\* The lists k are the lists l with the ids of a batch, and the batch's nodes in the map.
Assigned(k, l, nodes) ==
  LET given == {pk \in DOMAIN nodes : nodes[pk] # NoId}
  IN /\ WellFormed(k)
     /\ k.standby = l.standby /\ k.syncing = l.syncing /\ k.active = l.active
     /\ k.activeListByIdSorted = l.activeListByIdSorted
     /\ k.byPublicKey = [pk \in DOMAIN l.byPublicKey \cup DOMAIN nodes |->
                           IF pk \in given \/ pk \notin DOMAIN l.byPublicKey
                             THEN nodes[pk] ELSE l.byPublicKey[pk]]
     /\ DOMAIN k.byId = DOMAIN l.byId \cup {nodes[pk] : pk \in given}
     /\ k.byId = [id \in DOMAIN k.byId |-> k.byId[id]]
     /\ \A id \in DOMAIN k.byId :
          \/ k.byId[id] \in DOMAIN nodes
          \/ id \in DOMAIN l.byId /\ k.byId[id] = l.byId[id]

LEMMA IdentifiedLists ==
  ASSUME NEW l, WellFormed(l), NEW nodes
  PROVE  Assigned(Identified(l, nodes), l, nodes)
<1> DEFINE k == Identified(l, nodes)
           given == {pk \in DOMAIN nodes : nodes[pk] # NoId}
           byPk == [pk \in DOMAIN l.byPublicKey \cup DOMAIN nodes |->
                      IF pk \in given \/ pk \notin DOMAIN l.byPublicKey
                        THEN nodes[pk] ELSE l.byPublicKey[pk]]
           ids == [id \in DOMAIN l.byId \cup {nodes[pk] : pk \in given} |->
                     IF \E pk \in given : nodes[pk] = id
                       THEN CHOOSE pk \in given : nodes[pk] = id
                       ELSE l.byId[id]]
<1>1. k = [l EXCEPT !.byPublicKey = byPk, !.byId = ids]
  BY DEF Identified
<1>2. ASSUME NEW id \in DOMAIN ids
      PROVE  ids[id] \in DOMAIN nodes \/ (id \in DOMAIN l.byId /\ ids[id] = l.byId[id])
  <2>1. CASE \E pk \in given : nodes[pk] = id
    <3>1. ids[id] \in given
      BY <2>1
    <3> HIDE DEF ids
    <3> QED
      BY <3>1
  <2>2. CASE ~ \E pk \in given : nodes[pk] = id
    BY <2>2
  <2> QED
    BY <2>1, <2>2
<1>3. /\ DOMAIN ids = DOMAIN l.byId \cup {nodes[pk] : pk \in given}
      /\ ids = [id \in DOMAIN ids |-> ids[id]]
  OBVIOUS
<1> HIDE DEF ids, k
<1> DEFINE map == byPk
<1>4. map = byPk
  OBVIOUS
<1> HIDE DEF map, byPk
<1>5. /\ WellFormed(k) /\ k.byPublicKey = map /\ k.byId = ids
      /\ k.standby = l.standby /\ k.syncing = l.syncing /\ k.active = l.active
      /\ k.activeListByIdSorted = l.activeListByIdSorted
  BY <1>1, <1>4 DEF WellFormed
<1> QED
  BY <1>2, <1>3, <1>4, <1>5 DEF k, byPk, Assigned

LEMMA ToSyncingLists ==
  ASSUME NEW l, WellFormed(l), NEW pks
  PROVE  LET k == ToSyncing(l, pks)
         IN /\ WellFormed(k) /\ k.byPublicKey = l.byPublicKey /\ k.byId = l.byId
            /\ k.standby = l.standby \ pks
            /\ k.syncing = l.syncing \cup pks /\ k.active = l.active \ pks
            /\ k.activeListByIdSorted = Without(l.activeListByIdSorted, pks)
<1> DEFINE k == ToSyncing(l, pks)
           rest == Without(l.activeListByIdSorted, pks)
<1>1. k = [l EXCEPT !.standby = l.standby \ pks, !.active = l.active \ pks,
                    !.activeListByIdSorted = rest, !.syncing = l.syncing \cup pks]
  BY DEF ToSyncing
<1> HIDE DEF k, rest
<1>2. /\ WellFormed(k) /\ k.byPublicKey = l.byPublicKey /\ k.byId = l.byId
      /\ k.standby = l.standby \ pks
      /\ k.syncing = l.syncing \cup pks /\ k.active = l.active \ pks
      /\ k.activeListByIdSorted = rest
  BY <1>1 DEF WellFormed
<1> QED
  BY <1>2 DEF k, rest

\* The lists k are the lists l with nodes made active.
Activated(k, l, pks) ==
  /\ WellFormed(k) /\ k.byPublicKey = l.byPublicKey /\ k.byId = l.byId
  /\ k.standby = l.standby \ pks
  /\ k.syncing = l.syncing \ pks /\ k.active = l.active \cup pks
  /\ k.activeListByIdSorted =
       InsertAllSorted(l.byPublicKey, l.activeListByIdSorted, pks \ l.active)

LEMMA ToActiveLists ==
  ASSUME NEW l, WellFormed(l), NEW pks
  PROVE  Activated(ToActive(l, pks), l, pks)
<1> DEFINE k == ToActive(l, pks)
           rest == InsertAllSorted(l.byPublicKey, l.activeListByIdSorted, pks \ l.active)
<1>1. k = [l EXCEPT !.standby = l.standby \ pks, !.syncing = l.syncing \ pks,
                    !.active = l.active \cup pks, !.activeListByIdSorted = rest]
  BY DEF ToActive
<1> HIDE DEF k, rest
<1>2. /\ WellFormed(k) /\ k.byPublicKey = l.byPublicKey /\ k.byId = l.byId
      /\ k.standby = l.standby \ pks
      /\ k.syncing = l.syncing \ pks /\ k.active = l.active \cup pks
      /\ k.activeListByIdSorted = rest
  BY <1>1 DEF WellFormed
<1> QED
  BY <1>2 DEF Activated, k, rest

\* The lists r are the lists k with new active nodes.
Refreshed(r, k, new) ==
  /\ WellFormed(r) /\ r.byPublicKey = k.byPublicKey /\ r.byId = k.byId
  /\ r.standby = k.standby /\ r.syncing = k.syncing /\ r.active = k.active \cup new
  /\ r.activeListByIdSorted = InsertAllSorted(k.byPublicKey, k.activeListByIdSorted, new)

LEMMA RefreshNodesLists ==
  ASSUME NEW l, WellFormed(l), NEW nodes
  PROVE  Refreshed(refreshNodes(l, nodes), Identified(l, nodes), Unlisted(l, nodes))
<1> DEFINE k == Identified(l, nodes)
           new == Unlisted(l, nodes)
           r == refreshNodes(l, nodes)
           rest == InsertAllSorted(k.byPublicKey, k.activeListByIdSorted, new)
<1>1. r = [k EXCEPT !.active = k.active \cup new, !.activeListByIdSorted = rest]
  BY DEF refreshNodes
<1>2. WellFormed(k)
  BY IdentifiedLists DEF Assigned
<1> HIDE DEF k, r, rest, new
<1>3. /\ WellFormed(r) /\ r.byPublicKey = k.byPublicKey /\ r.byId = k.byId
      /\ r.standby = k.standby /\ r.syncing = k.syncing /\ r.active = k.active \cup new
      /\ r.activeListByIdSorted = rest
  BY <1>1, <1>2 DEF WellFormed
<1> QED
  BY <1>3 DEF Refreshed, k, r, rest, new

\* The lists k and l differ in standby nodes, those of k being among some.
Waiting(k, l, standby) ==
  /\ WellFormed(k) /\ k.byPublicKey = l.byPublicKey /\ k.byId = l.byId
  /\ k.standby \subseteq standby
  /\ k.syncing = l.syncing /\ k.active = l.active
  /\ k.activeListByIdSorted = l.activeListByIdSorted

LEMMA StandbyLists ==
  ASSUME NEW l, WellFormed(l), NEW pks, NEW k,
         k \in {addStandbyNodes(l, pks), removeStandbyNodes(l, pks)}
  PROVE  Waiting(k, l, l.standby \cup pks)
<1>1. PICK standby : k = [l EXCEPT !.standby = standby] /\ standby \subseteq l.standby \cup pks
  BY DEF addStandbyNodes, removeStandbyNodes
<1> QED
  BY <1>1 DEF WellFormed, Waiting

\* The lists k are the lists l without some nodes and their ids.
Purged(k, l, gone, goneIds) ==
  /\ WellFormed(k)
  /\ k.byPublicKey = [pk \in DOMAIN l.byPublicKey \ gone |-> l.byPublicKey[pk]]
  /\ k.byId = [id \in DOMAIN l.byId \ goneIds |-> l.byId[id]]
  /\ k.standby = l.standby \ gone
  /\ k.syncing = l.syncing \ gone /\ k.active = l.active \ gone
  /\ k.activeListByIdSorted = WithoutIds(l.byPublicKey, l.activeListByIdSorted, goneIds)

LEMMA RemoveNodesLists ==
  ASSUME NEW l, WellFormed(l), NEW pks,
         NEW gone, gone = pks \cap DOMAIN l.byPublicKey,
         NEW goneIds, goneIds = {l.byPublicKey[pk] : pk \in gone}
  PROVE  Purged(removeNodes(l, pks), l, gone, goneIds)
<1> DEFINE k == removeNodes(l, pks)
           rest == WithoutIds(l.byPublicKey, l.activeListByIdSorted, goneIds)
           byId == Restrict(l.byId, DOMAIN l.byId \ goneIds)
           byPk == Restrict(l.byPublicKey, DOMAIN l.byPublicKey \ gone)
<1>1. k = [l EXCEPT !.standby = l.standby \ gone, !.syncing = l.syncing \ gone,
                    !.active = l.active \ gone, !.activeListByIdSorted = rest,
                    !.byId = byId, !.byPublicKey = byPk]
  BY DEF removeNodes
<1>2. /\ byPk = [pk \in DOMAIN l.byPublicKey \ gone |-> l.byPublicKey[pk]]
      /\ byId = [id \in DOMAIN l.byId \ goneIds |-> l.byId[id]]
  BY DEF Restrict
<1> HIDE DEF k, rest, byId, byPk
<1>3. /\ WellFormed(k) /\ k.byPublicKey = byPk /\ k.byId = byId
      /\ k.standby = l.standby \ gone
      /\ k.syncing = l.syncing \ gone /\ k.active = l.active \ gone
      /\ k.activeListByIdSorted = rest
  BY <1>1 DEF WellFormed
<1> QED
  BY <1>2, <1>3 DEF Purged, k, rest

-----------------------------------------------------------------------------
(* The operations keep the types of the lists *)

LEMMA EmptyTyped ==
  /\ Typed(EmptyLists)
  /\ \A l : Typed(l) => Typed(clearNodeLists(l))
<1>1. DOMAIN <<>> = {} /\ \A S : <<>> \in [{} -> S]
  OBVIOUS
<1>2. Typed(EmptyLists)
  <2>1. WellFormed(EmptyLists)
    BY DEF WellFormed, EmptyLists
  <2> QED
    BY <1>1, <2>1 DEF Typed, EmptyLists
<1>3. ASSUME NEW l, Typed(l) PROVE Typed(clearNodeLists(l))
  <2> DEFINE cleared == clearNodeLists(l)
  <2>1. cleared = [standby |-> l.standby, syncing |-> {}, active |-> {},
                   byPublicKey |-> <<>>, byId |-> <<>>, activeListByIdSorted |-> <<>>]
    BY DEF clearNodeLists, EmptyLists
  <2> HIDE DEF cleared
  <2>2. /\ WellFormed(cleared) /\ cleared.byPublicKey = <<>> /\ cleared.byId = <<>>
        /\ cleared.standby = l.standby /\ cleared.syncing = {} /\ cleared.active = {}
        /\ cleared.activeListByIdSorted = <<>>
    BY <2>1 DEF WellFormed
  <2>3. <<>> \in Seq(PublicKeys) /\ l.standby \subseteq PublicKeys
    BY <1>3 DEF Typed
  <2>4. Typed(cleared)
    BY <1>1, <2>2, <2>3 DEF Typed
  <2> QED
    BY <2>4 DEF cleared
<1> QED
  BY <1>2, <1>3

\* A batch of nodes with ids of their own.
Batch(nodes) == DOMAIN nodes \subseteq PublicKeys /\ Owned(nodes)

LEMMA IdentifiedTyped ==
  ASSUME NEW l, Typed(l), NEW nodes, Batch(nodes)
  PROVE  Typed(Identified(l, nodes))
<1> DEFINE k == Identified(l, nodes)
           given == {pk \in DOMAIN nodes : nodes[pk] # NoId}
           ids == {nodes[pk] : pk \in given}
<1>1. WellFormed(l)
  BY DEF Typed
<1>2. Assigned(k, l, nodes)
  BY <1>1, IdentifiedLists
<1>3. ids \subseteq Ids
  BY DEF Batch, Owned
<1> HIDE DEF k, ids
<1>4. k.byPublicKey \in [DOMAIN k.byPublicKey -> Ids \cup {NoId}]
  BY <1>2 DEF Assigned, Batch, Owned, Typed
<1>5. k.byId \in [DOMAIN k.byId -> PublicKeys]
  <2>1. \A id \in DOMAIN k.byId : k.byId[id] \in PublicKeys
    BY <1>2 DEF Assigned, Batch, Typed
  <2> QED
    BY <1>2, <2>1 DEF Assigned
<1>6. DOMAIN k.byPublicKey \subseteq PublicKeys /\ DOMAIN k.byId \subseteq Ids
  <2>1. DOMAIN k.byPublicKey = DOMAIN l.byPublicKey \cup DOMAIN nodes
    BY <1>2 DEF Assigned
  <2>2. DOMAIN k.byId = DOMAIN l.byId \cup ids
    BY <1>2 DEF Assigned, ids
  <2> QED
    BY <1>3, <2>1, <2>2 DEF Batch, Typed
<1>7. /\ k.standby \cup k.syncing \cup k.active \subseteq PublicKeys
      /\ k.activeListByIdSorted \in Seq(PublicKeys)
  BY <1>2 DEF Assigned, Typed
<1>8. Typed(k)
  BY <1>2, <1>4, <1>5, <1>6, <1>7 DEF Assigned, Typed
<1> QED
  BY <1>8 DEF k

LEMMA ToListTyped ==
  ASSUME NEW l, Typed(l), NEW pks, pks \subseteq PublicKeys
  PROVE  Typed(ToSyncing(l, pks)) /\ Typed(ToActive(l, pks))
<1> DEFINE s == ToSyncing(l, pks)
           a == ToActive(l, pks)
<1>1. WellFormed(l) /\ l.activeListByIdSorted \in Seq(PublicKeys)
  BY DEF Typed
<1>2. /\ WellFormed(s) /\ s.byPublicKey = l.byPublicKey /\ s.byId = l.byId
      /\ s.standby = l.standby \ pks
      /\ s.syncing = l.syncing \cup pks /\ s.active = l.active \ pks
      /\ s.activeListByIdSorted = Without(l.activeListByIdSorted, pks)
  BY <1>1, ToSyncingLists
<1>3. Activated(a, l, pks)
  BY <1>1, ToActiveLists
<1> HIDE DEF s, a
<1>4. s.activeListByIdSorted \in Seq(PublicKeys)
  BY <1>1, <1>2, WithoutElements DEF Thinned
<1>5. pks \ l.active \in SUBSET PublicKeys /\ IsFiniteSet(pks \ l.active)
  BY FiniteBatch
<1>6. a.activeListByIdSorted \in Seq(PublicKeys)
  <2> DEFINE seq == l.activeListByIdSorted
             new == pks \ l.active
  <2>1. seq \in Seq(PublicKeys) /\ new \in SUBSET PublicKeys /\ IsFiniteSet(new)
    BY <1>1, <1>5
  <2> HIDE DEF seq, new
  <2>2. Merged(InsertAllSorted(l.byPublicKey, seq, new), PublicKeys, l.byPublicKey, seq, new)
    BY <2>1, InsertAllSortedElements
  <2> QED
    BY <1>3, <2>2 DEF Activated, Merged, seq, new
<1>7. Typed(s)
  BY <1>2, <1>4 DEF Typed
<1>8. Typed(a)
  BY <1>3, <1>6 DEF Activated, Typed
<1> QED
  BY <1>7, <1>8 DEF s, a

LEMMA AddNodesTyped ==
  ASSUME NEW l, Typed(l), NEW nodes, Batch(nodes)
  PROVE  /\ Typed(addSyncingNodes(l, nodes))
         /\ Typed(addActiveNodes(l, nodes))
         /\ Typed(refreshNodes(l, nodes))
<1> DEFINE k == Identified(l, nodes)
           new == Unlisted(l, nodes)
           r == refreshNodes(l, nodes)
<1>1. Typed(k)
  BY IdentifiedTyped
<1>2. new \subseteq PublicKeys
  BY DEF Unlisted, Batch
<1>3. WellFormed(l)
  BY DEF Typed
<1>4. Refreshed(r, k, new)
  BY <1>3, RefreshNodesLists
<1> HIDE DEF k, new, r
<1>5. Typed(ToSyncing(k, new)) /\ Typed(ToActive(k, new))
  BY <1>1, <1>2, ToListTyped
<1>6. r.activeListByIdSorted \in Seq(PublicKeys)
  <2>1. k.activeListByIdSorted \in Seq(PublicKeys)
    BY <1>1 DEF Typed
  <2>2. new \in SUBSET PublicKeys /\ IsFiniteSet(new)
    BY <1>2, FiniteBatch
  <2> DEFINE seq == k.activeListByIdSorted
  <2>3. seq \in Seq(PublicKeys)
    BY <2>1
  <2> HIDE DEF seq
  <2>4. Merged(InsertAllSorted(k.byPublicKey, seq, new), PublicKeys, k.byPublicKey, seq, new)
    BY <2>2, <2>3, InsertAllSortedElements
  <2> QED
    BY <1>4, <2>4 DEF Refreshed, Merged, seq
<1>7. Typed(r)
  BY <1>1, <1>2, <1>4, <1>6 DEF Refreshed, Typed
<1> QED
  BY <1>5, <1>7 DEF addSyncingNodes, addActiveNodes, k, new, r

LEMMA SetStatusTyped ==
  ASSUME NEW l, Typed(l), NEW pks
  PROVE  /\ Typed(setSyncing(l, pks))
         /\ Typed(setActive(l, pks))
         /\ Typed(changeNodeListInRestore(l))
<1>1. ASSUME NEW keys
      PROVE  LET listed == keys \cap DOMAIN l.byPublicKey
             IN Typed(ToSyncing(l, listed)) /\ Typed(ToActive(l, listed))
  <2>1. keys \cap DOMAIN l.byPublicKey \subseteq PublicKeys
    BY DEF Typed
  <2> QED
    BY <2>1, ToListTyped
<1> QED
  BY <1>1 DEF setSyncing, setActive, changeNodeListInRestore

LEMMA StandbyTyped ==
  ASSUME NEW l, Typed(l), NEW pks
  PROVE  /\ pks \subseteq PublicKeys => Typed(addStandbyNodes(l, pks))
         /\ Typed(removeStandbyNodes(l, pks))
<1>1. WellFormed(l)
  BY DEF Typed
<1>2. ASSUME NEW k, NEW standby, standby \subseteq PublicKeys,
             k = [l EXCEPT !.standby = standby]
      PROVE  Typed(k)
  <2>1. /\ WellFormed(k) /\ k.byPublicKey = l.byPublicKey /\ k.byId = l.byId
        /\ k.standby = standby
        /\ k.syncing = l.syncing /\ k.active = l.active
        /\ k.activeListByIdSorted = l.activeListByIdSorted
    BY <1>1, <1>2 DEF WellFormed
  <2> QED
    BY <1>2, <2>1 DEF Typed
<1>3. /\ addStandbyNodes(l, pks) = [l EXCEPT !.standby = l.standby \cup pks]
      /\ removeStandbyNodes(l, pks) = [l EXCEPT !.standby = l.standby \ pks]
  BY DEF addStandbyNodes, removeStandbyNodes
<1>4. l.standby \subseteq PublicKeys
  BY DEF Typed
<1> QED
  BY <1>2, <1>3, <1>4

LEMMA RemoveNodesTyped ==
  ASSUME NEW l, Typed(l), NEW pks
  PROVE  Typed(removeNodes(l, pks))
<1> DEFINE gone == pks \cap DOMAIN l.byPublicKey
           goneIds == {l.byPublicKey[pk] : pk \in gone}
           k == removeNodes(l, pks)
<1>1. /\ WellFormed(l) /\ l.activeListByIdSorted \in Seq(PublicKeys)
      /\ gone = pks \cap DOMAIN l.byPublicKey
      /\ goneIds = {l.byPublicKey[pk] : pk \in gone}
  BY DEF Typed
<1> HIDE DEF goneIds, gone
<1>2. Purged(k, l, gone, goneIds)
  BY <1>1, RemoveNodesLists
<1> HIDE DEF k
<1>3. k.activeListByIdSorted \in Seq(PublicKeys)
  BY <1>1, <1>2, WithoutElements DEF Purged, Thinned, WithoutIds
<1>4. /\ k.byPublicKey \in [DOMAIN k.byPublicKey -> Ids \cup {NoId}]
      /\ k.byId \in [DOMAIN k.byId -> PublicKeys]
  BY <1>2 DEF Purged, Typed
<1>5. /\ DOMAIN k.byPublicKey \subseteq PublicKeys /\ DOMAIN k.byId \subseteq Ids
      /\ k.standby \cup k.syncing \cup k.active \subseteq PublicKeys
  BY <1>2 DEF Purged, Typed
<1>6. Typed(k)
  BY <1>2, <1>3, <1>4, <1>5 DEF Purged, Typed
<1> QED
  BY <1>6 DEF k

-----------------------------------------------------------------------------
(* What a cycle record does to lists that mirror those of the network *)

\* The nodes of a map that have ids.
Given(ids) == {pk \in DOMAIN ids : ids[pk] # NoId}

\* Lists with these syncing and active nodes, under these ids.
Mirrors(l, syncing, active, ids) ==
  /\ Consistent(l) /\ Typed(l)
  /\ l.syncing = syncing /\ l.active = active /\ l.byPublicKey = ids
  /\ DOMAIN l.byId = {ids[pk] : pk \in Given(ids)}
  /\ active \subseteq Given(ids)
  /\ Range(l.activeListByIdSorted) = active
  /\ Ascending(ids, l.activeListByIdSorted)

\* The ids of a map and a batch, and those left when nodes are gone.
Joined(ids, nodes) ==
  [pk \in DOMAIN ids \cup DOMAIN nodes |-> IF pk \in DOMAIN nodes THEN nodes[pk] ELSE ids[pk]]
Left(ids, gone) == [pk \in DOMAIN ids \ gone |-> ids[pk]]

\* A batch of nodes not listed yet, or listed without an id.
Fresh(nodes, syncing, ids) ==
  /\ Batch(nodes)
  /\ \A pk \in DOMAIN nodes \cap DOMAIN ids : pk \in syncing /\ ids[pk] = NoId

LEMMA EmptyMirrors ==
  /\ Mirrors(EmptyLists, {}, {}, <<>>)
  /\ \A l : Typed(l) => Mirrors(clearNodeLists(l), {}, {}, <<>>)
<1>1. /\ DOMAIN <<>> = {} /\ Range(<<>>) = {} /\ \A ids : Ascending(ids, <<>>)
      /\ Given(<<>>) = {}
  BY DEF Range, Ascending, Given
<1>2. ASSUME NEW l, Consistent(l), Typed(l), l.syncing = {}, l.active = {},
             l.byPublicKey = <<>>, l.byId = <<>>, l.activeListByIdSorted = <<>>
      PROVE  Mirrors(l, {}, {}, <<>>)
  BY <1>1, <1>2 DEF Mirrors
<1>3. Mirrors(EmptyLists, {}, {}, <<>>)
  BY <1>2, EmptyConsistent, EmptyTyped DEF EmptyLists
<1>4. ASSUME NEW l, Typed(l) PROVE Mirrors(clearNodeLists(l), {}, {}, <<>>)
  <2>1. Consistent(clearNodeLists(l)) /\ Typed(clearNodeLists(l))
    BY <1>4, EmptyConsistent, EmptyTyped
  <2> QED
    BY <1>2, <2>1 DEF clearNodeLists, EmptyLists
<1> QED
  BY <1>3, <1>4

\* Each listed active node has an id of its own.
LEMMA MirrorsIdentify ==
  ASSUME NEW l, NEW s, NEW a, NEW ids, Mirrors(l, s, a, ids),
         NEW pks, pks \subseteq Given(ids)
  PROVE  Identifying(ids, pks)
<1>1. \A pk \in pks : ids[pk] \in Ids /\ ids[pk] # NoId /\ Owner[ids[pk]] = pk
  BY DEF Mirrors, Consistent, Owned, Given
<1> QED
  BY <1>1, IdAssumption DEF Identifying

\* The map of nodes after a batch joined.
LEMMA IdentifiedFresh ==
  ASSUME NEW l, NEW s, NEW a, NEW ids, Mirrors(l, s, a, ids),
         NEW nodes, Fresh(nodes, s, ids)
  PROVE  LET k == Identified(l, nodes)
         IN /\ WellFormed(k)
            /\ k.byPublicKey = Joined(ids, nodes)
            /\ DOMAIN k.byId = {Joined(ids, nodes)[pk] : pk \in Given(Joined(ids, nodes))}
            /\ k.syncing = s /\ k.active = a
            /\ k.activeListByIdSorted = l.activeListByIdSorted
            /\ Ascending(Joined(ids, nodes), l.activeListByIdSorted)
            /\ a \subseteq Given(Joined(ids, nodes))
<1> DEFINE k == Identified(l, nodes)
           given == {pk \in DOMAIN nodes : nodes[pk] # NoId}
           fresh == {nodes[pk] : pk \in given}
           map == [pk \in DOMAIN l.byPublicKey \cup DOMAIN nodes |->
                     IF pk \in given \/ pk \notin DOMAIN l.byPublicKey
                       THEN nodes[pk] ELSE l.byPublicKey[pk]]
           all == Joined(ids, nodes)
           seq == l.activeListByIdSorted
<1>1. WellFormed(l) /\ Partition(l)
  BY DEF Mirrors, Consistent
<1>2. /\ WellFormed(k) /\ k.byPublicKey = map
      /\ k.syncing = l.syncing /\ k.active = l.active
      /\ k.activeListByIdSorted = seq
      /\ DOMAIN k.byId = DOMAIN l.byId \cup fresh
  <2>1. Assigned(k, l, nodes)
    BY <1>1, IdentifiedLists
  <2> HIDE DEF k
  <2> QED
    BY <2>1 DEF Assigned
<1>3. /\ l.syncing = s /\ l.active = a /\ l.byPublicKey = ids
      /\ DOMAIN l.byId = {ids[pk] : pk \in Given(ids)}
      /\ a \subseteq Given(ids) /\ Range(seq) = a /\ Ascending(ids, seq)
  BY DEF Mirrors
<1> HIDE DEF k
<1>4. map = all
  BY <1>3 DEF Joined, Fresh
<1>5. \A pk \in DOMAIN ids : pk \notin DOMAIN nodes \/ ids[pk] = NoId
  BY DEF Fresh
<1>6. DOMAIN l.byId \cup fresh = {all[pk] : pk \in Given(all)}
  BY <1>3, <1>5 DEF Joined, Given
<1>7. \A pk \in a : pk \notin DOMAIN nodes /\ pk \in DOMAIN ids
  BY <1>3, <1>5 DEF Given
<1>8. \A pk \in a : pk \in Given(all) /\ all[pk] = ids[pk]
  BY <1>3, <1>7 DEF Joined, Given
<1>9. Ascending(all, seq)
  <2>1. \A i \in DOMAIN seq : seq[i] \in a
    BY <1>3 DEF Range
  <2> QED
    BY <1>3, <1>8, <2>1 DEF Ascending
<1> HIDE DEF map, all, seq, fresh
<1> QED
  BY <1>2, <1>3, <1>4, <1>6, <1>8, <1>9 DEF k, all, seq

\* Nodes that join.
LEMMA JoinMirrors ==
  ASSUME NEW l, NEW s, NEW a, NEW ids, Mirrors(l, s, a, ids),
         NEW nodes, Fresh(nodes, s, ids)
  PROVE  Mirrors(addSyncingNodes(l, nodes), s \cup DOMAIN nodes, a, Joined(ids, nodes))
<1> DEFINE k == Identified(l, nodes)
           new == Unlisted(l, nodes)
           r == ToSyncing(k, new)
           all == Joined(ids, nodes)
           seq == l.activeListByIdSorted
<1>1. /\ WellFormed(k) /\ k.byPublicKey = all
      /\ DOMAIN k.byId = {all[pk] : pk \in Given(all)}
      /\ k.syncing = s /\ k.active = a /\ k.activeListByIdSorted = seq
      /\ Ascending(all, seq) /\ a \subseteq Given(all)
  BY IdentifiedFresh
<1>2. r = addSyncingNodes(l, nodes)
  BY DEF addSyncingNodes
<1>3. Consistent(r) /\ Typed(r)
  BY <1>2, AddNodesConsistent, AddNodesTyped DEF Mirrors, Fresh, Batch
<1>4. /\ r.byPublicKey = k.byPublicKey /\ r.byId = k.byId
      /\ r.syncing = k.syncing \cup new /\ r.active = k.active \ new
      /\ r.activeListByIdSorted = Without(k.activeListByIdSorted, new)
  BY <1>1, ToSyncingLists
<1>5. /\ l.syncing = s /\ l.active = a /\ l.byPublicKey = ids /\ DOMAIN ids = s \cup a
      /\ Range(seq) = a /\ seq \in Seq(PublicKeys)
  BY DEF Mirrors, Consistent, Partition, Typed
<1>6. new = DOMAIN nodes \ DOMAIN ids
  BY <1>5 DEF Unlisted
<1>7. new \cap a = {} /\ s \cup new = s \cup DOMAIN nodes
  BY <1>5, <1>6 DEF Fresh
<1> HIDE DEF k, new, r, all, seq
<1>8. Thinned(Without(seq, new), PublicKeys, seq, new)
  BY <1>5, WithoutElements
<1>9. Range(r.activeListByIdSorted) = a /\ Ascending(all, r.activeListByIdSorted)
  BY <1>1, <1>4, <1>5, <1>7, <1>8 DEF Thinned
<1>10. Mirrors(r, s \cup DOMAIN nodes, a, all)
  BY <1>1, <1>3, <1>4, <1>7, <1>9 DEF Mirrors
<1> QED
  BY <1>2, <1>10 DEF all

\* Nodes that an archiver downloads as active ones.
LEMMA JoinActiveMirrors ==
  ASSUME NEW l, NEW s, NEW a, NEW ids, Mirrors(l, s, a, ids),
         NEW nodes, Fresh(nodes, s, ids),
         DOMAIN nodes \cap DOMAIN ids = {}, \A pk \in DOMAIN nodes : nodes[pk] # NoId
  PROVE  Mirrors(addActiveNodes(l, nodes), s, a \cup DOMAIN nodes, Joined(ids, nodes))
<1> DEFINE k == Identified(l, nodes)
           new == Unlisted(l, nodes)
           r == ToActive(k, new)
           all == Joined(ids, nodes)
           seq == l.activeListByIdSorted
           longer == InsertAllSorted(all, seq, new)
<1>1. /\ WellFormed(k) /\ k.byPublicKey = all
      /\ DOMAIN k.byId = {all[pk] : pk \in Given(all)}
      /\ k.syncing = s /\ k.active = a /\ k.activeListByIdSorted = seq
      /\ Ascending(all, seq) /\ a \subseteq Given(all)
  BY IdentifiedFresh
<1>2. r = addActiveNodes(l, nodes)
  BY DEF addActiveNodes
<1>3. Consistent(r) /\ Typed(r)
  BY <1>2, AddNodesConsistent, AddNodesTyped DEF Mirrors, Fresh, Batch
<1>4. Activated(r, k, new)
  BY <1>1, ToActiveLists
<1>5. /\ l.syncing = s /\ l.active = a /\ l.byPublicKey = ids /\ DOMAIN ids = s \cup a
      /\ Range(seq) = a /\ seq \in Seq(PublicKeys)
  BY DEF Mirrors, Consistent, Partition, Typed
<1>6. new = DOMAIN nodes
  BY <1>5 DEF Unlisted
<1>7. new \cap a = {} /\ s \ new = s /\ new \ a = new /\ new \in SUBSET PublicKeys
  BY <1>5, <1>6 DEF Fresh, Batch
<1>8. a \cup new \subseteq Given(all)
  BY <1>1, <1>6 DEF Joined, Given
<1> HIDE DEF k, new, r, all, seq
<1>9. Merged(longer, PublicKeys, all, seq, new)
  BY <1>5, <1>7, FiniteBatch, InsertAllSortedElements
<1>10. Identifying(all, a \cup new)
  <2>1. \A pk \in Given(all) : all[pk] \in Ids /\ Owner[all[pk]] = pk
    BY <1>1, <1>3, <1>4 DEF Activated, Consistent, Owned, Given
  <2> QED
    BY <1>8, <2>1, IdAssumption DEF Identifying, Given
<1>11. /\ r.activeListByIdSorted = longer
       /\ Range(longer) = a \cup new /\ Ascending(all, longer)
  BY <1>1, <1>4, <1>5, <1>7, <1>9, <1>10 DEF Activated, Merged
<1>12. Mirrors(r, s, a \cup new, all)
  BY <1>1, <1>3, <1>4, <1>7, <1>8, <1>11 DEF Activated, Mirrors
<1> QED
  BY <1>2, <1>6, <1>12 DEF all

\* Syncing nodes that become active.
LEMMA ActivateMirrors ==
  ASSUME NEW l, NEW s, NEW a, NEW ids, Mirrors(l, s, a, ids),
         NEW pks, pks \subseteq s \cap Given(ids)
  PROVE  Mirrors(setActive(l, pks), s \ pks, a \cup pks, ids)
<1> DEFINE r == ToActive(l, pks)
           seq == l.activeListByIdSorted
           longer == InsertAllSorted(ids, seq, pks)
<1>1. /\ l.syncing = s /\ l.active = a /\ l.byPublicKey = ids /\ DOMAIN ids = s \cup a
      /\ DOMAIN l.byId = {ids[pk] : pk \in Given(ids)} /\ a \subseteq Given(ids)
      /\ Range(seq) = a /\ seq \in Seq(PublicKeys) /\ Ascending(ids, seq)
      /\ WellFormed(l) /\ s \cap a = {} /\ s \subseteq PublicKeys
  BY DEF Mirrors, Consistent, Partition, Typed
<1>2. pks \cap DOMAIN l.byPublicKey = pks
  BY <1>1
<1>3. r = setActive(l, pks)
  BY <1>2 DEF setActive
<1>4. Consistent(r) /\ Typed(r)
  BY <1>3, SetStatusConsistent, SetStatusTyped DEF Mirrors
<1>5. Activated(r, l, pks)
  BY <1>1, ToActiveLists
<1>6. pks \ a = pks /\ pks \cap a = {} /\ pks \in SUBSET PublicKeys
  BY <1>1
<1> HIDE DEF r
<1> HIDE DEF seq
<1>7. Merged(longer, PublicKeys, ids, seq, pks)
  BY <1>1, <1>6, FiniteBatch, InsertAllSortedElements
<1>8. a \cup pks \subseteq Given(ids)
  BY <1>1
<1>9. Identifying(ids, a \cup pks)
  BY <1>8, MirrorsIdentify
<1>10. /\ r.activeListByIdSorted = longer
       /\ Range(longer) = a \cup pks /\ Ascending(ids, longer)
  BY <1>1, <1>5, <1>6, <1>7, <1>9 DEF Activated, Merged, seq
<1> HIDE DEF longer
<1>11. Mirrors(r, s \ pks, a \cup pks, ids)
  BY <1>1, <1>4, <1>5, <1>8, <1>10 DEF Activated, Mirrors
<1> QED
  BY <1>3, <1>11

\* Active nodes that are refreshed under the ids they have.
LEMMA RefreshMirrors ==
  ASSUME NEW l, NEW s, NEW a, NEW ids, Mirrors(l, s, a, ids),
         NEW nodes, DOMAIN nodes \subseteq DOMAIN ids,
         \A pk \in DOMAIN nodes : nodes[pk] = ids[pk]
  PROVE  Mirrors(refreshNodes(l, nodes), s, a, ids)
<1> DEFINE k == Identified(l, nodes)
           given == {pk \in DOMAIN nodes : nodes[pk] # NoId}
           fresh == {nodes[pk] : pk \in given}
           map == [pk \in DOMAIN l.byPublicKey \cup DOMAIN nodes |->
                     IF pk \in given \/ pk \notin DOMAIN l.byPublicKey
                       THEN nodes[pk] ELSE l.byPublicKey[pk]]
           r == refreshNodes(l, nodes)
           seq == l.activeListByIdSorted
           longer == InsertAllSorted(ids, seq, {})
<1>1. /\ l.syncing = s /\ l.active = a /\ l.byPublicKey = ids /\ DOMAIN ids = s \cup a
      /\ DOMAIN l.byId = {ids[pk] : pk \in Given(ids)} /\ a \subseteq Given(ids)
      /\ Range(seq) = a /\ seq \in Seq(PublicKeys) /\ Ascending(ids, seq)
      /\ WellFormed(l) /\ DOMAIN ids \subseteq PublicKeys /\ Owned(ids)
      /\ ids = [pk \in DOMAIN ids |-> ids[pk]]
  BY DEF Mirrors, Consistent, Partition, Typed
<1>2. Batch(nodes)
  BY <1>1 DEF Batch, Owned
<1>3. /\ WellFormed(k) /\ k.byPublicKey = map
      /\ k.syncing = l.syncing /\ k.active = l.active
      /\ k.activeListByIdSorted = seq
      /\ DOMAIN k.byId = DOMAIN l.byId \cup fresh
  <2>1. Assigned(k, l, nodes)
    BY <1>1, IdentifiedLists
  <2> HIDE DEF k
  <2> QED
    BY <2>1 DEF Assigned
<1>4. map = ids
  BY <1>1
<1>5. DOMAIN l.byId \cup fresh = DOMAIN l.byId
  BY <1>1 DEF Given
<1>6. Unlisted(l, nodes) = {}
  BY <1>1 DEF Unlisted
<1>7. Consistent(r) /\ Typed(r)
  BY <1>2, RefreshNodesConsistent, AddNodesTyped DEF Mirrors, Batch
<1>8. Refreshed(r, k, {})
  <2>1. Refreshed(r, k, Unlisted(l, nodes))
    BY <1>1, RefreshNodesLists
  <2> HIDE DEF r, k
  <2> QED
    BY <1>6, <2>1
<1> HIDE DEF k, r, seq, map, fresh
<1>9. Merged(longer, PublicKeys, ids, seq, {})
  BY <1>1, FiniteBatch, InsertAllSortedElements
<1>10. Identifying(ids, a \cup {})
  BY <1>1, MirrorsIdentify
<1>11. /\ r.activeListByIdSorted = longer
       /\ Range(longer) = a /\ Ascending(ids, longer)
  BY <1>1, <1>3, <1>4, <1>8, <1>9, <1>10 DEF Merged, Refreshed
<1> HIDE DEF longer
<1>12. Mirrors(r, s, a, ids)
  BY <1>1, <1>3, <1>4, <1>5, <1>7, <1>8, <1>11 DEF Mirrors, Refreshed
<1> QED
  BY <1>12 DEF r

\* Standby nodes that come and go.
LEMMA StandbyMirrors ==
  ASSUME NEW l, NEW s, NEW a, NEW ids, Mirrors(l, s, a, ids), NEW pks
  PROVE  /\ pks \subseteq PublicKeys => Mirrors(addStandbyNodes(l, pks), s, a, ids)
         /\ Mirrors(removeStandbyNodes(l, pks), s, a, ids)
<1>1. ASSUME NEW k, k \in {addStandbyNodes(l, pks), removeStandbyNodes(l, pks)},
             Consistent(k), Typed(k)
      PROVE  Mirrors(k, s, a, ids)
  <2>1. Waiting(k, l, l.standby \cup pks)
    <3>1. WellFormed(l)
      BY DEF Typed, Mirrors
    <3> QED
      BY <1>1, <3>1, StandbyLists
  <2> QED
    BY <1>1, <2>1 DEF Waiting, Mirrors
<1>2. /\ Consistent(addStandbyNodes(l, pks)) /\ Consistent(removeStandbyNodes(l, pks))
      /\ pks \subseteq PublicKeys => Typed(addStandbyNodes(l, pks))
      /\ Typed(removeStandbyNodes(l, pks))
  BY StandbyConsistent, StandbyTyped DEF Mirrors
<1> QED
  BY <1>1, <1>2

\* The nodes that have one of these ids.
Bearing(ids, some) == {pk \in DOMAIN ids : ids[pk] \in some}

\* Ids that leave the network.
LEMMA RemoveMirrors ==
  ASSUME NEW l, NEW s, NEW a, NEW ids, Mirrors(l, s, a, ids), NEW some, NoId \notin some
  PROVE  LET gone == Bearing(ids, some)
         IN Mirrors(removeNodes(l, KeysOf(l, some)), s \ gone, a \ gone, Left(ids, gone))
<1> DEFINE gone == Bearing(ids, some)
           goneIds == {ids[pk] : pk \in gone}
           keys == KeysOf(l, some)
           r == removeNodes(l, keys)
           left == Left(ids, gone)
           seq == l.activeListByIdSorted
           goneKeys == {pk \in Range(seq) : ids[pk] \in goneIds}
<1>1. /\ l.syncing = s /\ l.active = a /\ l.byPublicKey = ids /\ DOMAIN ids = s \cup a
      /\ DOMAIN l.byId = {ids[pk] : pk \in Given(ids)} /\ a \subseteq Given(ids)
      /\ Range(seq) = a /\ seq \in Seq(PublicKeys) /\ Ascending(ids, seq)
      /\ WellFormed(l)
  BY DEF Mirrors, Consistent, Partition, Typed
<1>2. \A pk \in Given(ids) : Owner[ids[pk]] = pk /\ ids[pk] \in DOMAIN l.byId /\ l.byId[ids[pk]] = pk
  BY DEF Mirrors, Consistent, Owned, Found, Given
<1>3. keys = gone
  <2>1. \A pk \in gone : pk \in Given(ids)
    BY DEF Bearing, Given
  <2>2. \A id \in DOMAIN l.byId : \E pk \in Given(ids) : id = ids[pk] /\ l.byId[id] = pk
    BY <1>1, <1>2
  <2>3. keys = {l.byId[id] : id \in some \cap DOMAIN l.byId} \cap DOMAIN ids
    BY <1>1 DEF KeysOf
  <2> QED
    BY <1>2, <2>1, <2>2, <2>3 DEF Bearing, Given
<1>4. Consistent(r) /\ Typed(r)
  BY RemoveNodesConsistent, RemoveNodesTyped DEF Mirrors
<1>5. gone = keys \cap DOMAIN l.byPublicKey /\ goneIds = {l.byPublicKey[pk] : pk \in gone}
  BY <1>1, <1>3 DEF Bearing
<1>6. gone \subseteq Given(ids)
  BY DEF Bearing, Given
<1>7. \A pk \in Given(ids) : ids[pk] \in goneIds <=> pk \in gone
  BY <1>2, <1>6
<1> HIDE DEF gone, goneIds, keys, r
<1>8. Purged(r, l, gone, goneIds)
  BY <1>1, <1>5, RemoveNodesLists DEF r
<1>9. /\ r.byPublicKey = left /\ DOMAIN left = DOMAIN ids \ gone
      /\ \A pk \in DOMAIN left : left[pk] = ids[pk]
  BY <1>1, <1>8 DEF Purged, Left
<1>10. DOMAIN r.byId = {left[pk] : pk \in Given(left)}
  <2>1. DOMAIN r.byId = {ids[pk] : pk \in Given(ids)} \ goneIds
    BY <1>1, <1>8 DEF Purged
  <2>2. Given(left) = Given(ids) \ gone
    BY <1>9 DEF Given
  <2>3. \A pk \in Given(left) : left[pk] = ids[pk]
    BY <1>9 DEF Given
  <2> HIDE DEF left
  <2> QED
    BY <1>7, <2>1, <2>2, <2>3
<1>11. a \ gone \subseteq Given(left)
  BY <1>1, <1>9 DEF Given
<1>12. goneKeys = a \cap gone
  BY <1>1, <1>7
<1>13. r.activeListByIdSorted = Without(seq, goneKeys)
  BY <1>1, <1>8 DEF Purged, WithoutIds
<1> HIDE DEF goneKeys, left
<1>14. Thinned(r.activeListByIdSorted, PublicKeys, seq, goneKeys)
  BY <1>1, <1>13, WithoutElements
<1>15. Range(r.activeListByIdSorted) = a \ gone
  BY <1>1, <1>12, <1>14 DEF Thinned
<1>16. Ascending(left, r.activeListByIdSorted)
  <2>1. Ascending(ids, r.activeListByIdSorted)
    BY <1>1, <1>14 DEF Thinned
  <2>2. \A i \in DOMAIN r.activeListByIdSorted : r.activeListByIdSorted[i] \in a \ gone
    BY <1>15 DEF Range
  <2>3. \A pk \in a \ gone : left[pk] = ids[pk]
    BY <1>1, <1>9
  <2> QED
    BY <2>1, <2>2, <2>3 DEF Ascending
<1>17. r.syncing = s \ gone /\ r.active = a \ gone
  BY <1>1, <1>8 DEF Purged
<1>18. Mirrors(r, s \ gone, a \ gone, left)
  BY <1>4, <1>9, <1>10, <1>11, <1>15, <1>16, <1>17 DEF Mirrors
<1> QED
  BY <1>3, <1>18 DEF r, gone, left, keys

\* Active nodes that start over when the network is restored.
LEMMA RestoreMirrors ==
  ASSUME NEW l, NEW s, NEW a, NEW ids, Mirrors(l, s, a, ids)
  PROVE  Mirrors(changeNodeListInRestore(l), s \cup a, {}, ids)
<1> DEFINE r == ToSyncing(l, a)
           seq == l.activeListByIdSorted
<1>1. /\ l.syncing = s /\ l.active = a /\ l.byPublicKey = ids /\ DOMAIN ids = s \cup a
      /\ Range(seq) = a /\ seq \in Seq(PublicKeys) /\ Ascending(ids, seq)
      /\ WellFormed(l)
  BY DEF Mirrors, Consistent, Partition, Typed
<1>2. a \cap DOMAIN l.byPublicKey = a
  BY <1>1
<1>3. r = changeNodeListInRestore(l)
  BY <1>1, <1>2 DEF changeNodeListInRestore, setSyncing
<1>4. Consistent(r) /\ Typed(r)
  BY <1>3, SetStatusConsistent, SetStatusTyped DEF Mirrors
<1>5. /\ r.byPublicKey = l.byPublicKey /\ r.byId = l.byId
      /\ r.syncing = l.syncing \cup a /\ r.active = l.active \ a
      /\ r.activeListByIdSorted = Without(seq, a)
  BY <1>1, ToSyncingLists
<1> HIDE DEF r, seq
<1>6. Thinned(r.activeListByIdSorted, PublicKeys, seq, a)
  BY <1>1, <1>5, WithoutElements
<1>7. Range(r.activeListByIdSorted) = {} /\ Ascending(ids, r.activeListByIdSorted)
  BY <1>1, <1>6 DEF Thinned
<1>8. Mirrors(r, s \cup a, {}, ids)
  BY <1>1, <1>4, <1>5, <1>7 DEF Mirrors
<1> QED
  BY <1>3, <1>8

\* A record about the nodes of these lists: the nodes that join are not listed, or have no
\* id yet; the nodes activated are syncing and have one; the nodes refreshed keep theirs.
About(cycle, s, a, ids) ==
  /\ Fresh(cycle.joinedConsensors, s, ids)
  /\ cycle.activated \subseteq s \cap Given(ids)
  /\ cycle.activated \cap DOMAIN cycle.joinedConsensors = {}
  /\ DOMAIN cycle.refreshedConsensors \subseteq DOMAIN ids \ DOMAIN cycle.joinedConsensors
  /\ \A pk \in DOMAIN cycle.refreshedConsensors : cycle.refreshedConsensors[pk] = ids[pk]
  /\ cycle.standbyAdd \subseteq PublicKeys
  /\ NoId \notin cycle.removed \cup cycle.apoptosized \cup cycle.lostAfterSelection

\* What a record says of the nodes' ids, and the nodes that leave.
IdsAfter(cycle, ids) == Joined(ids, cycle.joinedConsensors)
GoneAfter(cycle, ids) ==
  Bearing(IdsAfter(cycle, ids), cycle.removed \cup cycle.apoptosized \cup cycle.lostAfterSelection)

LEMMA UpdateNodeListMirrors ==
  ASSUME NEW l, NEW s, NEW a, NEW ids, Mirrors(l, s, a, ids), NEW cycle, About(cycle, s, a, ids)
  PROVE  LET gone == GoneAfter(cycle, ids)
         IN Mirrors(updateNodeList(l, cycle),
                    ((s \cup DOMAIN cycle.joinedConsensors) \ cycle.activated) \ gone,
                    (a \cup cycle.activated) \ gone,
                    Left(IdsAfter(cycle, ids), gone))
<1> DEFINE joined == addSyncingNodes(l, cycle.joinedConsensors)
           activated == setActive(joined, cycle.activated)
           refreshed == refreshNodes(activated, cycle.refreshedConsensors)
           added == addStandbyNodes(refreshed, cycle.standbyAdd)
           waiting == removeStandbyNodes(added, cycle.standbyRemove)
           kept == removeNodes(waiting, KeysOf(waiting, cycle.removed))
           alive == removeNodes(kept, KeysOf(kept, cycle.apoptosized))
           last == removeNodes(alive, KeysOf(alive, cycle.lostAfterSelection))
           all == IdsAfter(cycle, ids)
           s1 == s \cup DOMAIN cycle.joinedConsensors
           s2 == s1 \ cycle.activated
           a2 == a \cup cycle.activated
           gone1 == Bearing(all, cycle.removed)
           left1 == Left(all, gone1)
           gone2 == Bearing(left1, cycle.apoptosized)
           left2 == Left(left1, gone2)
           gone3 == Bearing(left2, cycle.lostAfterSelection)
           left3 == Left(left2, gone3)
           gone == GoneAfter(cycle, ids)
<1>1. updateNodeList(l, cycle) = last
  BY DEF updateNodeList
<1>2. Mirrors(joined, s1, a, all)
  BY JoinMirrors DEF About, IdsAfter
<1> HIDE DEF joined
<1>3. cycle.activated \subseteq s1 \cap Given(all)
  BY DEF About, IdsAfter, Joined, Given
<1>4. /\ DOMAIN cycle.refreshedConsensors \subseteq DOMAIN all
      /\ \A pk \in DOMAIN cycle.refreshedConsensors : cycle.refreshedConsensors[pk] = all[pk]
  BY DEF About, IdsAfter, Joined
<1>5. /\ cycle.standbyAdd \subseteq PublicKeys
      /\ NoId \notin cycle.removed /\ NoId \notin cycle.apoptosized
      /\ NoId \notin cycle.lostAfterSelection
  BY DEF About
<1>6. /\ gone1 \cup gone2 \cup gone3 = gone
      /\ left3 = Left(all, gone)
  <2> HIDE DEF all
  <2>1. /\ DOMAIN left1 = DOMAIN all \ gone1
        /\ \A pk \in DOMAIN left1 : left1[pk] = all[pk]
    BY DEF Left
  <2> HIDE DEF left1, gone1
  <2>2. /\ DOMAIN left2 = DOMAIN left1 \ gone2
        /\ \A pk \in DOMAIN left2 : left2[pk] = left1[pk]
    BY DEF Left
  <2> HIDE DEF left2, gone2
  <2>3. gone1 \cup gone2 \cup gone3 = gone
    BY <2>1, <2>2 DEF gone1, gone2, Bearing, GoneAfter, all
  <2>4. left3 = [pk \in DOMAIN left2 \ gone3 |-> left2[pk]]
    BY DEF Left
  <2> HIDE DEF gone3, gone
  <2>5. DOMAIN left2 \ gone3 = DOMAIN all \ gone
    BY <2>1, <2>2, <2>3
  <2>6. \A pk \in DOMAIN all \ gone : left2[pk] = all[pk]
    BY <2>1, <2>2, <2>3, <2>5
  <2>7. left3 = [pk \in DOMAIN all \ gone |-> all[pk]]
    BY <2>4, <2>5, <2>6
  <2> QED
    BY <2>3, <2>7 DEF Left
<1> HIDE DEF all
<1>7. Mirrors(activated, s2, a2, all)
  BY <1>2, <1>3, ActivateMirrors
<1> HIDE DEF activated
<1>8. Mirrors(refreshed, s2, a2, all)
  BY <1>4, <1>7, RefreshMirrors
<1> HIDE DEF refreshed
<1>9. Mirrors(added, s2, a2, all)
  BY <1>5, <1>8, StandbyMirrors
<1> HIDE DEF added
<1>10. Mirrors(waiting, s2, a2, all)
  BY <1>9, StandbyMirrors
<1> HIDE DEF waiting, s2, a2
<1>11. Mirrors(kept, s2 \ gone1, a2 \ gone1, left1)
  BY <1>5, <1>10, RemoveMirrors
<1> HIDE DEF kept, left1
<1>12. Mirrors(alive, (s2 \ gone1) \ gone2, (a2 \ gone1) \ gone2, left2)
  BY <1>5, <1>11, RemoveMirrors
<1> HIDE DEF alive, left2
<1>13. Mirrors(last, ((s2 \ gone1) \ gone2) \ gone3, ((a2 \ gone1) \ gone2) \ gone3, left3)
  BY <1>5, <1>12, RemoveMirrors
<1> HIDE DEF last, left3, gone1, gone2, gone3, gone
<1>14. /\ ((s2 \ gone1) \ gone2) \ gone3 = s2 \ gone
       /\ ((a2 \ gone1) \ gone2) \ gone3 = a2 \ gone
  BY <1>6
<1>15. Mirrors(last, s2 \ gone, a2 \ gone, Left(all, gone))
  BY <1>6, <1>13, <1>14
<1> QED
  BY <1>1, <1>15 DEF s2, a2, all, gone

LEMMA UpdateNodeListTyped ==
  ASSUME NEW l, Typed(l), NEW cycle, cycle.standbyAdd \subseteq PublicKeys,
         Batch(cycle.joinedConsensors), Batch(cycle.refreshedConsensors)
  PROVE  Typed(updateNodeList(l, cycle))
<1> DEFINE joined == addSyncingNodes(l, cycle.joinedConsensors)
           activated == setActive(joined, cycle.activated)
           refreshed == refreshNodes(activated, cycle.refreshedConsensors)
           added == addStandbyNodes(refreshed, cycle.standbyAdd)
           waiting == removeStandbyNodes(added, cycle.standbyRemove)
           kept == removeNodes(waiting, KeysOf(waiting, cycle.removed))
           alive == removeNodes(kept, KeysOf(kept, cycle.apoptosized))
           last == removeNodes(alive, KeysOf(alive, cycle.lostAfterSelection))
<1>1. updateNodeList(l, cycle) = last
  BY DEF updateNodeList
<1>2. Typed(joined)
  BY AddNodesTyped
<1> HIDE DEF joined
<1>3. Typed(activated)
  BY <1>2, SetStatusTyped
<1> HIDE DEF activated
<1>4. Typed(refreshed)
  BY <1>3, AddNodesTyped
<1> HIDE DEF refreshed
<1>5. Typed(added)
  BY <1>4, StandbyTyped
<1> HIDE DEF added
<1>6. Typed(waiting)
  BY <1>5, StandbyTyped
<1> HIDE DEF waiting
<1>7. Typed(kept)
  BY <1>6, RemoveNodesTyped
<1> HIDE DEF kept
<1>8. Typed(alive)
  BY <1>7, RemoveNodesTyped
<1> HIDE DEF alive
<1>9. Typed(last)
  BY <1>8, RemoveNodesTyped
<1> QED
  BY <1>1, <1>9

-----------------------------------------------------------------------------
(* The composition with the network *)

\* The lists are consistent whatever was missed, and the network's ids belong to its nodes.
IndInv ==
  /\ Consistent(lists)
  /\ Owned(net.ids)
  /\ net.syncing \cup net.active \subseteq DOMAIN net.ids

\* What the changes of a cycle are about.
LEMMA ChangeSubjects ==
  ASSUME NEW changes \in ChangeSets, NEW c \in changes
  PROVE  /\ c.type = "join" => c.id \in Ids
         /\ c.type = "activate" => c.node \in net.syncing
         /\ c.type = "refresh" => c.node \in net.active
<1>1. CASE firstNode # NoNode
  <2>1. PICK id \in Ids : changes = {[type |-> "join", id |-> id]}
    BY <1>1 DEF ChangeSets
  <2> QED
    BY <2>1
<1>2. CASE firstNode = NoNode
  <2>1. PICK f \in [1..MaxNodes -> UNION {NodeChanges(pk) : pk \in PublicKeys}] :
             changes = UNION Range(f)
    BY <1>2 DEF ChangeSets
  <2>2. c \in Changes
    BY <2>1 DEF NodeChanges, Range
  <2> QED
    BY <2>2 DEF Changes
<1> QED
  BY <1>1, <1>2

\* Every record the network produces gives nodes their own ids.
LEMMA CycleOwned ==
  ASSUME IndInv, NEW changes \in ChangeSets, NEW mode
  PROVE  LET cycle == Cycle(changes, mode)
         IN /\ Owned(cycle.joinedConsensors)
            /\ Owned(cycle.refreshedConsensors)
            /\ cycle.activated \subseteq net.syncing
<1> DEFINE nodesOf(type) == {c.node : c \in {d \in changes : d.type = type}}
           joining == {c.id : c \in {d \in changes : d.type = "join"}}
           joined == [pk \in {Owner[id] : id \in joining} |->
                        CHOOSE id \in joining : Owner[id] = pk]
           refreshed == [pk \in nodesOf("refresh") |-> net.ids[pk]]
<1>1. /\ Cycle(changes, mode).joinedConsensors = joined
      /\ Cycle(changes, mode).refreshedConsensors = refreshed
      /\ Cycle(changes, mode).activated = nodesOf("activate")
  BY DEF Cycle
<1>2. joining \subseteq Ids
  BY ChangeSubjects
<1>3. Owned(joined)
  <2> HIDE DEF joining
  <2> SUFFICES ASSUME NEW pk \in DOMAIN joined
               PROVE  joined[pk] \in Ids /\ Owner[joined[pk]] = pk
    BY DEF Owned
  <2>1. \E id \in joining : Owner[id] = pk
    OBVIOUS
  <2>2. joined[pk] \in joining /\ Owner[joined[pk]] = pk
    BY <2>1
  <2> QED
    BY <1>2, <2>2
<1>4. nodesOf("refresh") \subseteq net.active
  BY ChangeSubjects
<1>5. Owned(refreshed)
  BY <1>4 DEF Owned, IndInv
<1>6. nodesOf("activate") \subseteq net.syncing
  BY ChangeSubjects
<1> HIDE DEF nodesOf, joined, refreshed
<1> QED
  BY <1>1, <1>3, <1>5, <1>6

\* The network keeps its nodes' ids.
LEMMA NetworkAfterOwned ==
  ASSUME IndInv, NEW cycle, Owned(cycle.joinedConsensors), cycle.activated \subseteq net.syncing
  PROVE  LET after == NetworkAfter(cycle)
         IN /\ Owned(after.ids)
            /\ after.syncing \cup after.active \subseteq DOMAIN after.ids
<1> DEFINE joined == cycle.joinedConsensors
           ids == [pk \in DOMAIN net.ids \cup DOMAIN joined |->
                     IF pk \in DOMAIN joined THEN joined[pk] ELSE net.ids[pk]]
           gone == {pk \in DOMAIN ids : ids[pk] \in
                      cycle.removed \cup cycle.apoptosized \cup cycle.lostAfterSelection}
           kept == [pk \in DOMAIN ids \ gone |-> ids[pk]]
           after == NetworkAfter(cycle)
<1>1. Owned(ids) /\ DOMAIN ids = DOMAIN net.ids \cup DOMAIN joined
  BY DEF Owned, IndInv
<1>2. Owned(kept) /\ DOMAIN kept = (DOMAIN net.ids \cup DOMAIN joined) \ gone
  <2> HIDE DEF ids, gone
  <2> QED
    BY <1>1 DEF Owned
<1>3. CASE cycle.mode = "shutdown"
  <2>1. after.ids = <<>> /\ after.syncing = {} /\ after.active = {}
    BY <1>3 DEF NetworkAfter, EmptyNet
  <2>2. DOMAIN <<>> = {}
    OBVIOUS
  <2> QED
    BY <2>1, <2>2 DEF Owned
<1>4. CASE cycle.mode # "shutdown"
  <2>1. /\ after.ids = kept
        /\ after.syncing \cup after.active
             \subseteq (net.syncing \cup net.active \cup DOMAIN joined \cup cycle.activated) \ gone
    BY <1>4 DEF NetworkAfter
  <2> HIDE DEF after, kept, gone, joined
  <2>2. net.syncing \cup net.active \cup DOMAIN joined \cup cycle.activated
          \subseteq DOMAIN net.ids \cup DOMAIN joined
    BY DEF IndInv
  <2> QED
    BY <1>2, <2>1, <2>2 DEF after
<1> QED
  BY <1>3, <1>4

LEMMA CycleCreatedInv == IndInv /\ CycleCreated => IndInv'
<1> SUFFICES ASSUME IndInv, CycleCreated PROVE IndInv'
  OBVIOUS
<1>1. PICK changes \in ChangeSets, mode \in NextModes :
        /\ NetworkCycle(Cycle(changes, mode))
        /\ \/ ProcessCycle(Cycle(changes, mode))
           \/ MissCycle
           \/ SyncV2(Cycle(changes, mode))
  BY DEF CycleCreated
<1> DEFINE cycle == Cycle(changes, mode)
<1>2. /\ Owned(cycle.joinedConsensors) /\ Owned(cycle.refreshedConsensors)
      /\ cycle.activated \subseteq net.syncing
  BY CycleOwned
<1>3. NetworkCycle(cycle) /\ (ProcessCycle(cycle) \/ MissCycle \/ SyncV2(cycle))
  BY <1>1
<1> HIDE DEF cycle
<1>4. Owned(net'.ids) /\ net'.syncing \cup net'.active \subseteq DOMAIN net'.ids
  <2>1. net' = NetworkAfter(cycle)
    BY <1>3 DEF NetworkCycle
  <2>2. /\ Owned(NetworkAfter(cycle).ids)
        /\ NetworkAfter(cycle).syncing \cup NetworkAfter(cycle).active
             \subseteq DOMAIN NetworkAfter(cycle).ids
    BY <1>2, NetworkAfterOwned
  <2> QED
    BY <2>1, <2>2
<1>5. ASSUME ProcessCycle(cycle) PROVE Consistent(lists')
  <2>1. lists' = Processed(lists, currentNetworkMode, cycle)
    BY <1>5 DEF ProcessCycle
  <2>2. Consistent(Processed(lists, currentNetworkMode, cycle))
    BY <1>2, ProcessedConsistent DEF IndInv
  <2> QED
    BY <2>1, <2>2
<1>6. ASSUME MissCycle PROVE Consistent(lists')
  BY <1>6 DEF MissCycle, IndInv
<1>7. ASSUME SyncV2(cycle) PROVE Consistent(lists')
  <2> DEFINE syncing == [pk \in net.syncing |-> net.ids[pk]]
             active == [pk \in net.active |-> net.ids[pk]]
             withSyncing == addSyncingNodes(EmptyLists, syncing)
             withActive == addActiveNodes(withSyncing, active)
  <2>1. Owned(syncing) /\ Owned(active)
    BY DEF Owned, IndInv
  <2>2. Downloaded = addStandbyNodes(withActive, net.standby)
    BY DEF Downloaded
  <2> HIDE DEF syncing, active
  <2>3. Consistent(withSyncing)
    BY <2>1, EmptyConsistent, AddNodesConsistent
  <2> HIDE DEF withSyncing
  <2>4. Consistent(withActive)
    BY <2>1, <2>3, AddNodesConsistent
  <2> HIDE DEF withActive
  <2>5. Consistent(Downloaded)
    BY <2>2, <2>4, StandbyConsistent
  <2>6. Consistent(Processed(Downloaded, "forming", cycle))
    BY <1>2, <2>5, ProcessedConsistent
  <2>7. lists' = Processed(Downloaded, "forming", cycle)
    BY <1>7 DEF SyncV2
  <2> QED
    BY <2>6, <2>7
<1>8. Consistent(lists')
  BY <1>3, <1>5, <1>6, <1>7
<1> QED
  BY <1>4, <1>8 DEF IndInv

LEMMA NodeListInvariance == Spec => []IndInv
<1>1. Init => IndInv
  <2>1. DOMAIN <<>> = {}
    OBVIOUS
  <2> QED
    BY <2>1, EmptyConsistent DEF Init, IndInv, EmptyNet, Owned
<1>2. IndInv /\ [Next]_vars => IndInv'
  <2> SUFFICES ASSUME IndInv, [Next]_vars PROVE IndInv'
    OBVIOUS
  <2>1. CASE CycleCreated
    BY <2>1, CycleCreatedInv
  <2>2. CASE ClearNodeLists
    BY <2>2, EmptyConsistent DEF ClearNodeLists, networkVars, IndInv
  <2>3. CASE \E pk \in PublicKeys : PostNodeList(pk)
    <3>1. PICK pk \in PublicKeys : PostNodeList(pk)
      BY <2>3
    <3>2. Owned([key \in {pk} |-> NoId])
      BY DEF Owned
    <3>3. Consistent(addSyncingNodes(lists, [key \in {pk} |-> NoId]))
      BY <3>2, AddNodesConsistent DEF IndInv
    <3> QED
      BY <3>1, <3>3 DEF PostNodeList, IndInv
  <2>4. CASE UNCHANGED vars
    BY <2>4 DEF vars, archiverVars, networkVars, IndInv
  <2> QED
    BY <2>1, <2>2, <2>3, <2>4 DEF Next
<1> QED
  BY <1>1, <1>2, PTL DEF Spec

-----------------------------------------------------------------------------
(* The lists follow the network's *)

\* The network's lists are typed, name each node once and are empty while it is down.
NetworkInv ==
  /\ net.standby \cup net.syncing \cup net.active \subseteq PublicKeys
  /\ net.ids \in [DOMAIN net.ids -> Ids]
  /\ DOMAIN net.ids = net.syncing \cup net.active
  /\ net.syncing \cap net.active = {}
  /\ net.standby \cap DOMAIN net.ids = {}
  /\ Owned(net.ids)
  /\ usedIds \subseteq Ids
  /\ firstNode \in PublicKeys \cup {NoNode}
  /\ firstNode # NoNode \/ netMode \in {"down", "shutdown"} => net = EmptyNet
  /\ clearing \in BOOLEAN /\ missed \in BOOLEAN
  /\ clearing => /\ firstNode = NoNode
                 /\ netMode = "shutdown" /\ currentNetworkMode = "shutdown"

\* What an archiver that missed nothing has listed: the network's nodes, or the first node,
\* which has no id yet.
SyncingNow == IF firstNode = NoNode THEN net.syncing ELSE {firstNode}
IdsNow == IF firstNode = NoNode THEN net.ids ELSE [pk \in {firstNode} |-> NoId]

\* It also knows the network's mode, except while the first node starts the network: then
\* it is in no mode that a change to restore matters to.
FollowsMode ==
  IF firstNode # NoNode \/ netMode = "down"
    THEN currentNetworkMode \notin {"restart", "recovery"}
    ELSE currentNetworkMode = netMode

ArchiverInv ==
  /\ Typed(lists)
  /\ ~missed => /\ FollowsMode
                /\ Ascending(lists.byPublicKey, lists.activeListByIdSorted)
  /\ ~missed /\ ~clearing => Mirrors(lists, SyncingNow, net.active, IdsNow)

SyncInv == NetworkInv /\ ArchiverInv

\* A record that some network may produce, with these lists of its nodes.
Producible(cycle) ==
  /\ About(cycle, net.syncing, net.active, net.ids)
  /\ About(cycle, SyncingNow, net.active, IdsNow)
  /\ Batch(cycle.joinedConsensors) /\ Batch(cycle.refreshedConsensors)
  /\ \A pk \in DOMAIN cycle.joinedConsensors : cycle.joinedConsensors[pk] \in Ids
  /\ cycle.joinedConsensors = [pk \in DOMAIN cycle.joinedConsensors |-> cycle.joinedConsensors[pk]]
  /\ cycle.standbyAdd \cap (DOMAIN net.ids \cup DOMAIN cycle.joinedConsensors) = {}
  /\ firstNode = NoNode => DOMAIN cycle.joinedConsensors \subseteq net.standby
  /\ firstNode # NoNode =>
       /\ DOMAIN cycle.joinedConsensors = {firstNode}
       /\ cycle.activated = {} /\ cycle.standbyAdd = {}
       /\ cycle.removed \cup cycle.apoptosized \cup cycle.lostAfterSelection = {}

\* What the changes of a cycle are about, while the network runs.
LEMMA ChangesOfNetwork ==
  ASSUME firstNode = NoNode, NEW changes \in ChangeSets, NEW c \in changes
  PROVE  /\ c.type = "join" => c.id \in Ids /\ Owner[c.id] \in net.standby
         /\ c.type = "activate" => c.node \in net.syncing
         /\ c.type = "refresh" => c.node \in net.active
         /\ c.type = "standbyAdd" => c.node \in PublicKeys \ (net.standby \cup DOMAIN net.ids)
         /\ c.type \in {"removed", "apoptosized"} => c.node \in DOMAIN net.ids
         /\ c.type = "lostAfterSelection" => c.node \in net.syncing
<1>1. PICK f \in [1..MaxNodes -> UNION {NodeChanges(pk) : pk \in PublicKeys}] :
           changes = UNION Range(f)
  BY DEF ChangeSets
<1>2. c \in Changes
  BY <1>1 DEF NodeChanges, Range
<1> QED
  BY <1>2 DEF Changes

LEMMA CycleProducible ==
  ASSUME NetworkInv, NEW changes \in ChangeSets, NEW mode
  PROVE  Producible(Cycle(changes, mode)) /\ Cycle(changes, mode).mode = mode
<1> DEFINE nodesOf(type) == {c.node : c \in {d \in changes : d.type = type}}
           idsOf(type) == {net.ids[pk] : pk \in nodesOf(type)}
           joining == {c.id : c \in {d \in changes : d.type = "join"}}
           joined == [pk \in {Owner[id] : id \in joining} |->
                        CHOOSE id \in joining : Owner[id] = pk]
           refreshed == [pk \in nodesOf("refresh") |-> net.ids[pk]]
           cycle == Cycle(changes, mode)
<1>1. /\ cycle.joinedConsensors = joined /\ cycle.refreshedConsensors = refreshed
      /\ cycle.activated = nodesOf("activate") /\ cycle.standbyAdd = nodesOf("standbyAdd")
      /\ cycle.removed = idsOf("removed") /\ cycle.apoptosized = idsOf("apoptosized")
      /\ cycle.lostAfterSelection = idsOf("lostAfterSelection") /\ cycle.mode = mode
  BY DEF Cycle
<1> HIDE DEF cycle
<1>2. /\ DOMAIN joined = {Owner[id] : id \in joining}
      /\ \A pk \in DOMAIN joined : joined[pk] \in joining /\ Owner[joined[pk]] = pk
      /\ joined = [pk \in DOMAIN joined |-> joined[pk]]
  <2> HIDE DEF joining
  <2>1. \A pk \in {Owner[id] : id \in joining} : \E id \in joining : Owner[id] = pk
    OBVIOUS
  <2> QED
    BY <2>1
<1>3. /\ DOMAIN refreshed = nodesOf("refresh")
      /\ \A pk \in DOMAIN refreshed : refreshed[pk] = net.ids[pk]
  OBVIOUS
<1> HIDE DEF joined, refreshed
<1>4. LET given == cycle.joinedConsensors IN given = [pk \in DOMAIN given |-> given[pk]]
  BY <1>1, <1>2
<1>5. ASSUME firstNode = NoNode PROVE Producible(cycle)
  <2>1. /\ joining \subseteq Ids /\ \A id \in joining : Owner[id] \in net.standby
        /\ nodesOf("activate") \subseteq net.syncing /\ nodesOf("refresh") \subseteq net.active
        /\ nodesOf("standbyAdd") \subseteq PublicKeys \ (net.standby \cup DOMAIN net.ids)
        /\ nodesOf("removed") \subseteq DOMAIN net.ids
        /\ nodesOf("apoptosized") \subseteq DOMAIN net.ids
        /\ nodesOf("lostAfterSelection") \subseteq net.syncing
    BY <1>5, ChangesOfNetwork
  <2> HIDE DEF nodesOf, joining
  <2>2. idsOf("removed") \cup idsOf("apoptosized") \cup idsOf("lostAfterSelection") \subseteq Ids
    BY <2>1 DEF NetworkInv
  <2> HIDE DEF idsOf
  <2>3. SyncingNow = net.syncing /\ IdsNow = net.ids
    BY <1>5 DEF SyncingNow, IdsNow
  <2>4. /\ DOMAIN joined \subseteq net.standby /\ DOMAIN joined \subseteq PublicKeys
        /\ Owned(joined) /\ \A pk \in DOMAIN joined : joined[pk] \in Ids
        /\ DOMAIN joined \cap DOMAIN net.ids = {}
    BY <1>2, <2>1 DEF Owned, NetworkInv
  <2>5. Batch(refreshed)
    BY <1>3, <2>1 DEF Batch, Owned, NetworkInv
  <2>6. net.syncing \subseteq Given(net.ids)
    BY IdAssumption DEF NetworkInv, Given
  <2>7. About(cycle, net.syncing, net.active, net.ids)
    <3>1. Fresh(joined, net.syncing, net.ids)
      BY <2>4 DEF Fresh, Batch
    <3>2. nodesOf("activate") \cap DOMAIN joined = {} /\ nodesOf("refresh") \cap DOMAIN joined = {}
      BY <2>1, <2>4 DEF NetworkInv
    <3> QED
      BY <1>1, <1>3, <2>1, <2>2, <2>4, <2>6, <3>1, <3>2, IdAssumption DEF About, NetworkInv
  <2>8. Batch(joined)
    BY <2>4 DEF Batch
  <2>9. nodesOf("standbyAdd") \cap (DOMAIN net.ids \cup DOMAIN joined) = {}
    BY <2>1, <2>4
  <2>10. About(cycle, SyncingNow, net.active, IdsNow)
    BY <2>3, <2>7
  <2>11. /\ Batch(cycle.joinedConsensors) /\ Batch(cycle.refreshedConsensors)
         /\ \A pk \in DOMAIN cycle.joinedConsensors : cycle.joinedConsensors[pk] \in Ids
         /\ DOMAIN cycle.joinedConsensors \subseteq net.standby
    BY <1>1, <2>4, <2>5, <2>8
  <2>12. cycle.standbyAdd \cap (DOMAIN net.ids \cup DOMAIN cycle.joinedConsensors) = {}
    BY <1>1, <2>9
  <2> QED
    BY <1>4, <1>5, <2>7, <2>10, <2>11, <2>12 DEF Producible
<1>6. ASSUME firstNode # NoNode PROVE Producible(cycle)
  <2>1. PICK id \in Ids : changes = {[type |-> "join", id |-> id]} /\ Owner[id] = firstNode
    BY <1>6 DEF ChangeSets
  <2>2. joining = {id}
    <3> DEFINE join == [type |-> "join", id |-> id]
               joins == {d \in changes : d.type = "join"}
    <3>1. joins = {join} /\ join.id = id
      BY <2>1
    <3> HIDE DEF join, joins
    <3>2. {c.id : c \in joins} = {id}
      BY <3>1
    <3> QED
      BY <3>2 DEF joins
  <2>3. \A type : type # "join" => nodesOf(type) = {}
    BY <2>1
  <2>4. /\ nodesOf("activate") = {} /\ nodesOf("refresh") = {} /\ nodesOf("standbyAdd") = {}
        /\ nodesOf("removed") = {} /\ nodesOf("apoptosized") = {}
        /\ nodesOf("lostAfterSelection") = {}
    BY <2>3
  <2> HIDE DEF nodesOf, joining
  <2>5. idsOf("removed") = {} /\ idsOf("apoptosized") = {} /\ idsOf("lostAfterSelection") = {}
    BY <2>4
  <2> HIDE DEF idsOf
  <2>6. /\ SyncingNow = {firstNode} /\ IdsNow = [pk \in {firstNode} |-> NoId]
        /\ net.active = {} /\ net.syncing = {} /\ net.ids = <<>> /\ firstNode \in PublicKeys
    BY <1>6 DEF SyncingNow, IdsNow, NetworkInv, EmptyNet
  <2>7. DOMAIN <<>> = {}
    OBVIOUS
  <2>8. DOMAIN joined = {firstNode} /\ joined[firstNode] \in Ids /\ Owner[joined[firstNode]] = firstNode
    BY <1>2, <2>1, <2>2
  <2>9. Batch(joined) /\ Batch(refreshed)
    BY <1>3, <2>4, <2>6, <2>8 DEF Batch, Owned
  <2>10. About(cycle, {firstNode}, {}, [pk \in {firstNode} |-> NoId])
    <3>1. Fresh(joined, {firstNode}, [pk \in {firstNode} |-> NoId])
      BY <2>8, <2>9 DEF Fresh
    <3> QED
      BY <1>1, <1>3, <2>4, <2>5, <3>1 DEF About
  <2>11. About(cycle, {}, {}, <<>>)
    <3>1. Fresh(joined, {}, <<>>)
      BY <2>7, <2>9 DEF Fresh
    <3> QED
      BY <1>1, <1>3, <2>4, <2>5, <3>1 DEF About
  <2>12. /\ About(cycle, SyncingNow, net.active, IdsNow)
         /\ About(cycle, net.syncing, net.active, net.ids)
    BY <2>6, <2>10, <2>11
  <2>13. \A pk \in DOMAIN joined : joined[pk] \in Ids
    BY <2>8
  <2>14. /\ Batch(cycle.joinedConsensors) /\ Batch(cycle.refreshedConsensors)
         /\ \A pk \in DOMAIN cycle.joinedConsensors : cycle.joinedConsensors[pk] \in Ids
         /\ DOMAIN cycle.joinedConsensors = {firstNode}
    BY <1>1, <2>8, <2>9, <2>13
  <2>15. /\ cycle.activated = {} /\ cycle.standbyAdd = {}
         /\ cycle.removed \cup cycle.apoptosized \cup cycle.lostAfterSelection = {}
    BY <1>1, <2>4, <2>5
  <2>16. cycle.standbyAdd \cap (DOMAIN net.ids \cup DOMAIN cycle.joinedConsensors) = {}
    BY <2>15
  <2> QED
    BY <1>4, <1>6, <2>12, <2>14, <2>15, <2>16 DEF Producible
<1> QED
  BY <1>1, <1>5, <1>6 DEF cycle

\* A mode that a cycle can have.
LEMMA Modes ==
  ASSUME NEW mode \in NextModes
  PROVE  netMode \notin {"down", "shutdown"} /\ mode # "down"
BY DEF NextModes

\* The nodes of the network after a cycle in which it goes on.
SyncingAfter(cycle, s, ids) ==
  ((s \cup DOMAIN cycle.joinedConsensors) \ cycle.activated) \ GoneAfter(cycle, ids)
ActiveAfter(cycle, a, ids) == (a \cup cycle.activated) \ GoneAfter(cycle, ids)
LeftAfter(cycle, ids) == Left(IdsAfter(cycle, ids), GoneAfter(cycle, ids))

LEMMA NetworkAfterLists ==
  ASSUME NEW cycle, cycle.mode # "shutdown"
  PROVE  LET after == NetworkAfter(cycle)
             s == SyncingAfter(cycle, net.syncing, net.ids)
             a == ActiveAfter(cycle, net.active, net.ids)
         IN /\ after.standby = ((net.standby \ DOMAIN cycle.joinedConsensors) \cup cycle.standbyAdd)
                                 \ cycle.standbyRemove
            /\ after.syncing = IF Restores(netMode, cycle.mode) THEN s \cup a ELSE s
            /\ after.active = IF Restores(netMode, cycle.mode) THEN {} ELSE a
            /\ after.ids = LeftAfter(cycle, net.ids)
BY DEF NetworkAfter, SyncingAfter, ActiveAfter, LeftAfter, Left, IdsAfter, GoneAfter, Bearing, Joined

LEMMA NetworkCycleInv ==
  ASSUME NetworkInv, NEW cycle, Producible(cycle), cycle.mode # "down", NetworkCycle(cycle),
         missed' \in BOOLEAN,
         \/ clearing' = FALSE
         \/ clearing' = TRUE /\ cycle.mode = "shutdown" /\ currentNetworkMode' = "shutdown"
  PROVE  NetworkInv'
<1>1. /\ net' = NetworkAfter(cycle) /\ netMode' = cycle.mode /\ firstNode' = NoNode
      /\ usedIds' = usedIds \cup
           {cycle.joinedConsensors[pk] : pk \in DOMAIN cycle.joinedConsensors}
  BY DEF NetworkCycle
<1>2. usedIds' \subseteq Ids
  BY <1>1 DEF NetworkInv, Producible
<1>3. CASE cycle.mode = "shutdown"
  <2>1. net' = EmptyNet
    BY <1>1, <1>3 DEF NetworkAfter
  <2>2. DOMAIN <<>> = {} /\ <<>> \in [{} -> Ids]
    OBVIOUS
  <2>3. Owned(<<>>)
    BY <2>2 DEF Owned
  <2>4. net'.standby = {} /\ net'.syncing = {} /\ net'.active = {} /\ net'.ids = <<>>
    BY <2>1 DEF EmptyNet
  <2>5. Owned(net'.ids)
    BY <2>3, <2>4
  <2> QED
    BY <1>1, <1>2, <1>3, <2>1, <2>2, <2>4, <2>5 DEF NetworkInv
<1>4. CASE cycle.mode # "shutdown"
  <2> DEFINE joined == cycle.joinedConsensors
             all == IdsAfter(cycle, net.ids)
             gone == GoneAfter(cycle, net.ids)
             s == SyncingAfter(cycle, net.syncing, net.ids)
             a == ActiveAfter(cycle, net.active, net.ids)
             left == LeftAfter(cycle, net.ids)
  <2>1. /\ net'.standby = ((net.standby \ DOMAIN joined) \cup cycle.standbyAdd)
                            \ cycle.standbyRemove
        /\ net'.syncing \cup net'.active = s \cup a
        /\ net'.syncing \cap net'.active \subseteq s \cap a
        /\ net'.ids = left
    BY <1>1, <1>4, NetworkAfterLists
  <2>2. /\ DOMAIN joined \subseteq PublicKeys /\ Owned(joined)
        /\ \A pk \in DOMAIN joined : joined[pk] \in Ids
        /\ cycle.activated \subseteq net.syncing /\ cycle.standbyAdd \subseteq PublicKeys
        /\ cycle.standbyAdd \cap (DOMAIN net.ids \cup DOMAIN joined) = {}
        /\ net.standby = {} \/ DOMAIN joined \subseteq net.standby
    BY DEF Producible, About, Batch, NetworkInv, EmptyNet
  <2>3. DOMAIN joined \cap DOMAIN net.ids = {}
    BY IdAssumption DEF Producible, About, Fresh, NetworkInv
  <2>4. /\ DOMAIN left = (DOMAIN net.ids \cup DOMAIN joined) \ gone
        /\ left = [pk \in DOMAIN left |-> left[pk]]
        /\ \A pk \in DOMAIN left : left[pk] = IF pk \in DOMAIN joined THEN joined[pk] ELSE net.ids[pk]
    <3> HIDE DEF gone
    <3> QED
      BY DEF LeftAfter, Left, IdsAfter, Joined, gone
  <2>5. /\ s \cup a = (net.syncing \cup net.active \cup DOMAIN joined) \ gone
        /\ s \cap a \subseteq ((net.syncing \cup DOMAIN joined) \cap net.active)
    BY <2>2 DEF SyncingAfter, ActiveAfter
  <2> HIDE DEF joined, gone, s, a, left
  <2>6. left \in [DOMAIN left -> Ids] /\ Owned(left)
    <3>1. \A pk \in DOMAIN left : left[pk] \in Ids /\ Owner[left[pk]] = pk
      BY <2>2, <2>4, IdAssumption DEF NetworkInv, Owned
    <3> QED
      BY <2>4, <3>1 DEF Owned
  <2>7. DOMAIN left = s \cup a /\ s \cap a = {} /\ s \cup a \subseteq PublicKeys
    BY <2>2, <2>3, <2>4, <2>5 DEF NetworkInv
  <2>8. /\ net'.standby \subseteq PublicKeys
        /\ net'.standby \cap DOMAIN left = {}
    BY <2>1, <2>2, <2>4 DEF NetworkInv
  <2>9. /\ net'.ids \in [DOMAIN net'.ids -> Ids] /\ Owned(net'.ids)
        /\ DOMAIN net'.ids = net'.syncing \cup net'.active
        /\ net'.syncing \cap net'.active = {}
        /\ net'.standby \cap DOMAIN net'.ids = {}
        /\ net'.standby \cup net'.syncing \cup net'.active \subseteq PublicKeys
    BY <2>1, <2>6, <2>7, <2>8
  <2> QED
    BY <1>1, <1>2, <1>4, <2>9 DEF NetworkInv
<1> QED
  BY <1>3, <1>4

\* A batch that joins an empty map, and a map that is joined by none of its nodes.
LEMMA DownloadedMirrors ==
  ASSUME NetworkInv
  PROVE  Typed(Downloaded) /\ Mirrors(Downloaded, net.syncing, net.active, net.ids)
<1> DEFINE syncing == [pk \in net.syncing |-> net.ids[pk]]
           active == [pk \in net.active |-> net.ids[pk]]
           withSyncing == addSyncingNodes(EmptyLists, syncing)
           withActive == addActiveNodes(withSyncing, active)
<1>1. /\ DOMAIN syncing = net.syncing /\ \A pk \in net.syncing : syncing[pk] = net.ids[pk]
      /\ syncing = [pk \in net.syncing |-> syncing[pk]]
      /\ DOMAIN active = net.active /\ \A pk \in net.active : active[pk] = net.ids[pk]
  OBVIOUS
<1>2. Downloaded = addStandbyNodes(withActive, net.standby)
  BY DEF Downloaded
<1> HIDE DEF syncing, active
<1>3. DOMAIN <<>> = {}
  OBVIOUS
<1>4. Batch(syncing) /\ Batch(active)
  BY <1>1 DEF Batch, Owned, NetworkInv
<1>5. Mirrors(withSyncing, net.syncing, {}, syncing)
  <2>1. Fresh(syncing, {}, <<>>)
    BY <1>3, <1>4 DEF Fresh
  <2>2. Mirrors(withSyncing, {} \cup DOMAIN syncing, {}, Joined(<<>>, syncing))
    BY <2>1, EmptyMirrors, JoinMirrors
  <2>3. Joined(<<>>, syncing) = syncing
    BY <1>1, <1>3 DEF Joined
  <2>4. {} \cup DOMAIN syncing = net.syncing
    BY <1>1
  <2> HIDE DEF withSyncing
  <2> QED
    BY <2>2, <2>3, <2>4
<1> HIDE DEF withSyncing
<1>6. Mirrors(withActive, net.syncing, net.active, net.ids)
  <2>1. DOMAIN active \cap DOMAIN syncing = {} /\ \A pk \in DOMAIN active : active[pk] # NoId
    BY <1>1, IdAssumption DEF NetworkInv
  <2>2. Fresh(active, net.syncing, syncing)
    BY <1>4, <2>1 DEF Fresh
  <2>3. Mirrors(withActive, net.syncing, {} \cup DOMAIN active, Joined(syncing, active))
    BY <1>5, <2>1, <2>2, JoinActiveMirrors
  <2>4. Joined(syncing, active) = net.ids
    <3>1. DOMAIN syncing \cup DOMAIN active = DOMAIN net.ids
      BY <1>1 DEF NetworkInv
    <3>2. \A pk \in DOMAIN net.ids :
            net.ids[pk] = IF pk \in DOMAIN active THEN active[pk] ELSE syncing[pk]
      BY <1>1, <3>1
    <3>3. net.ids = [pk \in DOMAIN net.ids |-> net.ids[pk]]
      BY DEF NetworkInv
    <3> QED
      BY <3>1, <3>2, <3>3 DEF Joined
  <2>5. {} \cup DOMAIN active = net.active
    BY <1>1
  <2> HIDE DEF withActive
  <2> QED
    BY <2>3, <2>4, <2>5
<1> HIDE DEF withActive
<1>7. Mirrors(Downloaded, net.syncing, net.active, net.ids)
  BY <1>2, <1>6, StandbyMirrors DEF NetworkInv
<1> QED
  BY <1>7 DEF Mirrors

LEMMA ProcessedTyped ==
  ASSUME NEW l, Typed(l), NEW mode, NEW cycle, Producible(cycle)
  PROVE  Typed(Processed(l, mode, cycle))
<1> DEFINE updated == updateNodeList(l, cycle)
<1>1. Typed(updated)
  BY UpdateNodeListTyped DEF Producible, About
<1> HIDE DEF updated
<1>2. Typed(changeNodeListInRestore(updated))
  BY <1>1, SetStatusTyped
<1> QED
  BY <1>1, <1>2 DEF Processed, updated

\* A record keeps lists that mirror the network's in step with them, restoring them when
\* the network does; before a shutdown it leaves the array in order.
LEMMA ProcessedMirrors ==
  ASSUME NetworkInv, NEW cycle, Producible(cycle),
         NEW l, Mirrors(l, net.syncing, net.active, net.ids), NEW mode,
         Restores(mode, cycle.mode) <=> Restores(netMode, cycle.mode)
  PROVE  LET after == NetworkAfter(cycle)
             processed == Processed(l, mode, cycle)
         IN /\ Ascending(processed.byPublicKey, processed.activeListByIdSorted)
            /\ cycle.mode # "shutdown" =>
                 Mirrors(processed, after.syncing, after.active, after.ids)
<1> DEFINE updated == updateNodeList(l, cycle)
           processed == Processed(l, mode, cycle)
           after == NetworkAfter(cycle)
           s == SyncingAfter(cycle, net.syncing, net.ids)
           a == ActiveAfter(cycle, net.active, net.ids)
           left == LeftAfter(cycle, net.ids)
<1>1. Mirrors(updated, s, a, left)
  BY UpdateNodeListMirrors DEF Producible, SyncingAfter, ActiveAfter, LeftAfter
<1>2. processed = IF Restores(mode, cycle.mode) THEN changeNodeListInRestore(updated) ELSE updated
  BY DEF Processed
<1> HIDE DEF updated, processed
<1>3. Mirrors(changeNodeListInRestore(updated), s \cup a, {}, left)
  BY <1>1, RestoreMirrors
<1>4. Mirrors(processed, IF Restores(mode, cycle.mode) THEN s \cup a ELSE s,
                         IF Restores(mode, cycle.mode) THEN {} ELSE a, left)
  BY <1>1, <1>2, <1>3
<1>5. Ascending(processed.byPublicKey, processed.activeListByIdSorted)
  BY <1>4 DEF Mirrors
<1>6. ASSUME cycle.mode # "shutdown"
      PROVE  Mirrors(processed, after.syncing, after.active, after.ids)
  <2>1. /\ after.syncing = IF Restores(netMode, cycle.mode) THEN s \cup a ELSE s
        /\ after.active = IF Restores(netMode, cycle.mode) THEN {} ELSE a
        /\ after.ids = left
    BY <1>6, NetworkAfterLists
  <2> HIDE DEF after, s, a, left
  <2> QED
    BY <1>4, <2>1
<1> QED
  BY <1>5, <1>6 DEF processed

\* The record in which the first node gets its id.
LEMMA FirstProcessedMirrors ==
  ASSUME NetworkInv, firstNode # NoNode, NEW cycle, Producible(cycle), cycle.mode = netMode,
         NEW l, Mirrors(l, SyncingNow, net.active, IdsNow), NEW mode,
         mode \notin {"restart", "recovery"}
  PROVE  LET after == NetworkAfter(cycle)
             processed == Processed(l, mode, cycle)
         IN /\ Ascending(processed.byPublicKey, processed.activeListByIdSorted)
            /\ cycle.mode # "shutdown" =>
                 Mirrors(processed, after.syncing, after.active, after.ids)
<1> DEFINE updated == updateNodeList(l, cycle)
           processed == Processed(l, mode, cycle)
           after == NetworkAfter(cycle)
           joined == cycle.joinedConsensors
<1>1. /\ net.syncing = {} /\ net.active = {} /\ net.ids = <<>>
      /\ SyncingNow = {firstNode} /\ IdsNow = [pk \in {firstNode} |-> NoId]
  BY DEF NetworkInv, EmptyNet, SyncingNow, IdsNow
<1>2. /\ DOMAIN joined = {firstNode} /\ cycle.activated = {}
      /\ cycle.removed \cup cycle.apoptosized \cup cycle.lostAfterSelection = {}
      /\ joined = [pk \in DOMAIN joined |-> joined[pk]]
  BY DEF Producible
<1>3. DOMAIN <<>> = {}
  OBVIOUS
<1>4. ~ Restores(netMode, cycle.mode) /\ ~ Restores(mode, cycle.mode)
  BY DEF Restores
<1>5. /\ IdsAfter(cycle, IdsNow) = joined
      /\ IdsAfter(cycle, net.ids) = joined
  BY <1>1, <1>2, <1>3 DEF IdsAfter, Joined
<1>6. GoneAfter(cycle, IdsNow) = {} /\ GoneAfter(cycle, net.ids) = {}
  BY <1>2 DEF GoneAfter, Bearing
<1>7. LeftAfter(cycle, IdsNow) = joined /\ LeftAfter(cycle, net.ids) = joined
  BY <1>2, <1>5, <1>6 DEF LeftAfter, Left
<1>8. /\ SyncingAfter(cycle, SyncingNow, IdsNow) = {firstNode}
      /\ SyncingAfter(cycle, net.syncing, net.ids) = {firstNode}
      /\ ActiveAfter(cycle, net.active, IdsNow) = {}
      /\ ActiveAfter(cycle, net.active, net.ids) = {}
  BY <1>1, <1>2, <1>6 DEF SyncingAfter, ActiveAfter
<1>9. Mirrors(updated, SyncingAfter(cycle, SyncingNow, IdsNow),
              ActiveAfter(cycle, net.active, IdsNow), LeftAfter(cycle, IdsNow))
  BY UpdateNodeListMirrors DEF Producible, SyncingAfter, ActiveAfter, LeftAfter
<1> HIDE DEF updated
<1>10. Mirrors(updated, {firstNode}, {}, joined)
  BY <1>7, <1>8, <1>9
<1>11. processed = updated
  BY <1>4 DEF Processed, updated
<1>12. ASSUME cycle.mode # "shutdown"
       PROVE  after.syncing = {firstNode} /\ after.active = {} /\ after.ids = joined
  BY <1>4, <1>7, <1>8, <1>12, NetworkAfterLists
<1> HIDE DEF processed, after, joined
<1>13. Ascending(processed.byPublicKey, processed.activeListByIdSorted)
  BY <1>10, <1>11 DEF Mirrors
<1> QED
  BY <1>10, <1>11, <1>12, <1>13 DEF processed, after

LEMMA CycleCreatedSync == SyncInv /\ CycleCreated => SyncInv'
<1> SUFFICES ASSUME SyncInv, CycleCreated PROVE SyncInv'
  OBVIOUS
<1>1. PICK changes \in ChangeSets, mode \in NextModes :
        /\ firstNode # NoNode => mode = netMode
        /\ NetworkCycle(Cycle(changes, mode))
        /\ \/ ProcessCycle(Cycle(changes, mode))
           \/ MissCycle
           \/ SyncV2(Cycle(changes, mode))
  BY DEF CycleCreated
<1> DEFINE cycle == Cycle(changes, mode)
<1>2. Producible(cycle) /\ cycle.mode = mode
  BY CycleProducible DEF SyncInv
<1>3. /\ NetworkCycle(cycle) /\ (ProcessCycle(cycle) \/ MissCycle \/ SyncV2(cycle))
      /\ firstNode # NoNode => cycle.mode = netMode
  BY <1>1, <1>2
<1>4. ~ clearing
  BY DEF CycleCreated
<1>5. netMode \notin {"down", "shutdown"} /\ cycle.mode # "down"
  BY <1>2, Modes
<1> HIDE DEF cycle
<1>6. NetworkInv /\ ArchiverInv
  BY DEF SyncInv
<1>7. NetworkInv'
  <2>1. missed' \in BOOLEAN
    BY <1>3, <1>6 DEF ProcessCycle, MissCycle, SyncV2, NetworkInv
  <2>2. CASE ProcessCycle(cycle) /\ cycle.mode = "shutdown"
    BY <1>3, <1>5, <1>6, <1>2, <2>1, <2>2, NetworkCycleInv DEF ProcessCycle
  <2>3. CASE ~ (ProcessCycle(cycle) /\ cycle.mode = "shutdown")
    <3>1. clearing' = FALSE
      BY <1>3, <1>4, <1>6, <2>3 DEF ProcessCycle, MissCycle, SyncV2, NetworkInv
    <3> QED
      BY <1>3, <1>5, <1>6, <1>2, <2>1, <3>1, NetworkCycleInv
  <2> QED
    BY <2>2, <2>3
<1>8. net' = NetworkAfter(cycle) /\ netMode' = cycle.mode /\ firstNode' = NoNode
  BY <1>3 DEF NetworkCycle
<1>9. SyncingNow' = net'.syncing /\ IdsNow' = net'.ids
  BY <1>8 DEF SyncingNow, IdsNow
<1>10. ASSUME ProcessCycle(cycle) PROVE ArchiverInv'
  <2> DEFINE processed == Processed(lists, currentNetworkMode, cycle)
  <2>1. /\ lists' = processed /\ currentNetworkMode' = cycle.mode
        /\ clearing' = (cycle.mode = "shutdown") /\ missed' = missed
    BY <1>10 DEF ProcessCycle
  <2>2. Typed(processed)
    BY <1>2, <1>6, ProcessedTyped DEF ArchiverInv
  <2>3. FollowsMode'
    BY <1>5, <1>8, <2>1 DEF FollowsMode
  <2>4. ASSUME ~ missed
        PROVE  /\ Ascending(processed.byPublicKey, processed.activeListByIdSorted)
               /\ cycle.mode # "shutdown" =>
                    LET after == NetworkAfter(cycle)
                    IN Mirrors(processed, after.syncing, after.active, after.ids)
    <3>1. Mirrors(lists, SyncingNow, net.active, IdsNow) /\ FollowsMode
      BY <1>4, <1>6, <2>4 DEF ArchiverInv
    <3>2. CASE firstNode = NoNode
      <4>1. currentNetworkMode = netMode
        BY <1>5, <3>1, <3>2 DEF FollowsMode
      <4>2. Mirrors(lists, net.syncing, net.active, net.ids)
        BY <3>1, <3>2 DEF SyncingNow, IdsNow
      <4> QED
        BY <1>2, <1>6, <4>1, <4>2, ProcessedMirrors
    <3>3. CASE firstNode # NoNode
      <4>1. currentNetworkMode \notin {"restart", "recovery"}
        BY <3>1, <3>3 DEF FollowsMode
      <4> QED
        BY <1>2, <1>3, <1>6, <3>1, <3>3, <4>1, FirstProcessedMirrors
    <3> QED
      BY <3>2, <3>3
  <2> HIDE DEF processed
  <2>5. Typed(lists')
    BY <2>1, <2>2
  <2>6. ~ missed' => Ascending(lists'.byPublicKey, lists'.activeListByIdSorted)
    BY <2>1, <2>4
  <2>7. ~ missed' /\ ~ clearing' => Mirrors(lists', SyncingNow', net'.active, IdsNow')
    BY <1>8, <1>9, <2>1, <2>4
  <2> QED
    BY <2>3, <2>5, <2>6, <2>7 DEF ArchiverInv, Typed, WellFormed, Ascending, Mirrors, Consistent
<1>11. ASSUME MissCycle PROVE ArchiverInv'
  <2>1. lists' = lists /\ missed' = TRUE
    BY <1>11 DEF MissCycle
  <2>2. Typed(lists')
    BY <1>6, <2>1 DEF ArchiverInv
  <2> QED
    BY <2>1, <2>2 DEF ArchiverInv
<1>12. ASSUME SyncV2(cycle) PROVE ArchiverInv'
  <2> DEFINE processed == Processed(Downloaded, "forming", cycle)
  <2>1. /\ lists' = processed /\ currentNetworkMode' = cycle.mode
        /\ cycle.mode = netMode /\ clearing' = clearing
    BY <1>12 DEF SyncV2
  <2>2. Typed(Downloaded) /\ Mirrors(Downloaded, net.syncing, net.active, net.ids)
    BY <1>6, DownloadedMirrors
  <2>3. Typed(processed)
    BY <1>2, <2>2, ProcessedTyped
  <2>4. FollowsMode'
    BY <1>5, <1>8, <2>1 DEF FollowsMode
  <2>5. ~ Restores("forming", cycle.mode) /\ ~ Restores(netMode, cycle.mode)
    BY <2>1 DEF Restores
  <2>6. LET after == NetworkAfter(cycle)
        IN /\ Ascending(processed.byPublicKey, processed.activeListByIdSorted)
           /\ cycle.mode # "shutdown" =>
                Mirrors(processed, after.syncing, after.active, after.ids)
    BY <1>2, <1>6, <2>2, <2>5, ProcessedMirrors
  <2> HIDE DEF processed
  <2>7. Typed(lists') /\ Ascending(lists'.byPublicKey, lists'.activeListByIdSorted)
    BY <2>1, <2>3, <2>6
  <2>8. Mirrors(lists', SyncingNow', net'.active, IdsNow')
    BY <1>5, <1>8, <1>9, <2>1, <2>6
  <2> QED
    BY <2>4, <2>7, <2>8 DEF ArchiverInv
<1> QED
  BY <1>3, <1>7, <1>10, <1>11, <1>12 DEF SyncInv

LEMMA ClearNodeListsSync == SyncInv /\ ClearNodeLists => SyncInv'
<1> SUFFICES ASSUME SyncInv, ClearNodeLists PROVE SyncInv'
  OBVIOUS
<1>1. /\ clearing /\ lists' = clearNodeLists(lists) /\ clearing' = FALSE /\ missed' = FALSE
      /\ currentNetworkMode' = currentNetworkMode /\ net' = net /\ netMode' = netMode
      /\ usedIds' = usedIds /\ firstNode' = firstNode
  BY DEF ClearNodeLists, networkVars
<1>2. /\ firstNode = NoNode /\ netMode = "shutdown" /\ currentNetworkMode = "shutdown"
      /\ net = EmptyNet /\ Typed(lists)
  BY <1>1 DEF SyncInv, NetworkInv, ArchiverInv
<1>3. NetworkInv'
  BY <1>1 DEF SyncInv, NetworkInv
<1>4. Typed(lists') /\ Mirrors(lists', {}, {}, <<>>)
  BY <1>1, <1>2, EmptyTyped, EmptyMirrors
<1>5. SyncingNow' = {} /\ IdsNow' = <<>> /\ net'.active = {}
  BY <1>1, <1>2 DEF SyncingNow, IdsNow, EmptyNet
<1>6. FollowsMode'
  BY <1>1, <1>2 DEF FollowsMode
<1>7. Ascending(lists'.byPublicKey, lists'.activeListByIdSorted)
  BY <1>4 DEF Mirrors
<1>8. Mirrors(lists', SyncingNow', net'.active, IdsNow')
  BY <1>4, <1>5
<1> QED
  BY <1>3, <1>4, <1>6, <1>7, <1>8 DEF SyncInv, ArchiverInv

LEMMA PostNodeListSync ==
  ASSUME SyncInv, NEW pk \in PublicKeys, PostNodeList(pk)
  PROVE  SyncInv'
<1> DEFINE node == [key \in {pk} |-> NoId]
<1>1. /\ netMode \in {"down", "shutdown"} /\ firstNode = NoNode /\ ~ clearing
      /\ DOMAIN lists.byPublicKey = {}
      /\ lists' = addSyncingNodes(lists, node) /\ firstNode' = pk
      /\ netMode' = IF netMode = "down" THEN "forming" ELSE "restart"
      /\ currentNetworkMode' = currentNetworkMode /\ clearing' = clearing
      /\ missed' = missed /\ net' = net /\ usedIds' = usedIds
  BY DEF PostNodeList
<1>2. DOMAIN node = {pk} /\ node[pk] = NoId /\ Batch(node)
  BY DEF Batch, Owned
<1> HIDE DEF node
<1>3. NetworkInv /\ ArchiverInv /\ pk # NoNode
  BY IdAssumption DEF SyncInv
<1>4. NetworkInv'
  BY <1>1, <1>3 DEF NetworkInv
<1>5. Typed(lists')
  BY <1>1, <1>2, <1>3, AddNodesTyped DEF ArchiverInv
<1>6. ASSUME ~ missed
      PROVE  /\ Mirrors(lists', SyncingNow', net'.active, IdsNow')
             /\ FollowsMode'
             /\ Ascending(lists'.byPublicKey, lists'.activeListByIdSorted)
  <2>1. Mirrors(lists, net.syncing, net.active, net.ids) /\ FollowsMode
    BY <1>1, <1>3, <1>6 DEF ArchiverInv, SyncingNow, IdsNow
  <2>2. net.syncing = {} /\ net.active = {} /\ net.ids = <<>>
    BY <1>1, <1>3 DEF NetworkInv, EmptyNet
  <2>3. DOMAIN <<>> = {}
    OBVIOUS
  <2>4. Fresh(node, {}, <<>>)
    BY <1>2, <2>3 DEF Fresh
  <2>5. Mirrors(lists', {} \cup {pk}, {}, Joined(<<>>, node))
    BY <1>1, <1>2, <2>1, <2>2, <2>4, JoinMirrors
  <2>6. Joined(<<>>, node) = [key \in {pk} |-> NoId]
    BY <1>2, <2>3 DEF Joined
  <2>7. SyncingNow' = {} \cup {pk} /\ IdsNow' = Joined(<<>>, node) /\ net'.active = {}
    BY <1>1, <1>3, <2>2, <2>6 DEF SyncingNow, IdsNow
  <2>8. Mirrors(lists', SyncingNow', net'.active, IdsNow')
    BY <2>5, <2>7
  <2>9. Ascending(lists'.byPublicKey, lists'.activeListByIdSorted)
    BY <2>5 DEF Mirrors
  <2>10. FollowsMode'
    BY <1>1, <1>3, <2>1 DEF FollowsMode
  <2> QED
    BY <2>8, <2>9, <2>10
<1> QED
  BY <1>1, <1>4, <1>5, <1>6 DEF SyncInv, ArchiverInv

LEMMA SyncInvariance == Spec => []SyncInv
<1>1. Init => SyncInv
  <2> SUFFICES ASSUME Init PROVE SyncInv
    OBVIOUS
  <2>1. /\ lists = EmptyLists /\ currentNetworkMode = "forming" /\ clearing = FALSE
        /\ missed = FALSE /\ net = EmptyNet /\ netMode = "down" /\ usedIds = {}
        /\ firstNode = NoNode
    BY DEF Init
  <2>2. DOMAIN <<>> = {} /\ <<>> \in [{} -> Ids] /\ Owned(<<>>)
    <3>1. DOMAIN <<>> = {} /\ <<>> \in [{} -> Ids]
      OBVIOUS
    <3> QED
      BY <3>1 DEF Owned
  <2>3. net.standby = {} /\ net.syncing = {} /\ net.active = {} /\ net.ids = <<>>
    BY <2>1 DEF EmptyNet
  <2>4. NetworkInv
    <3>1. Owned(net.ids)
      BY <2>2, <2>3
    <3> QED
      BY <2>1, <2>2, <2>3, <3>1 DEF NetworkInv
  <2>5. Typed(lists) /\ Mirrors(lists, {}, {}, <<>>)
    BY <2>1, EmptyTyped, EmptyMirrors
  <2>6. Mirrors(lists, SyncingNow, net.active, IdsNow)
    BY <2>1, <2>3, <2>5 DEF SyncingNow, IdsNow
  <2>7. FollowsMode
    BY <2>1 DEF FollowsMode
  <2>8. Ascending(lists.byPublicKey, lists.activeListByIdSorted)
    BY <2>5 DEF Mirrors
  <2> QED
    BY <2>4, <2>5, <2>6, <2>7, <2>8 DEF SyncInv, ArchiverInv
<1>2. SyncInv /\ [Next]_vars => SyncInv'
  <2> SUFFICES ASSUME SyncInv, [Next]_vars PROVE SyncInv'
    OBVIOUS
  <2>1. CASE CycleCreated
    BY <2>1, CycleCreatedSync
  <2>2. CASE ClearNodeLists
    BY <2>2, ClearNodeListsSync
  <2>3. CASE \E pk \in PublicKeys : PostNodeList(pk)
    BY <2>3, PostNodeListSync
  <2>4. CASE UNCHANGED vars
    BY <2>4 DEF vars, archiverVars, networkVars, SyncInv, NetworkInv, ArchiverInv,
                SyncingNow, IdsNow, FollowsMode
  <2> QED
    BY <2>1, <2>2, <2>3, <2>4 DEF Next
<1> QED
  BY <1>1, <1>2, PTL DEF Spec

-----------------------------------------------------------------------------
(* The results *)

\* Whatever records an archiver misses, its map of nodes has exactly the syncing and the
\* active nodes, and no node is both.
THEOREM ListsPartitionHolds == Spec => []ListsPartition
<1>1. IndInv => ListsPartition
  BY DEF IndInv, Consistent, Partition, ListsPartition
<1> QED
  BY NodeListInvariance, <1>1, PTL

\* Whatever records an archiver misses, it finds every listed node by its id.
THEOREM FoundByIdHolds == Spec => []FoundById
<1>1. IndInv => FoundById
  BY DEF IndInv, Consistent, Found, FoundById
<1> QED
  BY NodeListInvariance, <1>1, PTL

\* The lists keep their types, whatever is missed.
THEOREM TypeCorrect == Spec => []TypeOK
<1>1. SyncInv => TypeOK
  <2> SUFFICES ASSUME SyncInv PROVE TypeOK
    OBVIOUS
  <2>1. Typed(lists) /\ NetworkInv
    BY DEF SyncInv, ArchiverInv
  <2> QED
    BY <2>1 DEF Typed, NetworkInv, TypeOK
<1> QED
  BY SyncInvariance, <1>1, PTL

\* An archiver that missed no record has exactly the network's syncing and active nodes,
\* under the network's ids, and no id of a node that left: through joins, refreshes and
\* removals in one record, restores, shutdowns and the start of a new network.
THEOREM InSyncHolds == Spec => []InSync
<1>1. SyncInv => InSync
  <2> SUFFICES ASSUME SyncInv, ~ missed, ~ clearing, firstNode = NoNode
               PROVE  /\ lists.syncing = net.syncing /\ lists.active = net.active
                      /\ lists.byPublicKey = net.ids
                      /\ DOMAIN lists.byId = Range(net.ids)
    BY DEF InSync
  <2>1. Mirrors(lists, net.syncing, net.active, net.ids) /\ NetworkInv
    BY DEF SyncInv, ArchiverInv, SyncingNow, IdsNow
  <2>2. Given(net.ids) = DOMAIN net.ids
    BY <2>1, IdAssumption DEF NetworkInv, Given
  <2>3. DOMAIN lists.byId = Range(net.ids)
    BY <2>1, <2>2 DEF Mirrors, Range
  <2> QED
    BY <2>1, <2>3 DEF Mirrors
<1> QED
  BY SyncInvariance, <1>1, PTL

\* The array of active nodes of an archiver that missed no record is sorted by node id,
\* without a node twice, whatever ids nodes come back with: the binary search that inserts
\* a node finds its place.
THEOREM SortedByIdHolds == Spec => []SortedById
<1>1. SyncInv => SortedById
  BY DEF SyncInv, ArchiverInv, Ascending, SortedById
<1> QED
  BY SyncInvariance, <1>1, PTL

-----------------------------------------------------------------------------
(***************************************************************************)
(* The lists that are asked for (ListDownload), for any number of nodes,   *)
(* any order in which they are asked and any history of the network.       *)
(*                                                                         *)
(* An answer that enough nodes gave is so because they are different       *)
(* nodes, and fewer of them are faulty than must agree: each item of a     *)
(* query keeps that one of its nodes who is not faulty answered what was   *)
(* so at the time, and what was so stays so, as records are only added.    *)
(***************************************************************************)

(***************************************************************************)
(* The invariant.                                                          *)
(***************************************************************************)

\* What a list or record of the network hashes to.
ContentOf(records, kind, i) == IF kind = "cycle" THEN records[i] ELSE records[i].listed[kind]
Genuine(records, kind, hash) == \E i \in DOMAIN records : hash = ContentOf(records, kind, i)

\* The nodes a query has not asked, has asked and has an answer of are different ones of those
\* it was given.
Askable(nodes, seq) ==
  seq \in Seq(Sync!Peers) /\ Range(seq) \subseteq Range(nodes) /\ IsInjective(seq)

\* Those who gave an answer are nodes that were asked, each counted once, and what one of them
\* said that is not faulty is so.
ItemOK(records, nodes, kind, q, item) ==
  /\ item = [value |-> item.value, nodes |-> item.nodes]
  /\ Askable(nodes, item.nodes)
  /\ Range(item.nodes) \cap (Range(q.left) \cup Range(q.asked)) = {}
  /\ Len(item.nodes) <= q.winCount
  /\ ~q.over => Len(item.nodes) < q.winCount
  /\ Range(item.nodes) \cap Sync!Correct # {} => Genuine(records, kind, item.value.hash)

QueryForm(q) ==
  q = [winCount |-> q.winCount, left |-> q.left, asked |-> q.asked, items |-> q.items,
       tries |-> q.tries, over |-> q.over]

QueryOf(records, nodes, kind, q) ==
  /\ QueryForm(q)
  /\ q.winCount = Sync!WinCount(nodes)
  /\ Askable(nodes, q.left) /\ Askable(nodes, q.asked)
  /\ Range(q.left) \cap Range(q.asked) = {}
  /\ q.items \in Seq(Range(q.items))
  /\ \A i \in DOMAIN q.items : ItemOK(records, nodes, kind, q, q.items[i])
  /\ q.tries \in 0..MaxTries /\ q.over \in BOOLEAN
  /\ ~q.over /\ q.asked = <<>> => q.tries < MaxTries
  /\ q.over => q.asked = <<>>

NodeLists == PeerLists \cup {Sync!InOrder}

CallOK(records, c) ==
  \/ c = Sync!NoCall
  \/ /\ c.stage = "query"
     /\ c = [stage |-> "query", kind |-> c.kind, q |-> c.q]
     /\ \E nodes \in NodeLists : QueryOf(records, nodes, c.kind, c.q)
  \/ /\ c.stage = "fetch"
     /\ c = [stage |-> "fetch", kind |-> c.kind, hash |-> c.hash, node |-> c.node,
             attempts |-> c.attempts]
     /\ Genuine(records, c.kind, c.hash)

\* Kinds are asked for one after the other.
Before(i) == {Sync!SyncKinds[j] : j \in 1..(i - 1)}
SyncUnderWay == \E i \in 1..5 : call[0].kind = Sync!SyncKinds[i] /\ DOMAIN got = Before(i)

GotOK(records, kind, g) ==
  /\ Genuine(records, kind, g.hash)
  /\ kind # "standby" => g.content = g.hash

CallsInv ==
  /\ DOMAIN call = Sync!Slots
  /\ \A s \in Sync!Slots : CallOK(cycles, call[s])
  /\ \A s \in Sync!Slots : s # 0 /\ call[s] # Sync!NoCall => call[s].kind = "txs"
  /\ call[0] # Sync!NoCall => phase = "syncing" /\ SyncUnderWay
  /\ phase = "down" => got = <<>>
  /\ DOMAIN got \subseteq Range(Sync!SyncKinds)
  /\ \A kind \in DOMAIN got : GotOK(cycles, kind, got[kind])

\* The transaction list is one of the network's, or it is being asked for, or that failed.
TxsInv ==
  /\ phase = "up" =>
       \/ doubt
       \/ \E s \in Sync!Slots : call[s] # Sync!NoCall
       \/ Genuine(cycles, "txs", txList)

\* The records of the network.
RecordOK(records, i) ==
  /\ Sync!PatchFields \subseteq DOMAIN records[i]
  /\ records[i].counter = i - 1
  /\ records[i].active \in Nat
  /\ records[i].refreshedConsensors \subseteq Sync!Ever(records)
  /\ DOMAIN records[i].listed.validators \subseteq Sync!Ever(records)
  /\ records[i].listed.archivers \subseteq Sync!EverArchivers(records)
  /\ records[i].after = [validators |-> records[i].after.validators,
                         archivers |-> records[i].after.archivers,
                         standby |-> records[i].after.standby]
  /\ DOMAIN records[i].after.validators \subseteq Sync!Ever(records)
  /\ IsFiniteSet(DOMAIN records[i].after.validators)
  /\ records[i].after.archivers \subseteq Sync!EverArchivers(records)

RecordsOK(records) ==
  /\ records \in Seq(Range(records))
  /\ \A i \in DOMAIN records : RecordOK(records, i)

RecordsInv ==
  /\ start \in Starts
  /\ RecordsOK(cycles) /\ Len(cycles) \in 1..MaxCycle[start]
  /\ at \in [Sync!Peers -> 1..Len(cycles)]

Reach(l) == l.syncing \cup l.active \cup DOMAIN l.byPublicKey

ListsInv ==
  /\ phase \in {"down", "syncing", "synced", "up", "reading", "restored", "failed"}
  /\ phase \in {"down", "syncing", "reading"} => downloaded = Sync!EmptyLists
  /\ WellFormed(downloaded) /\ Reach(downloaded) \subseteq Sync!Ever(cycles)
  /\ archivers \subseteq Sync!EverArchivers(cycles)
  /\ current \in -1..(Len(cycles) - 1)
  /\ doubt \in BOOLEAN

ChainInv ==
  phase = "reading" =>
    /\ chain = [oldest |-> chain.oldest, page |-> chain.page, squasher |-> chain.squasher]
    /\ chain.oldest \in 0..(Len(cycles) - 1)
    /\ chain.page \in Seq(0..(Len(cycles) - 1))
    /\ chain.squasher.added \subseteq Sync!Ever(cycles)

\* What syncV2 ends with.
SyncedInv ==
  phase = "synced" =>
    LET record == got["cycle"].content
    IN /\ record \in Range(cycles)
       /\ downloaded.syncing = Sync!Nodes(record.listed.validators, "syncing")
       /\ downloaded.active = Sync!Nodes(record.listed.validators, "active")
       /\ archivers = record.listed.archivers
       /\ Genuine(cycles, "txs", txList)

DownloadInv == CallsInv /\ SyncedInv /\ TxsInv /\ RecordsInv /\ ListsInv /\ ChainInv

-----------------------------------------------------------------------------
(* Robust queries *)

\* The operators of an instance are those of the modules it extends.
LEMMA SameOperators ==
  /\ \A f : Sync!Range(f) = Range(f)
  /\ \A f : Sync!IsInjective(f) <=> IsInjective(f)
  /\ \A s : Sync!Last(s) = s[Len(s)]
  /\ \A S : Sync!IsFiniteSet(S) <=> IsFiniteSet(S)
<1>1. \A f : Sync!Range(f) = Range(f)
  BY DEF Sync!Range, Range
<1>2. \A f : Sync!IsInjective(f) <=> IsInjective(f)
  BY DEF Sync!IsInjective, IsInjective
<1>3. \A s : Sync!Last(s) = s[Len(s)]
  BY DEF Sync!Last
<1>4. \A S : Sync!IsFiniteSet(S) <=> IsFiniteSet(S)
  BY DEF Sync!IsFiniteSet, IsFiniteSet
<1> QED
  BY <1>1, <1>2, <1>3, <1>4

\* The cardinality in an instance is the one the theorems about finite sets speak of.
LEMMA SameCardinality == \A S : Sync!Cardinality(S) = Cardinality(S)
BY DEF Sync!Cardinality, Cardinality, Sync!IsFiniteSet, IsFiniteSet

\* Some answer of a query leads, when no item has more than so many nodes.
LEMMA LeaderExists ==
  ASSUME NEW items, NEW n \in Nat \ {0}, DOMAIN items = 1..n,
         NEW b \in Nat, \A i \in 1..n : Sync!Count(items[i]) \in 0..b
  PROVE  \E i \in DOMAIN items :
           /\ Sync!Leads(items, i)
           /\ Sync!HighestItem(items) = items[i]
<1> DEFINE count(i) == Sync!Count(items[i])
           bounds == {m \in Nat : \A i \in 1..n : count(i) <= m}
<1>0. \A i \in 1..n : count(i) \in 0..b
  OBVIOUS
<1> HIDE DEF count
<1>1. b \in bounds
  BY <1>0
<1>2. PICK m \in bounds : \A k \in bounds : m <= k
  BY <1>1, Least, bounds \in SUBSET Nat
<1> DEFINE leaders == {i \in 1..n : count(i) = m}
<1>3. leaders # {}
  <2> SUFFICES ASSUME leaders = {} PROVE FALSE
    OBVIOUS
  <2>1. ASSUME NEW i \in 1..n PROVE count(i) <= m /\ count(i) # m /\ count(i) \in Nat
    <3>1. i \notin leaders
      OBVIOUS
    <3>2. count(i) <= m
      BY <1>2
    <3> QED
      BY <1>0, <3>1, <3>2
  <2>2. m \in Nat /\ 1 \in 1..n
    BY <1>2
  <2>3. m # 0
    BY <2>1, <2>2
  <2>4. m - 1 \in bounds
    BY <2>1, <2>2, <2>3
  <2> QED
    BY <1>2, <2>2, <2>4
<1>4. PICK i \in leaders : \A k \in leaders : i <= k
  BY <1>3, Least, leaders \in SUBSET Nat
<1>5. Sync!Leads(items, i)
  <2>1. \A j \in 1..n : count(j) <= count(i)
    BY <1>2, <1>4
  <2>2. \A j \in 1..(i - 1) : count(j) < count(i)
    <3>1. ASSUME NEW j \in 1..(i - 1) PROVE count(j) < count(i)
      <4>1. j \in 1..n /\ j \notin leaders
        BY <1>4, <3>1
      <4>2. count(j) \in Nat /\ count(i) \in Nat /\ count(j) # count(i)
        BY <1>0, <1>4, <4>1
      <4> QED
        BY <2>1, <4>1, <4>2
    <3> QED
      BY <3>1
  <2> QED
    BY <2>1, <2>2 DEF Sync!Leads, count
<1>6. \E j \in DOMAIN items : Sync!Leads(items, j)
  BY <1>4, <1>5
<1> QED
  BY <1>6 DEF Sync!HighestItem

\* The nodes a query is given are different nodes of the network, fewer of them faulty than
\* must agree.
LEMMA NodesGiven ==
  ASSUME NEW nodes \in NodeLists
  PROVE  /\ nodes \in Seq(Sync!Peers) /\ nodes # <<>> /\ IsInjective(nodes)
         /\ Sync!WinCount(nodes) \in 1..Len(nodes) /\ Sync!WinCount(nodes) \in Nat \ {0}
         /\ IsFiniteSet(Faulty \cap Range(nodes))
         /\ Cardinality(Faulty \cap Range(nodes)) < Sync!WinCount(nodes)
<1>1. nodes \in Seq(Sync!Peers) /\ nodes # <<>>
  <2>1. CASE nodes \in PeerLists
    BY <2>1, SyncAssumption DEF Sync!ListSyncAssumption
  <2>2. CASE nodes = Sync!InOrder
    BY <2>2, SyncAssumption DEF Sync!ListSyncAssumption, Sync!InOrder, Sync!Peers
  <2> QED
    BY <2>1, <2>2 DEF NodeLists
<1>2. IsInjective(nodes) /\ Cardinality(Faulty \cap Range(nodes)) < Sync!WinCount(nodes)
  BY SameOperators, SameCardinality, SyncAssumption DEF Sync!FaultAssumption, NodeLists
<1>3. Sync!WinCount(nodes) \in 1..Len(nodes) /\ Sync!WinCount(nodes) \in Nat \ {0}
  BY <1>1, SyncAssumption DEF Sync!RobustQueryAssumption, Sync!WinCount
<1>4. IsFiniteSet(Faulty \cap Range(nodes))
  <2>1. IsFiniteSet(Sync!Peers)
    BY FS_Interval, SyncAssumption DEF Sync!ListSyncAssumption, Sync!Peers
  <2>2. Faulty \cap Range(nodes) \subseteq Sync!Peers
    BY SyncAssumption DEF Sync!ListSyncAssumption
  <2> QED
    BY <2>1, <2>2, FS_Subset
<1> QED
  BY <1>1, <1>2, <1>3, <1>4

\* Nodes of which none is faulty but gave the same answer, and as many as must agree, cannot
\* all be faulty.
LEMMA EnoughNodes ==
  ASSUME NEW nodes \in NodeLists, NEW seq, Askable(nodes, seq),
         Len(seq) >= Sync!WinCount(nodes)
  PROVE  Range(seq) \cap Sync!Correct # {}
<1> SUFFICES ASSUME Range(seq) \cap Sync!Correct = {} PROVE FALSE
  OBVIOUS
<1> DEFINE faulty == Faulty \cap Range(nodes)
           n == Len(seq)
<1>1. seq \in Seq(Sync!Peers) /\ IsInjective(seq) /\ n \in Nat /\ DOMAIN seq = 1..n
  BY DEF Askable
<1>2. Range(seq) \subseteq faulty
  BY <1>1 DEF Askable, Sync!Correct, Range
<1>3. Range(seq) # {} /\ IsFiniteSet(faulty) /\ Cardinality(faulty) < n /\ Cardinality(faulty) \in Nat
  <2>1. IsFiniteSet(faulty) /\ Cardinality(faulty) \in Nat /\ Sync!WinCount(nodes) \in 1..Len(nodes)
        /\ nodes \in Seq(Sync!Peers) /\ Cardinality(faulty) < Sync!WinCount(nodes)
    BY NodesGiven, FS_CardinalityType
  <2>2. n \in Nat \ {0}
    BY <1>1, <2>1
  <2>3. seq[1] \in Range(seq)
    BY <1>1, <2>2 DEF Range
  <2> QED
    BY <1>1, <2>1, <2>3
<1>4. IsFiniteSet(1..n) /\ Cardinality(1..n) = n
  BY <1>1, FS_Interval
<1>5. seq \in [1..n -> faulty]
  BY <1>1, <1>2 DEF Range
<1>6. \E x, y \in 1..n : x # y /\ seq[x] = seq[y]
  BY <1>3, <1>4, <1>5, FS_PigeonHole
<1> QED
  BY <1>1, <1>6 DEF IsInjective

\* A query that is over with an answer that enough nodes gave has one that is so.
LEMMA RobustGenuine ==
  ASSUME NEW records, NEW nodes \in NodeLists, NEW kind, NEW q,
         QueryOf(records, nodes, kind, q), Sync!Robust(q)
  PROVE  Genuine(records, kind, Sync!HighestItem(q.items).value.hash)
<1> DEFINE n == Len(q.items)
<1>1. q.winCount = Sync!WinCount(nodes) /\ q.winCount \in Nat \ {0}
  BY NodesGiven DEF QueryOf
<1>2. q.items \in Seq(Range(q.items)) /\ n \in Nat /\ DOMAIN q.items = 1..n
  BY DEF QueryOf
<1>3. q.items # <<>>
  BY <1>1 DEF Sync!Robust, Sync!HighestCount
<1>4. n \in Nat \ {0}
  <2>1. n = 0 => q.items = <<>>
    BY <1>2
  <2> QED
    BY <1>2, <1>3, <2>1
<1>5. ASSUME NEW i \in 1..n PROVE Sync!Count(q.items[i]) \in 0..q.winCount
  <2>1. ItemOK(records, nodes, kind, q, q.items[i])
    BY <1>2 DEF QueryOf
  <2>2. q.items[i].nodes \in Seq(Sync!Peers) /\ Len(q.items[i].nodes) <= q.winCount
    BY <2>1 DEF ItemOK, Askable
  <2> QED
    BY <1>1, <2>2 DEF Sync!Count
<1>6. PICK i \in 1..n : Sync!HighestItem(q.items) = q.items[i]
  BY <1>1, <1>2, <1>4, <1>5, LeaderExists
<1>7. ItemOK(records, nodes, kind, q, q.items[i])
  BY <1>2 DEF QueryOf
<1>8. Len(q.items[i].nodes) >= Sync!WinCount(nodes)
  BY <1>1, <1>3, <1>6 DEF Sync!Robust, Sync!HighestCount, Sync!Count
<1> QED
  BY <1>6, <1>7, <1>8, EnoughNodes DEF ItemOK

\* Who is left to ask shrinks.
LEMMA NewQueryOf ==
  ASSUME NEW records, NEW nodes \in NodeLists, NEW kind
  PROVE  QueryOf(records, nodes, kind, Sync!NewQuery(nodes))
<1> DEFINE q == Sync!NewQuery(nodes)
<1>1. q = [winCount |-> Sync!WinCount(nodes), left |-> nodes, asked |-> <<>>, items |-> <<>>,
           tries |-> 0, over |-> FALSE]
  BY DEF Sync!NewQuery
<1> HIDE DEF q
<1>2. Askable(nodes, nodes)
  BY NodesGiven DEF Askable
<1>3. Range(<<>>) = {} /\ <<>> \in Seq(Sync!Peers) /\ IsInjective(<<>>)
  BY DEF Range, IsInjective
<1>4. Askable(nodes, <<>>)
  BY <1>3 DEF Askable
<1>5. <<>> \in Seq(Range(<<>>)) /\ DOMAIN <<>> = {}
  OBVIOUS
<1>6. MaxTries \in Nat \ {0}
  BY SyncAssumption DEF Sync!RobustQueryAssumption
<1>7. /\ q.winCount = Sync!WinCount(nodes) /\ q.left = nodes /\ q.asked = <<>> /\ q.items = <<>>
      /\ q.tries = 0 /\ q.over = FALSE /\ QueryForm(q)
  BY <1>1 DEF QueryForm
<1>8. QueryOf(records, nodes, kind, q)
  <2>1. Askable(nodes, q.left) /\ Askable(nodes, q.asked) /\ Range(q.left) \cap Range(q.asked) = {}
    BY <1>2, <1>3, <1>4, <1>7
  <2>2. q.items \in Seq(Range(q.items)) /\ DOMAIN q.items = {}
    BY <1>5, <1>7
  <2>3. q.tries \in 0..MaxTries /\ q.tries < MaxTries
    BY <1>6, <1>7
  <2>4. q.over \in BOOLEAN
    BY <1>7
  <2> QED
    BY <1>7, <2>1, <2>2, <2>3, <2>4 DEF QueryOf
<1> QED
  BY <1>8 DEF q

\* A part of a sequence of different nodes.
LEMMA PartAskable ==
  ASSUME NEW nodes, NEW seq, Askable(nodes, seq), NEW first \in Nat \ {0}, NEW last \in 0..Len(seq)
  PROVE  /\ Askable(nodes, SubSeq(seq, first, last))
         /\ Range(SubSeq(seq, first, last)) \subseteq Range(seq)
         /\ \A i \in 1..Len(SubSeq(seq, first, last)) :
              SubSeq(seq, first, last)[i] = seq[first + i - 1]
         /\ Len(SubSeq(seq, first, last)) = IF first <= last THEN last - first + 1 ELSE 0
<1> DEFINE part == SubSeq(seq, first, last)
           n == Len(seq)
<1>1. seq \in Seq(Sync!Peers) /\ n \in Nat /\ DOMAIN seq = 1..n
  BY DEF Askable
<1>2. /\ part \in Seq(Sync!Peers)
      /\ Len(part) = IF first <= last THEN last - first + 1 ELSE 0
      /\ \A i \in 1..Len(part) : part[i] = seq[first + i - 1]
  BY <1>1
<1> HIDE DEF part
<1>3. DOMAIN part = 1..Len(part) /\ \A i \in 1..Len(part) : first + i - 1 \in 1..n
  BY <1>1, <1>2
<1>4. Range(part) \subseteq Range(seq)
  BY <1>1, <1>2, <1>3 DEF Range
<1>5. IsInjective(part)
  <2>1. \A i, j \in 1..n : seq[i] = seq[j] => i = j
    BY <1>1 DEF Askable, IsInjective
  <2>2. ASSUME NEW i \in 1..Len(part), NEW j \in 1..Len(part), part[i] = part[j]
        PROVE  i = j
    BY <1>2, <1>3, <2>1, <2>2
  <2> QED
    BY <1>3, <2>2 DEF IsInjective
<1> QED
  BY <1>2, <1>4, <1>5 DEF Askable, part

\* The next round asks some of those that are left, or ends the query.
LEMMA NextRoundOf ==
  ASSUME NEW records, NEW nodes \in NodeLists, NEW kind, NEW q,
         QueryOf(records, nodes, kind, q),
         Sync!Waits(q)
  PROVE  QueryOf(records, nodes, kind, Sync!NextRound(q))
<1> DEFINE k == Sync!ToQuery(q)
           n == Len(q.left)
           p == Sync!NextRound(q)
<1>1. /\ q.asked = <<>> /\ ~q.over /\ q.winCount = Sync!WinCount(nodes)
      /\ q.winCount \in Nat \ {0} /\ n \in Nat
      /\ q.tries \in 0..MaxTries /\ q.tries < MaxTries /\ MaxTries \in Nat
  <2>1. q.asked = <<>> /\ ~q.over /\ q.winCount = Sync!WinCount(nodes) /\ n \in Nat
    BY DEF QueryOf, Sync!Waits, Askable
  <2>2. q.tries \in 0..MaxTries /\ q.tries < MaxTries
    BY <2>1 DEF QueryOf
  <2>3. MaxTries \in Nat
    BY SyncAssumption DEF Sync!RobustQueryAssumption
  <2> QED
    BY <2>1, <2>2, <2>3, NodesGiven
<1>2. k \in Nat \ {0}
  <2> DEFINE m == Len(q.items)
  <2>1. q.items \in Seq(Range(q.items)) /\ m \in Nat /\ DOMAIN q.items = 1..m
    BY DEF QueryOf
  <2>2. ASSUME NEW i \in 1..m
        PROVE  /\ Sync!Count(q.items[i]) \in 0..q.winCount
               /\ Sync!Count(q.items[i]) < q.winCount
    <3>1. ItemOK(records, nodes, kind, q, q.items[i])
      BY <2>1 DEF QueryOf
    <3>2. q.items[i].nodes \in Seq(Sync!Peers) /\ Len(q.items[i].nodes) < q.winCount
      BY <1>1, <3>1 DEF ItemOK, Askable
    <3> QED
      BY <1>1, <3>2 DEF Sync!Count
  <2>3. CASE q.items = <<>>
    BY <1>1, <2>3 DEF Sync!ToQuery, Sync!HighestCount
  <2>4. CASE q.items # <<>>
    <3>1. m \in Nat \ {0}
      <4>1. m = 0 => q.items = <<>>
        BY <2>1
      <4> QED
        BY <2>1, <2>4, <4>1
    <3>2. PICK i \in 1..m : Sync!HighestItem(q.items) = q.items[i]
      BY <1>1, <2>1, <2>2, <3>1, LeaderExists
    <3>3. Sync!HighestCount(q.items) = Sync!Count(q.items[i])
      BY <2>4, <3>2 DEF Sync!HighestCount
    <3> HIDE DEF m
    <3>4. Sync!Count(q.items[i]) \in Nat /\ Sync!Count(q.items[i]) < q.winCount
      BY <1>1, <2>2
    <3> QED
      BY <1>1, <3>3, <3>4 DEF Sync!ToQuery
  <2> QED
    BY <2>3, <2>4
<1>3. CASE ~Sync!Enough(q)
  <2>1. /\ p.winCount = q.winCount /\ p.left = q.left /\ p.asked = q.asked /\ p.items = q.items
        /\ p.tries = q.tries /\ p.over = TRUE /\ QueryForm(p)
    BY <1>3 DEF Sync!NextRound, QueryOf, QueryForm
  <2> HIDE DEF p
  <2>2. ASSUME NEW i \in DOMAIN p.items PROVE ItemOK(records, nodes, kind, p, p.items[i])
    <3>1. ItemOK(records, nodes, kind, q, q.items[i])
      BY <2>1 DEF QueryOf
    <3> QED
      BY <2>1, <3>1 DEF ItemOK
  <2>3. QueryOf(records, nodes, kind, p)
    BY <1>1, <2>1, <2>2 DEF QueryOf
  <2> QED
    BY <2>3 DEF p
<1>4. CASE Sync!Enough(q)
  <2> HIDE DEF k
  <2>1. /\ p.winCount = q.winCount /\ p.left = SubSeq(q.left, k + 1, n)
        /\ p.asked = SubSeq(q.left, 1, k) /\ p.items = q.items
        /\ p.tries = q.tries + 1 /\ p.over = q.over /\ QueryForm(p)
    BY <1>4 DEF Sync!NextRound, QueryOf, QueryForm, k
  <2>2. k <= n
    BY <1>4 DEF Sync!Enough, k
  <2> HIDE DEF p, n
  <2>3. Askable(nodes, q.left)
    BY DEF QueryOf
  <2>4. /\ Askable(nodes, p.asked) /\ Range(p.asked) \subseteq Range(q.left)
        /\ Len(p.asked) = k /\ \A i \in 1..k : p.asked[i] = q.left[i]
    <3>1. k \in 0..n /\ 1 <= k /\ k - 1 + 1 = k /\ \A i \in 1..k : 1 + i - 1 = i
      BY <1>1, <1>2, <2>2
    <3> QED
      BY <2>1, <2>3, <3>1, PartAskable DEF n
  <2>5. /\ Askable(nodes, p.left) /\ Range(p.left) \subseteq Range(q.left)
        /\ \A i \in 1..Len(p.left) : p.left[i] = q.left[k + i]
        /\ Len(p.left) = n - k
    <3>1. k + 1 \in Nat \ {0} /\ n \in 0..n /\ \A i \in Nat : (k + 1) + i - 1 = k + i
          /\ (IF k + 1 <= n THEN n - (k + 1) + 1 ELSE 0) = n - k /\ n - k \in Nat
      BY <1>1, <1>2, <2>2
    <3>0. n \in 0..Len(q.left) /\ p.left = SubSeq(q.left, k + 1, n)
      BY <2>1, <3>1 DEF n
    <3>2. /\ Askable(nodes, p.left) /\ Range(p.left) \subseteq Range(q.left)
          /\ \A i \in 1..Len(p.left) : p.left[i] = q.left[(k + 1) + i - 1]
          /\ Len(p.left) = IF k + 1 <= n THEN n - (k + 1) + 1 ELSE 0
      <4> DEFINE part == SubSeq(q.left, k + 1, n)
      <4>1. /\ Askable(nodes, part) /\ Range(part) \subseteq Range(q.left)
            /\ \A i \in 1..Len(part) : part[i] = q.left[(k + 1) + i - 1]
            /\ Len(part) = IF k + 1 <= n THEN n - (k + 1) + 1 ELSE 0
        <5>1. k + 1 \in Nat \ {0} /\ n \in 0..Len(q.left)
          BY <3>0, <3>1
        <5> QED
          BY <2>3, <5>1, PartAskable
      <4>2. p.left = part
        BY <3>0
      <4> HIDE DEF part
      <4> QED
        BY <4>1, <4>2
    <3>3. Len(p.left) = n - k /\ \A i \in 1..Len(p.left) : i \in Nat
      BY <3>1, <3>2
    <3> QED
      BY <3>1, <3>2, <3>3
  <2>6. Range(p.left) \cap Range(p.asked) = {}
    <3> SUFFICES ASSUME NEW v \in Range(p.left), v \in Range(p.asked) PROVE FALSE
      OBVIOUS
    <3>1. PICK i \in 1..(n - k) : v = q.left[k + i]
      BY <2>5 DEF Range, Askable
    <3>2. PICK j \in 1..k : v = q.left[j]
      BY <2>4 DEF Range, Askable
    <3>3. k + i \in 1..n /\ j \in 1..n /\ k + i # j
      BY <1>1, <1>2, <2>2
    <3>4. DOMAIN q.left = 1..n
      BY <2>3 DEF Askable, n
    <3> QED
      BY <2>3, <3>1, <3>2, <3>3, <3>4 DEF Askable, IsInjective
  <2>7. ASSUME NEW i \in DOMAIN p.items PROVE ItemOK(records, nodes, kind, p, p.items[i])
    <3>1. ItemOK(records, nodes, kind, q, q.items[i])
      BY <2>1 DEF QueryOf
    <3> QED
      BY <2>1, <2>4, <2>5, <3>1 DEF ItemOK
  <2>8. p.tries \in 0..MaxTries
    BY <1>1, <2>1
  <2>9. ~(p.asked = <<>>) /\ p.over = FALSE
    BY <1>1, <1>2, <2>1, <2>4 DEF QueryOf
  <2>10. p.items \in Seq(Range(p.items)) /\ p.over \in BOOLEAN /\ p.winCount = Sync!WinCount(nodes)
    BY <1>1, <2>1 DEF QueryOf
  <2>11. QueryOf(records, nodes, kind, p)
    BY <2>1, <2>4, <2>5, <2>6, <2>7, <2>8, <2>9, <2>10 DEF QueryOf
  <2> QED
    BY <2>11 DEF p
<1> QED
  BY <1>3, <1>4

\* A node's answer joins the item of its value, or makes one.
CountedOf(counted, items, value, node) ==
  /\ counted \in Seq(Range(counted))
  /\ \A i \in DOMAIN counted :
       \/ i \in DOMAIN items /\ counted[i] = items[i]
       \/ counted[i] = [value |-> value, nodes |-> <<node>>]
       \/ /\ i \in DOMAIN items /\ items[i].value = value
          /\ counted[i] = [value |-> value, nodes |-> Append(items[i].nodes, node)]

\* Counting an answer changes one item at most, and that only by the node that gave it.
LEMMA CountedItems ==
  ASSUME NEW items, items \in Seq(Range(items)), NEW value, NEW node,
         \A i \in DOMAIN items : /\ items[i] = [value |-> items[i].value, nodes |-> items[i].nodes]
                                 /\ items[i].nodes \in Seq(Sync!Peers)
  PROVE  CountedOf(Sync!Counted(items, value, node), items, value, node)
<1> DEFINE counted == Sync!Counted(items, value, node)
           n == Len(items)
<1>1. n \in Nat /\ DOMAIN items = 1..n
  OBVIOUS
<1>2. CASE Sync!Gave(items, value) = {}
  <2> DEFINE new == [value |-> value, nodes |-> <<node>>]
  <2>1. counted = Append(items, new)
    BY <1>2 DEF Sync!Counted
  <2> HIDE DEF new
  <2>2. items \in Seq(Range(items) \cup {new}) /\ new \in Range(items) \cup {new}
    BY <1>1 DEF Range
  <2> HIDE DEF counted
  <2>3. /\ counted \in Seq(Range(items) \cup {new}) /\ Len(counted) = n + 1
        /\ \A i \in 1..n : counted[i] = items[i]
        /\ counted[n + 1] = new
    BY <2>1, <2>2
  <2>4. DOMAIN counted = 1..(n + 1) /\ \A i \in 1..(n + 1) : i \in 1..n \/ i = n + 1
    BY <1>1, <2>3
  <2>5. counted \in Seq(Range(counted))
    BY <1>1, <2>3, <2>4 DEF Range
  <2> QED
    BY <1>1, <2>3, <2>4, <2>5 DEF new, counted, CountedOf
<1>3. CASE Sync!Gave(items, value) # {}
  <2> DEFINE k == CHOOSE i \in Sync!Gave(items, value) : TRUE
             new == [items[k] EXCEPT !.nodes = Append(@, node)]
  <2>1. k \in 1..n /\ items[k].value = value
    BY <1>1, <1>3 DEF Sync!Gave
  <2>2. counted = [items EXCEPT ![k].nodes = Append(@, node)]
    BY <1>3 DEF Sync!Counted
  <2> HIDE DEF k
  <2>3. counted = [items EXCEPT ![k] = new]
    BY <2>1, <2>2, <1>1
  <2>4. new = [value |-> value, nodes |-> Append(items[k].nodes, node)]
    BY <1>1, <2>1
  <2> HIDE DEF counted, new
  <2>5. /\ DOMAIN counted = 1..n /\ counted[k] = new
        /\ \A i \in 1..n : i # k => counted[i] = items[i]
    BY <1>1, <2>1, <2>3
  <2>6. counted \in Seq(Range(counted))
    <3>1. counted = [i \in 1..n |-> counted[i]]
      BY <1>1, <2>3, <2>5
    <3>2. \A i \in 1..n : counted[i] \in Range(counted)
      BY <2>5 DEF Range
    <3> QED
      BY <1>1, <3>1, <3>2
  <2> QED
    BY <1>1, <2>1, <2>4, <2>5, <2>6 DEF counted, CountedOf
<1> QED
  BY <1>2, <1>3

\* What an answer does: a node that is not faulty says what is so.
LEMMA AnsweredOf ==
  ASSUME NEW records, NEW nodes \in NodeLists, NEW kind, NEW q,
         QueryOf(records, nodes, kind, q),
         ~q.over, q.asked # <<>>, NEW value,
         Head(q.asked) \in Sync!Correct => Genuine(records, kind, value.hash)
  PROVE  QueryOf(records, nodes, kind, Sync!Answered(q, value))
<1> DEFINE node == Head(q.asked)
           items == Sync!Counted(q.items, value, node)
           p == Sync!Answered(q, value)
           won == \E i \in DOMAIN items : Sync!Count(items[i]) >= q.winCount
           rest == IF won THEN <<>> ELSE Tail(q.asked)
           over == won \/ (rest = <<>> /\ q.tries >= MaxTries)
<1>1. /\ p.winCount = q.winCount /\ p.left = q.left /\ p.items = items /\ p.asked = rest
      /\ p.tries = q.tries /\ p.over = over /\ QueryForm(p)
  <2>1. p = [q EXCEPT !.items = items, !.asked = rest, !.over = over]
    BY DEF Sync!Answered
  <2>2. q = [winCount |-> q.winCount, left |-> q.left, asked |-> q.asked, items |-> q.items,
             tries |-> q.tries, over |-> q.over]
    BY DEF QueryOf, QueryForm
  <2> HIDE DEF p, items, rest, over
  <2> QED
    BY <2>1, <2>2 DEF QueryForm
<1>2. /\ q.winCount = Sync!WinCount(nodes) /\ q.winCount \in Nat \ {0}
      /\ Askable(nodes, q.left) /\ Askable(nodes, q.asked)
      /\ Range(q.left) \cap Range(q.asked) = {}
      /\ q.items \in Seq(Range(q.items))
  BY NodesGiven DEF QueryOf
<1>3. q.tries \in 0..MaxTries /\ MaxTries \in Nat
  BY SyncAssumption DEF QueryOf, Sync!RobustQueryAssumption
<1>4. ASSUME NEW i \in DOMAIN q.items
      PROVE  /\ ItemOK(records, nodes, kind, q, q.items[i])
             /\ q.items[i] = [value |-> q.items[i].value, nodes |-> q.items[i].nodes]
             /\ q.items[i].nodes \in Seq(Sync!Peers)
             /\ Len(q.items[i].nodes) < q.winCount
  <2>1. ItemOK(records, nodes, kind, q, q.items[i])
    BY DEF QueryOf
  <2> QED
    BY <2>1 DEF ItemOK, Askable
<1>5. /\ items \in Seq(Range(items))
      /\ \A i \in DOMAIN items :
           \/ i \in DOMAIN q.items /\ items[i] = q.items[i]
           \/ items[i] = [value |-> value, nodes |-> <<node>>]
           \/ /\ i \in DOMAIN q.items /\ q.items[i].value = value
              /\ items[i] = [value |-> value, nodes |-> Append(q.items[i].nodes, node)]
  <2>1. CountedOf(items, q.items, value, node)
    BY <1>2, <1>4, CountedItems
  <2> QED
    BY <2>1 DEF CountedOf
<1> HIDE DEF items
<1> DEFINE m == Len(q.asked)
<1>6. /\ m \in Nat \ {0} /\ q.asked \in Seq(Sync!Peers) /\ DOMAIN q.asked = 1..m
      /\ node = q.asked[1] /\ node \in Range(q.asked)
      /\ Tail(q.asked) = SubSeq(q.asked, 2, m)
  <2>1. q.asked \in Seq(Sync!Peers) /\ m \in Nat /\ DOMAIN q.asked = 1..m
    BY <1>2 DEF Askable
  <2>2. m # 0
    BY <2>1
  <2>3. Tail(q.asked) = SubSeq(q.asked, 2, m)
    BY <2>1, <2>2
  <2> QED
    BY <2>1, <2>2, <2>3 DEF Range
<1>7. /\ Askable(nodes, Tail(q.asked)) /\ Range(Tail(q.asked)) \subseteq Range(q.asked)
      /\ node \notin Range(Tail(q.asked))
  <2> DEFINE part == SubSeq(q.asked, 2, m)
  <2>1. /\ Askable(nodes, part) /\ Range(part) \subseteq Range(q.asked)
        /\ \A i \in 1..Len(part) : part[i] = q.asked[2 + i - 1]
        /\ Len(part) = IF 2 <= m THEN m - 2 + 1 ELSE 0
    <3>1. 2 \in Nat \ {0} /\ m \in 0..Len(q.asked)
      BY <1>6
    <3> QED
      BY <1>2, <3>1, PartAskable
  <2> HIDE DEF part
  <2>2. DOMAIN part = 1..Len(part)
    BY <2>1 DEF Askable
  <2>3. ASSUME NEW i \in 1..Len(part) PROVE part[i] # node
    <3>1. 2 + i - 1 \in 1..m /\ 2 + i - 1 # 1 /\ 1 \in 1..m
      BY <1>6, <2>1
    <3>2. part[i] = q.asked[2 + i - 1]
      BY <2>1
    <3> QED
      BY <1>2, <1>6, <3>1, <3>2 DEF Askable, IsInjective
  <2>4. node \notin Range(part)
    BY <2>2, <2>3 DEF Range
  <2> QED
    BY <1>6, <2>1, <2>4 DEF part
<1> HIDE DEF p, m, node
<1>8. /\ Askable(nodes, rest) /\ Range(rest) \subseteq Range(q.asked) /\ node \notin Range(rest)
  <2>1. Askable(nodes, <<>>) /\ Range(<<>>) = {}
    BY DEF Askable, Range, IsInjective
  <2> QED
    BY <1>7, <2>1
<1>9. node \in Range(nodes) /\ node \in Sync!Peers
  BY <1>2, <1>6 DEF Askable
<1>10. ~won => \A i \in DOMAIN items : Len(items[i].nodes) < q.winCount
  <2>1. ASSUME ~won, NEW i \in DOMAIN items PROVE Len(items[i].nodes) < q.winCount
    <3>1. ~(Len(items[i].nodes) >= q.winCount)
      BY <2>1 DEF Sync!Count
    <3>2. Len(items[i].nodes) \in Nat
      <4>1. <<node>> \in Seq(Sync!Peers) /\ Len(<<node>>) \in Nat
        BY <1>9
      <4>2. ASSUME i \in DOMAIN q.items PROVE /\ Len(q.items[i].nodes) \in Nat
                                             /\ Len(Append(q.items[i].nodes, node)) \in Nat
        BY <1>4, <1>9, <4>2
      <4> QED
        BY <1>5, <4>1, <4>2
    <3> QED
      BY <1>2, <3>1, <3>2
  <2> QED
    BY <2>1
<1> HIDE DEF won, rest
<1>11. p.over = FALSE => ~won
  BY <1>1
<1>12. \A i \in DOMAIN items : p.over = FALSE => Len(items[i].nodes) < q.winCount
  BY <1>10, <1>11
<1>13. ASSUME NEW i \in DOMAIN items PROVE ItemOK(records, nodes, kind, p, items[i])
  <2>1. (~p.over) => Len(items[i].nodes) < q.winCount
    BY <1>12
  <2>2. Range(p.left) \cup Range(p.asked) \subseteq (Range(q.left) \cup Range(q.asked)) \ {node}
    BY <1>1, <1>2, <1>6, <1>8
  <2>3. CASE i \in DOMAIN q.items /\ items[i] = q.items[i]
    <3>1. ItemOK(records, nodes, kind, q, q.items[i])
      BY <1>4, <2>3
    <3> QED
      BY <1>1, <2>1, <2>2, <2>3, <3>1 DEF ItemOK
  <2>4. CASE items[i] = [value |-> value, nodes |-> <<node>>]
    <3>1. /\ <<node>> \in Seq(Sync!Peers) /\ Range(<<node>>) = {node} /\ IsInjective(<<node>>)
          /\ Len(<<node>>) = 1
      BY <1>9 DEF Range, IsInjective
    <3>2. Askable(nodes, <<node>>)
      BY <1>9, <3>1 DEF Askable
    <3>3. {node} \cap Sync!Correct # {} => Genuine(records, kind, value.hash)
      BY DEF node
    <3>4. /\ items[i].value = value /\ items[i].nodes = <<node>>
          /\ items[i] = [value |-> items[i].value, nodes |-> items[i].nodes]
      BY <2>4
    <3>5. 1 <= q.winCount
      BY <1>2
    <3> QED
      BY <1>1, <2>1, <2>2, <3>1, <3>2, <3>3, <3>4, <3>5 DEF ItemOK
  <2>5. CASE /\ i \in DOMAIN q.items /\ q.items[i].value = value
             /\ items[i] = [value |-> value, nodes |-> Append(q.items[i].nodes, node)]
    <3> DEFINE before == q.items[i].nodes
               longer == Append(before, node)
               k == Len(before)
    <3>1. /\ ItemOK(records, nodes, kind, q, q.items[i]) /\ before \in Seq(Sync!Peers)
          /\ k < q.winCount /\ Askable(nodes, before) /\ k \in Nat /\ DOMAIN before = 1..k
          /\ node \notin Range(before)
      BY <1>4, <1>6, <2>5 DEF ItemOK, Askable
    <3>2. /\ longer \in Seq(Sync!Peers) /\ Len(longer) = k + 1 /\ DOMAIN longer = 1..(k + 1)
          /\ \A j \in 1..k : longer[j] = before[j]
          /\ longer[k + 1] = node
      BY <1>9, <3>1
    <3>3. /\ items[i].value = value /\ items[i].nodes = longer
          /\ items[i] = [value |-> items[i].value, nodes |-> items[i].nodes]
      BY <2>5
    <3>4. ItemOK(records, nodes, kind, q, q.items[i]) /\ q.items[i].value = value
      BY <2>5, <3>1
    <3>5. /\ Range(before) \cap (Range(q.left) \cup Range(q.asked)) = {}
          /\ Range(before) \cap Sync!Correct # {} => Genuine(records, kind, value.hash)
      BY <3>4 DEF ItemOK
    <3> HIDE DEF longer, before, k
    <3>6. \A j \in 1..(k + 1) : j \in 1..k \/ j = k + 1
      BY <3>1
    <3>7. Range(longer) = Range(before) \cup {node}
      <4>1. Range(before) = {before[j] : j \in 1..k}
        BY <3>1 DEF Range
      <4>2. Range(longer) = {longer[j] : j \in 1..(k + 1)}
        BY <3>2 DEF Range
      <4>3. k + 1 \in 1..(k + 1) /\ 1..k \subseteq 1..(k + 1)
        BY <3>1
      <4> QED
        BY <3>2, <3>6, <4>1, <4>2, <4>3
    <3>8. IsInjective(longer)
      <4>1. ASSUME NEW a \in 1..(k + 1), NEW b \in 1..(k + 1), longer[a] = longer[b]
            PROVE  a = b
        <5>1. \A j \in 1..k : before[j] # node
          BY <3>1 DEF Range
        <5>2. \A c, d \in 1..k : before[c] = before[d] => c = d
          BY <3>1 DEF Askable, IsInjective
        <5> QED
          BY <3>2, <3>6, <4>1, <5>1, <5>2
      <4> QED
        BY <3>2, <4>1 DEF IsInjective
    <3>9. Askable(nodes, longer)
      BY <1>9, <3>1, <3>2, <3>7, <3>8 DEF Askable
    <3>10. Range(longer) \cap Sync!Correct # {} => Genuine(records, kind, value.hash)
      BY <3>5, <3>7 DEF node
    <3>11. Len(longer) <= q.winCount
      BY <1>2, <3>1, <3>2
    <3>12. Range(longer) \cap (Range(p.left) \cup Range(p.asked)) = {}
      BY <2>2, <3>5, <3>7
    <3> QED
      BY <1>1, <2>1, <3>3, <3>9, <3>10, <3>11, <3>12 DEF ItemOK
  <2> QED
    BY <1>5, <2>3, <2>4, <2>5
<1>14. /\ over \in BOOLEAN /\ (~over /\ rest = <<>> => q.tries < MaxTries)
       /\ over => rest = <<>>
  <2>1. over \in BOOLEAN
    OBVIOUS
  <2>2. ~over /\ rest = <<>> => ~(q.tries >= MaxTries)
    OBVIOUS
  <2> QED
    BY <1>3, <2>1, <2>2 DEF rest
<1> HIDE DEF over
<1>15. QueryOf(records, nodes, kind, p)
  <2>1. Range(q.left) \cap Range(rest) = {}
    BY <1>2, <1>8
  <2>2. /\ p.over \in BOOLEAN /\ (~p.over /\ p.asked = <<>> => p.tries < MaxTries)
        /\ p.over => p.asked = <<>>
    BY <1>1, <1>14
  <2>3. /\ p.tries \in 0..MaxTries /\ p.winCount = Sync!WinCount(nodes) /\ QueryForm(p)
        /\ p.items \in Seq(Range(p.items)) /\ Askable(nodes, p.left) /\ Askable(nodes, p.asked)
        /\ Range(p.left) \cap Range(p.asked) = {}
    BY <1>1, <1>2, <1>3, <1>5, <1>8, <2>1
  <2>4. \A i \in DOMAIN p.items : ItemOK(records, nodes, kind, p, p.items[i])
    BY <1>1, <1>13
  <2> QED
    BY <2>2, <2>3, <2>4 DEF QueryOf
<1> QED
  BY <1>15 DEF p, node

-----------------------------------------------------------------------------
(* The records of the network *)

\* The fields of a new record.
FieldsOf(record, records, patch) ==
  LET before == Sync!After(records)
  IN /\ Sync!PatchFields \subseteq DOMAIN record
     /\ record.counter = Len(records)
     /\ record.joinedConsensors = patch.joinedConsensors
     /\ record.refreshedConsensors = patch.refreshedConsensors
     /\ record.joinedArchivers = patch.joinedArchivers
     /\ record.active = Sync!Cardinality(Sync!Nodes(before.validators, "active"))
     /\ record.listed.validators = before.validators
     /\ record.listed.archivers = before.archivers
     /\ record.after = [validators |-> record.after.validators,
                        archivers |-> record.after.archivers,
                        standby |-> record.after.standby]
     /\ DOMAIN record.after.validators
          \subseteq DOMAIN before.validators \cup patch.joinedConsensors
     /\ record.after.archivers = before.archivers \cup patch.joinedArchivers

\* A record of the network lists the nodes and archivers there were before it.
LEMMA NewRecordFields ==
  ASSUME NEW s \in Starts, NEW patch \in Patches[s], NEW records, RecordsOK(records)
  PROVE  FieldsOf(Sync!NewRecord(records, patch), records, patch)
<1> DEFINE record == Sync!NewRecord(records, patch)
<1> DEFINE before == Sync!After(records)
<1>1. before = [validators |-> before.validators, archivers |-> before.archivers,
                standby |-> before.standby]
  <2>1. CASE records = <<>>
    BY <2>1 DEF Sync!After, Sync!NoLists
  <2>2. CASE records # <<>>
    <3>1. Len(records) \in DOMAIN records
      BY <2>2 DEF RecordsOK
    <3>2. before = records[Len(records)].after
      BY <2>2, SameOperators DEF Sync!After
    <3> QED
      BY <3>1, <3>2 DEF RecordsOK, RecordOK
  <2> QED
    BY <2>1, <2>2
<1> DEFINE txs == Sync!RemoveTxs(Sync!AddTxs(Sync!TxsAfter(records), patch.txadd), patch.txremove)
           listed == Sync!With(before, [txs |-> txs])
           kept == (DOMAIN before.validators \cup patch.joinedConsensors)
                     \ (patch.removed \cup patch.lostAfterSelection)
           validators == [n \in kept |-> IF n \in patch.activated THEN "active"
                                         ELSE IF n \in DOMAIN before.validators
                                           THEN before.validators[n] ELSE "syncing"]
           syncing == Sync!Cardinality(Sync!Nodes(before.validators, "syncing"))
           active == Sync!Cardinality(Sync!Nodes(before.validators, "active"))
           after == [validators |-> validators,
                     archivers |-> before.archivers \cup patch.joinedArchivers,
                     standby |-> (before.standby \cup patch.standbyAdd) \ patch.standbyRemove]
           more == [counter |-> Len(records), apoptosized |-> {}, syncing |-> syncing,
                    active |-> active, listed |-> listed, after |-> after]
<1>2. record = Sync!With(patch, more)
  BY DEF Sync!NewRecord
<1>3. DOMAIN patch = Sync!PatchFields
  BY SyncAssumption DEF Sync!ListSyncAssumption
<1>4. listed.validators = before.validators /\ listed.archivers = before.archivers
  <2> HIDE DEF before, txs
  <2>1. DOMAIN before = {"validators", "archivers", "standby"}
    BY <1>1
  <2> QED
    BY <2>1 DEF Sync!With
<1>5. DOMAIN validators \subseteq DOMAIN before.validators \cup patch.joinedConsensors
  OBVIOUS
<1> HIDE DEF before, listed, validators, syncing, active, record
<1>6. /\ record.counter = Len(records) /\ record.active = active /\ record.listed = listed
      /\ record.after = after
  <2> HIDE DEF after
  <2> QED
    BY <1>2, <1>3 DEF Sync!With, Sync!PatchFields
<1>7. /\ record.joinedConsensors = patch.joinedConsensors
      /\ record.refreshedConsensors = patch.refreshedConsensors
      /\ record.joinedArchivers = patch.joinedArchivers
      /\ Sync!PatchFields \subseteq DOMAIN record
  <2> HIDE DEF more
  <2> QED
    BY <1>2, <1>3 DEF Sync!With, Sync!PatchFields
<1> QED
  BY <1>4, <1>5, <1>6, <1>7 DEF active, before, record, FieldsOf

\* A record the network makes of its last one keeps what is known of its records.
AppendedOK(more, records, record) ==
  /\ RecordsOK(more)
  /\ Len(more) = Len(records) + 1 /\ DOMAIN more = 1..(Len(records) + 1)
  /\ \A i \in 1..Len(records) : more[i] = records[i]
  /\ more[Len(records) + 1] = record
  /\ Sync!Ever(records) \subseteq Sync!Ever(more)
  /\ Sync!EverArchivers(records) \subseteq Sync!EverArchivers(more)

\* Appending the network's next record keeps what is known of the earlier ones.
LEMMA RecordAppended ==
  ASSUME NEW s \in Starts, NEW patch \in Patches[s], NEW records, RecordsOK(records),
         Sync!Legal(records, patch)
  PROVE  AppendedOK(Append(records, Sync!NewRecord(records, patch)), records,
                    Sync!NewRecord(records, patch))
<1> DEFINE record == Sync!NewRecord(records, patch)
           more == Append(records, record)
           n == Len(records)
           before == Sync!After(records)
<1>1. records \in Seq(Range(records)) /\ n \in Nat /\ DOMAIN records = 1..n
  BY DEF RecordsOK
<1>2. FieldsOf(record, records, patch)
  BY NewRecordFields
<1> HIDE DEF record
<1>3. /\ more \in Seq(Range(more)) /\ Len(more) = n + 1 /\ DOMAIN more = 1..(n + 1)
      /\ \A i \in 1..n : more[i] = records[i]
      /\ more[n + 1] = record
  <2>1. records \in Seq(Range(records) \cup {record})
    BY <1>1 DEF Range
  <2>2. /\ more \in Seq(Range(records) \cup {record}) /\ Len(more) = n + 1 /\ DOMAIN more = 1..(n + 1)
        /\ \A i \in 1..n : more[i] = records[i]
        /\ more[n + 1] = record
    BY <1>1, <2>1
  <2> HIDE DEF more
  <2>3. \A i \in 1..(n + 1) : more[i] \in Range(more)
    BY <2>2 DEF Range
  <2> QED
    BY <1>1, <2>2, <2>3
<1> HIDE DEF more
<1>4. /\ Sync!Ever(more) = Sync!Ever(records) \cup record.joinedConsensors
      /\ Sync!EverArchivers(more) = Sync!EverArchivers(records) \cup record.joinedArchivers
  <2>1. \A i \in 1..(n + 1) : i \in 1..n \/ i = n + 1
    BY <1>1
  <2>2. n + 1 \in 1..(n + 1) /\ \A i \in 1..n : i \in 1..(n + 1)
    BY <1>1
  <2>3. Sync!Ever(more) = Sync!Ever(records) \cup record.joinedConsensors
    BY <1>1, <1>3, <2>1, <2>2 DEF Sync!Ever
  <2>4. Sync!EverArchivers(more) = Sync!EverArchivers(records) \cup record.joinedArchivers
    BY <1>1, <1>3, <2>1, <2>2 DEF Sync!EverArchivers
  <2> QED
    BY <2>3, <2>4
<1>5. /\ DOMAIN before.validators \subseteq Sync!Ever(records)
      /\ IsFiniteSet(DOMAIN before.validators)
      /\ before.archivers \subseteq Sync!EverArchivers(records)
  <2>1. CASE records = <<>>
    <3>1. before.validators = <<>> /\ before.archivers = {}
      BY <2>1 DEF Sync!After, Sync!NoLists
    <3>2. DOMAIN before.validators = {}
      BY <3>1
    <3> QED
      BY <3>1, <3>2, FS_EmptySet
  <2>2. CASE records # <<>>
    <3>1. n \in DOMAIN records
      BY <1>1, <2>2
    <3>2. before = records[n].after
      BY <2>2, SameOperators DEF Sync!After
    <3>3. RecordOK(records, n)
      BY <3>1 DEF RecordsOK
    <3> QED
      BY <3>2, <3>3 DEF RecordOK
  <2> QED
    BY <2>1, <2>2
<1>6. ASSUME NEW i \in 1..n PROVE RecordOK(more, i)
  <2>1. RecordOK(records, i)
    BY <1>1 DEF RecordsOK
  <2> QED
    BY <1>3, <1>4, <2>1 DEF RecordOK
<1>7. RecordOK(more, n + 1)
  <2> HIDE DEF before
  <2>1. /\ record.counter = n + 1 - 1 /\ Sync!PatchFields \subseteq DOMAIN record
        /\ record.joinedConsensors = patch.joinedConsensors
        /\ record.refreshedConsensors = patch.refreshedConsensors
        /\ record.joinedArchivers = patch.joinedArchivers
        /\ record.listed.validators = before.validators
        /\ record.listed.archivers = before.archivers
        /\ record.after = [validators |-> record.after.validators,
                           archivers |-> record.after.archivers,
                           standby |-> record.after.standby]
        /\ DOMAIN record.after.validators
             \subseteq DOMAIN before.validators \cup patch.joinedConsensors
        /\ record.after.archivers = before.archivers \cup patch.joinedArchivers
    BY <1>1, <1>2 DEF FieldsOf, before
  <2>2. record.active \in Nat
    <3>1. record.active = Sync!Cardinality(Sync!Nodes(before.validators, "active"))
      BY <1>2 DEF FieldsOf, before
    <3>2. Sync!Nodes(before.validators, "active") \subseteq DOMAIN before.validators
      BY DEF Sync!Nodes
    <3>3. IsFiniteSet(Sync!Nodes(before.validators, "active"))
      BY <1>5, <3>2, FS_Subset
    <3> QED
      BY <3>1, <3>3, FS_CardinalityType, SameCardinality
  <2>3. patch.refreshedConsensors \subseteq DOMAIN before.validators
    BY DEF Sync!Legal, Sync!Nodes, before
  <2>4. IsFiniteSet(DOMAIN record.after.validators)
    <3>1. IsFiniteSet(patch.joinedConsensors)
      BY SameOperators, SyncAssumption DEF Sync!ListSyncAssumption
    <3> QED
      BY <1>5, <2>1, <3>1, FS_Union, FS_Subset
  <2> QED
    BY <1>3, <1>4, <1>5, <2>1, <2>2, <2>3, <2>4 DEF RecordOK
<1>8. RecordsOK(more)
  <2>1. \A i \in 1..(n + 1) : i \in 1..n \/ i = n + 1
    BY <1>1
  <2> QED
    BY <1>3, <1>6, <1>7, <2>1 DEF RecordsOK
<1> QED
  BY <1>3, <1>4, <1>8 DEF AppendedOK, more, record

-----------------------------------------------------------------------------
(* The node lists *)

\* Lists made of others name no nodes but theirs and those given.
Names(l, given, made) == WellFormed(made) /\ Reach(made) \subseteq Reach(l) \cup given

\* Naming only given nodes composes.
LEMMA NamesTrans ==
  ASSUME NEW l, NEW S, NEW T, NEW k, NEW m, Names(l, S, k), Names(k, T, m)
  PROVE  Names(l, S \cup T, m)
BY DEF Names

IdentifiedFrom(k, l, nodes) ==
  /\ WellFormed(k) /\ k.syncing = l.syncing /\ k.active = l.active
  /\ DOMAIN k.byPublicKey = DOMAIN l.byPublicKey \cup DOMAIN nodes

\* Noting ids and keys moves no node between the lists.
LEMMA IdentifiedKeeps ==
  ASSUME NEW l, WellFormed(l), NEW nodes
  PROVE  IdentifiedFrom(Sync!Identified(l, nodes), l, nodes)
<1> DEFINE k == Sync!Identified(l, nodes)
<1> DEFINE given == {pk \in DOMAIN nodes : nodes[pk] # NoId}
           keys == [pk \in DOMAIN l.byPublicKey \cup DOMAIN nodes |->
                      IF pk \in given \/ pk \notin DOMAIN l.byPublicKey
                        THEN nodes[pk] ELSE l.byPublicKey[pk]]
           ids == [id \in DOMAIN l.byId \cup {nodes[pk] : pk \in given} |->
                     IF \E pk \in given : nodes[pk] = id
                       THEN CHOOSE pk \in given : nodes[pk] = id
                       ELSE l.byId[id]]
<1>1. k = [l EXCEPT !.byPublicKey = keys, !.byId = ids]
  BY DEF Sync!Identified, WellFormed
<1>2. DOMAIN keys = DOMAIN l.byPublicKey \cup DOMAIN nodes
  OBVIOUS
<1> HIDE DEF keys, ids, k
<1> QED
  BY <1>1, <1>2 DEF WellFormed, IdentifiedFrom, k

\* Operations that add nodes add those they are given, and setActive adds none.
LEMMA AddingNames ==
  ASSUME NEW l, WellFormed(l), NEW nodes
  PROVE  /\ Names(l, DOMAIN nodes, Sync!addSyncingNodes(l, nodes))
         /\ Names(l, DOMAIN nodes, Sync!addActiveNodes(l, nodes))
         /\ Names(l, DOMAIN nodes, Sync!refreshNodes(l, nodes))
         /\ \A pks : Names(l, {}, Sync!setActive(l, pks))
<1> DEFINE k == Sync!Identified(l, nodes)
           missing == Sync!Unlisted(l, nodes)
<1>1. /\ WellFormed(k) /\ k.syncing = l.syncing /\ k.active = l.active
      /\ DOMAIN k.byPublicKey = DOMAIN l.byPublicKey \cup DOMAIN nodes
  BY IdentifiedKeeps DEF IdentifiedFrom
<1>2. missing \subseteq DOMAIN nodes
  BY DEF Sync!Unlisted
<1>3. Names(l, DOMAIN nodes, Sync!addSyncingNodes(l, nodes))
  <2> DEFINE made == Sync!addSyncingNodes(l, nodes)
  <2>1. made = [k EXCEPT !.standby = @ \ missing,
                         !.active = @ \ missing,
                         !.activeListByIdSorted = Sync!Without(@, missing),
                         !.syncing = @ \cup missing]
    BY DEF Sync!addSyncingNodes, Sync!ToSyncing
  <2> HIDE DEF made, k, missing
  <2>2. /\ WellFormed(made) /\ made.syncing = k.syncing \cup missing
        /\ made.active = k.active \ missing /\ made.byPublicKey = k.byPublicKey
    BY <1>1, <2>1 DEF WellFormed
  <2> QED
    BY <1>1, <1>2, <2>2 DEF Names, Reach, made
<1>4. Names(l, DOMAIN nodes, Sync!addActiveNodes(l, nodes))
  <2> DEFINE made == Sync!addActiveNodes(l, nodes)
             sorted == Sync!InsertAllSorted(k.byPublicKey, k.activeListByIdSorted, missing \ k.active)
  <2>1. made = [k EXCEPT !.standby = @ \ missing,
                         !.syncing = @ \ missing,
                         !.active = @ \cup missing,
                         !.activeListByIdSorted = sorted]
    BY <1>1 DEF Sync!addActiveNodes, Sync!ToActive, WellFormed
  <2> HIDE DEF made, k, missing, sorted
  <2>2. /\ WellFormed(made) /\ made.syncing = k.syncing \ missing
        /\ made.active = k.active \cup missing /\ made.byPublicKey = k.byPublicKey
    BY <1>1, <2>1 DEF WellFormed
  <2> QED
    BY <1>1, <1>2, <2>2 DEF Names, Reach, made
<1>5. Names(l, DOMAIN nodes, Sync!refreshNodes(l, nodes))
  <2> DEFINE made == Sync!refreshNodes(l, nodes)
             sorted == Sync!InsertAllSorted(k.byPublicKey, k.activeListByIdSorted, missing)
  <2>1. made = [k EXCEPT !.active = @ \cup missing, !.activeListByIdSorted = sorted]
    BY <1>1 DEF Sync!refreshNodes, WellFormed
  <2> HIDE DEF made, k, missing, sorted
  <2>2. /\ WellFormed(made) /\ made.syncing = k.syncing
        /\ made.active = k.active \cup missing /\ made.byPublicKey = k.byPublicKey
    BY <1>1, <2>1 DEF WellFormed
  <2> QED
    BY <1>1, <1>2, <2>2 DEF Names, Reach, made
<1>6. ASSUME NEW pks PROVE Names(l, {}, Sync!setActive(l, pks))
  <2> DEFINE made == Sync!setActive(l, pks)
             moved == pks \cap DOMAIN l.byPublicKey
             sorted == Sync!InsertAllSorted(l.byPublicKey, l.activeListByIdSorted, moved \ l.active)
  <2>1. made = [l EXCEPT !.standby = @ \ moved,
                         !.syncing = @ \ moved,
                         !.active = @ \cup moved,
                         !.activeListByIdSorted = sorted]
    BY DEF Sync!setActive, Sync!ToActive, WellFormed
  <2>2. moved \subseteq DOMAIN l.byPublicKey
    OBVIOUS
  <2> HIDE DEF made, moved, sorted
  <2>3. /\ WellFormed(made) /\ made.syncing = l.syncing \ moved
        /\ made.active = l.active \cup moved /\ made.byPublicKey = l.byPublicKey
    BY <2>1 DEF WellFormed
  <2> QED
    BY <2>2, <2>3 DEF Names, Reach, made
<1> QED
  BY <1>3, <1>4, <1>5, <1>6

\* Standby operations and removals add no node to the syncing and active lists.
LEMMA RemovingNames ==
  ASSUME NEW l, WellFormed(l), NEW pks
  PROVE  /\ Names(l, {}, Sync!addStandbyNodes(l, pks))
         /\ Names(l, {}, Sync!removeStandbyNodes(l, pks))
         /\ Names(l, {}, Sync!removeNodes(l, pks))
<1>1. Names(l, {}, Sync!addStandbyNodes(l, pks))
  BY DEF Names, WellFormed, Reach, Sync!addStandbyNodes
<1>2. Names(l, {}, Sync!removeStandbyNodes(l, pks))
  BY DEF Names, WellFormed, Reach, Sync!removeStandbyNodes
<1>3. Names(l, {}, Sync!removeNodes(l, pks))
  <2> DEFINE made == Sync!removeNodes(l, pks)
             gone == pks \cap DOMAIN l.byPublicKey
             goneIds == {l.byPublicKey[pk] : pk \in gone}
             sorted == Sync!WithoutIds(l.byPublicKey, l.activeListByIdSorted, goneIds)
             ids == Sync!Restrict(l.byId, DOMAIN l.byId \ goneIds)
             keys == Sync!Restrict(l.byPublicKey, DOMAIN l.byPublicKey \ gone)
  <2>1. made = [l EXCEPT !.standby = @ \ gone, !.syncing = @ \ gone, !.active = @ \ gone,
                         !.activeListByIdSorted = sorted, !.byId = ids, !.byPublicKey = keys]
    BY DEF Sync!removeNodes, WellFormed
  <2>2. DOMAIN keys \subseteq DOMAIN l.byPublicKey
    BY DEF Sync!Restrict
  <2> HIDE DEF made, gone, sorted, ids, keys
  <2>3. /\ WellFormed(made) /\ made.syncing = l.syncing \ gone
        /\ made.active = l.active \ gone /\ made.byPublicKey = keys
    BY <2>1 DEF WellFormed
  <2> QED
    BY <2>2, <2>3 DEF Names, Reach, made
<1> QED
  BY <1>1, <1>2, <1>3

\* A record puts no nodes on the lists but those that join or are refreshed in it.
LEMMA UpdateNames ==
  ASSUME NEW l, WellFormed(l), NEW cycle
  PROVE  Names(l, DOMAIN cycle.joinedConsensors \cup DOMAIN cycle.refreshedConsensors,
               Sync!updateNodeList(l, cycle))
<1> DEFINE given == DOMAIN cycle.joinedConsensors \cup DOMAIN cycle.refreshedConsensors
           joined == Sync!addSyncingNodes(l, cycle.joinedConsensors)
           activated == Sync!setActive(joined, cycle.activated)
           refreshed == Sync!refreshNodes(activated, cycle.refreshedConsensors)
           added == Sync!addStandbyNodes(refreshed, cycle.standbyAdd)
           waiting == Sync!removeStandbyNodes(added, cycle.standbyRemove)
           kept == Sync!removeNodes(waiting, Sync!KeysOf(waiting, cycle.removed))
           alive == Sync!removeNodes(kept, Sync!KeysOf(kept, cycle.apoptosized))
           made == Sync!removeNodes(alive, Sync!KeysOf(alive, cycle.lostAfterSelection))
<1>1. made = Sync!updateNodeList(l, cycle)
  BY DEF Sync!updateNodeList
<1>2. Names(l, given, joined)
  BY AddingNames DEF Names
<1> HIDE DEF joined
<1>3. Names(joined, {}, activated)
  BY <1>2, AddingNames DEF Names
<1> HIDE DEF activated
<1>4. Names(activated, given, refreshed)
  BY <1>3, AddingNames DEF Names
<1> HIDE DEF refreshed
<1>5. Names(refreshed, {}, added)
  BY <1>4, RemovingNames DEF Names
<1> HIDE DEF added
<1>6. Names(added, {}, waiting)
  BY <1>5, RemovingNames DEF Names
<1> HIDE DEF waiting
<1>7. Names(waiting, {}, kept)
  BY <1>6, RemovingNames DEF Names
<1> HIDE DEF kept
<1>8. Names(kept, {}, alive)
  BY <1>7, RemovingNames DEF Names
<1> HIDE DEF alive
<1>9. Names(alive, {}, made)
  BY <1>8, RemovingNames DEF Names
<1> HIDE DEF made
<1>10. Names(l, given, made)
  BY <1>2, <1>3, <1>4, <1>5, <1>6, <1>7, <1>8, <1>9 DEF Names
<1> QED
  BY <1>1, <1>10

\* The lists syncV2 makes are those of the validators in its answers.
SyncedOf(made, content) ==
  LET validators == content["validators"].content
  IN /\ Names(downloaded, DOMAIN validators, made)
     /\ made.syncing = Sync!Nodes(validators, "syncing")
     /\ made.active = Sync!Nodes(validators, "active")

\* From empty lists, the syncing and active nodes become just those of the answer.
LEMMA SyncedFromEmpty ==
  ASSUME downloaded = Sync!EmptyLists, NEW content
  PROVE  SyncedOf(Sync!SyncedLists(content), content)
<1> DEFINE validators == content["validators"].content
           S == Sync!Nodes(validators, "syncing")
           A == Sync!Nodes(validators, "active")
           first == Sync!addSyncingNodes(downloaded, Sync!Keyed(S))
           second == Sync!addActiveNodes(first, Sync!Keyed(A))
           made == Sync!SyncedLists(content)
<1>1. /\ S \cap A = {} /\ S \cup A \subseteq DOMAIN validators
      /\ DOMAIN Sync!Keyed(S) = S /\ DOMAIN Sync!Keyed(A) = A
  BY DEF Sync!Nodes, Sync!Keyed
<1>2. WellFormed(downloaded) /\ downloaded.syncing = {} /\ downloaded.active = {}
      /\ downloaded.byPublicKey = <<>> /\ DOMAIN <<>> = {}
  BY DEF WellFormed, Sync!EmptyLists
<1>3. Names(downloaded, S, first)
  BY <1>1, <1>2, AddingNames
<1>4. first.syncing = S /\ first.active = {} /\ DOMAIN first.byPublicKey = S
  <2> DEFINE keys == Sync!Keyed(S)
             k == Sync!Identified(downloaded, keys)
             missing == Sync!Unlisted(downloaded, keys)
  <2>1. missing = S
    BY <1>1, <1>2 DEF Sync!Unlisted
  <2> HIDE DEF keys
  <2>2. /\ WellFormed(k) /\ k.syncing = {} /\ k.active = {}
        /\ DOMAIN k.byPublicKey = DOMAIN downloaded.byPublicKey \cup DOMAIN keys
    BY <1>2, IdentifiedKeeps DEF IdentifiedFrom
  <2> HIDE DEF k, missing
  <2>3. first = [k EXCEPT !.standby = @ \ missing,
                          !.active = @ \ missing,
                          !.activeListByIdSorted = Sync!Without(@, missing),
                          !.syncing = @ \cup missing]
    BY DEF Sync!addSyncingNodes, Sync!ToSyncing, k, missing, keys
  <2> HIDE DEF first
  <2>4. first.syncing = k.syncing \cup missing /\ first.active = k.active \ missing
        /\ first.byPublicKey = k.byPublicKey
    BY <2>2, <2>3 DEF WellFormed
  <2> QED
    BY <1>1, <1>2, <2>1, <2>2, <2>4 DEF keys
<1> HIDE DEF first
<1>5. Names(first, A, second)
  BY <1>1, <1>3, AddingNames DEF Names
<1>6. second.syncing = S /\ second.active = A
  <2> DEFINE keys == Sync!Keyed(A)
             k == Sync!Identified(first, keys)
             missing == Sync!Unlisted(first, keys)
             sorted == Sync!InsertAllSorted(k.byPublicKey, k.activeListByIdSorted, missing \ k.active)
  <2>1. missing = A
    BY <1>1, <1>4 DEF Sync!Unlisted
  <2> HIDE DEF keys
  <2>2. WellFormed(k) /\ k.syncing = S /\ k.active = {}
    BY <1>3, <1>4, IdentifiedKeeps DEF IdentifiedFrom, Names
  <2>3. second = [k EXCEPT !.standby = @ \ missing,
                           !.syncing = @ \ missing,
                           !.active = @ \cup missing,
                           !.activeListByIdSorted = sorted]
    BY <2>2 DEF Sync!addActiveNodes, Sync!ToActive, WellFormed, keys
  <2> HIDE DEF k, missing, second, sorted
  <2>4. second.syncing = k.syncing \ missing /\ second.active = k.active \cup missing
    BY <2>2, <2>3 DEF WellFormed
  <2> QED
    BY <1>1, <2>1, <2>2, <2>4
<1>7. made = second \/ made = Sync!addStandbyNodes(second, content["standby"].content)
  BY DEF Sync!SyncedLists, Sync!Keys, first
<1> HIDE DEF second, made
<1>8. Names(downloaded, S \cup A, second)
  BY <1>3, <1>5, NamesTrans
<1>9. /\ Names(second, {}, made) /\ made.syncing = second.syncing /\ made.active = second.active
  <2>1. CASE made = second
    BY <1>8, <2>1 DEF Names
  <2>2. CASE made = Sync!addStandbyNodes(second, content["standby"].content)
    <3>1. WellFormed(second)
      BY <1>8 DEF Names
    <3>2. made.syncing = second.syncing /\ made.active = second.active
      BY <2>2, <3>1 DEF Sync!addStandbyNodes, WellFormed
    <3> QED
      BY <2>2, <3>1, <3>2, RemovingNames
  <2> QED
    BY <1>7, <2>1, <2>2
<1>10. Names(downloaded, DOMAIN validators, made)
  BY <1>1, <1>8, <1>9 DEF Names
<1> QED
  BY <1>6, <1>9, <1>10 DEF made, SyncedOf

\* Lists rebuilt from records name nodes that join in them.
LEMMA SquashedNames ==
  ASSUME NEW l, WellFormed(l), NEW squasher
  PROVE  /\ Names(l, squasher.added, Sync!applyNodeListChange(l, squasher))
         /\ \A record : Sync!addChange(squasher, Sync!parse(record)).added
                          \subseteq squasher.added \cup record.joinedConsensors
<1> DEFINE added == Sync!addSyncingNodes(l, Sync!Keyed(squasher.added))
           made == Sync!setActive(added, Sync!KeysOf(added, squasher.updated))
<1>1. made = Sync!applyNodeListChange(l, squasher)
  BY DEF Sync!applyNodeListChange
<1>2. DOMAIN Sync!Keyed(squasher.added) = squasher.added
  BY DEF Sync!Keyed
<1>3. Names(l, squasher.added, added)
  BY <1>2, AddingNames
<1> HIDE DEF added
<1>4. Names(added, {}, made)
  BY <1>3, AddingNames DEF Names
<1> HIDE DEF made
<1>5. Names(l, squasher.added, made)
  BY <1>3, <1>4 DEF Names
<1>6. \A record : Sync!addChange(squasher, Sync!parse(record)).added
                    \subseteq squasher.added \cup record.joinedConsensors
  BY DEF Sync!addChange, Sync!parse
<1> QED
  BY <1>1, <1>5, <1>6

-----------------------------------------------------------------------------
(* Pages of records *)

\* The square root the page size is computed from is a number, and no greater.
LEMMA SquareRoot ==
  ASSUME NEW n \in Nat
  PROVE  Sync!Sqrt(n) \in 0..n
<1> DEFINE T == {r \in Nat : (r + 1) * (r + 1) > n}
<1>1. n \in T
  <2>1. (n + 1) * (n + 1) = n * n + n + n + 1 /\ n * n >= 0
    OBVIOUS
  <2> QED
    BY <2>1
<1>2. PICK m \in T : \A k \in T : m <= k
  BY <1>1, Least, T \in SUBSET Nat
<1>3. m \in 0..n
  BY <1>1, <1>2
<1>4. m * m <= n
  <2>1. CASE m = 0
    BY <2>1
  <2>2. CASE m # 0
    <3>1. m - 1 \in Nat /\ ~(m <= m - 1) /\ m - 1 + 1 = m
      BY <1>3, <2>2
    <3>2. m - 1 \notin T
      BY <1>2, <3>1
    <3>3. ~((m - 1 + 1) * (m - 1 + 1) > n)
      BY <3>1, <3>2
    <3>4. ~(m * m > n) /\ m * m \in Nat
      BY <1>3, <3>1, <3>3
    <3> QED
      BY <3>4
  <2> QED
    BY <2>1, <2>2
<1>5. (m + 1) * (m + 1) > n
  BY <1>2
<1> QED
  BY <1>3, <1>4, <1>5 DEF Sync!Sqrt

\* Pages hold records there are.
LEMMA PageInRange ==
  ASSUME RecordsOK(cycles), Len(cycles) \in Nat \ {0}, NEW oldest \in 0..(Len(cycles) - 1)
  PROVE  /\ Sync!PageBefore(oldest) \in Seq(0..(Len(cycles) - 1))
         /\ Sync!Newest = cycles[Len(cycles)]
<1> DEFINE n == Len(cycles)
           end == IF oldest = 0 THEN 0 ELSE oldest - 1
           first == IF end < Sync!CyclesToGet THEN 0 ELSE end - Sync!CyclesToGet
<1>1. Sync!Newest = cycles[n]
  BY SameOperators DEF Sync!Newest
<1>2. cycles[n].active \in Nat
  <2>1. n \in DOMAIN cycles
    BY DEF RecordsOK
  <2> QED
    BY <2>1 DEF RecordsOK, RecordOK
<1>3. Sync!CyclesToGet \in Nat
  <2> DEFINE r == Sync!Sqrt(cycles[n].active)
  <2>0. r \in 0..cycles[n].active
    BY <1>2, SquareRoot
  <2>1. r \in Nat
    <3> HIDE DEF r
    <3> QED
      BY <1>2, <2>0
  <2>2. Sync!CyclesToGet = 2 * r + 2
    BY <1>1 DEF Sync!CyclesToGet
  <2> HIDE DEF r
  <2> QED
    BY <2>1, <2>2
<1>4. end \in 0..(n - 1)
  OBVIOUS
<1>5. first \in 0..end
  BY <1>3, <1>4
<1>6. Sync!PageBefore(oldest) = [i \in 1..(end - first + 1) |-> end - i + 1]
  BY DEF Sync!PageBefore
<1>0. n \in Nat \ {0}
  OBVIOUS
<1> HIDE DEF end, first, n
<1>7. end \in Int /\ 0 <= end /\ end <= n - 1 /\ first \in Int /\ 0 <= first /\ first <= end
  BY <1>0, <1>4, <1>5
<1>8. end - first + 1 \in Nat
  BY <1>7
<1>9. ASSUME NEW i \in 1..(end - first + 1) PROVE end - i + 1 \in 0..(n - 1)
  BY <1>0, <1>7
<1>10. Sync!PageBefore(oldest) \in Seq(0..(n - 1))
  <2> DEFINE m == end - first + 1
             page == [i \in 1..m |-> end - i + 1]
             counters == 0..(n - 1)
  <2>1. m \in Nat /\ page \in [1..m -> 0..(n - 1)]
    BY <1>8, <1>9
  <2>2. Sync!PageBefore(oldest) = page
    BY <1>6
  <2> HIDE DEF m, page, counters
  <2>3. page \in Seq(counters)
    <3>1. m \in Nat /\ page \in [1..m -> counters]
      BY <2>1 DEF counters
    <3> QED
      BY <3>1
  <2> QED
    BY <2>2, <2>3 DEF counters
<1> QED
  BY <1>1, <1>10 DEF n

-----------------------------------------------------------------------------
(* The steps *)

\* Records that were there stay, and with them what is genuine.
LEMMA GenuineStays ==
  ASSUME NEW records, NEW more, DOMAIN records \subseteq DOMAIN more,
         \A i \in DOMAIN records : more[i] = records[i]
  PROVE  /\ \A kind, hash : Genuine(records, kind, hash) => Genuine(more, kind, hash)
         /\ \A c : CallOK(records, c) => CallOK(more, c)
         /\ \A kind, g : GotOK(records, kind, g) => GotOK(more, kind, g)
<1>1. \A kind, hash : Genuine(records, kind, hash) => Genuine(more, kind, hash)
  BY DEF Genuine, ContentOf
<1>2. ASSUME NEW nodes, NEW kind, NEW q, NEW item, ItemOK(records, nodes, kind, q, item)
      PROVE  ItemOK(more, nodes, kind, q, item)
  BY <1>1, <1>2 DEF ItemOK
<1>3. ASSUME NEW nodes, NEW kind, NEW q, QueryOf(records, nodes, kind, q)
      PROVE  QueryOf(more, nodes, kind, q)
  BY <1>2, <1>3 DEF QueryOf
<1>4. ASSUME NEW c, CallOK(records, c) PROVE CallOK(more, c)
  BY <1>1, <1>3, <1>4 DEF CallOK
<1>5. ASSUME NEW kind, NEW g, GotOK(records, kind, g) PROVE GotOK(more, kind, g)
  BY <1>1, <1>5 DEF GotOK
<1> QED
  BY <1>1, <1>4, <1>5

\* The network makes a record: what was one of its lists still is.
LEMMA NetworkCycleStep ==
  ASSUME DownloadInv, Sync!NetworkCycle
  PROVE  DownloadInv'
<1> DEFINE n == Len(cycles)
<1>1. UNCHANGED <<start, phase, call, got, chain, downloaded, archivers, txList, current, doubt>>
  BY DEF Sync!NetworkCycle, Sync!state
<1>2. PICK patch \in Patches[start] :
        Sync!Legal(cycles, patch) /\ cycles' = Append(cycles, Sync!NewRecord(cycles, patch))
  BY DEF Sync!NetworkCycle
<1>3. AppendedOK(cycles', cycles, Sync!NewRecord(cycles, patch))
  BY <1>2, RecordAppended DEF DownloadInv, RecordsInv
<1>4. /\ RecordsOK(cycles') /\ Len(cycles') = n + 1 /\ DOMAIN cycles' = 1..(n + 1)
      /\ \A i \in 1..n : cycles'[i] = cycles[i]
      /\ Sync!Ever(cycles) \subseteq Sync!Ever(cycles')
      /\ Sync!EverArchivers(cycles) \subseteq Sync!EverArchivers(cycles')
      /\ n \in Nat \ {0} /\ DOMAIN cycles = 1..n /\ n < MaxCycle[start] /\ MaxCycle[start] \in Nat
  BY <1>3, SyncAssumption DEF AppendedOK, DownloadInv, RecordsInv, RecordsOK, Sync!NetworkCycle,
       Sync!ListSyncAssumption
<1>5. DOMAIN cycles \subseteq DOMAIN cycles' /\ \A i \in DOMAIN cycles : cycles'[i] = cycles[i]
  BY <1>4
<1>6. /\ \A kind, hash : Genuine(cycles, kind, hash) => Genuine(cycles', kind, hash)
      /\ \A c : CallOK(cycles, c) => CallOK(cycles', c)
      /\ \A kind, g : GotOK(cycles, kind, g) => GotOK(cycles', kind, g)
  BY <1>5, GenuineStays
<1>7. CallsInv'
  BY <1>1, <1>6 DEF DownloadInv, CallsInv, SyncUnderWay
<1>8. SyncedInv'
  <2>1. Range(cycles) \subseteq Range(cycles')
    BY <1>5 DEF Range
  <2> QED
    BY <1>1, <1>6, <2>1 DEF DownloadInv, SyncedInv
<1>9. TxsInv'
  BY <1>1, <1>6 DEF DownloadInv, TxsInv
<1>10. RecordsInv'
  <2>1. at' \in [Sync!Peers -> 1..(n + 1)]
    <3>1. at' = at \/ at' = [v \in Sync!Peers |-> n + 1]
      BY <1>4 DEF Sync!NetworkCycle
    <3>2. at \in [Sync!Peers -> 1..n] /\ 1..n \subseteq 1..(n + 1) /\ n + 1 \in 1..(n + 1)
      BY <1>4 DEF DownloadInv, RecordsInv
    <3> QED
      BY <3>1, <3>2
  <2>2. n + 1 \in 1..MaxCycle[start]
    BY <1>4
  <2> QED
    BY <1>1, <1>4, <2>1, <2>2 DEF DownloadInv, RecordsInv
<1>11. ListsInv'
  <2>1. current \in -1..n
    BY <1>4 DEF DownloadInv, ListsInv
  <2>2. n + 1 - 1 = n
    BY <1>4
  <2> QED
    BY <1>1, <1>4, <2>1, <2>2 DEF DownloadInv, ListsInv
<1>12. ChainInv'
  <2>1. 0..(n - 1) \subseteq 0..n /\ n + 1 - 1 = n
    BY <1>4
  <2>2. Seq(0..(n - 1)) \subseteq Seq(0..n)
    BY <2>1
  <2> HIDE DEF n
  <2> QED
    BY <1>1, <1>4, <2>1, <2>2 DEF DownloadInv, ChainInv, n
<1> QED
  BY <1>7, <1>8, <1>9, <1>10, <1>11, <1>12 DEF DownloadInv

\* A validator catches up by a record.
LEMMA PeerAdvancesStep ==
  ASSUME DownloadInv, NEW v \in Sync!Correct, Sync!PeerAdvances(v)
  PROVE  DownloadInv'
<1>1. /\ UNCHANGED <<cycles, start, phase, call, got, chain, downloaded, archivers, txList, current, doubt>>
      /\ at' = [at EXCEPT ![v] = @ + 1] /\ at[v] < Len(cycles)
  BY DEF Sync!PeerAdvances, Sync!state
<1>2. RecordsInv'
  <2>1. v \in Sync!Peers /\ at \in [Sync!Peers -> 1..Len(cycles)] /\ Len(cycles) \in Nat
    BY DEF Sync!Correct, DownloadInv, RecordsInv
  <2>2. at[v] + 1 \in 1..Len(cycles)
    BY <1>1, <2>1
  <2>3. at' \in [Sync!Peers -> 1..Len(cycles)]
    BY <1>1, <2>1, <2>2
  <2> QED
    BY <1>1, <2>3 DEF DownloadInv, RecordsInv
<1>3. CallsInv' /\ SyncedInv' /\ TxsInv'
  BY <1>1 DEF DownloadInv, CallsInv, SyncUnderWay, SyncedInv, TxsInv
<1>4. ListsInv' /\ ChainInv'
  BY <1>1 DEF DownloadInv, ListsInv, ChainInv
<1> QED
  BY <1>2, <1>3, <1>4 DEF DownloadInv

\* A call goes on.
LEMMA CallMoves ==
  ASSUME DownloadInv, NEW s \in Sync!Slots, NEW c, CallOK(cycles, c),
         call[s] # Sync!NoCall, c # Sync!NoCall, c.kind = call[s].kind,
         call' = [call EXCEPT ![s] = c],
         UNCHANGED <<cycles, at, start, phase, got, chain, downloaded, archivers, txList, current, doubt>>
  PROVE  DownloadInv'
<1>1. DOMAIN call = Sync!Slots /\ \A r \in Sync!Slots : call'[r] = IF r = s THEN c ELSE call[r]
  BY DEF DownloadInv, CallsInv
<1>2. CallsInv'
  <2>1. \A r \in Sync!Slots : CallOK(cycles', call'[r])
    BY <1>1 DEF DownloadInv, CallsInv
  <2>2. \A r \in Sync!Slots : r # 0 /\ call'[r] # Sync!NoCall => call'[r].kind = "txs"
    BY <1>1 DEF DownloadInv, CallsInv
  <2>3. call'[0] # Sync!NoCall => phase' = "syncing" /\ SyncUnderWay'
    <3>1. 0 \in Sync!Slots \/ 0 \notin Sync!Slots
      OBVIOUS
    <3>2. CASE s = 0
      BY <1>1, <3>2 DEF DownloadInv, CallsInv, SyncUnderWay
    <3>3. CASE s # 0
      <4>1. call'[0] = call[0]
        BY <1>1, <3>3
      <4> QED
        BY <4>1 DEF DownloadInv, CallsInv, SyncUnderWay
    <3> QED
      BY <3>2, <3>3
  <2> QED
    BY <1>1, <2>1, <2>2, <2>3 DEF DownloadInv, CallsInv
<1>3. TxsInv'
  BY <1>1 DEF DownloadInv, TxsInv
<1>4. SyncedInv' /\ ListsInv' /\ RecordsInv' /\ ChainInv'
  BY DEF DownloadInv, SyncedInv, ListsInv, RecordsInv, ChainInv
<1> QED
  BY <1>2, <1>3, <1>4 DEF DownloadInv

\* What a call holds when it asks for a hash, and when for the content.
QueryAt(s) ==
  /\ call[s] # Sync!NoCall
  /\ call[s] = [stage |-> "query", kind |-> call[s].kind, q |-> call[s].q]
  /\ \E nodes \in NodeLists : QueryOf(cycles, nodes, call[s].kind, call[s].q)
FetchAt(s) ==
  /\ call[s] # Sync!NoCall
  /\ call[s] = [stage |-> "fetch", kind |-> call[s].kind, hash |-> call[s].hash,
                node |-> call[s].node, attempts |-> call[s].attempts]
  /\ Genuine(cycles, call[s].kind, call[s].hash)

\* The stage of a call says what it holds.
LEMMA CallStages ==
  ASSUME DownloadInv, NEW s \in Sync!Slots
  PROVE  /\ call[s].stage = "query" => QueryAt(s)
         /\ call[s].stage = "fetch" => FetchAt(s)
         /\ call[s].stage = "idle" <=> call[s] = Sync!NoCall
<1>1. CallOK(cycles, call[s])
  BY DEF DownloadInv, CallsInv
<1>2. Sync!NoCall.stage = "idle"
  BY DEF Sync!NoCall
<1>3. CASE call[s] = Sync!NoCall
  BY <1>2, <1>3
<1>4. CASE call[s] # Sync!NoCall
  BY <1>1, <1>4 DEF CallOK, QueryAt, FetchAt
<1> QED
  BY <1>3, <1>4

\* A call under way goes on as a query.
LEMMA QueryMoves ==
  ASSUME DownloadInv, NEW s \in Sync!Slots, QueryAt(s), NEW nodes \in NodeLists, NEW q,
         QueryOf(cycles, nodes, call[s].kind, q), call' = [call EXCEPT ![s].q = q],
         UNCHANGED <<cycles, at, start, phase, got, chain, downloaded, archivers, txList, current, doubt>>
  PROVE  DownloadInv'
<1> DEFINE c == [stage |-> "query", kind |-> call[s].kind, q |-> q]
<1>1. c = [call[s] EXCEPT !.q = q]
  BY DEF QueryAt
<1>2. call' = [call EXCEPT ![s] = c]
  BY <1>1
<1>3. CallOK(cycles, c)
  BY DEF CallOK
<1>4. c # Sync!NoCall /\ c.kind = call[s].kind
  BY DEF Sync!NoCall
<1> HIDE DEF c
<1> QED
  BY <1>2, <1>3, <1>4, CallMoves DEF QueryAt

\* A call that fails is over.
LEMMA CallFails ==
  ASSUME DownloadInv, NEW s \in Sync!Slots, call[s] # Sync!NoCall, Sync!Fails(s)
  PROVE  DownloadInv'
<1>1. /\ UNCHANGED <<cycles, at, start, got, chain, downloaded, archivers, txList, current>>
      /\ phase' = IF s = 0 THEN "failed" ELSE phase
      /\ doubt' = (doubt \/ s # 0)
      /\ call' = [call EXCEPT ![s] = Sync!NoCall]
  BY DEF Sync!Fails, Sync!network, Sync!state
<1>2. /\ DOMAIN call = Sync!Slots /\ DOMAIN call' = Sync!Slots
      /\ \A r \in Sync!Slots : call'[r] = IF r = s THEN Sync!NoCall ELSE call[r]
  BY <1>1 DEF DownloadInv, CallsInv
<1>3. phase' = phase \/ phase' = "failed"
  BY <1>1
<1>4. CallsInv'
  <2>1. \A r \in Sync!Slots : CallOK(cycles', call'[r])
    BY <1>1, <1>2 DEF DownloadInv, CallsInv, CallOK
  <2>2. \A r \in Sync!Slots : r # 0 /\ call'[r] # Sync!NoCall => call'[r].kind = "txs"
    BY <1>2 DEF DownloadInv, CallsInv
  <2>3. call'[0] # Sync!NoCall => phase' = "syncing" /\ SyncUnderWay'
    <3>1. CASE s = 0
      BY <1>2, <3>1
    <3>2. CASE s # 0
      <4>1. call'[0] = call[0] /\ phase' = phase
        BY <1>1, <3>2
      <4> QED
        BY <1>1, <4>1 DEF DownloadInv, CallsInv, SyncUnderWay
    <3> QED
      BY <3>1, <3>2
  <2> QED
    BY <1>1, <1>2, <1>3, <2>1, <2>2, <2>3 DEF DownloadInv, CallsInv
<1>5. TxsInv'
  <2>1. CASE s = 0
    BY <1>1, <2>1 DEF TxsInv
  <2>2. CASE s # 0
    BY <1>1, <2>2 DEF TxsInv
  <2> QED
    BY <2>1, <2>2
<1>6. SyncedInv' /\ RecordsInv' /\ ChainInv'
  BY <1>1, <1>3 DEF DownloadInv, SyncedInv, RecordsInv, ChainInv
<1>7. ListsInv'
  <2>1. doubt' \in BOOLEAN
    BY <1>1
  <2> QED
    BY <1>1, <1>3, <2>1 DEF DownloadInv, ListsInv
<1> QED
  BY <1>4, <1>5, <1>6, <1>7 DEF DownloadInv

\* The next nodes of a query are asked.
LEMMA AskNextStep ==
  ASSUME DownloadInv, NEW s \in Sync!Slots, Sync!AskNext(s)
  PROVE  DownloadInv'
<1>1. /\ call[s].stage = "query" /\ Sync!Waits(call[s].q)
      /\ UNCHANGED <<cycles, at, start, phase, got, chain, downloaded, archivers, txList, current, doubt>>
      /\ call' = [call EXCEPT ![s].q = Sync!NextRound(@)]
  BY DEF Sync!AskNext, Sync!network, Sync!state
<1>2. QueryAt(s)
  BY <1>1, CallStages
<1>3. PICK nodes \in NodeLists : QueryOf(cycles, nodes, call[s].kind, call[s].q)
  BY <1>2 DEF QueryAt
<1> DEFINE q == Sync!NextRound(call[s].q)
<1>4. QueryOf(cycles, nodes, call[s].kind, q)
  BY <1>1, <1>3, NextRoundOf
<1>5. call' = [call EXCEPT ![s].q = q]
  BY <1>1
<1> HIDE DEF q
<1> QED
  BY <1>1, <1>2, <1>4, <1>5, QueryMoves

\* An answer arrives, from a node that may be faulty.
LEMMA PeerAnswersStep ==
  ASSUME DownloadInv, NEW s \in Sync!Slots, Sync!PeerAnswers(s)
  PROVE  DownloadInv'
<1> DEFINE v == Head(call[s].q.asked)
           kind == call[s].kind
<1>1. PICK reply \in Sync!HashReplies(v, kind) : call' = [call EXCEPT ![s].q = Sync!Answered(@, reply)]
  BY DEF Sync!PeerAnswers
<1>2. /\ call[s].stage = "query" /\ call[s].q.asked # <<>>
      /\ UNCHANGED <<cycles, at, start, phase, got, chain, downloaded, archivers, txList, current, doubt>>
  BY DEF Sync!PeerAnswers, Sync!network, Sync!state
<1>3. QueryAt(s)
  BY <1>2, CallStages
<1>4. PICK nodes \in NodeLists : QueryOf(cycles, nodes, kind, call[s].q)
  BY <1>3 DEF QueryAt
<1>5. ~call[s].q.over
  BY <1>2, <1>4 DEF QueryOf
<1>6. v \in Sync!Correct => Genuine(cycles, kind, reply.hash)
  <2> SUFFICES ASSUME v \in Sync!Correct PROVE Genuine(cycles, kind, reply.hash)
    OBVIOUS
  <2>1. reply = Sync!HashReply(kind, at[v])
    BY <1>1 DEF Sync!HashReplies
  <2>2. reply.hash = Sync!Content(kind, at[v])
    BY <2>1 DEF Sync!HashReply
  <2>3. at[v] \in 1..Len(cycles) /\ DOMAIN cycles = 1..Len(cycles)
    BY DEF Sync!Correct, DownloadInv, RecordsInv, RecordsOK
  <2> QED
    BY <2>2, <2>3 DEF Genuine, ContentOf, Sync!Content
<1> DEFINE q == Sync!Answered(call[s].q, reply)
<1>7. QueryOf(cycles, nodes, kind, q)
  BY <1>2, <1>4, <1>5, <1>6, AnsweredOf
<1>8. call' = [call EXCEPT ![s].q = q]
  BY <1>1
<1> HIDE DEF q, v
<1> QED
  BY <1>2, <1>3, <1>7, <1>8, QueryMoves

\* A query is over: with a hash that is so, or it fails.
LEMMA QueryEndsStep ==
  ASSUME DownloadInv, NEW s \in Sync!Slots, Sync!QueryEnds(s)
  PROVE  DownloadInv'
<1> DEFINE item == Sync!HighestItem(call[s].q.items)
           good == Sync!Robust(call[s].q) /\ item.value.hash # NoAnswer
           node == Head(item.nodes)
           c == [stage |-> "fetch", kind |-> call[s].kind, hash |-> item.value.hash,
                 node |-> node, attempts |-> 0]
<1>1. call[s].stage = "query"
  BY DEF Sync!QueryEnds
<1>2. QueryAt(s)
  BY <1>1, CallStages
<1>3. CASE good
  <2>1. /\ call' = [call EXCEPT ![s] = c]
        /\ UNCHANGED <<cycles, at, start, phase, got, chain, downloaded, archivers, txList, current, doubt>>
    BY <1>3 DEF Sync!QueryEnds, Sync!network, Sync!state
  <2>2. Genuine(cycles, call[s].kind, item.value.hash)
    BY <1>2, <1>3, RobustGenuine DEF QueryAt
  <2> HIDE DEF item, node
  <2>3. /\ c.stage = "fetch" /\ c.kind = call[s].kind /\ c.hash = item.value.hash
        /\ c = [stage |-> "fetch", kind |-> c.kind, hash |-> c.hash, node |-> c.node,
                attempts |-> c.attempts]
    OBVIOUS
  <2>4. c # Sync!NoCall
    BY <2>3 DEF Sync!NoCall
  <2> HIDE DEF c
  <2>5. CallOK(cycles, c)
    BY <2>2, <2>3 DEF CallOK
  <2> QED
    BY <1>2, <2>1, <2>3, <2>4, <2>5, CallMoves DEF QueryAt
<1>4. CASE ~good
  <2>1. Sync!Fails(s)
    BY <1>4 DEF Sync!QueryEnds
  <2> QED
    BY <1>2, <2>1, CallFails DEF QueryAt
<1> QED
  BY <1>3, <1>4

\* A request for content fails, and is made again or given up.
LEMMA FetchFailsStep ==
  ASSUME DownloadInv, NEW s \in Sync!Slots, Sync!FetchFails(s)
  PROVE  DownloadInv'
<1> DEFINE again == call[s].attempts + 1 < MaxRetries
           c == [stage |-> "fetch", kind |-> call[s].kind, hash |-> call[s].hash,
                 node |-> call[s].node, attempts |-> call[s].attempts + 1]
<1>1. call[s].stage = "fetch"
  BY DEF Sync!FetchFails
<1>2. FetchAt(s)
  BY <1>1, CallStages
<1>3. CASE again
  <2>1. /\ call' = [call EXCEPT ![s].attempts = @ + 1]
        /\ UNCHANGED <<cycles, at, start, phase, got, chain, downloaded, archivers, txList, current, doubt>>
    BY <1>3 DEF Sync!FetchFails, Sync!network, Sync!state
  <2>2. c = [call[s] EXCEPT !.attempts = @ + 1]
    BY <1>2 DEF FetchAt
  <2>3. call' = [call EXCEPT ![s] = c]
    BY <2>1, <2>2
  <2>4. /\ c.stage = "fetch" /\ c.kind = call[s].kind /\ c.hash = call[s].hash
        /\ c = [stage |-> "fetch", kind |-> c.kind, hash |-> c.hash, node |-> c.node,
                attempts |-> c.attempts]
    OBVIOUS
  <2>5. c # Sync!NoCall
    BY <2>4 DEF Sync!NoCall
  <2> HIDE DEF c
  <2>6. CallOK(cycles, c)
    BY <1>2, <2>4 DEF CallOK, FetchAt
  <2> QED
    BY <1>2, <2>1, <2>3, <2>4, <2>5, <2>6, CallMoves DEF FetchAt
<1>4. CASE ~again
  <2>1. Sync!Fails(s)
    BY <1>4 DEF Sync!FetchFails
  <2> QED
    BY <1>2, <2>1, CallFails DEF FetchAt
<1> QED
  BY <1>3, <1>4

\* syncV2 asks for the first list, or has nobody to ask.
LEMMA SyncBeginsStep ==
  ASSUME DownloadInv, Sync!SyncBegins
  PROVE  DownloadInv'
<1>1. /\ phase = "down" /\ phase' \in {"syncing", "failed"}
      /\ UNCHANGED <<cycles, at, start, got, chain, downloaded, archivers, txList, current, doubt>>
  BY DEF Sync!SyncBegins, Sync!network, Sync!state
<1>2. /\ DOMAIN call = Sync!Slots /\ call[0] = Sync!NoCall /\ 0 \in Sync!Slots /\ got = <<>>
  BY <1>1, SyncAssumption DEF DownloadInv, CallsInv, Sync!ListSyncAssumption, Sync!Slots
<1>3. CallsInv'
  <2>1. CASE phase' = "failed" /\ UNCHANGED call
    BY <1>1, <1>2, <2>1 DEF DownloadInv, CallsInv
  <2>2. ASSUME phase' = "syncing", NEW peers \in PeerLists,
               call' = [call EXCEPT ![0] = Sync!NewCall("validators", peers)]
        PROVE  CallsInv'
    <3> DEFINE c == Sync!NewCall("validators", peers)
    <3>1. c = [stage |-> "query", kind |-> "validators", q |-> Sync!NewQuery(peers)]
      BY DEF Sync!NewCall
    <3>2. QueryOf(cycles, peers, "validators", Sync!NewQuery(peers)) /\ peers \in NodeLists
      BY NewQueryOf DEF NodeLists
    <3> HIDE DEF c
    <3>3. CallOK(cycles, c) /\ c.kind = "validators"
      BY <3>1, <3>2 DEF CallOK
    <3>4. /\ DOMAIN call' = Sync!Slots
          /\ \A r \in Sync!Slots : call'[r] = IF r = 0 THEN c ELSE call[r]
      BY <1>2, <2>2 DEF c
    <3>5. \A r \in Sync!Slots : CallOK(cycles', call'[r])
      BY <1>1, <3>3, <3>4 DEF DownloadInv, CallsInv
    <3>6. \A r \in Sync!Slots : r # 0 /\ call'[r] # Sync!NoCall => call'[r].kind = "txs"
      BY <3>4 DEF DownloadInv, CallsInv
    <3>7. SyncUnderWay'
      <4>1. DOMAIN got' = {} /\ call'[0].kind = "validators"
        BY <1>1, <1>2, <3>3, <3>4
      <4>2. Sync!SyncKinds[1] = "validators" /\ Before(1) = {}
        BY DEF Sync!SyncKinds, Before
      <4> QED
        BY <4>1, <4>2 DEF SyncUnderWay
    <3> QED
      BY <1>1, <2>2, <3>4, <3>5, <3>6, <3>7 DEF DownloadInv, CallsInv
  <2> QED
    BY <2>1, <2>2 DEF Sync!SyncBegins
<1>4. SyncedInv' /\ TxsInv' /\ RecordsInv' /\ ChainInv' /\ ListsInv'
  BY <1>1 DEF DownloadInv, SyncedInv, TxsInv, RecordsInv, ChainInv, ListsInv
<1> QED
  BY <1>3, <1>4 DEF DownloadInv

\* With every list of syncV2 known, the archiver's are those of the record.
LEMMA SyncedStep ==
  ASSUME DownloadInv, phase = "syncing", NEW lists0,
         DOMAIN lists0 = Range(Sync!SyncKinds),
         \A kind \in DOMAIN lists0 : GotOK(cycles, kind, lists0[kind]),
         got' = lists0, Sync!Synced(lists0), call' = [call EXCEPT ![0] = Sync!NoCall],
         UNCHANGED <<cycles, at, start, chain, doubt>>
  PROVE  DownloadInv'
<1> DEFINE record == lists0["cycle"].content
           validators == lists0["validators"].content
           made == Sync!SyncedLists(lists0)
<1>1. {"validators", "archivers", "standby", "txs", "cycle"} = Range(Sync!SyncKinds)
  <2>1. Range(Sync!SyncKinds) = {Sync!SyncKinds[i] : i \in 1..5}
    BY DEF Sync!SyncKinds, Range
  <2>2. 1..5 = {1, 2, 3, 4, 5}
    OBVIOUS
  <2> HIDE DEF made
  <2> QED
    BY <2>1, <2>2 DEF Sync!SyncKinds
<1>2. /\ GotOK(cycles, "cycle", lists0["cycle"]) /\ GotOK(cycles, "txs", lists0["txs"])
      /\ GotOK(cycles, "validators", lists0["validators"])
      /\ GotOK(cycles, "archivers", lists0["archivers"])
  BY <1>1
<1>3. PICK i \in DOMAIN cycles : record = cycles[i]
  BY <1>2 DEF GotOK, Genuine, ContentOf
<1>4. RecordOK(cycles, i)
  BY <1>3 DEF DownloadInv, RecordsInv, RecordsOK
<1>5. Genuine(cycles, "txs", lists0["txs"].content)
  BY <1>2 DEF GotOK
<1>6. /\ UNCHANGED <<cycles, at, start, chain, doubt, current>> /\ got' = lists0
      /\ phase' \in {"synced", "failed"}
      /\ phase' = "failed" => UNCHANGED <<downloaded, archivers, txList>>
      /\ phase' = "synced" =>
           /\ Sync!Matches(record, lists0) /\ downloaded' = made
           /\ txList' = lists0["txs"].content /\ archivers' = lists0["archivers"].content
  BY DEF Sync!Synced, Sync!state
<1>7. /\ DOMAIN call = Sync!Slots /\ DOMAIN call' = Sync!Slots
      /\ \A r \in Sync!Slots : call'[r] = IF r = 0 THEN Sync!NoCall ELSE call[r]
      /\ 0 \in Sync!Slots
  BY SyncAssumption DEF DownloadInv, CallsInv, Sync!Slots, Sync!ListSyncAssumption
<1>8. CallsInv'
  <2>1. \A r \in Sync!Slots : CallOK(cycles', call'[r])
    BY <1>6, <1>7 DEF DownloadInv, CallsInv, CallOK
  <2>2. \A r \in Sync!Slots : r # 0 /\ call'[r] # Sync!NoCall => call'[r].kind = "txs"
    BY <1>7 DEF DownloadInv, CallsInv
  <2>3. call'[0] = Sync!NoCall
    BY <1>7
  <2>4. DOMAIN got' \subseteq Range(Sync!SyncKinds) /\ \A kind \in DOMAIN got' : GotOK(cycles', kind, got'[kind])
    BY <1>6
  <2> QED
    BY <1>6, <1>7, <2>1, <2>2, <2>3, <2>4 DEF CallsInv
<1>9. downloaded = Sync!EmptyLists
  BY DEF DownloadInv, ListsInv
<1>10. phase' = "synced" =>
         /\ validators = record.listed.validators
         /\ lists0["archivers"].content = record.listed.archivers
  <2>1. \A kind \in {"validators", "archivers"} : lists0[kind].content = lists0[kind].hash
    BY <1>2 DEF GotOK
  <2>2. phase' = "synced" => \A kind \in {"validators", "archivers"} : record.listed[kind] = lists0[kind].hash
    BY <1>6 DEF Sync!Matches
  <2> QED
    BY <2>1, <2>2
<1>11. SyncedOf(made, lists0)
  BY <1>9, SyncedFromEmpty
<1> HIDE DEF made, record
<1>12. SyncedInv'
  <2> SUFFICES ASSUME phase' = "synced" PROVE SyncedInv'
    BY DEF SyncedInv
  <2>1. record \in Range(cycles)
    BY <1>3 DEF Range
  <2>2. /\ got'["cycle"].content = record /\ downloaded' = made
        /\ txList' = lists0["txs"].content /\ archivers' = record.listed.archivers
        /\ cycles' = cycles
    BY <1>6, <1>10 DEF record
  <2>3. /\ made.syncing = Sync!Nodes(record.listed.validators, "syncing")
        /\ made.active = Sync!Nodes(record.listed.validators, "active")
    BY <1>10, <1>11 DEF SyncedOf
  <2> QED
    BY <1>5, <2>1, <2>2, <2>3 DEF SyncedInv
<1>13. ListsInv'
  <2>1. CASE phase' = "failed"
    BY <1>6, <2>1 DEF DownloadInv, ListsInv
  <2>2. CASE phase' = "synced"
    <3>1. WellFormed(made) /\ Reach(made) \subseteq Reach(downloaded) \cup DOMAIN record.listed.validators
      BY <1>10, <1>11, <2>2 DEF SyncedOf, Names
    <3>2. /\ DOMAIN record.listed.validators \subseteq Sync!Ever(cycles)
          /\ record.listed.archivers \subseteq Sync!EverArchivers(cycles)
      BY <1>3, <1>4 DEF RecordOK
    <3>3. WellFormed(downloaded') /\ Reach(downloaded') \subseteq Sync!Ever(cycles')
      BY <1>6, <2>2, <3>1, <3>2 DEF DownloadInv, ListsInv
    <3>4. archivers' \subseteq Sync!EverArchivers(cycles')
      BY <1>6, <1>10, <2>2, <3>2
    <3> QED
      BY <1>6, <2>2, <3>3, <3>4 DEF DownloadInv, ListsInv
  <2> QED
    BY <1>6, <2>1, <2>2
<1>14. TxsInv' /\ RecordsInv' /\ ChainInv'
  BY <1>6 DEF DownloadInv, TxsInv, RecordsInv, ChainInv
<1> QED
  BY <1>8, <1>12, <1>13, <1>14 DEF DownloadInv

\* The next kind is asked for.
LEMMA NextKind ==
  ASSUME NEW i \in 1..4
  PROVE  Sync!KindAfter(Sync!SyncKinds[i]) = Sync!SyncKinds[i + 1]
<1>1. /\ DOMAIN Sync!SyncKinds = {1, 2, 3, 4, 5} /\ i \in {1, 2, 3, 4}
      /\ \A j, k \in {1, 2, 3, 4, 5} : Sync!SyncKinds[j] = Sync!SyncKinds[k] => j = k
  BY DEF Sync!SyncKinds
<1>2. (CHOOSE j \in DOMAIN Sync!SyncKinds : Sync!SyncKinds[j] = Sync!SyncKinds[i]) = i
  BY <1>1
<1> QED
  BY <1>1, <1>2 DEF Sync!KindAfter

\* The content that was asked for arrives.
LEMMA FetchEndsStep ==
  ASSUME DownloadInv, NEW s \in Sync!Slots, Sync!FetchEnds(s)
  PROVE  DownloadInv'
<1> DEFINE kind == call[s].kind
           hash == call[s].hash
<1>1. PICK content \in Sync!ContentReplies(call[s].node, kind) :
        IF ~Sync!Verified(kind, content, hash)
          THEN Sync!Fails(s)
          ELSE /\ \/ /\ s # 0
                     /\ txList' = content
                     /\ call' = [call EXCEPT ![s] = Sync!NoCall]
                     /\ UNCHANGED <<phase, got, downloaded, archivers, current>>
                  \/ /\ s = 0
                     /\ got' = Sync!With([k \in {kind} |-> [hash |-> hash, content |-> content]], got)
                     /\ IF kind = "cycle"
                          THEN Sync!Synced(got') /\ call' = [call EXCEPT ![s] = Sync!NoCall]
                          ELSE /\ \E peers \in PeerLists :
                                    call' = [call EXCEPT ![s] =
                                               Sync!NewCall(Sync!KindAfter(@.kind), peers)]
                               /\ UNCHANGED <<phase, downloaded, archivers, txList, current>>
               /\ UNCHANGED <<cycles, at, start, chain, doubt>>
  BY DEF Sync!FetchEnds, Sync!network, Sync!state
<1>2. FetchAt(s)
  <2>1. call[s].stage = "fetch"
    BY DEF Sync!FetchEnds
  <2> QED
    BY <2>1, CallStages
<1>3. DOMAIN call = Sync!Slots /\ 0 \in Sync!Slots
  BY SyncAssumption DEF DownloadInv, CallsInv, Sync!Slots, Sync!ListSyncAssumption
<1>4. CASE ~Sync!Verified(kind, content, hash)
  BY <1>1, <1>2, <1>4, CallFails DEF FetchAt
<1>5. CASE Sync!Verified(kind, content, hash) /\ s # 0
  <2>1. /\ txList' = content /\ call' = [call EXCEPT ![s] = Sync!NoCall]
        /\ UNCHANGED <<cycles, at, start, phase, got, chain, downloaded, archivers, current, doubt>>
    BY <1>1, <1>5
  <2>2. Genuine(cycles, "txs", content)
    <3>1. kind = "txs"
      BY <1>2, <1>5 DEF FetchAt, DownloadInv, CallsInv
    <3>2. content = hash
      BY <1>5, <3>1 DEF Sync!Verified
    <3> QED
      BY <1>2, <3>1, <3>2 DEF FetchAt
  <2>3. /\ DOMAIN call' = Sync!Slots
        /\ \A r \in Sync!Slots : call'[r] = IF r = s THEN Sync!NoCall ELSE call[r]
    BY <1>3, <2>1
  <2>4. CallsInv'
    <3>1. \A r \in Sync!Slots : CallOK(cycles', call'[r])
      BY <2>1, <2>3 DEF DownloadInv, CallsInv, CallOK
    <3>2. \A r \in Sync!Slots : r # 0 /\ call'[r] # Sync!NoCall => call'[r].kind = "txs"
      BY <2>3 DEF DownloadInv, CallsInv
    <3>3. call'[0] = call[0]
      BY <1>3, <1>5, <2>3
    <3> QED
      BY <2>1, <2>3, <3>1, <3>2, <3>3 DEF DownloadInv, CallsInv, SyncUnderWay
  <2>5. TxsInv' /\ SyncedInv'
    BY <2>1, <2>2 DEF DownloadInv, TxsInv, SyncedInv
  <2>6. RecordsInv' /\ ListsInv' /\ ChainInv'
    BY <2>1 DEF DownloadInv, RecordsInv, ListsInv, ChainInv
  <2> QED
    BY <2>4, <2>5, <2>6 DEF DownloadInv
<1>6. CASE Sync!Verified(kind, content, hash) /\ s = 0
  <2> DEFINE entry == [hash |-> hash, content |-> content]
             more == Sync!With([k \in {kind} |-> entry], got)
  <2>1. /\ got' = more
        /\ UNCHANGED <<cycles, at, start, chain, doubt>>
    BY <1>1, <1>6
  <2>2. phase = "syncing" /\ call[0] # Sync!NoCall
    BY <1>2, <1>6 DEF FetchAt, DownloadInv, CallsInv
  <2>3. PICK i \in 1..5 : kind = Sync!SyncKinds[i] /\ DOMAIN got = Before(i)
    BY <1>6, <2>2 DEF DownloadInv, CallsInv, SyncUnderWay
  <2>4. /\ DOMAIN more = DOMAIN got \cup {kind}
        /\ \A k \in DOMAIN more : more[k] = IF k = kind THEN entry ELSE got[k]
    <3> HIDE DEF entry
    <3> QED
      BY DEF Sync!With
  <2>5. GotOK(cycles, kind, entry)
    BY <1>2, <1>6 DEF FetchAt, GotOK, Sync!Verified
  <2> HIDE DEF entry, more
  <2>6. \A k \in DOMAIN more : GotOK(cycles, k, more[k])
    BY <2>4, <2>5 DEF DownloadInv, CallsInv
  <2>7. DOMAIN more = {Sync!SyncKinds[j] : j \in 1..i}
    <3>1. \A j \in 1..i : j \in 1..(i - 1) \/ j = i
      BY <2>3
    <3>2. i \in 1..i /\ 1..(i - 1) \subseteq 1..i
      BY <2>3
    <3> QED
      BY <2>3, <2>4, <3>1, <3>2 DEF Before
  <2>8. CASE kind = "cycle"
    <3>1. i = 5
      BY <2>3, <2>8 DEF Sync!SyncKinds
    <3>2. DOMAIN more = Range(Sync!SyncKinds)
      BY <2>7, <3>1 DEF Sync!SyncKinds, Range
    <3>3. Sync!Synced(got') /\ call' = [call EXCEPT ![0] = Sync!NoCall]
      BY <1>1, <1>6, <2>8
    <3>4. Sync!Synced(more)
      BY <2>1, <3>3
    <3> QED
      BY <2>1, <2>2, <2>6, <3>2, <3>3, <3>4, SyncedStep
  <2>9. CASE kind # "cycle"
    <3>1. /\ UNCHANGED <<phase, downloaded, archivers, txList, current>>
          /\ \E peers \in PeerLists :
               call' = [call EXCEPT ![0] = Sync!NewCall(Sync!KindAfter(@.kind), peers)]
      BY <1>1, <1>6, <2>9
    <3>2. PICK peers \in PeerLists :
            call' = [call EXCEPT ![0] = Sync!NewCall(Sync!KindAfter(kind), peers)]
      BY <1>6, <3>1
    <3>3. i \in 1..4
      <4>1. i # 5
        BY <2>3, <2>9 DEF Sync!SyncKinds
      <4> QED
        BY <2>3, <4>1
    <3>4. Sync!KindAfter(kind) = Sync!SyncKinds[i + 1] /\ i + 1 \in 1..5 /\ i + 1 - 1 = i
      BY <2>3, <3>3, NextKind
    <3> DEFINE next == Sync!SyncKinds[i + 1]
               c == Sync!NewCall(next, peers)
    <3>5. c = [stage |-> "query", kind |-> next, q |-> Sync!NewQuery(peers)]
      BY DEF Sync!NewCall
    <3>6. QueryOf(cycles, peers, next, Sync!NewQuery(peers)) /\ peers \in NodeLists
      BY NewQueryOf DEF NodeLists
    <3>7. call' = [call EXCEPT ![0] = c]
      BY <3>2, <3>4
    <3> HIDE DEF c, next
    <3>8. CallOK(cycles, c) /\ c.kind = next
      BY <3>5, <3>6 DEF CallOK
    <3>9. /\ DOMAIN call' = Sync!Slots
          /\ \A r \in Sync!Slots : call'[r] = IF r = 0 THEN c ELSE call[r]
      BY <1>3, <3>7
    <3>10. CallsInv'
      <4>1. \A r \in Sync!Slots : CallOK(cycles', call'[r])
        BY <2>1, <3>8, <3>9 DEF DownloadInv, CallsInv
      <4>2. \A r \in Sync!Slots : r # 0 /\ call'[r] # Sync!NoCall => call'[r].kind = "txs"
        BY <3>9 DEF DownloadInv, CallsInv
      <4>3. SyncUnderWay'
        <5>1. call'[0].kind = Sync!SyncKinds[i + 1]
          BY <1>3, <3>8, <3>9 DEF next
        <5>2. DOMAIN got' = Before(i + 1)
          BY <2>1, <2>7, <3>4 DEF Before
        <5> QED
          BY <3>4, <5>1, <5>2 DEF SyncUnderWay
      <4>4. DOMAIN more \subseteq Range(Sync!SyncKinds)
        <5>1. DOMAIN Sync!SyncKinds = 1..5 /\ 1..i \subseteq 1..5
          BY <2>3 DEF Sync!SyncKinds
        <5> QED
          BY <2>7, <5>1 DEF Range
      <4> QED
        BY <2>1, <2>2, <2>6, <3>1, <3>9, <4>1, <4>2, <4>3, <4>4 DEF CallsInv
    <3>11. SyncedInv' /\ TxsInv' /\ RecordsInv' /\ ListsInv' /\ ChainInv'
      BY <2>1, <2>2, <3>1 DEF DownloadInv, SyncedInv, TxsInv, RecordsInv, ListsInv, ChainInv
    <3> QED
      BY <3>10, <3>11 DEF DownloadInv
  <2> QED
    BY <2>8, <2>9
<1> QED
  BY <1>4, <1>5, <1>6

\* A record of the network is processed.
LEMMA ProcessRecordStep ==
  ASSUME DownloadInv, phase \in {"synced", "up"}, phase' = "up",
         NEW record \in Range(cycles), Sync!ProcessRecord(record)
  PROVE  DownloadInv'
<1>1. PICK i \in DOMAIN cycles : record = cycles[i]
  BY DEF Range
<1>2. RecordOK(cycles, i) /\ i \in 1..Len(cycles) /\ Len(cycles) \in Nat
  BY <1>1 DEF DownloadInv, RecordsInv, RecordsOK
<1> DEFINE keyed == [record EXCEPT !.joinedConsensors = Sync!Keyed(@),
                                   !.refreshedConsensors = Sync!Keyed(@)]
<1>3. /\ UNCHANGED <<cycles, at, start, got, chain>>
      /\ downloaded' = Sync!updateNodeList(downloaded, keyed)
      /\ archivers' = archivers \cup record.joinedArchivers
      /\ Sync!UpdateNetworkTxs(record)
      /\ current' = record.counter /\ doubt' = FALSE
  BY DEF Sync!ProcessRecord, Sync!network
<1>4. DOMAIN call = Sync!Slots /\ call[0] = Sync!NoCall
  BY DEF DownloadInv, CallsInv
<1>5. /\ keyed.joinedConsensors = Sync!Keyed(record.joinedConsensors)
      /\ keyed.refreshedConsensors = Sync!Keyed(record.refreshedConsensors)
  <2>1. {"joinedConsensors", "refreshedConsensors"} \subseteq DOMAIN record
    BY <1>1, <1>2 DEF RecordOK, Sync!PatchFields
  <2> QED
    BY <2>1
<1> HIDE DEF keyed
<1>6. /\ record.joinedConsensors \subseteq Sync!Ever(cycles)
      /\ record.joinedArchivers \subseteq Sync!EverArchivers(cycles)
      /\ record.refreshedConsensors \subseteq Sync!Ever(cycles)
      /\ record.counter = i - 1
  BY <1>1, <1>2 DEF RecordOK, Sync!Ever, Sync!EverArchivers
<1>7. ListsInv'
  <2>1. WellFormed(downloaded) /\ Reach(downloaded) \subseteq Sync!Ever(cycles)
    BY DEF DownloadInv, ListsInv
  <2>2. Names(downloaded, record.joinedConsensors \cup record.refreshedConsensors, downloaded')
    <3>1. Names(downloaded, DOMAIN keyed.joinedConsensors \cup DOMAIN keyed.refreshedConsensors,
                Sync!updateNodeList(downloaded, keyed))
      BY <2>1, UpdateNames
    <3>2. /\ DOMAIN keyed.joinedConsensors = record.joinedConsensors
          /\ DOMAIN keyed.refreshedConsensors = record.refreshedConsensors
      BY <1>5 DEF Sync!Keyed
    <3> QED
      BY <1>3, <3>1, <3>2
  <2>3. WellFormed(downloaded') /\ Reach(downloaded') \subseteq Sync!Ever(cycles)
    BY <1>6, <2>1, <2>2 DEF Names
  <2>4. i - 1 \in -1..(Len(cycles) - 1)
    BY <1>2
  <2>5. current' \in -1..(Len(cycles) - 1)
    BY <1>3, <1>6, <2>4
  <2>6. archivers' \subseteq Sync!EverArchivers(cycles)
    BY <1>3, <1>6 DEF DownloadInv, ListsInv
  <2> QED
    BY <1>3, <2>3, <2>5, <2>6 DEF ListsInv
<1>8. CallsInv' /\ TxsInv'
  <2>1. CASE txList' = record.listed.txs
    <3>1. UNCHANGED call
      BY <1>3, <2>1 DEF Sync!UpdateNetworkTxs
    <3>2. Genuine(cycles', "txs", txList')
      BY <1>1, <1>3, <2>1 DEF Genuine, ContentOf
    <3> QED
      BY <1>3, <1>4, <3>1, <3>2 DEF DownloadInv, CallsInv, TxsInv
  <2>2. CASE txList' # record.listed.txs
    <3>1. PICK s \in Sync!Slots \ {0} : call' = [call EXCEPT ![s] = Sync!NewCall("txs", Sync!InOrder)]
      BY <1>3, <2>2 DEF Sync!UpdateNetworkTxs
    <3> DEFINE c == Sync!NewCall("txs", Sync!InOrder)
    <3>2. c = [stage |-> "query", kind |-> "txs", q |-> Sync!NewQuery(Sync!InOrder)]
      BY DEF Sync!NewCall
    <3>3. QueryOf(cycles, Sync!InOrder, "txs", Sync!NewQuery(Sync!InOrder)) /\ Sync!InOrder \in NodeLists
      BY NewQueryOf DEF NodeLists
    <3> HIDE DEF c
    <3>4. CallOK(cycles, c) /\ c.kind = "txs" /\ c # Sync!NoCall
      BY <3>2, <3>3 DEF CallOK, Sync!NoCall
    <3>5. /\ DOMAIN call' = Sync!Slots
          /\ \A r \in Sync!Slots : call'[r] = IF r = s THEN c ELSE call[r]
      BY <1>4, <3>1 DEF c
    <3>6. \A r \in Sync!Slots : CallOK(cycles', call'[r])
      BY <1>3, <3>4, <3>5 DEF DownloadInv, CallsInv
    <3>7. \A r \in Sync!Slots : r # 0 /\ call'[r] # Sync!NoCall => call'[r].kind = "txs"
      BY <3>4, <3>5 DEF DownloadInv, CallsInv
    <3>8. call'[0] = Sync!NoCall
      BY <1>4, <3>1
    <3>9. TxsInv'
      BY <3>4, <3>5 DEF TxsInv
    <3> QED
      BY <1>3, <3>5, <3>6, <3>7, <3>8, <3>9 DEF DownloadInv, CallsInv
  <2> QED
    BY <2>1, <2>2
<1>9. SyncedInv' /\ RecordsInv' /\ ChainInv'
  BY <1>3 DEF DownloadInv, SyncedInv, RecordsInv, ChainInv
<1> QED
  BY <1>7, <1>8, <1>9 DEF DownloadInv

\* The record syncV2 ended with is processed, or one received later.
LEMMA ProcessingSteps ==
  ASSUME DownloadInv, Sync!ProcessSynced \/ Sync!ReceiveRecord
  PROVE  DownloadInv'
<1>1. CASE Sync!ProcessSynced
  <2>1. phase = "synced" /\ phase' = "up" /\ Sync!ProcessRecord(got["cycle"].content)
    BY <1>1 DEF Sync!ProcessSynced
  <2>2. got["cycle"].content \in Range(cycles)
    BY <2>1 DEF DownloadInv, SyncedInv
  <2> QED
    BY <2>1, <2>2, ProcessRecordStep
<1>2. CASE Sync!ReceiveRecord
  <2>1. PICK i \in DOMAIN cycles : Sync!ProcessRecord(cycles[i])
    BY <1>2 DEF Sync!ReceiveRecord
  <2>2. phase = "up" /\ phase' = "up" /\ cycles[i] \in Range(cycles)
    BY <1>2 DEF Sync!ReceiveRecord, Range
  <2> QED
    BY <2>1, <2>2, ProcessRecordStep
<1> QED
  BY <1>1, <1>2

\* Rebuilding the lists from records.
LEMMA RestoringSteps ==
  ASSUME DownloadInv, Sync!RestoreBegins \/ Sync!ReadPage \/ Sync!ReadRecord
  PROVE  DownloadInv'
<1> DEFINE n == Len(cycles)
<1>1. /\ n \in Nat \ {0} /\ DOMAIN cycles = 1..n
      /\ \A i \in 1..n : /\ RecordOK(cycles, i)
                         /\ cycles[i].joinedConsensors \subseteq Sync!Ever(cycles)
      /\ Sync!Newest = cycles[n]
  BY SameOperators DEF DownloadInv, RecordsInv, RecordsOK, Sync!Ever, Sync!Newest
<1>2. WellFormed(downloaded) /\ Reach(downloaded) \subseteq Sync!Ever(cycles)
  BY DEF DownloadInv, ListsInv
<1>0. Sync!Newest.counter = n - 1
  <2>1. n \in 1..n
    BY <1>1
  <2>2. RecordOK(cycles, n)
    BY <1>1, <2>1
  <2> QED
    BY <1>1, <2>2 DEF RecordOK
<1>3. CASE Sync!RestoreBegins
  <2>1. /\ phase = "down" /\ phase' = "reading"
        /\ chain' = [oldest |-> Sync!Newest.counter, page |-> <<>>,
                     squasher |-> Sync!addChange(Sync!EmptySquasher, Sync!parse(Sync!Newest))]
        /\ UNCHANGED <<cycles, at, start, call, got, downloaded, archivers, txList, current, doubt>>
    BY <1>3 DEF Sync!RestoreBegins, Sync!network, Sync!state
  <2> DEFINE squasher == Sync!addChange(Sync!EmptySquasher, Sync!parse(cycles[n]))
  <2>2. squasher.added \subseteq Sync!Ever(cycles)
    <3>1. squasher.added \subseteq Sync!EmptySquasher.added \cup cycles[n].joinedConsensors
      BY <1>2, SquashedNames
    <3>2. Sync!EmptySquasher.added = {}
      BY DEF Sync!EmptySquasher
    <3>3. n \in 1..n
      BY <1>1
    <3> HIDE DEF squasher
    <3> QED
      BY <1>1, <3>1, <3>2, <3>3
  <2>3. Sync!Newest.counter = n - 1 /\ n - 1 \in 0..(n - 1)
    BY <1>0, <1>1
  <2>4. ChainInv'
    <3> HIDE DEF squasher
    <3>1. chain' = [oldest |-> n - 1, page |-> <<>>, squasher |-> squasher]
      BY <1>1, <2>1, <2>3 DEF squasher
    <3> QED
      BY <2>1, <2>2, <2>3, <3>1 DEF ChainInv
  <2>5. CallsInv' /\ SyncedInv' /\ TxsInv' /\ RecordsInv' /\ ListsInv'
    BY <2>1 DEF DownloadInv, CallsInv, SyncUnderWay, SyncedInv, TxsInv, RecordsInv, ListsInv
  <2> QED
    BY <2>4, <2>5 DEF DownloadInv
<1>4. CASE Sync!ReadPage
  <2> DEFINE page == Sync!PageBefore(chain.oldest)
  <2>1. /\ phase = "reading" /\ phase' \in {"reading", "failed"}
        /\ UNCHANGED <<cycles, at, start, call, got, downloaded, archivers, txList, current, doubt>>
    BY <1>4 DEF Sync!ReadPage, Sync!network, Sync!state
  <2>2. page \in Seq(0..(n - 1))
    <3>1. chain.oldest \in 0..(n - 1)
      BY <2>1 DEF DownloadInv, ChainInv
    <3> QED
      BY <1>1, <3>1, PageInRange DEF DownloadInv, RecordsInv
  <2> HIDE DEF page
  <2>3. phase' = "reading" =>
          \E m \in 0..Len(page) : chain' = [chain EXCEPT !.page = SubSeq(page, 1, m)]
    <3>1. Len(page) \in Nat
      BY <2>2
    <3>2. Len(page) \in 0..Len(page) /\ {0} \subseteq 0..Len(page)
      BY <3>1
    <3>3. PICK m \in 0..Len(page) :
            IF m = 0
              THEN phase' = "failed" /\ UNCHANGED chain
              ELSE phase' = phase /\ chain' = [chain EXCEPT !.page = SubSeq(page, 1, m)]
      <4>1. \E m \in IF start = "restore" THEN {Len(page)}
                     ELSE IF chain.oldest = 0 THEN {0} ELSE 0..Len(page) :
              IF m = 0
                THEN phase' = "failed" /\ UNCHANGED chain
                ELSE phase' = phase /\ chain' = [chain EXCEPT !.page = SubSeq(page, 1, m)]
        BY <1>4 DEF Sync!ReadPage, page
      <4> QED
        BY <3>2, <4>1
    <3> QED
      BY <3>3
  <2>4. ChainInv'
    <3> SUFFICES ASSUME phase' = "reading" PROVE ChainInv'
      BY DEF ChainInv
    <3>1. PICK m \in 0..Len(page) : chain' = [chain EXCEPT !.page = SubSeq(page, 1, m)]
      BY <2>3
    <3> DEFINE part == SubSeq(page, 1, m)
               counters == 0..(n - 1)
    <3>2. part \in Seq(counters)
      <4>1. page \in Seq(counters)
        BY <2>2
      <4> HIDE DEF counters
      <4> QED
        BY <3>1, <4>1
    <3>3. chain = [oldest |-> chain.oldest, page |-> chain.page, squasher |-> chain.squasher]
      BY <2>1 DEF DownloadInv, ChainInv
    <3>4. chain' = [oldest |-> chain.oldest, page |-> part, squasher |-> chain.squasher]
      BY <3>1, <3>3
    <3> HIDE DEF part
    <3> QED
      BY <2>1, <3>2, <3>4 DEF DownloadInv, ChainInv
  <2>5. CallsInv' /\ SyncedInv' /\ TxsInv' /\ RecordsInv' /\ ListsInv'
    BY <2>1 DEF DownloadInv, CallsInv, SyncUnderWay, SyncedInv, TxsInv, RecordsInv, ListsInv
  <2> QED
    BY <2>4, <2>5 DEF DownloadInv
<1>5. CASE Sync!ReadRecord
  <2> DEFINE counter == Head(chain.page)
             squasher == Sync!addChange(chain.squasher, Sync!parse(cycles[counter + 1]))
             done == Sync!Complete(squasher, Sync!Newest)
  <2>1. /\ phase = "reading" /\ chain.page # <<>>
        /\ UNCHANGED <<cycles, at, start, call, got, archivers, txList, doubt>>
        /\ chain' = [oldest |-> counter, page |-> Tail(chain.page), squasher |-> squasher]
        /\ done => /\ downloaded' = Sync!applyNodeListChange(downloaded, squasher)
                   /\ current' = Sync!Newest.counter /\ phase' = "restored"
        /\ ~done => UNCHANGED <<downloaded, current, phase>>
    BY <1>5 DEF Sync!ReadRecord, Sync!network
  <2>2. counter \in 0..(n - 1) /\ Tail(chain.page) \in Seq(0..(n - 1))
    <3> DEFINE counters == 0..(n - 1)
    <3>1. chain.page \in Seq(counters) /\ chain.page # <<>>
      BY <2>1 DEF DownloadInv, ChainInv
    <3> HIDE DEF counters
    <3>2. counter \in counters /\ Tail(chain.page) \in Seq(counters)
      BY <3>1
    <3> QED
      BY <3>2 DEF counters
  <2>3. squasher.added \subseteq Sync!Ever(cycles)
    <3>1. counter + 1 \in 1..n
      BY <1>1, <2>2
    <3>2. squasher.added \subseteq chain.squasher.added \cup cycles[counter + 1].joinedConsensors
      BY <1>2, SquashedNames
    <3>3. chain.squasher.added \subseteq Sync!Ever(cycles)
      BY <2>1 DEF DownloadInv, ChainInv
    <3> HIDE DEF squasher, counter
    <3> QED
      BY <1>1, <3>1, <3>2, <3>3
  <2>4. Names(downloaded, squasher.added, Sync!applyNodeListChange(downloaded, squasher))
    BY <1>2, SquashedNames
  <2> HIDE DEF squasher, counter, done
  <2>5. ListsInv' /\ phase' \in {"reading", "restored"}
    <3>1. CASE ~done
      BY <2>1, <3>1 DEF DownloadInv, ListsInv
    <3>2. CASE done
      <4>1. WellFormed(downloaded') /\ Reach(downloaded') \subseteq Sync!Ever(cycles)
        BY <1>2, <2>1, <2>3, <2>4, <3>2 DEF Names
      <4>2. current' = n - 1
        BY <1>0, <2>1, <3>2
      <4>3. n - 1 \in -1..(n - 1)
        BY <1>1
      <4> QED
        BY <2>1, <3>2, <4>1, <4>2, <4>3 DEF DownloadInv, ListsInv
    <3> QED
      BY <3>1, <3>2
  <2>6. ChainInv'
    <3>1. /\ chain'.oldest = counter /\ chain'.page = Tail(chain.page) /\ chain'.squasher = squasher
          /\ chain' = [oldest |-> chain'.oldest, page |-> chain'.page, squasher |-> chain'.squasher]
      BY <2>1
    <3> QED
      BY <2>1, <2>2, <2>3, <3>1 DEF ChainInv
  <2>7. CallsInv' /\ SyncedInv' /\ TxsInv' /\ RecordsInv'
    BY <2>1, <2>5 DEF DownloadInv, CallsInv, SyncUnderWay, SyncedInv, TxsInv, RecordsInv
  <2> QED
    BY <2>5, <2>6, <2>7 DEF DownloadInv
<1> QED
  BY <1>3, <1>4, <1>5

-----------------------------------------------------------------------------
(* The theorems *)

\* At the start the network has made one record, and nothing has been asked.
LEMMA SyncStarts ==
  ASSUME Sync!Init
  PROVE  DownloadInv
<1>1. PICK patch \in Patches[start] :
        Sync!Legal(<<>>, patch) /\ cycles = <<Sync!NewRecord(<<>>, patch)>>
  BY DEF Sync!Init
<1>2. /\ start \in Starts /\ at = [v \in Sync!Peers |-> 1] /\ phase = "down"
      /\ call = [s \in Sync!Slots |-> Sync!NoCall] /\ got = <<>>
      /\ downloaded = Sync!EmptyLists /\ archivers = {} /\ txList = <<>>
      /\ current = -1 /\ doubt = FALSE
  BY DEF Sync!Init
<1>3. RecordsOK(cycles) /\ Len(cycles) = 1
  <2> DEFINE record == Sync!NewRecord(<<>>, patch)
  <2>1. RecordsOK(<<>>)
    BY DEF RecordsOK
  <2>2. AppendedOK(Append(<<>>, record), <<>>, record)
    BY <1>1, <1>2, <2>1, RecordAppended
  <2> HIDE DEF record
  <2>3. cycles = Append(<<>>, record)
    BY <1>1 DEF record
  <2>4. Len(<<>>) = 0
    OBVIOUS
  <2> QED
    BY <2>2, <2>3, <2>4 DEF AppendedOK
<1>4. RecordsInv
  <2>1. MaxCycle[start] \in Nat \ {0}
    BY <1>2, SyncAssumption DEF Sync!ListSyncAssumption
  <2> QED
    BY <1>2, <1>3, <2>1 DEF RecordsInv
<1>5. CallsInv
  <2>1. DOMAIN got = {} /\ got = <<>>
    BY <1>2
  <2>2. 0 \in Sync!Slots
    BY SyncAssumption DEF Sync!Slots, Sync!ListSyncAssumption
  <2> QED
    BY <1>2, <2>1, <2>2 DEF CallsInv, CallOK
<1>6. ListsInv
  <2>1. WellFormed(Sync!EmptyLists) /\ Reach(Sync!EmptyLists) = {}
    <3>1. /\ WellFormed(Sync!EmptyLists) /\ Sync!EmptyLists.syncing = {}
          /\ Sync!EmptyLists.active = {} /\ Sync!EmptyLists.byPublicKey = <<>>
      BY DEF WellFormed, Sync!EmptyLists
    <3>2. DOMAIN <<>> = {}
      OBVIOUS
    <3> QED
      BY <3>1, <3>2 DEF Reach
  <2>2. -1 \in -1..(Len(cycles) - 1)
    BY <1>3
  <2> QED
    BY <1>2, <2>1, <2>2 DEF ListsInv
<1>7. SyncedInv /\ TxsInv /\ ChainInv
  BY <1>2 DEF SyncedInv, TxsInv, ChainInv
<1> QED
  BY <1>4, <1>5, <1>6, <1>7 DEF DownloadInv

\* Every step keeps the invariant.
LEMMA SyncSteps ==
  ASSUME DownloadInv, [Sync!Next]_Sync!vars
  PROVE  DownloadInv'
<1>1. CASE Sync!NetworkCycle
  BY <1>1, NetworkCycleStep
<1>2. ASSUME NEW v \in Sync!Correct, Sync!PeerAdvances(v) PROVE DownloadInv'
  BY <1>2, PeerAdvancesStep
<1>3. CASE Sync!SyncBegins
  BY <1>3, SyncBeginsStep
<1>4. CASE Sync!ProcessSynced \/ Sync!ReceiveRecord
  BY <1>4, ProcessingSteps
<1>5. CASE Sync!RestoreBegins \/ Sync!ReadPage \/ Sync!ReadRecord
  BY <1>5, RestoringSteps
<1>6. ASSUME NEW s \in Sync!Slots,
             \/ Sync!AskNext(s) \/ Sync!PeerAnswers(s) \/ Sync!QueryEnds(s)
             \/ Sync!FetchFails(s) \/ Sync!FetchEnds(s)
      PROVE  DownloadInv'
  BY <1>6, AskNextStep, PeerAnswersStep, QueryEndsStep, FetchFailsStep, FetchEndsStep
<1>7. CASE UNCHANGED Sync!vars
  <2>1. UNCHANGED <<cycles, at, start, phase, call, got, chain, downloaded, archivers, txList,
                    current, doubt>>
    BY <1>7 DEF Sync!vars, Sync!network, Sync!state
  <2>2. CallsInv' /\ SyncedInv' /\ TxsInv'
    BY <2>1 DEF DownloadInv, CallsInv, SyncUnderWay, SyncedInv, TxsInv
  <2>3. RecordsInv' /\ ListsInv' /\ ChainInv'
    BY <2>1 DEF DownloadInv, RecordsInv, ListsInv, ChainInv
  <2> QED
    BY <2>2, <2>3 DEF DownloadInv
<1> QED
  BY <1>1, <1>2, <1>3, <1>4, <1>5, <1>6, <1>7 DEF Sync!Next, Sync!Archiver

\* The invariant says what the properties say.
LEMMA SyncImplied ==
  ASSUME DownloadInv
  PROVE  ListsOfRecord /\ TxListGenuine
<1>1. \A s \in Sync!Slots : call[s].stage = "query" => QueryAt(s)
  BY CallStages
<1>2. \A s \in Sync!Slots : call[s].stage = "idle" => call[s] = Sync!NoCall
  BY CallStages
<1>3. \A i \in DOMAIN cycles : ContentOf(cycles, "txs", i) = cycles[i].listed.txs
  BY DEF ContentOf
<1>4. Sync!TypeOK
  <2>1. /\ Len(cycles) \in 1..MaxCycle[start] /\ MaxCycle[start] \in Nat
        /\ at \in [Sync!Peers -> 1..Len(cycles)] /\ current \in -1..(Len(cycles) - 1)
    BY SyncAssumption DEF DownloadInv, RecordsInv, ListsInv, Sync!ListSyncAssumption
  <2>2. at \in [Sync!Peers -> 1..MaxCycle[start]]
    <3>1. 1..Len(cycles) \subseteq 1..MaxCycle[start]
      BY <2>1
    <3> QED
      BY <2>1, <3>1
  <2>3. current \in -1..MaxCycle[start]
    BY <2>1
  <2>4. downloaded.syncing \cup downloaded.active \subseteq Sync!Ever(cycles)
    BY DEF DownloadInv, ListsInv, Reach
  <2>5. ASSUME NEW s \in Sync!Slots, call[s].stage = "query"
        PROVE  /\ Sync!Range(call[s].q.left) \cup Sync!Range(call[s].q.asked) \subseteq Sync!Peers
               /\ call[s].q.tries \in 0..MaxTries
    <3>1. PICK nodes \in NodeLists : QueryOf(cycles, nodes, call[s].kind, call[s].q)
      BY <1>1, <2>5 DEF QueryAt
    <3>2. \A seq \in Seq(Sync!Peers) : Range(seq) \subseteq Sync!Peers
      BY DEF Range
    <3> QED
      BY <3>1, <3>2, SameOperators DEF QueryOf, Askable
  <2>6. DOMAIN got \subseteq Sync!Range(Sync!SyncKinds)
    BY SameOperators DEF DownloadInv, CallsInv
  <2>7. /\ phase \in {"down", "syncing", "synced", "up", "reading", "restored", "failed"}
        /\ archivers \subseteq Sync!EverArchivers(cycles) /\ doubt \in BOOLEAN
    BY DEF DownloadInv, ListsInv
  <2> QED
    BY <2>2, <2>3, <2>4, <2>5, <2>6, <2>7 DEF Sync!TypeOK
<1>5. Sync!ListsOfRecord
  BY <1>3, <1>4, SameOperators DEF Sync!ListsOfRecord, DownloadInv, SyncedInv, Genuine
<1>6. Sync!TxListGenuine
  BY <1>2, <1>3 DEF Sync!TxListGenuine, DownloadInv, TxsInv, Genuine
<1> QED
  BY <1>5, <1>6 DEF ListsOfRecord, TxListGenuine

\* Whatever fewer faulty validators than must agree answer, and whenever: the record syncV2
\* starts from is one of the network's, the nodes and archivers it lists are that record's,
\* and the network transactions those of some record (syncV2 of sync-v2/index.ts).
THEOREM SyncListsOfRecord ==
  SyncSpec => []ListsOfRecord
<1>1. Sync!Init => DownloadInv
  BY SyncStarts
<1>2. DownloadInv /\ [Sync!Next]_Sync!vars => DownloadInv'
  BY SyncSteps
<1>3. DownloadInv => ListsOfRecord
  BY SyncImplied
<1> QED
  BY <1>1, <1>2, <1>3, PTL DEF SyncSpec, Sync!Spec

\* With no update of it under way and none failed, the list of network transactions is one
\* the network has had, after any records missed and any answers of faulty validators
\* (updateNetworkTxsList of sync-v2/index.ts).
THEOREM SyncTxListGenuine ==
  SyncSpec => []TxListGenuine
<1>1. Sync!Init => DownloadInv
  BY SyncStarts
<1>2. DownloadInv /\ [Sync!Next]_Sync!vars => DownloadInv'
  BY SyncSteps
<1>3. DownloadInv => TxListGenuine
  BY SyncImplied
<1> QED
  BY <1>1, <1>2, <1>3, PTL DEF SyncSpec, Sync!Spec

-----------------------------------------------------------------------------
(* Node lists from records: what the records say of the nodes there are *)

\* The nodes that records i to k name in each way.
JoinedIn(records, i, k) == UNION {records[j].joinedConsensors : j \in i..k}
ActivatedIn(records, i, k) == UNION {records[j].activated : j \in i..k}
UpdatedIn(records, i, k) ==
  UNION {records[j].activated \cup records[j].refreshedConsensors : j \in i..k}
RemovedIn(records, i, k) == UNION {records[j].removed : j \in i..k}
GoneIn(records, i, k) ==
  UNION {records[j].removed \cup records[j].lostAfterSelection : j \in i..k}

\* The nodes after a record are those that joined and have not gone, active if they were
\* activated; a node joins once, and what is said of it is said from then on.
LivedOK(records, i) ==
  LET record == records[i]
      after == record.after.validators
  IN /\ record.apoptosized = {}
     /\ DOMAIN after = JoinedIn(records, 1, i) \ GoneIn(records, 1, i)
     /\ IsFiniteSet(DOMAIN after)
     /\ \A pk \in DOMAIN after :
          after[pk] = IF pk \in ActivatedIn(records, 1, i) THEN "active" ELSE "syncing"
     /\ record.joinedConsensors \cap JoinedIn(records, 1, i - 1) = {}
     /\ NoId \notin record.joinedConsensors
     /\ record.removed \cup record.lostAfterSelection \subseteq JoinedIn(records, 1, i - 1)
     /\ record.activated \cup record.refreshedConsensors \subseteq JoinedIn(records, 1, i)
     /\ record.refreshedConsensors \subseteq ActivatedIn(records, 1, i - 1)
     /\ record.lostAfterSelection = {} =>
          /\ Sync!totalNodeCount(record) = Cardinality(DOMAIN after)
          /\ Sync!activeNodeCount(record) \in Int
          /\ Sync!activeNodeCount(record) <= Cardinality(Sync!Nodes(after, "active"))

HistoryOK(records) == \A i \in DOMAIN records : LivedOK(records, i)

\* What was read of the records from one on.
SquasherOf(squasher, records, from) ==
  LET joined == JoinedIn(records, from, Len(records))
      removed == RemovedIn(records, from, Len(records))
      updated == UpdatedIn(records, from, Len(records))
  IN /\ squasher.added = joined \ removed
     /\ squasher.updated = squasher.added \cap updated
     /\ squasher.removedIds = removed
     /\ squasher.seenUpdates \subseteq updated
     /\ (updated \ removed) \ squasher.added \subseteq squasher.seenUpdates

NoneLost == \A i \in DOMAIN cycles : cycles[i].lostAfterSelection = {}

\* The page goes on below the oldest record that was read; below the first comes itself.
PageFollows ==
  \A k \in DOMAIN chain.page :
    chain.page[k] = IF chain.oldest = 0 THEN 0 ELSE chain.oldest - k

RestoreInv ==
  /\ HistoryOK(cycles)
  /\ phase \in {"reading", "restored"} => start # "sync"
  /\ phase = "reading" =>
       /\ SquasherOf(chain.squasher, cycles, chain.oldest + 1)
       /\ PageFollows
       /\ NoneLost /\ chain.oldest = 0 => Len(cycles) = 1
  /\ phase = "restored" /\ NoneLost =>
       /\ downloaded.syncing = Sync!Nodes(Sync!Newest.after.validators, "syncing")
       /\ downloaded.active = Sync!Nodes(Sync!Newest.after.validators, "active")

\* The fields of a new record that say which nodes there are.
PartsOf(record, records, patch) ==
  LET before == Sync!After(records).validators
      kept == (DOMAIN before \cup patch.joinedConsensors)
                \ (patch.removed \cup patch.lostAfterSelection)
  IN /\ record.apoptosized = {}
     /\ record.joinedConsensors = patch.joinedConsensors
     /\ record.activated = patch.activated
     /\ record.refreshedConsensors = patch.refreshedConsensors
     /\ record.removed = patch.removed
     /\ record.lost = patch.lost
     /\ record.lostAfterSelection = patch.lostAfterSelection
     /\ record.syncing = Sync!Cardinality(Sync!Nodes(before, "syncing"))
     /\ record.active = Sync!Cardinality(Sync!Nodes(before, "active"))
     /\ record.after.validators =
          [n \in kept |-> IF n \in patch.activated THEN "active"
                          ELSE IF n \in DOMAIN before THEN before[n] ELSE "syncing"]

\* A record has the patch it was made of, and the nodes there are after it.
LEMMA NewRecordParts ==
  ASSUME NEW s \in Starts, NEW patch \in Patches[s], NEW records
  PROVE  PartsOf(Sync!NewRecord(records, patch), records, patch)
<1> DEFINE record == Sync!NewRecord(records, patch)
           before == Sync!After(records)
           kept == (DOMAIN before.validators \cup patch.joinedConsensors)
                     \ (patch.removed \cup patch.lostAfterSelection)
           validators == [n \in kept |-> IF n \in patch.activated THEN "active"
                                         ELSE IF n \in DOMAIN before.validators
                                           THEN before.validators[n] ELSE "syncing"]
           listed == Sync!With(before, [txs |-> Sync!RemoveTxs(
                       Sync!AddTxs(Sync!TxsAfter(records), patch.txadd), patch.txremove)])
           syncing == Sync!Cardinality(Sync!Nodes(before.validators, "syncing"))
           active == Sync!Cardinality(Sync!Nodes(before.validators, "active"))
           after == [validators |-> validators,
                     archivers |-> before.archivers \cup patch.joinedArchivers,
                     standby |-> (before.standby \cup patch.standbyAdd) \ patch.standbyRemove]
           more == [counter |-> Len(records), apoptosized |-> {}, syncing |-> syncing,
                    active |-> active, listed |-> listed, after |-> after]
<1>1. record = Sync!With(patch, more)
  BY DEF Sync!NewRecord
<1>2. DOMAIN patch = Sync!PatchFields
  BY SyncAssumption DEF Sync!ListSyncAssumption
<1>3. after.validators = validators
  OBVIOUS
<1> HIDE DEF before, listed, validators, syncing, active, record, after
<1>4. /\ record.apoptosized = {} /\ record.syncing = syncing /\ record.active = active
      /\ record.after = after
  BY <1>1, <1>2 DEF Sync!With, Sync!PatchFields
<1>5. /\ record.joinedConsensors = patch.joinedConsensors
      /\ record.activated = patch.activated
      /\ record.refreshedConsensors = patch.refreshedConsensors
      /\ record.removed = patch.removed
      /\ record.lost = patch.lost
      /\ record.lostAfterSelection = patch.lostAfterSelection
  <2> HIDE DEF more
  <2> QED
    BY <1>1, <1>2 DEF Sync!With, Sync!PatchFields
<1>6. PartsOf(record, records, patch)
  BY <1>3, <1>4, <1>5 DEF PartsOf, before, validators, syncing, active
<1> QED
  BY <1>6 DEF record

\* More records name the same nodes in those that were there.
SameNodes(records, more, i, k) ==
  /\ JoinedIn(more, i, k) = JoinedIn(records, i, k)
  /\ ActivatedIn(more, i, k) = ActivatedIn(records, i, k)
  /\ GoneIn(more, i, k) = GoneIn(records, i, k)

LEMMA NamedBefore ==
  ASSUME NEW records, NEW more, NEW n \in Nat, \A j \in 1..n : more[j] = records[j],
         NEW k \in Int, k <= n
  PROVE  SameNodes(records, more, 1, k)
<1>1. \A j \in 1..k : more[j] = records[j]
  OBVIOUS
<1>2. JoinedIn(more, 1, k) = JoinedIn(records, 1, k)
  BY <1>1 DEF JoinedIn
<1>3. ActivatedIn(more, 1, k) = ActivatedIn(records, 1, k)
  BY <1>1 DEF ActivatedIn
<1>4. GoneIn(more, 1, k) = GoneIn(records, 1, k)
  BY <1>1 DEF GoneIn
<1> QED
  BY <1>2, <1>3, <1>4 DEF SameNodes

\* One record more at an end.
LEMMA NamedInLast ==
  ASSUME NEW records, NEW n \in Nat
  PROVE  /\ JoinedIn(records, 1, n + 1)
              = JoinedIn(records, 1, n) \cup records[n + 1].joinedConsensors
         /\ ActivatedIn(records, 1, n + 1)
              = ActivatedIn(records, 1, n) \cup records[n + 1].activated
         /\ GoneIn(records, 1, n + 1)
              = GoneIn(records, 1, n)
                  \cup (records[n + 1].removed \cup records[n + 1].lostAfterSelection)
<1>1. \A j : j \in 1..(n + 1) <=> j \in 1..n \/ j = n + 1
  OBVIOUS
<1>2. JoinedIn(records, 1, n + 1) = JoinedIn(records, 1, n) \cup records[n + 1].joinedConsensors
  BY <1>1 DEF JoinedIn
<1>3. ActivatedIn(records, 1, n + 1) = ActivatedIn(records, 1, n) \cup records[n + 1].activated
  BY <1>1 DEF ActivatedIn
<1>4. GoneIn(records, 1, n + 1)
        = GoneIn(records, 1, n) \cup (records[n + 1].removed \cup records[n + 1].lostAfterSelection)
  BY <1>1 DEF GoneIn
<1> QED
  BY <1>2, <1>3, <1>4

LEMMA NamedInFirst ==
  ASSUME NEW records, NEW m \in Nat, NEW n \in Nat, m <= n
  PROVE  /\ JoinedIn(records, m, n)
              = records[m].joinedConsensors \cup JoinedIn(records, m + 1, n)
         /\ RemovedIn(records, m, n) = records[m].removed \cup RemovedIn(records, m + 1, n)
         /\ UpdatedIn(records, m, n)
              = (records[m].activated \cup records[m].refreshedConsensors)
                  \cup UpdatedIn(records, m + 1, n)
<1>1. \A j : j \in m..n <=> j = m \/ j \in (m + 1)..n
  OBVIOUS
<1>2. JoinedIn(records, m, n) = records[m].joinedConsensors \cup JoinedIn(records, m + 1, n)
  BY <1>1 DEF JoinedIn
<1>3. RemovedIn(records, m, n) = records[m].removed \cup RemovedIn(records, m + 1, n)
  BY <1>1 DEF RemovedIn
<1>4. UpdatedIn(records, m, n)
        = (records[m].activated \cup records[m].refreshedConsensors) \cup UpdatedIn(records, m + 1, n)
  BY <1>1 DEF UpdatedIn
<1> QED
  BY <1>2, <1>3, <1>4

\* How many nodes there are after a record, from those before it and what it changes.
LEMMA NodesCounted ==
  ASSUME NEW before, IsFiniteSet(DOMAIN before),
         \A n \in DOMAIN before : before[n] \in {"syncing", "active"},
         NEW joined, IsFiniteSet(joined), joined \cap DOMAIN before = {},
         NEW activated, activated \subseteq Sync!Nodes(before, "syncing") \cup joined,
         NEW removed, removed \subseteq DOMAIN before
  PROVE  /\ Cardinality((DOMAIN before \cup joined) \ removed)
              = Cardinality(Sync!Nodes(before, "syncing")) + Cardinality(joined)
                  + Cardinality(Sync!Nodes(before, "active")) - Cardinality(removed)
         /\ Cardinality((Sync!Nodes(before, "active") \cup activated) \ removed)
              >= Cardinality(Sync!Nodes(before, "active")) + Cardinality(activated)
                   - Cardinality(removed)
         /\ Cardinality(removed) \in Nat
<1> DEFINE S == Sync!Nodes(before, "syncing")
           A == Sync!Nodes(before, "active")
           D == DOMAIN before
<1>1. S \cup A = D /\ S \cap A = {}
  BY DEF Sync!Nodes
<1> HIDE DEF S, A, D
<1>2. activated \subseteq S \cup joined /\ removed \subseteq D /\ joined \cap D = {} /\ IsFiniteSet(D)
  BY DEF S, D
<1>3. /\ IsFiniteSet(S) /\ IsFiniteSet(A) /\ IsFiniteSet(removed)
      /\ IsFiniteSet(activated) /\ IsFiniteSet(D \cup joined) /\ IsFiniteSet(A \cup activated)
  <2>1. IsFiniteSet(S) /\ IsFiniteSet(A) /\ IsFiniteSet(removed)
    <3>1. S \subseteq D /\ A \subseteq D
      BY <1>1
    <3> QED
      BY <1>2, <3>1, FS_Subset
  <2>2. IsFiniteSet(S \cup joined) /\ IsFiniteSet(D \cup joined)
    BY <1>2, <2>1, FS_Union
  <2>3. IsFiniteSet(activated)
    BY <1>2, <2>2, FS_Subset
  <2> QED
    BY <2>1, <2>2, <2>3, FS_Union
<1>4. /\ Cardinality(S) \in Nat /\ Cardinality(A) \in Nat /\ Cardinality(removed) \in Nat
      /\ Cardinality(activated) \in Nat /\ Cardinality(joined) \in Nat
  BY <1>3, FS_CardinalityType
<1>5. Cardinality(D \cup joined) = Cardinality(S) + Cardinality(A) + Cardinality(joined)
  <2>1. Cardinality(D) = Cardinality(S) + Cardinality(A)
    <3>1. Cardinality(S \cup A) = Cardinality(S) + Cardinality(A) - Cardinality(S \cap A)
      BY <1>3, FS_Union
    <3>2. Cardinality(S \cap A) = 0
      BY <1>1, FS_EmptySet
    <3>3. Cardinality(D) = Cardinality(S \cup A)
      BY <1>1
    <3> QED
      BY <1>4, <3>1, <3>2, <3>3
  <2>2. Cardinality(D \cup joined) = Cardinality(D) + Cardinality(joined) - Cardinality(D \cap joined)
    BY <1>2, FS_Union
  <2>3. Cardinality(D \cap joined) = 0
    <3>1. D \cap joined = {}
      BY <1>2
    <3> QED
      BY <3>1, FS_EmptySet
  <2> QED
    BY <1>4, <2>1, <2>2, <2>3
<1>6. Cardinality((D \cup joined) \ removed) = Cardinality(D \cup joined) - Cardinality(removed)
  <2>1. Cardinality((D \cup joined) \ removed)
          = Cardinality(D \cup joined) - Cardinality((D \cup joined) \cap removed)
    BY <1>3, FS_Difference
  <2>2. (D \cup joined) \cap removed = removed
    BY <1>2
  <2> QED
    BY <2>1, <2>2
<1>7. Cardinality(A \cup activated) = Cardinality(A) + Cardinality(activated)
  <2>1. A \cap activated = {}
    BY <1>1, <1>2
  <2>2. Cardinality(A \cup activated)
          = Cardinality(A) + Cardinality(activated) - Cardinality(A \cap activated)
    BY <1>3, FS_Union
  <2> QED
    BY <1>4, <2>1, <2>2, FS_EmptySet
<1>8. Cardinality((A \cup activated) \ removed)
        >= Cardinality(A \cup activated) - Cardinality(removed)
  <2>1. Cardinality((A \cup activated) \ removed)
          = Cardinality(A \cup activated) - Cardinality((A \cup activated) \cap removed)
    BY <1>3, FS_Difference
  <2>2. /\ IsFiniteSet((A \cup activated) \cap removed)
        /\ Cardinality((A \cup activated) \cap removed) <= Cardinality(removed)
    <3>1. (A \cup activated) \cap removed \subseteq removed
      OBVIOUS
    <3> QED
      BY <1>3, <3>1, FS_Subset
  <2>3. Cardinality((A \cup activated) \cap removed) \in Nat /\ Cardinality(A \cup activated) \in Nat
    BY <1>3, <2>2, FS_CardinalityType
  <2> QED
    BY <1>4, <2>1, <2>2, <2>3
<1>9. Cardinality((D \cup joined) \ removed)
        = Cardinality(S) + Cardinality(joined) + Cardinality(A) - Cardinality(removed)
  BY <1>4, <1>5, <1>6
<1>10. Cardinality((A \cup activated) \ removed)
         >= Cardinality(A) + Cardinality(activated) - Cardinality(removed)
  BY <1>4, <1>7, <1>8
<1> QED
  BY <1>4, <1>9, <1>10 DEF S, A, D

\* The nodes that joined by a record joined by a later one.
LEMMA JoinedBefore ==
  ASSUME NEW records, NEW i \in Int, NEW k \in Int, i <= k
  PROVE  JoinedIn(records, 1, i) \subseteq JoinedIn(records, 1, k)
<1>1. 1..i \subseteq 1..k
  OBVIOUS
<1> QED
  BY <1>1 DEF JoinedIn

\* Only nodes that joined by then are activated by a record, or go.
LEMMA JoinedFirst ==
  ASSUME NEW records, NEW n \in Nat, \A i \in 1..n : LivedOK(records, i)
  PROVE  /\ ActivatedIn(records, 1, n) \subseteq JoinedIn(records, 1, n)
         /\ GoneIn(records, 1, n) \subseteq JoinedIn(records, 1, n)
<1> DEFINE J == JoinedIn(records, 1, n)
<1>1. ASSUME NEW i \in 1..n
      PROVE  /\ records[i].activated \subseteq J
             /\ records[i].removed \cup records[i].lostAfterSelection \subseteq J
  <2>1. JoinedIn(records, 1, i) \subseteq J /\ JoinedIn(records, 1, i - 1) \subseteq J
    BY JoinedBefore
  <2>2. LivedOK(records, i)
    OBVIOUS
  <2> HIDE DEF J
  <2> QED
    BY <2>1, <2>2 DEF LivedOK
<1> HIDE DEF J
<1>2. ActivatedIn(records, 1, n) \subseteq J
  BY <1>1 DEF ActivatedIn
<1>3. GoneIn(records, 1, n) \subseteq J
  BY <1>1 DEF GoneIn
<1> QED
  BY <1>2, <1>3 DEF J

\* The network's next record says of the nodes what it may.
LEMMA HistoryAppended ==
  ASSUME NEW s \in Starts, NEW patch \in Patches[s], NEW records,
         RecordsOK(records), HistoryOK(records), Sync!Legal(records, patch)
  PROVE  HistoryOK(Append(records, Sync!NewRecord(records, patch)))
<1> DEFINE record == Sync!NewRecord(records, patch)
           more == Append(records, record)
           n == Len(records)
           before == Sync!After(records).validators
<1>1. n \in Nat /\ DOMAIN records = 1..n
  BY DEF RecordsOK
<1>2. /\ DOMAIN more = 1..(n + 1) /\ more[n + 1] = record
      /\ \A j \in 1..n : more[j] = records[j]
  BY RecordAppended DEF AppendedOK
<1>3. PartsOf(record, records, patch)
  BY NewRecordParts
<1> HIDE DEF record, more, n
<1>4. ASSUME NEW i \in 1..n PROVE LivedOK(more, i)
  <2>1. LivedOK(records, i) /\ more[i] = records[i]
    BY <1>1, <1>2 DEF HistoryOK
  <2>2. SameNodes(records, more, 1, i) /\ SameNodes(records, more, 1, i - 1)
    BY <1>1, <1>2, NamedBefore
  <2> QED
    BY <2>1, <2>2 DEF LivedOK, SameNodes
<1> DEFINE J == JoinedIn(records, 1, n)
           A == ActivatedIn(records, 1, n)
           G == GoneIn(records, 1, n)
<1>5. /\ DOMAIN before = J \ G /\ IsFiniteSet(DOMAIN before)
      /\ \A k \in DOMAIN before : before[k] = IF k \in A THEN "active" ELSE "syncing"
  <2>1. CASE records = <<>>
    <3>1. n = 0 /\ before = <<>>
      BY <2>1 DEF Sync!After, Sync!NoLists, n
    <3>2. 1..0 = {}
      OBVIOUS
    <3>3. J = {}
      BY <3>1, <3>2 DEF JoinedIn
    <3>4. DOMAIN before = {}
      BY <3>1
    <3> QED
      BY <3>3, <3>4, FS_EmptySet
  <2>2. CASE records # <<>>
    <3>1. n \in 1..n
      BY <1>1, <2>2 DEF n, RecordsOK
    <3>2. before = records[n].after.validators
      BY <2>2, SameOperators DEF Sync!After, n
    <3>3. LivedOK(records, n)
      BY <1>1, <3>1 DEF HistoryOK
    <3> QED
      BY <3>2, <3>3 DEF LivedOK
  <2> QED
    BY <2>1, <2>2
<1>6. /\ patch.joinedConsensors \cap J = {}
      /\ patch.activated \subseteq Sync!Nodes(before, "syncing") \cup patch.joinedConsensors
      /\ patch.removed \subseteq DOMAIN before
      /\ patch.lost \subseteq Sync!Nodes(before, "active")
      /\ patch.refreshedConsensors \subseteq Sync!Nodes(before, "active")
      /\ patch.lostAfterSelection \subseteq Sync!Nodes(before, "syncing") \ patch.activated
  <2>1. Sync!Ever(records) = J
    BY <1>1 DEF Sync!Ever, JoinedIn
  <2> QED
    BY <2>1 DEF Sync!Legal
<1>7. IsFiniteSet(patch.joinedConsensors) /\ NoId \notin patch.joinedConsensors
  BY SameOperators, SyncAssumption DEF Sync!ListSyncAssumption
<1>8. LivedOK(more, n + 1)
  <2> DEFINE after == record.after.validators
             joined == patch.joinedConsensors
             gone == patch.removed \cup patch.lostAfterSelection
             kept == (DOMAIN before \cup joined) \ gone
             S == Sync!Nodes(before, "syncing")
             active == Sync!Nodes(before, "active")
  <2>1. /\ record.apoptosized = {}
        /\ record.joinedConsensors = joined
        /\ record.activated = patch.activated
        /\ record.refreshedConsensors = patch.refreshedConsensors
        /\ record.removed = patch.removed
        /\ record.lost = patch.lost
        /\ record.lostAfterSelection = patch.lostAfterSelection
        /\ record.syncing = Cardinality(S)
        /\ record.active = Cardinality(active)
    BY <1>3, SameCardinality DEF PartsOf
  <2>2. after = [k \in kept |-> IF k \in patch.activated THEN "active"
                                ELSE IF k \in DOMAIN before THEN before[k] ELSE "syncing"]
    BY <1>3 DEF PartsOf
  <2> DEFINE i == n + 1
  <2>0. i = n + 1 /\ i - 1 = n
    BY <1>1
  <2> HIDE DEF i
  <2>3. /\ JoinedIn(more, 1, i) = J \cup joined
        /\ ActivatedIn(more, 1, i) = A \cup patch.activated
        /\ GoneIn(more, 1, i) = G \cup gone
        /\ JoinedIn(more, 1, i - 1) = J
        /\ ActivatedIn(more, 1, i - 1) = A
    <3>1. SameNodes(records, more, 1, n)
      BY <1>1, <1>2, NamedBefore
    <3>2. /\ JoinedIn(more, 1, n + 1) = J \cup joined
          /\ ActivatedIn(more, 1, n + 1) = A \cup patch.activated
          /\ GoneIn(more, 1, n + 1) = G \cup gone
      <4>1. /\ JoinedIn(more, 1, n + 1)
                 = JoinedIn(more, 1, n) \cup more[n + 1].joinedConsensors
            /\ ActivatedIn(more, 1, n + 1)
                 = ActivatedIn(more, 1, n) \cup more[n + 1].activated
            /\ GoneIn(more, 1, n + 1)
                 = GoneIn(more, 1, n)
                     \cup (more[n + 1].removed \cup more[n + 1].lostAfterSelection)
        BY <1>1, NamedInLast
      <4>2. more[n + 1] = record
        BY <1>2
      <4> QED
        BY <2>1, <3>1, <4>1, <4>2 DEF SameNodes
    <3> QED
      BY <2>0, <3>1, <3>2 DEF SameNodes
  <2>4. A \subseteq J /\ G \subseteq J
    <3>1. \A k \in 1..n : LivedOK(records, k)
      BY <1>1 DEF HistoryOK
    <3> QED
      BY <1>1, <3>1, JoinedFirst
  <2>5. /\ \A k : k \in active <=> k \in DOMAIN before /\ before[k] = "active"
        /\ \A k : k \in S <=> k \in DOMAIN before /\ before[k] = "syncing"
    BY DEF Sync!Nodes
  <2> HIDE DEF before, J, A, G, S, active, kept, gone, joined, after
  <2>7. DOMAIN before = J \ G /\ joined \cap J = {}
    BY <1>5, <1>6 DEF joined
  <2>8. /\ patch.activated \subseteq S \cup joined /\ patch.removed \subseteq DOMAIN before
        /\ patch.lost \subseteq active /\ patch.refreshedConsensors \subseteq active
        /\ patch.lostAfterSelection \subseteq DOMAIN before
    BY <1>6, <2>5 DEF S, active, joined
  <2>9. \A k \in DOMAIN before : before[k] = IF k \in A THEN "active" ELSE "syncing"
    BY <1>5
  <2>10. DOMAIN after = kept /\ kept = (J \cup joined) \ (G \cup gone) /\ IsFiniteSet(kept)
    <3>1. DOMAIN after = kept
      BY <2>2
    <3>2. kept = (J \cup joined) \ (G \cup gone)
      BY <2>4, <2>7 DEF kept
    <3>3. IsFiniteSet(DOMAIN before \cup joined)
      BY <1>5, <1>7, FS_Union DEF joined
    <3>4. IsFiniteSet(kept)
      BY <3>3, FS_Difference DEF kept
    <3> QED
      BY <3>1, <3>2, <3>4
  <2>11. ASSUME NEW k \in kept
         PROVE  after[k] = IF k \in A \cup patch.activated THEN "active" ELSE "syncing"
    <3>1. CASE k \in patch.activated
      BY <2>2, <3>1
    <3>2. CASE k \notin patch.activated /\ k \in DOMAIN before
      BY <2>2, <2>9, <3>2
    <3>3. CASE k \notin patch.activated /\ k \notin DOMAIN before
      <4>1. after[k] = "syncing"
        BY <2>2, <3>3
      <4>2. k \in joined
        BY <3>3 DEF kept
      <4>3. k \notin A
        BY <2>4, <2>7, <4>2
      <4> QED
        BY <3>3, <4>1, <4>3
    <3> QED
      BY <3>1, <3>2, <3>3
  <2>12. /\ patch.removed \cup patch.lostAfterSelection \subseteq J
         /\ patch.activated \cup patch.refreshedConsensors \subseteq J \cup joined
         /\ patch.refreshedConsensors \subseteq A
    <3>1. patch.refreshedConsensors \subseteq A
      BY <2>5, <2>8, <2>9
    <3> QED
      BY <2>4, <2>5, <2>7, <2>8, <3>1
  <2>13. ASSUME patch.lostAfterSelection = {}
         PROVE  /\ Sync!totalNodeCount(record) = Cardinality(kept)
                /\ Sync!activeNodeCount(record) \in Int
                /\ Sync!activeNodeCount(record) <= Cardinality(Sync!Nodes(after, "active"))
    <3>1. gone = patch.removed
      BY <2>13 DEF gone
    <3>2. joined \cap DOMAIN before = {}
      BY <2>7
    <3>3. \A k \in DOMAIN before : before[k] \in {"syncing", "active"}
      BY <2>9
    <3>4. /\ Cardinality((DOMAIN before \cup joined) \ patch.removed)
               = Cardinality(S) + Cardinality(joined) + Cardinality(active)
                   - Cardinality(patch.removed)
          /\ Cardinality((active \cup patch.activated) \ patch.removed)
               >= Cardinality(active) + Cardinality(patch.activated) - Cardinality(patch.removed)
          /\ Cardinality(patch.removed) \in Nat
      BY <1>5, <1>7, <2>8, <3>2, <3>3, NodesCounted DEF S, active, joined
    <3>5. Sync!Nodes(after, "active") = (active \cup patch.activated) \ patch.removed
      <4>1. \A k : k \in Sync!Nodes(after, "active") <=> k \in kept /\ after[k] = "active"
        BY <2>10 DEF Sync!Nodes
      <4>2. \A k \in kept : after[k] = "active" <=> k \in A \cup patch.activated
        BY <2>11
      <4>3. \A k \in DOMAIN before : k \in active <=> k \in A
        BY <2>5, <2>9
      <4>4. \A k \in joined : k \notin A /\ k \notin active
        BY <2>4, <2>5, <2>7
      <4>5. \A k : k \in active => k \in DOMAIN before
        BY <2>5
      <4>6. \A k : k \in S => k \in DOMAIN before
        BY <2>5
      <4>7. \A k : k \in kept <=> (k \in DOMAIN before \/ k \in joined) /\ k \notin patch.removed
        BY <3>1 DEF kept
      <4>8. \A k \in patch.activated : k \in DOMAIN before \/ k \in joined
        BY <2>8, <4>6
      <4> QED
        BY <4>1, <4>2, <4>3, <4>4, <4>5, <4>7, <4>8
    <3>6. /\ Cardinality(S) \in Nat /\ Cardinality(active) \in Nat
          /\ Cardinality(joined) \in Nat /\ Cardinality(patch.activated) \in Nat
          /\ Cardinality(patch.lost) \in Nat
      <4>1. S \subseteq DOMAIN before /\ active \subseteq DOMAIN before
        BY <2>5
      <4>2. patch.lost \subseteq DOMAIN before /\ patch.activated \subseteq DOMAIN before \cup joined
        BY <2>8, <4>1
      <4>3. IsFiniteSet(joined) /\ IsFiniteSet(DOMAIN before \cup joined)
        BY <1>5, <1>7, FS_Union DEF joined
      <4> QED
        BY <1>5, <4>1, <4>2, <4>3, FS_Subset, FS_CardinalityType
    <3>7. Sync!Cardinality({}) = 0
      BY SameCardinality, FS_EmptySet
    <3>8. Sync!totalNodeCount(record)
            = Cardinality(S) + Cardinality(joined) + Cardinality(active) - Cardinality(patch.removed)
      <4>1. Sync!totalNodeCount(record)
              = Cardinality(S) + Cardinality(joined) + Cardinality(active)
                  - 0 - Cardinality(patch.removed)
        BY <2>1, <3>7, SameCardinality DEF Sync!totalNodeCount
      <4> QED
        BY <3>4, <3>6, <4>1
    <3>9. Sync!activeNodeCount(record)
            = Cardinality(active) + Cardinality(patch.activated) - 0
                - Cardinality(patch.removed) - Cardinality(patch.lost)
      BY <2>1, <3>7, SameCardinality DEF Sync!activeNodeCount
    <3>10. Cardinality(kept)
             = Cardinality(S) + Cardinality(joined) + Cardinality(active)
                 - Cardinality(patch.removed)
      BY <3>1, <3>4 DEF kept
    <3>11. Cardinality((active \cup patch.activated) \ patch.removed) \in Int
      <4>1. (active \cup patch.activated) \ patch.removed \subseteq DOMAIN before \cup joined
        BY <2>5, <2>8
      <4>2. IsFiniteSet(DOMAIN before \cup joined)
        BY <1>5, <1>7, FS_Union DEF joined
      <4> QED
        BY <4>1, <4>2, FS_Subset, FS_CardinalityType
    <3>12. Sync!totalNodeCount(record) = Cardinality(kept)
      BY <3>8, <3>10
    <3>13. Cardinality((active \cup patch.activated) \ patch.removed)
             >= Sync!activeNodeCount(record)
      BY <3>4, <3>6, <3>9, <3>11
    <3>14. Sync!activeNodeCount(record) \in Int
      BY <3>4, <3>6, <3>9
    <3>15. Sync!activeNodeCount(record)
             <= Cardinality((active \cup patch.activated) \ patch.removed)
      BY <3>11, <3>13, <3>14
    <3> QED
      BY <3>5, <3>12, <3>14, <3>15
  <2>14. more[i] = record
    BY <1>2, <2>0
  <2>15. /\ DOMAIN after = JoinedIn(more, 1, i) \ GoneIn(more, 1, i)
         /\ IsFiniteSet(DOMAIN after)
    BY <2>3, <2>10
  <2>16. \A k \in DOMAIN after :
           after[k] = IF k \in ActivatedIn(more, 1, i) THEN "active" ELSE "syncing"
    BY <2>3, <2>10, <2>11
  <2>17. /\ record.joinedConsensors \cap JoinedIn(more, 1, i - 1) = {}
         /\ NoId \notin record.joinedConsensors
    BY <1>7, <2>1, <2>3, <2>7 DEF joined
  <2>18. /\ record.removed \cup record.lostAfterSelection \subseteq JoinedIn(more, 1, i - 1)
         /\ record.activated \cup record.refreshedConsensors \subseteq JoinedIn(more, 1, i)
         /\ record.refreshedConsensors \subseteq ActivatedIn(more, 1, i - 1)
    BY <2>1, <2>3, <2>12
  <2>19. record.lostAfterSelection = {} =>
           /\ Sync!totalNodeCount(record) = Cardinality(DOMAIN after)
           /\ Sync!activeNodeCount(record) \in Int
           /\ Sync!activeNodeCount(record) <= Cardinality(Sync!Nodes(after, "active"))
    BY <2>1, <2>10, <2>13
  <2> DEFINE last == more[i]
  <2>20. last.after.validators = after /\ last.apoptosized = {}
    BY <2>1, <2>14 DEF after
  <2>21. /\ DOMAIN last.after.validators
              = JoinedIn(more, 1, i) \ GoneIn(more, 1, i)
         /\ IsFiniteSet(DOMAIN last.after.validators)
         /\ \A k \in DOMAIN last.after.validators :
              last.after.validators[k]
                = IF k \in ActivatedIn(more, 1, i) THEN "active" ELSE "syncing"
    BY <2>15, <2>16, <2>20
  <2>22. /\ last.joinedConsensors \cap JoinedIn(more, 1, i - 1) = {}
         /\ NoId \notin last.joinedConsensors
    BY <2>14, <2>17
  <2>23. /\ last.removed \cup last.lostAfterSelection \subseteq JoinedIn(more, 1, i - 1)
         /\ last.activated \cup last.refreshedConsensors \subseteq JoinedIn(more, 1, i)
         /\ last.refreshedConsensors \subseteq ActivatedIn(more, 1, i - 1)
    BY <2>14, <2>18
  <2>24. last.lostAfterSelection = {} =>
           /\ Sync!totalNodeCount(last) = Cardinality(DOMAIN last.after.validators)
           /\ Sync!activeNodeCount(last) \in Int
           /\ Sync!activeNodeCount(last)
                <= Cardinality(Sync!Nodes(last.after.validators, "active"))
    BY <2>14, <2>19, <2>20
  <2>25. last = more[i]
    OBVIOUS
  <2> HIDE DEF last
  <2>26. LivedOK(more, i)
    BY <2>20, <2>21, <2>22, <2>23, <2>24, <2>25 DEF LivedOK
  <2> QED
    BY <2>26 DEF i
<1>9. \A i \in 1..(n + 1) : i \in 1..n \/ i = n + 1
  BY <1>1
<1>10. HistoryOK(more)
  BY <1>2, <1>4, <1>8, <1>9 DEF HistoryOK
<1> QED
  BY <1>10 DEF more, record

-----------------------------------------------------------------------------
(* What was read of the records *)

\* A node joins once: whoever joined by a record did not join in a later one.
LEMMA EarlierLater ==
  ASSUME NEW records, NEW n \in Nat, \A i \in 1..n : LivedOK(records, i), NEW m \in 0..n
  PROVE  JoinedIn(records, 1, m) \cap JoinedIn(records, m + 1, n) = {}
<1>1. ASSUME NEW j \in (m + 1)..n
      PROVE  records[j].joinedConsensors \cap JoinedIn(records, 1, m) = {}
  <2>1. j \in 1..n /\ m <= j - 1
    OBVIOUS
  <2>2. LivedOK(records, j)
    BY <2>1
  <2>3. JoinedIn(records, 1, m) \subseteq JoinedIn(records, 1, j - 1)
    BY <2>1, JoinedBefore
  <2> QED
    BY <2>2, <2>3 DEF LivedOK
<1> QED
  BY <1>1 DEF JoinedIn

\* A record read before the others is taken into account.
LEMMA ChangeAdded ==
  ASSUME NEW records, HistoryOK(records), Len(records) \in Nat, DOMAIN records = 1..Len(records),
         NEW m \in 1..Len(records), NEW squasher, SquasherOf(squasher, records, m + 1)
  PROVE  SquasherOf(Sync!addChange(squasher, Sync!parse(records[m])), records, m)
<1> DEFINE n == Len(records)
           record == records[m]
           next == Sync!addChange(squasher, Sync!parse(record))
           J == JoinedIn(records, m + 1, n)
           R == RemovedIn(records, m + 1, n)
           U == UpdatedIn(records, m + 1, n)
           named == record.activated \cup record.refreshedConsensors
           removed == squasher.removedIds \cup record.removed
           seen == squasher.seenUpdates \cup (named \ removed)
           added == record.joinedConsensors \ (squasher.added \cup removed)
<1>1. LivedOK(records, m) /\ \A i \in 1..n : LivedOK(records, i)
  BY DEF HistoryOK
<1>2. /\ next.added = squasher.added \cup added
      /\ next.updated = squasher.updated \cup (added \cap seen)
      /\ next.removedIds = removed
      /\ next.seenUpdates = seen \ added
  <2>1. record.apoptosized \cup record.removed = record.removed
    BY <1>1 DEF LivedOK
  <2> QED
    BY <2>1 DEF Sync!addChange, Sync!parse
<1>3. /\ JoinedIn(records, m, n) = record.joinedConsensors \cup J
      /\ RemovedIn(records, m, n) = record.removed \cup R
      /\ UpdatedIn(records, m, n) = named \cup U
  BY NamedInFirst
<1>4. JoinedIn(records, 1, m - 1) \cap J = {} /\ JoinedIn(records, 1, m) \cap J = {}
  <2>1. JoinedIn(records, 1, m) \cap J = {}
    BY <1>1, EarlierLater
  <2>2. JoinedIn(records, 1, m - 1) \subseteq JoinedIn(records, 1, m)
    BY JoinedBefore
  <2> QED
    BY <2>1, <2>2
<1>5. record.removed \cap J = {} /\ named \cap J = {}
  BY <1>1, <1>4 DEF LivedOK
<1>6. /\ squasher.added = J \ R
      /\ squasher.updated = squasher.added \cap U
      /\ squasher.removedIds = R
      /\ squasher.seenUpdates \subseteq U
      /\ (U \ R) \ squasher.added \subseteq squasher.seenUpdates
  BY DEF SquasherOf
<1> HIDE DEF next, J, R, U, record, named
<1>7. next.added = (record.joinedConsensors \cup J) \ (record.removed \cup R)
  BY <1>2, <1>5, <1>6
<1>8. next.updated = next.added \cap (named \cup U)
  <2>1. added \cap seen = added \cap (named \cup U)
    BY <1>6
  <2>2. squasher.added \cap named = {}
    BY <1>5, <1>6
  <2> QED
    BY <1>2, <1>6, <2>1, <2>2
<1>9. next.removedIds = record.removed \cup R /\ next.seenUpdates \subseteq named \cup U
  BY <1>2, <1>6
<1>10. ((named \cup U) \ (record.removed \cup R)) \ next.added \subseteq next.seenUpdates
  BY <1>2, <1>6
<1>11. SquasherOf(next, records, m)
  BY <1>3, <1>7, <1>8, <1>9, <1>10 DEF SquasherOf, n
<1> QED
  BY <1>11 DEF next, record

\* The newest record is the first that is read.
LEMMA FirstChange ==
  ASSUME NEW records, HistoryOK(records), Len(records) \in Nat \ {0},
         DOMAIN records = 1..Len(records)
  PROVE  SquasherOf(Sync!addChange(Sync!EmptySquasher, Sync!parse(records[Len(records)])),
                    records, Len(records))
<1> DEFINE n == Len(records)
<1>1. (n + 1)..n = {}
  OBVIOUS
<1>2. /\ JoinedIn(records, n + 1, n) = {} /\ RemovedIn(records, n + 1, n) = {}
      /\ UpdatedIn(records, n + 1, n) = {}
  BY <1>1 DEF JoinedIn, RemovedIn, UpdatedIn
<1>3. /\ Sync!EmptySquasher.added = {} /\ Sync!EmptySquasher.updated = {}
      /\ Sync!EmptySquasher.removedIds = {} /\ Sync!EmptySquasher.seenUpdates = {}
  BY DEF Sync!EmptySquasher
<1>4. SquasherOf(Sync!EmptySquasher, records, n + 1)
  BY <1>2, <1>3 DEF SquasherOf
<1>5. n \in 1..n
  OBVIOUS
<1> QED
  BY <1>4, <1>5, ChangeAdded

\* The first record, when it is read again, changes nothing of what matters.
LEMMA ChangeAgain ==
  ASSUME NEW records, HistoryOK(records), Len(records) \in Nat \ {0},
         DOMAIN records = 1..Len(records), NEW squasher, SquasherOf(squasher, records, 1)
  PROVE  SquasherOf(Sync!addChange(squasher, Sync!parse(records[1])), records, 1)
<1> DEFINE n == Len(records)
           record == records[1]
           next == Sync!addChange(squasher, Sync!parse(record))
           J == JoinedIn(records, 1, n)
           R == RemovedIn(records, 1, n)
           U == UpdatedIn(records, 1, n)
           named == record.activated \cup record.refreshedConsensors
           removed == squasher.removedIds \cup record.removed
           seen == squasher.seenUpdates \cup (named \ removed)
           added == record.joinedConsensors \ (squasher.added \cup removed)
<1>1. LivedOK(records, 1) /\ 1 \in 1..n
  BY DEF HistoryOK
<1>2. /\ next.added = squasher.added \cup added
      /\ next.updated = squasher.updated \cup (added \cap seen)
      /\ next.removedIds = removed
      /\ next.seenUpdates = seen \ added
  <2>1. record.apoptosized \cup record.removed = record.removed
    BY <1>1 DEF LivedOK
  <2> QED
    BY <2>1 DEF Sync!addChange, Sync!parse
<1>3. record.joinedConsensors \subseteq J /\ record.removed \subseteq R /\ named \subseteq U
  BY <1>1 DEF JoinedIn, RemovedIn, UpdatedIn
<1>4. /\ squasher.added = J \ R
      /\ squasher.updated = squasher.added \cap U
      /\ squasher.removedIds = R
      /\ squasher.seenUpdates \subseteq U
      /\ (U \ R) \ squasher.added \subseteq squasher.seenUpdates
  BY DEF SquasherOf
<1> HIDE DEF next, J, R, U, record, named
<1>5. added = {} /\ removed = R
  BY <1>3, <1>4
<1>6. next.added = J \ R /\ next.updated = next.added \cap U /\ next.removedIds = R
  BY <1>2, <1>4, <1>5
<1>7. next.seenUpdates \subseteq U /\ (U \ R) \ next.added \subseteq next.seenUpdates
  BY <1>2, <1>3, <1>4, <1>5
<1>8. SquasherOf(next, records, 1)
  BY <1>6, <1>7 DEF SquasherOf, n, J, R, U
<1> QED
  BY <1>8 DEF next, record

\* The nodes a squasher ends with, when no node was lost after its selection.
EndsWith(squasher, record) ==
  LET after == record.after.validators
  IN /\ NoId \notin squasher.added
     /\ squasher.added \ squasher.updated = Sync!Nodes(after, "syncing")
     /\ squasher.updated = Sync!Nodes(after, "active")

\* Records that name as many nodes as there are name those there are, and all records do.
LEMMA SquashedAll ==
  ASSUME NEW records, HistoryOK(records), Len(records) \in Nat \ {0},
         DOMAIN records = 1..Len(records),
         \A i \in DOMAIN records : records[i].lostAfterSelection = {},
         NEW m \in 1..Len(records), NEW squasher, SquasherOf(squasher, records, m)
  PROVE  /\ Sync!Complete(squasher, records[Len(records)])
              => EndsWith(squasher, records[Len(records)])
         /\ m = 1 => Sync!Complete(squasher, records[Len(records)])
<1> DEFINE n == Len(records)
           record == records[n]
           after == record.after.validators
           active == Sync!Nodes(after, "active")
           J == JoinedIn(records, m, n)
           R == RemovedIn(records, m, n)
           U == UpdatedIn(records, m, n)
           J1 == JoinedIn(records, 1, n)
           A1 == ActivatedIn(records, 1, n)
           G1 == GoneIn(records, 1, n)
<1>1. LivedOK(records, n) /\ \A i \in 1..n : LivedOK(records, i)
  BY DEF HistoryOK
<1>2. /\ squasher.added = J \ R
      /\ squasher.updated = squasher.added \cap U
  BY DEF SquasherOf
<1>3. /\ DOMAIN after = J1 \ G1 /\ IsFiniteSet(DOMAIN after)
      /\ \A k \in DOMAIN after : after[k] = IF k \in A1 THEN "active" ELSE "syncing"
      /\ Sync!totalNodeCount(record) = Cardinality(DOMAIN after)
      /\ Sync!activeNodeCount(record) \in Int
      /\ Sync!activeNodeCount(record) <= Cardinality(active)
  <2>1. record.lostAfterSelection = {}
    OBVIOUS
  <2> QED
    BY <1>1, <2>1 DEF LivedOK
<1>4. J \subseteq J1 /\ U \subseteq A1
  <2>1. m..n \subseteq 1..n
    OBVIOUS
  <2>2. J \subseteq J1
    BY <2>1 DEF JoinedIn
  <2>3. ASSUME NEW i \in m..n
        PROVE  records[i].activated \cup records[i].refreshedConsensors \subseteq A1
    <3>1. LivedOK(records, i)
      BY <1>1, <2>1
    <3>2. 1..(i - 1) \subseteq 1..n /\ i \in 1..n
      BY <2>1
    <3>3. ActivatedIn(records, 1, i - 1) \subseteq A1 /\ records[i].activated \subseteq A1
      BY <3>2 DEF ActivatedIn
    <3> HIDE DEF A1
    <3> QED
      BY <3>1, <3>3 DEF LivedOK
  <2> HIDE DEF A1
  <2>4. U \subseteq A1
    BY <2>3 DEF UpdatedIn
  <2> QED
    BY <2>2, <2>4
<1>5. ASSUME NEW k \in J, k \in G1 PROVE k \in R
  <2>1. PICK i \in 1..n : k \in records[i].removed
    BY <1>5 DEF GoneIn
  <2>2. CASE i \in m..n
    BY <2>1, <2>2 DEF RemovedIn
  <2>3. CASE i \notin m..n
    <3>1. i - 1 \in Int /\ i - 1 <= m - 1 /\ m - 1 \in 0..n /\ m - 1 + 1 = m
      BY <2>3
    <3>2. k \in JoinedIn(records, 1, i - 1)
      BY <1>1, <2>1 DEF LivedOK
    <3>3. k \in JoinedIn(records, 1, m - 1)
      BY <3>1, <3>2, JoinedBefore
    <3>4. JoinedIn(records, 1, m - 1) \cap J = {}
      BY <1>1, <3>1, EarlierLater
    <3> QED
      BY <3>3, <3>4
  <2> QED
    BY <2>2, <2>3
<1>6. ASSUME NEW k \in J, k \in A1 PROVE k \in U
  <2>1. PICK i \in 1..n : k \in records[i].activated
    BY <1>6 DEF ActivatedIn
  <2>2. CASE i \in m..n
    BY <2>1, <2>2 DEF UpdatedIn
  <2>3. CASE i \notin m..n
    <3>1. i \in Int /\ i <= m - 1 /\ m - 1 \in 0..n /\ m - 1 + 1 = m
      BY <2>3
    <3>2. k \in JoinedIn(records, 1, i)
      BY <1>1, <2>1 DEF LivedOK
    <3>3. k \in JoinedIn(records, 1, m - 1)
      BY <3>1, <3>2, JoinedBefore
    <3>4. JoinedIn(records, 1, m - 1) \cap J = {}
      BY <1>1, <3>1, EarlierLater
    <3> QED
      BY <3>3, <3>4
  <2> QED
    BY <2>2, <2>3
<1>7. R \subseteq G1
  BY DEF RemovedIn, GoneIn
<1>8. \A k \in J : k # NoId
  <2>1. \A i \in 1..n : NoId \notin records[i].joinedConsensors
    BY <1>1 DEF LivedOK
  <2> QED
    BY <2>1 DEF JoinedIn
<1>9. m = 1 => J = J1
  OBVIOUS
<1>10. \A k : k \in active <=> k \in DOMAIN after /\ after[k] = "active"
  BY DEF Sync!Nodes
<1>11. \A k : k \in Sync!Nodes(after, "syncing") <=> k \in DOMAIN after /\ after[k] = "syncing"
  BY DEF Sync!Nodes
<1> HIDE DEF J, R, U, J1, A1, G1, after, active
<1>12. squasher.added \subseteq DOMAIN after
  BY <1>2, <1>3, <1>4, <1>5
<1>13. ASSUME squasher.added = DOMAIN after
       PROVE  /\ NoId \notin squasher.added
              /\ squasher.added \ squasher.updated = Sync!Nodes(after, "syncing")
              /\ squasher.updated = active
  <2>1. \A k \in DOMAIN after : k \in J /\ k # NoId
    BY <1>2, <1>8, <1>13
  <2>2. \A k \in DOMAIN after : k \in U <=> k \in A1
    BY <1>4, <1>6, <2>1
  <2>3. \A k : k \in squasher.updated <=> k \in DOMAIN after /\ k \in A1
    BY <1>2, <1>13, <2>2
  <2>4. squasher.updated = active
    BY <1>3, <1>10, <2>3
  <2>5. squasher.added \ squasher.updated = Sync!Nodes(after, "syncing")
    BY <1>3, <1>11, <1>13, <2>3
  <2> QED
    BY <1>13, <2>1, <2>4, <2>5
<1>14. Sync!Complete(squasher, record) => EndsWith(squasher, record)
  <2> SUFFICES ASSUME Sync!Complete(squasher, record) PROVE EndsWith(squasher, record)
    OBVIOUS
  <2>1. Cardinality(squasher.added) >= Cardinality(DOMAIN after)
    BY <1>3, SameCardinality DEF Sync!Complete
  <2>2. squasher.added = DOMAIN after
    <3>1. /\ Cardinality(squasher.added) <= Cardinality(DOMAIN after)
          /\ Cardinality(squasher.added) = Cardinality(DOMAIN after)
               => squasher.added = DOMAIN after
      BY <1>3, <1>12, FS_Subset
    <3>2. Cardinality(squasher.added) \in Nat /\ Cardinality(DOMAIN after) \in Nat
      BY <1>3, <1>12, FS_Subset, FS_CardinalityType
    <3> QED
      BY <2>1, <3>1, <3>2
  <2> QED
    BY <1>13, <2>2 DEF EndsWith, after, active
<1>15. m = 1 => Sync!Complete(squasher, record)
  <2> SUFFICES ASSUME m = 1 PROVE Sync!Complete(squasher, record)
    OBVIOUS
  <2>1. squasher.added = DOMAIN after
    BY <1>2, <1>3, <1>7, <1>9, <1>12
  <2>2. Cardinality(squasher.added) = Sync!totalNodeCount(record)
    BY <1>3, <2>1
  <2>3. Sync!activeNodeCount(record) <= Cardinality(squasher.updated)
    BY <1>3, <1>13, <2>1
  <2>4. Cardinality(squasher.added) \in Nat /\ Cardinality(squasher.updated) \in Nat
    <3>1. squasher.updated \subseteq DOMAIN after
      BY <1>2, <1>12
    <3> QED
      BY <1>3, <1>12, <3>1, FS_Subset, FS_CardinalityType
  <2>5. Cardinality(squasher.updated) >= Sync!activeNodeCount(record)
    BY <1>3, <2>3, <2>4
  <2>6. Cardinality(squasher.added) >= Sync!totalNodeCount(record)
    BY <2>2, <2>4
  <2> QED
    BY <2>5, <2>6, SameCardinality DEF Sync!Complete
<1> QED
  BY <1>14, <1>15 DEF record

\* From empty lists, a squasher's nodes are listed, those with an update as active.
ListedAs(made, squasher) ==
  /\ made.syncing = squasher.added \ squasher.updated
  /\ made.active = squasher.updated

LEMMA RestoredFromEmpty ==
  ASSUME downloaded = Sync!EmptyLists, NEW squasher, NoId \notin squasher.added,
         squasher.updated \subseteq squasher.added
  PROVE  ListedAs(Sync!applyNodeListChange(downloaded, squasher), squasher)
<1> DEFINE S == squasher.added
           U == squasher.updated
           keys == Sync!Keyed(S)
           identified == Sync!Identified(downloaded, keys)
           missing == Sync!Unlisted(downloaded, keys)
           first == Sync!addSyncingNodes(downloaded, keys)
           made == Sync!applyNodeListChange(downloaded, squasher)
<1>1. DOMAIN keys = S /\ \A id \in S : keys[id] = id
  BY DEF Sync!Keyed
<1>2. /\ WellFormed(downloaded) /\ downloaded.syncing = {} /\ downloaded.active = {}
      /\ downloaded.byPublicKey = <<>> /\ downloaded.byId = <<>> /\ DOMAIN <<>> = {}
  BY DEF WellFormed, Sync!EmptyLists
<1>3. missing = S
  BY <1>1, <1>2 DEF Sync!Unlisted
<1>4. /\ WellFormed(identified) /\ identified.syncing = {} /\ identified.active = {}
      /\ DOMAIN identified.byPublicKey = S
  <2> HIDE DEF keys
  <2>1. /\ WellFormed(identified) /\ identified.syncing = {} /\ identified.active = {}
        /\ DOMAIN identified.byPublicKey = DOMAIN downloaded.byPublicKey \cup DOMAIN keys
    BY <1>2, IdentifiedKeeps DEF IdentifiedFrom
  <2> HIDE DEF identified
  <2>2. DOMAIN downloaded.byPublicKey = {}
    BY <1>2
  <2> QED
    BY <1>1, <2>1, <2>2
<1>5. DOMAIN identified.byId = S /\ \A id \in S : identified.byId[id] = id
  <2> DEFINE given == {pk \in DOMAIN keys : keys[pk] # NoId}
             ids == [id \in DOMAIN downloaded.byId \cup {keys[pk] : pk \in given} |->
                       IF \E pk \in given : keys[pk] = id
                         THEN CHOOSE pk \in given : keys[pk] = id
                         ELSE downloaded.byId[id]]
  <2> HIDE DEF keys
  <2>1. given = S
    BY <1>1
  <2>2. identified.byId = ids
    BY <1>2 DEF Sync!Identified, WellFormed
  <2> HIDE DEF given
  <2>3. DOMAIN ids = S
    BY <1>1, <1>2, <2>1
  <2>4. ASSUME NEW id \in S PROVE ids[id] = id
    <3>1. id \in given /\ keys[id] = id /\ \A pk \in given : keys[pk] = id => pk = id
      BY <1>1, <2>1
    <3>2. (CHOOSE pk \in given : keys[pk] = id) = id
      BY <3>1
    <3> QED
      BY <2>3, <3>1, <3>2
  <2> QED
    BY <2>2, <2>3, <2>4
<1> HIDE DEF identified, missing
<1>6. /\ WellFormed(first) /\ first.syncing = S /\ first.active = {}
      /\ first.byPublicKey = identified.byPublicKey /\ first.byId = identified.byId
  <2>1. first = [identified EXCEPT !.standby = @ \ missing,
                                   !.active = @ \ missing,
                                   !.activeListByIdSorted = Sync!Without(@, missing),
                                   !.syncing = @ \cup missing]
    <3> HIDE DEF keys
    <3> QED
      BY DEF Sync!addSyncingNodes, Sync!ToSyncing, identified, missing
  <2> HIDE DEF first
  <2> QED
    BY <1>3, <1>4, <2>1 DEF WellFormed
<1> HIDE DEF first
<1>7. Sync!KeysOf(first, U) = U
  <2>1. U \cap DOMAIN first.byId = U
    BY <1>5, <1>6
  <2>2. {first.byId[id] : id \in U} = U
    BY <1>5, <1>6
  <2> QED
    BY <1>4, <1>6, <2>1, <2>2 DEF Sync!KeysOf
<1>8. made = Sync!ToActive(first, U)
  <2>1. made = Sync!setActive(first, Sync!KeysOf(first, U))
    BY DEF Sync!applyNodeListChange, first
  <2>2. U \cap DOMAIN first.byPublicKey = U
    BY <1>4, <1>6
  <2> QED
    BY <1>7, <2>1, <2>2 DEF Sync!setActive
<1> HIDE DEF made
<1>9. made.syncing = S \ U /\ made.active = U
  <2> DEFINE sorted == Sync!InsertAllSorted(first.byPublicKey, first.activeListByIdSorted,
                                            U \ first.active)
  <2>1. made = [first EXCEPT !.standby = @ \ U, !.syncing = @ \ U, !.active = @ \cup U,
                             !.activeListByIdSorted = sorted]
    BY <1>6, <1>8 DEF Sync!ToActive, WellFormed
  <2> HIDE DEF sorted
  <2> QED
    BY <1>6, <2>1 DEF WellFormed
<1> QED
  BY <1>9 DEF ListedAs, made

\* A page goes down from below the oldest record.
LEMMA PageDescends ==
  ASSUME RecordsOK(cycles), Len(cycles) \in Nat \ {0}, NEW oldest \in 0..(Len(cycles) - 1)
  PROVE  \A k \in DOMAIN Sync!PageBefore(oldest) :
           Sync!PageBefore(oldest)[k] = IF oldest = 0 THEN 0 ELSE oldest - k
<1> DEFINE page == Sync!PageBefore(oldest)
           counters == 0..(Len(cycles) - 1)
           end == IF oldest = 0 THEN 0 ELSE oldest - 1
<1>1. page \in Seq(counters)
  BY PageInRange
<1>2. \A k \in DOMAIN page : page[k] = end - k + 1
  BY DEF Sync!PageBefore
<1> HIDE DEF page
<1>3. ASSUME NEW k \in DOMAIN page PROVE page[k] = IF oldest = 0 THEN 0 ELSE oldest - k
  <2>1. k \in Nat \ {0} /\ page[k] \in counters
    <3> HIDE DEF counters
    <3> QED
      BY <1>1
  <2>2. page[k] = end - k + 1
    BY <1>2
  <2>3. CASE oldest = 0
    <3>1. page[k] = 1 - k /\ page[k] >= 0
      BY <2>1, <2>2, <2>3
    <3> QED
      BY <2>1, <2>3, <3>1
  <2>4. CASE oldest # 0
    BY <2>1, <2>2, <2>4
  <2> QED
    BY <2>3, <2>4
<1> QED
  BY <1>3 DEF page

-----------------------------------------------------------------------------
(* The steps, for the lists from records *)

\* Other steps touch neither the records nor what was read of them.
LEMMA RestoreKept ==
  ASSUME RestoreInv, UNCHANGED <<cycles, start>>,
         \/ UNCHANGED <<phase, chain, downloaded>>
         \/ phase' \notin {"reading", "restored"}
  PROVE  RestoreInv'
<1>1. NoneLost' <=> NoneLost
  BY DEF NoneLost
<1>2. HistoryOK(cycles')
  BY DEF RestoreInv
<1>3. CASE phase' \notin {"reading", "restored"}
  BY <1>2, <1>3 DEF RestoreInv
<1>4. CASE UNCHANGED <<phase, chain, downloaded>>
  <2>1. PageFollows' <=> PageFollows
    BY <1>4 DEF PageFollows
  <2>2. Sync!Newest' = Sync!Newest
    BY DEF Sync!Newest
  <2> QED
    BY <1>1, <1>2, <1>4, <2>1, <2>2 DEF RestoreInv
<1> QED
  BY <1>3, <1>4

\* The network makes no record while records are read.
LEMMA NetworkCycleRestore ==
  ASSUME DownloadInv, RestoreInv, Sync!NetworkCycle
  PROVE  RestoreInv'
<1>1. UNCHANGED <<start, phase, chain, downloaded>> /\ (start = "sync" \/ phase = "down")
  BY DEF Sync!NetworkCycle, Sync!state
<1>2. PICK patch \in Patches[start] :
        Sync!Legal(cycles, patch) /\ cycles' = Append(cycles, Sync!NewRecord(cycles, patch))
  BY DEF Sync!NetworkCycle
<1>3. HistoryOK(cycles')
  BY <1>2, HistoryAppended DEF DownloadInv, RecordsInv, RestoreInv
<1>4. phase' \notin {"reading", "restored"}
  BY <1>1 DEF RestoreInv
<1> QED
  BY <1>3, <1>4 DEF RestoreInv

\* Syncing is not reading.
LEMMA CallsRestore ==
  ASSUME RestoreInv, NEW s \in Sync!Slots,
         \/ Sync!AskNext(s) \/ Sync!PeerAnswers(s) \/ Sync!QueryEnds(s)
         \/ Sync!FetchFails(s) \/ Sync!FetchEnds(s)
  PROVE  RestoreInv'
<1>1. ASSUME Sync!Fails(s) PROVE RestoreInv'
  <2>1. /\ UNCHANGED <<cycles, start, chain, downloaded>>
        /\ phase' = IF s = 0 THEN "failed" ELSE phase
    BY <1>1 DEF Sync!Fails, Sync!network, Sync!state
  <2>2. phase' = phase \/ phase' = "failed"
    BY <2>1
  <2> QED
    BY <2>1, <2>2, RestoreKept
<1>2. ASSUME UNCHANGED <<Sync!network, start, phase, chain, Sync!state>> PROVE RestoreInv'
  BY <1>2, RestoreKept DEF Sync!network, Sync!state
<1>3. CASE Sync!AskNext(s) \/ Sync!PeerAnswers(s)
  BY <1>2, <1>3 DEF Sync!AskNext, Sync!PeerAnswers
<1>4. CASE Sync!QueryEnds(s)
  BY <1>1, <1>2, <1>4 DEF Sync!QueryEnds
<1>5. CASE Sync!FetchFails(s)
  BY <1>1, <1>2, <1>5 DEF Sync!FetchFails
<1>6. CASE Sync!FetchEnds(s)
  <2>1. CASE Sync!Fails(s)
    BY <1>1, <2>1
  <2>2. CASE ~Sync!Fails(s)
    <3>1. /\ UNCHANGED <<cycles, start, chain>>
          /\ \/ UNCHANGED <<phase, downloaded>>
             \/ Sync!Synced(got')
      BY <1>6, <2>2 DEF Sync!FetchEnds, Sync!network, Sync!state
    <3>2. CASE UNCHANGED <<phase, downloaded>>
      BY <3>1, <3>2, RestoreKept
    <3>3. CASE Sync!Synced(got')
      <4>1. phase' \in {"synced", "failed"}
        BY <3>3 DEF Sync!Synced
      <4> QED
        BY <3>1, <4>1, RestoreKept
    <3> QED
      BY <3>1, <3>2, <3>3
  <2> QED
    BY <2>1, <2>2
<1> QED
  BY <1>3, <1>4, <1>5, <1>6

\* Reading goes from record to record and ends with the nodes there are.
LEMMA ReadingRestore ==
  ASSUME DownloadInv, RestoreInv, Sync!RestoreBegins \/ Sync!ReadPage \/ Sync!ReadRecord
  PROVE  RestoreInv'
<1> DEFINE n == Len(cycles)
<1>1. /\ n \in Nat \ {0} /\ DOMAIN cycles = 1..n /\ RecordsOK(cycles) /\ HistoryOK(cycles)
      /\ Sync!Newest = cycles[n]
  BY SameOperators DEF DownloadInv, RecordsInv, RecordsOK, Sync!Newest, RestoreInv
<1>2. UNCHANGED <<cycles, start>>
  BY DEF Sync!RestoreBegins, Sync!ReadPage, Sync!ReadRecord, Sync!network
<1>3. /\ HistoryOK(cycles') /\ NoneLost' = NoneLost /\ Sync!Newest' = Sync!Newest
      /\ Len(cycles') = n
  BY <1>1, <1>2 DEF NoneLost, Sync!Newest
<1>4. CASE Sync!RestoreBegins
  <2>1. /\ start # "sync" /\ phase' = "reading"
        /\ chain' = [oldest |-> Sync!Newest.counter, page |-> <<>>,
                     squasher |-> Sync!addChange(Sync!EmptySquasher, Sync!parse(Sync!Newest))]
    BY <1>4 DEF Sync!RestoreBegins
  <2>2. Sync!Newest.counter = n - 1
    <3>1. n \in 1..n
      BY <1>1
    <3>2. RecordOK(cycles, n)
      BY <1>1, <3>1 DEF RecordsOK
    <3> QED
      BY <1>1, <3>2 DEF RecordOK
  <2> DEFINE squasher == Sync!addChange(Sync!EmptySquasher, Sync!parse(cycles[n]))
  <2>3. SquasherOf(squasher, cycles, n)
    BY <1>1, FirstChange
  <2> HIDE DEF squasher
  <2>4. chain'.oldest = n - 1 /\ chain'.page = <<>> /\ chain'.squasher = squasher
    BY <1>1, <2>1, <2>2 DEF squasher
  <2>5. SquasherOf(chain'.squasher, cycles', chain'.oldest + 1)
    <3>1. chain'.oldest + 1 = n
      BY <1>1, <2>4
    <3> QED
      BY <1>2, <2>3, <2>4, <3>1
  <2>6. PageFollows'
    <3>1. DOMAIN chain'.page = {}
      BY <2>4
    <3> QED
      BY <3>1 DEF PageFollows
  <2>7. chain'.oldest = 0 => Len(cycles') = 1
    BY <1>1, <1>3, <2>4
  <2> QED
    BY <1>2, <1>3, <2>1, <2>5, <2>6, <2>7 DEF RestoreInv
<1>5. CASE Sync!ReadPage
  <2> DEFINE page == Sync!PageBefore(chain.oldest)
  <2>1. phase = "reading" /\ phase' \in {"reading", "failed"}
    BY <1>5 DEF Sync!ReadPage
  <2>2. CASE phase' = "failed"
    BY <1>2, <2>2, RestoreKept
  <2>3. CASE phase' = "reading"
    <3>1. chain.oldest \in 0..(n - 1)
      BY <2>1 DEF DownloadInv, ChainInv
    <3>2. /\ page \in Seq(0..(n - 1))
          /\ \A k \in DOMAIN page : page[k] = IF chain.oldest = 0 THEN 0 ELSE chain.oldest - k
      BY <1>1, <3>1, PageInRange, PageDescends
    <3>3. \E m \in 0..Len(page) : chain' = [chain EXCEPT !.page = SubSeq(page, 1, m)]
      <4>1. Len(page) \in 0..Len(page) /\ {0} \subseteq 0..Len(page)
        <5> HIDE DEF page
        <5>1. Len(page) \in Nat
          BY <3>2
        <5> QED
          BY <5>1
      <4>2. \E m \in IF start = "restore" THEN {Len(page)}
                     ELSE IF chain.oldest = 0 THEN {0} ELSE 0..Len(page) :
              IF m = 0
                THEN phase' = "failed" /\ UNCHANGED chain
                ELSE phase' = phase /\ chain' = [chain EXCEPT !.page = SubSeq(page, 1, m)]
        BY <1>5 DEF Sync!ReadPage
      <4> HIDE DEF page
      <4> QED
        BY <2>3, <4>1, <4>2
    <3> HIDE DEF page
    <3>4. PICK m \in 0..Len(page) : chain' = [chain EXCEPT !.page = SubSeq(page, 1, m)]
      BY <3>3
    <3> DEFINE part == SubSeq(page, 1, m)
    <3>5. DOMAIN part \subseteq DOMAIN page /\ \A k \in DOMAIN part : part[k] = page[k]
      <4> DEFINE counters == 0..(n - 1)
      <4>1. page \in Seq(counters)
        BY <3>2
      <4> HIDE DEF counters
      <4> QED
        BY <3>4, <4>1
    <3> HIDE DEF part
    <3>6. chain'.oldest = chain.oldest /\ chain'.page = part /\ chain'.squasher = chain.squasher
      <4>1. chain = [oldest |-> chain.oldest, page |-> chain.page, squasher |-> chain.squasher]
        BY <2>1 DEF DownloadInv, ChainInv
      <4> QED
        BY <3>4, <4>1 DEF part
    <3>7. PageFollows'
      BY <3>2, <3>5, <3>6 DEF PageFollows
    <3>8. /\ start # "sync" /\ SquasherOf(chain.squasher, cycles, chain.oldest + 1)
          /\ NoneLost /\ chain.oldest = 0 => Len(cycles) = 1
      BY <2>1 DEF RestoreInv
    <3> QED
      BY <1>2, <1>3, <2>3, <3>6, <3>7, <3>8 DEF RestoreInv
  <2> QED
    BY <2>1, <2>2, <2>3
<1>6. CASE Sync!ReadRecord
  <2> DEFINE counter == Head(chain.page)
             squasher == Sync!addChange(chain.squasher, Sync!parse(cycles[counter + 1]))
             done == Sync!Complete(squasher, Sync!Newest)
             oldest == chain.oldest
             page == chain.page
             rest == Tail(page)
             counters == 0..(n - 1)
  <2>1. /\ phase = "reading" /\ page # <<>>
        /\ chain' = [oldest |-> counter, page |-> rest, squasher |-> squasher]
        /\ done => /\ downloaded' = Sync!applyNodeListChange(downloaded, squasher)
                   /\ phase' = "restored"
        /\ ~done => UNCHANGED <<downloaded, phase>>
    BY <1>6 DEF Sync!ReadRecord
  <2>2. /\ oldest \in counters /\ page \in Seq(counters) /\ downloaded = Sync!EmptyLists
    BY <2>1 DEF DownloadInv, ChainInv, ListsInv
  <2>3. /\ start # "sync" /\ SquasherOf(chain.squasher, cycles, oldest + 1) /\ PageFollows
        /\ NoneLost /\ oldest = 0 => n = 1
    BY <2>1 DEF RestoreInv
  <2>4. /\ counter = page[1] /\ counter \in counters /\ 1 \in DOMAIN page
        /\ \A k \in DOMAIN rest : /\ k \in Nat \ {0} /\ k + 1 \in DOMAIN page
                                  /\ rest[k] = page[k + 1] /\ page[k + 1] \in counters
    <3> HIDE DEF counters, page
    <3> QED
      BY <2>1, <2>2 DEF page
  <2>5. \A k \in DOMAIN page : page[k] = IF oldest = 0 THEN 0 ELSE oldest - k
    BY <2>3 DEF PageFollows
  <2>6. counter = IF oldest = 0 THEN 0 ELSE oldest - 1
    BY <2>4, <2>5
  <2>7. SquasherOf(squasher, cycles, counter + 1)
    <3>1. CASE oldest = 0
      <4>1. counter + 1 = 1 /\ oldest + 1 = 1
        BY <2>6, <3>1
      <4>2. SquasherOf(chain.squasher, cycles, 1)
        BY <2>3, <4>1
      <4> QED
        BY <1>1, <4>1, <4>2, ChangeAgain
    <3>2. CASE oldest # 0
      <4>1. counter + 1 = oldest /\ oldest \in 1..n
        BY <1>1, <2>2, <2>6, <3>2
      <4>2. SquasherOf(Sync!addChange(chain.squasher, Sync!parse(cycles[oldest])), cycles, oldest)
        BY <1>1, <2>3, <4>1, ChangeAdded
      <4> QED
        BY <4>1, <4>2
    <3> QED
      BY <3>1, <3>2
  <2>8. counter + 1 \in 1..n
    BY <1>1, <2>4
  <2>9. chain'.oldest = counter /\ chain'.page = rest /\ chain'.squasher = squasher
    BY <2>1
  <2> HIDE DEF squasher, counter, done, oldest, page, rest
  <2>10. NoneLost => /\ done => EndsWith(squasher, cycles[n])
                     /\ counter = 0 => done
    <3> SUFFICES ASSUME NoneLost PROVE /\ done => EndsWith(squasher, cycles[n])
                                       /\ counter = 0 => done
      OBVIOUS
    <3>1. \A i \in DOMAIN cycles : cycles[i].lostAfterSelection = {}
      BY DEF NoneLost
    <3>2. /\ Sync!Complete(squasher, cycles[n]) => EndsWith(squasher, cycles[n])
          /\ counter + 1 = 1 => Sync!Complete(squasher, cycles[n])
      BY <1>1, <2>7, <2>8, <3>1, SquashedAll
    <3> QED
      BY <1>1, <3>2 DEF done
  <2>11. CASE done
    <3>1. phase' = "restored" /\ downloaded' = Sync!applyNodeListChange(downloaded, squasher)
      BY <2>1, <2>11
    <3>2. ASSUME NoneLost
          PROVE  /\ downloaded'.syncing = Sync!Nodes(Sync!Newest.after.validators, "syncing")
                 /\ downloaded'.active = Sync!Nodes(Sync!Newest.after.validators, "active")
      <4>1. EndsWith(squasher, cycles[n])
        BY <2>10, <2>11, <3>2
      <4>2. squasher.updated \subseteq squasher.added
        BY <2>7 DEF SquasherOf
      <4>3. ListedAs(Sync!applyNodeListChange(downloaded, squasher), squasher)
        BY <2>2, <4>1, <4>2, RestoredFromEmpty DEF EndsWith
      <4> QED
        BY <1>1, <3>1, <4>1, <4>3 DEF ListedAs, EndsWith
    <3> QED
      BY <1>2, <1>3, <2>3, <3>1, <3>2 DEF RestoreInv
  <2>12. CASE ~done
    <3>1. phase' = "reading"
      BY <2>1, <2>12
    <3>2. PageFollows'
      <4>1. ASSUME NEW k \in DOMAIN rest
            PROVE  rest[k] = IF counter = 0 THEN 0 ELSE counter - k
        <5>1. /\ k \in Nat \ {0} /\ rest[k] >= 0 /\ oldest \in Nat
              /\ rest[k] = IF oldest = 0 THEN 0 ELSE oldest - (k + 1)
          BY <1>1, <2>2, <2>4, <2>5
        <5> QED
          BY <2>6, <5>1
      <4> QED
        BY <2>9, <4>1 DEF PageFollows
    <3>3. NoneLost => counter # 0
      BY <2>10, <2>12
    <3> QED
      BY <1>2, <1>3, <2>3, <2>7, <2>9, <3>1, <3>2, <3>3 DEF RestoreInv
  <2> QED
    BY <2>11, <2>12
<1> QED
  BY <1>4, <1>5, <1>6

\* Nothing has been read at the start.
LEMMA RestoreStarts ==
  ASSUME Sync!Init
  PROVE  RestoreInv
<1>1. PICK patch \in Patches[start] :
        Sync!Legal(<<>>, patch) /\ cycles = <<Sync!NewRecord(<<>>, patch)>>
  BY DEF Sync!Init
<1>2. start \in Starts /\ phase = "down"
  BY DEF Sync!Init
<1>3. HistoryOK(cycles)
  <2> DEFINE record == Sync!NewRecord(<<>>, patch)
  <2>1. RecordsOK(<<>>) /\ HistoryOK(<<>>)
    BY DEF RecordsOK, HistoryOK
  <2>2. HistoryOK(Append(<<>>, record))
    BY <1>1, <1>2, <2>1, HistoryAppended
  <2> HIDE DEF record
  <2>3. cycles = Append(<<>>, record)
    BY <1>1 DEF record
  <2> QED
    BY <2>2, <2>3
<1> QED
  BY <1>2, <1>3 DEF RestoreInv

\* Every step keeps it.
LEMMA RestoreSteps ==
  ASSUME DownloadInv, RestoreInv, [Sync!Next]_Sync!vars
  PROVE  RestoreInv'
<1>1. CASE Sync!NetworkCycle
  BY <1>1, NetworkCycleRestore
<1>2. ASSUME NEW v \in Sync!Correct, Sync!PeerAdvances(v) PROVE RestoreInv'
  BY <1>2, RestoreKept DEF Sync!PeerAdvances, Sync!state
<1>3. CASE Sync!SyncBegins
  <2>1. UNCHANGED <<cycles, start>> /\ phase' \in {"syncing", "failed"}
    BY <1>3 DEF Sync!SyncBegins, Sync!network
  <2> QED
    BY <2>1, RestoreKept
<1>4. CASE Sync!ProcessSynced \/ Sync!ReceiveRecord
  <2>1. UNCHANGED <<cycles, start>> /\ phase' = "up"
    BY <1>4 DEF Sync!ProcessSynced, Sync!ReceiveRecord, Sync!ProcessRecord, Sync!network
  <2> QED
    BY <2>1, RestoreKept
<1>5. CASE Sync!RestoreBegins \/ Sync!ReadPage \/ Sync!ReadRecord
  BY <1>5, ReadingRestore
<1>6. ASSUME NEW s \in Sync!Slots,
             \/ Sync!AskNext(s) \/ Sync!PeerAnswers(s) \/ Sync!QueryEnds(s)
             \/ Sync!FetchFails(s) \/ Sync!FetchEnds(s)
      PROVE  RestoreInv'
  BY <1>6, CallsRestore
<1>7. CASE UNCHANGED Sync!vars
  BY <1>7, RestoreKept DEF Sync!vars, Sync!network, Sync!state
<1> QED
  BY <1>1, <1>2, <1>3, <1>4, <1>5, <1>6, <1>7 DEF Sync!Next, Sync!Archiver

\* Unless a node was lost after its selection, the node lists rebuilt from records are those
\* the network had after the newest of them, wherever the reading stops, and it stops before
\* the records run out (ChangeSquasher and applyNodeListChange of CycleParser.ts, as
\* syncCyclesAndNodeList and buildNodeListFromStoredCycle of Data.ts call them).
THEOREM SyncRestoredLists ==
  SyncSpec => []RestoredLists
<1>1. Sync!Init => DownloadInv /\ RestoreInv
  BY SyncStarts, RestoreStarts
<1>2. DownloadInv /\ RestoreInv /\ [Sync!Next]_Sync!vars => DownloadInv' /\ RestoreInv'
  BY SyncSteps, RestoreSteps
<1>3. DownloadInv /\ RestoreInv => RestoredLists
  BY DEF RestoreInv, NoneLost, RestoredLists, Sync!RestoredLists
<1> QED
  BY <1>1, <1>2, <1>3, PTL DEF SyncSpec, Sync!Spec
=============================================================================
