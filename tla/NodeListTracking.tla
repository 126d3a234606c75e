------------------------- MODULE NodeListTracking -------------------------
(***************************************************************************)
(* An archiver that keeps its node lists by applying the cycle records of  *)
(* a network, composed with that network.  The network's side is external: *)
(* it says which records validators can produce.  The archiver sees each   *)
(* record, or misses it (a record confirmed out of order is dropped, see   *)
(* CycleProcessing), or starts again and downloads the lists.              *)
(***************************************************************************)
EXTENDS NodeList, FiniteSets

CONSTANTS
  PublicKeys,
  Ids,              \* node ids; a node gets a new one each time it joins
  Owner,            \* Owner[id]: the node an id belongs to (ids hash the public key)
  NoNode,
  MaxNodes,         \* bound: nodes that change in one cycle record
  MayMiss,          \* whether the archiver may miss records and may start again
  NetworkModes      \* the modes the network goes through

ASSUME IdAssumption ==
  /\ NoId \notin Ids
  /\ Ids \subseteq Int                 \* hex strings, which are ordered in the same way
  /\ NoNode \notin PublicKeys
  /\ Owner \in [Ids -> PublicKeys]
  /\ IsFiniteSet(PublicKeys)

VARIABLES
  lists,                \* the archiver's node lists
  currentNetworkMode,   \* the archiver's
  clearing,             \* the shutdown block of processCycles is asleep
  missed,               \* the archiver missed a record since it started
  net,                  \* the network's own lists and ids
  netMode,
  usedIds,
  firstNode             \* the node told to start the network, until its first cycle

archiverVars == <<lists, currentNetworkMode, clearing, missed>>
networkVars == <<net, netMode, usedIds, firstNode>>
vars == <<archiverVars, networkVars>>

EmptyNet == [standby |-> {}, syncing |-> {}, active |-> {}, ids |-> <<>>]

Init ==
  /\ lists = EmptyLists
  /\ currentNetworkMode = "forming"
  /\ clearing = FALSE
  /\ missed = FALSE
  /\ net = EmptyNet
  /\ netMode = "down"
  /\ usedIds = {}
  /\ firstNode = NoNode

-----------------------------------------------------------------------------
(* The network: which records a cycle can have, and what they mean *)

Changes ==
  [type : {"join"}, id : {id \in Ids \ usedIds : Owner[id] \in net.standby}]
  \cup [type : {"activate"}, node : net.syncing]
  \cup [type : {"refresh"}, node : net.active]
  \cup [type : {"standbyAdd"}, node : PublicKeys \ (net.standby \cup DOMAIN net.ids)]
  \cup [type : {"standbyRemove"}, node : net.standby]
  \cup [type : {"removed", "apoptosized"}, node : DOMAIN net.ids]
  \cup [type : {"lostAfterSelection"}, node : net.syncing]

\* At most one change per node, except that a node may be refreshed or activated and
\* leave in the same cycle.
Subject(change) == IF change.type = "join" THEN Owner[change.id] ELSE change.node
Leaving == {"removed", "apoptosized", "lostAfterSelection"}

Compatible(a, b) ==
  Subject(a) = Subject(b) =>
    \/ a.type \in {"refresh", "activate"} /\ b.type \in Leaving
    \/ b.type \in {"refresh", "activate"} /\ a.type \in Leaving

AllCompatible(changes) == \A a, b \in changes : a # b => Compatible(a, b)

\* What a cycle can say of one node.
NodeChanges(pk) ==
  {changes \in SUBSET {c \in Changes : Subject(c) = pk} : AllCompatible(changes)}

ChangeSets ==
  IF firstNode # NoNode
    THEN {{[type |-> "join", id |-> id]} :
            id \in {id \in Ids \ usedIds : Owner[id] = firstNode}}
    ELSE {changes \in {UNION Range(f) :
                         f \in [1..MaxNodes -> UNION {NodeChanges(pk) : pk \in PublicKeys}]} :
            AllCompatible(changes)}

NextModes ==
  NetworkModes \cap
    CASE netMode = "forming"    -> {"forming", "processing"}
      [] netMode = "processing" -> {"processing", "recovery", "shutdown"}
      [] netMode = "recovery"   -> {"recovery", "restore", "shutdown"}
      [] netMode = "restart"    -> {"restart", "restore"}
      [] netMode = "restore"    -> {"restore", "processing"}
      [] OTHER                  -> {}

Cycle(changes, mode) ==
  LET nodesOf(type) == {c.node : c \in {d \in changes : d.type = type}}
      idsOf(type) == {net.ids[pk] : pk \in nodesOf(type)}
      joining == {c.id : c \in {d \in changes : d.type = "join"}}
  IN [mode |-> mode,
      joinedConsensors |-> [pk \in {Owner[id] : id \in joining} |->
                              CHOOSE id \in joining : Owner[id] = pk],
      activated |-> nodesOf("activate"),
      refreshedConsensors |-> [pk \in nodesOf("refresh") |-> net.ids[pk]],
      standbyAdd |-> nodesOf("standbyAdd"),
      standbyRemove |-> nodesOf("standbyRemove"),
      removed |-> idsOf("removed"),
      apoptosized |-> idsOf("apoptosized"),
      lostAfterSelection |-> idsOf("lostAfterSelection")]

\* Active nodes start over as syncing nodes when the network is restored.
Restores(mode, newMode) == mode \in {"restart", "recovery"} /\ newMode = "restore"

NetworkAfter(cycle) ==
  LET joined == cycle.joinedConsensors
      ids == [pk \in DOMAIN net.ids \cup DOMAIN joined |->
                IF pk \in DOMAIN joined THEN joined[pk] ELSE net.ids[pk]]
      gone == {pk \in DOMAIN ids :
                 ids[pk] \in cycle.removed \cup cycle.apoptosized \cup cycle.lostAfterSelection}
      syncing == ((net.syncing \cup DOMAIN joined) \ cycle.activated) \ gone
      active == (net.active \cup cycle.activated) \ gone
      restores == Restores(netMode, cycle.mode)
  IN IF cycle.mode = "shutdown"
       THEN EmptyNet
       ELSE [standby |-> ((net.standby \ DOMAIN joined) \cup cycle.standbyAdd)
                            \ cycle.standbyRemove,
             syncing |-> IF restores THEN syncing \cup active ELSE syncing,
             active |-> IF restores THEN {} ELSE active,
             ids |-> [pk \in DOMAIN ids \ gone |-> ids[pk]]]

NetworkCycle(cycle) ==
  /\ net' = NetworkAfter(cycle)
  /\ netMode' = cycle.mode
  /\ usedIds' = usedIds \cup {cycle.joinedConsensors[pk] : pk \in DOMAIN cycle.joinedConsensors}
  /\ firstNode' = NoNode

-----------------------------------------------------------------------------
(* The archiver *)

\* Wrong on purpose: restores without moving the active nodes.
ProcessedUnrestored(current, mode, cycle) == updateNodeList(current, cycle)

\* What processCycles does to the lists: updateNodeList, then changeNetworkMode.
Processed(current, mode, cycle) ==
  LET updated == updateNodeList(current, cycle)
  IN IF Restores(mode, cycle.mode) THEN changeNodeListInRestore(updated) ELSE updated

ProcessCycle(cycle) ==
  /\ lists' = Processed(lists, currentNetworkMode, cycle)
  /\ currentNetworkMode' = cycle.mode
  /\ clearing' = (cycle.mode = "shutdown")
  /\ UNCHANGED missed

MissCycle ==
  /\ MayMiss
  /\ missed' = TRUE
  /\ UNCHANGED <<lists, currentNetworkMode, clearing>>

\* syncV2: the archiver starts with empty lists, adds the network's and applies the
\* record it synced to.  It starts in mode forming, so it is taken not to start at the
\* very record that changes the network's mode.
Downloaded ==
  LET withStatus(pks) == [pk \in pks |-> net.ids[pk]]
  IN addStandbyNodes(
       addActiveNodes(addSyncingNodes(EmptyLists, withStatus(net.syncing)),
                      withStatus(net.active)),
       net.standby)

SyncV2(cycle) ==
  /\ MayMiss
  /\ cycle.mode = netMode
  /\ lists' = Processed(Downloaded, "forming", cycle)
  /\ currentNetworkMode' = cycle.mode
  /\ missed' = FALSE
  /\ UNCHANGED clearing

CycleCreated ==
  /\ ~ clearing
  /\ \E changes \in ChangeSets, mode \in NextModes :
       LET cycle == Cycle(changes, mode)
       IN /\ firstNode # NoNode => mode = netMode
          /\ NetworkCycle(cycle)
          /\ ProcessCycle(cycle) \/ MissCycle \/ SyncV2(cycle)

\* The shutdown block of processCycles, after its sleep.
ClearNodeLists ==
  /\ clearing
  /\ lists' = clearNodeLists(lists)
  /\ clearing' = FALSE
  /\ missed' = FALSE
  /\ UNCHANGED <<currentNetworkMode, networkVars>>

\* POST /nodelist of the node that starts the network: it has no id yet.
PostNodeList(pk) ==
  /\ netMode \in {"down", "shutdown"}
  /\ firstNode = NoNode
  /\ DOMAIN lists.byPublicKey = {}
  /\ ~ clearing
  /\ \E id \in Ids \ usedIds : Owner[id] = pk
  /\ lists' = addSyncingNodes(lists, [key \in {pk} |-> NoId])
  /\ firstNode' = pk
  /\ netMode' = IF netMode = "down" THEN "forming" ELSE "restart"
  /\ UNCHANGED <<currentNetworkMode, clearing, missed, net, usedIds>>

Next ==
  \/ CycleCreated
  \/ ClearNodeLists
  \/ \E pk \in PublicKeys : PostNodeList(pk)

Spec == Init /\ [][Next]_vars

-----------------------------------------------------------------------------
(* Properties *)

TypeOK ==
  /\ lists.standby \cup lists.syncing \cup lists.active \subseteq PublicKeys
  /\ lists.byPublicKey \in [DOMAIN lists.byPublicKey -> Ids \cup {NoId}]
  /\ lists.byId \in [DOMAIN lists.byId -> PublicKeys]
  /\ DOMAIN lists.byPublicKey \subseteq PublicKeys /\ DOMAIN lists.byId \subseteq Ids
  /\ lists.activeListByIdSorted \in Seq(PublicKeys)
  /\ clearing \in BOOLEAN /\ missed \in BOOLEAN
  /\ usedIds \subseteq Ids
  /\ firstNode \in PublicKeys \cup {NoNode}

\* Whatever records it missed, the archiver lists every node once: the map of nodes has
\* exactly the syncing and the active ones, and none is both.
ListsPartition ==
  /\ lists.syncing \cap lists.active = {}
  /\ DOMAIN lists.byPublicKey = lists.syncing \cup lists.active

\* Whatever records it missed, a listed node is found by its id, so that a later record
\* that removes the id removes the node.
FoundById ==
  \A pk \in DOMAIN lists.byPublicKey :
    LET id == lists.byPublicKey[pk]
    IN id # NoId => id \in DOMAIN lists.byId /\ lists.byId[id] = pk

\* An archiver that missed no record has the network's lists: the same syncing and active
\* nodes, under the same ids, and no id of a node that left.
InSync ==
  (~ missed /\ ~ clearing /\ firstNode = NoNode) =>
    /\ lists.syncing = net.syncing
    /\ lists.active = net.active
    /\ lists.byPublicKey = net.ids
    /\ DOMAIN lists.byId = Range(net.ids)

\* The array of active nodes is sorted by id, for an archiver that missed no record.
SortedById ==
  LET sorted == lists.activeListByIdSorted
  IN ~ missed => \A i, j \in DOMAIN sorted :
       i < j => Greater(lists.byPublicKey[sorted[j]], lists.byPublicKey[sorted[i]])

=============================================================================
