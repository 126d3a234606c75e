-------------------------- MODULE DataSubscription --------------------------
(***************************************************************************)
(* The subscription of an archiver to validators (Data/Data.ts).  The      *)
(* active validators, sorted by id, are cut into subsets of                *)
(* currentConsensusRadius nodes, and the archiver keeps a data sender in   *)
(* each subset: an entry in dataSenders with a contact timeout, and a      *)
(* socket in socketClients.  Every cycle record computes the subsets       *)
(* again; a sender whose timeout runs out is replaced.  None of the calls  *)
(* that subscribe is awaited, so any number of them overlap at the         *)
(* requests they send.                                                     *)
(***************************************************************************)
EXTENDS Integers, FiniteSets, Bags

LOCAL INSTANCE Functions

CONSTANTS
  Nodes,            \* validators, as integers in the order of their ids
  Radii,            \* the values currentConsensusRadius can have
  ExtraAboveRadius, \* the radius above which more senders are wanted (5)
  ExtraSenders,     \* extraConsensorsToSubscribe, 0 with four archivers or more
  MaxRetry,         \* rounds through a subset per sender wanted (3)
  Silent,           \* validators that send no data the archiver takes
  Flaky,            \* validators that may not answer in time, or send data that is refused
  MaxChanges,       \* bound: nodes that become active or leave in one cycle record
  MaxGroupings,     \* bound: calls of subscribeConsensorsByConsensusRadius in flight
  MaxCalls,         \* bound: calls of subscribeNodeFromThisSubset in flight at a cycle record
  MaxStrays         \* bound: timers per node that no data sender refers to at a cycle record

ASSUME SubscriptionAssumption ==
  /\ Nodes \subseteq Nat /\ IsFiniteSet(Nodes)
  /\ Radii \subseteq Nat \ {0} /\ Radii # {}
  /\ ExtraAboveRadius \in Nat /\ ExtraSenders \in Nat /\ MaxRetry \in Nat \ {0}
  /\ Silent \subseteq Nodes /\ Flaky \subseteq Nodes
  /\ MaxGroupings \in Nat \ {0} /\ {MaxChanges, MaxCalls, MaxStrays} \subseteq Nat

VARIABLES
  listed,           \* NodeList.byPublicKey
  active,           \* NodeList.activeListByIdSorted
  foundFirstNode,
  radius,           \* currentConsensusRadius
  subsets,          \* subsetNodesMapByConsensusRadius
  senders,          \* the keys of dataSenders
  watched,          \* the senders whose contactTimeout is running
  strays,           \* per node, running contact timeouts that no sender refers to
  sockets,          \* the keys of socketClients
  groupings,        \* calls that wait for the network configuration
  calls,            \* calls of subscribeNodeFromThisSubset that wait for an answer
  clearing          \* clearDataSenders is asleep

nodeVars == <<listed, active, foundFirstNode>>
groupVars == <<radius, subsets, groupings>>
senderVars == <<senders, watched, strays, sockets>>
vars == <<nodeVars, groupVars, senderVars, calls, clearing>>

\* A call of subscribeNodeFromThisSubset: its subset, the nodes of it left in this round, the
\* one at hand among them, the senders found and wanted, and the rounds before this one.
Call ==
  {c \in [nodes : SUBSET Nodes, left : SUBSET Nodes, pick : Nodes, found : SUBSET Nodes,
          wanted : {1, 1 + ExtraSenders}, retry : Nat] :
     c.pick \in c.left /\ c.left \subseteq c.nodes /\ c.retry <= MaxRetry * c.wanted}

\* The archiver is the first one of a network without nodes, or has joined a network.
Init ==
  /\ \/ listed = {} /\ groupings = 0 /\ foundFirstNode = FALSE
     \/ listed \in (SUBSET Nodes) \ {{}} /\ groupings = 1 /\ foundFirstNode = TRUE
  /\ active = listed
  /\ radius \in Radii
  /\ subsets = <<>>
  /\ senders = {} /\ watched = {} /\ sockets = {}
  /\ strays = [n \in Nodes |-> 0]
  /\ calls = EmptyBag
  /\ clearing = FALSE

-----------------------------------------------------------------------------
Wanted(r) == IF r > ExtraAboveRadius THEN 1 + ExtraSenders ELSE 1

IndexIn(n, nodes) == Cardinality({m \in nodes : m < n})

SubsetsOf(nodes, r) ==
  [i \in {IndexIn(n, nodes) \div r : n \in nodes} |->
     {n \in nodes : IndexIn(n, nodes) \div r = i}]

\* Wrong on purpose: one sender fewer stays.
KeptTooFew(nodes, subscribed, wanted) ==
  LET found == nodes \cap subscribed IN {n \in found : IndexIn(n, found) < wanted - 1}

\* Wrong on purpose: one sender more stays.
KeptTooMany(nodes, subscribed, wanted) ==
  LET found == nodes \cap subscribed IN {n \in found : IndexIn(n, found) <= wanted}

\* The senders of a subset that stay when there are more than are wanted.
Kept(nodes, subscribed, wanted) ==
  LET found == nodes \cap subscribed IN {n \in found : IndexIn(n, found) < wanted}

\* A call goes through its subset in random order; when it has been through all of it, it
\* starts over, first with the last node again.
NextPicks(call) ==
  LET left == call.left \ {call.pick}
  IN IF left # {}
       THEN {[call EXCEPT !.left = left, !.pick = n] : n \in left}
       ELSE {[call EXCEPT !.left = call.nodes, !.retry = @ + 1]}

\* What a call that runs comes to: its end, {}, or its next request, a set with the call.
\* Nodes that are subscribed already are counted without a request.
Outcomes(call, subscribed) ==
  LET run[c \in Call] ==
        IF c.retry >= MaxRetry * c.wanted \/ Cardinality(c.found) >= c.wanted
          THEN {{}}
        ELSE IF c.pick \notin subscribed
          THEN {{c}}
        ELSE UNION {run[d] : d \in NextPicks([c EXCEPT !.found = @ \cup {c.pick}])}
  IN run[call]

\* subscribeNodeFromThisSubset up to its first request.
Starts(nodes, subscribed, wanted) ==
  LET found == Kept(nodes, subscribed, wanted)
  IN IF Cardinality(found) = wanted
       THEN {{}}
       ELSE UNION {Outcomes([nodes |-> nodes, left |-> nodes, pick |-> n, found |-> found,
                             wanted |-> wanted, retry |-> 0], subscribed) : n \in nodes}

\* The same for several subsets, which are disjoint: the calls that wait afterwards.
StartsOfAll(groups, subscribed, wanted) ==
  LET starts == [g \in groups |-> Starts(g, subscribed, wanted)]
  IN {UNION Range(f) :
        f \in {h \in [groups -> UNION Range(starts)] : \A g \in groups : h[g] \in starts[g]}}

Extras(groups, subscribed, wanted) ==
  UNION {(g \cap subscribed) \ Kept(g, subscribed, wanted) : g \in groups}

\* Wrong on purpose: the timer is not reset.
UnsubscribeTimed(nodes) ==
  /\ senders' = senders \ nodes
  /\ sockets' = sockets \ nodes
  /\ UNCHANGED watched

\* unsubscribeDataSender, for a set of nodes.
Unsubscribe(nodes) ==
  /\ senders' = senders \ nodes
  /\ watched' = watched \ nodes
  /\ sockets' = sockets \ nodes

\* createDataTransferConnection after the answer, and POST /nodelist: whatever the maps have
\* for the node is overwritten.  (A socket that is overwritten stays open; its data are taken
\* as the data of any socket of the node, so that the model need not have it.)
Subscribe(n) ==
  /\ senders' = senders \cup {n}
  /\ watched' = watched \cup {n}
  /\ strays' = IF n \in watched THEN [strays EXCEPT ![n] = @ + 1] ELSE strays
  /\ sockets' = sockets \cup {n}

\* Neither a timeout nor an answer adds to the calls and timers there are, so that it is
\* enough to bound what cycle records and restarts begin with.
WithinBounds ==
  /\ groupings < MaxGroupings
  /\ BagCardinality(calls) <= MaxCalls
  /\ \A n \in Nodes : strays[n] <= MaxStrays

-----------------------------------------------------------------------------
(* The node lists *)

\* What a cycle record says: nodes become active or leave; all of them may start over as
\* syncing nodes.
Changes ==
  {change \in [come : SUBSET Nodes, gone : SUBSET Nodes, restore : BOOLEAN] :
     Cardinality(change.come) + Cardinality(change.gone) <= MaxChanges}

\* What has left is unsubscribed; the subsets are computed later.
ApplyCycle(come, gone, restore) ==
  /\ listed # {} /\ ~clearing
  /\ WithinBounds
  /\ listed' = (listed \cup come) \ gone
  /\ active' = IF restore THEN {} ELSE (active \cup come) \ gone
  /\ listed' # {}
  /\ Unsubscribe(gone)
  /\ UNCHANGED <<foundFirstNode, radius, subsets, strays, calls, clearing>>

\* The shutdown block of processCycles after its sleep, and clearDataSenders up to its own.
Shutdown ==
  /\ listed # {} /\ ~clearing
  /\ listed' = {} /\ active' = {}
  /\ Unsubscribe(senders)
  /\ clearing' = TRUE
  /\ UNCHANGED <<foundFirstNode, groupVars, strays, calls>>

\* The maps are cleared.  What was subscribed during the sleep keeps its timer.
DataSendersCleared ==
  /\ clearing
  /\ clearing' = FALSE
  /\ foundFirstNode' = ~foundFirstNode
  /\ senders' = {} /\ watched' = {} /\ sockets' = {}
  /\ strays' = [n \in Nodes |-> IF n \in watched THEN strays[n] + 1 ELSE strays[n]]
  /\ subsets' = <<>>
  /\ UNCHANGED <<listed, active, radius, groupings, calls>>

\* POST /nodelist by the first node of a network.
FirstNode(n) ==
  /\ listed = {} /\ ~foundFirstNode
  /\ WithinBounds
  /\ foundFirstNode' = TRUE
  /\ listed' = {n}
  /\ Subscribe(n)
  /\ UNCHANGED <<active, groupVars, calls, clearing>>

-----------------------------------------------------------------------------
(* Subscribing *)

\* The extra senders of the subsets are unsubscribed, and a call starts for each subset that
\* has too few; `gone' are nodes to unsubscribe before.
SubscribeFrom(groups, gone, wanted) ==
  LET remaining == senders \ gone
      extras == Extras(groups, remaining, wanted)
  IN /\ Unsubscribe(gone \cup extras)
     /\ \E started \in StartsOfAll(groups, remaining \ extras, wanted) :
          calls' = calls (+) SetToBag(started)

\* subscribeConsensorsByConsensusRadius has the network configuration: the subsets are those
\* of the nodes that are active now.
Grouped(r) ==
  /\ groupings > 0
  /\ groupings' = groupings - 1
  /\ radius' = r
  /\ subsets' = SubsetsOf(active, r)
  /\ SubscribeFrom(Range(subsets'), {}, Wanted(r))
  /\ UNCHANGED <<nodeVars, strays, clearing>>

\* The answer to a subscription, or its timeout.  A node in the network answers unless it is
\* flaky; one that left may still answer.
Answers(n) == IF n \in listed \ Flaky THEN {TRUE} ELSE BOOLEAN

SubscribeAnswered(call, success) ==
  /\ BagIn(call, calls)
  /\ success \in Answers(call.pick)
  /\ IF success THEN Subscribe(call.pick) ELSE UNCHANGED senderVars
  /\ LET answered == IF success THEN [call EXCEPT !.found = @ \cup {call.pick}] ELSE call
     IN \E next \in UNION {Outcomes(c, senders') : c \in NextPicks(answered)} :
          calls' = (calls (-) SetToBag({call})) (+) SetToBag(next)
  /\ UNCHANGED <<nodeVars, groupVars, clearing>>

-----------------------------------------------------------------------------
(* Contact timeouts and data *)

\* Wrong on purpose: two active nodes are too few as well.
ReplaceDataSenderOfMany(n, running) ==
  LET index == IndexIn(n, active) \div radius
      groups == {subsets[i] : i \in {index} \cap DOMAIN subsets}
  IN IF Cardinality(active) <= 2
       THEN watched' = running /\ UNCHANGED <<senders, sockets, calls>>
     ELSE IF n \in senders \cap sockets \cap active
       THEN SubscribeFrom(groups, {n}, Wanted(radius))
     ELSE Unsubscribe({n}) /\ UNCHANGED calls

\* Wrong on purpose: subscribes from the subset before it unsubscribes the node.
ReplaceDataSenderLate(n, running) ==
  LET index == IndexIn(n, active) \div radius
      groups == {subsets[i] : i \in {index} \cap DOMAIN subsets}
  IN IF Cardinality(active) < 2
       THEN watched' = running /\ UNCHANGED <<senders, sockets, calls>>
     ELSE IF n \in senders \cap sockets \cap active
       THEN SubscribeFrom(groups, {}, Wanted(radius))
     ELSE Unsubscribe({n}) /\ UNCHANGED calls

\* replaceDataSender, with the timers that run once its own has.  With one active node the
\* sender stays, without a timer.  The subset is the one the node's place in the active list
\* has now, as it was when the subsets were computed.
ReplaceDataSender(n, running) ==
  LET index == IndexIn(n, active) \div radius
      groups == {subsets[i] : i \in {index} \cap DOMAIN subsets}
  IN IF Cardinality(active) < 2
       THEN watched' = running /\ UNCHANGED <<senders, sockets, calls>>
     ELSE IF n \in senders \cap sockets \cap active
       THEN SubscribeFrom(groups, {n}, Wanted(radius))
     ELSE Unsubscribe({n}) /\ UNCHANGED calls

\* A validator in the network sends data within every contact timeout, unless it is silent
\* or flaky.
Heard(n) == n \in listed \ (Silent \cup Flaky)

ContactTimeout(n) ==
  /\ n \in watched /\ ~Heard(n)
  /\ ReplaceDataSender(n, watched \ {n})
  /\ UNCHANGED <<nodeVars, groupVars, strays, clearing>>

\* A timer whose sender was overwritten or cleared cannot be cleared any more.
StrayTimeout(n) ==
  /\ strays[n] > 0
  /\ strays' = [strays EXCEPT ![n] = @ - 1]
  /\ ReplaceDataSender(n, watched)
  /\ UNCHANGED <<nodeVars, groupVars, clearing>>

\* Data of a subscribed node starts its contact timeout again.
DataReceived(n) ==
  /\ n \in sockets \cap (listed \ Silent)
  /\ n \in senders
  /\ watched' = watched \cup {n}
  /\ UNCHANGED <<nodeVars, groupVars, senders, strays, sockets, calls, clearing>>

\* Data with a bad tag, or accounts at the wrong time.
DataRefused(n) ==
  /\ n \in sockets \cap Flaky
  /\ Unsubscribe({n})
  /\ UNCHANGED <<nodeVars, groupVars, strays, calls, clearing>>

-----------------------------------------------------------------------------
NextCycle ==
  /\ groupings' = groupings + 1
  /\ \E change \in Changes : ApplyCycle(change.come, change.gone, change.restore)

Answered(n) ==
  \E call \in BagToSet(calls), success \in BOOLEAN :
    call.pick = n /\ SubscribeAnswered(call, success)

Next ==
  \/ NextCycle
  \/ Shutdown
  \/ DataSendersCleared
  \/ \E r \in Radii : Grouped(r)
  \/ \E n \in Nodes :
       \/ FirstNode(n)
       \/ Answered(n)
       \/ ContactTimeout(n)
       \/ StrayTimeout(n)
       \/ DataReceived(n)
       \/ DataRefused(n)

Spec == Init /\ [][Next]_vars

\* Cycles go on, and requests, timers and sleeps end.
Fairness ==
  /\ WF_vars(NextCycle)
  /\ WF_vars(DataSendersCleared)
  /\ WF_vars(\E r \in Radii : Grouped(r))
  /\ \A n \in Nodes :
       WF_vars(Answered(n)) /\ WF_vars(ContactTimeout(n)) /\ WF_vars(StrayTimeout(n))

FairSpec == Spec /\ Fairness

-----------------------------------------------------------------------------
TypeOK ==
  /\ active \subseteq listed /\ listed \subseteq Nodes
  /\ foundFirstNode \in BOOLEAN /\ clearing \in BOOLEAN
  /\ radius \in Radii
  /\ \A i \in DOMAIN subsets : i \in Nat /\ subsets[i] \in (SUBSET Nodes) \ {{}}
  /\ watched \subseteq senders /\ senders \subseteq Nodes
  /\ strays \in [Nodes -> Nat]
  /\ sockets \subseteq Nodes
  /\ groupings \in 0..MaxGroupings
  /\ \A call \in BagToSet(calls) : call \in Call /\ call.retry < MaxRetry * call.wanted

\* A data sender loses its contact timeout without being dropped only when its timer runs
\* out while the network has a single active validator, whatever overlaps
\* (createDataTransferConnection, the DATA handler, clearDataSenders, replaceDataSender).
AlwaysWatched ==
  [][senders' \ watched' \subseteq senders \ watched \/ Cardinality(active) < 2]_vars

\* Every data sender has its socket and every registered socket its sender, through
\* subscriptions that overlap with replacements and with clearDataSenders.
SocketPerSender == sockets = senders

\* A sender that stays in the network and sends its data in time is dropped only when
\* another sender of its subset stays, when a timer runs out that was orphaned by an
\* overlapping subscription, or when the network shuts down
\* (subscribeNodeFromThisSubset trims to the number it wants; the DATA handler postpones
\* the timeout).
Neighbours(n) == UNION {subsets[i] : i \in {j \in DOMAIN subsets : n \in subsets[j]}}

HealthyKept ==
  [][\A n \in senders \ senders' :
       Heard(n) /\ n \in listed' =>
         strays'[n] < strays[n] \/ clearing \/ (Neighbours(n))' \cap senders' # {}]_vars

\* A validator that takes subscriptions and sends nothing does not stay a data sender, unless
\* its timer ran out while the network had a single active validator (see AlwaysWatched).
SilentReplaced ==
  \A n \in Silent : []<>(n \notin senders) \/ []<>(n \in senders \ watched)

\* When the active validators stay the same and are sound, the archiver comes to the number
\* of senders it wants in each subset, and comes back to it whenever an orphaned timer drops
\* one of them (it need not stay there: as long as subscriptions overlap with cycle records,
\* each may orphan a timer again).
Settled ==
  /\ \A n \in active : \E i \in DOMAIN subsets : n \in subsets[i]
  /\ \A i \in DOMAIN subsets :
       Cardinality(subsets[i] \cap senders)
         = (IF Wanted(radius) < Cardinality(subsets[i]) THEN Wanted(radius)
                                                         ELSE Cardinality(subsets[i]))

Sound == active # {} /\ active \cap (Silent \cup Flaky) = {}

Recovers == []<>(Settled \/ ~Sound) \/ []<><<active' # active>>_vars

=============================================================================
