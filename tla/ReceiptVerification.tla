------------------------ MODULE ReceiptVerification ------------------------
(***************************************************************************)
(* How an archiver decides whether a receipt is backed by the nodes that   *)
(* executed its transaction: the shard data it computes for each cycle     *)
(* from its node list and keeps for some cycles (Data/Cycles.ts), and the  *)
(* verification of a receipt against it (Data/Collector.ts), which reads   *)
(* the shard data, awaits the database and may read it again.              *)
(*                                                                         *)
(* A hash is the data it is taken of, and a signature the data it signs:   *)
(* the signatures of a receipt are all of one vote, each with the offset   *)
(* of its time.  Receipts come from validators, or from another archiver   *)
(* that stored them (collectMissingReceipts).  The checks of the app       *)
(* receipt data and of earlier receipts of a transaction are in            *)
(* ReceiptCollection; the shape of a receipt (AJV) is left out, and so are *)
(* the queries to validators made with newPOQReceipt, which is off.        *)
(***************************************************************************)
EXTENDS ShardFunctions, SequencesExt

CONSTANTS
  Nodes,             \* ids of nodes; a node's public key stands and falls with it
  FirstNodes,        \* active nodes when the archiver processes its first cycle
  GroupSizes,        \* nodesPerConsensusGroup in the network's configuration
  Edges,             \* nodesPerEdge
  Keys,              \* addresses: executionShardKey
  Receipts,          \* receipts of validators, of any cycle and executionShardKey
  ShardDataKept,     \* maxCyclesShardDataToKeep, 10
  VotesNeeded,       \* requiredVotesPercentage, 2/3, as [num, den]
  MajorityNeeded,    \* requiredMajorityVotesPercentage, 2/3, as [num, den]
  MaxCycle           \* bound

\* calculateShardGlobals throws for a group of one node.  With more nodes than the assumption
\* allows, 92681 for addresses of 32 bits, rounding can put an address behind the partitions.
ASSUME NodesAssumption ==
  /\ Nodes \subseteq Nat /\ IsFiniteSet(Nodes)
  /\ Cardinality(Nodes) * Cardinality(Nodes) <= 2 * AddressSpace
  /\ FirstNodes \subseteq SUBSET Nodes
  /\ GroupSizes \subseteq Nat \ {0, 1} /\ Edges \subseteq Nat
  /\ Keys \subseteq 0..(AddressSpace - 1)
  /\ ShardDataKept \in Nat /\ MaxCycle \in Nat \ {0}

ASSUME VotesAssumption ==
  /\ VotesNeeded.num \in Nat \ {0} /\ VotesNeeded.den \in Nat \ {0}
  /\ MajorityNeeded.num \in Nat \ {0} /\ MajorityNeeded.den \in Nat \ {0}

ASSUME ReceiptsAssumption ==
  \A r \in Receipts :
    /\ DOMAIN r = {"type", "cycle", "key", "signers", "signedOffsets", "voteOffsets", "vote",
                   "proposal", "tx", "beforeStates", "afterStates"}
    /\ r.signers \in Seq(Nat)

VARIABLES
  config,          \* the sizes of groups and edges
  cycle,           \* the latest cycle processed
  active,          \* NodeList.activeListByIdSorted
  shardValues,     \* shardValuesByCycle
  call,            \* the verification under way
  result,          \* what the last one came to
  cleanups         \* cycles whose processing has not cleaned the shard data yet

networkVars == <<config, cycle, active, shardValues, cleanups>>
vars == <<networkVars, call, result>>

NoCall == [pc |-> "idle"]
NoResult == [over |-> FALSE]

-----------------------------------------------------------------------------
(* updateShardValues *)

Globals(n) == ShardGlobals(n, config.group, config.edge)

\* The place of a node in a list sorted by id: its home partition.
IndexIn(nodes, node) == Cardinality({other \in nodes : other < node})

\* The shard data of a cycle.  `members` are the keys of nodeShardDataMap; `nodes` is the
\* node list itself and not a copy, while it is `live`.
ShardData(nodes) ==
  [globals |-> Globals(Cardinality(nodes)),
   members |-> nodes,
   coveredBy |-> [p \in 0..(Cardinality(nodes) - 1) |->
                    {node \in nodes :
                       IndexIn(nodes, node) \in CoveredBy(Globals(Cardinality(nodes)), p)}],
   nodes |-> nodes,
   live |-> TRUE]

\* An activation enters the live array in place; a removal makes a new one.
Relisted(values, activated, removed) ==
  [c \in DOMAIN values |->
     IF values[c].live
       THEN [values[c] EXCEPT !.nodes = @ \cup activated, !.live = removed = {}]
       ELSE values[c]]

\* cleanShardCycleData.
Cleaned(values, counter) ==
  [c \in {d \in DOMAIN values : d >= counter - ShardDataKept} |-> values[c]]

UpdateShardValues(activated, removed) ==
  LET nodes == (active \cup activated) \ removed
      kept == Relisted(shardValues, activated, removed)
      counter == cycle + 1
  IN shardValues' = [c \in DOMAIN kept \cup (IF nodes = {} THEN {} ELSE {counter}) |->
                       IF c = counter THEN ShardData(nodes) ELSE kept[c]]

\* processCycles up to its first await, as far as verification depends on it: at most one
\* node becomes active and one leaves in a cycle.
ProcessCycle ==
  /\ cycle < MaxCycle
  /\ ~result.over
  /\ \E activated \in {{}} \cup {{node} : node \in Nodes \ active},
        removed \in {{}} \cup {{node} : node \in active} :
       /\ active' = (active \cup activated) \ removed
       /\ UpdateShardValues(activated, removed)
  /\ cycle' = cycle + 1
  /\ cleanups' = cleanups \cup {cycle + 1}
  /\ UNCHANGED <<config, call, result>>

\* The end of processCycles: calls for other cycles may have started meanwhile.
Clean ==
  /\ ~result.over
  /\ \E counter \in cleanups :
       /\ shardValues' = Cleaned(shardValues, counter)
       /\ cleanups' = cleanups \ {counter}
  /\ UNCHANGED <<config, cycle, active, call, result>>

-----------------------------------------------------------------------------
(* Counting signatures *)

SetMin(a, b) == IF a < b THEN a ELSE b

VotingGroupCount(data) ==
  SetMin(data.globals.nodesPerConsenusGroup, Cardinality(data.nodes))

\* Math.ceil(votingGroupCount * requiredVotesPercentage), with usePOQo.
RequiredSignatures(data) ==
  (VotingGroupCount(data) * VotesNeeded.num + VotesNeeded.den - 1) \div VotesNeeded.den

Owners(receipt) == {receipt.signers[i] : i \in DOMAIN receipt.signers}

ExecutionGroup(data, receipt) ==
  data.coveredBy[AddressToPartition(data.globals, receipt.key)]

\* Wrong on purpose: counts signers of any group.
UniqueSignersAnywhere(data, receipt) == Cardinality(Owners(receipt) \cap data.nodes)

UniqueSigners(data, receipt) ==
  Cardinality(Owners(receipt) \cap data.nodes \cap ExecutionGroup(data, receipt))

\* (count / votingGroupCount) * 100 >= requiredMajorityVotesPercentage.
Majority(count, data) ==
  count * 100 * MajorityNeeded.den >= MajorityNeeded.num * VotingGroupCount(data)

\* Wrong on purpose: asks for one signature more.
BackedByAllButOne(data, receipt) ==
  /\ Len(receipt.signers) >= RequiredSignatures(data)
  /\ UniqueSigners(data, receipt) > RequiredSignatures(data)

BackedByVotes(data, receipt) ==
  /\ Len(receipt.signers) >= RequiredSignatures(data)
  /\ UniqueSigners(data, receipt) >= RequiredSignatures(data)

\* verifyGlobalTxreceiptOffline.
BackedByMajority(data, receipt) ==
  /\ Majority(Len(receipt.signers), data)
  /\ Majority(UniqueSigners(data, receipt), data)

GlobalRequired(data) ==
  (VotingGroupCount(data) * MajorityNeeded.num) \div (MajorityNeeded.den * 100)

\* calculateVoteHash: the whole proposal.
VoteHash(receipt) == receipt.proposal

\* The signers whose signature verifies together with the offset in its place.
SignersOfVote(receipt) ==
  IF receipt.vote = VoteHash(receipt)
    THEN {receipt.signers[i] : i \in {j \in DOMAIN receipt.signers :
                                        receipt.voteOffsets[j] = receipt.signedOffsets[j]}}
    ELSE {}

\* verifyAppliedReceiptSignatures: the signatures of a receipt are those of its signers on
\* one vote, or on one transaction.  Only those of a global receipt are matched with the
\* execution group again.
GoodSignatures(receipt) == Cardinality(SignersOfVote(receipt))

-----------------------------------------------------------------------------
(* verifyAccountHash: the accounts a receipt brings *)

AccountsAsVoted(receipt) ==
  LET voted == receipt.proposal
  IN /\ Len(voted.accountIDs) = Len(voted.afterStateHashes)
     /\ Len(voted.beforeStateHashes) = Len(voted.afterStateHashes)
     /\ \A i \in DOMAIN voted.accountIDs :
          /\ voted.accountIDs[i] \in DOMAIN receipt.afterStates
          /\ receipt.afterStates[voted.accountIDs[i]] = voted.afterStateHashes[i]

\* The account after the change of a global transaction.
Changed(account, tx) ==
  [listOfChanges |-> Append(account.listOfChanges, tx.change), timestamp |-> tx.when]

\* verifyGlobalTxAccountChange.
ChangesAnAccount(tx) == tx.type \in {"ApplyChangeConfig", "ApplyNetworkParam"}

StartsFromRightState(receipt) ==
  receipt.tx.addressHash # <<>> =>
    \A id \in DOMAIN receipt.beforeStates :
      id = receipt.tx.address /\ <<receipt.beforeStates[id]>> = receipt.tx.addressHash

EndsInRightState(receipt) ==
  \A id \in DOMAIN receipt.afterStates :
    /\ id = receipt.tx.address
    /\ id \in DOMAIN receipt.beforeStates
    /\ Changed(receipt.beforeStates[id], receipt.tx) = receipt.afterStates[id]

GlobalAccountChange(receipt) ==
  \/ receipt.tx.type = "InitNetwork"
  \/ /\ ChangesAnAccount(receipt.tx)
     /\ StartsFromRightState(receipt)
     /\ EndsInRightState(receipt)

\* The check of the change makes it on the state before, in the receipt itself.
AfterCheck(receipt) ==
  IF receipt.type = "global" /\ ChangesAnAccount(receipt.tx)
    THEN [receipt EXCEPT !.beforeStates =
            [id \in DOMAIN @ |-> IF id \in DOMAIN receipt.afterStates
                                   THEN Changed(@[id], receipt.tx) ELSE @[id]]]
    ELSE receipt

\* What is written of a receipt: its offsets have been sorted in place.  (JavaScript
\* compares them as strings, which is the same for offsets of one digit.)
AsSaved(receipt) ==
  IF receipt.type = "normal" THEN [receipt EXCEPT !.voteOffsets = SortSeq(@, <)]
  ELSE AfterCheck(receipt)

-----------------------------------------------------------------------------
(* The verification of a receipt *)

Refused(receipt) ==
  result' = [over |-> TRUE, accepted |-> FALSE, receipt |-> receipt, saved |-> receipt]

\* verifyReceiptData, which answers at once.
VerifyReceiptData(receipt) ==
  LET data == shardValues[receipt.cycle]
  IN IF receipt.cycle \notin DOMAIN shardValues
       THEN Refused(receipt) /\ call' = NoCall
     ELSE IF receipt.type = "global" /\ BackedByMajority(data, receipt)
       THEN /\ call' = [pc |-> "archiver", receipt |-> receipt,
                        requiredSignatures |-> GlobalRequired(data)]
            /\ result' = NoResult
     ELSE IF receipt.type = "normal" /\ BackedByVotes(data, receipt)
       THEN /\ call' = [pc |-> "archiver", receipt |-> receipt,
                        requiredSignatures |-> RequiredSignatures(data)]
            /\ result' = NoResult
     ELSE Refused(receipt) /\ call' = NoCall

\* A receipt is sent by a validator, or fetched from an archiver that accepted it.
Copies(r) ==
  LET storable == IF r.type = "normal" THEN AccountsAsVoted(r) ELSE GlobalAccountChange(r)
  IN IF storable THEN {r, AsSaved(r)} ELSE {r}

\* It is of a cycle already processed or of the next one.
Deliver ==
  /\ call = NoCall
  /\ ~result.over
  /\ \E key \in Keys, c \in 1..(cycle + 1) :
       \E r \in UNION {Copies(s) : s \in Receipts} :
         VerifyReceiptData([r EXCEPT !.key = key, !.cycle = c])
  /\ UNCHANGED networkVars

\* A global receipt is matched with the shard data again, which may be gone: the exception
\* is caught and the receipt refused.
GoodGlobalSignatures(receipt) ==
  LET data == shardValues[receipt.cycle]
  IN Cardinality(IF receipt.vote = VoteHash(receipt)
                   THEN Owners(receipt) \cap data.nodes \cap ExecutionGroup(data, receipt)
                   ELSE {})

\* verifyArchiverReceipt after the database answered.
VerifyArchiverReceipt ==
  /\ call.pc = "archiver"
  /\ LET receipt == call.receipt
         verified ==
           \/ /\ receipt.type = "normal"
              /\ AccountsAsVoted(receipt)
              /\ GoodSignatures(receipt) >= call.requiredSignatures
           \/ /\ receipt.type = "global"
              /\ GlobalAccountChange(receipt)
              /\ receipt.cycle \in DOMAIN shardValues
              /\ GoodGlobalSignatures(receipt) >= call.requiredSignatures
     IN result' = [over |-> TRUE, accepted |-> verified, receipt |-> receipt,
                   saved |-> AsSaved(receipt)]
  /\ call' = NoCall
  /\ UNCHANGED networkVars

\* storeReceiptData takes up the result before anything else runs.
TakeUp ==
  /\ result.over
  /\ result' = NoResult
  /\ UNCHANGED <<networkVars, call>>

Init ==
  /\ config \in [group : GroupSizes, edge : Edges]
  /\ cycle = 1
  /\ active \in FirstNodes
  /\ shardValues = [c \in (IF active = {} THEN {} ELSE {1}) |-> ShardData(active)]
  /\ call = NoCall
  /\ result = NoResult
  /\ cleanups = {}

Next == ProcessCycle \/ Clean \/ Deliver \/ VerifyArchiverReceipt \/ TakeUp

Spec == Init /\ [][Next]_vars

-----------------------------------------------------------------------------
(* What verification relies on, and what it promises *)

Data == [globals : {Globals(n) : n \in 1..Cardinality(Nodes)},
         members : (SUBSET Nodes) \ {{}}, nodes : SUBSET Nodes, live : BOOLEAN]

\* Every partition of the cycle has a group, and the group has members of the cycle.
TypeOK ==
  /\ config \in [group : GroupSizes, edge : Edges]
  /\ cycle \in 1..MaxCycle
  /\ active \subseteq Nodes
  /\ cleanups \subseteq 1..cycle
  /\ DOMAIN shardValues \subseteq 1..cycle
  /\ cleanups = {} => DOMAIN shardValues \subseteq (cycle - ShardDataKept)..cycle
  /\ \A c \in DOMAIN shardValues :
       /\ [x \in {"globals", "members", "nodes", "live"} |-> shardValues[c][x]] \in Data
       /\ shardValues[c].coveredBy \in
            [Partitions(shardValues[c].globals) -> (SUBSET shardValues[c].members) \ {{}}]
  /\ call = NoCall \/ call.requiredSignatures \in Nat
  /\ result.over \in BOOLEAN

Home(data, key) == AddressToPartition(data.globals, key)

\* The nodes meant to execute the transactions of a partition: those around it, or all of
\* them where the scan starts inside their range.
IntendedGroup(data, partition) ==
  {node \in data.members :
     \/ ScanStartsInside(data.globals)
     \/ IndexIn(data.members, node) \in
          Within(data.globals, partition, data.globals.consensusRadius)}

\* The shard data of a cycle says of every address which nodes execute its transactions,
\* counted from the nodes active in that cycle, however the list changed since
\* (updateShardValues is called after updateNodeList, and Collector.ts reads coveredBy).
\* (The types of the state are its first conjunct.)
ExecutionGroups ==
  /\ TypeOK
  /\ active # {} => cycle \in DOMAIN shardValues /\ shardValues[cycle].members = active
  /\ \A c \in DOMAIN shardValues :
       /\ \A key \in Keys : Home(shardValues[c], key) \in Partitions(shardValues[c].globals)
       /\ \A p \in Partitions(shardValues[c].globals) :
            shardValues[c].coveredBy[p] = IntendedGroup(shardValues[c], p)

\* Two thirds of a group that has as many nodes as the cycle had, or fewer.
Quorum(data, receipt) ==
  LET group == SetMin(data.globals.nodesPerConsenusGroup, Cardinality(data.members))
      backers == Owners(receipt) \cap IntendedGroup(data, Home(data, receipt.key))
  IN VotesNeeded.den * Cardinality(backers) >= VotesNeeded.num * group

\* A receipt that is accepted is backed by a quorum of the nodes that executed its
\* transaction in its cycle, who voted for the states that will be stored, even if nodes
\* were activated or removed, or shard data were cleaned, while it was verified.
AcceptedBacked ==
  LET receipt == result.receipt
  IN result.over /\ result.accepted /\ receipt.type = "normal" =>
       /\ receipt.cycle \in DOMAIN shardValues => Quorum(shardValues[receipt.cycle], receipt)
       /\ receipt.vote = VoteHash(receipt)
       /\ \A i \in DOMAIN receipt.vote.accountIDs :
            LET id == receipt.vote.accountIDs[i]
            IN id \in DOMAIN result.saved.afterStates
               /\ result.saved.afterStates[id] = receipt.vote.afterStateHashes[i]

\* The node list of a past cycle is the live one, and later activations enter it: in a
\* network smaller than a group, more signatures are then needed.
Outgrown(data) ==
  data.nodes # data.members
  /\ Cardinality(data.members) < data.globals.nodesPerConsenusGroup

Genuine(receipt, data) ==
  /\ receipt.vote = VoteHash(receipt)
  /\ \/ /\ receipt.type = "normal"
        /\ AccountsAsVoted(receipt)
        /\ Quorum(data, receipt)
     \/ /\ receipt.type = "global"
        /\ GlobalAccountChange(receipt)
        /\ LET executors == IntendedGroup(data, Home(data, receipt.key))
           IN Majority(Cardinality(Owners(receipt) \cap executors), data)

\* The archiver it was fetched from sorted its offsets, which are no longer in the order of
\* its signatures.
Resorted(receipt) == receipt.voteOffsets # receipt.signedOffsets

\* A receipt backed by a quorum is accepted while its cycle's shard data are kept, unless
\* that cycle's list has outgrown it, or it comes from an archiver that sorted its offsets
\* (or, with a global change, made the change on the state before: it is not genuine then).
GenuineAccepted ==
  LET receipt == result.receipt
  IN result.over /\ ~result.accepted =>
       \/ receipt.cycle \notin DOMAIN shardValues
       \/ Outgrown(shardValues[receipt.cycle])
       \/ Resorted(receipt)
       \/ ~Genuine(receipt, shardValues[receipt.cycle])

=============================================================================
