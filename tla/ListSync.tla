------------------------------ MODULE ListSync ------------------------------
(***************************************************************************)
(* Where an archiver's lists come from.  syncV2 of sync-v2/index.ts asks   *)
(* validators for the hash of each list and of the newest record, one      *)
(* after the other and each by a robust query, and one of the nodes that   *)
(* gave it for the content; updateNetworkTxsList asks again for the list   *)
(* of network transactions when a record says that it is wrong.  The first *)
(* archiver of a network (buildNodeListFromStoredCycle), and one without   *)
(* syncV2 (syncCyclesAndNodeList), rebuild the node lists from records.    *)
(*                                                                         *)
(* Meanwhile the network makes cycles, a validator may be a cycle behind,  *)
(* a request for content may fail, and faulty validators answer what they  *)
(* like, or not at all.  A hash stands for what it is the hash of.         *)
(***************************************************************************)
EXTENDS RobustQuery, ServiceQueue, CycleParser

CONSTANTS
  NumPeers,     \* validators that answer, 1..NumPeers
  Faulty,
  PeerLists,    \* lists of them an archiver may give: partial, in any order
  Starts,       \* "sync", "fetch" and "restore": how the archiver starts
  Patches,      \* the changes a record may hold, for each of these
  MaxRetries,   \* MAX_RETRIES of sync-v2/queries.ts
  MaxTxSyncs,   \* bound: updates of the transaction list under way
  MaxCycle,     \* bound: records of the network, for each way to start
  Junk, NoAnswer

Peers == 1..NumPeers
Correct == Peers \ Faulty
InOrder == [i \in Peers |-> i]

PatchFields ==
  {"joinedConsensors", "activated", "refreshedConsensors", "removed", "lost",
   "lostAfterSelection", "standbyAdd", "standbyRemove", "txadd", "txremove", "joinedArchivers"}

ListSyncAssumption ==
  /\ NumPeers \in Nat \ {0} /\ Faulty \subseteq Peers
  /\ PeerLists \subseteq Seq(Peers) /\ <<>> \notin PeerLists
  /\ MaxRetries \in Nat \ {0} /\ MaxTxSyncs \in Nat
  /\ \A s \in Starts : MaxCycle[s] \in Nat \ {0}
  /\ \A s \in Starts : \A patch \in Patches[s] :
       /\ DOMAIN patch = PatchFields
       /\ IsFiniteSet(patch.joinedConsensors) /\ NoId \notin patch.joinedConsensors

\* Of the nodes a query may ask fewer are faulty than must agree, and none is listed twice.
FaultAssumption ==
  \A nodes \in PeerLists \cup {InOrder} :
    IsInjective(nodes) /\ Cardinality(Faulty \cap Range(nodes)) < WinCount(nodes)

VARIABLES
  cycles,    \* the records of the network; cycles[i] has counter i - 1
  at,        \* the number of records each validator has
  start, phase,
  call,      \* queries under way: 0 for syncV2, 1..MaxTxSyncs for the transaction list
  got,       \* what syncV2 has: kind |-> [hash, content]
  chain,     \* the records read back so far
  lists, archivers, txList,
  current,   \* currentCycleCounter
  doubt      \* history: the update of the transaction list failed, since the last record

network == <<cycles, at>>
state == <<lists, archivers, txList, current>>
vars == <<network, start, phase, call, got, chain, state, doubt>>

SyncKinds == <<"validators", "archivers", "standby", "txs", "cycle">>
Slots == 0..MaxTxSyncs

-----------------------------------------------------------------------------
(* The network.                                                            *)

Nodes(validators, status) == {n \in DOMAIN validators : validators[n] = status}

\* A function with more arguments (@@ of TLC, which no prover knows).
With(f, more) ==
  [x \in DOMAIN f \cup DOMAIN more |-> IF x \in DOMAIN f THEN f[x] ELSE more[x]]

NoLists == [validators |-> <<>>, archivers |-> {}, standby |-> {}]
After(records) == IF records = <<>> THEN NoLists ELSE Last(records).after
TxsAfter(records) == IF records = <<>> THEN <<>> ELSE Last(records).listed.txs

\* The record a patch makes: its node, standby and archiver lists are those before its
\* own changes, its transaction list and the counts follow the names in the record.
NewRecord(records, patch) ==
  LET before == After(records)
      gone == patch.removed \cup patch.lostAfterSelection
      kept == (DOMAIN before.validators \cup patch.joinedConsensors) \ gone
  IN With(patch,
     [counter |-> Len(records),
      apoptosized |-> {},
      syncing |-> Cardinality(Nodes(before.validators, "syncing")),
      active |-> Cardinality(Nodes(before.validators, "active")),
      listed |-> With(before,
                      [txs |-> RemoveTxs(AddTxs(TxsAfter(records), patch.txadd), patch.txremove)]),
      after |-> [validators |-> [n \in kept |->
                                   IF n \in patch.activated THEN "active"
                                   ELSE IF n \in DOMAIN before.validators
                                     THEN before.validators[n] ELSE "syncing"],
                 archivers |-> before.archivers \cup patch.joinedArchivers,
                 standby |-> (before.standby \cup patch.standbyAdd) \ patch.standbyRemove]])

Ever(records) == UNION {records[i].joinedConsensors : i \in DOMAIN records}
EverArchivers(records) == UNION {records[i].joinedArchivers : i \in DOMAIN records}

\* An id is assigned once; what a record says of nodes is about nodes that are there.
Legal(records, patch) ==
  LET before == After(records).validators
  IN /\ patch.joinedConsensors \cap Ever(records) = {}
     /\ patch.activated \subseteq Nodes(before, "syncing") \cup patch.joinedConsensors
     /\ patch.removed \subseteq DOMAIN before
     /\ patch.lost \subseteq Nodes(before, "active")
     /\ patch.refreshedConsensors \subseteq Nodes(before, "active")
     /\ patch.lostAfterSelection \subseteq Nodes(before, "syncing") \ patch.activated

NetworkCycle ==
  /\ Len(cycles) < MaxCycle[start]
  /\ start = "sync" \/ phase = "down"
  /\ \A v \in Correct : at[v] = Len(cycles)
  /\ \E patch \in Patches[start] :
       Legal(cycles, patch) /\ cycles' = Append(cycles, NewRecord(cycles, patch))
  /\ at' = IF start = "sync" THEN at ELSE [v \in Peers |-> Len(cycles')]
  /\ UNCHANGED <<start, phase, call, got, chain, state, doubt>>

PeerAdvances(v) ==
  /\ at[v] < Len(cycles)
  /\ at' = [at EXCEPT ![v] = @ + 1]
  /\ UNCHANGED <<cycles, start, phase, call, got, chain, state, doubt>>

Content(kind, i) == IF kind = "cycle" THEN cycles[i] ELSE cycles[i].listed[kind]

\* The answer for the validator list also says when its cycle ends.
HashReply(kind, i) ==
  [hash |-> Content(kind, i), cycle |-> IF kind = "validators" THEN i ELSE 0]
ErrorReply(v) == [hash |-> NoAnswer, cycle |-> -v]

HashReplies(v, kind) ==
  IF v \in Correct THEN {HashReply(kind, at[v])}
                   ELSE {HashReply(kind, i) : i \in DOMAIN cycles}
                        \cup {ErrorReply(v), [hash |-> Junk, cycle |-> 0]}
ContentReplies(v, kind) ==
  IF v \in Correct THEN {Content(kind, at[v])}
                   ELSE {Content(kind, i) : i \in DOMAIN cycles} \cup {Junk}

-----------------------------------------------------------------------------
(* Queries.                                                                *)

NoCall == [stage |-> "idle"]
NewCall(kind, nodes) == [stage |-> "query", kind |-> kind, q |-> NewQuery(nodes)]

AskNext(s) ==
  /\ call[s].stage = "query" /\ Waits(call[s].q)
  /\ call' = [call EXCEPT ![s].q = NextRound(@)]
  /\ UNCHANGED <<network, start, phase, got, chain, state, doubt>>

\* An error is an answer: makeRobustQueryCall turns it into a value.
PeerAnswers(s) ==
  /\ call[s].stage = "query" /\ call[s].q.asked # <<>>
  /\ \E reply \in HashReplies(Head(call[s].q.asked), call[s].kind) :
       call' = [call EXCEPT ![s].q = Answered(@, reply)]
  /\ UNCHANGED <<network, start, phase, got, chain, state, doubt>>

\* A query fails: syncV2 with it, while an update of the transaction list is given up.
Fails(s) ==
  /\ phase' = IF s = 0 THEN "failed" ELSE phase
  /\ doubt' = (doubt \/ s # 0)
  /\ call' = [call EXCEPT ![s] = NoCall]
  /\ UNCHANGED <<network, start, got, chain, state>>

Robust(q) == HighestCount(q.items) >= q.winCount

\* makeRobustQueryCall, when the query is over.
QueryEnds(s) ==
  /\ call[s].stage = "query" /\ call[s].q.over
  /\ LET item == HighestItem(call[s].q.items)
     IN IF Robust(call[s].q) /\ item.value.hash # NoAnswer
          THEN /\ call' = [call EXCEPT ![s] =
                             [stage |-> "fetch", kind |-> @.kind, hash |-> item.value.hash,
                              node |-> Head(item.nodes), attempts |-> 0]]
               /\ UNCHANGED <<network, start, phase, got, chain, state, doubt>>
          ELSE Fails(s)

\* attemptSimpleFetch: the same node is asked again.
FetchFails(s) ==
  /\ call[s].stage = "fetch"
  /\ IF call[s].attempts + 1 < MaxRetries
       THEN /\ call' = [call EXCEPT ![s].attempts = @ + 1]
            /\ UNCHANGED <<network, start, phase, got, chain, state, doubt>>
       ELSE Fails(s)

\* verify.ts, as index.ts calls it: the standby list is not compared with its hash.
Verified(kind, content, hash) == kind = "standby" \/ content = hash

KindAfter(kind) == SyncKinds[1 + CHOOSE i \in DOMAIN SyncKinds : SyncKinds[i] = kind]

Keys(validators, status) == Keyed(Nodes(validators, status))

\* Wrong on purpose: the record is stored with whatever lists there are.
MatchesUncompared(record, lists0) == TRUE

\* The lists are those of the record: syncV2 compares their hashes.
Matches(record, lists0) ==
  \A kind \in {"validators", "standby", "archivers"} :
    record.listed[kind] = lists0[kind].hash

SyncedLists(lists0) ==
  LET syncing == addSyncingNodes(lists, Keys(lists0["validators"].content, "syncing"))
      active == addActiveNodes(syncing, Keys(lists0["validators"].content, "active"))
  IN IF lists0["standby"].content = Junk
       THEN active
       ELSE addStandbyNodes(active, lists0["standby"].content)

\* syncV2 with its last answer.
Synced(lists0) ==
  IF Matches(lists0["cycle"].content, lists0)
    THEN /\ lists' = SyncedLists(lists0)
         /\ txList' = lists0["txs"].content
         /\ archivers' = lists0["archivers"].content
         /\ phase' = "synced"
         /\ UNCHANGED current
    ELSE phase' = "failed" /\ UNCHANGED state

\* The content arrives.
FetchEnds(s) ==
  /\ call[s].stage = "fetch"
  /\ \E content \in ContentReplies(call[s].node, call[s].kind) :
       IF ~Verified(call[s].kind, content, call[s].hash)
         THEN Fails(s)
         ELSE /\ \/ /\ s # 0
                    /\ txList' = content
                    /\ call' = [call EXCEPT ![s] = NoCall]
                    /\ UNCHANGED <<phase, got, lists, archivers, current>>
                 \/ /\ s = 0
                    /\ got' = With([k \in {call[s].kind} |->
                                      [hash |-> call[s].hash, content |-> content]], got)
                    /\ IF call[s].kind = "cycle"
                         THEN Synced(got') /\ call' = [call EXCEPT ![s] = NoCall]
                         ELSE /\ \E peers \in PeerLists :
                                   call' = [call EXCEPT ![s] = NewCall(KindAfter(@.kind), peers)]
                              /\ UNCHANGED <<phase, state>>
              /\ UNCHANGED <<network, start, chain, doubt>>

\* getActiveListFromSomeArchiver.
SyncBegins ==
  /\ start = "sync" /\ phase = "down"
  /\ \/ /\ \E peers \in PeerLists : call' = [call EXCEPT ![0] = NewCall("validators", peers)]
        /\ phase' = "syncing"
     \/ phase' = "failed" /\ UNCHANGED call
  /\ UNCHANGED <<network, start, got, chain, state, doubt>>

-----------------------------------------------------------------------------
(* Records.                                                                *)

\* Wrong on purpose: takes the list after a record for right, whatever its hash.
UpdateNetworkTxsUnchecked(record) ==
  /\ txList' = RemoveTxs(AddTxs(txList, record.txadd), record.txremove)
  /\ UNCHANGED call

\* updateNetworkTxsList up to its await.
UpdateNetworkTxs(record) ==
  /\ txList' = RemoveTxs(AddTxs(txList, record.txadd), record.txremove)
  /\ IF txList' = record.listed.txs
       THEN UNCHANGED call
       ELSE \E s \in Slots \ {0} :
              call[s].stage = "idle" /\ call' = [call EXCEPT ![s] = NewCall("txs", InOrder)]

\* processCycles, as far as the lists are concerned.
ProcessRecord(record) ==
  /\ lists' = updateNodeList(lists, [record EXCEPT
                !.joinedConsensors = Keyed(@), !.refreshedConsensors = Keyed(@)])
  /\ archivers' = archivers \cup record.joinedArchivers
  /\ UpdateNetworkTxs(record)
  /\ current' = record.counter
  /\ doubt' = FALSE
  /\ UNCHANGED <<network, start, got, chain>>

\* syncCyclesAndNodeListV2, once it has the consensus radius.
ProcessSynced ==
  /\ phase = "synced"
  /\ ProcessRecord(got["cycle"].content)
  /\ phase' = "up"

\* A record from a data sender, or a later one when one was missed.
ReceiveRecord ==
  /\ phase = "up" /\ start = "sync"
  /\ \E i \in DOMAIN cycles : cycles[i].counter > current /\ ProcessRecord(cycles[i])
  /\ UNCHANGED phase

-----------------------------------------------------------------------------
(* Node lists from records.                                                *)

Sqrt(n) == CHOOSE r \in 0..n : r * r <= n /\ (r + 1) * (r + 1) > n

Newest == Last(cycles)
CyclesToGet == 2 * Sqrt(Newest.active) + 2

NoChain == [oldest |-> 0, page |-> <<>>, squasher |-> EmptySquasher]

RestoreBegins ==
  /\ start # "sync" /\ phase = "down"
  /\ phase' = "reading"
  /\ chain' = [oldest |-> Newest.counter, page |-> <<>>,
               squasher |-> addChange(EmptySquasher, parse(Newest))]
  /\ UNCHANGED <<network, start, call, got, state, doubt>>

\* The records before the oldest one, newest first; record 0 once more at the end.
PageBefore(oldest) ==
  LET end == IF oldest = 0 THEN 0 ELSE oldest - 1
      first == IF end < CyclesToGet THEN 0 ELSE end - CyclesToGet
  IN [i \in 1..(end - first + 1) |-> end - i + 1]

\* Stored records are all there.  Those of an archiver may be wrong from some record on,
\* or not come, and record 0 does not precede itself.
ReadPage ==
  /\ phase = "reading" /\ chain.page = <<>>
  /\ LET page == PageBefore(chain.oldest)
     IN \E n \in IF start = "restore" THEN {Len(page)}
                 ELSE IF chain.oldest = 0 THEN {0} ELSE 0..Len(page) :
          IF n = 0
            THEN phase' = "failed" /\ UNCHANGED chain
            ELSE phase' = phase /\ chain' = [chain EXCEPT !.page = SubSeq(page, 1, n)]
  /\ UNCHANGED <<network, start, call, got, state, doubt>>

ReadRecord ==
  /\ phase = "reading" /\ chain.page # <<>>
  /\ LET counter == Head(chain.page)
         squasher == addChange(chain.squasher, parse(cycles[counter + 1]))
     IN /\ chain' = [oldest |-> counter, page |-> Tail(chain.page), squasher |-> squasher]
        /\ IF Complete(squasher, Newest)
             THEN /\ lists' = applyNodeListChange(lists, squasher)
                  /\ current' = Newest.counter
                  /\ phase' = "restored"
             ELSE UNCHANGED <<lists, current, phase>>
  /\ UNCHANGED <<network, start, call, got, archivers, txList, doubt>>

-----------------------------------------------------------------------------
Init ==
  /\ start \in Starts
  /\ \E patch \in Patches[start] : Legal(<<>>, patch) /\ cycles = <<NewRecord(<<>>, patch)>>
  /\ at = [v \in Peers |-> 1]
  /\ phase = "down"
  /\ call = [s \in Slots |-> NoCall]
  /\ got = <<>>
  /\ chain = NoChain
  /\ lists = EmptyLists /\ archivers = {} /\ txList = <<>>
  /\ current = -1
  /\ doubt = FALSE

Archiver ==
  \/ SyncBegins \/ ProcessSynced \/ ReceiveRecord
  \/ RestoreBegins \/ ReadPage \/ ReadRecord
  \/ \E s \in Slots : AskNext(s) \/ PeerAnswers(s) \/ QueryEnds(s) \/ FetchFails(s) \/ FetchEnds(s)

Next == NetworkCycle \/ (\E v \in Correct : PeerAdvances(v)) \/ Archiver

Spec == Init /\ [][Next]_vars

-----------------------------------------------------------------------------
(* Properties.                                                             *)

\* Types of the variables: the lists name nodes and archivers that have joined, and a query
\* under way has asked only nodes of the network.
TypeOK ==
  /\ phase \in {"down", "syncing", "synced", "up", "reading", "restored", "failed"}
  /\ at \in [Peers -> 1..MaxCycle[start]]
  /\ lists.syncing \cup lists.active \subseteq Ever(cycles)
  /\ archivers \subseteq EverArchivers(cycles)
  /\ \A s \in Slots : call[s].stage = "query" =>
       /\ Range(call[s].q.left) \cup Range(call[s].q.asked) \subseteq Peers
       /\ call[s].q.tries \in 0..MaxTries
  /\ DOMAIN got \subseteq Range(SyncKinds)
  /\ current \in -1..MaxCycle[start]
  /\ doubt \in BOOLEAN

\* What a faulty node could have made up or an old answer mixed: the record that syncV2
\* starts from is a record of the network, the validators and archivers it lists are those
\* of that very record, and its network transactions those of some record.  (The types of
\* the state are its first conjunct.)
ListsOfRecord ==
  /\ TypeOK
  /\ phase = "synced" =>
       LET record == got["cycle"].content
       IN /\ record \in Range(cycles)
          /\ lists.syncing = Nodes(record.listed.validators, "syncing")
          /\ lists.active = Nodes(record.listed.validators, "active")
          /\ archivers = record.listed.archivers
          /\ \E i \in DOMAIN cycles : txList = cycles[i].listed.txs

\* Once no update of it is under way and none failed, the list of network transactions
\* is one the network has had: entries that were listed twice, missed with a record or
\* sent by a faulty node do not stay.
TxListGenuine ==
  (phase = "up" /\ ~doubt /\ \A s \in Slots : call[s].stage = "idle") =>
    \E i \in DOMAIN cycles : txList = cycles[i].listed.txs

\* The node lists rebuilt from records are those the network had after the newest of
\* them, and they are found before the records run out (record 0 would be read again
\* and again), unless a node was lost after its selection: parseRecord does not count
\* it as removed.
RestoredLists ==
  (\A i \in DOMAIN cycles : cycles[i].lostAfterSelection = {}) =>
    /\ phase = "restored" =>
         /\ lists.syncing = Nodes(Newest.after.validators, "syncing")
         /\ lists.active = Nodes(Newest.after.validators, "active")
    /\ (phase = "reading" /\ chain.page = <<>> /\ chain.oldest = 0) => Len(cycles) = 1
=============================================================================
