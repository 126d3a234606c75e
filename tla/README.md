# A TLA+ model of the Shardus archive server

Archivers follow a Shardus network and keep its history: cycle records, receipts,
accounts and transactions. Validators push this data to them, archivers gossip it among
themselves, and a network that was shut down is started again from what an archiver
stored. This directory holds TLA+ modules for the parts of the program (paths are those
under `src/src/`) whose correctness depends on order, overlap and failure, TLC
configurations that check them on small instances, and proofs for every value of the
constants. `PROJECT.json` is the index: components, runs, the source lines of each
definition, hazards, findings, mutants and theorems.

Contents: [inventory](#1-inventory), [modules](#2-the-modules),
[runs](#3-the-runs), [what the code does not do](#4-what-the-code-says-and-does-not-do),
[proofs](#5-the-proofs), [what is not modelled](#6-what-is-not-modelled),
[plan](#7-plan), [how to run](#8-how-to-run).

## 1. Inventory

The archiver is one Node.js process (transaction digests are computed by a second one).
Handlers run to their next `await` without interruption; between two awaits of a
handler any other handler may run. Most handlers are started without being awaited, so
the concurrency that matters is *a function overlapping with itself*.

```
 validators --push--> Data.ts sockets --> collectCycleData --> processCycles --> NodeList
     |                      |                                      |   |-> cycles cache
     |                      +--> storeReceiptData ----> SQLite <---+   |-> global account
     |                      +--> storeOriginalTxData -->  ^            |-> senders, State
 archivers --gossip--> processGossipData --fetch----------+            +-> first node slot
                                                          |
 txDigester process ---------- reads processedTxs --------+
```

| Component | State | Operations | What is hard | What makes it correct |
|---|---|---|---|---|
| Cycle collection and processing (`Data/Data.ts`, `Data/Collector.ts`, `Data/Cycles.ts`, `dbstore/cycles.ts`) | tracker of received records, current counter, network mode, cycles table | `collectCycleData`, `processCycles`, `changeNetworkMode`, `storeCycleData` | `processCycles` is not awaited; forks; late records; thresholds that depend on node lists; failing inserts | one record per counter, applied in ascending order; every applied record is written or its write failed; a counter is handed over once |
| Cycle records cache (`cache/cycleRecordsCache.ts`) | newest records, a flag | `addCyclesToCache`, `updateCacheFromDB`, reader | the fill from the database overlaps with additions | one loader |
| Network restart (`API.ts` POST /nodelist, `Data/Cycles.ts`) | `foundFirstNode`, shutdown record | first node, shutdown block, mode changes | two sleeps of up to a cycle; a toggled flag | one first node per life of the network; it restarts from the record that shut the network down |
| Node lists (`NodeList.ts`) | six lists and maps that share node objects | add, refresh, set status, remove, clear | ids assigned in place; one record carries many changes | the lists are the network's; every map agrees with the others |
| Startup and synchronisation (`server.ts`, `Data/Data.ts`, `sync-v2/`, `Data/CycleParser.ts`) | lists and database at start | `syncV2`, `syncCyclesAndNodeList`, `ChangeSquasher`, downloads, comparison with other archivers | downloading while live data arrives; squashing newest first | lists of one record of the network; nothing that was there is left out; every loop ends |
| Receipts, accounts, original transactions (`Data/Collector.ts`, `dbstore/`) | maps of processed, validating, missing, collecting; tables | `storeReceiptData`, `storeOriginalTxData`, `storeAccountData`, cleaning | overlapping batches; decisions on rows read long before they are replaced; buckets written at different times; refused inserts | one validation at a time; receipts before processed transactions; nothing stuck in a map; a row that was seen is only superseded by a better one |
| Receipt verification (`Data/Collector.ts`, `Data/Cycles.ts`, `shardeum/`, `services/`) | shard data of the last cycles | signatures, hashes, `verifyAppReceiptData` | node lists and shard data that change meanwhile; receipts stored otherwise than they were verified | what is accepted is backed by a quorum of its executors, what is backed is accepted |
| Gossip between archivers (`Data/GossipData.ts`, `Data/Collector.ts`) | adjacent archivers, announcements | `processGossipData`, `collectMissing...`, `sendDataToAdjacentArchivers` | early return that leaves the ring stale; fetch racing a push | announcements reach every archiver; a fetch ends |
| Active archivers and reputation (`State.ts`, `Data/Cycles.ts`) | `activeArchivers`, by-key map, reputation | add, remove, reset, random choice | attributing answers by index | list, map and sorted list agree |
| Lost archivers (`LostArchivers.ts`) | records with timers | `handleLostArchivers`, refutes, cancels | rescheduling | a refute stops when the record says so |
| Data senders and subscription (`Data/Data.ts`) | `dataSenders`, sockets, timers | subscribe, replace, clear, check per cycle | timeouts racing data; un-awaited subscriptions | one sender per subset; a silent sender is replaced |
| Joining and leaving (`Data/Data.ts`, `P2P.ts`, `State.ts`) | `isActive`, join status | join, check, leave | timers against records | eventually joined; leaves once |
| Network transaction list (`ServiceQueue.ts`, `Data/Cycles.ts`) | sorted list of network transactions | add, remove, repair by `syncTxList` | repair is awaited while records change the list | list hash equals the record's |
| Global network account (`GlobalAccount.ts`) | cached account, queue of changes | `updateGlobalNetworkAccount`, setters | copy, write, then set | no change is lost |
| Genesis accounts (`Data/Collector.ts`) | `storingAccountData`, combined accounts | `storeAccountData` | a flag set before an early return | every account is stored |
| Serving accounts to validators (`Data/AccountDataProvider.ts`) | serving validators | request, registration, interval | limit and eviction | limit holds; idle ones leave |
| Transaction digests (`txDigester/`) | last digest, digests table | cron task, `processAndInsertTxDigests` | overlapping runs; insert not awaited; reads what another process writes | digests form a chain without gaps |
| Data log writer (`Data/DataLogWriter.ts`) | queue, streams, counters | write, rotate, recover | rotation in a batch; retry from the start of a batch | each entry once, in order |
| Shard functions (`ShardFunctions.ts`) | none | partitions, ranges | wrap-around; the order of a scan | every address has the executors it is meant to have |
| Allowed archivers, tickets (`shardeum/allowedArchiversManager.ts`, `services/ticketVerification.ts`) | allowed list, config | signature counting, replacement | counter of configuration | only properly signed lists replace |
| Robust queries (`Utils.ts`, `sync-v2/queries.ts`) | none | tally | retries | an answer has its redundancy |
| Database layer, read API, configuration, logging, profiling, statistics, scripts, legacy snapshot | — | — | — | see [section 6](#6-what-is-not-modelled) |

How they interact, as far as the models need it:

* `collectCycleData` reads the node lists (who may send, how many confirmations are
  needed) that `processCycles` changes with each record it is handed.
* `processCycles` applies a record to node lists, mode and cache up to its first
  `await`, then writes to SQLite, updates the global account and, if the network is in
  mode `shutdown` *by then*, sleeps and clears the node lists and data senders.
* POST /nodelist of the first archiver reads the shutdown record and the node lists,
  and sets `foundFirstNode`, which the shutdown block toggles back.
* `storeReceiptData` is called by sockets, by fetches that gossip starts, and at
  startup; `processCycles` cleans its maps once per cycle.
* `txDigester` reads the table of processed transactions the receipts code writes.

## 2. The modules

| Module | Lines | What it is |
|---|---|---|
| `CycleArchive` | 51 | abstract specification: records are accepted in ascending order and written later, or fail |
| `CycleProcessing` | 433 | collection, processing, cache, restart; `ArchiveSpec` is the refinement |
| `MCCycleProcessing` | 30 | two chains of records: fork, restart |
| `CycleProcessingProofs` | 2441 | type correctness, safety, refinement, restarts; the cycles of `DataSync` |
| `NodeList` | 152 | the node lists and their operations, as operators from lists to lists |
| `NodeListTracking` | 255 | an archiver that applies, misses or downloads what a network produces |
| `MCNodeListTracking` | 14 | owners of ids, the modes of the run |
| `NodeListSorting` | 889 | what the sorted insertions and the filter of `NodeList` compute, for every list |
| `NodeListProofs` | 6268 | types; the maps agree, whatever is missed; the network's lists, in order, when nothing is; the lists of `ListSync`, downloaded or rebuilt |
| `ReceiptCollection` | 548 | `storeReceiptData`, announcements, fetches, restart |
| `MCReceiptCollection` | 26 | three receipts of two transactions |
| `ReceiptCollectionProofs` | 2039 | types and shape of suspended calls, one validation, order of tables, rows that give way |
| `ShardFunctions` | 132 | partitions, ranges and the nodes that cover them, as operators |
| `ReceiptVerification` | 404 | shard data of cycles, counting of signatures, votes and account hashes |
| `MCReceiptVerification` | 51 | receipts of all small sets of signers, and wrong ones |
| `ReceiptVerificationProofs` | 1764 | who executes a transaction in which cycle; receipts that are accepted are backed, those that are backed accepted |
| `DataSubscription` | 392 | data senders: subsets, subscriptions that overlap, contact timeouts, replacement |
| `MCDataSubscription` | 8 | three validators |
| `DigestChain` | 25 | abstract specification: a chain to which digests are only added |
| `TxDigester` | 283 | the cron task that digests transactions; `ChainSpec` is the refinement |
| `MCTxDigester` | 9 | two transactions, two runs of the cron task |
| `ArchiverApi` | 164 | the answers of the routes that downloads use, down to their queries, as operators |
| `DataSync` | 831 | an archiver that starts: comparison, downloads, serving, catching up |
| `DataDownload` | 36 | `DataSync` as a part, under names of its own |
| `MCDataSync` | 27 | rows of the tables that are there and that come |
| `RobustQuery` | 67 | the tally of answers and its rounds, as operators |
| `ServiceQueue` | 27 | the sorted list of network transactions, as operators |
| `CycleParser` | 56 | records squashed newest first into node lists, as operators |
| `ListSync` | 404 | where lists come from: `syncV2`, repair of the transaction list, stored or fetched records |
| `ListDownload` | 32 | `ListSync` as a part, under names of its own |
| `MCListSync` | 36 | patches that records are made of |
| `ArchiverTracking` | 381 | archivers, reputations, neighbours, joining, leaving, refuting |
| `MCArchiverTracking` | 8 | who joins and leaves in which cycle |
| `ArchiverTrackingProofs` | 1431 | the lists follow the records, gossip connects, refutes are in time |
| `NetworkAccount` | 210 | the cached network account and its changes |
| `AccountServing` | 161 | pages of accounts and the validators that get them |
| `MCAccountServing` | 9 | modes and accounts of the run that pages |
| `DataLogWriter` | 243 | queue, rotation, errors and crashes of a data log |
| `GenesisAccounts` | 106 | batches that are combined while one is stored |
| `Services` | 76 | the four modules before, side by side, each a part of its own |
| `FollowerProofs` | 2830 | of `TxDigester`: types, completeness of digests, refinement; of `NetworkAccount`: the account follows the validators' |
| `DataProofs` | 3300 | of `DataSubscription`, `GenesisAccounts`, `AccountServing` and `DataLogWriter`: senders, batches, places, log files |

Definitions that begin with the comment *Wrong on purpose* are not part of the model:
each is a plausible mistake in the definition after it, and replacing that definition
by it makes the property it is listed with in `PROJECT.json` fail.

### 2.1 CycleProcessing

Suspended calls. A call of `processCycles` runs synchronously through the counter, the
node lists, the mode and the cache, then suspends. The synchronous part is
`ProcessCycle` inside the action `ReceiveCycle`, since `collectCycleData` calls it
without an `await`. What is left of the call is an element of `tasks`, whose `pc` says
at which await it stands:

| `pc` | await in the code | action when it settles |
|---|---|---|
| `load` | `updateCacheFromDB` (cache/cycleRecordsCache.ts:14) | `CacheLoaded` |
| `query` | `queryCycleByMarker` in `storeCycleData` (Data/Collector.ts) | `CycleQueried` |
| `insert` | `bulkInsertCycles` / `insertCycle` | `CycleInserted` |
| `global` | `updateGlobalNetworkAccount` (Data/Cycles.ts) | `GlobalAccountUpdated` |
| `sleep` | the sleep of a cycle in the shutdown block | `ShutdownSlept` |
| `clear` | `clearDataSenders`, with its sleep of two seconds | `DataSendersCleared` |

State and code: `receivedCycleTracker[c]` is the object per counter of
`collectCycleData`, as a sequence because the loop over its entries depends on their
order; an entry has the record, its senders and the flag `saved`. The loop over the
entries is `BeforeSaved`, `Confirmed`, `MarkSaved` and `Copies`. It *queues the record
just received, whatever entry was confirmed*, and *takes flags back* when it meets a
saved entry; both are modelled as written. `Trim` is the eviction of old counters.
`Cached` puts the array of queued copies in front of the cache.

External: `Deliverable` is the network. A sender's socket is ordered (it sends counters
that do not descend, and may start anywhere); records after a shutdown exist only once
a first node asked. `ListedAfter` and `ActiveAfter` abstract the node lists to the sets
a record leaves behind; `NodeList` models the contents. Records pass
`validateCycleData`. The database answers with the rows or fails; a failing insert is
recorded in `failedWrites`, a history variable, as is `restartedFrom` (what first
nodes were told).

### 2.2 NodeList and NodeListTracking

The lists are a record with the code's six structures. A node is its public key; the
objects that the maps share per key are the ids in `byPublicKey`, so an id that
`addNodes` or `refreshNodes` assigns in place is seen by `activeListByIdSorted` too,
which is what makes the array go out of order. `InsertSorted` is the binary search of
`Utils.insertSorted`, comparisons with `undefined` included. `updateNodeList` composes
the operations in the order of `Data/Cycles.ts`.

`NodeListTracking` composes them with a network (external: `Changes`, `ChangeSets`,
`Cycle`, `NetworkAfter`, `NextModes` say which records validators can produce). For
each record the archiver applies it (`ProcessCycle`), misses it (`MissCycle`: it is
skipped when a later one was confirmed before it, Data/Cycles.ts:65), or starts again and downloads the lists
(`SyncV2`). The shutdown block clears the lists later (`ClearNodeLists`), and a first
node is entered without an id (`PostNodeList`).

### 2.3 ReceiptCollection

A receipt is a member of `Copy`; copies of one transaction may differ in timestamp, in
outcome and in whether they verify. A *call* is a suspended `storeReceiptData`, with
the local variables of the code: the receipts still to do, `existingReceipt`, the
account states still to do, `accountExist`, and the three `combine...` arrays. Its `pc`
is the await or the loop head where it stands. Each caller is a connection of a
validator or the fetch of one transaction. `NextStage` is the control flow between two
copies: rows are inserted when a bucket is full, and all of them when the batch is
through, receipts first. `NeedToSave` is the table of cases of
`verifyAppReceiptData`; whether hashes and signatures are good is `Genuine`. A call has
three kinds of exits: its own early exits, which take the copy out of validation and go on
with the batch (`Reject`, `Decline`, by `Drop`), the end of the batch, and exceptions.
`Unhandled` are the copies that pass the schemas and make the code throw: in
`verifyReceiptData`, at the sorting of offsets a copy does not have (`Throw`), or at
`afterStates` it does not have (`ThrowAccepted`). Nothing catches these
(Data/Collector.ts:1026, 1081, 1113; server.ts:84 only logs them), so the call ends there
with the rows it had collected and the rest of its batch, and of the first two the
transaction stays in validation.

`Announce` is `processGossipData`, `StartFetch` the interval that turns missing
receipts into fetches, `FetchNothing` and `FetchFound` one request to one archiver,
`CleanOldReceiptsMap` the cleaning with each cycle. `Restart` loses every map and call
and keeps the database. Every insert may be refused, in which case the code logs the
error and drops the rows; `refusedReceipts` is a history variable.

Left out here: calls with `verifyData` false (downloads at startup), the columns of the
processed transactions (`processedTxs` is the set of those that have a row), the transactions
table (written together with it and in the same way), the cached global account (in
`NetworkAccount`), the sending side of gossip (in `ArchiverTracking`), and failing reads.

### 2.4 DataSubscription

The active validators, in the order of their ids, are cut into subsets of
`currentConsensusRadius`; the archiver wants one sender in each (more with a large
radius and few archivers: `Wanted`). Three kinds of calls are suspended, none of which
anybody awaits:

| State | await in the code | action when it settles |
|---|---|---|
| `groupings` | `getConsensusRadius` in `createNodesGroupByConsensusRadius` (Data/Data.ts:711) | `Grouped` |
| `calls` | `createDataTransferConnection` in `subscribeNodeFromThisSubset` (Data/Data.ts:779) | `SubscribeAnswered` |
| `clearing` | the sleep of `clearDataSenders` (Data/Data.ts:832) | `DataSendersCleared` |

A call keeps its subset, the nodes of it that are left in this round, the node it has
asked, the senders it has found and its rounds; the loop between two awaits is
`Outcomes`, which passes over nodes that are subscribed already. What a call can come
to is a set, since it picks nodes at random.

Timers. `watched` are the senders whose `contactTimeout` runs. When a sender is entered
again, or the maps are cleared, while its timer runs, that timer can no longer be
cleared: it is a *stray* and fires like any other, which drops a sender that may be
sound. That is what the code does; `HealthyKept` exempts it and `Recovers` says that the
archiver makes up for it. A sender whose timer runs out while the network has a single
active validator stays without a timer (`AlwaysWatched`, `SilentReplaced`).

External: `Changes` (who joins and leaves, at most `MaxChanges` per record), `Answers`
(a sound validator answers a subscription in time; one that left may), `Heard` (a sound
validator in the network sends something within every timeout). `Silent` and `Flaky`
validators do not. A validator that has left is assumed to send no data any more. A
socket that is overwritten in the map stays open in the code; its data are handled as
those of the socket that replaced it, so the model does not keep it.

### 2.5 TxDigester and DigestChain

The process of `txDigester.ts`. A run of the cron task is a record whose `pc` says at
which await it stands: the status of the archiver, the last digest (the query, and the
assignment of its answer, between which another run may have assigned a newer one), the
latest cycle, transaction ids, the predecessor's hash. The insert of a digest is not
awaited: `inserting` are the rows handed to the database, and `InsertExecuted` takes
them in any order. A refused insert is a rejection nobody handles, which ends the
process (`Crash`; the table stays). A hash is perfect: the hash of a digest *is* the
sequence of what went into it, so that equal hashes mean equal transactions, in equal
ranges, after equal predecessors.

External: the archiver, which writes transactions and cycles while the digester reads
them. While it synchronises it may write a transaction of any cycle; once it is active,
only of cycles that are less than `syncDelay` cycles old. The second half is an
assumption about the network, and the reason for the delay; the first is why the task
asks for the status. An archiver that starts again *between* a run's status check and
its reads, a matter of milliseconds, is not modelled.

`DigestChain` says what the table is for: a chain to which digests are only added.
`TableChain` maps the table to it.

### 2.6 ShardFunctions and ReceiptVerification

`ShardFunctions` has what `updateShardValues` calls of `ShardFunctions.ts`. A node is
its index in the list of active nodes sorted by id, which is also its home partition; an
address is a number below `AddressSpace` (2^32 in the code). `PartitionRange` is
`calculateParitionRange` with its splitting and collapsing of ranges that wrap, `Scan`
the order in which `getCombinedNodeLists` looks at partitions, `Covers` and `Stores`
what `computeExtendedNodePartitionData` writes. `Distance` and `Within` are what these
are meant to be, by the distance on the ring; the invariant `ExecutionGroups` of the run
compares the two. `ScanStartsInside` says when they differ: in a network with more nodes
than a consensus group and fewer than the stored range would have, the scan starts
inside the consensus range, and every node covers every partition.

`ReceiptVerification` has three actors: `processCycles` up to its first await
(`ProcessCycle`: node list, then `UpdateShardValues`), its end (`Clean`, which may come
later than that of the next call), and the verification of a receipt, which reads the
shard data (`Deliver`, with the synchronous `VerifyReceiptData`), awaits the database
(`VerifyArchiverReceipt`) and is taken up (`TakeUp`). Shard data hold the *live* array of
nodes: an activation enters it in place, a removal makes a new one (`Relisted`).

A signature is the vote it is on with the offset of its time; a hash is what it is of.
What the archiver *stores* is not what it verified: `AsSaved` has the offsets sorted in
place, and the change of a global receipt made on its state before (`AfterCheck`).
`Copies` are therefore the receipt of a validator and the one another archiver stored.

### 2.7 ArchiverApi and DataSync

`ArchiverApi` answers the routes `cycleinfo`, `receipt`, `originalTx`, `account` and
`transaction` from tables that are sets of rows: the checks of parameters, then the
query with its range, order, limit and offset.

`DataSync` is `syncAndStartServer` of an archiver that joins others. It is one thread,
whose place is `pc` and whose local variables are `loc` (one loop) and `rest` (the loop
of three kinds in `syncCyclesAndTxsData`); each action is the code between two awaited
requests.

| `pc` | code | action |
|---|---|---|
| `start`, `compareCycles` | totals, `compareWithOldCyclesData` | `CountData`, `CompareWithOldCyclesData` |
| `join`, `compare` | `joinNetwork`, comparison of tallies per cycle | `JoinNetwork`, `CompareOldData` |
| `genesisTotal`, `genesis` | genesis accounts and transactions, by position | `SyncGenesis...FromArchiver` |
| `syncLists`, `oldCycles` | `syncCyclesAndNodeListV2`, cycles backwards | `SyncCyclesAndNodeListV2`, `DownloadOldCycles` |
| `total`, `askTotal`, `page`, `askAgain` | `syncReceipts`, `syncOriginalTxs` | `SyncReceipts`, `SyncOriginalTxs` |
| `byCycle...`, `count`, `rangePage`, `recount` | `sync...ByCycle`, `downloadReceiptsBetweenCycles` and its twin | `Sync...ByCycle` |
| `check`, `restTotal` to `rest...` | count of the stored cycles, `syncCyclesAndTxsData` | `CountAgain`, `SyncCyclesAndTxsData` |
| `serve`, `newest`, `betweenCycles` | `startServer`, `syncCyclesAndTxsDataBetweenCycles` | `Serve`, `Newest`, `SyncCyclesBetweenCycles` |

Between any two requests the network goes on: a cycle ends, a row arrives late or on
time, a genesis account is changed and so leaves its range (`AccountMoves`), a record
reaches an archiver that serves (`LiveCycle`), the process restarts (`Restart`). `Lost`
is a request that three archivers did not answer. `excused` is a history variable with
the rows a reader cannot hold against the download: those of a lost answer (a lost second
count of a range too, after which the page is not asked for again), those that
arrived behind the page that would have had them, those older than the compared cycles that
a crash left behind the newest stored rows, and those ahead of a download by cycles that
takes itself for complete because its count has rows in it twice (`CountedTwice`, see
section 4). Of genesis accounts only those of a lost answer are in it: the accounts that a
moving page skips are not excused but counted, against those that moved (`Moved`).

### 2.8 RobustQuery, ServiceQueue, CycleParser and ListSync

`RobustQuery` is `robustQuery` of `Utils.ts`, as a record with the nodes left, the
answers so far and the number that wins; `ServiceQueue` is the sorted list of network
transactions; `CycleParser` is `parseRecord` and `ChangeSquasher`. `ListSync` has three
starts that share these: `syncV2` (hash of a list by a robust query, its content from
one of those that gave the hash, for five lists in turn, then the comparison with the
record), the node list from stored records, and from records fetched from an archiver.
In the first, records that come afterwards change the lists, and one that shows a wrong
hash starts `syncTxList`, whose answer overwrites the list when it comes. Validators in
`Faulty` answer with anything, or not at all; the others may be a record behind. Among the
nodes a query is given fewer are faulty than must agree (`FaultAssumption`, the premise of
every robust query: with as many, the code takes what they say), and none is listed twice.
`ListDownload` gives the properties and variables of `ListSync` names that `NodeListTracking`
does not use, so that both can be extended by the module of their proofs.

### 2.9 ArchiverTracking

One archiver, `Self`, over its whole life: `phase` is `start`, `asking`, `joining`,
`waiting`, `syncing`, `up`, `exited`, or `compare` and `serving` for one that starts
from a stored shutdown record. `active`, `sorted` and `other` are the lists of
`State.ts`; `adjacent` and `remaining` those of `GossipData.ts`, recomputed only when a
record changes the archivers; `checking` the archivers whose answers on reputation are
awaited; `reading` and `timers` the refutes on their way. Cycles are the unit of time:
records are made when the archiver has processed the last one with what it started, and
two refutes of a loss are due after one or two of them. `Patience` is how many cycles the
network waits for a refute (external).

### 2.10 NetworkAccount, AccountServing, DataLogWriter, GenesisAccounts

`NetworkAccount`: the account as validators have it (`net`, external), the row, the
cached account, `appliedConfigChanges`, and the updates under way, one per cycle, each
with the copy it works on. An update suspends at each write (`AccountUpdated`), then goes
on in the list it may just have pruned. `disturbed` is a history of what makes the values
differ from the validators': an account set while an update is under way, one from before a
change that counts as applied, a list pruned while it is gone through, and, after a restart, an
older change applied over a newer one that pruning has removed (`SetsBack`, out of reach of the
run's bounds; with the 1000 changes of a setting that the code keeps it takes as many to get
there). `FollowsNetwork` says that nothing else does, and `FollowerProofs` proves it for any bounds. `AccountServing`: `servingValidators` with the
time of their last request, the timer that frees them, which a change of mode starts and
another stops, and the pages by which a validator goes through the accounts.
`DataLogWriter`: files as sequences of lines, the queue, and one call that writes; each
await of `insertDataLog` is an action, an error leads back to the first entry of the
batch, a crash keeps the lines up to a buffered one and any subset of the unlinks and
renames of a rotation. `GenesisAccounts`: calls of `storeAccountData` with the batches
they write, from validators' connections and from downloads, of which only the first look
at the flag.

`Services` puts the four side by side in one run. They share no state and a behaviour
is one of a single part, so that nothing is lost by not interleaving them.

## 3. The runs

| Run | States | Question | Answer |
|---|---|---|---|
| `cycles_overlap` | 165,845 | What can forks, disorder and overlapping calls do to the chain? | One record per counter, ascending, each written or refused; a saved counter stays saved |
| `cycles_restart` | 1,021 | Can a network be formed, shut down, restarted and shut down again? | Yes, when cycles are further apart than their processing: one first node each time, told the right record |
| `nodes_tracking` | 38,793 | Has an archiver the network's lists, and what survives missed records and restarts? | The network's lists as long as none is missed, sorted ones; ids resolve in any case |
| `receipts_store` | 99,633 | What can overlapping batches, fetches, refusals and restarts do? | One validation per receipt, tables in order, only unseen rows are superseded or rewound, no entry stays in a map but for an exception |
| `receipts_verify` | 1,085,203 | Are the receipts that are accepted backed, and those that are backed accepted, whatever records come meanwhile? | Yes, apart from the three cases of section 4 |
| `subscription` | 62,072 | What can overlapping subscriptions, timeouts, records and a shutdown do to the senders? | Timers go with senders; silent ones are replaced; sound ones are kept or made up for |
| `digests` | 222,984 | What can overlapping runs, un-awaited inserts, failing reads and a crash do to the digests? | Nothing that shows: rows are complete, chained, never change, and catch up |
| `data_sync` | 201,121 | What can tables that grow under a download, gaps, a lost answer or a restart leave out? | Rows of the cases in section 4, and one genesis account for each that moves; the count of cycles tells that none is missing since the last that matched, nor before it if none was replaced; every loop ends |
| `lists_sync` | 1,065,354 | What can validators that are behind, lie or go silent do to the lists an archiver starts from? | The lists of the comparison are those of one record; a wrong transaction list is repaired; rebuilt lists are the network's |
| `archivers` | 1,817,319 | Does an archiver keep track of the others, and answer when it is taken for lost? | Yes: lists, neighbours and refutes, apart from removed archivers and refutes that nobody gets |
| `services` | 1,133,058 | Network account, serving, logs, genesis accounts: does any of their awaits, errors or crashes lose something? | Only at the named bad moments (section 4) |
| `accounts_paged` | violation | Does a validator that pages through the accounts get all of them? | No (section 4) |

Bounds, and why the interesting cases happen within them:

* `cycles_overlap`: two nodes and one archiver as senders, counters 1 to 4, two
  competing records at counter 2, of which one lowers the number of active nodes and
  with it the number of confirmations needed afterwards (2, then 1). So two records of
  a counter can both be confirmed, a record can be confirmed by a sender that does not
  know of it, and cycle 3 can be confirmed before 2. `maxCyclesInCycleTracker = 0`
  makes the tracker forget at every step (5 in the code); `maxCachedCycles = 2` (100)
  makes the cache overflow; record 1 is in the table at the start, so a fill returns a
  row.
* `cycles_restart`: four records, modes forming, shutdown, restart, shutdown, so that
  the flag is toggled from both of its values and a second shutdown finds the record of
  the first. `Paced` is the assumption that a new cycle only arrives when no call is
  suspended; in the code cycles are 60 seconds apart and the shutdown block sleeps for
  one of them. Without it `RestartFromShutdown` fails (section 4).
* `nodes_tracking`: two nodes, three ids, so that one node joins twice and its second id
  sorts on the other side of the other node; all modes but recovery, which the code
  treats as restart; records that change both nodes (`MaxNodes`), each in any way the
  network allows, so that the changes of different nodes meet in the fixed order of the
  code. Any record may be missed, and the archiver may start again at any.
* `receipts_store`: two transactions; of the first a success, which other archivers
  announce, and a free failure with another timestamp, which a validator pushes and which
  makes the code throw; both write the same account, the failure the older state. The fetch
  of the one and the delivery of the other are two calls, which is what the overlaps in the
  receipts table and in the account's row need. The only copy of the second transaction is
  pushed and announced, and refused. Inserts are due at two rows, with one batch of two
  copies and one archiver that is fetched from. `maxProcessed` matters only while the
  archiver is not active; in the run it is. One fetch per transaction at a time is a bound
  of the model. A call brings at most one row to each table here, so that its buckets are
  written at its end; how full buckets fit together is left to the theorem
  `ProcessedHasReceiptHolds`, which holds for all sizes `BucketAssumption` allows (1000 and
  100 in the code).
* `receipts_verify`: 16 addresses; five nodes of which two or four are active at first
  and one may become active and one leave in each of three cycles; consensus groups of
  three, edges of one or two, so that networks smaller than a group, between a group and
  the stored range, and larger than it all occur; addresses in the first and in the last
  partition (their ranges wrap); receipts with up to three signers in any combination,
  doubled ones, all five, and a wrong one of each kind. Shard data of one past cycle are
  kept (10): two cleanings that overlap already come in the wrong order.
* `subscription`: three validators in subsets of two, so that there is a full subset and
  a rest, and subsets shift when a validator joins or leaves; one of the three is both
  silent and flaky. One call of `subscribeConsensorsByConsensusRadius` at a time, at
  most one subscription in flight and no stray timer *when a cycle record arrives*; the
  calls that one record and the timeouts before it start do overlap, which is two
  subscriptions of one subset. `MaxRetry` is 1 (3): a round more repeats the first.
  The radius stays the same in a run and is too small for extra senders
  (`Wanted` is 1), which is what the code does below a radius of 6.
* `digests`: digests of two cycles with a delay of one (10 and 20), five cycles, hence
  two digests, of which the second needs the first; two transactions in any cycles; two
  overlapping runs; one failure: a refused read, or a crash with inserts under way.
* `data_sync`: pages of two rows (100 and more in the code), the last cycle compared (10),
  ranges of two cycles; cycles 0 to 4 at first and one more later, so that the download of
  older cycles takes two pages; three receipts of which two come later, one before the first
  in its cycle and one into a cycle that has not begun, one original transaction, three
  genesis accounts of which one moves; own tables that are empty, a part of the network's, or
  hold a record that the network replaced, early or behind a gap; one lost answer or one
  restart, anywhere. A page and a rest are what it takes for a row to move from one page to
  the other between two requests, and a row that is stored and downloaded again is what it
  takes to count one twice.
* `lists_sync`: three validators of which one is faulty, a redundancy of two (3), in two
  random orders; `MaxRetries` of two for the repair (3), two repairs at a time. Records
  that change each list, three of them for `syncV2`; all combinations of two changes of
  nodes, five records from the database and four from an archiver, for rebuilding, since
  a node's joining, activation, refresh and removal may each be in a record of its own.
* `archivers`: four archivers, two that the network starts with, one that joins or leaves,
  five cycles, one restart, a patience of two cycles. Every neighbour relation of up to
  four on a ring, and a departure while a refute is due, occur.
* `services`: the network account with up to three changes of one setting in three
  cycles, a lag of two cycles (so that two updates overlap) and one restart, a queue
  pruned beyond two changes or at once (1000, 5 cycles); three validators for two places
  (10) over five periods; four log files of two entries (10 of 500 to 10000), fifteen
  entries, so that each file comes round twice, a queue of two, one crash and one error;
  six batches of genesis accounts, one empty, one malformed, one untrue, two calls.

Fairness. `FairSpec` of `CycleProcessing` and of `ReceiptCollection` assumes weak
fairness of the steps of each suspended call: timers fire, and requests and queries
settle with an answer or an error. It also assumes that the interval that starts
fetches keeps firing. Nothing obliges a sender to deliver, an archiver to announce, the
database to accept or a node to ask, and a run may stop whenever no call is suspended:
an archiver that waits for data is not stuck, and neither is one at the end of the
bounded set of records or ids. That is why deadlock is not checked in those runs; that no *call* is
stuck is what `ArchiveWritten`, `ShutdownAllowsRestart` and `CollectionEnds` say. The
other runs without a deadlock check are bounded in the same way, by a last cycle, record,
entry or batch.

`FairSpec` of `DataSubscription` assumes that cycle records go on, and that requests,
timers and sleeps end; nothing obliges a flaky validator to answer or the random choice
to be kind. `SilentReplaced` needs nothing else. `Recovers` is about
a network whose active validators stay the same and sound: as long as the archiver does
not have the senders it wants, it comes to have them, again and again. `FairSpec` of
`TxDigester` assumes that the archiver becomes active and goes on storing cycles, that
cron starts runs, and that queries end; failures are bounded by `MaxFailures`, since an
archiver whose database refuses every insert never catches up. Both systems run for
ever, and their runs check deadlock. `DataSync` assumes weak fairness of the archiver
alone: a request is answered or times out. Nothing obliges the network to stand still;
that the totals the loops run after grow only a few times is the bound of the instance,
and in the code a matter of how fast an archiver downloads. `SyncEnds` is about runs in
which no answer is lost: no claim is made of one in which an answer is lost.

Every property of a passing run has a mutant in `PROJECT.json`: a version of one
definition with a plausible mistake, under which TLC finds the property violated by the
same configuration. Where a property names exceptions (`excused`, `disturbed`, `stale`,
`late`, `unheard`, `broken`, `Outgrown`, `Resorted`, `Abandoned`), each was found by a
counterexample and is needed: without it TLC violates the property, by the same run or, for the rows of
`excused` that a restart leaves out, by the larger one of section 5.8.

## 4. What the code says and does not do

One run of this directory expects a violation. `accounts_paged`, property
`EveryAccountPaged`: `provideAccountDataRequest` is described as working like the
validator's `getAccountDataByRangeSmart`, and the comment quotes a query that compares
the *pair* of timestamp and account id (Data/AccountDataProvider.ts:180, 196). The query
that is built compares them apart (line 209), so that a validator which goes on from the
last account of its page never gets an account with a smaller id and a later timestamp.

The others are behaviours the models have because the code has them. They are met as
exceptions named in a property, or are why a property is not stated more strongly.

Cycles and nodes:

* A call for an earlier record reads the mode again after its awaits; when it finds
  `shutdown`, which a later record set, it runs the shutdown block as well, which toggles
  `foundFirstNode` a second time (Data/Cycles.ts:92). This needs two records within a
  cycle's time, and is why `cycles_restart` is `Paced`.
* The record queued for saving is the one just received, whatever entry of its counter
  passed the threshold (Data/Data.ts:419), so that a record that too few nodes sent may
  be saved (Config.ts:115).
* A cycle that is confirmed after its successor is flagged as saved and never applied.
* A node that left and came back unnoticed gets its new id in place (NodeList.ts:136),
  and the "Array of active nodes sorted by id" (NodeList.ts:74) is not sorted from then
  on. `SortedById` is about archivers that missed no record.
* `clearNodeLists` leaves the standby list as it is; `syncV2` does not compare that list
  with its hash, although `verifyStandbyList` exists.
* Nodes lost after their selection are not among those a record removes when lists are
  rebuilt from records (Data/CycleParser.ts:146).

Receipts:

* Two copies of a transaction that differ in their timestamp, in two calls, are both
  compared with the empty table; the failed one may be inserted last and replace the
  successful one (Data/Collector.ts:903). A call that found no row for an account may
  insert an older state over a newer one (Data/Collector.ts:1127). `SupersededOnlyUnseen`
  and `RewoundOnlyUnseen` show that the time between reading a row and replacing it is
  the *only* way either can happen, and that the tables of cases themselves are right.
* An exception while a receipt is verified or its offsets are sorted (Data/Collector.ts:1026,
  1081) ends `storeReceiptData` without taking the transaction out of validation, and the
  process lives on (server.ts:84). Until the next start, copies with that timestamp are
  skipped for good, pushed or announced. `CollectionEnds` names such an entry (`Abandoned`)
  and claims that no other stays. The rest of the batch and the rows that waited for a full
  bucket are lost with the call; if the exception comes later (line 1113), those of the copy
  that was accepted are too.
* The offsets of a receipt's votes are sorted in place before it is stored
  (Data/Collector.ts:1081), no longer in the order of its signatures: an archiver that
  fetches it refuses it. The check of a global change makes the change on the state
  before, in the receipt itself (shardeum/verifyGlobalTxReceipt.ts:93), so that an
  archiver that fetches it makes the change twice and refuses it.
* The nodes in a cycle's shard data are the live list (Data/Cycles.ts:490); in a network
  smaller than a group, later activations raise the signatures its receipts need. Where
  the scan for consensus nodes starts inside their range (ShardFunctions.ts:619), all
  nodes count as executors.
* A ratio of 2/3 (Config.ts:189) is compared with a percentage (Data/Collector.ts:356):
  one signature is a majority of a global receipt. The model has the comparison as it is,
  and `AcceptedBacked` claims a quorum for the other receipts alone.

Downloads:

* With fewer stored cycles than are compared, the comparison asks for a negative start,
  is refused, and the archiver does not start (Data/Data.ts:2145).
* A page of receipts that is not answered is skipped (Data/Data.ts:1494); after a short
  page the next one begins one row too late (Data/Data.ts:1914), so that nothing is claimed
  of rows that come in during that loop, but for those of the cycles that are downloaded
  once more when the archiver serves; totals are taken over only if none is zero (line 1867); the
  range of cycles is left out of a query for original transactions that begins at cycle
  0 (dbstore/originalTxsData.ts:103), which therefore gets more than it asked for.
* Genesis accounts are asked for by position in the range of the genesis cycles
  (Data/Data.ts:1092). A receipt that updates one of them takes it out of the range, the
  accounts after it move up, and the next page begins one too late: an account that was there
  all along is never asked for. `NothingLeftOut` says that no more than one is skipped for each
  account that moved; the run reaches that number.
* The cycles are checked "to be sure it's not missing any data" (server.ts:408) by their
  number, which is to be one more than the newest counter (line 417). A record that the
  network has replaced is a row like any other, and below the newest record that matches
  nothing is downloaded. There cycles may be missing: an archiver that serves skips some
  (Data/Cycles.ts:65, after server.ts:454), and one that is stopped while
  `downloadOldCycles` goes backwards finds at its next start that the newest records match.
  With as many replaced records as missing ones the number is right and the check passes.
  `CheckedChain` says what it does tell, whatever was stored and however often the archiver
  was stopped: no cycle is missing from the last that matched on, and if no record was
  replaced, none at all. Stronger readings of it were refuted while its invariant was
  looked for.
* `downloadOldCycles` goes on while `endCycle > lastStoredCycleCount` (Data/Data.ts:2199),
  which is 0 when nothing is stored. When a page begins at cycle 1, that is, when the newest
  cycle less one is a multiple of `MAX_CYCLES_PER_REQUEST + 1` or is 0, cycle 0 is not asked
  for, although the message says that the cycles from 0 on are (line 2192). The check
  of the count then stops the synchronisation, at this start and at later ones, which
  download what is newer.
* Records are processed from the moment the archiver subscribes (server.ts:454): one that
  comes before the last download moves the counter past the cycles in between, which
  `processCycles` then skips when they are downloaded (Data/Cycles.ts:65).
* In a network without a receipt or an original transaction the loop of
  `syncCyclesAndTxsData` may not end (Data/Data.ts:1867): a total that changed meanwhile is
  never taken over. `SyncEnds` leaves such a network out.
* The download by cycles of an archiver that has stored something compares a sum with the
  total: the rows of its table when a range was cut at the newest cycle (Data/Data.ts:1520),
  and every row downloaded since, those it had among them (line 1608). When the network has
  gone on meanwhile by as many rows as were counted twice, the two are equal and the loop
  ends with rows still ahead (lines 1528 to 1543); no answer need be lost. The rows are
  left to `syncCyclesAndTxsData`.
* When more rows came than a range was said to have, its count is asked for again; if that
  answer is lost the page is not (Data/Data.ts:1581), and a row that came into it is left out.
* What a crash leaves out before the newest rows, of an archiver that was serving or
  was between a page and its second count, is never asked for again when it is older than
  the compared cycles.

Archivers and services:

* `postJson` does not throw, so that a refute no validator gets is not sent again
  (LostArchivers.ts:93); archivers the network removed stay on the list until a record
  says they leave (Data/Cycles.ts:330); an answer about reputation is applied to an
  archiver that left meanwhile (Data/Cycles.ts:458); an archiver's answer is attributed by
  its index in another list than the one that was asked (State.ts:225); with one archiver
  left, `remainingArchivers` is not emptied (Data/GossipData.ts:34).
* The cached network account is set by every receipt, older ones too; an update that is
  awaited overwrites it; pruning takes entries out of the list the loop goes through
  (GlobalAccount.ts:97, 67, 162); after a restart changes are made again in the order of
  the list and not of their cycles (GlobalAccount.ts:60), which is why the instance lists
  them in that order.
* A malformed batch of genesis accounts leaves the storing flag set
  (Data/Collector.ts:1311).
* A crash in a rotation leaves files half renamed, and the next start deletes what was
  renamed (Data/DataLogWriter.ts:125).
* A stray contact timeout replaces a sender whose data just arrived; a sender keeps no
  timer when it ran out in a network of one active validator.

## 5. The proofs

The modules `*Proofs` and `NodeListSorting` are checked by TLAPS, for every value of the
constants that satisfies the named assumptions. `RecordAssumption`, `StartAssumption`,
`ConfigAssumption` (CycleProcessing), `IdAssumption` (NodeListTracking),
`CopyAssumption` and `BucketAssumption` (ReceiptCollection), `DigestAssumption`
(TxDigester), `NodesAssumption`, `VotesAssumption` and `ReceiptsAssumption`
(ReceiptVerification), `ArchiverAssumption` (ArchiverTracking), `SubscriptionAssumption`
(DataSubscription), `DownloadAssumption` (DataDownload) and `PartsAssumption` (Services) give
the constants their types; those with content are:

* what an archiver that joins has stored are any records of cycles up to `MaxCycle`, of the
  network's chain or replaced since, with any gaps (`StoredAssumption`);
* the cycles table at startup is finite, has one record per counter and none beyond the
  counter the archiver starts at (`StartAssumption`);
* an id belongs to one public key (`Owner` is a function: ids hash the key), ids are
  ordered as numbers are (they are hexadecimal strings of one length), and there are
  finitely many keys;
* a node in a record of `ListSync` has an id, and a record lets finitely many nodes join
  (`ListSyncAssumption`); of the nodes a query may ask fewer are faulty than must agree
  (`FaultAssumption`);
* a call for a delivery is not a call for a fetch (`Connection \cap Tx = {}`);
* `bucketSize` is a multiple of `receiptsPerInsert` (1000 and 100 in the code);
* a consensus group has two members or more, since `calculateShardGlobals` raises an error
  with fewer (ShardFunctions.ts), and the number of nodes squared is at most twice the number
  of addresses (`NodesAssumption`: 92681 nodes with addresses of 32 bits). Partitions are as
  large as the division of the address space rounds them, so that with more nodes than that
  the last ones could be empty or lie beyond the last address;
* the shares of votes and of signatures that are needed are positive (`VotesAssumption`);
* an archiver is not a member of the network before it joins (`ArchiverAssumption`).

Three theorems have a hypothesis of their own: `RestartsFromShutdown` and `SlotMatchesList`
that cycles are further apart than their processing (`Paced`; without it both are false,
section 4), the second also that every cycle of a network lists a node and that the archiver
is the first; `RefutedInTimeHolds` that the network waits for two cycles or more
(`Patience >= 2`: the code lets up to two cycles pass before it sends a refute).

No assumption bounds the number of nodes, records, receipts, digests, failures or
overlapping calls.

### 5.1 CycleProcessingProofs

`TypeCorrect`, `OneRecordPerCounterHolds`, `OneCacheLoaderHolds`, `ImplementsArchive`,
`SavedFlagKept`, all from one inductive invariant:

    IndInv == TypeOK /\ IsFiniteSet(cyclesTable) /\ BoundedByCurrent /\ PastInsert
              /\ Distinct entries per counter /\ OneRecordPerCounter /\ OneCacheLoader

`OneRecordPerCounter` alone is not inductive. A new record is only known to be new
because its counter is above `currentCycleCounter`, so the counter has to bound
everything applied (`BoundedByCurrent`). When a call ends, its record leaves `tasks`;
that it does not leave `Applied` needs `PastInsert`, since a record past its insert is
in the table or refused. That is also what the refinement needs: a record is never
forgotten. The finiteness of the table is what makes the rows a fill reads a sequence.
`Distinct` says a counter has one entry per record, without which the voter's entry and
the entry whose flag is taken back could be different ones (`SavedFlagKept`).

`ImplementsArchive` is a step simulation. `ReceiveCycle` either leaves the mapped state
alone or is `Accept` of the record (its guard follows from `BoundedByCurrent` and
`NotProcessed`); `CycleInserted` is `Store` or `Fail`; every other step stutters.

`RestartsFromShutdown` and `SlotMatchesList`: while cycles are paced, a first node asks
between two cycles, when no call is suspended, or while the shutdown block sleeps. The
invariants `RestartInv` and `ListInv` relate the flag `foundFirstNode`, the mode, the record
kept of the shutdown and the node list in both situations; that a `PostNodeList` reads what
the latest shutdown wrote is then an action property of one step.

`CheckedChainHolds` is about `DataSync`, as `DataDownload` sees it, whose records go through
`processCycles` into the same table. What the count of the stored cycles tells depends on
what happened to them since the archiver was started, so the invariant, `CyclesInv`, says by
phases what is known of them:

* always, they are finitely many records of cycles (`TablesTyped`);
* until the comparison is over no record was processed and the archiver does not serve
  (`NotBegun`);
* after it, the newest record that matched is stored, or nothing was stored and so no record
  is a replaced one (`StoredKept`, by `FromStored`);
* `downloadOldCycles` has stored everything from the place it is at up to the counter
  (`Downward`), and ends at what matched;
* at the check everything from what matched up to the counter is stored (`Complete`);
* records of live cycles come only to an archiver that serves or is past the check (`Live`).

Nothing in it relates one life of the process to another: each begins with what the one
before has left in the tables, and `CyclesInv` allows anything there. So it holds through
gaps and restarts, the more so as the property claims nothing of what is below the match
except by the count. When nothing was stored cycle 0 is not in `Complete`, and cannot be, since
the download may leave it out (section 4); there the count decides (`CountedFromMatch`).
Without a replaced record it decides everything: records of the chain that are as many as
the newest of them says are the chain (`CountAgrees`).

### 5.2 NodeListSorting and NodeListProofs

`NodeListSorting` says what the three recursive functions of `NodeList` compute: the binary
search of `InsertSorted` finds a place in an ordered list between the smaller and the larger
ids, and inserts there; `InsertAllSorted` leaves an ordered list of the old elements and the
new ones; `Without` leaves the rest in its order. None of this is by the induction theorems
of the library, which the provers cannot use. That such a function *exists* (a recursive
definition is a choice, which means nothing unless something satisfies it) is shown by
iterating its defining step as often as the argument is large; what it *computes* is shown
by contradiction, from the least argument for which it fails (`Least`, which follows from the
library's well-foundedness of the inclusion of finite sets).

`ListsPartitionHolds` and `FoundByIdHolds`: the invariant is `Consistent(lists)`
(the two properties, the shape of the record, and `Owned`: the ids in `byPublicKey`
belong to their keys) together with `Owned` for the network's ids. `Owned` is what
`FoundById` needs: an id assigned to one node cannot overwrite another's entry in
`byId`, and removing the ids of the nodes that leave removes no id of one that stays.
There is one lemma per operation of `NodeList`, stated for any lists; `updateNodeList`
composes them. They hold for every record the network may produce, so missed records
and downloads make no difference.

`TypeCorrect`, `InSyncHolds` and `SortedByIdHolds` need history, `SyncInv`. As long as no
record was missed and the lists are not about to be cleared, the archiver's lists *mirror*
the network's (`Mirrors`): same syncing and active nodes, same ids in both maps, and an
`activeListByIdSorted` of the active nodes in the order of their ids. Order needs the mirror,
since ids are compared as they are in the shared objects: in an archiver that missed a record
`addNodes` may give another id to a node that is in the array. The proof goes through `updateNodeList` stage by stage, as the order of its operations matters: for
each of them, what a mirror of the lists before is a mirror of afterwards. What makes the
stages fit is what the network can produce (`Producible`): who joins is on standby, who is
removed is in one list, and a first node comes alone.

`SyncListsOfRecord` and `SyncTxListGenuine` are about `ListSync`, as `ListDownload` sees it,
for constants that fit its assumptions (`SyncAssumption`). The invariant, `DownloadInv`, follows an answer from the validators to the lists. Of each query
under way it says that the nodes left, asked and counted are different nodes of those it was
given, and that an item with a node that is not faulty has a hash that was so (`ItemOK`); with
as many nodes as must agree, one is not faulty (`EnoughNodes`, the pigeonhole principle). So
what is fetched is so, except for the standby list, which the code does not compare with its
hash; and so is every entry of `got`, in the order of the five kinds (`SyncUnderWay`). What
the record has to do with the lists is left to the last step: the hashes in it are those of
the answers (`Matches`), and into empty lists `addSyncingNodes` and `addActiveNodes` put the
nodes of the answer (`SyncedFromEmpty`). For the transaction list the invariant is that it is
one of the network's, or is being asked for, or that failed (`TxsInv`); for the types, that
no list names a node that no record has let join (`Names`, through every operation).

`SyncRestoredLists` is about the same module: lists rebuilt from records, read newest first
until the squasher holds as many nodes as the newest record counts. Its invariant,
`RestoreInv`, has two halves that meet in the middle. Forwards, the network (`HistoryOK`): the
nodes after a record are those that joined and have not gone, active if a record activated
them; a node joins once and nothing is said of it before; and the counts in a record are
those of the nodes after it, if none was lost after its selection (`NodesCounted`).
Backwards, the squasher (`SquasherOf`): after the records from one on it holds those who
joined in these and were not removed in these, as updated the ones among them that any of
these activated or refreshed, and keeps for later the updates of those who joined earlier.
That a node joins once makes the two agree on every node the squasher holds
(`EarlierLater`), so that equal numbers mean equal sets (`SquashedAll`), and after the first
record the numbers are equal, which is why that record is not read again and again. Nodes
lost after their selection are the exception in the property, and in the proof at just one
place: `RemovedIn` is not `GoneIn`.

### 5.3 ReceiptCollectionProofs

* `TypesHold`. Types alone are not inductive: `Head` of an empty queue has no type. The
  invariant `TypeInv` adds the shape of a suspended call: which queues may be empty, and
  how many rows they hold, at each await.
* `OneValidationHolds`, from `ValidationInv`: while a call validates a receipt of a
  transaction whose copies have one timestamp, the map has that timestamp
  (`MapOfValidation`), so that the guards of `StartCopy` and `FetchFound` keep others
  out. With copies of different timestamps the theorem would be false, and a failed copy
  may replace a successful one (section 4).
* `ProcessedHasReceiptHolds`, from `ReceiptInv`: every processed transaction that waits
  in a call has its receipt stored, refused, or waiting in the same call (`BackedInv`).
  When processed transactions are written, no receipt of that call may still wait.
  That is the arithmetic fact `Counted`: since the two queues started together, the
  processed transactions (plus one while account states are handled) are the receipts
  that wait plus whole buckets of receipts that were written. A full bucket of
  processed transactions is a multiple of the bucket of receipts, so fewer than a bucket
  of waiting receipts is none (`LessThanBucket`). If `bucketSize` were not a multiple,
  the theorem would be false.
* `SupersededHolds` and `RewoundHolds`, action properties of the inserts: a row gives way to
  one that settles no more, or is older, only when the call that writes it had read the table
  before that row was there. For receipts this takes an invariant (`DecidedInv`): every receipt
  that a call is to insert was worth saving against the row it has seen, through both awaits
  and the bucket. For accounts the step itself suffices, with the types of a suspended call.

### 5.4 FollowerProofs

*Digests.* `TypeCorrect`, `Complete` (`DigestsComplete`) and `ChainImplemented` (`ChainSpec`), from
`IInv`. Everything the digester carries from one await to the next, or leaves to the
database, speaks of *settled* ranges: ranges so old that no transaction is written into
them any more. So what was read of a settled range stays true (`SettledSame`), however
long the run or the insert takes:

* `RunOK`: a run stands at the beginning of a range, the range is settled once the
  latest cycle was compared, and the ids it read are still all there are;
* `InsertingOK`: a row that waits is complete, and its predecessor is in the table,
  because the run read the predecessor's hash there and rows are never removed;
* `TableOK`: the rows are those of the ranges 1 to n for some n;
* `LastOK`: whatever is in the variable, an answer that came late included, is the end
  of some range;
* `InactiveOK`: before the archiver is active nothing was read, which is what makes the
  late writes of a synchronising archiver harmless.

Two runs that digest the same range therefore insert the same row. `ChainImplemented`
is a step simulation: executing a row publishes the digest of range n + 1, or puts a
row in place of an equal one.

*The network account.* `AccountFollows` (`FollowsNetwork`), for any number of settings, changes,
cycles and restarts. The account the archiver has lags behind the validators', is set back by
receipts, and is brought forward by updates that suspend at each write and overlap; so the
invariant does not follow the account through these steps but says what every account
anywhere (cached, stored, in a receipt, the copy of an update) has in common with the
validators' newest one, `FollowInv`:

* `Consistent`: the validators list changes in the order of their ids, and the value of a
  setting is of no change that is later than its last due one;
* `Related`: for an account as new as the validators', each value in force is the account's own or
  is that of a due change in its list that was not handled yet; no change after that one sets it
  otherwise; and the changes that are not due are the same.

When no update is under way and every due change is handled, the second case is empty, which is
the property. What a cycle makes of the validators' account is a fold over the places of the list.
That the fold has a value at all is shown as in `NodeListSorting`, by repeating its defining
step (`FoldingExists`); that a setting has, after it, the value of its latest due change
(`LatestValues`) by the positions of the list. An update that prunes the list it goes through
leaves changes out, but none that it keeps out of order (`Pruned`, `Selected`).

### 5.5 DataProofs

Four components that share nothing but their directory, with a section each.

* `SocketsAgree` and `Watched` (`AlwaysWatched`): what each handler does to the two maps and
  to the timers is one lemma per helper (`UnsubscribeKeeps`, `SubscribeKeeps`, `ReplaceKeeps`)
  and one step per action. No bound on calls in flight is used.
* `SubscriptionsTyped` (`TypeOK`) says, beyond types, what a subscription can come to: senders
  and radii within their bounds, calls with nodes and numbers of tries that a step of the code
  can leave. A subscription is the recursive function `Outcomes` over the tries that are left.
  That a call ends is shown by going on for as many rounds as remain (`RoundsLeft`,
  `RunExists`), what it ends in by the call with the fewest of them that would be an exception
  (`OutcomesTyped`).
* `HealthyStay` (`HealthyKept`): of the senders in a subset the trimming keeps the first in
  order (`KeepsOne`), and, since subsets have no node in common, nothing that is trimmed from
  another subset takes it away (`TrimKeepsOne`).
* `AllStored` (`GenesisStored`) speaks of states without calls of `storeAccountData`. What
  leads there is that, as long as no call has ended with the flag set, batches wait only
  behind the flag, the flag is set only while a call is under way, and no batch with a true
  account is nowhere: it is stored, combined or in a call (`Waiting`).
* `TurnedAwayRightly` (`BusyOnlyWithOthers`): with the timer running for a period, every
  place is of a validator that asked in this period or the last (`Places`), so that those who
  hold the places when one is turned away are the others the property asks for. Places left
  from before the timer was stopped are given up when it first runs again.
* `LogsKept` (`LogComplete`): the files are pieces of one sequence of entries. `Names` lists the
  files there are while a number is written, in the first round and later; `Age` is the place
  of each in the sequence, and a rotation only shifts the ages of those it leaves
  (`NextAges`, `RotationKeeps`), deleting what is older than all of them (`OlderDeleted`). A file
  has ended but for the one being written (`Chain`). A crash leaves the last file cut off
  (`CrashKept`) or the files of a rotation that has not begun (`CrashInRotation`) or is
  complete, where `init` ends the last file again (`ReopenTurned`). An entry that is in no file
  and neither lost nor waiting is older than all files (`Pushed`), and then a file of each number
  but one comes after it (`PushedOut`).

### 5.6 ReceiptVerificationProofs

`ExecutionGroupsHold`, `AcceptedBackedHolds` and `GenuineAcceptedHolds`, in three layers.

*Who executes.* `ShardFunctions` against the distance on the ring, for any numbers of nodes and
sizes of groups and edges. The code cuts a range of partitions that wraps in two, collapses it
when it goes round, and scans partitions in an order of its own; `CoveredByIntended` says that
a node covers a partition exactly when the partition is within its intended distance, except in
the networks `ScanStartsInside` names. `AddressInPartition` says that every address is in a
partition that exists, which is where the bound on the number of nodes is needed.

*How many must agree.* The code compares rounded numbers and percentages; the properties speak
of quorums. `RoundUp` relates the two, `VotesAreQuorum` gives it for the signers of a normal
receipt, `MajorityBacked` for the group that votes on a global one.

*What happens in between.* The invariant is `DataInv /\ CallInv /\ ResultInv`. `DataInv`: the
shard data of each cycle that is kept are those of the nodes active in it, the latest cycle
among them. Their array of nodes is live, so that a later activation makes them grow (`Grown`)
while sizes of groups were computed for the smaller number. `CallInv` is about the verification
that waits for the database: what it found before its await holds of the shard data as they are
now, if they are kept still (`Pending`). Growing only adds nodes, hence whoever was a quorum
stays one (`GrownBacked`), and a cleaning removes the data as a whole.

### 5.7 ArchiverTrackingProofs

`TracksArchiversHolds`, `GossipConnectsHolds` and `RefutedInTimeHolds`, from three invariants,
each of which uses those before it. `NetworkInv`: what records say follows from the record
before, e.g. one that is reported lost is a member. `ListsInv`: whatever steps led there, the
lists of an archiver that is up are of the archivers of the newest record, or of the one
before while it has not been processed (`Followed`), and of removed ones that the code leaves in
them; `sorted` is their order by public key, and neighbours are computed from it.
`RefutesInv`: for an archiver reported lost, the refute has been heard, or a timer for it will
run out in time. `GossipConnects` is then a matter of positions on a ring: a neighbour of a
neighbour is the archiver itself (`NextToEachOther`). The lists are built by the recursive
functions of `NodeList`, and their lemmas are cited from `NodeListSorting`.

### 5.8 Only model-checked

* Liveness (`ArchiveWritten`, `ShutdownAllowsRestart`, `CollectionEnds`,
  `SilentReplaced`, `Recovers`, `DigestsCatchUp`, `SyncEnds`): fairness and `ENABLED` are
  out of the prover's reach.
* `NothingLeftOut`: ranks of rows in sets, that is, cardinalities of sets that grow while
  pages of them are read; the rank lemmas would be most of the work. When a proof was
  considered, other constants than those of the run were tried first, and they refuted it:
  the last three points about downloads in section 4 are what was missing from `excused`.
  `data_sync` now meets the first two. The third needs ranges of three cycles and a cycle
  more (`MaxBetweenCycles` and `MaxCycle` one larger, the receipts in cycles 4, 4 and 6),
  761,439 states; this and a dozen other instances, with up to five rows, pages of one to
  three rows and two faults, agreed with what `excused` has of receipts and original
  transactions. The bound on genesis accounts was tried with five of them, of which two move.

## 6. What is not modelled

* *Reading side of the API*: the routes for explorers and for debugging, and the signed
  answers for cycles and nodes that are kept until the next change. The routes other
  archivers download from are in `ArchiverApi`.
* *Database layer*: opening of the files and serialisation of columns.
* *`storeOriginalTxData` of what validators send*: the twin of `storeReceiptData` without
  verification, whose maps are kept in the same way.
* *Retries of the robust query for receipts* (`newPOQReceipt`): switched off by the
  configuration.
* *Functions of `ShardFunctions.ts` that nothing calls*: about three quarters of the file
  come from the validator and have no caller in the archiver.
* *Allowed archivers, tickets, signatures of developers*: checks of signed files when they
  are read, without state but the last file that passed.
* *Configuration, logging, profiling, statistics, request schemas*: nothing depends on
  their state, apart from configuration values, which are constants.
* *Legacy snapshots and their gossip* (`archivedCycle/`): run only with
  `experimentalSnapshot` switched off, which no configuration of the repository does.
* *The pool of verification workers* (`primary-process`, `worker-process`): the receipt
  collection does not use it any more.
* *Repair scripts*: one-off tools that run next to a stopped archiver.
* *Cryptography*: a signature or a hash is good or not, as an attribute of what carries
  it, or is what it was taken of; that an id belongs to one key and a marker to one record
  is assumed.
* *The network's validators*: external. The models say which records, receipts and
  deliveries they can produce, and no more.

Not in a model although the component is: `DataSync` has archivers that answer from the
same tables (API.ts:1389 would let two of them differ in the rows at a position);
`ArchiverTracking` has records processed before the next one arrives, and joining without
a claim that it succeeds, which is the validators' matter (server.ts:331 notes that it may
not); `AccountServing` merges the second query of a page into the first
(Data/AccountDataProvider.ts:246).

## 7. Plan

The modules above are those the plan of this development began with. What is left, in
this order:

| What | Rests on |
|---|---|
| `DataSync`: `NothingLeftOut` of one download | ranks of rows |
| `ShardFunctions`: stored ranges (`Stores`), which nothing proved so far speaks of | the lemmas on consensus ranges |
| Original transactions of validators, as a second instance of the maps of `ReceiptCollection` | — |

## 8. How to run

    tlc -config <run>.cfg <module>.tla      # module and cfg of each run: PROJECT.json
    tlapm <Module>Proofs.tla                # prints what it cannot prove, nothing else

The largest runs take two to three minutes with two workers, the proofs some minutes each.
