------------------------- MODULE CycleProcessing --------------------------
(***************************************************************************)
(* How an archiver turns the cycle records its data senders push to it     *)
(* into its own copy of the cycle chain.                                   *)
(*                                                                         *)
(* collectCycleData counts the senders of every record and hands a record  *)
(* to processCycles once enough of them agree.  The call is not awaited:   *)
(* processCycles applies the record to the archiver's state up to its      *)
(* first await, and then lives on as a task that interleaves with the      *)
(* collection and processing of other records at each later await.         *)
(*                                                                         *)
(* Node lists are abstracted to the set of listed and of active nodes a    *)
(* record leaves behind; module NodeList models their contents.            *)
(***************************************************************************)
EXTENDS Integers, Sequences, FiniteSets

CONSTANTS
  Nodes,                      \* validators, which are also data senders
  Archivers,                  \* the other active archivers, which gossip cycles
  Record,                     \* cycle records that pass validateCycleData
  NoRecord,                   \* null
  Counter,                    \* Counter[r]: the cycle number of r
  Mode,                       \* Mode[r]: the network mode r announces
  ListedAfter,                \* ListedAfter[r]: syncing and active nodes after r
  ActiveAfter,                \* ActiveAfter[r]: active nodes after r
  Stored,                     \* records in the cycles table at startup
  StartCounter,               \* currentCycleCounter at startup, -1 for a new archiver
  isFirst,                    \* State.isFirst: the archiver that seeds the network
  Paced,                      \* a new cycle arrives only after the last one is done
  currentConsensusRadius,
  maxConfirmations,           \* the cap on the confirmations needed, 5 in the code
  minCycleConfirmationsToSave,\* config: may raise a capped number of confirmations
  earlyCycles,                \* cycles up to this one need one confirmation, 15
  lateConfirmations,          \* confirmations without active nodes after them, 3
  maxCyclesInCycleTracker,    \* counters kept in the tracker, 5
  maxCachedCycles             \* MAX_CYCLES_PER_REQUEST, 100

Sender == Nodes \cup Archivers
Counters == {Counter[r] : r \in Record}
TaskPC == {"load", "query", "insert", "global", "sleep", "clear"}

ASSUME RecordAssumption ==
  /\ NoRecord \notin Record
  /\ Counter \in [Record -> Nat]
  /\ ListedAfter \in [Record -> SUBSET Nodes]
  /\ ActiveAfter \in [Record -> SUBSET Nodes]
  /\ StartCounter \in Int

ASSUME StartAssumption ==
  /\ Stored \subseteq Record
  /\ IsFiniteSet(Stored)
  /\ \A r \in Stored : Counter[r] <= StartCounter
  /\ \A q, r \in Stored : Counter[q] = Counter[r] => q = r

ASSUME ConfigAssumption ==
  /\ isFirst \in BOOLEAN
  /\ Paced \in BOOLEAN
  /\ currentConsensusRadius \in Nat \ {0}
  /\ maxConfirmations \in Nat \ {0}
  /\ minCycleConfirmationsToSave \in Int
  /\ earlyCycles \in Nat
  /\ lateConfirmations \in Nat
  /\ maxCyclesInCycleTracker \in Nat
  /\ maxCachedCycles \in Nat \ {0}

VARIABLES
  receivedCycleTracker,        \* per counter, the records received in order of arrival
  lastSent,                    \* the counter each sender is at (its socket is ordered)
  currentCycleCounter,
  byPublicKey,                 \* the listed nodes
  activeList,                  \* the active nodes
  currentNetworkMode,
  cycleRecordWithShutDownMode,
  foundFirstNode,
  cachedCycleRecords,          \* newest first
  lastCacheUpdateFromDBRunning,
  cyclesTable,                 \* the rows of the cycles table
  failedWrites,                \* records whose insert the database refused
  tasks,                       \* the calls of processCycles that are suspended
  restartedFrom                \* what first nodes were told to restart from

trackerVars == <<receivedCycleTracker, lastSent>>
nodeListVars == <<byPublicKey, activeList>>
modeVars == <<currentNetworkMode, cycleRecordWithShutDownMode>>
firstNodeVars == <<foundFirstNode, restartedFrom>>
cacheVars == <<cachedCycleRecords, lastCacheUpdateFromDBRunning>>
dbVars == <<cyclesTable, failedWrites>>
vars == <<trackerVars, currentCycleCounter, nodeListVars, modeVars, firstNodeVars,
          cacheVars, dbVars, tasks>>

Entry == [record : Record, senderNodes : SUBSET Sender, saved : BOOLEAN]
Task == [record : Record, copies : Nat, pc : TaskPC]

Init ==
  /\ receivedCycleTracker = [c \in Counters |-> <<>>]
  /\ lastSent = [s \in Sender |-> -1]
  /\ currentCycleCounter = StartCounter
  /\ byPublicKey = {}
  /\ activeList = {}
  /\ currentNetworkMode = "forming"
  /\ cycleRecordWithShutDownMode = NoRecord
  /\ foundFirstNode = FALSE
  /\ cachedCycleRecords = <<>>
  /\ lastCacheUpdateFromDBRunning = FALSE
  /\ cyclesTable = Stored
  /\ failedWrites = {}
  /\ tasks = {}
  /\ restartedFrom = {}

-----------------------------------------------------------------------------
(* Counting confirmations: collectCycleData *)

\* Cycles are accepted from anyone until there are active nodes, afterwards only
\* from active nodes and active archivers.
Authorised(s) == activeList = {} \/ s \in activeList \cup Archivers

MinCycleConfirmations(c) ==
  LET groups == (Cardinality(activeList) + currentConsensusRadius - 1)
                  \div currentConsensusRadius
      capped == IF groups < maxConfirmations THEN groups ELSE maxConfirmations
      needed == IF capped # 0 THEN capped
                ELSE IF c <= earlyCycles THEN 1 ELSE lateConfirmations
  IN IF needed = maxConfirmations /\ minCycleConfirmationsToSave > maxConfirmations
       THEN minCycleConfirmationsToSave
       ELSE needed

\* The entries of a counter after sender s delivered r: the first delivery of a
\* record adds an entry, later ones add their sender to it once.
Vote(entries, r, s) ==
  IF \E i \in DOMAIN entries : entries[i].record = r
    THEN [i \in DOMAIN entries |->
            IF entries[i].record = r
              THEN [entries[i] EXCEPT !.senderNodes = @ \cup {s}]
              ELSE entries[i]]
    ELSE Append(entries, [record |-> r, senderNodes |-> {s}, saved |-> FALSE])

AnySaved(entries) == \E i \in DOMAIN entries : entries[i].saved

\* The loop over the entries stops at the first one that is saved.
BeforeSaved(entries) ==
  {i \in DOMAIN entries : \A j \in 1..i : ~ entries[j].saved}

Confirmed(entries, needed) ==
  {i \in BeforeSaved(entries) : Cardinality(entries[i].senderNodes) >= needed}

\* Wrong on purpose: a second saved record resets the flag of every entry.
MarkSavedResetAll(entries, r, needed) ==
  LET retract == AnySaved(entries) /\ Confirmed(entries, needed) # {}
  IN [i \in DOMAIN entries |->
        [entries[i] EXCEPT !.saved = ~ retract /\ (@ \/ i \in Confirmed(entries, needed))]]

\* Every confirmed entry the loop meets is flagged.  When the loop then meets a
\* saved entry it takes back what it queued, which is always the record just
\* received, whatever entry was confirmed.
MarkSaved(entries, r, needed) ==
  LET retract == AnySaved(entries) /\ Confirmed(entries, needed) # {}
  IN [i \in DOMAIN entries |->
        [entries[i] EXCEPT !.saved =
            IF retract /\ entries[i].record = r
              THEN FALSE
              ELSE @ \/ i \in Confirmed(entries, needed)]]

\* How many times the received record is queued for processCycles.
Copies(entries, needed) ==
  IF AnySaved(entries) THEN 0 ELSE Cardinality(Confirmed(entries, needed))

\* Once it holds too many counters, the tracker forgets those far behind.
Trim(tracker, current) ==
  IF Cardinality({c \in Counters : tracker[c] # <<>>}) > maxCyclesInCycleTracker
    THEN [c \in Counters |->
            IF c < current - maxCyclesInCycleTracker THEN <<>> ELSE tracker[c]]
    ELSE tracker

-----------------------------------------------------------------------------
(* Applying a record: processCycles up to its first await *)

\* addCyclesToCache puts every element of the array it is given in front.
Cached(cache, r, copies) ==
  LET longer == [i \in 1..copies |-> r] \o cache
  IN SubSeq(longer, 1, IF Len(longer) < maxCachedCycles THEN Len(longer)
                                                        ELSE maxCachedCycles)

\* An empty cache is first filled from the database by the caller that finds no
\* other one doing so; any other caller adds its record at once.
AddToCache(r, copies) ==
  IF cachedCycleRecords = <<>> /\ ~ lastCacheUpdateFromDBRunning
    THEN /\ lastCacheUpdateFromDBRunning' = TRUE
         /\ UNCHANGED cachedCycleRecords
         /\ tasks' = tasks \cup {[record |-> r, copies |-> copies, pc |-> "load"]}
    ELSE /\ cachedCycleRecords' = Cached(cachedCycleRecords, r, copies)
         /\ UNCHANGED lastCacheUpdateFromDBRunning
         /\ tasks' = tasks \cup {[record |-> r, copies |-> copies, pc |-> "query"]}

ChangeNetworkMode(newMode) ==
  /\ currentNetworkMode' = newMode
  /\ cycleRecordWithShutDownMode' =
       IF newMode # currentNetworkMode /\ newMode # "shutdown"
         THEN NoRecord ELSE cycleRecordWithShutDownMode

\* Wrong on purpose: takes any cycle but the current one for a new one.
NotCurrent(r) == Counter[r] # currentCycleCounter

NotProcessed(r) == Counter[r] > currentCycleCounter

ProcessCycle(r, copies) ==
  IF copies > 0 /\ NotProcessed(r)
    THEN /\ currentCycleCounter' = Counter[r]
         /\ byPublicKey' = ListedAfter[r]
         /\ activeList' = ActiveAfter[r]
         /\ ChangeNetworkMode(Mode[r])
         /\ AddToCache(r, copies)
    ELSE UNCHANGED <<currentCycleCounter, nodeListVars, modeVars, cacheVars, tasks>>

\* The network's side: a sender pushes cycles in order but may start anywhere (it
\* was subscribed later), records after a shutdown exist only once a first node
\* restarted the network, and Paced keeps cycles further apart than their processing.
Deliverable(s, r) ==
  /\ Counter[r] >= lastSent[s]
  /\ isFirst => /\ restartedFrom # {}
                /\ \A q \in Record : Mode[q] = "shutdown" /\ Counter[q] < Counter[r]
                                       => q \in restartedFrom
  /\ Paced /\ NotProcessed(r) => tasks = {}

ReceiveCycle(s, r) ==
  LET c == Counter[r]
      entries == Vote(receivedCycleTracker[c], r, s)
      needed == MinCycleConfirmations(c)
  IN /\ Deliverable(s, r)
     /\ lastSent' = [lastSent EXCEPT ![s] = c]
     /\ ProcessCycle(r, IF Authorised(s) THEN Copies(entries, needed) ELSE 0)
     /\ receivedCycleTracker' =
          Trim(IF Authorised(s)
                 THEN [receivedCycleTracker EXCEPT ![c] = MarkSaved(entries, r, needed)]
                 ELSE receivedCycleTracker,
               currentCycleCounter')
     /\ UNCHANGED <<firstNodeVars, dbVars>>

-----------------------------------------------------------------------------
(* The rest of processCycles, one action per await that settles *)

MoveTo(t, pc) == tasks' = (tasks \ {t}) \cup {[t EXCEPT !.pc = pc]}
Finish(t) == tasks' = tasks \ {t}

\* queryLatestCycleRecords: the rows, newest first.
NewestFirst(rows) ==
  {seq \in [1..Cardinality(rows) -> rows] :
     \A i, j \in DOMAIN seq : i < j => /\ seq[i] # seq[j]
                                      /\ Counter[seq[i]] >= Counter[seq[j]]}

\* updateCacheFromDB returns; a failing query yields no rows.
CacheLoaded(t) ==
  /\ t.pc = "load"
  /\ \E rows \in NewestFirst(cyclesTable) \cup {<<>>} :
       cachedCycleRecords' = Cached(rows, t.record, t.copies)
  /\ lastCacheUpdateFromDBRunning' = FALSE
  /\ MoveTo(t, "query")
  /\ UNCHANGED <<trackerVars, currentCycleCounter, nodeListVars, modeVars,
                 firstNodeVars, dbVars>>

\* Wrong on purpose: inserts the rows that exist and skips those that do not.
CycleQueriedInverted(t) ==
  /\ t.pc = "query"
  /\ MoveTo(t, IF t.record \in cyclesTable THEN "insert" ELSE "global")
  /\ UNCHANGED <<trackerVars, currentCycleCounter, nodeListVars, modeVars,
                 firstNodeVars, cacheVars, dbVars>>

\* storeCycleData: the row exists already, or has to be inserted.
CycleQueried(t) ==
  /\ t.pc = "query"
  /\ MoveTo(t, IF t.record \in cyclesTable THEN "global" ELSE "insert")
  /\ UNCHANGED <<trackerVars, currentCycleCounter, nodeListVars, modeVars,
                 firstNodeVars, cacheVars, dbVars>>

\* bulkInsertCycles swallows a failing insert.
CycleInserted(t) ==
  /\ t.pc = "insert"
  /\ \/ cyclesTable' = cyclesTable \cup {t.record} /\ UNCHANGED failedWrites
     \/ failedWrites' = failedWrites \cup {t.record} /\ UNCHANGED cyclesTable
  /\ MoveTo(t, "global")
  /\ UNCHANGED <<trackerVars, currentCycleCounter, nodeListVars, modeVars,
                 firstNodeVars, cacheVars>>

\* Wrong on purpose: ends without looking at the mode.
GlobalAccountUpdatedDone(t) ==
  /\ t.pc = "global"
  /\ Finish(t)
  /\ UNCHANGED <<trackerVars, currentCycleCounter, nodeListVars, modeVars,
                 firstNodeVars, cacheVars, dbVars>>

\* updateGlobalNetworkAccount returns, and the mode is read again.
GlobalAccountUpdated(t) ==
  /\ t.pc = "global"
  /\ IF currentNetworkMode = "shutdown" THEN MoveTo(t, "sleep") ELSE Finish(t)
  /\ UNCHANGED <<trackerVars, currentCycleCounter, nodeListVars, modeVars,
                 firstNodeVars, cacheVars, dbVars>>

\* After a cycle's duration the node lists are cleared and the senders unsubscribed.
ShutdownSlept(t) ==
  /\ t.pc = "sleep"
  /\ byPublicKey' = {}
  /\ activeList' = {}
  /\ MoveTo(t, "clear")
  /\ UNCHANGED <<trackerVars, currentCycleCounter, modeVars, firstNodeVars,
                 cacheVars, dbVars>>

\* Wrong on purpose: keeps no record of the shutdown.
DataSendersClearedNoRecord(t) ==
  /\ t.pc = "clear"
  /\ foundFirstNode' = ~ foundFirstNode
  /\ Finish(t)
  /\ UNCHANGED <<trackerVars, currentCycleCounter, nodeListVars, modeVars,
                 restartedFrom, cacheVars, dbVars>>

\* Wrong on purpose: keeps the first node's slot taken.
DataSendersClearedNoToggle(t) ==
  /\ t.pc = "clear"
  /\ cycleRecordWithShutDownMode' = t.record
  /\ Finish(t)
  /\ UNCHANGED <<trackerVars, currentCycleCounter, nodeListVars, currentNetworkMode,
                 firstNodeVars, cacheVars, dbVars>>

\* Two seconds later the archiver is ready for a first node to restart the network.
DataSendersCleared(t) ==
  /\ t.pc = "clear"
  /\ cycleRecordWithShutDownMode' = t.record
  /\ foundFirstNode' = ~ foundFirstNode
  /\ Finish(t)
  /\ UNCHANGED <<trackerVars, currentCycleCounter, nodeListVars, currentNetworkMode,
                 restartedFrom, cacheVars, dbVars>>

TaskStep(t) ==
  \/ CacheLoaded(t)
  \/ CycleQueried(t)
  \/ CycleInserted(t)
  \/ GlobalAccountUpdated(t)
  \/ ShutdownSlept(t)
  \/ DataSendersCleared(t)

\* POST /nodelist: the first node to ask starts the network, from the shutdown
\* record when there is one.
PostNodeList(n) ==
  /\ isFirst
  /\ byPublicKey = {}
  /\ ~ foundFirstNode
  /\ foundFirstNode' = TRUE
  /\ byPublicKey' = {n}
  /\ restartedFrom' = restartedFrom \cup {cycleRecordWithShutDownMode}
  /\ UNCHANGED <<trackerVars, currentCycleCounter, activeList, modeVars, cacheVars,
                 dbVars, tasks>>

Next ==
  \/ \E s \in Sender, r \in Record : ReceiveCycle(s, r)
  \/ \E t \in tasks : TaskStep(t)
  \/ \E n \in Nodes : PostNodeList(n)

Spec == Init /\ [][Next]_vars

\* Timers fire and promises settle, so a suspended call is always resumed.  Nothing
\* obliges a sender to deliver or a node to ask.
FairSpec ==
  Spec /\ \A r \in Record : WF_vars(\E t \in tasks : t.record = r /\ TaskStep(t))

-----------------------------------------------------------------------------
(* Properties *)

TypeOK ==
  /\ receivedCycleTracker \in [Counters -> Seq(Entry)]
  /\ lastSent \in [Sender -> Nat \cup {-1}]
  /\ currentCycleCounter \in Int
  /\ activeList \subseteq Nodes /\ byPublicKey \subseteq Nodes
  /\ cycleRecordWithShutDownMode \in Record \cup {NoRecord}
  /\ foundFirstNode \in BOOLEAN
  /\ cachedCycleRecords \in Seq(Record)
  /\ lastCacheUpdateFromDBRunning \in BOOLEAN
  /\ cyclesTable \subseteq Record /\ failedWrites \subseteq Record
  /\ tasks \subseteq Task
  /\ restartedFrom \subseteq Record \cup {NoRecord}

\* The records applied so far: still in processing, written, or refused by the database.
Applied == {t.record : t \in tasks} \cup cyclesTable \cup failedWrites

\* However many records of a counter reach their confirmations and however the calls
\* of processCycles overlap, the archiver applies and stores one record per counter.
OneRecordPerCounter ==
  \A q, r \in Applied : Counter[q] = Counter[r] => q = r

\* The archiver accepts cycles in the order of their counters and, whatever the order in
\* which the database answers, writes only what it accepted: it implements CycleArchive.
Archive == INSTANCE CycleArchive WITH
  accepted <- Applied, stored <- cyclesTable, failed <- failedWrites

ArchiveSpec == Archive!Spec

\* Every record that is applied is written in the end, or the database refuses it.
ArchiveWritten == Archive!Written

\* Once an entry of a counter is flagged as saved, one stays flagged for as long as
\* the tracker keeps the counter: the flag moves between entries when a second record
\* of the counter gets its confirmations, but it never vanishes, which would let the
\* loop of collectCycleData hand over the counter a second time.
SavedFlagSurvives ==
  [][\A c \in Counters :
       AnySaved(receivedCycleTracker[c]) =>
         AnySaved(receivedCycleTracker'[c]) \/ receivedCycleTracker'[c] = <<>>]_vars

\* Only one caller of addCyclesToCache at a time fills the cache from the database, and
\* the flag that keeps the others out is up exactly while it does.
OneCacheLoader ==
  /\ \A s, t \in tasks : s.pc = "load" /\ t.pc = "load" => s = t
  /\ lastCacheUpdateFromDBRunning <=> \E t \in tasks : t.pc = "load"

\* A first node that asks after a shutdown is told to restart the network from the last
\* cycle the archiver processed, and that cycle shut the network down; one that asks
\* otherwise is told to form a new network.
RestartFromShutdown ==
  [][(\E n \in Nodes : PostNodeList(n)) =>
       LET q == cycleRecordWithShutDownMode
       IN IF q = NoRecord
            THEN currentNetworkMode # "shutdown"
            ELSE Mode[q] = "shutdown" /\ Counter[q] = currentCycleCounter]_vars

\* Between two calls of processCycles the first archiver waits for a first node exactly
\* when it lists no node: no second node can start another network next to the running
\* one, and a network that was shut down is not locked out.
FirstNodeSlot ==
  tasks = {} => (foundFirstNode <=> byPublicKey # {})

\* After a shutdown the archiver becomes ready for a first node that restarts the network.
ShutdownAllowsRestart ==
  (\E t \in tasks : Mode[t.record] = "shutdown") ~>
     (~ foundFirstNode /\ byPublicKey = {} /\ cycleRecordWithShutDownMode # NoRecord)

=============================================================================
