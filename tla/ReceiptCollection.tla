------------------------ MODULE ReceiptCollection -------------------------
(***************************************************************************)
(* How an archiver stores the receipts that validators push to it and      *)
(* fetches those it only hears of from other archivers.                    *)
(*                                                                         *)
(* A call of storeReceiptData handles a batch of receipts one after the    *)
(* other and is not awaited by its callers, so that calls interleave at    *)
(* every await: what a call read from the database may be outdated when it *)
(* acts on it.  The maps of receipts in validation, processed, missing and *)
(* being collected are what keeps a receipt from being handled twice.      *)
(*                                                                         *)
(* A receipt is a member of Copy: copies of one transaction may differ in  *)
(* timestamp, in outcome and in whether they pass verification.  Calls     *)
(* without verification (the downloads at startup), the transactions       *)
(* table, which is written like processedTxs, and the cached global        *)
(* account are left out.                                                   *)
(***************************************************************************)
EXTENDS Integers, Sequences, FiniteSets

CONSTANTS
  Tx,                 \* transaction ids
  Account,            \* account ids
  Archivers,          \* the other active archivers, which announce and serve receipts
  Connection,         \* bounds the calls for deliveries of validators that overlap
  Copy,               \* receipts as they are delivered
  NoCopy,             \* no row, no receipt
  TxOf,               \* TxOf[c]: receipt.tx.txId
  TimeOf,             \* TimeOf[c]: receipt.tx.timestamp
  OutcomeOf,          \* OutcomeOf[c]: what appReceiptData says of the execution
  StatesOf,           \* StatesOf[c]: the afterStates, in order
  Genuine,            \* copies with enough signatures of their execution group
  Unhandled,          \* copies that pass the schemas and make the code throw
  Announced,          \* copies the other archivers have, and announce
  GenesisAccounts,    \* the timestamps of the accounts stored at genesis, 0 for none
  Batches,            \* what validators deliver in one message
  receiptsPerInsert,  \* rows collected before receipts are inserted, 100
  bucketSize,         \* rows collected before other tables are written, 1000
  isActive,           \* State.isActive
  maxProcessed        \* processed receipts remembered while not active, 2000

Caller == Connection \cup Tx
Time == {TimeOf[c] : c \in Copy}
\* "success": status 1; "charged": status 0, amountSpent # 0x0; "free": status 0,
\* amountSpent 0x0; "global": a receipt of a global modification.
Outcome == {"success", "charged", "free", "global"}
AccountState == [account : Account, time : Nat \ {0}]
PC == {"idle", "next", "verify", "decide", "account", "apply",
       "insertReceipts", "insertAccounts", "insertTxs", "fetch"}

ASSUME CopyAssumption ==
  /\ NoCopy \notin Copy
  /\ Connection \cap Tx = {}
  /\ TxOf \in [Copy -> Tx]
  /\ TimeOf \in [Copy -> Nat \ {0}]
  /\ OutcomeOf \in [Copy -> Outcome]
  /\ StatesOf \in [Copy -> Seq(AccountState)]
  /\ Genuine \subseteq Copy
  /\ Unhandled \subseteq Copy
  /\ Announced \subseteq Copy
  /\ GenesisAccounts \in [Account -> Nat]
  /\ Batches \subseteq Seq(Copy) \ {<<>>}

\* Bulk inserts happen per 100 receipts and per 1000 rows of the other tables.
ASSUME BucketAssumption ==
  /\ receiptsPerInsert \in Nat \ {0}
  /\ bucketSize \in Nat \ {0}
  /\ \E q \in 1..bucketSize : bucketSize = q * receiptsPerInsert
  /\ isActive \in BOOLEAN
  /\ maxProcessed \in Nat

VARIABLES
  processedReceiptsMap,          \* per transaction a timestamp, 0 for none
  receiptsInValidationMap,
  collectingMissingReceiptsMap,
  missingReceiptsMap,            \* announced by archivers, not received yet
  calls,                         \* the suspended call of each caller
  receiptsTable,                 \* the row of each transaction, NoCopy for none
  accountsTable,                 \* the timestamp of each account's row, 0 for none
  processedTxs,                  \* the transactions that have a row
  refusedReceipts                \* transactions whose receipt the database refused

mapVars == <<processedReceiptsMap, receiptsInValidationMap,
             collectingMissingReceiptsMap, missingReceiptsMap>>
dbVars == <<receiptsTable, accountsTable, processedTxs, refusedReceipts>>
vars == <<mapVars, calls, dbVars>>

NotMissing == [time |-> 0, senders |-> {}]
MissingTx == [time : Time \cup {0}, senders : SUBSET Archivers]

Idle == [pc |-> "idle", todo |-> <<>>, seen |-> NoCopy, states |-> <<>>, row |-> 0,
         receipts |-> <<>>, accounts |-> <<>>, txs |-> <<>>,
         time |-> 0, senders |-> {}]

Call == [pc : PC,
         todo : Seq(Copy),               \* the copy at hand and those after it
         seen : Copy \cup {NoCopy},      \* existingReceipt
         states : Seq(AccountState),     \* afterStates still to handle
         row : Nat,                      \* accountExist, 0 for none
         receipts : Seq([copy : Copy, seen : Copy \cup {NoCopy}]), \* combineReceipts
         accounts : Seq(AccountState),   \* combineAccounts
         txs : Seq(Copy),                \* combineProcessedTxs
         time : Time \cup {0},           \* the receipt that is being fetched,
         senders : SUBSET Archivers]     \* and the archivers still to be asked

TypeOK ==
  /\ processedReceiptsMap \in [Tx -> Time \cup {0}]
  /\ receiptsInValidationMap \in [Tx -> Time \cup {0}]
  /\ collectingMissingReceiptsMap \in [Tx -> Time \cup {0}]
  /\ missingReceiptsMap \in [Tx -> MissingTx]
  /\ calls \in [Caller -> Call]
  /\ receiptsTable \in [Tx -> Copy \cup {NoCopy}]
  /\ accountsTable \in [Account -> Nat]
  /\ processedTxs \subseteq Tx
  /\ refusedReceipts \subseteq Tx

NoTimes == [t \in Tx |-> 0]

Init ==
  /\ processedReceiptsMap = NoTimes
  /\ receiptsInValidationMap = NoTimes
  /\ collectingMissingReceiptsMap = NoTimes
  /\ missingReceiptsMap = [t \in Tx |-> NotMissing]
  /\ calls = [n \in Caller |-> Idle]
  /\ receiptsTable = [t \in Tx |-> NoCopy]
  /\ accountsTable = GenesisAccounts
  /\ processedTxs = {}
  /\ refusedReceipts = {}

-----------------------------------------------------------------------------
(* The database: bulk inserts replace rows with the same key, in order *)

LastOf(S) == CHOOSE i \in S : \A j \in S : j <= i

ReplaceReceipts(table, rows) ==
  [t \in Tx |->
     LET at == {i \in DOMAIN rows : TxOf[rows[i].copy] = t}
     IN IF at = {} THEN table[t] ELSE rows[LastOf(at)].copy]

ReplaceAccounts(table, rows) ==
  [a \in Account |->
     LET at == {i \in DOMAIN rows : rows[i].account = a}
     IN IF at = {} THEN table[a] ELSE rows[LastOf(at)].time]

-----------------------------------------------------------------------------
(* Which receipts are worth saving: verifyAppReceiptData *)

\* Wrong on purpose: the later of two receipts is saved, whatever their outcomes.
NeedToSaveLater(c, existing) ==
  existing # NoCopy => OutcomeOf[c] = "global" \/ TimeOf[existing] <= TimeOf[c]

\* A receipt supersedes one of the same transaction with another timestamp only if
\* that one has neither succeeded nor been charged, and it has itself.
NeedToSave(c, existing) ==
  existing # NoCopy =>
    \/ OutcomeOf[c] = "global"
    \/ TimeOf[existing] = TimeOf[c]
    \/ OutcomeOf[existing] = "free" /\ OutcomeOf[c] \in {"success", "charged"}

-----------------------------------------------------------------------------
(* Calls of storeReceiptData *)

Current(n) == Head(calls[n].todo)

\* Wrong on purpose: the processed transactions are written before the receipts.
NextStageTxsFirst(k) ==
  LET full(rows, size) == Len(rows) >= IF k.todo = <<>> THEN 1 ELSE size
  IN IF k.states # <<>> THEN "account"
     ELSE IF full(k.txs, bucketSize) THEN "insertTxs"
     ELSE IF full(k.receipts, receiptsPerInsert) THEN "insertReceipts"
     ELSE IF full(k.accounts, bucketSize) THEN "insertAccounts"
     ELSE IF k.todo = <<>> THEN "idle"
     ELSE "next"

\* Where a call goes on: the account states of the copy at hand come first, then the
\* rows that fill a bucket are written, all of them when the batch is through.
NextStage(k) ==
  LET full(rows, size) == Len(rows) >= IF k.todo = <<>> THEN 1 ELSE size
  IN IF k.states # <<>> THEN "account"
     ELSE IF full(k.receipts, receiptsPerInsert) THEN "insertReceipts"
     ELSE IF full(k.accounts, bucketSize) THEN "insertAccounts"
     ELSE IF full(k.txs, bucketSize) THEN "insertTxs"
     ELSE IF k.todo = <<>> THEN "idle"
     ELSE "next"

Resumed(k) == IF NextStage(k) = "idle" THEN Idle ELSE [k EXCEPT !.pc = NextStage(k)]

\* The call of n goes on as k.  When the batch is through, an archiver that is not
\* active forgets all processed receipts if they are too many.
Continue(n, k, processed) ==
  /\ calls' = [calls EXCEPT ![n] = Resumed(k)]
  /\ processedReceiptsMap' =
       IF /\ NextStage(k) = "idle"
          /\ ~ isActive
          /\ Cardinality({t \in Tx : processed[t] # 0}) > maxProcessed
         THEN NoTimes
         ELSE processed

WithoutCurrent(k) == [k EXCEPT !.todo = Tail(@), !.seen = NoCopy, !.row = 0]

\* Wrong on purpose: a receipt that is being validated is validated once more.
KnownProcessed(t, time) == processedReceiptsMap[t] = time

\* The receipt of t with this timestamp is processed already or being validated.
Known(t, time) ==
  \/ processedReceiptsMap[t] = time
  \/ receiptsInValidationMap[t] = time

Deliver(n, batch) ==
  /\ n \in Connection
  /\ calls[n].pc = "idle"
  /\ calls' = [calls EXCEPT ![n] = [Idle EXCEPT !.pc = "next", !.todo = batch]]
  /\ UNCHANGED <<mapVars, dbVars>>

SkipCopy(n) ==
  /\ calls[n].pc = "next"
  /\ Known(TxOf[Current(n)], TimeOf[Current(n)])
  /\ Continue(n, WithoutCurrent(calls[n]), processedReceiptsMap)
  /\ UNCHANGED <<receiptsInValidationMap, collectingMissingReceiptsMap,
                 missingReceiptsMap, dbVars>>

StartCopy(n) ==
  /\ calls[n].pc = "next"
  /\ ~ Known(TxOf[Current(n)], TimeOf[Current(n)])
  /\ receiptsInValidationMap' =
       [receiptsInValidationMap EXCEPT ![TxOf[Current(n)]] = TimeOf[Current(n)]]
  /\ calls' = [calls EXCEPT ![n].pc = "verify"]
  /\ UNCHANGED <<processedReceiptsMap, collectingMissingReceiptsMap,
                 missingReceiptsMap, dbVars>>

\* Wrong on purpose: the transaction stays in validation when its copy is dropped.
DropOnly(n) ==
  /\ Continue(n, WithoutCurrent(calls[n]), processedReceiptsMap)
  /\ UNCHANGED <<receiptsInValidationMap, collectingMissingReceiptsMap,
                 missingReceiptsMap, dbVars>>

\* The checks that fail, or throw where the code catches it, all end like this: the
\* copy is dropped, its transaction is not in validation any more, the batch goes on.
Drop(n) ==
  /\ receiptsInValidationMap' =
       [receiptsInValidationMap EXCEPT ![TxOf[Current(n)]] = 0]
  /\ Continue(n, WithoutCurrent(calls[n]), processedReceiptsMap)
  /\ UNCHANGED <<collectingMissingReceiptsMap, missingReceiptsMap, dbVars>>

\* Verification also fails for a genuine copy whose cycle the archiver does not know.
Reject(n) ==
  /\ calls[n].pc = "verify"
  /\ Drop(n)

ReadReceipt(n) ==
  /\ calls[n].pc = "verify"
  /\ Current(n) \in Genuine
  /\ calls' = [calls EXCEPT ![n].pc = "decide",
                            ![n].seen = receiptsTable[TxOf[Current(n)]]]
  /\ UNCHANGED <<mapVars, dbVars>>

Decline(n) ==
  /\ calls[n].pc = "decide"
  /\ ~ NeedToSave(Current(n), calls[n].seen)
  /\ Drop(n)

\* Nothing catches what verifyReceiptData throws, or the sorting of offsets that a copy
\* does not have: the call ends, with the rows it had collected and the rest of its
\* batch, and the transaction stays in validation.
Throw(n) ==
  /\ \/ calls[n].pc = "verify"
     \/ calls[n].pc = "decide" /\ NeedToSave(Current(n), calls[n].seen)
  /\ Current(n) \in Unhandled
  /\ calls' = [calls EXCEPT ![n] = Idle]
  /\ UNCHANGED <<mapVars, dbVars>>

\* A copy without afterStates, which the schema allows, ends the call when it is already
\* processed: it is one of the rows that are lost.
ThrowAccepted(n) ==
  /\ calls[n].pc = "decide"
  /\ NeedToSave(Current(n), calls[n].seen)
  /\ Current(n) \in Unhandled
  /\ LET c == Current(n)
     IN /\ processedReceiptsMap' = [processedReceiptsMap EXCEPT ![TxOf[c]] = TimeOf[c]]
        /\ receiptsInValidationMap' = [receiptsInValidationMap EXCEPT ![TxOf[c]] = 0]
        /\ missingReceiptsMap' = [missingReceiptsMap EXCEPT ![TxOf[c]] = NotMissing]
  /\ calls' = [calls EXCEPT ![n] = Idle]
  /\ UNCHANGED <<collectingMissingReceiptsMap, dbVars>>

\* The copy is through with its account states: its rows of the other tables are queued.
FinishCopy(k) == WithoutCurrent([k EXCEPT !.txs = Append(@, Head(k.todo))])

Accept(n) ==
  /\ calls[n].pc = "decide"
  /\ NeedToSave(Current(n), calls[n].seen)
  /\ LET c == Current(n)
         k == [calls[n] EXCEPT
                 !.receipts = Append(@, [copy |-> c, seen |-> calls[n].seen]),
                 !.states = StatesOf[c],
                 !.seen = NoCopy]
     IN /\ Continue(n, IF StatesOf[c] = <<>> THEN FinishCopy(k) ELSE k,
                    [processedReceiptsMap EXCEPT ![TxOf[c]] = TimeOf[c]])
        /\ receiptsInValidationMap' = [receiptsInValidationMap EXCEPT ![TxOf[c]] = 0]
        /\ missingReceiptsMap' = [missingReceiptsMap EXCEPT ![TxOf[c]] = NotMissing]
  /\ UNCHANGED <<collectingMissingReceiptsMap, dbVars>>

ReadAccount(n) ==
  /\ calls[n].pc = "account"
  /\ calls' = [calls EXCEPT ![n].pc = "apply",
                            ![n].row = accountsTable[Head(calls[n].states).account]]
  /\ UNCHANGED <<mapVars, dbVars>>

\* Wrong on purpose: a row is updated whatever its timestamp.
Exists(state, row) == row # 0

\* accountExist, and this state of the account is the newer one.
Newer(state, row) == row # 0 /\ state.time > row

\* The state at hand updates its row if it is newer, which the database may refuse,
\* or joins the accounts to insert if there was no row.
ApplyAccount(n) ==
  /\ calls[n].pc = "apply"
  /\ LET state == Head(calls[n].states)
         rest == [calls[n] EXCEPT !.states = Tail(@), !.row = 0,
                                  !.accounts = IF calls[n].row = 0
                                                 THEN Append(@, state) ELSE @]
     IN /\ Continue(n, IF rest.states = <<>> THEN FinishCopy(rest) ELSE rest,
                    processedReceiptsMap)
        /\ \/ UNCHANGED accountsTable
           \/ /\ Newer(state, calls[n].row)
              /\ accountsTable' = [accountsTable EXCEPT ![state.account] = state.time]
  /\ UNCHANGED <<receiptsInValidationMap, collectingMissingReceiptsMap,
                 missingReceiptsMap, receiptsTable, processedTxs, refusedReceipts>>

\* Inserts either happen or are refused; the error is logged and the rows are gone.
InsertReceipts(n) ==
  /\ calls[n].pc = "insertReceipts"
  /\ \/ /\ receiptsTable' = ReplaceReceipts(receiptsTable, calls[n].receipts)
        /\ UNCHANGED refusedReceipts
     \/ /\ refusedReceipts' = refusedReceipts
             \cup {TxOf[calls[n].receipts[i].copy] : i \in DOMAIN calls[n].receipts}
        /\ UNCHANGED receiptsTable
  /\ Continue(n, [calls[n] EXCEPT !.receipts = <<>>], processedReceiptsMap)
  /\ UNCHANGED <<receiptsInValidationMap, collectingMissingReceiptsMap,
                 missingReceiptsMap, accountsTable, processedTxs>>

InsertAccounts(n) ==
  /\ calls[n].pc = "insertAccounts"
  /\ \/ accountsTable' = ReplaceAccounts(accountsTable, calls[n].accounts)
     \/ UNCHANGED accountsTable
  /\ Continue(n, [calls[n] EXCEPT !.accounts = <<>>], processedReceiptsMap)
  /\ UNCHANGED <<receiptsInValidationMap, collectingMissingReceiptsMap,
                 missingReceiptsMap, receiptsTable, processedTxs, refusedReceipts>>

InsertTxs(n) ==
  /\ calls[n].pc = "insertTxs"
  /\ \/ processedTxs' = processedTxs
             \cup {TxOf[calls[n].txs[i]] : i \in DOMAIN calls[n].txs}
     \/ UNCHANGED processedTxs
  /\ Continue(n, [calls[n] EXCEPT !.txs = <<>>], processedReceiptsMap)
  /\ UNCHANGED <<receiptsInValidationMap, collectingMissingReceiptsMap,
                 missingReceiptsMap, receiptsTable, accountsTable, refusedReceipts>>

-----------------------------------------------------------------------------
(* Receipts that other archivers announce: processGossipData and the fetches *)

\* Archiver a announces the receipt of t with this timestamp.  Another timestamp than
\* the one t is missing with, or a second announcement of a, changes nothing.
Announce(a, t, time) ==
  /\ ~ Known(t, time)
  /\ collectingMissingReceiptsMap[t] # time
  /\ missingReceiptsMap[t] = NotMissing \/ missingReceiptsMap[t].time = time
  /\ missingReceiptsMap' =
       [missingReceiptsMap EXCEPT ![t] = [time |-> time, senders |-> @.senders \cup {a}]]
  /\ UNCHANGED <<processedReceiptsMap, receiptsInValidationMap,
                 collectingMissingReceiptsMap, calls, dbVars>>

\* Wrong on purpose: a fetch without a result leaves its entry in the map.
EndFetchOnly(t, k) ==
  /\ collectingMissingReceiptsMap' = IF k = Idle THEN collectingMissingReceiptsMap
                                     ELSE [collectingMissingReceiptsMap EXCEPT ![t] = 0]
  /\ calls' = [calls EXCEPT ![t] = k]

\* The fetch of t ends, with a receipt or without one.
EndFetch(t, k) ==
  /\ collectingMissingReceiptsMap' = [collectingMissingReceiptsMap EXCEPT ![t] = 0]
  /\ calls' = [calls EXCEPT ![t] = k]

\* The fetch of t, or of what is left of it, goes on with these archivers.
AskNext(t, time, senders) ==
  IF senders = {} \/ Known(t, time)
    THEN EndFetch(t, Idle)
    ELSE /\ collectingMissingReceiptsMap' =
              [collectingMissingReceiptsMap EXCEPT ![t] = time]
         /\ calls' = [calls EXCEPT ![t] =
              [Idle EXCEPT !.pc = "fetch", !.time = time, !.senders = senders]]

\* An entry of the missing receipts is old enough, and is fetched from those of its
\* senders that are still active.  One fetch per transaction at a time is a bound.
StartFetch(t, active) ==
  /\ missingReceiptsMap[t] # NotMissing
  /\ calls[t].pc = "idle"
  /\ missingReceiptsMap' = [missingReceiptsMap EXCEPT ![t] = NotMissing]
  /\ AskNext(t, missingReceiptsMap[t].time, missingReceiptsMap[t].senders \cap active)
  /\ UNCHANGED <<processedReceiptsMap, receiptsInValidationMap, dbVars>>

\* The archiver that is asked has nothing, or does not answer.
FetchNothing(t, a) ==
  /\ calls[t].pc = "fetch"
  /\ AskNext(t, calls[t].time, calls[t].senders \ {a})
  /\ UNCHANGED <<processedReceiptsMap, receiptsInValidationMap, missingReceiptsMap, dbVars>>

\* It answers with c, which storeReceiptData starts on before the fetch ends.
FetchFound(t, c) ==
  /\ calls[t].pc = "fetch"
  /\ TxOf[c] = t
  /\ TimeOf[c] = calls[t].time
  /\ IF Known(t, TimeOf[c])
       THEN /\ EndFetch(t, Idle)
            /\ UNCHANGED receiptsInValidationMap
       ELSE /\ EndFetch(t, [Idle EXCEPT !.pc = "verify", !.todo = <<c>>])
            /\ receiptsInValidationMap' = [receiptsInValidationMap EXCEPT ![t] = TimeOf[c]]
  /\ UNCHANGED <<processedReceiptsMap, missingReceiptsMap, dbVars>>

-----------------------------------------------------------------------------
(* What happens around it *)

\* With every cycle record receipts with old timestamps are forgotten.
CleanOldReceiptsMap(time) ==
  /\ processedReceiptsMap' =
       [t \in Tx |-> IF processedReceiptsMap[t] < time THEN 0 ELSE processedReceiptsMap[t]]
  /\ UNCHANGED <<receiptsInValidationMap, collectingMissingReceiptsMap,
                 missingReceiptsMap, calls, dbVars>>

\* The archiver stops and starts again; the database is what it was.
Restart ==
  /\ processedReceiptsMap' = NoTimes
  /\ receiptsInValidationMap' = NoTimes
  /\ collectingMissingReceiptsMap' = NoTimes
  /\ missingReceiptsMap' = [t \in Tx |-> NotMissing]
  /\ calls' = [n \in Caller |-> Idle]
  /\ UNCHANGED dbVars

CallStep(n) ==
  \/ SkipCopy(n) \/ StartCopy(n) \/ Reject(n) \/ ReadReceipt(n) \/ Decline(n)
  \/ Throw(n) \/ ThrowAccepted(n) \/ Accept(n) \/ ReadAccount(n) \/ ApplyAccount(n)
  \/ InsertReceipts(n) \/ InsertAccounts(n) \/ InsertTxs(n)

FetchStep(t) ==
  \/ \E a \in calls[t].senders : FetchNothing(t, a)
  \/ \E c \in Announced : FetchFound(t, c)

Next ==
  \/ \E n \in Connection, batch \in Batches : Deliver(n, batch)
  \/ \E n \in Caller : CallStep(n) \/ FetchStep(n)
  \/ \E c \in Announced, a \in Archivers : Announce(a, TxOf[c], TimeOf[c])
  \/ \E t \in Tx, active \in SUBSET Archivers : StartFetch(t, active)
  \/ \E time \in Time : CleanOldReceiptsMap(time)
  \/ Restart

Spec == Init /\ [][Next]_vars

\* Database calls and requests settle, and the interval that fetches keeps firing.
Fairness ==
  /\ \A n \in Connection : WF_vars(CallStep(n))
  /\ \A t \in Tx : WF_vars(\/ CallStep(t) \/ FetchStep(t)
                         \/ \E active \in SUBSET Archivers : StartFetch(t, active))

FairSpec == Spec /\ Fairness

-----------------------------------------------------------------------------
(* Properties *)

\* The call of n is validating a receipt: storeReceiptData between adding it to
\* receiptsInValidationMap and removing it.
Validating(n) == calls[n].pc \in {"verify", "decide"}

OneTimestamp(t) == \A c, d \in Copy : TxOf[c] = t /\ TxOf[d] = t => TimeOf[c] = TimeOf[d]

\* As long as all copies of a transaction have the same timestamp, two calls of
\* storeReceiptData never validate its receipt at the same time, whether it was
\* pushed by validators, fetched from archivers, or both.
OneValidation ==
  \A m, n \in Caller :
    /\ Validating(m) /\ Validating(n)
    /\ TxOf[Current(m)] = TxOf[Current(n)]
    /\ OneTimestamp(TxOf[Current(n)])
    => m = n

\* A processed transaction, which the digests are computed from, has its receipt in
\* the receipts table unless the database refused it: storeReceiptData writes the
\* tables in this order for every size of batches and buckets, and a restart in
\* between leaves no processed transaction without receipt.
ProcessedHasReceipt ==
  \A t \in processedTxs : receiptsTable[t] # NoCopy \/ t \in refusedReceipts

\* How much a receipt settles: verifyAppReceiptData saves in this order only.
Rank(c) == CASE OutcomeOf[c] = "free" -> 0
             [] OutcomeOf[c] = "charged" -> 1
             [] OutcomeOf[c] = "success" -> 1
             [] OTHER -> 2

\* A call is about to insert a copy of t which was compared with another row than the
\* one that is there now.
OutdatedReceipt(t) ==
  \E n \in Caller : /\ calls[n].pc = "insertReceipts"
                    /\ \E i \in DOMAIN calls[n].receipts :
                         /\ TxOf[calls[n].receipts[i].copy] = t
                         /\ calls[n].receipts[i].seen # receiptsTable[t]

\* A stored receipt gives way to one with another timestamp that settles no more only
\* if the decision was taken on a row that is not there any more: the table of cases
\* in verifyAppReceiptData is right, the time that passes until the insert is not.
SupersededOnlyUnseen ==
  [][\A t \in Tx :
       /\ receiptsTable[t] # NoCopy
       /\ receiptsTable'[t] # receiptsTable[t]
       /\ TimeOf[receiptsTable'[t]] # TimeOf[receiptsTable[t]]
       /\ OutcomeOf[receiptsTable'[t]] # "global"
       /\ Rank(receiptsTable'[t]) <= Rank(receiptsTable[t])
       => OutdatedReceipt(t)]_vars

\* A call acts on a row of account a that has changed since it read it.
OutdatedAccount(a) ==
  \E n \in Caller :
    \/ /\ calls[n].pc = "apply"
       /\ Head(calls[n].states).account = a
       /\ calls[n].row # accountsTable[a]
    \/ /\ calls[n].pc = "insertAccounts"
       /\ \E i \in DOMAIN calls[n].accounts : calls[n].accounts[i].account = a

\* An account's row only goes back to an older state when storeReceiptData acts on a
\* row it read before another call changed it.
RewoundOnlyUnseen ==
  [][\A a \in Account : accountsTable'[a] < accountsTable[a] => OutdatedAccount(a)]_vars

\* What an exception left in validation: no call is validating the receipt with this
\* timestamp, and one of its copies makes the code throw.
Abandoned(t) ==
  /\ \E c \in Unhandled : TxOf[c] = t /\ TimeOf[c] = receiptsInValidationMap[t]
  /\ \A n \in Caller : Validating(n) =>
       TxOf[Current(n)] # t \/ TimeOf[Current(n)] # receiptsInValidationMap[t]

\* A fetch ends whoever answers: an entry that stayed in collectingMissingReceiptsMap would
\* make processGossipData ignore all further announcements of the receipt.  A validation
\* ends too, or later copies would be skipped for good: storeReceiptData takes the entry
\* back at each of its own exits, and only an exception that nothing catches, on a copy
\* that makes the code throw, leaves it behind, until the archiver is started again.
CollectionEnds ==
  \A t \in Tx :
    /\ collectingMissingReceiptsMap[t] # 0 ~> collectingMissingReceiptsMap[t] = 0
    /\ receiptsInValidationMap[t] # 0 ~> receiptsInValidationMap[t] = 0 \/ Abandoned(t)

=============================================================================
