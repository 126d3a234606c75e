------------------------------ MODULE DataSync ------------------------------
(***************************************************************************)
(* An archiver that starts while others run (syncAndStartServer in         *)
(* server.ts and the downloads of Data/Data.ts).  It compares what it has  *)
(* stored with another archiver's tables, joins, downloads in pages of     *)
(* requests that are awaited one by one, serves, and downloads once more   *)
(* what came in meanwhile.  The tables it reads grow between two requests, *)
(* an answer may be lost after three attempts (queryFromArchivers gives    *)
(* null), and the archiver may be restarted anywhere.  Downloaded rows are *)
(* valid and their inserts succeed: ReceiptCollection and CycleProcessing  *)
(* have that part.  The archivers that answer have the same tables.        *)
(***************************************************************************)
EXTENDS ArchiverApi, FiniteSetsExt

CONSTANTS
  TxRows,           \* the rows there may be of receipts and of original transactions
  GenesisAccounts, GenesisTransactions,
  MovingAccounts,   \* genesis accounts that a transaction may change meanwhile
  GenesisEndCycle,  \* GENESIS_ACCOUNTS_CYCLE_RANGE.endCycle (5)
  ComparedCycles,   \* numberOfCyclesTocompare (10)
  MaxRetryCount,    \* MAX_RETRY_COUNT (3)
  SendActive,       \* config.sendActiveMessage
  InitialRemote,    \* [cycle, receipt, originalTx] of the other archivers
  InitialOwn,       \* what the archiver may have stored
  MaxCycle,         \* bound: cycles of the network
  MaxFaults         \* bound: answers that are lost and restarts

\* Assumed of the constants.
SyncAssumption ==
  /\ GenesisEndCycle \in Nat /\ ComparedCycles \in Nat \ {0}
  /\ MaxRetryCount \in Nat /\ MaxCycle \in Nat /\ MaxFaults \in Nat
  /\ SendActive \in BOOLEAN
  /\ InitialRemote.cycle \in 0..MaxCycle

Kinds == {"receipt", "originalTx"}
Tables == Kinds \cup {"account", "transaction"}
Synced == {"receipt", "originalTx", "cycle"}

VARIABLES
  remote,    \* the tables of the other archivers
  own,       \* the tables of this one
  counter,   \* currentCycleCounter
  active,    \* State.isActive
  pc, kind,  \* the request at hand, and what it is for
  final,     \* the downloads are those of syncCyclesAndTxsDataBetweenCycles
  stored,    \* lastStored...Count and lastStored...Cycle
  loc,       \* variables of the loop at hand
  rest,      \* variables of syncCyclesAndTxsData
  excused,   \* history: rows no download asks for or has asked for in vain
  failures, restarts

tables == <<remote, own, counter, active>>
control == <<pc, kind, final, stored, loc, rest>>
history == <<excused, failures, restarts>>
vars == <<tables, control, history>>

Chain(n) == {[counter |-> c, forked |-> FALSE] : c \in 0..n}
LatestOf(C) == Max({c.counter : c \in C})
LastCycle(T) == Max({r.cycle : r \in T})

\* What earlier runs have left: any records, of cycles of the network or of such that the
\* network has replaced since, with any gaps.  An archiver that serves skips cycles
\* (processCycles), and one that was stopped has not finished its download.
StoredAssumption ==
  \A old \in InitialOwn :
    /\ "cycles" \in DOMAIN old
    /\ old.cycles \subseteq [counter : 0..MaxCycle, forked : BOOLEAN]

NoLoop == [start |-> 0, end |-> 0, total |-> 0, totalCycles |-> 0, from |-> 0, to |-> 0,
           count |-> 0, saved |-> 0, totalSaved |-> 0, page |-> 0, retries |-> 0]
NoRest == [start |-> [k \in Synced |-> 0], end |-> [k \in Synced |-> 0],
           total |-> [k \in Synced |-> 0], complete |-> [k \in Synced |-> TRUE]]
NothingStored == [cycle |-> 0, receipt |-> 0, originalTx |-> 0,
                  receiptCycle |-> 0, originalTxCycle |-> 0]
CycleField(k) == IF k = "receipt" THEN "receiptCycle" ELSE "originalTxCycle"

Init ==
  /\ remote = [cycle |-> InitialRemote.cycle, receipt |-> InitialRemote.receipt,
               originalTx |-> InitialRemote.originalTx,
               account |-> GenesisAccounts, transaction |-> GenesisTransactions]
  /\ own \in InitialOwn
  /\ counter = -1
  /\ active = FALSE
  /\ pc = "start" /\ kind = "receipt" /\ final = FALSE
  /\ stored = NothingStored /\ loc = NoLoop /\ rest = NoRest
  /\ excused = [t \in Tables |-> {}]
  /\ failures = 0 /\ restarts = 0

-----------------------------------------------------------------------------
(* Requests.                                                               *)

\* The query of postJson was answered by none of three archivers.
Lost ==
  /\ failures + restarts < MaxFaults
  /\ failures' = failures + 1

Answered == UNCHANGED failures

\* totalData
Totals == [cycle |-> remote.cycle + 1,
           receipt |-> Cardinality(remote.receipt),
           originalTx |-> Cardinality(remote.originalTx)]

TxReply(k, req) ==
  IF k = "receipt" THEN receiptReply(remote.receipt, req) ELSE originalTxReply(remote.originalTx, req)

GenesisReply(t, req) ==
  IF t = "account" THEN accountReply(remote.account, req) ELSE transactionReply(remote.transaction, req)

\* History: rows that a request that failed had asked for.
Excuse(t, rows) == excused' = [excused EXCEPT ![t] = @ \cup rows]

Download(k, rows) == own' = [own EXCEPT ![k] = @ \cup rows]

GoTo(p) == pc' = p /\ kind' = "receipt"
\* An exception nobody catches: the process goes on, the synchronisation does not.
Stop == pc' = "stopped" /\ UNCHANGED <<kind, final, stored, loc, rest>>

-----------------------------------------------------------------------------
(* Comparing the stored data with that of the network.                     *)

\* syncAndStartServer up to the comparison of the cycles.
CountData ==
  /\ pc = "start"
  /\ UNCHANGED <<tables, excused, restarts>>
  /\ \/ Lost /\ Stop
     \/ /\ Answered
        /\ IF \/ Cardinality(own.receipt) > Totals.receipt
              \/ Cardinality(own.cycles) > Totals.cycle
             THEN Stop
             ELSE /\ GoTo(IF own.cycles = {} THEN "join" ELSE "compareCycles")
                  /\ stored' = [stored EXCEPT !.cycle = Cardinality(own.cycles),
                                              !.receipt = Cardinality(own.receipt),
                                              !.originalTx = Cardinality(own.originalTx)]
                  /\ UNCHANGED <<final, loc, rest>>

Position(C, c) == Cardinality({d \in C : d.counter < c.counter \/ (d.counter = c.counter /\ c.forked /\ ~d.forked)})

\* The records up to the first that differs from the stored one at its place.
MatchedCycles(D, O) ==
  {c \in D : \A d \in D : d.counter <= c.counter => d \in O /\ Position(O, d) = Position(D, d)}

\* One record that matches is enough.  With fewer stored cycles than are compared the range
\* begins below 0, the other archiver refuses it, and its answer has no records to loop over.
CompareWithOldCyclesData ==
  LET last == LatestOf(own.cycles)
      reply == cycleinfoReply(Chain(remote.cycle), [start |-> last - ComparedCycles, end |-> last])
      matched == MatchedCycles(reply.rows, queryCycleRecordsBetween(own.cycles, last - ComparedCycles, last))
  IN  /\ pc = "compareCycles"
      /\ UNCHANGED <<tables, excused, restarts>>
      /\ \/ Lost /\ Stop
         \/ /\ Answered
            /\ IF ~reply.success
                 THEN Stop
                 ELSE IF matched = {}
                   THEN Stop
                   ELSE /\ GoTo("join")
                        /\ stored' = [stored EXCEPT !.cycle = LatestOf(matched)]
                        /\ UNCHANGED <<final, loc, rest>>

\* joinNetwork is tried until it succeeds.
JoinNetwork ==
  /\ pc = "join"
  /\ GoTo("compare")
  /\ UNCHANGED <<tables, final, stored, loc, rest, history>>

\* The cycles up to the first whose tally differs from the stored one at its place.
MatchedTallies(D, O) ==
  {c \in DOMAIN D : /\ {e \in DOMAIN O : e <= c} = {e \in DOMAIN D : e <= c}
                    /\ \A e \in DOMAIN D : e <= c => D[e] = O[e]}

MatchedCycle(M) == IF M = {} THEN 0 ELSE Max(M)

\* Nothing to compare: receipts are then not in the answer at all, original transactions
\* are an empty list that matches.
CompareOldTxs(k) ==
  LET last == LastCycle(own[k])
      from == IF last - ComparedCycles > 0 THEN last - ComparedCycles ELSE 0
      tally == TxReply(k, [startCycle |-> from, endCycle |-> last, type |-> "tally"]).tally
      matched == MatchedTallies(tally, CountByCycle(own[k], from, last))
      matches == matched # {} \/ (k = "originalTx" /\ tally = <<>>)
  IN  /\ stored[k] > 0
      /\ \/ Lost /\ Stop
         \/ /\ Answered
            /\ IF matches
                 THEN /\ stored' = [stored EXCEPT ![CycleField(k)] = MatchedCycle(matched)]
                      /\ IF k = "receipt" THEN pc' = pc /\ kind' = "originalTx" ELSE pc' = "genesisTotal" /\ kind' = "account"
                      /\ UNCHANGED <<final, loc, rest>>
                 ELSE Stop

CompareWithOldReceiptsData == CompareOldTxs("receipt")
CompareWithOldOriginalTxsData == CompareOldTxs("originalTx")

CompareOldData ==
  /\ pc = "compare"
  /\ UNCHANGED <<tables, excused, restarts>>
  /\ \/ kind = "receipt" /\ CompareWithOldReceiptsData
     \/ kind = "originalTx" /\ CompareWithOldOriginalTxsData
     \/ /\ stored[kind] = 0
        /\ IF kind = "receipt" THEN pc' = pc /\ kind' = "originalTx" ELSE pc' = "genesisTotal" /\ kind' = "account"
        /\ UNCHANGED <<final, stored, loc, rest, failures>>

-----------------------------------------------------------------------------
(* Genesis accounts and transactions.                                      *)

GenesisRange == [startCycle |-> 0, endCycle |-> GenesisEndCycle]

AfterGenesis(t) ==
  IF t = "account" THEN pc' = "genesisTotal" /\ kind' = "transaction" ELSE GoTo("syncLists")

\* Without a total, or with none to download, the rest is left out.
GenesisTotal(t) ==
  /\ pc = "genesisTotal" /\ kind = t
  /\ UNCHANGED <<tables, final, stored, rest, restarts>>
  /\ \/ Lost /\ AfterGenesis(t) /\ Excuse(t, remote[t]) /\ UNCHANGED loc
     \/ /\ Answered
        /\ UNCHANGED excused
        /\ IF GenesisReply(t, GenesisRange).total = 0
             THEN AfterGenesis(t) /\ UNCHANGED loc
             ELSE /\ pc' = "genesis" /\ kind' = t
                  /\ loc' = [NoLoop EXCEPT !.page = 1]


\* Wrong on purpose: the page is not advanced.
GenesisPageAgain(t) ==
  LET reply == GenesisReply(t, [startCycle |-> 0, endCycle |-> GenesisEndCycle, page |-> loc.page])
  IN  /\ pc = "genesis" /\ kind = t
      /\ UNCHANGED <<remote, counter, active, final, stored, rest, excused, restarts>>
      /\ \/ Lost /\ UNCHANGED <<own, pc, kind, loc>>
         \/ /\ Answered
            /\ Download(t, reply.rows)
            /\ IF Cardinality(reply.rows) < MaxAccounts
                 THEN AfterGenesis(t) /\ loc' = NoLoop
                 ELSE UNCHANGED <<pc, kind, loc>>

\* A lost page is asked for again; a short one is the last.
GenesisPage(t) ==
  LET reply == GenesisReply(t, [startCycle |-> 0, endCycle |-> GenesisEndCycle, page |-> loc.page])
  IN  /\ pc = "genesis" /\ kind = t
      /\ UNCHANGED <<remote, counter, active, final, stored, rest, excused, restarts>>
      /\ \/ Lost /\ UNCHANGED <<own, pc, kind, loc>>
         \/ /\ Answered
            /\ Download(t, reply.rows)
            /\ IF Cardinality(reply.rows) < MaxAccounts
                 THEN AfterGenesis(t) /\ loc' = NoLoop
                 ELSE loc' = [loc EXCEPT !.page = @ + 1] /\ UNCHANGED <<pc, kind>>

SyncGenesisAccountsFromArchiver == GenesisTotal("account") \/ GenesisPage("account")
SyncGenesisTransactionsFromArchiver == GenesisTotal("transaction") \/ GenesisPage("transaction")

-----------------------------------------------------------------------------
(* Receipts and original transactions, all of them from the first on.      *)


\* Wrong on purpose: the last cycle that matched is taken for complete.
BeginAfter(k, from, to) ==
  /\ kind' = k
  /\ IF final
       THEN /\ pc' = "byCycle"
            /\ loc' = [NoLoop EXCEPT !.start = from, !.end = from + MaxBetweenCycles, !.from = from, !.to = to, !.totalCycles = to]
       ELSE IF stored[k] = 0
              THEN pc' = "total" /\ loc' = NoLoop
              ELSE pc' = "byCycleTotal" /\ loc' = [NoLoop EXCEPT !.start = stored[CycleField(k)] + 1]

\* Where the download of a kind begins: syncReceipts and syncOriginalTxs when nothing was
\* stored, ...ByCycle from the last cycle that matched otherwise, or a range of cycles.
Begin(k, from, to) ==
  /\ kind' = k
  /\ IF final
       THEN /\ pc' = "byCycle"
            /\ loc' = [NoLoop EXCEPT !.start = from, !.end = from + MaxBetweenCycles, !.from = from, !.to = to, !.totalCycles = to]
       ELSE IF stored[k] = 0
              THEN pc' = "total" /\ loc' = NoLoop
              ELSE pc' = "byCycleTotal" /\ loc' = [NoLoop EXCEPT !.start = stored[CycleField(k)]]

\* What follows the download of a kind.
AfterDownload(k) ==
  IF k = "receipt"
    THEN Begin("originalTx", loc.from, loc.to)
    ELSE GoTo(IF final THEN "done" ELSE "check") /\ loc' = NoLoop

Bigger(m, n) == IF m > n THEN m ELSE n

\* const response of getTotalDataFromArchivers is not tested by syncOriginalTxs.
FirstTotal(k) ==
  /\ pc = "total" /\ kind = k
  /\ UNCHANGED <<tables, final, stored, rest, restarts>>
  /\ \/ /\ Lost
        /\ Excuse(k, remote[k])
        /\ IF k = "receipt" THEN AfterDownload(k) ELSE pc' = "stopped" /\ UNCHANGED <<kind, loc>>
     \/ /\ Answered
        /\ UNCHANGED excused
        /\ IF Totals[k] < 1
             THEN AfterDownload(k)
             ELSE /\ pc' = IF MaxPerRequest >= Totals[k] THEN "askTotal" ELSE "page"
                  /\ loc' = [NoLoop EXCEPT !.end = MaxPerRequest, !.total = Totals[k]]
                  /\ UNCHANGED kind

\* The top of the loop: with the last page ahead the total is asked for again.
LoopHead(l) ==
  /\ loc' = l
  /\ pc' = IF l.end >= l.total THEN "askTotal" ELSE "page"
  /\ UNCHANGED kind

AskTotal(k) ==
  /\ pc = "askTotal" /\ kind = k
  /\ pc' = "page"
  /\ UNCHANGED <<tables, kind, final, stored, rest, excused, restarts>>
  /\ \/ Lost /\ UNCHANGED loc
     \/ Answered /\ loc' = [loc EXCEPT !.total = Bigger(@, Totals[k])]

NextPage(l) == [l EXCEPT !.start = l.end, !.end = l.end + MaxPerRequest]

\* Pages overlap in one row.  A page that is lost is left out.
DownloadPage(k) ==
  LET reply == TxReply(k, [start |-> loc.start, end |-> loc.end])
      got == Cardinality(reply.rows)
  IN  /\ pc = "page" /\ kind = k
      /\ UNCHANGED <<remote, counter, active, final, stored, rest, restarts>>
      /\ \/ /\ Lost
            /\ Excuse(k, Page(remote[k], loc.start, MaxPerRequest))
            /\ LoopHead(NextPage(loc))
            /\ UNCHANGED own
         \/ /\ Answered
            /\ Download(k, reply.rows)
            /\ UNCHANGED excused
            /\ IF got < MaxPerRequest
                 THEN /\ pc' = "askAgain"
                      /\ loc' = [loc EXCEPT !.start = @ + got, !.end = loc.start + got + MaxPerRequest]
                      /\ UNCHANGED kind
                 ELSE LoopHead(NextPage(loc))


\* After a short page: complete when nothing was added, and when the answer is lost the
\* next page is left out.
AskAgain(k) ==
  /\ pc = "askAgain" /\ kind = k
  /\ UNCHANGED <<tables, final, stored, rest, restarts>>
  /\ \/ /\ Lost
        /\ Excuse(k, Page(remote[k], loc.start, MaxPerRequest))
        /\ LoopHead(NextPage(loc))
     \/ /\ Answered
        /\ UNCHANGED excused
        /\ IF loc.start = Bigger(loc.total, Totals[k])
             THEN AfterDownload(k)
             ELSE LoopHead([loc EXCEPT !.total = Bigger(@, Totals[k])])

SyncAll(k) == FirstTotal(k) \/ AskTotal(k) \/ DownloadPage(k) \/ AskAgain(k)
SyncReceipts == SyncAll("receipt")
SyncOriginalTxs == SyncAll("originalTx")

-----------------------------------------------------------------------------
(* Receipts and original transactions of a range of cycles.                *)

ByCycleTotal(k) ==
  /\ pc = "byCycleTotal" /\ kind = k
  /\ UNCHANGED <<tables, final, stored, rest, restarts>>
  /\ \/ Lost /\ Excuse(k, remote[k]) /\ AfterDownload(k)
     \/ /\ Answered
        /\ UNCHANGED excused
        /\ IF k = "originalTx" /\ Totals[k] < 1
             THEN AfterDownload(k)
             ELSE /\ pc' = "byCycle"
                  /\ loc' = [loc EXCEPT !.end = loc.start + MaxBetweenCycles,
                                        !.total = Totals[k], !.totalCycles = Totals.cycle]
                  /\ UNCHANGED kind

NextRange(l) ==
  IF l.start > l.end
    THEN AfterDownload(kind)
    ELSE pc' = "count" /\ loc' = l /\ UNCHANGED kind

\* The top of the loop.
ByCycle(k) ==
  LET l == IF loc.end > loc.totalCycles
             THEN [loc EXCEPT !.end = loc.totalCycles, !.totalSaved = Cardinality(own[k])]
             ELSE loc
  IN  /\ pc = "byCycle" /\ kind = k
      /\ UNCHANGED <<tables, final, stored, rest, history>>
      /\ CASE l.to > 0 /\ l.start > l.to -> AfterDownload(k)
           [] l.to = 0 /\ l.totalSaved >= l.total -> pc' = "byCycleAsk" /\ loc' = l /\ UNCHANGED kind
           [] OTHER -> NextRange(l)

\* History: the rows ahead, when the count that ends the loop has rows in it that were stored
\* before and downloaded again.
CountedTwice(k) ==
  IF loc.totalSaved > Cardinality(own[k]) THEN {r \in remote[k] : r.cycle >= loc.start} ELSE {}

\* As many rows as there are, or one more try.
ByCycleAsk(k) ==
  LET l == [loc EXCEPT !.total = Bigger(@, Totals[k]), !.totalCycles = Bigger(@, Totals.cycle)]
  IN  /\ pc = "byCycleAsk" /\ kind = k
      /\ UNCHANGED <<tables, final, stored, rest, restarts>>
      /\ \/ Lost /\ NextRange(loc) /\ UNCHANGED excused
         \/ /\ Answered
            /\ IF Totals[k] > 0 /\ l.totalSaved = l.total
                 THEN AfterDownload(k) /\ Excuse(k, CountedTwice(k))
                 ELSE NextRange(l) /\ UNCHANGED excused

CountRange(k) == TxReply(k, [startCycle |-> loc.start, endCycle |-> loc.end, type |-> "count"])

AfterRange(l) ==
  /\ pc' = "byCycle"
  /\ loc' = [l EXCEPT !.start = l.end + 1, !.end = l.end + MaxBetweenCycles]
  /\ UNCHANGED kind

\* response.receipts is read of no response: an exception.
CountOfRange(k) ==
  /\ pc = "count" /\ kind = k
  /\ UNCHANGED <<tables, excused, restarts>>
  /\ \/ Lost /\ Stop
     \/ /\ Answered
        /\ UNCHANGED <<final, stored, rest>>
        /\ CASE ~CountRange(k).success -> UNCHANGED <<pc, kind, loc>>
             [] CountRange(k).success /\ CountRange(k).total = 0 -> AfterRange(loc)
             [] OTHER -> /\ pc' = "rangePage"
                         /\ loc' = [loc EXCEPT !.count = CountRange(k).total, !.page = 1, !.saved = 0]
                         /\ UNCHANGED kind

\* The loop over the pages ends when as many rows were saved as were counted.
NextPageOfRange(l, got) ==
  IF l.saved < l.count
    THEN pc' = "rangePage" /\ loc' = [l EXCEPT !.totalSaved = @ + got, !.page = @ + 1] /\ UNCHANGED kind
    ELSE AfterRange([l EXCEPT !.totalSaved = @ + got, !.page = @ + 1])

PageOfRange(k) == TxReply(k, [startCycle |-> loc.start, endCycle |-> loc.end, page |-> loc.page])

\* A page that is lost is asked for again.
DownloadPageOfRange(k) ==
  LET got == Cardinality(PageOfRange(k).rows)
      l == [loc EXCEPT !.saved = @ + got]
  IN  /\ pc = "rangePage" /\ kind = k
      /\ UNCHANGED <<remote, counter, active, final, stored, rest, excused, restarts>>
      /\ \/ Lost /\ UNCHANGED <<own, pc, kind, loc>>
         \/ /\ Answered
            /\ Download(k, PageOfRange(k).rows)
            /\ IF l.saved > l.count
                 THEN pc' = "recount" /\ loc' = [l EXCEPT !.retries = got] /\ UNCHANGED kind
                 ELSE NextPageOfRange(l, got)

\* What a request for the range sees.
RangeRows(k, T) ==
  IF k = "originalTx" THEN OriginalTxsOf(T, loc.start, loc.end) ELSE Between(T, loc.start, loc.end)

\* The rows of the page and of those after it.
FromPage(k) ==
  LET range == RangeRows(k, remote[k])
  IN  {r \in range : Rank(range, r) >= (loc.page - 1) * MaxPerRequest}

\* More rows than were counted: the page is asked for again when there are more still.
\* loc.retries keeps the size of the page.
Recount(k) ==
  LET got == loc.retries
      l == [loc EXCEPT !.retries = 0]
      count == CountRange(k).total
  IN  /\ pc = "recount" /\ kind = k
      /\ UNCHANGED <<tables, final, stored, rest, restarts>>
      /\ \/ Lost /\ NextPageOfRange(l, got) /\ Excuse(k, FromPage(k))
         \/ /\ Answered
            /\ UNCHANGED excused
            /\ IF count > l.saved
                 THEN /\ pc' = "rangePage" /\ UNCHANGED kind
                      /\ loc' = [l EXCEPT !.count = count, !.saved = @ - got]
                 ELSE NextPageOfRange([l EXCEPT !.count = count], got)

SyncByCycle(k) ==
  \/ ByCycleTotal(k) \/ ByCycle(k) \/ ByCycleAsk(k)
  \/ CountOfRange(k) \/ DownloadPageOfRange(k) \/ Recount(k)
SyncReceiptsByCycle == SyncByCycle("receipt")
SyncOriginalTxsByCycle == SyncByCycle("originalTx")

-----------------------------------------------------------------------------
(* Node lists and cycles.                                                  *)

StoreCycles(C) == own' = [own EXCEPT !.cycles = @ \cup C]


\* Records at or below the counter are skipped (processCycles).
ProcessCycles(C) ==
  LET new == {c \in C : c.counter > counter}
  IN  /\ StoreCycles(new)
      /\ counter' = IF new = {} THEN counter ELSE LatestOf(new)

CyclesReply(start, end) == cycleinfoReply(Chain(remote.cycle), [start |-> start, end |-> end])

\* syncV2 gives the newest record.
SyncCyclesAndNodeListV2 ==
  /\ pc = "syncLists"
  /\ UNCHANGED <<remote, active, excused, restarts>>
  /\ \/ Lost /\ Stop /\ UNCHANGED <<own, counter>>
     \/ /\ Answered
        /\ ProcessCycles({[counter |-> remote.cycle, forked |-> FALSE]})
        /\ GoTo("oldCycles")
        /\ loc' = [NoLoop EXCEPT !.end = remote.cycle - 1]
        /\ UNCHANGED <<final, stored, rest>>


\* Wrong on purpose: after the fourth answer lost the range is left out.
DownloadOldCyclesSkipping ==
  LET start == Bigger(Bigger(loc.end - MaxPerRequest, 0), stored.cycle)
      more == loc.end > stored.cycle
      skip == loc' = [loc EXCEPT !.end = start - 1, !.retries = 0]
  IN  /\ pc = "oldCycles"
      /\ UNCHANGED <<remote, counter, active, excused, restarts>>
      /\ \/ ~more /\ Begin("receipt", 0, 0) /\ UNCHANGED <<own, final, stored, rest, failures>>
         \/ /\ more
            /\ Lost
            /\ IF loc.retries < MaxRetryCount THEN loc' = [loc EXCEPT !.retries = @ + 1] ELSE skip
            /\ UNCHANGED <<own, pc, kind, final, stored, rest>>
         \/ /\ more
            /\ Answered
            /\ StoreCycles(CyclesReply(start, loc.end).rows)
            /\ loc' = [loc EXCEPT !.end = start - 1]
            /\ UNCHANGED <<pc, kind, final, stored, rest>>

\* Backwards from the newest record; the fourth answer lost is read all the same.
DownloadOldCycles ==
  LET start == Bigger(Bigger(loc.end - MaxPerRequest, 0), stored.cycle)
      more == loc.end > stored.cycle
  IN  /\ pc = "oldCycles"
      /\ UNCHANGED <<remote, counter, active, excused, restarts>>
      /\ \/ /\ ~more
            /\ Begin("receipt", 0, 0)
            /\ UNCHANGED <<own, final, stored, rest, failures>>
         \/ /\ more
            /\ Lost
            /\ UNCHANGED own
            /\ IF loc.retries < MaxRetryCount
                 THEN loc' = [loc EXCEPT !.retries = @ + 1] /\ UNCHANGED <<pc, kind, final, stored, rest>>
                 ELSE Stop
         \/ /\ more
            /\ Answered
            /\ StoreCycles(CyclesReply(start, loc.end).rows)
            /\ loc' = [loc EXCEPT !.end = start - 1]
            /\ UNCHANGED <<pc, kind, final, stored, rest>>

-----------------------------------------------------------------------------
(* Once more: what the other archivers have and this one has not counted.  *)


\* Wrong on purpose: the stored cycles are counted and not checked.
CountAgainUnchecked ==
  /\ pc = "check"
  /\ UNCHANGED <<tables, history>>
  /\ GoTo("restTotal")
  /\ stored' = [stored EXCEPT !.cycle = Cardinality(own.cycles),
                              !.receipt = Cardinality(own.receipt),
                              !.originalTx = Cardinality(own.originalTx)]
  /\ UNCHANGED <<final, loc, rest>>

CountAgain ==
  /\ pc = "check"
  /\ UNCHANGED <<tables, history>>
  /\ IF Cardinality(own.cycles) - 1 # LatestOf(own.cycles)
       THEN Stop
       ELSE /\ GoTo("restTotal")
            /\ stored' = [stored EXCEPT !.cycle = Cardinality(own.cycles),
                                        !.receipt = Cardinality(own.receipt),
                                        !.originalTx = Cardinality(own.originalTx)]
            /\ UNCHANGED <<final, loc, rest>>

\* The top of the loop of syncCyclesAndTxsData, and its body from a kind on.
RestTop(r) ==
  /\ kind' = "receipt" /\ rest' = r
  /\ pc' = CASE \A k \in Synced : r.complete[k] -> "serve"
             [] \E k \in Synced : ~r.complete[k]
                /\ \E j \in Synced : r.end[j] >= r.total[j] -> "restAsk"
             [] OTHER -> "rest"

Following(k) == CASE k = "receipt" -> {"originalTx", "cycle"} [] k = "originalTx" -> {"cycle"} [] k = "cycle" -> {}

RestTotal ==
  /\ pc = "restTotal"
  /\ UNCHANGED <<tables, final, stored, loc, excused, restarts>>
  /\ \/ Lost /\ GoTo("serve") /\ UNCHANGED rest
     \/ /\ Answered
        /\ RestTop([start |-> [k \in Synced |-> stored[k]],
                    end |-> [k \in Synced |-> stored[k] + MaxPerRequest],
                    total |-> Totals,
                    complete |-> [k \in Synced |-> Totals[k] = stored[k]]])

\* A total that changed, up or down, opens its kind again; one below the start closes it.
\* Nothing is looked at when a total is 0.
RestAsk ==
  /\ pc = "restAsk"
  /\ pc' = "rest"
  /\ UNCHANGED <<tables, kind, final, stored, loc, excused, restarts>>
  /\ \/ Lost /\ UNCHANGED rest
     \/ /\ Answered
        /\ rest' =
             IF \E k \in Synced : Totals[k] = 0
               THEN rest
               ELSE [rest EXCEPT !.total = Totals,
                      !.complete = [k \in Synced |->
                        \/ rest.complete[k] /\ Totals[k] = rest.total[k]
                        \/ Totals[k] < rest.start[k]]]

\* The body goes on to the next kind, or back to the top.
RestGoOn(k, r) ==
  IF \E j \in Following(k) : ~r.complete[j]
    THEN /\ pc' = "rest" /\ rest' = r
         /\ kind' = IF "originalTx" \in Following(k) /\ ~r.complete["originalTx"] THEN "originalTx" ELSE "cycle"
    ELSE RestTop(r)

RestReply(k) ==
  IF k = "cycle"
    THEN CyclesReply(rest.start[k], rest.end[k])
    ELSE TxReply(k, [start |-> rest.start[k], end |-> rest.end[k]])

\* A short page moves the start past a row that was not in it, and makes the next request
\* longer than a request may be; it is refused, and the rows after it are asked for.
RestPage(k) ==
  LET reply == RestReply(k)
      got == Cardinality(reply.rows)
      leftOut == [rest EXCEPT !.start[k] = rest.end[k] + 1, !.end[k] = @ + MaxPerRequest]
  IN  /\ pc = "rest" /\ kind = k
      /\ UNCHANGED <<remote, active, final, stored, loc, excused, restarts>>
      /\ \/ rest.complete[k] /\ RestGoOn(k, rest) /\ UNCHANGED <<own, counter, failures>>
         \/ /\ ~rest.complete[k]
            /\ Lost
            /\ RestGoOn(k, leftOut)
            /\ UNCHANGED <<own, counter>>
         \/ /\ ~rest.complete[k]
            /\ Answered
            /\ IF ~reply.success
                 THEN UNCHANGED <<own, counter>> /\ RestGoOn(k, leftOut)
                 ELSE /\ IF k = "cycle"
                           THEN ProcessCycles(reply.rows)
                           ELSE Download(k, reply.rows) /\ UNCHANGED counter
                      /\ IF got < MaxPerRequest
                           THEN RestTop([rest EXCEPT !.start[k] = @ + got + 1,
                                                     !.end[k] = @ + got + MaxPerRequest])
                           ELSE RestGoOn(k, leftOut)

SyncCyclesAndTxsData == RestTotal \/ RestAsk \/ \E k \in Synced : RestPage(k)

-----------------------------------------------------------------------------
(* Serving, and what came in while the archiver became active.             *)

\* startServer, which sets the archiver active; subscribing is DataSubscription's part.
Serve ==
  /\ pc = "serve"
  /\ active' = TRUE
  /\ GoTo(IF SendActive THEN "newest" ELSE "done")
  /\ loc' = [NoLoop EXCEPT !.from = counter - 1]
  /\ UNCHANGED <<remote, own, counter, final, stored, rest, history>>

\* getNewestCycleFromArchivers; latestCycle.counter of no answer is an exception.
Newest ==
  /\ pc = "newest"
  /\ UNCHANGED <<tables, excused, restarts>>
  /\ \/ Lost /\ Stop
     \/ /\ Answered
        /\ GoTo("betweenCycles")
        /\ final' = TRUE
        /\ loc' = [loc EXCEPT !.to = remote.cycle + 1, !.start = loc.from, !.end = loc.from + MaxPerRequest]
        /\ UNCHANGED <<stored, rest>>

\* What is downloaded from here on is no longer excused.
AfterCyclesBetween ==
  /\ Begin("receipt", loc.from, loc.to)
  /\ excused' = [t \in Tables |->
       IF t \in Kinds THEN excused[t] \ Between(remote[t], loc.from, loc.to) ELSE excused[t]]

SyncCyclesBetweenCycles ==
  LET end == IF loc.end > loc.to THEN loc.to ELSE loc.end
      reply == CyclesReply(loc.start, end)
      next == [loc EXCEPT !.start = end + 1, !.end = end + MaxPerRequest]
  IN  /\ pc = "betweenCycles"
      /\ UNCHANGED <<remote, active, final, stored, rest, restarts>>
      /\ IF loc.to > loc.start
           THEN \/ /\ Lost
                   /\ loc' = next
                   /\ UNCHANGED <<own, counter, pc, kind, excused>>
                \/ /\ Answered
                   /\ IF reply.success THEN ProcessCycles(reply.rows) ELSE UNCHANGED <<own, counter>>
                   /\ IF reply.success /\ Cardinality(reply.rows) < MaxPerRequest
                        THEN AfterCyclesBetween
                        ELSE loc' = next /\ UNCHANGED <<pc, kind, excused>>
           ELSE AfterCyclesBetween /\ UNCHANGED <<own, counter, failures>>

-----------------------------------------------------------------------------
(* The network meanwhile.                                                  *)

NetworkCycle ==
  /\ remote.cycle < MaxCycle
  /\ remote' = [remote EXCEPT !.cycle = @ + 1]
  /\ UNCHANGED <<own, counter, active, control, history>>

Downloading(k) == kind = k /\ pc \in {"total", "askTotal", "page", "askAgain"}
DownloadingRanges(k) == kind = k /\ pc \in {"byCycleTotal", "byCycle", "byCycleAsk", "count", "rangePage", "recount"}
NotBegun(k) ==
  \/ pc \in {"start", "compareCycles", "join", "compare", "genesisTotal", "genesis", "syncLists", "oldCycles"}
  \/ k = "originalTx" /\ kind = "receipt" /\ (Downloading("receipt") \/ DownloadingRanges("receipt"))

\* The cycles the download of a kind that has not begun will ask for.
CyclesAhead(k) ==
  CASE final -> loc.from..loc.to
    [] ~final /\ own[k] = {} -> 0..(MaxCycle + 1)
    [] ~final /\ own[k] # {} /\ stored[CycleField(k)] > 0 -> stored[CycleField(k)]..(MaxCycle + 1)
    [] OTHER -> (LastCycle(own[k]) - ComparedCycles)..(MaxCycle + 1)

\* History: the rows that the arrival of r puts where they are not asked for.
Behind(k, r) ==
  LET T == remote[k] \cup {r}
      range == RangeRows(k, T)
      counted == DownloadingRanges(k) /\ pc \in {"rangePage", "recount"} /\ r \in range
  IN  CASE NotBegun(k) -> IF r.cycle \in CyclesAhead(k) THEN {} ELSE {r}
        [] Downloading(k) -> IF Rank(T, r) < loc.start THEN {r} ELSE {}
        [] counted -> {s \in range : Rank(range, s) >= loc.count \/ (s = r /\ Rank(range, s) < (loc.page - 1) * MaxPerRequest)}
        [] DownloadingRanges(k) /\ ~counted ->
             IF r.cycle < loc.start \/ (pc # "byCycleTotal" /\ r.cycle > loc.totalCycles) THEN {r} ELSE {}
        [] OTHER -> {r}

\* A receipt or an original transaction of a cycle up to the next one reaches the other
\* archivers, late or not, and this one too when it serves.
RowArrives(k) ==
  \E r \in TxRows[k] \ remote[k] :
    /\ r.cycle <= remote.cycle + 1
    /\ remote' = [remote EXCEPT ![k] = @ \cup {r}]
    /\ Excuse(k, Behind(k, r))
    /\ own' \in {own} \cup (IF active THEN {[own EXCEPT ![k] = @ \cup {r}]} ELSE {})
    /\ UNCHANGED <<counter, active, control, failures, restarts>>

\* A genesis account is changed by a transaction: it leaves the range of the cycles, and
\* the pages after its place begin one row later.
AccountMoves ==
  \E r \in MovingAccounts \cap remote.account :
    /\ pc \in {"genesisTotal", "genesis"}
    /\ remote' = [remote EXCEPT !.account = (@ \ {r}) \cup {[r EXCEPT !.cycle = GenesisEndCycle + 1]}]
    /\ UNCHANGED <<own, counter, active, control, history>>

\* A record the network sends to an archiver that serves.
LiveCycle ==
  /\ active
  /\ remote.cycle > counter
  /\ ProcessCycles({[counter |-> remote.cycle, forked |-> FALSE]})
  /\ UNCHANGED <<remote, active, control, history>>

\* History: of an archiver that ends while it serves and its last download is under way, or
\* between a page and its second count, rows older than the cycles that are compared; what
\* it has stored meanwhile is in newer ones.
OlderThanCompared(k) ==
  {r \in remote[k] \ own[k] : own[k] # {} /\ r.cycle < LastCycle(own[k]) - ComparedCycles}

\* The process ends and is started again.  The tables are all that is left.
Restart ==
  /\ failures + restarts < MaxFaults
  /\ restarts' = restarts + 1
  /\ counter' = -1 /\ active' = FALSE
  /\ pc' = "start" /\ kind' = "receipt" /\ final' = FALSE
  /\ stored' = NothingStored /\ loc' = NoLoop /\ rest' = NoRest
  /\ excused' = [t \in Tables |->
       excused[t] \cup (IF t \in Kinds /\ (active \/ (kind = t /\ pc \in {"rangePage", "recount"}))
                         THEN OlderThanCompared(t)
                         ELSE {})]
  /\ UNCHANGED <<remote, own, failures>>

-----------------------------------------------------------------------------
Archiver ==
  \/ CountData \/ CompareWithOldCyclesData \/ JoinNetwork \/ CompareOldData
  \/ SyncGenesisAccountsFromArchiver \/ SyncGenesisTransactionsFromArchiver
  \/ SyncCyclesAndNodeListV2 \/ DownloadOldCycles
  \/ SyncReceipts \/ SyncOriginalTxs \/ SyncReceiptsByCycle \/ SyncOriginalTxsByCycle
  \/ CountAgain \/ SyncCyclesAndTxsData
  \/ Serve \/ Newest \/ SyncCyclesBetweenCycles

Network == NetworkCycle \/ (\E k \in Kinds : RowArrives(k)) \/ AccountMoves \/ LiveCycle

Next == Archiver \/ Network \/ Restart

\* A request is answered or times out; nothing else holds the archiver up.
Spec == Init /\ [][Next]_vars /\ WF_vars(Archiver)

-----------------------------------------------------------------------------
TypeOK ==
  /\ remote.cycle \in 0..MaxCycle
  /\ \A k \in Kinds : remote[k] \subseteq TxRows[k] /\ own[k] \subseteq TxRows[k]
  /\ counter \in -1..MaxCycle
  /\ active \in BOOLEAN /\ final \in BOOLEAN
  /\ kind \in Synced \cup Tables
  /\ DOMAIN loc = DOMAIN NoLoop /\ \A f \in DOMAIN loc : loc[f] \in Int
  /\ DOMAIN rest = DOMAIN NoRest /\ rest.complete \in [Synced -> BOOLEAN]
  /\ \A k \in Kinds : excused[k] \subseteq TxRows[k]
  /\ failures \in 0..MaxFaults /\ restarts \in 0..MaxFaults

BeforeLists == {"start", "compareCycles", "join", "compare", "genesisTotal", "genesis"}
Downloaded(t) ==
  /\ pc # "stopped"
  /\ IF t \in Kinds
       THEN ~NotBegun(t) /\ ~Downloading(t) /\ ~DownloadingRanges(t)
       ELSE pc \notin BeforeLists

\* The rows a download that has ended should have given.
Missing(t) ==
  (IF t = "account" THEN Between(remote[t], 0, GenesisEndCycle) ELSE remote[t]) \ own[t]

\* Genesis accounts that have left the range of the genesis cycles.
Moved == remote.account \ GenesisAccounts

\* A table that was downloaded has every row that was there when its download began or that
\* came in ahead of it, whatever was stored before (syncReceipts, syncReceiptsByCycle and
\* their like, Data.ts), but for four cases: the rows of an answer that was lost; a row that
\* came in behind the download, and the row its arrival pushed over the end of a counted
\* range; the rows ahead of a download by cycles whose count has rows in it twice; and, after
\* an archiver was stopped while it served or between a page and its second count, rows
\* older than the cycles that are compared.  Of the genesis accounts, whose pages move when
\* one of them leaves the range (Data.ts:1092), at most one is skipped for each that has left
\* it.  (The types of the state are the first conjunct.)
NothingLeftOut ==
  /\ TypeOK
  /\ \A t \in Tables \ {"account"} : Downloaded(t) => Missing(t) \subseteq excused[t]
  /\ Downloaded("account") => Cardinality(Missing("account") \ excused["account"]) <= Cardinality(Moved)

Replaced == {c \in own.cycles : c.forked}

\* When the count of the stored cycles agrees with the newest of them (server.ts), the archiver
\* has every record of the network from the last one that matched to the newest it was given,
\* whatever gaps were stored and however often it was interrupted.  It has the whole chain,
\* from the first cycle on, unless it has a record that the network replaced: such a record
\* makes up in the count for a cycle that is missing.
CheckedChain ==
  [][pc = "check" /\ pc' = "restTotal"
     => /\ \A c \in stored.cycle..counter : [counter |-> c, forked |-> FALSE] \in own.cycles
        /\ Replaced = {} => own.cycles = Chain(LatestOf(own.cycles))]_vars

\* Unless an answer is lost, every loop of the synchronisation comes to its end, although the
\* totals it runs after grow, and the archiver serves or the process gave up.  In a network that
\* has no receipt or no original transaction syncCyclesAndTxsData may go round for ever.
SyncEnds == <>(pc \in {"done", "stopped"} \/ failures > 0 \/ \E k \in Kinds : remote[k] = {})
=============================================================================
