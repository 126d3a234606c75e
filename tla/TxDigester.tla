----------------------------- MODULE TxDigester -----------------------------
(***************************************************************************)
(* The process that digests transactions (txDigester.ts, txDigester/).  A  *)
(* cron task computes a digest for every cycleDiff cycles from the table   *)
(* of processed transactions, which the archiver, another process, writes. *)
(* A run of the task may start while earlier ones have not ended, the      *)
(* insert of a digest is not awaited, and reads and inserts may fail.      *)
(***************************************************************************)
EXTENDS Integers, FiniteSets, Sequences

CONSTANTS
  Tx,           \* transaction ids
  Runs,         \* bound: runs of the cron task at a time
  cycleDiff,    \* cycles per digest (10)
  syncDelay,    \* cycles a digest stays behind the archiver (20)
  MaxCycle,     \* bound: cycles of the network
  MaxFailures   \* bound: reads and inserts that fail

ASSUME DigestAssumption ==
  /\ cycleDiff \in Nat \ {0}
  /\ syncDelay \in Nat
  /\ MaxCycle \in Nat
  /\ MaxFailures \in Nat

VARIABLES
  cycleOf,               \* processedTxs: the cycle of a transaction, -1 before it is written
  latestCycle,           \* the last counter in the cycles table
  isActive,              \* what the archiver's /status says
  txDigests,             \* the table, from cycleEnd to the hash of the row
  inserting,             \* inserts that have not been executed
  lastProcessedTxDigest, \* the cycleEnd of the digest in the variable, -1 for null
  run,                   \* the runs of the cron task
  failures

archiverVars == <<cycleOf, latestCycle, isActive>>
digesterVars == <<txDigests, inserting, lastProcessedTxDigest, run>>
vars == <<archiverVars, digesterVars, failures>>

Cycles == 0..MaxCycle
Hash == Seq(SUBSET Tx)

\* A run is idle or stands at one of its awaits.  The digest at hand covers the cycles from
\* currentCycle to EndCycle.
RunState ==
  [pc : {"idle", "status", "last", "assign", "latest", "txIds", "hash"},
   currentCycle : Nat, latest : -1 .. MaxCycle, txIds : SUBSET Tx]

Idle == [pc |-> "idle", currentCycle |-> 0, latest |-> -1, txIds |-> {}]

Init ==
  /\ cycleOf = [t \in Tx |-> -1]
  /\ latestCycle = -1
  /\ isActive = FALSE
  /\ txDigests = <<>>
  /\ inserting = {}
  /\ lastProcessedTxDigest = -1
  /\ run = [r \in Runs |-> Idle]
  /\ failures = 0

-----------------------------------------------------------------------------
(* The archiver *)

\* An archiver that synchronises writes transactions of any cycle; one that is active, those
\* of cycles that are not yet syncDelay cycles old.
TxProcessed(t, c) ==
  /\ cycleOf[t] = -1
  /\ isActive => c > latestCycle - syncDelay
  /\ cycleOf' = [cycleOf EXCEPT ![t] = c]
  /\ UNCHANGED <<latestCycle, isActive, digesterVars, failures>>

CycleStored ==
  /\ latestCycle < MaxCycle
  /\ latestCycle' = latestCycle + 1
  /\ UNCHANGED <<cycleOf, isActive, digesterVars, failures>>

BecomeActive ==
  /\ ~isActive
  /\ isActive' = TRUE
  /\ UNCHANGED <<cycleOf, latestCycle, digesterVars, failures>>

-----------------------------------------------------------------------------
(* A run of the cron task *)

EndCycle(r) == run[r].currentCycle + cycleDiff - 1

TxIdsBetween(first, last) == {t \in Tx : cycleOf[t] \in first..last}

At(r, pc) == run[r].pc = pc

GoTo(r, state) == run' = [run EXCEPT ![r] = state]

Fail(r) ==
  /\ failures < MaxFailures
  /\ failures' = failures + 1
  /\ GoTo(r, Idle)
  /\ UNCHANGED <<archiverVars, txDigests, inserting, lastProcessedTxDigest>>

Start(r) ==
  /\ At(r, "idle")
  /\ GoTo(r, [Idle EXCEPT !.pc = "status"])
  /\ UNCHANGED <<archiverVars, txDigests, inserting, lastProcessedTxDigest, failures>>

\* Wrong on purpose: does not heed what the archiver says.
StatusIgnored(r) ==
  /\ At(r, "status")
  /\ GoTo(r, IF lastProcessedTxDigest = -1 THEN [run[r] EXCEPT !.pc = "last"]
             ELSE [run[r] EXCEPT !.pc = "latest", !.currentCycle = lastProcessedTxDigest + 1])
  /\ UNCHANGED <<archiverVars, txDigests, inserting, lastProcessedTxDigest, failures>>

\* A run goes on after the last digest it knows of; if it knows of none, it asks the table.
StatusReceived(r) ==
  /\ At(r, "status")
  /\ GoTo(r, IF ~isActive THEN Idle
             ELSE IF lastProcessedTxDigest = -1 THEN [run[r] EXCEPT !.pc = "last"]
             ELSE [run[r] EXCEPT !.pc = "latest", !.currentCycle = lastProcessedTxDigest + 1])
  /\ UNCHANGED <<archiverVars, txDigests, inserting, lastProcessedTxDigest, failures>>

LastOf(ends) == IF ends = {} THEN -1 ELSE CHOOSE e \in ends : \A d \in ends : d <= e

\* The query of the last digest; its answer is assigned when it arrives.
LastRead(r, last) ==
  /\ At(r, "last")
  /\ GoTo(r, [run[r] EXCEPT !.pc = "assign", !.currentCycle = last + 1])
  /\ UNCHANGED <<archiverVars, txDigests, inserting, lastProcessedTxDigest>>

LastReadWell(r) == LastRead(r, LastOf(DOMAIN txDigests)) /\ UNCHANGED failures

\* A query that fails answers null, as if there were no digest.
LastReadFailed(r) ==
  /\ failures < MaxFailures
  /\ failures' = failures + 1
  /\ LastRead(r, -1)

\* updateLastProcessedTxDigest.  What another run has put into the variable since is lost.
LastAssigned(r) ==
  /\ At(r, "assign")
  /\ lastProcessedTxDigest' = run[r].currentCycle - 1
  /\ GoTo(r, [run[r] EXCEPT !.pc = "latest"])
  /\ UNCHANGED <<archiverVars, txDigests, inserting, failures>>

\* Wrong on purpose: one cycle too many is asked for.
DueLate(latest, currentCycle) == latest - syncDelay - (currentCycle - 1) > cycleDiff

\* Enough cycles are old enough for a digest from currentCycle.
Due(latest, currentCycle) == latest - syncDelay - (currentCycle - 1) >= cycleDiff

LatestRead(r) ==
  /\ At(r, "latest")
  /\ GoTo(r, IF Due(latestCycle, run[r].currentCycle)
               THEN [run[r] EXCEPT !.pc = "txIds", !.latest = latestCycle]
               ELSE Idle)
  /\ UNCHANGED <<archiverVars, txDigests, inserting, lastProcessedTxDigest, failures>>

TxIdsRead(r) ==
  /\ At(r, "txIds")
  /\ GoTo(r, [run[r] EXCEPT !.pc = "hash",
                            !.txIds = TxIdsBetween(run[r].currentCycle, EndCycle(r))])
  /\ UNCHANGED <<archiverVars, txDigests, inserting, lastProcessedTxDigest, failures>>

\* Wrong on purpose: a digest without its predecessor in the table is computed all the same.
HasAnyPrevHash(currentCycle) == TRUE

\* getHash: the first digest has no predecessor; without its predecessor in the table a
\* digest is not computed, and the run ends with an error.
HasPrevHash(currentCycle) == currentCycle = 0 \/ currentCycle - 1 \in DOMAIN txDigests

PrevHash(currentCycle) ==
  IF currentCycle - 1 \in DOMAIN txDigests THEN txDigests[currentCycle - 1] ELSE <<>>

\* The digest is handed to the database, and the run goes on with the next range.
HashRead(r) ==
  /\ At(r, "hash")
  /\ LET state == run[r]
         next == EndCycle(r) + 1
     IN IF HasPrevHash(state.currentCycle)
          THEN /\ inserting' = inserting \cup
                    {[cycleEnd |-> EndCycle(r),
                      hash |-> Append(PrevHash(state.currentCycle), state.txIds)]}
               /\ lastProcessedTxDigest' = EndCycle(r)
               /\ GoTo(r, IF next + cycleDiff - 1 <= state.latest - syncDelay
                            THEN [state EXCEPT !.pc = "txIds", !.currentCycle = next, !.txIds = {}]
                            ELSE Idle)
          ELSE GoTo(r, Idle) /\ UNCHANGED <<inserting, lastProcessedTxDigest>>
  /\ UNCHANGED <<archiverVars, txDigests, failures>>

\* A query that fails ends the run: an empty list of cycles is not due, null instead of
\* transaction ids is given up, and null instead of the predecessor is an error.
ReadFailed(r) ==
  /\ run[r].pc \in {"status", "latest", "txIds", "hash"}
  /\ Fail(r)

-----------------------------------------------------------------------------
(* The database, and crashes *)

\* INSERT ... ON CONFLICT (cycleEnd) DO UPDATE.
InsertExecuted(row) ==
  /\ row \in inserting
  /\ inserting' = inserting \ {row}
  /\ txDigests' = [e \in DOMAIN txDigests \cup {row.cycleEnd} |->
                     IF e = row.cycleEnd THEN row.hash ELSE txDigests[e]]
  /\ UNCHANGED <<archiverVars, lastProcessedTxDigest, run, failures>>

\* Nothing awaits the insert, so that its failure is a rejection nobody handles, which ends
\* the process.  It starts again with the table as it is.
Crash ==
  /\ failures < MaxFailures
  /\ failures' = failures + 1
  /\ inserting' = {}
  /\ lastProcessedTxDigest' = -1
  /\ run' = [r \in Runs |-> Idle]
  /\ UNCHANGED <<archiverVars, txDigests>>

-----------------------------------------------------------------------------
RunStep(r) ==
  \/ Start(r)
  \/ StatusReceived(r)
  \/ LastReadWell(r)
  \/ LastAssigned(r)
  \/ LatestRead(r)
  \/ TxIdsRead(r)
  \/ HashRead(r)

Next ==
  \/ \E t \in Tx, c \in Cycles : TxProcessed(t, c)
  \/ CycleStored
  \/ BecomeActive
  \/ \E r \in Runs : RunStep(r) \/ LastReadFailed(r) \/ ReadFailed(r)
  \/ \E row \in inserting : InsertExecuted(row)
  \/ Crash

Spec == Init /\ [][Next]_vars

\* Cycles go on, the archiver becomes active at last, cron starts runs, and queries end.
Fairness ==
  /\ WF_vars(CycleStored)
  /\ WF_vars(BecomeActive)
  /\ \A r \in Runs : WF_vars(RunStep(r))
  /\ WF_vars(\E row \in inserting : InsertExecuted(row))

FairSpec == Spec /\ Fairness

-----------------------------------------------------------------------------
TypeOK ==
  /\ cycleOf \in [Tx -> -1 .. MaxCycle]
  /\ latestCycle \in -1 .. MaxCycle
  /\ isActive \in BOOLEAN
  /\ DOMAIN txDigests \subseteq Nat
  /\ \A e \in DOMAIN txDigests : txDigests[e] \in Hash
  /\ inserting \subseteq [cycleEnd : Nat, hash : Hash]
  /\ lastProcessedTxDigest \in Nat \cup {-1}
  /\ run \in [Runs -> RunState]
  /\ failures \in Nat

\* The k-th range of cycles, and the digest it must have: of every transaction in its cycles
\* and in those before.
Ranges == 1 .. MaxCycle + 1

RangeEnd(k) == k * cycleDiff - 1

Digest(k) == [i \in 1..k |-> TxIdsBetween(RangeEnd(i - 1) + 1, RangeEnd(i))]

\* Whatever overlaps, fails or is inserted twice, a row has the digest of all transactions
\* that were ever processed in its range, chained to those of all ranges before it
\* (processAndInsertTxDigests; the delay and the archiver's status keep late transactions out).
DigestsComplete ==
  \A e \in DOMAIN txDigests : \E k \in Ranges : e = RangeEnd(k) /\ txDigests[e] = Digest(k)

\* The table is a chain without gaps, each digest with the hash of its predecessor, and a
\* digest that was published never changes (insertTransactionDigest, getHash).
Published == {k \in Ranges : RangeEnd(k) \in DOMAIN txDigests}

TableChain == [k \in Published |-> txDigests[RangeEnd(k)]]

Chain == INSTANCE DigestChain WITH chain <- TableChain

ChainSpec == Chain!Spec

\* Every range of cycles that is old enough is digested eventually, in spite of failures and
\* of runs that find the predecessor of their first digest not inserted yet.
DigestsCatchUp ==
  \A k \in Ranges : RangeEnd(k) <= MaxCycle - syncDelay => <>(RangeEnd(k) \in DOMAIN txDigests)

=============================================================================
