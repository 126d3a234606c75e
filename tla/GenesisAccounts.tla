--------------------------- MODULE GenesisAccounts ---------------------------
(***************************************************************************)
(* Genesis accounts that validators push and other archivers give          *)
(* (Data/Data.ts, Data/Collector.ts): batches that arrive while a batch is *)
(* stored are combined, and stored together when it is.                    *)
(***************************************************************************)
EXTENDS Integers, FiniteSets

CONSTANTS
  Batches,    \* of accounts, each pushed or downloaded once
  Empty,      \* those without accounts and transactions
  Malformed,  \* those with a transaction that has no data: storing throws
  Untrue,     \* those without a single account with the hash of its data
  MaxCalls    \* bound

\* Assumed of the constants.
BatchAssumption ==
  /\ Empty \subseteq Batches /\ Malformed \subseteq Batches \ Empty /\ Untrue \subseteq Batches
  /\ MaxCalls \in Nat

VARIABLES
  came,                  \* batches that came
  storingAccountData,
  combineAccountsData,
  calls,                 \* running calls of storeAccountData, each with what it has left to write
  accounts,              \* the table
  stuck                  \* history: a call left the flag set for good

vars == <<came, storingAccountData, combineAccountsData, calls, accounts, stuck>>

\* The accounts with the hash of their data are looked for, but all of the batches are written when
\* there are any.
AnyTrue(batches) == batches \ Untrue # {}

\* Wrong on purpose: what was combined is cleared before it is taken.
CombinedCleared == {}
Combined == combineAccountsData

\* storeAccountData up to its first write: without accounts and transactions it returns with the
\* flag set.
StartStoring(batches) ==
  /\ storingAccountData' = TRUE
  /\ IF batches \subseteq Empty
     THEN stuck' = TRUE /\ UNCHANGED calls
     ELSE calls' = calls \cup {batches} /\ UNCHANGED stuck

\* A batch from a validator's connection.
ReceiveAccounts ==
  \E b \in Batches \ came :
    /\ came' = came \cup {b}
    /\ IF storingAccountData
       THEN /\ combineAccountsData' = combineAccountsData \cup ({b} \ Empty)
            /\ UNCHANGED <<storingAccountData, calls, stuck>>
       ELSE StartStoring({b}) /\ UNCHANGED combineAccountsData
    /\ UNCHANGED accounts

\* A page of another archiver is stored whatever the flag says.
SyncAccounts ==
  \E b \in Batches \ came :
    /\ Cardinality(calls) < MaxCalls
    /\ came' = came \cup {b}
    /\ StartStoring({b})
    /\ UNCHANGED <<combineAccountsData, accounts>>

\* The batches of a call are written.  The call then throws, goes on with what came meanwhile, or
\* takes the flag back.
Stored ==
  \E batches \in calls :
    /\ accounts' = IF AnyTrue(batches) THEN accounts \cup batches ELSE accounts
    /\ IF batches \cap Malformed # {}
       THEN /\ calls' = calls \ {batches}
            /\ stuck' = TRUE
            /\ UNCHANGED <<storingAccountData, combineAccountsData>>
       ELSE IF combineAccountsData # {}
       THEN /\ storingAccountData' = TRUE
            /\ combineAccountsData' = {}
            /\ calls' = (calls \ {batches}) \cup {Combined}
            /\ UNCHANGED stuck
       ELSE /\ storingAccountData' = FALSE
            /\ calls' = calls \ {batches}
            /\ UNCHANGED <<combineAccountsData, stuck>>
    /\ UNCHANGED came

Init ==
  /\ came = {} /\ storingAccountData = FALSE /\ combineAccountsData = {} /\ calls = {}
  /\ accounts = {} /\ stuck = FALSE

Next == ReceiveAccounts \/ SyncAccounts \/ Stored

Spec == Init /\ [][Next]_vars

-----------------------------------------------------------------------------
TypeOK ==
  /\ came \subseteq Batches /\ combineAccountsData \subseteq came /\ accounts \subseteq came
  /\ storingAccountData \in BOOLEAN /\ stuck \in BOOLEAN
  /\ \A batches \in calls : batches \subseteq came

\* Every batch with a true account is written, whether it was stored at once, combined with others
\* or downloaded meanwhile, and nothing waits when no call is under way to store it: unless a call
\* ended with the flag set.  (The types of the state are its first conjunct.)
GenesisStored ==
  /\ TypeOK
  /\ calls = {} /\ ~stuck =>
       /\ ~storingAccountData /\ combineAccountsData = {}
       /\ came \ (Untrue \cup Empty) \subseteq accounts
=============================================================================
