------------------------------ MODULE Services ------------------------------
(***************************************************************************)
(* Four parts of an archiver that share no state, side by side: a          *)
(* behaviour is one of the part that it starts with.                       *)
(***************************************************************************)
EXTENDS Integers, FiniteSets, Sequences, TLC

CONSTANTS
  Settings, MaxConfigChanges, MaxNetworkCycle, MaxRestarts, Lag, CyclesToKeep, ChangesToKeep,
  Validators, maxValidatorsToServe, MaxRecords, StartTime, MaxTime,
  maxLogFiles, maxNumberEntriesPerLog, MaxEntries, MaxQueue, MaxCrashes, MaxErrors,
  Batches, Empty, Malformed, Untrue, MaxStoring

VARIABLES
  part,
  netCycle, net, receipts, done, account, stored, applied, updates, disturbed, restarts,
  now, mode, servedAccounts, servingValidators, interval, asked, paging, refused,
  files, activeLog, logCounter, stream, totalNumberOfEntries, writeQueue, dataWriteIndex,
  at, position, entries, crashes, errors, lost, broken,
  came, storingAccountData, combineAccountsData, storing, genesisAccounts, stuck

networkVars == <<netCycle, net, receipts, done, account, stored, applied, updates, disturbed, restarts>>
servingVars == <<now, mode, servedAccounts, servingValidators, interval, asked, paging, refused>>
logVars ==
  <<files, activeLog, logCounter, stream, totalNumberOfEntries, writeQueue, dataWriteIndex,
    at, position, entries, crashes, errors, lost, broken>>
genesisVars == <<came, storingAccountData, combineAccountsData, storing, genesisAccounts, stuck>>

Modes == {"none", "processing", "restart", "recovery", "restore"}
ModeChanges ==
  {<<"none", "restore">>, <<"none", "restart">>, <<"restart", "restore">>,
   <<"restore", "processing">>, <<"processing", "recovery">>, <<"recovery", "restore">>}

Network == INSTANCE NetworkAccount WITH MaxChanges <- MaxConfigChanges, MaxCycle <- MaxNetworkCycle
Serving ==
  INSTANCE AccountServing
    WITH Changes <- ModeChanges, Tables <- {<<1>>}, accounts <- servedAccounts
Logs == INSTANCE DataLogWriter
Genesis ==
  INSTANCE GenesisAccounts
    WITH MaxCalls <- MaxStoring, calls <- storing, accounts <- genesisAccounts

ASSUME PartsAssumption ==
  /\ Network!AccountAssumption /\ Serving!ServingAssumption
  /\ Logs!LogAssumption /\ Genesis!BatchAssumption

PartsInit ==
  /\ part \in {"network account", "serving", "logs", "genesis"}
  /\ Network!Init /\ Serving!Init /\ Logs!Init /\ Genesis!Init

PartsNext ==
  \/ /\ part = "network account" /\ Network!Next
     /\ UNCHANGED <<part, servingVars, logVars, genesisVars>>
  \/ /\ part = "serving" /\ Serving!Next
     /\ UNCHANGED <<part, networkVars, logVars, genesisVars>>
  \/ /\ part = "logs" /\ Logs!Next
     /\ UNCHANGED <<part, networkVars, servingVars, genesisVars>>
  \/ /\ part = "genesis" /\ Genesis!Next
     /\ UNCHANGED <<part, networkVars, servingVars, logVars>>

PartsSpec == PartsInit /\ [][PartsNext]_<<part, networkVars, servingVars, logVars, genesisVars>>

\* Each invariant has the type invariant of its part as its first conjunct.

\* The network account follows the validators' one, unless it was set at a bad moment.
FollowsNetwork == Network!TypeOK /\ Network!FollowsNetwork

\* A validator is turned away only while others are served.
BusyOnlyWithOthers == Serving!TypeOK /\ Serving!BusyOnlyWithOthers

\* A data log has every entry once and in order, while no rotation is cut short.
LogComplete == Logs!TypeOK /\ Logs!LogComplete

\* No batch of genesis accounts is left behind.
GenesisStored == Genesis!GenesisStored
=============================================================================
