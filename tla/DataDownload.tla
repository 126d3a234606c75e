---------------------------- MODULE DataDownload ----------------------------
(***************************************************************************)
(* DataSync as one of the parts of an archiver, with names that no other   *)
(* part has: the records it downloads go through processCycles, as those   *)
(* of CycleProcessing do, into the table that CycleProcessing has, and     *)
(* what is proved of both is in CycleProcessingProofs.                     *)
(***************************************************************************)
EXTENDS FiniteSets

CONSTANTS
  MaxPerRequest, MaxAccounts, MaxBetweenCycles,
  TxRows, GenesisAccounts, GenesisTransactions, MovingAccounts, GenesisEndCycle,
  ComparedCycles, MaxRetryCount, SendActive, InitialRemote, InitialOwn, MaxCycle, MaxFaults

VARIABLES
  remote, own, counter, active, pc, kind, final, stored, loc, rest, excused, failures, restarts

Sync == INSTANCE DataSync

ASSUME DownloadAssumption ==
  Sync!RequestLimits /\ Sync!SyncAssumption /\ Sync!StoredAssumption

SyncSpec == Sync!Spec

\* Downloaded tables have every row that was there or came in ahead of the download, but for
\* lost answers and rows that are counted twice, and at most one genesis account is skipped for
\* each that moved.
NothingLeftOut == Sync!NothingLeftOut

\* With a count of cycles that agrees the archiver has the chain of the network from the last
\* record that matched on, and all of it unless it has a record that was replaced.
CheckedChain == Sync!CheckedChain

\* Every loop of the synchronisation ends, unless an answer is lost.
SyncEnds == Sync!SyncEnds
=============================================================================
