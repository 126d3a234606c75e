---------------------------- MODULE ListDownload ----------------------------
(***************************************************************************)
(* ListSync as one of the parts of an archiver, with names that no other   *)
(* part has: the lists it downloads are the ones NodeListTracking goes on  *)
(* with, and what is proved of both (NodeListProofs) is about the same     *)
(* operations of NodeList.                                                 *)
(***************************************************************************)
EXTENDS NodeList

CONSTANTS
  Redundancy, MaxTries, NumPeers, Faulty, PeerLists, Starts, Patches, MaxRetries,
  MaxTxSyncs, MaxCycle, Junk, NoAnswer

VARIABLES
  cycles, at, start, phase, call, got, chain, downloaded, archivers, txList, current, doubt

Sync == INSTANCE ListSync WITH lists <- downloaded

ASSUME SyncAssumption ==
  Sync!ListSyncAssumption /\ Sync!FaultAssumption /\ Sync!RobustQueryAssumption

SyncSpec == Sync!Spec

\* What syncV2 starts from: a record of the network, with its nodes and archivers.
ListsOfRecord == Sync!ListsOfRecord

\* The list of network transactions is one the network has had, once it is repaired.
TxListGenuine == Sync!TxListGenuine

\* Node lists rebuilt from records are those the network had after the newest.
RestoredLists == Sync!RestoredLists
=============================================================================
