---------------------------- MODULE ServiceQueue ----------------------------
(***************************************************************************)
(* The list of network transactions of ServiceQueue.ts: operators from a   *)
(* list to a list.  An entry is [hash, cycle, priority].  The hash of a    *)
(* list stands for the list.                                               *)
(***************************************************************************)
EXTENDS Integers, SequencesExt

\* The order of the list, as findIndex of sortedInsert tests it.
SortsAfter(item, entry) ==
  \/ item.cycle > entry.cycle
  \/ item.cycle = entry.cycle /\ item.priority < entry.priority
  \/ item.cycle = entry.cycle /\ item.priority = entry.priority /\ item.hash > entry.hash

SortedInsert(list, entry) ==
  LET index == SelectInSeq(list, LAMBDA item : SortsAfter(item, entry))
  IN IF index = 0 THEN Append(list, entry) ELSE InsertAt(list, index, entry)

\* addTxs: an entry that is listed already is listed twice.
AddTxs(list, entries) == FoldLeft(SortedInsert, list, entries)

\* removeTxs: the first entry with a hash; a hash that is not listed is logged.
RemoveTx(list, hash) ==
  LET index == SelectInSeq(list, LAMBDA item : item.hash = hash)
  IN IF index = 0 THEN list ELSE RemoveAt(list, index)
RemoveTxs(list, hashes) == FoldLeft(RemoveTx, list, hashes)
=============================================================================
