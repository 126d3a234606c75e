----------------------------- MODULE MCListSync -----------------------------
EXTENDS ListDownload

NoChange ==
  [joinedConsensors |-> {}, activated |-> {}, refreshedConsensors |-> {}, removed |-> {},
   lost |-> {}, lostAfterSelection |-> {}, standbyAdd |-> {}, standbyRemove |-> {},
   txadd |-> <<>>, txremove |-> <<>>, joinedArchivers |-> {}]

Entry(h, p) == [hash |-> h, cycle |-> 1, priority |-> p]

\* A few records that change every list.
MCSyncPatches ==
  {[NoChange EXCEPT !.joinedConsensors = {1}, !.activated = {1}, !.standbyAdd = {2},
                    !.txadd = <<Entry(1, 1)>>],
   [NoChange EXCEPT !.joinedConsensors = {2}, !.standbyRemove = {2},
                    !.txadd = <<Entry(2, 2)>>, !.joinedArchivers = {1}],
   [NoChange EXCEPT !.removed = {1}, !.txremove = <<1>>]}

\* Changes of the nodes: two in a record, of different kinds.
Ids == 1..3
Few == {{}} \cup {{n} : n \in Ids}
MCNodePatches ==
  {[NoChange EXCEPT !.joinedConsensors = j, !.activated = a, !.removed = r] :
     j \in Few, a \in Few, r \in {{}}}
  \cup
  {[NoChange EXCEPT !.activated = a, !.removed = r] : a \in Few, r \in Few}
  \cup
  {[NoChange EXCEPT !.joinedConsensors = j, !.lost = l] : j \in Few, l \in Few}
  \cup
  {[NoChange EXCEPT !.refreshedConsensors = {1}], [NoChange EXCEPT !.lostAfterSelection = {2}]}

MCPatches == [sync |-> MCSyncPatches, restore |-> MCNodePatches, fetch |-> MCNodePatches]
MCPeerLists == {<<3, 1, 2>>, <<1, 2>>}

MCMaxCycle == [sync |-> 3, restore |-> 5, fetch |-> 4]
=============================================================================
