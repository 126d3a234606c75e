---------------------------- MODULE RobustQuery ----------------------------
(***************************************************************************)
(* robustQuery of Utils.ts and its Tally, as operators on the state of one *)
(* query: it asks as many nodes at once as the leading answer still lacks, *)
(* waits for all of them, counts their answers in the order of asking, and *)
(* ends with an answer that enough nodes gave, or when the nodes or the    *)
(* rounds run out.  What a node answers is up to the module that asks.     *)
(***************************************************************************)
EXTENDS Integers, Sequences

CONSTANTS
  Redundancy,  \* redundancy = 3
  MaxTries     \* rounds (20)

RobustQueryAssumption == Redundancy \in Nat \ {0} /\ MaxTries \in Nat \ {0}

\* redundancy, capped by the nodes there are; nodes is never empty.
WinCount(nodes) == IF Redundancy > Len(nodes) THEN Len(nodes) ELSE Redundancy

NewQuery(nodes) ==
  [winCount |-> WinCount(nodes), left |-> nodes, asked |-> <<>>, items |-> <<>>,
   tries |-> 0, over |-> FALSE]

Count(item) == Len(item.nodes)

\* getHighestCount and getHighestCountItem: the first of the items with the most answers.
Leads(items, i) ==
  /\ \A j \in DOMAIN items : Count(items[j]) <= Count(items[i])
  /\ \A j \in 1..(i - 1) : Count(items[j]) < Count(items[i])
HighestItem(items) == items[CHOOSE i \in DOMAIN items : Leads(items, i)]
HighestCount(items) == IF items = <<>> THEN 0 ELSE Count(HighestItem(items))

ToQuery(q) == q.winCount - HighestCount(q.items)

\* The next round can start, and there are nodes for it.
Waits(q) == ~q.over /\ q.asked = <<>>
Enough(q) == Len(q.left) >= ToQuery(q)

NextRound(q) ==
  IF Enough(q)
    THEN [q EXCEPT !.asked = SubSeq(q.left, 1, ToQuery(q)),
                   !.left = SubSeq(q.left, ToQuery(q) + 1, Len(q.left)),
                   !.tries = @ + 1]
    ELSE [q EXCEPT !.over = TRUE]

Gave(items, value) == {i \in DOMAIN items : items[i].value = value}

\* Tally.add.
Counted(items, value, node) ==
  IF Gave(items, value) = {}
    THEN Append(items, [value |-> value, nodes |-> <<node>>])
    ELSE LET i == CHOOSE i \in Gave(items, value) : TRUE
         IN [items EXCEPT ![i].nodes = Append(@, node)]

Won(q) == \E i \in DOMAIN q.items : Count(q.items[i]) >= q.winCount

\* queryNodes: the next answer of the round is counted; the others are not looked at
\* once one has won.
Answered(q, value) ==
  LET items == Counted(q.items, value, Head(q.asked))
      won == \E i \in DOMAIN items : Count(items[i]) >= q.winCount
      rest == IF won THEN <<>> ELSE Tail(q.asked)
  IN [q EXCEPT !.items = items,
               !.asked = rest,
               !.over = won \/ (rest = <<>> /\ q.tries >= MaxTries)]

=============================================================================
