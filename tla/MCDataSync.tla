----------------------------- MODULE MCDataSync -----------------------------
EXTENDS DataDownload, Integers

Row(i, c, t) == [id |-> i, cycle |-> c, timestamp |-> t]

\* A row that is there, and rows that come: one before it in its cycle, and one into a cycle
\* that has not begun.
MCTxRows == [receipt |-> {Row(1, 5, 1), Row(2, 5, 0), Row(3, 6, 2)},
             originalTx |-> {Row(1, 4, 1)}]
MCMovingAccounts == {Row(1, 0, 1)}
MCGenesisAccounts == {Row(1, 0, 1), Row(2, 0, 2), Row(3, 1, 3)}
MCGenesisTransactions == {Row(1, 0, 1)}

MCRemote == [cycle |-> 4, receipt |-> {Row(1, 5, 1)}, originalTx |-> {Row(1, 4, 1)}]

Empty == [cycles |-> {}, receipt |-> {}, originalTx |-> {}, account |-> {}, transaction |-> {}]

Cycles(C) == {[counter |-> c, forked |-> FALSE] : c \in C}
ReplacedCycle(c) == [counter |-> c, forked |-> TRUE]

\* Nothing; a part of the network's data; records that the network replaced, early and after
\* a gap.
MCOwn == {Empty,
          [Empty EXCEPT !.cycles = Cycles(0..4), !.receipt = {Row(1, 5, 1)}],
          [Empty EXCEPT !.cycles = Cycles({0}) \cup {ReplacedCycle(1)}],
          [Empty EXCEPT !.cycles = Cycles({0, 2, 3, 4}) \cup {ReplacedCycle(5)}]}
=============================================================================
