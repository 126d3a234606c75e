----------------------- MODULE MCReceiptVerification -----------------------
EXTENDS ReceiptVerification

MCFirstNodes == {{2, 4}, {1, 2, 3, 4}}
TwoThirds == [num |-> 2, den |-> 3]
MCKeys == {0, 15}

\* The signers of a receipt: at most three, in any order of arrival, perhaps one twice.
Increasing(seq) == \A i \in 1..(Len(seq) - 1) : seq[i] < seq[i + 1]
Packs ==
  {<<>>} \cup {<<a>> : a \in Nodes}
  \cup {p \in {<<a, b>> : a \in Nodes, b \in Nodes} : Increasing(p)} \cup {<<2, 2>>, <<3, 3>>, <<4, 2, 4>>}
  \cup {p \in {<<a, b, c>> : a \in Nodes, b \in Nodes, c \in Nodes} : Increasing(p)}
FullPack == <<1, 2, 3, 4, 5>>

Voted == [accountIDs |-> <<"a">>, beforeStateHashes |-> <<1>>, afterStateHashes |-> <<2>>]
Timed(signers, offsets, vote, proposal, afterStates) ==
  [type |-> "normal", cycle |-> 0, key |-> 0, signers |-> signers,
   signedOffsets |-> offsets, voteOffsets |-> offsets, vote |-> vote, proposal |-> proposal,
   tx |-> <<>>, beforeStates |-> <<>>, afterStates |-> afterStates]
Normal(signers, vote, proposal, afterStates) ==
  Timed(signers, [i \in DOMAIN signers |-> i], vote, proposal, afterStates)
A(state) == [id \in {"a"} |-> state]
Odd == [Voted EXCEPT !.afterStateHashes = <<2, 3>>]

Account(changes, time) == [listOfChanges |-> changes, timestamp |-> time]
Tx(type, hash) ==
  [type |-> type, address |-> "a", addressHash |-> hash, change |-> "x", when |-> 2]
Global(signers, tx, before, after) ==
  [type |-> "global", cycle |-> 0, key |-> 0, signers |-> signers,
   signedOffsets |-> signers, voteOffsets |-> signers, vote |-> tx, proposal |-> tx,
   tx |-> tx, beforeStates |-> before, afterStates |-> after]
Before == Account(<<>>, 1)
After == Account(<<"x">>, 2)

MCReceipts ==
  {Normal(p, Voted, Voted, A(2)) : p \in Packs}
  \cup {Normal(FullPack, Voted, Voted, A(3)),      \* another state than the one voted for
        Normal(FullPack, Voted, Voted, <<>>),      \* the account is missing
        Normal(FullPack, Odd, Odd, A(2)),          \* lists of different lengths
        Normal(FullPack, Voted, Odd, A(2)),        \* signatures of another vote
        Timed(FullPack, <<3, 1, 2, 5, 4>>, Voted, Voted, A(2)),
        Timed(<<1, 2, 3>>, <<2, 1, 3>>, Voted, Voted, A(2))}
  \cup {Global(p, Tx("ApplyChangeConfig", <<Before>>), A(Before), A(After))
          : p \in {<<>>, <<2>>, FullPack}}
  \cup {Global(FullPack, Tx("ApplyNetworkParam", <<>>), A(Before), A(After)),
        Global(FullPack, Tx("ApplyNetworkParam", <<>>), A(Before), A(Before)),
        Global(FullPack, Tx("ApplyChangeConfig", <<After>>), A(Before), A(After)),
        Global(FullPack, Tx("InitNetwork", <<>>), <<>>, A(Before)),
        Global(FullPack, Tx("Stake", <<>>), A(Before), A(After))}
=============================================================================
