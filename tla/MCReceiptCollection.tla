----------------------- MODULE MCReceiptCollection ------------------------
(* Instances of ReceiptCollection for TLC. *)
EXTENDS ReceiptCollection

CONSTANTS t1, t2, x, s1, f2, u2

\* Of t1 there are a success, which other archivers announce, and a free failure with
\* another timestamp, which a validator pushes: the call that fetches the one overlaps the
\* call for the other, in the receipts table and in the row of account x, of which the
\* failure has the state before.  The only copy of t2 is pushed and announced, and refused
\* in the end, which keeps t2 out of the tables and the instance small.
MCTx == {t1, t2}
MCCopy == {s1, f2, u2}
MCTxOf == [c \in MCCopy |-> IF c = u2 THEN t2 ELSE t1]
MCTimeOf == [c \in MCCopy |-> IF c = s1 THEN 1 ELSE 2]
MCOutcomeOf == [c \in MCCopy |-> IF c = f2 THEN "free" ELSE "success"]
MCStatesOf ==
  [c \in MCCopy |-> CASE c = s1 -> <<[account |-> x, time |-> 3]>>
                      [] c = f2 -> <<[account |-> x, time |-> 2]>>
                      [] c = u2 -> <<>>]
MCGenuine == {s1, f2}
MCUnhandled == {f2}
MCAnnounced == {s1, u2}
MCBatches == {<<u2, f2>>}
MCGenesis == [a \in {x} |-> 0]
===========================================================================
