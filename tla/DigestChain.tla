---------------------------- MODULE DigestChain ----------------------------
(***************************************************************************)
(* What the digester promises: a chain of digests, one per range of        *)
(* cycles, in which each digest hashes its predecessor, and to which       *)
(* digests are only added.  A hash is perfect: the hash of a digest is the *)
(* sequence of everything that went into it, that is, the transaction ids  *)
(* of its range after those of all ranges before.                          *)
(***************************************************************************)
EXTENDS Naturals, Sequences

CONSTANT Tx        \* transaction ids

VARIABLE chain     \* chain[k] is the hash of the digest of the k-th range

Init == chain = <<>>

PrevHash == IF chain = <<>> THEN <<>> ELSE chain[Len(chain)]

Publish(txIds) == chain' = Append(chain, Append(PrevHash, txIds))

Next == \E txIds \in SUBSET Tx : Publish(txIds)

Spec == Init /\ [][Next]_chain

=============================================================================
