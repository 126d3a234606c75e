------------------------ MODULE MCCycleProcessing -------------------------
(***************************************************************************)
(* Instances of CycleProcessing for TLC.  Each group of definitions gives  *)
(* the cycle records of one scenario and what they do to the network.      *)
(***************************************************************************)
EXTENDS CycleProcessing, TLC

CONSTANTS n1, n2, n3, a1, a2, b2, a3, a4, s2, r3, s4

\* Fork: after a stored cycle, three more, with two competing records for the first of
\* them, after which fewer confirmations are needed.
ForkRecord == {a1, a2, b2, a3, a4}
ForkStored == {a1}
ForkCounter == (a1 :> 1) @@ (a2 :> 2) @@ (b2 :> 2) @@ (a3 :> 3) @@ (a4 :> 4)
ForkMode == [r \in ForkRecord |-> "processing"]
ForkActive == (a1 :> {n1, n2}) @@ (a2 :> {n1, n2}) @@ (b2 :> {n1}) @@ (a3 :> {n1})
                @@ (a4 :> {n1, n2})

\* Restart: the network is formed, shut down, restarted and shut down again.
RestartRecord == {a1, s2, r3, s4}
RestartCounter == (a1 :> 1) @@ (s2 :> 2) @@ (r3 :> 3) @@ (s4 :> 4)
RestartMode == (a1 :> "forming") @@ (s2 :> "shutdown") @@ (r3 :> "restart")
                 @@ (s4 :> "shutdown")
RestartListed == [r \in RestartRecord |-> {n1, n2}]
RestartActive == (a1 :> {n1}) @@ (s2 :> {n1, n2}) @@ (r3 :> {}) @@ (s4 :> {n1, n2})

NoRecords == {}
MinusOne == -1

=============================================================================
