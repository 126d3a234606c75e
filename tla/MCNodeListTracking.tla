------------------------ MODULE MCNodeListTracking ------------------------
(* An instance of NodeListTracking for TLC. *)
EXTENDS NodeListTracking

CONSTANTS p1, p2

\* The ids of p1 are below and above that of p2, so that a node sorts differently when
\* it comes back.
TwoOwner == [id \in Ids |-> IF id = 2 THEN p2 ELSE p1]

\* Recovery is left out: the code treats a change from it as one from restart.
RestartModes == {"forming", "processing", "restore", "restart", "shutdown"}

===========================================================================
