------------------------ MODULE MCDataSubscription ------------------------
(***************************************************************************)
(* Values for the constants of DataSubscription.                           *)
(***************************************************************************)
EXTENDS DataSubscription

ThreeNodes == 1..3
=============================================================================
