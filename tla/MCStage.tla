------------------------------ MODULE MCStage ------------------------------
(* Instances of Stage for TLC.                                              *)
EXTENDS Stage, TLC

CONSTANTS n1, n2, w1, w2, w3, w4

TwoByTwo == w1 :> n1 @@ w2 :> n1 @@ w3 :> n2 @@ w4 :> n2
=============================================================================
