------------------------- MODULE MCConnectionManager -------------------------
(* Instances of ConnectionManager for TLC.                                  *)
EXTENDS ConnectionManager, TLC

CONSTANTS n1, n2, w1, w2

\* Two workers of one compute node, which share a mutex, and of two, which may
\* try to connect at the same time.
Placements == {w1 :> n1 @@ w2 :> n1, w1 :> n1 @@ w2 :> n2}

Rcopt == [storage_nodes : {1}, rcopt : {TRUE}, node_of : Placements]
\* As well as two storage nodes.
AllVariants ==
    Rcopt \union [storage_nodes : {2}, rcopt : {FALSE}, node_of : Placements]
=============================================================================
