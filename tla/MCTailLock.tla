----------------------------- MODULE MCTailLock -----------------------------
(* Instances of TailLock for TLC.                                           *)
EXTENDS TailLock

AllVariants == [speculative_read : BOOLEAN, order_release : BOOLEAN]
=============================================================================
