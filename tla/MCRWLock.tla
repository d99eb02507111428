------------------------------ MODULE MCRWLock ------------------------------
(* Instances of RWLock for TLC: every setting of the benchmark's flags.     *)
EXTENDS RWLock

AllVariants ==
    [speculative_read : BOOLEAN, write_combining : BOOLEAN, order_release : BOOLEAN]
=============================================================================
