-------------------------- MODULE MCOptimisticLock --------------------------
(* Instances of OptimisticLock for TLC.                                     *)
EXTENDS OptimisticLock

\* The proofs the benchmarks compare, with the latch at either end, each with
\* as few local buffers as it bears: optdb_experiment's one, except for V2 with
\* a footer, which has optmistic_benchmark's two.
SoundModes ==
    [consistency : {"CRC", "FaRM"}, lock : {"Header", "Footer"}, buffers : {1}]
    \union {[consistency |-> "V2", lock |-> "Header", buffers |-> 1],
            [consistency |-> "V2", lock |-> "Footer", buffers |-> 2]}

\* run_check<V2, FooterLock>, as optdb_experiment calls it.
OptdbV2Footer == {[consistency |-> "V2", lock |-> "Footer", buffers |-> 1]}

\* The bounds.  One worker's second update meets the other's first, which is
\* where a buffer is used again and where a reader may take the version of one
\* update for that of another.
TwoAndOne == LET first == CHOOSE w \in Workers : TRUE
             IN  [w \in Workers |-> IF w = first THEN 2 ELSE 1]
TwoEach == [w \in Workers |-> 2]
=============================================================================
