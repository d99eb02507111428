--------------------------- MODULE RWLock_proofs ---------------------------
(***************************************************************************)
(* RWLock, for any finite set of workers, any payload, any flags and any   *)
(* number of updates: type correctness, mutual exclusion, and what the     *)
(* lock word counts; that readers read whole, current tuples; that RWLock  *)
(* implements RWLockSpec; and that no update is lost.                      *)
(***************************************************************************)
EXTENDS RWLock, FiniteSetTheorems, SumTheorems, TLAPS

\* What a thread has in its queue at each point of its program.  The
\* requests of the previous operation may still be there until the thread
\* polls for the acquiring one: a release, with the payload in front of it
\* if it is a writer's.
QueueOK(w) ==
    /\ wr[w].acquire = "shared" => pc[w] = "s_lock"
    /\ wr[w].acquire = "exclusive" => pc[w] = "x_lock"
    /\ pc[w] \in {"s_lock", "x_lock"} /\ wr[w].acquire = "none" => Released(w)
    /\ pc[w] \in {"s_read", "s_cs", "x_read", "x_cs"} => Released(w)
    /\ pc[w] \in {"s_release", "s_undo"} => wr[w].release # Excl
    /\ pc[w] = "x_write" => wr[w].release = 0
    /\ pc[w] = "x_release" => wr[w].release # 1

QueuesOK == \A w \in Workers : QueueOK(w)

IInv == TypeOK /\ QueuesOK /\ Exclusion /\ LockWordExact

-----------------------------------------------------------------------------

\* The assumptions on the sizes: EXCLUSIVE_LOCKED is out of the readers' reach,
\* and the sum of both fits the 64-bit lock word.
LEMMA WordFacts ==
    /\ Excl \in Nat /\ WordSize \in Nat /\ Cardinality(Workers) \in Nat
    /\ 1 < Excl /\ Cardinality(Workers) < Excl
    /\ Excl + Cardinality(Workers) < WordSize
    /\ 0 \in Words
BY WorkersAssumption, WordAssumption, FS_CardinalityType DEF Words

\* There are finitely many registered readers, at most one per worker.
LEMMA ReadersFinite ==
    /\ IsFiniteSet(Readers)
    /\ Cardinality(Readers) \in Nat
    /\ Cardinality(Readers) <= Cardinality(Workers)
    /\ Cardinality(Workers) \in Nat
    /\ Cardinality(Readers) = 0 <=> Readers = {}
<1>1. IsFiniteSet(Workers) BY WorkersAssumption
<1>2. Readers \subseteq Workers BY DEF Readers
<1>3. IsFiniteSet(Readers) /\ Cardinality(Readers) <= Cardinality(Workers)
  BY <1>1, <1>2, FS_Subset
<1>4. QED BY <1>1, <1>3, FS_CardinalityType, FS_EmptySet

\* Both arithmetic operators of the network stay within a word when the sum
\* does, and subtraction subtracts.
LEMMA WordArithmetic ==
    /\ \A a, b \in Nat : a + b < WordSize => AddWords(a, b) = a + b
    /\ \A a, b \in Nat : b <= a /\ a < WordSize => SubWords(a, b) = a - b
BY WordFacts DEF AddWords, SubWords

\* The zeroed tuple and the idle threads satisfy the invariant.
LEMMA InitInv == Init => IInv
<1> SUFFICES ASSUME Init PROVE IInv
  OBVIOUS
<1>1. TypeOK
  BY WordFacts DEF Init, TypeOK, EmptyQueue, Queues
<1>2. \A w \in Workers : ~Registered(w) /\ ~HoldsExclusive(w) /\ QueueOK(w)
  BY WordFacts DEF Init, Registered, HoldsExclusive, QueueOK, EmptyQueue, Released
<1>3. Readers = {}
  BY <1>2 DEF Readers
<1>4. lockw = Cardinality(Readers)
  BY <1>3, FS_EmptySet DEF Init
<1>5. LockWordExact
  BY <1>2, <1>4, ReadersFinite DEF LockWordExact, Owned
<1>6. QED
  BY <1>1, <1>2, <1>5 DEF IInv, QueuesOK, Exclusion
-----------------------------------------------------------------------------

\* A step that leaves the lock word alone, changes nobody's registration or
\* ownership and lets no reader in keeps the two properties.
Quiet == /\ lockw' = lockw
         /\ \A v \in Workers : (Registered(v)' <=> Registered(v))
         /\ \A v \in Workers : (HoldsExclusive(v)' <=> HoldsExclusive(v))
         /\ \A v \in Workers : (HoldsShared(v)' => HoldsShared(v))

\* ... so such a step needs no further look at the lock word.
LEMMA QuietStep ==
    Exclusion /\ LockWordExact /\ Quiet => Exclusion' /\ LockWordExact'
<1> SUFFICES ASSUME Exclusion, LockWordExact, Quiet
             PROVE  Exclusion' /\ LockWordExact'
  OBVIOUS
<1>1. Readers' = Readers
  BY DEF Quiet, Readers
<1>2. Owned' <=> Owned
  BY DEF Quiet, Owned
<1>3. LockWordExact'
  BY <1>1, <1>2 DEF LockWordExact, Quiet
<1>4. Exclusion'
  BY DEF Exclusion, Quiet
<1>5. QED
  BY <1>3, <1>4

\* The updated payload is a payload.
LEMMA IncrementedType ==
    \A payload \in [Lines -> Nat] : Incremented(payload) \in [Lines -> Nat]
BY LinesAssumption DEF Incremented

\* A step of w leaves the other workers where they are.
Others(w) == \A v \in Workers \ {w} :
                 pc'[v] = pc[v] /\ old0'[v] = old0[v] /\ wr'[v] = wr[v]

\* A step of one worker is quiet if it is so for this worker.
LEMMA OthersQuiet ==
    ASSUME NEW w \in Workers, Others(w), lockw' = lockw,
           Registered(w)' <=> Registered(w),
           HoldsExclusive(w)' <=> HoldsExclusive(w),
           HoldsShared(w)' => HoldsShared(w)
    PROVE  Quiet
BY DEF Others, Quiet, Registered, HoldsExclusive, HoldsShared

\* Whatever is posted or executed, a queue stays a queue.
LEMMA QueueTypes ==
    ASSUME wr \in [Workers -> Queues], NEW w \in Workers
    PROVE  /\ \A lines \in SUBSET Lines : [wr EXCEPT ![w].write = lines] \in [Workers -> Queues]
           /\ \A lines \in SUBSET Lines : [wr EXCEPT ![w].read = lines] \in [Workers -> Queues]
           /\ \A amount \in {0, 1, Excl} : [wr EXCEPT ![w].release = amount] \in [Workers -> Queues]
           /\ \A kind \in {"none", "shared", "exclusive"} :
                 [wr EXCEPT ![w].acquire = kind] \in [Workers -> Queues]
           /\ \A kind \in {"none", "shared", "exclusive"}, lines \in SUBSET Lines :
                 [wr EXCEPT ![w].acquire = kind, ![w].read = lines] \in [Workers -> Queues]
           /\ \A lines \in SUBSET Lines, amount \in {0, 1, Excl} :
                 [wr EXCEPT ![w].write = lines, ![w].release = amount] \in [Workers -> Queues]
<1> SUFFICES ASSUME NEW lines \in SUBSET Lines, NEW amount \in {0, 1, Excl},
                    NEW kind \in {"none", "shared", "exclusive"}
             PROVE  /\ [wr EXCEPT ![w].write = lines] \in [Workers -> Queues]
                    /\ [wr EXCEPT ![w].read = lines] \in [Workers -> Queues]
                    /\ [wr EXCEPT ![w].release = amount] \in [Workers -> Queues]
                    /\ [wr EXCEPT ![w].acquire = kind] \in [Workers -> Queues]
                    /\ [wr EXCEPT ![w].acquire = kind, ![w].read = lines] \in [Workers -> Queues]
                    /\ [wr EXCEPT ![w].write = lines, ![w].release = amount] \in [Workers -> Queues]
  BY Zenon
<1> DEFINE q == wr[w]
<1>1. /\ [q EXCEPT !.write = lines] \in Queues
      /\ [q EXCEPT !.release = amount] \in Queues
      /\ [q EXCEPT !.acquire = kind] \in Queues
      /\ [q EXCEPT !.read = lines] \in Queues
  BY DEF Queues
<1>2. /\ [[q EXCEPT !.acquire = kind] EXCEPT !.read = lines] \in Queues
      /\ [[q EXCEPT !.write = lines] EXCEPT !.release = amount] \in Queues
  BY DEF Queues
<1>3. \A p \in Queues : [wr EXCEPT ![w] = p] \in [Workers -> Queues]
  OBVIOUS
<1>4. /\ [wr EXCEPT ![w].acquire = kind, ![w].read = lines]
         = [wr EXCEPT ![w] = [[q EXCEPT !.acquire = kind] EXCEPT !.read = lines]]
      /\ [wr EXCEPT ![w].write = lines, ![w].release = amount]
         = [wr EXCEPT ![w] = [[q EXCEPT !.write = lines] EXCEPT !.release = amount]]
  OBVIOUS
<1>5. QED BY <1>1, <1>2, <1>3, <1>4

\* What the thread does is quiet: it posts requests and reads results.
LEMMA ReaderStep ==
    ASSUME IInv, NEW w \in Workers, Reader(w)
    PROVE  TypeOK' /\ QueuesOK' /\ Quiet
<1> USE WordFacts DEF IInv, Goto, remote, main
<1>1. ASSUME ChooseRead(w) PROVE TypeOK' /\ QueuesOK' /\ Quiet
  <2>1. TypeOK' BY <1>1 DEF ChooseRead, TypeOK
  <2>2. QueuesOK' BY <1>1 DEF ChooseRead, TypeOK, Queues, QueuesOK, QueueOK, Polled, Acquired, Released
  <2>3. Quiet
    BY <1>1 DEF ChooseRead, TypeOK, Queues, QueuesOK, QueueOK, Polled, Acquired, Released,
       Quiet, Registered, HoldsExclusive, HoldsShared
  <2>4. QED BY <2>1, <2>2, <2>3
<1>2. ASSUME PostShared(w) PROVE TypeOK' /\ QueuesOK' /\ Quiet
  <2>1. TypeOK'
    <3>1. SpeculativeRead \in SUBSET Lines BY DEF SpeculativeRead
    <3>2. wr' \in [Workers -> Queues]
      BY <1>2, <3>1, QueueTypes DEF PostShared, TypeOK
    <3>3. QED BY <1>2, <3>2 DEF PostShared, TypeOK
  <2>2. Others(w) /\ lockw' = lockw /\ old0' = old0
    BY <1>2 DEF PostShared, TypeOK, Queues, Others
  <2>3. /\ pc[w] = "shared"
        /\ pc'[w] = "s_lock"
        /\ wr'[w].acquire = "shared"
        /\ wr'[w].release = wr[w].release
        /\ wr[w].acquire = "none"
    BY <1>2 DEF PostShared, TypeOK, Queues, Polled, Acquired, Released, QueuesOK, QueueOK
  <2>4. QueuesOK'
    BY <2>2, <2>3 DEF QueuesOK, QueueOK, Others, Released
  <2>5. Quiet
    BY <2>2, <2>3, OthersQuiet DEF QueuesOK, QueueOK, Polled, Acquired, Released,
       Registered, HoldsExclusive, HoldsShared
  <2>6. QED BY <2>1, <2>4, <2>5
<1>3. ASSUME SharedRefused(w) PROVE TypeOK' /\ QueuesOK' /\ Quiet
  <2>1. TypeOK'
    <3>1. wr' \in [Workers -> Queues]
      BY <1>3, QueueTypes DEF SharedRefused, TypeOK
    <3>2. QED BY <1>3, <3>1 DEF SharedRefused, TypeOK
  <2>2. Others(w) /\ lockw' = lockw /\ old0' = old0
    BY <1>3 DEF SharedRefused, TypeOK, Queues, Others
  <2>3. /\ pc[w] = "s_lock"
        /\ pc'[w] = "s_undo" /\ old0[w] >= Excl
        /\ wr'[w].release = 1
        /\ wr'[w].acquire = "none"
        /\ Polled(w)
    BY <1>3 DEF SharedRefused, TypeOK, Queues, Polled, Acquired, Released, QueuesOK, QueueOK
  <2>4. QueuesOK'
    BY <2>2, <2>3 DEF QueuesOK, QueueOK, Others, Released
  <2>5. Quiet
    BY <2>2, <2>3, OthersQuiet DEF QueuesOK, QueueOK, Polled, Acquired, Released,
       Registered, HoldsExclusive, HoldsShared
  <2>6. QED BY <2>1, <2>4, <2>5
<1>4. ASSUME SharedRetry(w) PROVE TypeOK' /\ QueuesOK' /\ Quiet
  <2>1. TypeOK' BY <1>4 DEF SharedRetry, TypeOK
  <2>2. QueuesOK' BY <1>4 DEF SharedRetry, TypeOK, Queues, QueuesOK, QueueOK, Polled, Acquired, Released
  <2>3. Quiet
    BY <1>4 DEF SharedRetry, TypeOK, Queues, QueuesOK, QueueOK, Polled, Acquired, Released,
       Quiet, Registered, HoldsExclusive, HoldsShared
  <2>4. QED BY <2>1, <2>2, <2>3
<1>5. ASSUME SharedGranted(w) PROVE TypeOK' /\ QueuesOK' /\ Quiet
  <2>1. TypeOK'
    <3>1. CASE variant.speculative_read BY <1>5, <3>1 DEF SharedGranted, TypeOK
    <3>2. CASE ~variant.speculative_read
      <4>1. wr' = [wr EXCEPT ![w].read = Lines]
        BY <1>5, <3>2 DEF SharedGranted
      <4>2. wr' \in [Workers -> Queues]
        BY <4>1, QueueTypes DEF TypeOK
      <4>3. QED BY <1>5, <3>2, <4>2 DEF SharedGranted, TypeOK
    <3>3. QED BY <3>1, <3>2
  <2>2. Others(w) /\ lockw' = lockw /\ old0' = old0
    BY <1>5 DEF SharedGranted, TypeOK, Queues, Others
  <2>3. /\ pc[w] = "s_lock"
        /\ pc'[w] \in {"s_cs", "s_read"} /\ old0[w] < Excl
        /\ wr'[w].release = 0
        /\ wr'[w].acquire = "none"
        /\ wr'[w].write = {}
        /\ Polled(w)
    <3>1. CASE variant.speculative_read
      BY <1>5, <3>1 DEF SharedGranted, TypeOK, Queues, Polled, Acquired, Released, QueuesOK, QueueOK
    <3>2. CASE ~variant.speculative_read
      <4>1. pc[w] = "s_lock" /\ pc'[w] = "s_read" /\ Polled(w)
        BY <1>5, <3>2 DEF SharedGranted, TypeOK
      <4>2. wr' = [wr EXCEPT ![w].read = Lines]
        BY <1>5, <3>2 DEF SharedGranted
      <4>3. /\ wr'[w].release = wr[w].release /\ wr'[w].acquire = wr[w].acquire
            /\ wr'[w].write = wr[w].write
        BY <4>2 DEF TypeOK, Queues
      <4>4. QED BY <1>5, <4>1, <4>3 DEF SharedGranted, Polled, Acquired, Released
    <3>3. QED BY <3>1, <3>2
  <2>4. QueuesOK'
    BY <2>2, <2>3 DEF QueuesOK, QueueOK, Others, Released
  <2>5. Quiet
    BY <2>2, <2>3, OthersQuiet DEF QueuesOK, QueueOK, Polled, Acquired, Released,
       Registered, HoldsExclusive, HoldsShared
  <2>6. QED BY <2>1, <2>4, <2>5
<1>6. ASSUME SharedRead(w) PROVE TypeOK' /\ QueuesOK' /\ Quiet
  <2>1. TypeOK' BY <1>6 DEF SharedRead, TypeOK
  <2>2. QueuesOK' BY <1>6 DEF SharedRead, TypeOK, Queues, QueuesOK, QueueOK, Polled, Acquired, Released
  <2>3. Quiet
    BY <1>6 DEF SharedRead, TypeOK, Queues, QueuesOK, QueueOK, Polled, Acquired, Released,
       Quiet, Registered, HoldsExclusive, HoldsShared
  <2>4. QED BY <2>1, <2>2, <2>3
<1>7. ASSUME SharedRelease(w) PROVE TypeOK' /\ QueuesOK' /\ Quiet
  <2>1. TypeOK'
    <3>1. wr' \in [Workers -> Queues]
      BY <1>7, QueueTypes DEF SharedRelease, TypeOK
    <3>2. QED BY <1>7, <3>1 DEF SharedRelease, TypeOK
  <2>2. Others(w) /\ lockw' = lockw /\ old0' = old0
    BY <1>7 DEF SharedRelease, TypeOK, Queues, Others
  <2>3. /\ pc[w] = "s_cs"
        /\ pc'[w] \in {"idle", "s_release"}
        /\ wr'[w].release = 1
        /\ wr'[w].acquire = "none"
    <3>1. pc[w] = "s_cs" /\ pc'[w] \in {"idle", "s_release"}
      BY <1>7 DEF SharedRelease, TypeOK
    <3>2. wr'[w].release = 1 /\ wr'[w].acquire = wr[w].acquire
      BY <1>7 DEF SharedRelease, TypeOK, Queues
    <3>3. wr[w].acquire = "none"
      BY <3>1 DEF TypeOK, Queues, QueuesOK, QueueOK
    <3>4. QED BY <3>1, <3>2, <3>3
  <2>4. QueuesOK'
    BY <2>2, <2>3 DEF QueuesOK, QueueOK, Others, Released
  <2>5. Quiet
    BY <2>2, <2>3, OthersQuiet DEF QueuesOK, QueueOK, Polled, Acquired, Released,
       Registered, HoldsExclusive, HoldsShared
  <2>6. QED BY <2>1, <2>4, <2>5
<1>8. ASSUME SharedReleased(w) PROVE TypeOK' /\ QueuesOK' /\ Quiet
  <2>1. TypeOK' BY <1>8 DEF SharedReleased, TypeOK
  <2>2. QueuesOK' BY <1>8 DEF SharedReleased, TypeOK, Queues, QueuesOK, QueueOK, Polled, Acquired, Released
  <2>3. Quiet
    BY <1>8 DEF SharedReleased, TypeOK, Queues, QueuesOK, QueueOK, Polled, Acquired, Released,
       Quiet, Registered, HoldsExclusive, HoldsShared
  <2>4. QED BY <2>1, <2>2, <2>3
<1>9. QED BY <1>1, <1>2, <1>3, <1>4, <1>5, <1>6, <1>7, <1>8 DEF Reader

\* So is what a writer's thread does, up to posting the release.
LEMMA WriterStep ==
    ASSUME IInv, NEW w \in Workers, Writer(w)
    PROVE  TypeOK' /\ QueuesOK' /\ Quiet
<1> USE WordFacts DEF IInv, Goto, remote, main
<1>1. ASSUME ChooseWrite(w) PROVE TypeOK' /\ QueuesOK' /\ Quiet
  <2>1. TypeOK' BY <1>1 DEF ChooseWrite, TypeOK
  <2>2. QueuesOK' BY <1>1 DEF ChooseWrite, TypeOK, Queues, QueuesOK, QueueOK, Polled, Acquired, Released
  <2>3. Quiet
    BY <1>1 DEF ChooseWrite, TypeOK, Queues, QueuesOK, QueueOK, Polled, Acquired, Released,
       Quiet, Registered, HoldsExclusive, HoldsShared
  <2>4. QED BY <2>1, <2>2, <2>3
<1>2. ASSUME PostExclusive(w) PROVE TypeOK' /\ QueuesOK' /\ Quiet
  <2>1. TypeOK'
    <3>1. SpeculativeRead \in SUBSET Lines BY DEF SpeculativeRead
    <3>2. wr' \in [Workers -> Queues]
      BY <1>2, <3>1, QueueTypes DEF PostExclusive, TypeOK
    <3>3. QED BY <1>2, <3>2 DEF PostExclusive, TypeOK
  <2>2. Others(w) /\ lockw' = lockw /\ old0' = old0
    BY <1>2 DEF PostExclusive, TypeOK, Queues, Others
  <2>3. /\ pc[w] = "exclusive"
        /\ pc'[w] = "x_lock"
        /\ wr'[w].acquire = "exclusive"
        /\ wr'[w].release = wr[w].release
    BY <1>2 DEF PostExclusive, TypeOK, Queues, Polled, Acquired, Released, QueuesOK, QueueOK
  <2>4. QueuesOK'
    BY <2>2, <2>3 DEF QueuesOK, QueueOK, Others, Released
  <2>5. Quiet
    BY <2>2, <2>3, OthersQuiet DEF QueuesOK, QueueOK, Polled, Acquired, Released,
       Registered, HoldsExclusive, HoldsShared
  <2>6. QED BY <2>1, <2>4, <2>5
<1>3. ASSUME ExclusiveRefused(w) PROVE TypeOK' /\ QueuesOK' /\ Quiet
  <2>1. TypeOK' BY <1>3 DEF ExclusiveRefused, TypeOK
  <2>2. QueuesOK' BY <1>3 DEF ExclusiveRefused, TypeOK, Queues, QueuesOK, QueueOK, Polled, Acquired, Released
  <2>3. Quiet
    BY <1>3 DEF ExclusiveRefused, TypeOK, Queues, QueuesOK, QueueOK, Polled, Acquired, Released,
       Quiet, Registered, HoldsExclusive, HoldsShared
  <2>4. QED BY <2>1, <2>2, <2>3
<1>4. ASSUME ExclusiveGranted(w) PROVE TypeOK' /\ QueuesOK' /\ Quiet
  <2>1. TypeOK'
    <3>1. CASE variant.speculative_read BY <1>4, <3>1 DEF ExclusiveGranted, TypeOK
    <3>2. CASE ~variant.speculative_read
      <4>1. wr' = [wr EXCEPT ![w].read = Lines]
        BY <1>4, <3>2 DEF ExclusiveGranted
      <4>2. wr' \in [Workers -> Queues]
        BY <4>1, QueueTypes DEF TypeOK
      <4>3. QED BY <1>4, <3>2, <4>2 DEF ExclusiveGranted, TypeOK
    <3>3. QED BY <3>1, <3>2
  <2>2. Others(w) /\ lockw' = lockw /\ old0' = old0
    BY <1>4 DEF ExclusiveGranted, TypeOK, Queues, Others
  <2>3. /\ pc[w] = "x_lock"
        /\ pc'[w] \in {"x_cs", "x_read"} /\ old0[w] = 0
        /\ wr'[w].release = 0
        /\ wr'[w].acquire = "none"
        /\ wr'[w].write = {}
        /\ Polled(w)
    <3>1. CASE variant.speculative_read
      BY <1>4, <3>1 DEF ExclusiveGranted, TypeOK, Queues, Polled, Acquired, Released, QueuesOK, QueueOK
    <3>2. CASE ~variant.speculative_read
      <4>1. pc[w] = "x_lock" /\ pc'[w] = "x_read" /\ Polled(w)
        BY <1>4, <3>2 DEF ExclusiveGranted, TypeOK
      <4>2. wr' = [wr EXCEPT ![w].read = Lines]
        BY <1>4, <3>2 DEF ExclusiveGranted
      <4>3. /\ wr'[w].release = wr[w].release /\ wr'[w].acquire = wr[w].acquire
            /\ wr'[w].write = wr[w].write
        BY <4>2 DEF TypeOK, Queues
      <4>4. QED BY <1>4, <4>1, <4>3 DEF ExclusiveGranted, Polled, Acquired, Released
    <3>3. QED BY <3>1, <3>2
  <2>4. QueuesOK'
    BY <2>2, <2>3 DEF QueuesOK, QueueOK, Others, Released
  <2>5. Quiet
    BY <2>2, <2>3, OthersQuiet DEF QueuesOK, QueueOK, Polled, Acquired, Released,
       Registered, HoldsExclusive, HoldsShared
  <2>6. QED BY <2>1, <2>4, <2>5
<1>5. ASSUME ExclusiveRead(w) PROVE TypeOK' /\ QueuesOK' /\ Quiet
  <2>1. TypeOK' BY <1>5 DEF ExclusiveRead, TypeOK
  <2>2. QueuesOK' BY <1>5 DEF ExclusiveRead, TypeOK, Queues, QueuesOK, QueueOK, Polled, Acquired, Released
  <2>3. Quiet
    BY <1>5 DEF ExclusiveRead, TypeOK, Queues, QueuesOK, QueueOK, Polled, Acquired, Released,
       Quiet, Registered, HoldsExclusive, HoldsShared
  <2>4. QED BY <2>1, <2>2, <2>3
<1>6. ASSUME UpdateThenWrite(w) PROVE TypeOK' /\ QueuesOK' /\ Quiet
  <2>1. TypeOK'
    <3>1. old' \in [Workers -> [Lines -> Nat]]
      BY <1>6, IncrementedType DEF UpdateThenWrite, TypeOK
    <3>2. wr' \in [Workers -> Queues]
      BY <1>6, QueueTypes DEF UpdateThenWrite, TypeOK
    <3>3. QED BY <1>6, <3>1, <3>2 DEF UpdateThenWrite, TypeOK
  <2>2. Others(w) /\ lockw' = lockw /\ old0' = old0
    BY <1>6 DEF UpdateThenWrite, TypeOK, Queues, Others
  <2>3. /\ pc[w] = "x_cs"
        /\ pc'[w] = "x_write"
        /\ wr'[w].release = 0
        /\ wr'[w].acquire = "none"
    <3>1. pc[w] = "x_cs" /\ pc'[w] = "x_write"
      BY <1>6 DEF UpdateThenWrite, TypeOK
    <3>2. wr'[w].release = wr[w].release /\ wr'[w].acquire = wr[w].acquire
      BY <1>6 DEF UpdateThenWrite, TypeOK, Queues
    <3>3. wr[w].release = 0 /\ wr[w].acquire = "none"
      BY <3>1 DEF TypeOK, Queues, QueuesOK, QueueOK, Released
    <3>4. QED BY <3>1, <3>2, <3>3
  <2>4. QueuesOK'
    BY <2>2, <2>3 DEF QueuesOK, QueueOK, Others, Released
  <2>5. Quiet
    BY <2>2, <2>3, OthersQuiet DEF QueuesOK, QueueOK, Polled, Acquired, Released,
       Registered, HoldsExclusive, HoldsShared
  <2>6. QED BY <2>1, <2>4, <2>5
<1>7. ASSUME ExclusiveRelease(w) PROVE TypeOK' /\ QueuesOK' /\ Quiet
  <2>1. TypeOK'
    <3>1. wr' \in [Workers -> Queues]
      BY <1>7, QueueTypes DEF ExclusiveRelease, TypeOK
    <3>2. QED BY <1>7, <3>1 DEF ExclusiveRelease, TypeOK
  <2>2. Others(w) /\ lockw' = lockw /\ old0' = old0
    BY <1>7 DEF ExclusiveRelease, TypeOK, Queues, Others
  <2>3. /\ pc[w] = "x_write"
        /\ pc'[w] = "x_release"
        /\ wr'[w].release = Excl
        /\ wr'[w].acquire = "none"
        /\ Polled(w)
    BY <1>7 DEF ExclusiveRelease, TypeOK, Queues, Polled, Acquired, Released, QueuesOK, QueueOK
  <2>4. QueuesOK'
    BY <2>2, <2>3 DEF QueuesOK, QueueOK, Others, Released
  <2>5. Quiet
    BY <2>2, <2>3, OthersQuiet DEF QueuesOK, QueueOK, Polled, Acquired, Released,
       Registered, HoldsExclusive, HoldsShared
  <2>6. QED BY <2>1, <2>4, <2>5
<1>8. ASSUME UpdateAndRelease(w) PROVE TypeOK' /\ QueuesOK' /\ Quiet
  <2>1. TypeOK'
    <3>1. old' \in [Workers -> [Lines -> Nat]]
      BY <1>8, IncrementedType DEF UpdateAndRelease, TypeOK
    <3>2. wr' \in [Workers -> Queues]
      BY <1>8, QueueTypes DEF UpdateAndRelease, TypeOK
    <3>3. QED BY <1>8, <3>1, <3>2 DEF UpdateAndRelease, TypeOK
  <2>2. Others(w) /\ lockw' = lockw /\ old0' = old0
    BY <1>8 DEF UpdateAndRelease, TypeOK, Queues, Others
  <2>3. /\ pc[w] = "x_cs"
        /\ pc'[w] = "x_release"
        /\ wr'[w].release = Excl
        /\ wr'[w].acquire = "none"
    BY <1>8 DEF UpdateAndRelease, TypeOK, Queues, Polled, Acquired, Released, QueuesOK, QueueOK
  <2>4. QueuesOK'
    BY <2>2, <2>3 DEF QueuesOK, QueueOK, Others, Released
  <2>5. Quiet
    BY <2>2, <2>3, OthersQuiet DEF QueuesOK, QueueOK, Polled, Acquired, Released,
       Registered, HoldsExclusive, HoldsShared
  <2>6. QED BY <2>1, <2>4, <2>5
<1>9. ASSUME UpdateAndGoOn(w) PROVE TypeOK' /\ QueuesOK' /\ Quiet
  <2>1. TypeOK'
    <3>1. old' \in [Workers -> [Lines -> Nat]]
      BY <1>9, IncrementedType DEF UpdateAndGoOn, TypeOK
    <3>2. wr' \in [Workers -> Queues]
      BY <1>9, QueueTypes DEF UpdateAndGoOn, TypeOK
    <3>3. QED BY <1>9, <3>1, <3>2 DEF UpdateAndGoOn, TypeOK, CountUpdate
  <2>2. Others(w) /\ lockw' = lockw /\ old0' = old0
    BY <1>9 DEF UpdateAndGoOn, TypeOK, Queues, Others
  <2>3. /\ pc[w] = "x_cs"
        /\ pc'[w] = "idle"
        /\ wr'[w].release = Excl
        /\ wr'[w].acquire = "none"
    BY <1>9 DEF UpdateAndGoOn, TypeOK, Queues, Polled, Acquired, Released, QueuesOK, QueueOK
  <2>4. QueuesOK'
    BY <2>2, <2>3 DEF QueuesOK, QueueOK, Others, Released
  <2>5. Quiet
    BY <2>2, <2>3, OthersQuiet DEF QueuesOK, QueueOK, Polled, Acquired, Released,
       Registered, HoldsExclusive, HoldsShared
  <2>6. QED BY <2>1, <2>4, <2>5
<1>10. ASSUME ExclusiveReleased(w) PROVE TypeOK' /\ QueuesOK' /\ Quiet
  <2>1. TypeOK' BY <1>10 DEF ExclusiveReleased, TypeOK, CountUpdate
  <2>2. QueuesOK' BY <1>10 DEF ExclusiveReleased, TypeOK, Queues, QueuesOK, QueueOK, Polled, Acquired, Released
  <2>3. Quiet
    BY <1>10 DEF ExclusiveReleased, TypeOK, Queues, QueuesOK, QueueOK, Polled, Acquired, Released,
       Quiet, Registered, HoldsExclusive, HoldsShared
  <2>4. QED BY <2>1, <2>2, <2>3
<1>11. QED BY <1>1, <1>2, <1>3, <1>4, <1>5, <1>6, <1>7, <1>8, <1>9, <1>10 DEF Writer

\* Payload traffic is quiet too.
LEMMA PayloadStep ==
    ASSUME IInv, NEW w \in Workers, NEW l \in Lines, NicWrite(w, l) \/ NicRead(w, l)
    PROVE  TypeOK' /\ QueuesOK' /\ Quiet
<1> USE WordFacts DEF IInv, local, remote, main
<1>1. CASE NicWrite(w, l)
  <2>1. wr' \in [Workers -> Queues]
    <3>1. wr[w].write \ {l} \in SUBSET Lines
      BY DEF TypeOK, Queues
    <3>2. wr' = [wr EXCEPT ![w].write = wr[w].write \ {l}]
      BY <1>1 DEF NicWrite
    <3>3. QED BY <3>1, <3>2, QueueTypes DEF TypeOK
  <2>2. data' \in [Lines -> Nat]
    BY <1>1 DEF NicWrite, TypeOK
  <2>3. TypeOK'
    BY <1>1, <2>1, <2>2 DEF NicWrite, TypeOK
  <2>4. Others(w) /\ lockw' = lockw /\ old0' = old0
    BY <1>1 DEF NicWrite, TypeOK, Queues, Others
  <2>5. /\ pc' = pc
        /\ wr'[w].release = wr[w].release
        /\ wr'[w].acquire = wr[w].acquire
        /\ wr'[w].write \subseteq wr[w].write
    BY <1>1 DEF NicWrite, TypeOK, Queues
  <2>6. QueuesOK'
    BY <2>4, <2>5 DEF QueuesOK, QueueOK, Others, Released
  <2>7. Quiet
    BY <2>4, <2>5, OthersQuiet DEF Registered, HoldsExclusive, HoldsShared
  <2>8. QED BY <2>3, <2>6, <2>7
<1>2. CASE NicRead(w, l)
  <2>1. wr' \in [Workers -> Queues]
    <3>1. wr[w].read \ {l} \in SUBSET Lines
      BY DEF TypeOK, Queues
    <3>2. wr' = [wr EXCEPT ![w].read = wr[w].read \ {l}]
      BY <1>2 DEF NicRead
    <3>3. QED BY <3>1, <3>2, QueueTypes DEF TypeOK
  <2>2. old' \in [Workers -> [Lines -> Nat]]
    BY <1>2 DEF NicRead, TypeOK
  <2>3. TypeOK'
    BY <1>2, <2>1, <2>2 DEF NicRead, TypeOK
  <2>4. Others(w) /\ lockw' = lockw /\ old0' = old0
    BY <1>2 DEF NicRead, TypeOK, Queues, Others
  <2>5. /\ pc' = pc
        /\ wr'[w].release = wr[w].release
        /\ wr'[w].acquire = wr[w].acquire
        /\ wr'[w].write = wr[w].write
    BY <1>2 DEF NicRead, TypeOK, Queues
  <2>6. QueuesOK'
    BY <2>4, <2>5 DEF QueuesOK, QueueOK, Others, Released
  <2>7. Quiet
    BY <2>4, <2>5, OthersQuiet DEF Registered, HoldsExclusive, HoldsShared
  <2>8. QED BY <2>3, <2>6, <2>7
<1>3. QED BY <1>1, <1>2

-----------------------------------------------------------------------------

\* How the three atomics move the count.
LEMMA Enter ==
    ASSUME NEW w \in Workers, Others(w), ~Registered(w), Registered(w)'
    PROVE  /\ Readers' = Readers \union {w}
           /\ Cardinality(Readers') = Cardinality(Readers) + 1
           /\ Cardinality(Readers) + 1 <= Cardinality(Workers)
<1>1. Readers' = Readers \union {w}
  BY DEF Readers, Registered, Others
<1>2. w \notin Readers
  BY DEF Readers
<1>3. Cardinality(Readers \union {w}) = Cardinality(Readers) + 1
  BY <1>2, ReadersFinite, FS_AddElement
<1>4. Readers \union {w} \subseteq Workers
  BY DEF Readers
<1>5. Cardinality(Readers \union {w}) <= Cardinality(Workers)
  BY <1>4, WorkersAssumption, FS_Subset
<1>6. QED BY <1>1, <1>3, <1>5

\* ... and out of it again.
LEMMA Leave ==
    ASSUME NEW w \in Workers, Others(w), Registered(w), ~Registered(w)'
    PROVE  /\ Readers' = Readers \ {w}
           /\ Cardinality(Readers') = Cardinality(Readers) - 1
           /\ Cardinality(Readers) >= 1
<1>1. Readers' = Readers \ {w}
  BY DEF Readers, Registered, Others
<1>2. w \in Readers
  BY DEF Readers
<1>3. Cardinality(Readers \ {w}) = Cardinality(Readers) - 1
  BY <1>2, ReadersFinite, FS_RemoveElement
<1>4. Cardinality(Readers) >= 1
  BY <1>2, ReadersFinite
<1>5. QED BY <1>1, <1>3, <1>4

\* A registration adds one; a reader that saw no writer has none beside it.
LEMMA FetchAddStep ==
    ASSUME IInv, NEW w \in Workers, NicFetchAdd(w)
    PROVE  IInv'
<1> USE WordFacts DEF IInv, main
<1>1. /\ Others(w) /\ pc' = pc /\ pc[w] = "s_lock" /\ wr[w].acquire = "shared"
      /\ wr[w].write = {} /\ wr[w].release = 0
      /\ wr'[w].acquire = "none" /\ wr'[w].release = 0 /\ wr'[w].write = {}
      /\ old0'[w] = lockw
  BY DEF NicFetchAdd, TypeOK, Queues, Others, QueuesOK, QueueOK, Released
<1>2. QueuesOK'
  BY <1>1 DEF QueuesOK, QueueOK, Others, Released
<1>3. ~Registered(w) /\ ~HoldsExclusive(w) /\ Registered(w)' /\ ~HoldsExclusive(w)'
  BY <1>1 DEF Registered, HoldsExclusive
<1>4. \A v \in Workers \ {w} : /\ HoldsExclusive(v)' <=> HoldsExclusive(v)
                               /\ HoldsShared(v)' <=> HoldsShared(v)
  BY <1>1 DEF Others, HoldsExclusive, HoldsShared
<1>5. Owned' <=> Owned
  BY <1>3, <1>4 DEF Owned
<1>6. lockw \in Nat /\ lockw + 1 < WordSize
  BY <1>1, <1>3, Enter, ReadersFinite DEF LockWordExact
<1>7. lockw' = lockw + 1
  BY <1>6, WordArithmetic DEF NicFetchAdd
<1>8. LockWordExact'
  BY <1>1, <1>3, <1>5, <1>7, Enter, ReadersFinite DEF LockWordExact
<1>9. HoldsShared(w)' => ~Owned
  BY <1>1, ReadersFinite DEF HoldsShared, LockWordExact
<1>10. Exclusion'
  BY <1>3, <1>4, <1>9 DEF Exclusion, Owned
<1>11. TypeOK'
  <2>1. wr' \in [Workers -> Queues]
    BY QueueTypes DEF NicFetchAdd, TypeOK
  <2>2. lockw' \in Words
    BY <1>6, <1>7 DEF Words
  <2>3. QED BY <2>1, <2>2 DEF NicFetchAdd, TypeOK
<1>12. QED BY <1>2, <1>8, <1>10, <1>11

\* The swap succeeds on an unlocked tuple only, and then the swapper is alone.
LEMMA CompareSwapStep ==
    ASSUME IInv, NEW w \in Workers, NicCompareSwap(w)
    PROVE  IInv'
<1> USE WordFacts DEF IInv, main
<1>1. /\ Others(w) /\ pc' = pc /\ pc[w] = "x_lock" /\ wr[w].acquire = "exclusive"
      /\ wr[w].write = {} /\ wr[w].release = 0
      /\ wr'[w].acquire = "none" /\ wr'[w].release = 0 /\ wr'[w].write = {}
      /\ old0'[w] = lockw
  BY DEF NicCompareSwap, TypeOK, Queues, Others, QueuesOK, QueueOK, Released
<1>2. QueuesOK'
  BY <1>1 DEF QueuesOK, QueueOK, Others, Released
<1>3. ~Registered(w) /\ ~HoldsExclusive(w) /\ ~Registered(w)' /\ ~HoldsShared(w)'
  BY <1>1 DEF Registered, HoldsExclusive, HoldsShared
<1>4. \A v \in Workers \ {w} : /\ Registered(v)' <=> Registered(v)
                               /\ HoldsExclusive(v)' <=> HoldsExclusive(v)
                               /\ HoldsShared(v)' <=> HoldsShared(v)
  BY <1>1 DEF Others, Registered, HoldsExclusive, HoldsShared
<1>5. Readers' = Readers
  BY <1>3, <1>4 DEF Readers
<1>6. wr' \in [Workers -> Queues]
  BY QueueTypes DEF NicCompareSwap, TypeOK
<1>7. CASE lockw = 0
  <2>1. Readers = {} /\ ~Owned
    BY <1>7, ReadersFinite DEF LockWordExact
  <2>2. \A v \in Workers : ~HoldsExclusive(v) /\ ~HoldsShared(v)
    BY <2>1 DEF Owned, Readers, Registered, HoldsShared
  <2>3. lockw' = Excl /\ HoldsExclusive(w)'
    BY <1>1, <1>7 DEF NicCompareSwap, HoldsExclusive
  <2>4. Owned'
    BY <2>3 DEF Owned
  <2>5. LockWordExact'
    BY <1>5, <2>1, <2>3, <2>4, ReadersFinite DEF LockWordExact
  <2>6. Exclusion'
    BY <1>3, <1>4, <2>2 DEF Exclusion
  <2>7. TypeOK'
    BY <1>6, <2>3 DEF NicCompareSwap, TypeOK, Words
  <2>8. QED BY <1>2, <2>5, <2>6, <2>7
<1>8. CASE lockw # 0
  <2>1. lockw' = lockw /\ ~HoldsExclusive(w)'
    BY <1>1, <1>8 DEF NicCompareSwap, HoldsExclusive
  <2>2. Quiet
    BY <1>3, <1>4, <2>1 DEF Quiet
  <2>3. TypeOK'
    BY <1>6, <2>1 DEF NicCompareSwap, TypeOK
  <2>4. QED BY <1>2, <2>2, <2>3, QuietStep
<1>9. QED BY <1>7, <1>8

\* A release takes back what the acquisition added.
LEMMA ReleaseStep ==
    ASSUME IInv, NEW w \in Workers, NicRelease(w)
    PROVE  IInv'
<1> USE WordFacts DEF IInv, main
<1>1. /\ Others(w) /\ pc' = pc
      /\ wr[w].release \in {1, Excl} /\ wr'[w].release = 0
      /\ wr'[w].acquire = wr[w].acquire /\ wr'[w].write = wr[w].write
      /\ wr'[w].write = {}
  BY DEF NicRelease, TypeOK, Queues, Others
<1>2. QueuesOK'
  BY <1>1 DEF QueuesOK, QueueOK, Others, Released
<1>3. /\ ~(pc[w] = "s_lock" /\ wr[w].acquire = "none")
      /\ ~(pc[w] = "x_lock" /\ wr[w].acquire = "none")
      /\ pc[w] \notin {"s_read", "s_cs", "x_read", "x_cs", "x_write"}
  BY <1>1 DEF QueuesOK, QueueOK, Released
<1>4. ~Registered(w)' /\ ~HoldsExclusive(w)' /\ ~HoldsShared(w)'
  BY <1>1, <1>3 DEF Registered, HoldsExclusive, HoldsShared
<1>5. \A v \in Workers \ {w} : /\ Registered(v)' <=> Registered(v)
                               /\ HoldsExclusive(v)' <=> HoldsExclusive(v)
                               /\ HoldsShared(v)' <=> HoldsShared(v)
  BY <1>1 DEF Others, Registered, HoldsExclusive, HoldsShared
<1>6. Exclusion'
  BY <1>4, <1>5 DEF Exclusion
<1>7. wr' \in [Workers -> Queues] /\ old0' \in [Workers -> Words]
  <2>1. wr' = [wr EXCEPT ![w].release = 0]
    BY DEF NicRelease
  <2>2. wr' \in [Workers -> Queues]
    BY <2>1, QueueTypes DEF TypeOK
  <2>3. QED BY <2>2 DEF NicRelease, TypeOK
<1>8. lockw \in Nat /\ lockw < WordSize
  BY DEF TypeOK, Words
<1>9. CASE wr[w].release = 1
  <2>1. Registered(w) /\ ~HoldsExclusive(w)
    BY <1>3, <1>9 DEF Registered, HoldsExclusive
  <2>2. Owned' <=> Owned
    BY <1>4, <1>5, <2>1 DEF Owned
  <2>3. lockw >= 1
    BY <1>1, <1>4, <2>1, Leave, ReadersFinite DEF LockWordExact
  <2>4. lockw' = lockw - 1
    BY <1>8, <1>9, <2>3, WordArithmetic DEF NicRelease
  <2>5. LockWordExact'
    BY <1>1, <1>4, <2>1, <2>2, <2>4, Leave, ReadersFinite DEF LockWordExact
  <2>6. TypeOK'
    BY <1>7, <1>8, <2>3, <2>4 DEF NicRelease, TypeOK, Words
  <2>7. QED BY <1>2, <1>6, <2>5, <2>6
<1>10. CASE wr[w].release = Excl
  <2>1. HoldsExclusive(w) /\ ~Registered(w)
    BY <1>3, <1>10 DEF Registered, HoldsExclusive
  <2>2. Owned /\ ~Owned'
    BY <1>4, <1>5, <2>1 DEF Owned, Exclusion
  <2>3. Readers' = Readers
    BY <1>4, <1>5, <2>1 DEF Readers
  <2>4. lockw >= Excl
    BY <2>2, ReadersFinite DEF LockWordExact
  <2>5. lockw' = lockw - Excl
    BY <1>8, <1>10, <2>4, WordArithmetic DEF NicRelease
  <2>6. LockWordExact'
    BY <2>2, <2>3, <2>5, ReadersFinite DEF LockWordExact
  <2>7. TypeOK'
    BY <1>7, <1>8, <2>4, <2>5 DEF NicRelease, TypeOK, Words
  <2>8. QED BY <1>2, <1>6, <2>6, <2>7
<1>11. QED BY <1>1, <1>9, <1>10

-----------------------------------------------------------------------------

\* Every step of the system keeps the invariant.
LEMMA NextInv == IInv /\ [Next]_vars => IInv'
<1> SUFFICES ASSUME IInv, [Next]_vars PROVE IInv'
  OBVIOUS
<1>1. ASSUME NEW w \in Workers, Nic(w) PROVE IInv'
  <2>1. ASSUME NEW l \in Lines, NicWrite(w, l) \/ NicRead(w, l) PROVE IInv'
    BY <2>1, PayloadStep, QuietStep DEF IInv
  <2>2. QED
    BY <1>1, <2>1, FetchAddStep, CompareSwapStep, ReleaseStep DEF Nic
<1>2. ASSUME NEW w \in Workers, Reader(w) \/ Writer(w) PROVE IInv'
  BY <1>2, ReaderStep, WriterStep, QuietStep DEF IInv
<1>3. ASSUME NEW w \in Workers, Finish(w) PROVE IInv'
  <2>1. TypeOK'
    BY <1>3 DEF IInv, Finish, Goto, TypeOK, remote
  <2>2. QueuesOK' /\ Quiet
    BY <1>3, WordFacts DEF IInv, Finish, Goto, TypeOK, remote, QueuesOK, QueueOK, Released,
       Quiet, Registered, HoldsExclusive, HoldsShared
  <2>3. QED BY <2>1, <2>2, QuietStep DEF IInv
<1>4. ASSUME StopRunning \/ Terminated \/ UNCHANGED vars PROVE IInv'
  <2>1. TypeOK'
    BY <1>4 DEF IInv, StopRunning, Terminated, TypeOK, remote, local, vars
  <2>2. QueuesOK' /\ Quiet
    BY <1>4 DEF IInv, StopRunning, Terminated, remote, local, vars, QueuesOK, QueueOK,
       Released, Quiet, Registered, HoldsExclusive, HoldsShared
  <2>3. QED BY <2>1, <2>2, QuietStep DEF IInv
<1>5. QED
  BY <1>1, <1>2, <1>3, <1>4 DEF Next, Thread

\* IInv is an invariant of the lock of locking_benchmark.cpp.
LEMMA Invariance == Spec => []IInv
BY InitInv, NextInv, PTL DEF Spec

\* The state of RWLock stays in its types; in particular the lock word never
\* wraps around, whatever the workers add and subtract.
THEOREM TypeCorrect == Spec => []TypeOK
BY Invariance, PTL DEF IInv

\* Nobody is with the tuple beside its exclusive owner, however many workers
\* there are and whichever flags the benchmark is run with.
THEOREM MutualExclusion == Spec => []Exclusion
BY Invariance, PTL DEF IInv

\* The lock word is exactly the registered readers and the owner's mark.
THEOREM LockWordCounts == Spec => []LockWordExact
BY Invariance, PTL DEF IInv

-----------------------------------------------------------------------------
(* The data.  To the invariant comes what the payload and the local        *)
(* buffers hold: a payload without a WRITE under way is uniform, a writer  *)
(* under way turns it into its buffer line by line, and what a holder has  *)
(* read is what is stored.                                                 *)

\* w holds the lock, and its buffer is being filled or has been.
Reading(w) ==
    \/ pc[w] \in {"s_read", "s_cs", "x_read", "x_cs"}
    \/ /\ variant.speculative_read
       /\ wr[w].acquire = "none"
       /\ \/ pc[w] = "s_lock" /\ old0[w] < Excl
          \/ pc[w] = "x_lock" /\ old0[w] = 0

DataOf(w) ==
    /\ wr[w].write # {} => Written(w)
    /\ Written(w) => /\ \A l, m \in Lines : old[w][l] = old[w][m]
                     /\ \A l \in Lines \ wr[w].write : data[l] = old[w][l]
    /\ pc[w] \notin {"s_lock", "s_read", "x_lock", "x_read"} => wr[w].read = {}
    /\ pc[w] \in {"s_lock", "x_lock"} =>
          /\ wr[w].read \subseteq SpeculativeRead
          /\ wr[w].acquire # "none" => wr[w].read = SpeculativeRead
    /\ Reading(w) => \A l \in Lines \ wr[w].read : old[w][l] = data[l]

\* The payload is whole unless a WRITE is under way.
Whole == (\A w \in Workers : wr[w].write = {}) => \A l, m \in Lines : data[l] = data[m]

DataOK == Whole /\ \A w \in Workers : DataOf(w)

-----------------------------------------------------------------------------
(* The abstract lock, read off the state of RWLock.                        *)

First    == CHOOSE l \in Lines : TRUE
AOwner   == IF Owned THEN CHOOSE w \in Workers : HoldsExclusive(w) ELSE NoOwner
ASharers == {w \in Workers : HoldsShared(w)}
ADirty   == \E w \in Workers : Written(w)
AValue   == IF ADirty THEN old[CHOOSE w \in Workers : Written(w)][First] ELSE data[First]

\* The actions of the abstract lock are about these.
LEMMA AbstractActions ==
    /\ Abstract!Init <=> AOwner = NoOwner /\ ASharers = {} /\ ADirty = FALSE /\ AValue = 0
    /\ AOwner' = AOwner /\ ASharers' = ASharers /\ (ADirty' <=> ADirty) /\ AValue' = AValue
          => UNCHANGED Abstract!vars
    /\ \A w \in Workers :
        /\ AOwner = NoOwner /\ ASharers = {} /\ AOwner' = w /\ ASharers' = ASharers
           /\ (ADirty' <=> ADirty) /\ AValue' = AValue
              => Abstract!AcquireExclusive(w)
        /\ AOwner = w /\ ~ADirty /\ ADirty' /\ AValue' = AValue + 1 /\ AOwner' = AOwner
           /\ ASharers' = ASharers
              => Abstract!Update(w)
        /\ AOwner = w /\ ADirty /\ AOwner' = NoOwner /\ ~ADirty' /\ ASharers' = ASharers
           /\ AValue' = AValue
              => Abstract!ReleaseExclusive(w)
        /\ AOwner = NoOwner /\ w \notin ASharers /\ ASharers' = ASharers \union {w}
           /\ AOwner' = AOwner /\ (ADirty' <=> ADirty) /\ AValue' = AValue
              => Abstract!AcquireShared(w)
        /\ w \in ASharers /\ ASharers' = ASharers \ {w}
           /\ AOwner' = AOwner /\ (ADirty' <=> ADirty) /\ AValue' = AValue
              => Abstract!ReleaseShared(w)
BY Zenon DEF Abstract!Init, Abstract!vars, Abstract!AcquireExclusive, Abstract!Update,
       Abstract!ReleaseExclusive, Abstract!AcquireShared, Abstract!ReleaseShared,
       AOwner, ASharers, ADirty, AValue, First

-----------------------------------------------------------------------------
(* Who is alone with what.                                                 *)

\* A worker that reads holds the lock and has nothing of its own in flight.
LEMMA ReadingHolds ==
    ASSUME IInv, NEW w \in Workers, Reading(w)
    PROVE  /\ Released(w) /\ wr[w].acquire = "none" /\ ~Written(w)
           /\ HoldsShared(w) \/ HoldsExclusive(w)
BY WordFacts DEF IInv, QueuesOK, QueueOK, Reading, Written, Released, HoldsShared,
   HoldsExclusive, TypeOK, Queues

\* Nobody writes beside it, and nobody who has written has to release yet.
LEMMA ReadingAlone ==
    ASSUME IInv, DataOK, NEW w \in Workers, Reading(w)
    PROVE  \A v \in Workers : ~Written(v) /\ wr[v].write = {}
<1> SUFFICES ASSUME NEW v \in Workers PROVE ~Written(v) /\ wr[v].write = {}
  OBVIOUS
<1>1. Written(v) => HoldsExclusive(v)
  BY DEF Written, HoldsExclusive
<1>2. ~Written(v)
  BY <1>1, ReadingHolds DEF IInv, Exclusion
<1>3. QED
  BY <1>2 DEF DataOK, DataOf

\* ... nor does anybody write beside a writer.
LEMMA WritingAlone ==
    ASSUME IInv, DataOK, NEW w \in Workers, Written(w)
    PROVE  \A v \in Workers \ {w} : ~Written(v) /\ wr[v].write = {} /\ ~Reading(v)
<1> SUFFICES ASSUME NEW v \in Workers \ {w}
             PROVE  ~Written(v) /\ wr[v].write = {} /\ ~Reading(v)
  OBVIOUS
<1>1. ~Written(v)
  BY DEF Written, HoldsExclusive, IInv, Exclusion
<1>2. QED
  BY <1>1, ReadingAlone DEF DataOK, DataOf

-----------------------------------------------------------------------------
(* What the payload and the buffers hold.                                  *)

\* The zeroed payload and buffers.
LEMMA InitData == Init => DataOK
BY WordFacts DEF Init, DataOK, Whole, DataOf, Reading, Written, EmptyQueue, SpeculativeRead

\* A step that leaves the payload alone is about the buffer of one worker.
LEMMA ThreadData ==
    ASSUME DataOK, NEW w \in Workers, Others(w), data' = data, variant' = variant,
           \A v \in Workers \ {w} : old'[v] = old[v],
           wr'[w].write = {} => wr[w].write = {},
           DataOf(w)'
    PROVE  DataOK'
<1>1. Whole'
  BY DEF DataOK, Whole, Others
<1>2. \A v \in Workers \ {w} : DataOf(v)'
  BY DEF DataOK, DataOf, Reading, Written, SpeculativeRead, Others
<1>3. QED
  BY <1>1, <1>2 DEF DataOK

\* The WRITE of a line.
LEMMA WriteData ==
    ASSUME IInv, DataOK, NEW w \in Workers, NEW l \in Lines, NicWrite(w, l)
    PROVE  DataOK' /\ Written(w) /\ Others(w) /\ old' = old /\ pc' = pc /\ old0' = old0
           /\ wr'[w].release = wr[w].release /\ wr'[w].acquire = wr[w].acquire
<1>1. /\ wr' = [wr EXCEPT ![w].write = wr[w].write \ {l}]
      /\ data' = [data EXCEPT ![l] = old[w][l]]
      /\ pc' = pc /\ old0' = old0 /\ old' = old /\ variant' = variant /\ l \in wr[w].write
  BY DEF NicWrite, local, main
<1>2. /\ Others(w) /\ wr'[w].write = wr[w].write \ {l} /\ wr'[w].release = wr[w].release
      /\ wr'[w].acquire = wr[w].acquire /\ wr'[w].read = wr[w].read
  BY <1>1 DEF Others, IInv, TypeOK, Queues
<1>3. Written(w) /\ Written(w)'
  BY <1>1, <1>2 DEF DataOK, DataOf, Written
<1>4. ~Reading(w)
  BY <1>3, ReadingHolds
<1>5. ~Reading(w)'
  BY <1>1, <1>2, <1>4 DEF Reading
<1>6. data' \in [Lines -> Nat] /\ data'[l] = old[w][l]
      /\ \A m \in Lines \ {l} : data'[m] = data[m]
  BY <1>1 DEF IInv, TypeOK
<1>7. DataOf(w)'
  BY <1>1, <1>2, <1>3, <1>5, <1>6 DEF DataOK, DataOf, SpeculativeRead
<1>8. \A v \in Workers \ {w} : DataOf(v)'
  <2> SUFFICES ASSUME NEW v \in Workers \ {w} PROVE DataOf(v)'
    OBVIOUS
  <2>1. ~Written(v) /\ wr[v].write = {} /\ ~Reading(v)
    BY <1>3, WritingAlone
  <2>2. ~Written(v)' /\ wr'[v].write = {} /\ ~Reading(v)'
    BY <1>1, <1>2, <2>1 DEF Written, Reading, Others
  <2>3. QED
    BY <1>1, <1>2, <2>2 DEF DataOK, DataOf, Others, SpeculativeRead
<1>9. Whole'
  BY <1>1, <1>3, <1>7 DEF Whole, DataOf
<1>10. QED
  BY <1>1, <1>2, <1>3, <1>7, <1>8, <1>9 DEF DataOK

\* The READ of a line.
LEMMA ReadData ==
    ASSUME IInv, DataOK, NEW w \in Workers, NEW l \in Lines, NicRead(w, l)
    PROVE  DataOK' /\ ~Written(w) /\ Others(w) /\ data' = data /\ pc' = pc /\ old0' = old0
           /\ (\A v \in Workers \ {w} : old'[v] = old[v])
           /\ wr'[w].release = wr[w].release /\ wr'[w].acquire = wr[w].acquire
<1>1. /\ wr' = [wr EXCEPT ![w].read = wr[w].read \ {l}]
      /\ old' = [old EXCEPT ![w][l] = data[l]]
      /\ pc' = pc /\ old0' = old0 /\ data' = data /\ variant' = variant /\ l \in wr[w].read
      /\ Acquired(w)
  BY DEF NicRead, remote, main
<1>2. /\ Others(w) /\ wr'[w].write = wr[w].write /\ wr'[w].release = wr[w].release
      /\ wr'[w].acquire = wr[w].acquire /\ wr'[w].read = wr[w].read \ {l}
  BY <1>1 DEF Others, IInv, TypeOK, Queues
<1>3. /\ old'[w][l] = data[l] /\ \A m \in Lines \ {l} : old'[w][m] = old[w][m]
      /\ \A v \in Workers \ {w} : old'[v] = old[v]
  BY <1>1 DEF IInv, TypeOK
<1>4. pc[w] \in {"s_lock", "s_read", "x_lock", "x_read"}
  BY <1>1 DEF DataOK, DataOf
<1>5. ~Written(w) /\ ~Written(w)'
  BY <1>1, <1>2, <1>4, WordFacts DEF Written, Acquired, Released
<1>6. Reading(w)' <=> Reading(w)
  BY <1>1, <1>2 DEF Reading
<1>7. DataOf(w)'
  BY <1>1, <1>2, <1>3, <1>5, <1>6 DEF DataOK, DataOf, SpeculativeRead, Acquired, Released
<1>8. DataOK'
  BY <1>1, <1>2, <1>3, <1>7, ThreadData
<1>9. QED
  BY <1>1, <1>2, <1>3, <1>5, <1>8

\* The atomics.
LEMMA AtomicData ==
    ASSUME IInv, DataOK, NEW w \in Workers,
           NicRelease(w) \/ NicFetchAdd(w) \/ NicCompareSwap(w)
    PROVE  DataOK'
<1>1. /\ Released(w)' /\ wr'[w].write = wr[w].write /\ wr[w].write = {}
      /\ wr'[w].read = wr[w].read /\ Others(w)
      /\ data' = data /\ variant' = variant /\ pc' = pc /\ old' = old
  BY DEF NicRelease, NicFetchAdd, NicCompareSwap, Released, Others, IInv, TypeOK, Queues, main
<1>2. DataOf(w)'
  <2>1. Written(w)' => Written(w)
    BY <1>1, WordFacts DEF Written, Released
  <2>2. CASE NicRelease(w)
    <3>1. wr'[w].acquire = wr[w].acquire /\ wr[w].release # 0
      BY <2>2 DEF NicRelease, IInv, TypeOK, Queues
    <3>2. ~Reading(w)'
      BY <1>1, <3>1 DEF Reading, IInv, QueuesOK, QueueOK, Released
    <3>3. QED
      BY <1>1, <2>1, <3>1, <3>2 DEF DataOK, DataOf, SpeculativeRead
  <2>3. CASE NicFetchAdd(w) \/ NicCompareSwap(w)
    <3>1. pc[w] \in {"s_lock", "x_lock"} /\ wr[w].acquire # "none"
      BY <2>3 DEF NicFetchAdd, NicCompareSwap, IInv, QueuesOK, QueueOK
    <3>2. wr[w].read = SpeculativeRead
      BY <3>1 DEF DataOK, DataOf
    <3>3. Reading(w)' => wr'[w].read = Lines
      BY <1>1, <3>1, <3>2 DEF Reading, SpeculativeRead
    <3>4. wr'[w].read \subseteq SpeculativeRead' /\ ~(wr'[w].acquire # "none")
      BY <1>1, <2>3, <3>2 DEF SpeculativeRead, NicFetchAdd, NicCompareSwap, IInv, TypeOK, Queues
    <3>5. QED
      BY <1>1, <2>1, <3>1, <3>3, <3>4 DEF DataOK, DataOf
  <2>4. QED
    BY <2>2, <2>3
<1>3. QED
  BY <1>1, <1>2, ThreadData

-----------------------------------------------------------------------------
(* What a step of one worker is to the abstract lock.                      *)

\* Owner and value, where somebody is known to own or to have written.
OwnerIs == /\ \A w \in Workers : HoldsExclusive(w) => AOwner = w
           /\ (\A w \in Workers : ~HoldsExclusive(w)) => AOwner = NoOwner
ValueIs == /\ \A w \in Workers : Written(w) => ADirty /\ AValue = old[w][First]
           /\ (\A w \in Workers : ~Written(w)) => ~ADirty /\ AValue = data[First]

\* ... in every state of the invariant.
LEMMA AbstractState == IInv => OwnerIs /\ ValueIs
<1> SUFFICES ASSUME IInv PROVE OwnerIs /\ ValueIs
  OBVIOUS
<1>1. OwnerIs
  BY DEF IInv, Exclusion, OwnerIs, AOwner, Owned
<1>2. \A v, w \in Workers : Written(v) /\ Written(w) => v = w
  BY DEF IInv, Exclusion, Written, HoldsExclusive
<1>3. ValueIs
  BY <1>2 DEF ValueIs, ADirty, AValue
<1>4. QED
  BY <1>1, <1>3

\* ... and so in the next one.
LEMMA AbstractStateThen == IInv' => OwnerIs' /\ ValueIs'
BY AbstractState, PTL

\* A step of w that writes nothing new keeps the abstract value.
ValueKept(w) ==
    /\ Others(w)
    /\ data' = data \/ Written(w)
    /\ \A v \in Workers \ {w} : old'[v] = old[v]
    /\ Written(w)' <=> Written(w)
    /\ Written(w) => old'[w] = old[w]

\* ... whoever has written, or if nobody has.
LEMMA KeepsValue ==
    ASSUME IInv, IInv', NEW w \in Workers, ValueKept(w)
    PROVE  (ADirty' <=> ADirty) /\ AValue' = AValue
<1>1. \A v \in Workers : /\ Written(v)' <=> Written(v)
                         /\ Written(v) => old'[v] = old[v]
  BY DEF ValueKept, Others, Written
<1>2. CASE \E v \in Workers : Written(v)
  <2>1. PICK v \in Workers : Written(v)
    BY <1>2
  <2>2. Written(v)' /\ old'[v] = old[v]
    BY <1>1, <2>1
  <2>3. ADirty /\ AValue = old[v][First]
    BY <2>1, AbstractState DEF ValueIs
  <2>4. ADirty' /\ AValue' = old'[v][First]
    BY <2>2, AbstractStateThen DEF ValueIs
  <2>5. QED
    BY <2>2, <2>3, <2>4
<1>3. CASE ~\E v \in Workers : Written(v)
  <2>1. ~ADirty /\ AValue = data[First]
    BY <1>3, AbstractState DEF ValueIs
  <2>2. ~ADirty' /\ AValue' = data'[First]
    BY <1>1, <1>3, AbstractStateThen DEF ValueIs
  <2>3. QED
    BY <1>3, <2>1, <2>2 DEF ValueKept
<1>4. QED
  BY <1>2, <1>3

\* The owner changes with the ownership of the worker that moves only.
LEMMA KeepsOwner ==
    ASSUME IInv, IInv', NEW w \in Workers, Others(w),
           HoldsExclusive(w)' <=> HoldsExclusive(w)
    PROVE  AOwner' = AOwner
<1>1. \A v \in Workers : HoldsExclusive(v)' <=> HoldsExclusive(v)
  BY DEF Others, HoldsExclusive
<1>2. QED
  BY <1>1, AbstractState, AbstractStateThen DEF OwnerIs

\* ... and it alone enters or leaves the sharers.
LEMMA Sharers ==
    ASSUME NEW w \in Workers, Others(w)
    PROVE  ASharers' = IF HoldsShared(w)' THEN ASharers \union {w} ELSE ASharers \ {w}
<1>1. \A v \in Workers \ {w} : HoldsShared(v)' <=> HoldsShared(v)
  BY DEF Others, HoldsShared
<1>2. QED
  BY <1>1 DEF ASharers

\* A step of the abstract lock, which keeps its value or advances it by one.
AStep    == [Abstract!Next]_(Abstract!vars)
Keeps    == AStep /\ AValue' = AValue
Advances == AStep /\ AValue' = AValue + 1

\* A step in which nobody comes or goes and nothing is written.
Stutters(w) == /\ ValueKept(w)
               /\ HoldsExclusive(w)' <=> HoldsExclusive(w)
               /\ HoldsShared(w)' <=> HoldsShared(w)

\* Most steps are none of the abstract lock.
LEMMA StutterStep ==
    ASSUME IInv, IInv', NEW w \in Workers, Stutters(w)
    PROVE  Keeps
<1>1. (ADirty' <=> ADirty) /\ AValue' = AValue
  BY KeepsValue DEF Stutters
<1>2. AOwner' = AOwner
  BY KeepsOwner DEF Stutters, ValueKept
<1>3. ASharers' = ASharers
  BY Sharers DEF Stutters, ValueKept, ASharers
<1>4. QED
  BY <1>1, <1>2, <1>3, AbstractActions DEF Keeps, AStep

\* A reader enters only where there is no owner.
LEMMA AcquireSharedStep ==
    ASSUME IInv, IInv', NEW w \in Workers, ValueKept(w),
           HoldsExclusive(w)' <=> HoldsExclusive(w), ~HoldsShared(w), HoldsShared(w)'
    PROVE  Keeps
<1>1. (ADirty' <=> ADirty) /\ AValue' = AValue /\ AOwner' = AOwner
  BY KeepsValue, KeepsOwner DEF ValueKept
<1>2. w \notin ASharers /\ ASharers' = ASharers \union {w}
  BY Sharers DEF ValueKept, ASharers
<1>3. ~HoldsExclusive(w)'
  BY WordFacts DEF IInv, QueuesOK, QueueOK, HoldsShared, HoldsExclusive, Released
<1>4. \A v \in Workers : ~HoldsExclusive(v)'
  BY <1>3 DEF IInv, Exclusion
<1>5. AOwner = NoOwner
  BY <1>1, <1>4, AbstractStateThen DEF OwnerIs
<1>6. QED
  BY <1>1, <1>2, <1>5, AbstractActions DEF Keeps, AStep, Abstract!Next

\* A reader leaves.
LEMMA ReleaseSharedStep ==
    ASSUME IInv, IInv', NEW w \in Workers, ValueKept(w),
           HoldsExclusive(w)' <=> HoldsExclusive(w), HoldsShared(w), ~HoldsShared(w)'
    PROVE  Keeps
<1>1. (ADirty' <=> ADirty) /\ AValue' = AValue /\ AOwner' = AOwner
  BY KeepsValue, KeepsOwner DEF ValueKept
<1>2. w \in ASharers /\ ASharers' = ASharers \ {w}
  BY Sharers DEF ValueKept, ASharers
<1>3. QED
  BY <1>1, <1>2, AbstractActions DEF Keeps, AStep, Abstract!Next

\* A writer enters only where there is nobody.
LEMMA AcquireExclusiveStep ==
    ASSUME IInv, IInv', NEW w \in Workers, ValueKept(w),
           ~HoldsExclusive(w), HoldsExclusive(w)', ~HoldsShared(w), ~HoldsShared(w)'
    PROVE  Keeps
<1>1. (ADirty' <=> ADirty) /\ AValue' = AValue
  BY KeepsValue
<1>2. \A v \in Workers \ {w} : ~HoldsExclusive(v)' /\ ~HoldsShared(v)'
  BY DEF IInv, Exclusion
<1>3. \A v \in Workers : ~HoldsExclusive(v) /\ ~HoldsShared(v)
  BY <1>2 DEF ValueKept, Others, HoldsExclusive, HoldsShared
<1>4. AOwner = NoOwner /\ AOwner' = w
  BY <1>3, AbstractState, AbstractStateThen DEF OwnerIs
<1>5. ASharers = {} /\ ASharers' = ASharers
  BY <1>2, <1>3 DEF ASharers
<1>6. QED
  BY <1>1, <1>4, <1>5, AbstractActions DEF Keeps, AStep, Abstract!Next

\* The value the owner has computed is the abstract one before it is stored.
LEMMA UpdateStep ==
    ASSUME IInv, IInv', NEW w \in Workers, Others(w), HoldsExclusive(w), HoldsExclusive(w)',
           ~HoldsShared(w), ~HoldsShared(w)', ~Written(w), Written(w)',
           old'[w][First] = data[First] + 1
    PROVE  Advances
<1>1. \A v \in Workers : ~Written(v)
  BY DEF IInv, Exclusion, Written, HoldsExclusive
<1>2. AOwner = w /\ AOwner' = AOwner
  BY AbstractState, AbstractStateThen DEF OwnerIs
<1>3. ~ADirty /\ AValue = data[First]
  BY <1>1, AbstractState DEF ValueIs
<1>4. ADirty' /\ AValue' = AValue + 1
  BY <1>3, AbstractStateThen DEF ValueIs
<1>5. ASharers' = ASharers
  BY Sharers DEF ASharers
<1>6. QED
  BY <1>2, <1>3, <1>4, <1>5, AbstractActions DEF Advances, AStep, Abstract!Next

\* What the owner leaves behind is stored.
LEMMA ReleaseExclusiveStep ==
    ASSUME IInv, IInv', DataOK, NEW w \in Workers, Others(w), data' = data,
           Written(w), wr[w].write = {}, ~HoldsExclusive(w)', ~HoldsShared(w), ~HoldsShared(w)'
    PROVE  Keeps
<1>1. HoldsExclusive(w)
  BY DEF Written, HoldsExclusive
<1>2. \A v \in Workers : ~HoldsExclusive(v)' /\ ~Written(v)'
  BY <1>1 DEF IInv, Exclusion, Others, HoldsExclusive, Written
<1>3. AOwner = w /\ AOwner' = NoOwner
  BY <1>1, <1>2, AbstractState, AbstractStateThen DEF OwnerIs
<1>4. ADirty /\ AValue = old[w][First]
  BY AbstractState DEF ValueIs
<1>5. ~ADirty' /\ AValue' = data[First]
  BY <1>2, AbstractStateThen DEF ValueIs
<1>6. old[w][First] = data[First]
  <2>1. First \in Lines
    BY LinesAssumption DEF First
  <2>2. QED
    BY <2>1 DEF DataOK, DataOf
<1>7. ASharers' = ASharers
  BY Sharers DEF ASharers
<1>8. QED
  BY <1>3, <1>4, <1>5, <1>6, <1>7, AbstractActions DEF Keeps, AStep, Abstract!Next

-----------------------------------------------------------------------------
(* The steps of the queue pairs.                                           *)

\* Lines of the payload come and go without the lock being concerned.
LEMMA PayloadMoves ==
    ASSUME IInv, IInv', DataOK, NEW w \in Workers, NEW l \in Lines,
           NicWrite(w, l) \/ NicRead(w, l)
    PROVE  DataOK' /\ Keeps
<1>1. CASE NicWrite(w, l)
  <2>1. Stutters(w)
    BY <1>1, WriteData DEF Stutters, ValueKept, Others, HoldsExclusive, HoldsShared, Written
  <2>2. QED
    BY <1>1, <2>1, WriteData, StutterStep
<1>2. CASE NicRead(w, l)
  <2>1. Stutters(w)
    BY <1>2, ReadData DEF Stutters, ValueKept, Others, HoldsExclusive, HoldsShared, Written
  <2>2. QED
    BY <1>2, <2>1, ReadData, StutterStep
<1>3. QED
  BY <1>1, <1>2

\* A reader gets the lock by its increment, unless there is an owner.
LEMMA FetchAddMoves ==
    ASSUME IInv, IInv', DataOK, NEW w \in Workers, NicFetchAdd(w)
    PROVE  Keeps
<1>1. /\ Others(w) /\ data' = data /\ old' = old /\ pc' = pc /\ wr[w].release = 0
      /\ wr'[w].release = 0 /\ pc[w] = "s_lock" /\ wr[w].acquire = "shared"
  BY DEF NicFetchAdd, Others, IInv, TypeOK, Queues, QueuesOK, QueueOK, Released
<1>2. /\ ValueKept(w) /\ ~HoldsShared(w)
      /\ ~HoldsExclusive(w) /\ ~HoldsExclusive(w)'
  BY <1>1, WordFacts DEF ValueKept, Written, HoldsExclusive, HoldsShared
<1>3. CASE HoldsShared(w)'
  BY <1>2, <1>3, AcquireSharedStep
<1>4. CASE ~HoldsShared(w)'
  BY <1>2, <1>4, StutterStep DEF Stutters
<1>5. QED
  BY <1>3, <1>4

\* A writer gets it by its swap, if that succeeds.
LEMMA CompareSwapMoves ==
    ASSUME IInv, IInv', DataOK, NEW w \in Workers, NicCompareSwap(w)
    PROVE  Keeps
<1>1. /\ Others(w) /\ data' = data /\ old' = old /\ pc' = pc /\ wr[w].release = 0
      /\ wr'[w].release = 0 /\ pc[w] = "x_lock" /\ wr[w].acquire = "exclusive"
  BY DEF NicCompareSwap, Others, IInv, TypeOK, Queues, QueuesOK, QueueOK, Released
<1>2. /\ ValueKept(w) /\ ~HoldsExclusive(w)
      /\ ~HoldsShared(w) /\ ~HoldsShared(w)'
  BY <1>1, WordFacts DEF ValueKept, Written, HoldsExclusive, HoldsShared
<1>3. CASE HoldsExclusive(w)'
  BY <1>2, <1>3, AcquireExclusiveStep
<1>4. CASE ~HoldsExclusive(w)'
  BY <1>2, <1>4, StutterStep DEF Stutters
<1>5. QED
  BY <1>3, <1>4

\* The writer's release ends its turn; the reader's has ended with its posting.
LEMMA ReleaseMoves ==
    ASSUME IInv, IInv', DataOK, NEW w \in Workers, NicRelease(w)
    PROVE  Keeps
<1>1. /\ Others(w) /\ data' = data /\ old' = old /\ pc' = pc /\ wr[w].release \in {1, Excl}
      /\ wr'[w].release = 0 /\ wr'[w].acquire = wr[w].acquire /\ wr[w].write = {}
  BY DEF NicRelease, Others, IInv, TypeOK, Queues
<1>2. /\ ~(pc[w] = "s_lock" /\ wr[w].acquire = "none")
      /\ ~(pc[w] = "x_lock" /\ wr[w].acquire = "none")
      /\ pc[w] \notin {"s_read", "s_cs", "x_read", "x_cs", "x_write"}
  BY <1>1, WordFacts DEF IInv, QueuesOK, QueueOK, Released
<1>3. ~HoldsShared(w) /\ ~HoldsShared(w)' /\ ~HoldsExclusive(w)'
  BY <1>1, <1>2, WordFacts DEF HoldsShared, HoldsExclusive
<1>4. CASE wr[w].release = Excl
  BY <1>1, <1>3, <1>4, ReleaseExclusiveStep DEF Written
<1>5. CASE wr[w].release = 1
  <2>1. Stutters(w)
    BY <1>1, <1>2, <1>3, <1>5, WordFacts DEF Stutters, ValueKept, Written, HoldsExclusive
  <2>2. QED
    BY <2>1, StutterStep
<1>6. QED
  BY <1>1, <1>4, <1>5

-----------------------------------------------------------------------------
(* The steps of the threads.                                               *)

\* Those that neither post nor compute.
LEMMA QuietMoves ==
    ASSUME IInv, IInv', DataOK, NEW w \in Workers,
           \/ ChooseRead(w) \/ SharedRetry(w) \/ SharedRead(w) \/ SharedReleased(w)
           \/ ChooseWrite(w) \/ ExclusiveRefused(w) \/ ExclusiveRead(w)
           \/ ExclusiveReleased(w) \/ Finish(w)
    PROVE  DataOK' /\ Keeps
<1>1. /\ data' = data /\ old' = old /\ old0' = old0 /\ wr' = wr /\ variant' = variant
      /\ \/ pc[w] = "idle" /\ pc'[w] \in {"shared", "exclusive", "done"}
         \/ Polled(w) /\ pc[w] = "s_undo" /\ pc'[w] = "shared"
         \/ Polled(w) /\ pc[w] = "s_read" /\ pc'[w] = "s_cs"
         \/ Polled(w) /\ pc[w] \in {"s_release", "x_release"} /\ pc'[w] = "idle"
         \/ Polled(w) /\ pc[w] = "x_lock" /\ old0[w] # 0 /\ pc'[w] = "exclusive"
         \/ Polled(w) /\ pc[w] = "x_read" /\ pc'[w] = "x_cs"
      /\ \A v \in Workers \ {w} : pc'[v] = pc[v]
  BY DEF ChooseRead, SharedRetry, SharedRead, SharedReleased, ChooseWrite, ExclusiveRefused,
     ExclusiveRead, ExclusiveReleased, Finish, Goto, IInv, TypeOK, main, remote
<1>2. Others(w)
  BY <1>1 DEF Others
<1>3. Stutters(w)
  BY <1>1, <1>2 DEF Stutters, ValueKept, Written, HoldsExclusive, HoldsShared
<1>4. DataOf(w)'
  BY <1>1, WordFacts DEF DataOK, DataOf, Reading, Written, Polled, Acquired, Released,
     SpeculativeRead
<1>5. QED
  BY <1>1, <1>2, <1>3, <1>4, ThreadData, StutterStep

\* The requests that acquire.
LEMMA PostMoves ==
    ASSUME IInv, IInv', DataOK, NEW w \in Workers, PostShared(w) \/ PostExclusive(w)
    PROVE  DataOK' /\ Keeps
<1>1. /\ data' = data /\ old' = old /\ old0' = old0 /\ variant' = variant
      /\ pc[w] \in {"shared", "exclusive"} /\ pc'[w] \in {"s_lock", "x_lock"}
      /\ \A v \in Workers \ {w} : pc'[v] = pc[v]
  BY DEF PostShared, PostExclusive, Goto, IInv, TypeOK, main, remote
<1>2. /\ wr'[w].acquire # "none" /\ wr'[w].read = SpeculativeRead
      /\ wr'[w].write = wr[w].write /\ wr'[w].release = wr[w].release
      /\ \A v \in Workers \ {w} : wr'[v] = wr[v]
  BY DEF PostShared, PostExclusive, IInv, TypeOK, Queues
<1>3. Others(w)
  BY <1>1, <1>2 DEF Others
<1>4. Stutters(w)
  BY <1>1, <1>2, <1>3 DEF Stutters, ValueKept, Written, HoldsExclusive, HoldsShared
<1>5. DataOf(w)'
  BY <1>1, <1>2 DEF DataOK, DataOf, Reading, Written, SpeculativeRead
<1>6. QED
  BY <1>1, <1>2, <1>3, <1>4, <1>5, ThreadData, StutterStep

\* With the lock granted, the payload is in the buffer or is going to be read.
LEMMA GrantMoves ==
    ASSUME IInv, IInv', DataOK, NEW w \in Workers, SharedGranted(w) \/ ExclusiveGranted(w)
    PROVE  DataOK' /\ Keeps
<1>1. /\ data' = data /\ old' = old /\ old0' = old0 /\ variant' = variant /\ Polled(w)
      /\ \/ pc[w] = "s_lock" /\ old0[w] < Excl /\ pc'[w] \in {"s_read", "s_cs"}
         \/ pc[w] = "x_lock" /\ old0[w] = 0 /\ pc'[w] \in {"x_read", "x_cs"}
      /\ pc'[w] \in {"s_cs", "x_cs"} => variant.speculative_read
      /\ \A v \in Workers \ {w} : pc'[v] = pc[v]
  BY DEF SharedGranted, ExclusiveGranted, Goto, IInv, TypeOK, main, remote
<1>2. /\ wr'[w].acquire = "none" /\ wr'[w].write = {} /\ wr'[w].release = 0
      /\ wr'[w].read = IF variant.speculative_read THEN {} ELSE Lines
      /\ \A v \in Workers \ {w} : wr'[v] = wr[v]
  <2>1. wr' = IF variant.speculative_read THEN wr ELSE [wr EXCEPT ![w].read = Lines]
    BY DEF SharedGranted, ExclusiveGranted
  <2>2. CASE variant.speculative_read
    BY <1>1, <2>1, <2>2 DEF Polled, Acquired, Released
  <2>3. CASE ~variant.speculative_read
    <3>1. /\ wr'[w].acquire = wr[w].acquire /\ wr'[w].write = wr[w].write
          /\ wr'[w].release = wr[w].release /\ wr'[w].read = Lines
          /\ \A v \in Workers \ {w} : wr'[v] = wr[v]
      BY <2>1, <2>3 DEF IInv, TypeOK, Queues
    <3>2. QED
      BY <1>1, <2>3, <3>1 DEF Polled, Acquired, Released
  <2>4. QED
    BY <2>2, <2>3
<1>3. Others(w) /\ wr[w].acquire = "none" /\ wr[w].write = {} /\ wr[w].release = 0
  BY <1>1, <1>2 DEF Others, Polled, Acquired, Released
<1>4. Stutters(w)
  BY <1>1, <1>2, <1>3 DEF Stutters, ValueKept, Written, HoldsExclusive, HoldsShared
<1>5. DataOf(w)'
  <2>1. ~Written(w)'
    BY <1>1, <1>2, WordFacts DEF Written
  <2>2. variant.speculative_read => \A l \in Lines : old[w][l] = data[l]
    BY <1>1, <1>3 DEF DataOK, DataOf, Reading, Polled
  <2>3. pc'[w] \in {"s_read", "x_read"} \/ variant.speculative_read
    BY <1>1
  <2>4. QED
    BY <1>1, <1>2, <2>1, <2>2, <2>3 DEF DataOf
<1>6. QED
  BY <1>1, <1>2, <1>3, <1>4, <1>5, ThreadData, StutterStep

\* A reader's release ends its turn when it is posted; a refused reader had none.
LEMMA DeregisterMoves ==
    ASSUME IInv, IInv', DataOK, NEW w \in Workers, SharedRefused(w) \/ SharedRelease(w)
    PROVE  DataOK' /\ Keeps
<1>1. /\ data' = data /\ old' = old /\ old0' = old0 /\ variant' = variant
      /\ \/ pc[w] = "s_lock" /\ old0[w] >= Excl /\ pc'[w] = "s_undo" /\ Polled(w)
         \/ pc[w] = "s_cs" /\ pc'[w] \in {"idle", "s_release"}
      /\ \A v \in Workers \ {w} : pc'[v] = pc[v]
  BY DEF SharedRefused, SharedRelease, Goto, IInv, TypeOK, main, remote
<1>2. /\ wr'[w].acquire = wr[w].acquire /\ wr'[w].write = wr[w].write /\ wr'[w].release = 1
      /\ wr'[w].read = wr[w].read
      /\ \A v \in Workers \ {w} : wr'[v] = wr[v]
  BY DEF SharedRefused, SharedRelease, IInv, TypeOK, Queues
<1>3. wr[w].acquire = "none" /\ wr[w].write = {} /\ wr[w].release = 0 /\ wr[w].read = {}
  <2>1. wr[w].acquire = "none" /\ wr[w].write = {} /\ wr[w].release = 0
    BY <1>1 DEF IInv, TypeOK, Queues, QueuesOK, QueueOK, Polled, Acquired, Released
  <2>2. wr[w].read = {}
    BY <1>1 DEF Polled, DataOK, DataOf
  <2>3. QED
    BY <2>1, <2>2
<1>4. Others(w)
  BY <1>1, <1>2 DEF Others
<1>5. ValueKept(w) /\ ~HoldsExclusive(w) /\ ~HoldsExclusive(w)' /\ ~HoldsShared(w)'
  BY <1>1, <1>2, <1>3, <1>4, WordFacts DEF ValueKept, Written, HoldsExclusive, HoldsShared
<1>6. DataOf(w)'
  BY <1>1, <1>2, <1>3, WordFacts DEF DataOf, Reading, Written
<1>7. Keeps
  BY <1>5, StutterStep, ReleaseSharedStep DEF Stutters
<1>8. QED
  BY <1>1, <1>2, <1>3, <1>4, <1>6, <1>7, ThreadData

\* What a writer computes is one more, in every line.
LEMMA IncrementedIs ==
    \A payload \in [Lines -> Nat] : \A l \in Lines :
        Incremented(payload)[l] = payload[First] + 1
BY DEF Incremented, First

\* The update: the WRITE is posted, with or without the release behind it.
LEMMA UpdateMoves ==
    ASSUME IInv, IInv', DataOK, NEW w \in Workers,
           UpdateThenWrite(w) \/ UpdateAndRelease(w) \/ UpdateAndGoOn(w)
    PROVE  DataOK' /\ Advances
<1>1. /\ data' = data /\ old' = [old EXCEPT ![w] = Incremented(old[w])] /\ old0' = old0
      /\ variant' = variant /\ pc[w] = "x_cs"
      /\ \A v \in Workers \ {w} : pc'[v] = pc[v]
  BY DEF UpdateThenWrite, UpdateAndRelease, UpdateAndGoOn, Goto, IInv, TypeOK, main, remote
<1>2. /\ wr'[w].acquire = wr[w].acquire /\ wr'[w].read = wr[w].read /\ wr'[w].write = Lines
      /\ \A v \in Workers \ {w} : wr'[v] = wr[v]
  BY DEF UpdateThenWrite, UpdateAndRelease, UpdateAndGoOn, IInv, TypeOK, Queues
<1>3. \/ pc'[w] = "x_write" /\ wr'[w].release = wr[w].release
      \/ pc'[w] \in {"idle", "x_release"} /\ wr'[w].release = Excl
  <2>1. CASE UpdateThenWrite(w)
    BY <2>1 DEF UpdateThenWrite, Goto, IInv, TypeOK, Queues
  <2>2. CASE UpdateAndRelease(w)
    <3>1. pc'[w] = "x_release"
      BY <2>2 DEF UpdateAndRelease, Goto, IInv, TypeOK
    <3>2. wr'[w].release = Excl
      BY <2>2 DEF UpdateAndRelease, IInv, TypeOK, Queues
    <3>3. QED
      BY <3>1, <3>2
  <2>3. CASE UpdateAndGoOn(w)
    <3>1. pc'[w] = "idle"
      BY <2>3 DEF UpdateAndGoOn, Goto, IInv, TypeOK
    <3>2. wr'[w].release = Excl
      BY <2>3 DEF UpdateAndGoOn, IInv, TypeOK, Queues
    <3>3. QED
      BY <3>1, <3>2
  <2>4. QED
    BY <2>1, <2>2, <2>3
<1>4. wr[w].acquire = "none" /\ wr[w].write = {} /\ wr[w].release = 0 /\ wr[w].read = {}
  <2>1. wr[w].acquire = "none" /\ wr[w].write = {} /\ wr[w].release = 0
    BY <1>1 DEF IInv, TypeOK, Queues, QueuesOK, QueueOK, Released
  <2>2. wr[w].read = {}
    BY <1>1 DEF DataOK, DataOf
  <2>3. QED
    BY <2>1, <2>2
<1>5. Others(w) /\ \A v \in Workers \ {w} : old'[v] = old[v]
  BY <1>1, <1>2 DEF Others, IInv, TypeOK
<1>6. First \in Lines
  BY LinesAssumption DEF First
<1>7. \A l \in Lines : old'[w][l] = data[First] + 1
  <2>1. \A l \in Lines : old'[w][l] = old[w][First] + 1
    BY <1>1, IncrementedIs DEF IInv, TypeOK
  <2>2. old[w][First] = data[First]
    BY <1>1, <1>4, <1>6 DEF DataOK, DataOf, Reading
  <2>3. QED
    BY <2>1, <2>2
<1>8. /\ HoldsExclusive(w) /\ HoldsExclusive(w)' /\ ~HoldsShared(w) /\ ~HoldsShared(w)'
      /\ ~Written(w) /\ Written(w)'
  BY <1>1, <1>3, <1>4, WordFacts DEF HoldsExclusive, HoldsShared, Written
<1>9. DataOf(w)'
  <2>1. pc'[w] \notin {"s_lock", "s_read", "s_cs", "x_lock", "x_read", "x_cs"}
    BY <1>3
  <2>2. QED
    BY <1>2, <1>4, <1>7, <1>8, <2>1 DEF DataOf, Reading
<1>10. Advances
  BY <1>5, <1>6, <1>7, <1>8, UpdateStep
<1>11. QED
  BY <1>1, <1>4, <1>5, <1>9, <1>10, ThreadData

\* The release is posted when the WRITE is done.
LEMMA PostReleaseMoves ==
    ASSUME IInv, IInv', DataOK, NEW w \in Workers, ExclusiveRelease(w)
    PROVE  DataOK' /\ Keeps
<1>1. /\ data' = data /\ old' = old /\ old0' = old0 /\ variant' = variant
      /\ pc[w] = "x_write" /\ pc'[w] = "x_release" /\ Polled(w)
      /\ \A v \in Workers \ {w} : pc'[v] = pc[v]
  BY DEF ExclusiveRelease, Goto, IInv, TypeOK, main, remote
<1>2. /\ wr'[w].acquire = wr[w].acquire /\ wr'[w].write = wr[w].write
      /\ wr'[w].read = wr[w].read /\ wr'[w].release = Excl
      /\ \A v \in Workers \ {w} : wr'[v] = wr[v]
  BY DEF ExclusiveRelease, IInv, TypeOK, Queues
<1>3. Others(w)
  BY <1>1, <1>2 DEF Others
<1>4. Stutters(w)
  BY <1>1, <1>2, <1>3 DEF Stutters, ValueKept, Written, HoldsExclusive, HoldsShared
<1>5. DataOf(w)'
  BY <1>1, <1>2 DEF DataOK, DataOf, Reading, Written, Polled
<1>6. QED
  BY <1>1, <1>2, <1>3, <1>4, <1>5, ThreadData, StutterStep

-----------------------------------------------------------------------------

\* Every step keeps what the buffers hold and is a step of the abstract lock.
LEMMA NextMoves == IInv /\ IInv' /\ DataOK /\ [Next]_vars => DataOK' /\ AStep
<1> SUFFICES ASSUME IInv, IInv', DataOK, [Next]_vars PROVE DataOK' /\ AStep
  OBVIOUS
<1>1. ASSUME NEW w \in Workers, Nic(w) PROVE DataOK' /\ AStep
  BY <1>1, PayloadMoves, AtomicData, FetchAddMoves, CompareSwapMoves, ReleaseMoves
     DEF Nic, Keeps
<1>2. ASSUME NEW w \in Workers, Thread(w) PROVE DataOK' /\ AStep
  BY <1>2, QuietMoves, PostMoves, GrantMoves, DeregisterMoves, UpdateMoves, PostReleaseMoves
     DEF Thread, Reader, Writer, Keeps, Advances
<1>3. ASSUME StopRunning \/ Terminated \/ UNCHANGED vars PROVE DataOK' /\ AStep
  <2>1. /\ data' = data /\ old' = old /\ old0' = old0 /\ wr' = wr /\ pc' = pc
        /\ variant' = variant
    BY <1>3 DEF StopRunning, Terminated, vars, local, remote
  <2>2. DataOK'
    BY <2>1 DEF DataOK, Whole, DataOf, Reading, Written, SpeculativeRead
  <2>3. PICK w \in Workers : TRUE
    BY WorkersAssumption
  <2>4. Stutters(w)
    BY <2>1 DEF Stutters, ValueKept, Others, Written, HoldsExclusive, HoldsShared
  <2>5. QED
    BY <2>2, <2>4, StutterStep DEF Keeps
<1>4. QED
  BY <1>1, <1>2, <1>3 DEF Next

\* Nobody holds the lock in the beginning.
LEMMA InitAbstract == Init => Abstract!Init
<1> SUFFICES ASSUME Init PROVE Abstract!Init
  OBVIOUS
<1>1. \A w \in Workers : ~HoldsExclusive(w) /\ ~HoldsShared(w) /\ ~Written(w)
  BY WordFacts DEF Init, HoldsExclusive, HoldsShared, Written, EmptyQueue
<1>2. AOwner = NoOwner /\ ASharers = {}
  BY <1>1 DEF AOwner, ASharers, Owned
<1>3. ADirty = FALSE
  BY <1>1 DEF ADirty
<1>4. AValue = 0
  BY <1>3, LinesAssumption DEF Init, AValue, First
<1>5. QED
  BY <1>2, <1>3, <1>4, AbstractActions

\* The invariant with the data.
LEMMA DataInvariance == Spec => [](IInv /\ DataOK)
<1>1. Init => IInv /\ DataOK
  BY InitInv, InitData
<1>2. IInv /\ DataOK /\ [Next]_vars => (IInv /\ DataOK)'
  BY NextInv, NextMoves
<1>3. QED
  BY <1>1, <1>2, PTL DEF Spec

\* The reader's test, "prev_version != old[i]", never throws, however many
\* readers and writers there are, whichever flags are set, and in whichever
\* order the lines of a tuple come and go.
THEOREM SnapshotsWhole == Spec => []SharedSnapshot
<1>1. IInv /\ DataOK => SharedSnapshot
  <2> SUFFICES ASSUME IInv, DataOK, NEW w \in Workers, pc[w] = "s_cs",
                      NEW l \in Lines, NEW m \in Lines
               PROVE  old[w][l] = data[m]
    BY DEF SharedSnapshot
  <2>1. Reading(w) /\ wr[w].read = {}
    BY DEF Reading, DataOK, DataOf
  <2>2. old[w][l] = data[l]
    BY <2>1 DEF DataOK, DataOf
  <2>3. data[l] = data[m]
    BY <2>1, ReadingAlone DEF DataOK, Whole
  <2>4. QED
    BY <2>2, <2>3
<1>2. QED
  BY <1>1, DataInvariance, PTL

\* The lock built from one-sided verbs is the abstract reader/writer lock: its
\* value goes up by one under each exclusive owner and under nobody else,
\* although the WRITE and the release are executed long after they are posted.
THEOREM LockImplementsSpec == Spec => Implements
<1>1. IInv /\ DataOK /\ [Next]_vars => AStep
  BY NextInv, NextMoves
<1>2. QED
  BY <1>1, InitAbstract, DataInvariance, PTL DEF Spec, Implements, Abstract!Spec, AStep

-----------------------------------------------------------------------------
(* The updates.                                                            *)

\* The updates w has made, counted or not, and those it has added to the total.
Made  == [w \in Workers |-> updates[w] + (IF pc[w] \in {"x_write", "x_release"} THEN 1 ELSE 0)]
Added == [w \in Workers |-> IF pc[w] = "done" THEN updates[w] ELSE 0]

\* The value of the abstract lock counts all updates, g_updates those of the
\* threads that have left.
CountOK == AValue = Total(Made) /\ g_updates = Total(Added)

\* Nothing is counted in the beginning.
LEMMA InitCount == Init => CountOK
<1> SUFFICES ASSUME Init PROVE CountOK
  OBVIOUS
<1>1. Made = [w \in Workers |-> 0] /\ Added = [w \in Workers |-> 0]
  BY DEF Init, Made, Added
<1>2. Total(Made) = 0 /\ Total(Added) = 0
  BY <1>1, WorkersAssumption, TotalOfZeros
<1>3. \A w \in Workers : ~Written(w)
  BY WordFacts DEF Init, Written, EmptyQueue
<1>4. AValue = 0
  BY <1>3, LinesAssumption DEF Init, AValue, ADirty, First
<1>5. QED
  BY <1>2, <1>4 DEF Init, CountOK

\* A step of w changes both sides of CountOK by as much.
LEMMA CountStep ==
    ASSUME IInv, IInv', CountOK, NEW w \in Workers, NEW d \in Int, NEW a \in Int,
           \A v \in Workers \ {w} : pc'[v] = pc[v] /\ updates'[v] = updates[v],
           Made'[w] = Made[w] + d, AValue' = AValue + d \/ (d = 0 /\ AValue' = AValue),
           Added'[w] = Added[w] + a, g_updates' = g_updates + a
    PROVE  CountOK'
<1>1. /\ Made \in [Workers -> Int] /\ Made' \in [Workers -> Int]
      /\ Added \in [Workers -> Int] /\ Added' \in [Workers -> Int]
  BY DEF Made, Added, IInv, TypeOK
<1>2. \A v \in Workers \ {w} : Made'[v] = Made[v] /\ Added'[v] = Added[v]
  BY DEF Made, Added
<1>3. Total(Made) \in Int /\ Total(Made') = Total(Made) + d
  BY <1>1, <1>2, WorkersAssumption, TotalOfChanged
<1>4. Total(Added) \in Int /\ Total(Added') = Total(Added) + a
  BY <1>1, <1>2, WorkersAssumption, TotalOfChanged
<1>5. QED
  BY <1>3, <1>4 DEF CountOK

\* The value advances with the update, before it is counted.
LEMMA NextCount == IInv /\ IInv' /\ DataOK /\ CountOK /\ [Next]_vars => CountOK'
<1> SUFFICES ASSUME IInv, IInv', DataOK, CountOK, [Next]_vars PROVE CountOK'
  OBVIOUS
<1>1. ASSUME NEW w \in Workers, Nic(w) PROVE CountOK'
  <2>1. Keeps
    BY <1>1, PayloadMoves, FetchAddMoves, CompareSwapMoves, ReleaseMoves DEF Nic
  <2>2. pc' = pc /\ updates' = updates /\ g_updates' = g_updates
    BY <1>1 DEF Nic, NicWrite, NicRead, NicRelease, NicFetchAdd, NicCompareSwap, local, main
  <2>3. QED
    BY <2>1, <2>2 DEF Keeps, CountOK, Made, Added
<1>2. ASSUME NEW w \in Workers,
             UpdateThenWrite(w) \/ UpdateAndRelease(w) \/ UpdateAndGoOn(w)
      PROVE  CountOK'
  <2>1. AValue' = AValue + 1
    BY <1>2, UpdateMoves DEF Advances
  <2>2. /\ \A v \in Workers \ {w} : pc'[v] = pc[v] /\ updates'[v] = updates[v]
        /\ pc[w] = "x_cs" /\ g_updates' = g_updates
        /\ \/ pc'[w] \in {"x_write", "x_release"} /\ updates'[w] = updates[w]
           \/ pc'[w] = "idle" /\ updates'[w] = updates[w] + 1
    BY <1>2 DEF UpdateThenWrite, UpdateAndRelease, UpdateAndGoOn, CountUpdate, Goto, IInv,
       TypeOK, main
  <2>3. Made'[w] = Made[w] + 1 /\ Added'[w] = Added[w] + 0
    BY <2>2 DEF Made, Added, IInv, TypeOK
  <2>4. g_updates' = g_updates + 0
    BY <2>2 DEF IInv, TypeOK
  <2>5. QED
    BY <2>1, <2>2, <2>3, <2>4, CountStep
<1>3. ASSUME NEW w \in Workers, Thread(w), g_updates' = g_updates, Keeps,
             \A v \in Workers \ {w} : pc'[v] = pc[v] /\ updates'[v] = updates[v],
             Made'[w] = Made[w], Added'[w] = Added[w]
      PROVE  CountOK'
  <2>1. Made'[w] = Made[w] + 0 /\ Added'[w] = Added[w] + 0 /\ g_updates' = g_updates + 0
    BY <1>3 DEF Made, Added, IInv, TypeOK
  <2>2. QED
    BY <1>3, <2>1, CountStep DEF Keeps
<1>4. ASSUME NEW w \in Workers, ExclusiveReleased(w) PROVE CountOK'
  <2>1. /\ \A v \in Workers \ {w} : pc'[v] = pc[v] /\ updates'[v] = updates[v]
        /\ pc[w] = "x_release" /\ pc'[w] = "idle" /\ updates'[w] = updates[w] + 1
        /\ g_updates' = g_updates
    BY <1>4 DEF ExclusiveReleased, CountUpdate, Goto, IInv, TypeOK, main
  <2>2. Made'[w] = Made[w] /\ Added'[w] = Added[w]
    BY <2>1 DEF Made, Added, IInv, TypeOK
  <2>3. QED
    BY <1>3, <1>4, <2>1, <2>2, QuietMoves DEF Thread, Writer
<1>5. ASSUME NEW w \in Workers, Finish(w) PROVE CountOK'
  <2>1. /\ \A v \in Workers \ {w} : pc'[v] = pc[v] /\ updates'[v] = updates[v]
        /\ pc[w] = "idle" /\ pc'[w] = "done" /\ updates'[w] = updates[w]
        /\ g_updates' = g_updates + updates[w]
    BY <1>5 DEF Finish, Goto, IInv, TypeOK
  <2>2. Made'[w] = Made[w] + 0 /\ Added'[w] = Added[w] + updates[w]
    BY <2>1 DEF Made, Added, IInv, TypeOK
  <2>3. AValue' = AValue
    BY <1>5, QuietMoves DEF Keeps
  <2>4. updates[w] \in Int
    BY DEF IInv, TypeOK
  <2>5. QED
    BY <2>1, <2>2, <2>3, <2>4, CountStep
<1>6. ASSUME NEW w \in Workers, Reader(w) \/ Writer(w),
             ~ExclusiveReleased(w),
             ~(UpdateThenWrite(w) \/ UpdateAndRelease(w) \/ UpdateAndGoOn(w))
      PROVE  CountOK'
  <2>1. Keeps
    BY <1>6, QuietMoves, PostMoves, GrantMoves, DeregisterMoves, PostReleaseMoves
       DEF Reader, Writer
  <2>2. /\ updates' = updates /\ g_updates' = g_updates
        /\ \A v \in Workers \ {w} : pc'[v] = pc[v]
        /\ pc[w] # "done" /\ pc'[w] # "done"
        /\ pc[w] \in {"x_write", "x_release"} <=> pc'[w] \in {"x_write", "x_release"}
    BY <1>6 DEF Reader, Writer, ChooseRead, PostShared, SharedRefused, SharedRetry,
       SharedGranted, SharedRead, SharedRelease, SharedReleased, ChooseWrite, PostExclusive,
       ExclusiveRefused, ExclusiveGranted, ExclusiveRead, ExclusiveRelease, Goto, IInv,
       TypeOK, main
  <2>3. Made'[w] = Made[w] /\ Added'[w] = Added[w]
    BY <2>2 DEF Made, Added
  <2>4. QED
    BY <1>3, <1>6, <2>1, <2>2, <2>3 DEF Thread
<1>7. ASSUME StopRunning \/ Terminated \/ UNCHANGED vars PROVE CountOK'
  <2>1. /\ data' = data /\ old' = old /\ wr' = wr /\ pc' = pc /\ updates' = updates
        /\ g_updates' = g_updates
    BY <1>7 DEF StopRunning, Terminated, vars, local, remote
  <2>2. AValue' = AValue
    BY <2>1 DEF AValue, ADirty, Written, First
  <2>3. QED
    BY <2>1, <2>2 DEF CountOK, Made, Added
<1>8. QED
  BY <1>1, <1>2, <1>4, <1>5, <1>6, <1>7 DEF Next, Thread

\* The invariant with the data and the counts.
LEMMA CountInvariance == Spec => [](IInv /\ DataOK /\ CountOK)
<1>1. Init => IInv /\ DataOK /\ CountOK
  BY InitInv, InitData, InitCount
<1>2. IInv /\ DataOK /\ CountOK /\ [Next]_vars => (IInv /\ DataOK /\ CountOK)'
  BY NextInv, NextMoves, NextCount
<1>3. QED
  BY <1>1, <1>2, PTL DEF Spec

\* The storage node's sum is the clients' sum: when all threads have left and
\* their queues are empty, no update of any worker is lost or made twice.
THEOREM UpdatesAddUp == Spec => []AggregatedUpdates
<1>1. IInv /\ DataOK /\ CountOK => AggregatedUpdates
  <2> SUFFICES ASSUME IInv, DataOK, CountOK, AllDone, Drained, NEW l \in Lines
               PROVE  data[l] = g_updates
    BY DEF AggregatedUpdates
  <2>1. Made = Added
    <3>1. \A w \in Workers : Made[w] = Added[w]
      BY DEF Made, Added, AllDone, IInv, TypeOK
    <3>2. QED
      BY <3>1 DEF Made, Added
  <2>2. \A w \in Workers : ~Written(w) /\ wr[w].write = {}
    BY WordFacts DEF Written, AllDone, Drained, EmptyQueue
  <2>3. AValue = data[First]
    BY <2>2, AbstractState DEF ValueIs
  <2>4. data[l] = data[First]
    BY <2>2, LinesAssumption DEF DataOK, Whole, First
  <2>5. QED
    BY <2>1, <2>3, <2>4 DEF CountOK
<1>2. QED
  BY <1>1, CountInvariance, PTL
=============================================================================
