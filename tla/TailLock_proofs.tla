--------------------------- MODULE TailLock_proofs ---------------------------
(***************************************************************************)
(* TailLock, for any finite set of workers, any payload, any flags and any *)
(* number of updates, and whether or not releases fail: type correctness,  *)
(* and what an even and an odd lock word say, although the end of a WRITE  *)
(* may fall between the two halves of an atomic.  On top of that, TailLock *)
(* implements RWLockSpec, and readers read whole, current tuples: the      *)
(* argument is that of RWLock_proofs; here the end of the WRITE is the     *)
(* release.                                                                *)
(***************************************************************************)
EXTENDS TailLock, FiniteSetTheorems, TLAPS

\* What a thread has in its queue at each point of its program, and what its
\* copy of the lock word holds as long as a WRITE has to take it from there.
QueueOK(w) ==
    /\ wr[w].acquire = "shared" => pc[w] = "s_lock"
    /\ wr[w].acquire = "exclusive" => pc[w] = "x_lock"
    /\ pc[w] \in {"s_lock", "x_lock"} /\ wr[w].acquire = "none" /\ w \notin failed => Released(w)
    /\ pc[w] \in {"s_read", "s_cs", "x_read", "x_cs"} => Released(w)
    /\ pc[w] = "s_release" => ~wr[w].unlock
    /\ pc[w] = "x_write" => ~wr[w].release
    /\ wr[w].unlock => old7[w] = 0 /\ ~wr[w].release
    /\ w \in failed => /\ pc[w] \in {"idle", "s_lock", "x_lock", "s_release", "done", "aborted"}
                       /\ Written(w) /\ ~wr[w].release

QueuesOK == \A w \in Workers : QueueOK(w)

\* There is one owner at most.
Exclusion ==
    \A v, w \in Workers : HoldsExclusive(v) /\ HoldsExclusive(w) => v = w

\* While the device has w's atomic in hand, what it has fetched is what the
\* word still holds, unless the end of a WRITE has come in between: then the
\* word was fetched with the writer's bit and is 0 now.  A release is never
\* overtaken like this: its reader keeps writers out.
AtomicOf(w) ==
    /\ w \notin failed
    /\ Written(w)
    /\ IF wr[w].release
       THEN Aligned /\ old7[w] = lockw
       ELSE wr[w].acquire # "none" /\ (old7[w] = lockw \/ (Odd(old7[w]) /\ lockw = 0))

AtomicOK == \A w \in Workers : atomic = w => AtomicOf(w)

IInv == TypeOK /\ QueuesOK /\ Exclusion /\ LockWordExact /\ AtomicOK

-----------------------------------------------------------------------------

\* The sizes: the registrations of all workers fit the lock word.
LEMMA WordFacts ==
    /\ HalfWord \in Nat /\ Cardinality(Workers) \in Nat
    /\ 1 < HalfWord /\ Cardinality(Workers) < HalfWord
    /\ Words = 0 .. 2 * HalfWord - 1 /\ 0 \in Words /\ 1 \in Words
<1>1. Cardinality(Workers) \in Nat /\ Cardinality(Workers) # 0
  BY WorkersAssumption, FS_CardinalityType, FS_EmptySet
<1>2. QED
  BY <1>1, WordAssumption DEF Words

\* The writer's bit, and what adding readers does to it: nothing.
LEMMA OddFacts ==
    /\ Odd(1)
    /\ \A n \in Nat : ~Odd(2 * n)
    /\ \A a \in Words : Odd(AddWords(a, 2)) <=> Odd(a)
    /\ \A a \in Words : AddWords(a, 2) \in Words
<1>1. Odd(1)
  BY DEF Odd
<1>2. \A n \in Nat : ~Odd(2 * n)
  BY DEF Odd
<1>3. \A a, b \in Nat : Odd(a + 2 * b) <=> Odd(a)
  BY DEF Odd
<1>4. ASSUME NEW a \in Words
      PROVE  AddWords(a, 2) \in Words /\ (Odd(AddWords(a, 2)) <=> Odd(a))
  <2>1. a \in Nat /\ a < 2 * HalfWord
    BY WordFacts
  <2>2. CASE a + 2 < 2 * HalfWord
    <3>1. AddWords(a, 2) = a + 2 * 1
      BY <2>1, <2>2, WordFacts DEF AddWords
    <3>2. AddWords(a, 2) \in Words
      BY <2>1, <2>2, <3>1, WordFacts
    <3>3. Odd(a + 2 * 1) <=> Odd(a)
      BY ONLY <1>3, <2>1
    <3>4. QED
      BY <3>1, <3>2, <3>3
  <2>3. CASE a + 2 >= 2 * HalfWord
    <3>1. AddWords(a, 2) = a + 2 - 2 * HalfWord
      BY <2>1, <2>3, WordFacts DEF AddWords
    <3>2. AddWords(a, 2) \in Words /\ a = AddWords(a, 2) + 2 * (HalfWord - 1)
      BY <2>1, <2>3, <3>1, WordFacts
    <3>3. AddWords(a, 2) \in Nat /\ HalfWord - 1 \in Nat
      BY <3>2, WordFacts
    <3>4. Odd(AddWords(a, 2) + 2 * (HalfWord - 1)) <=> Odd(AddWords(a, 2))
      BY <1>3, <3>3
    <3>5. Odd(a) <=> Odd(AddWords(a, 2) + 2 * (HalfWord - 1))
      BY ONLY <3>2
    <3>6. QED
      BY <3>2, <3>4, <3>5
  <2>4. QED
    BY <2>1, <2>2, <2>3, WordFacts
<1>5. QED
  BY <1>1, <1>2, <1>4

\* There are finitely many registered readers, at most one per worker.
LEMMA ReadersFinite ==
    /\ IsFiniteSet(Readers)
    /\ Cardinality(Readers) \in Nat
    /\ Cardinality(Readers) <= Cardinality(Workers)
    /\ Cardinality(Readers) = 0 <=> Readers = {}
<1>1. IsFiniteSet(Workers) BY WorkersAssumption
<1>2. Readers \subseteq Workers BY DEF Readers
<1>3. IsFiniteSet(Readers) /\ Cardinality(Readers) <= Cardinality(Workers)
  BY <1>1, <1>2, FS_Subset
<1>4. QED BY <1>3, FS_CardinalityType, FS_EmptySet

\* The zeroed tuple and the idle threads satisfy the invariant.
LEMMA InitInv == Init => IInv
<1> SUFFICES ASSUME Init PROVE IInv
  OBVIOUS
<1>1. TypeOK
  BY WordFacts DEF Init, TypeOK, EmptyQueue, Queues
<1>2. \A w \in Workers : ~Registered(w) /\ ~HoldsExclusive(w) /\ QueueOK(w)
  BY DEF Init, Registered, HoldsShared, HoldsExclusive, QueueOK, EmptyQueue, Released, Written
<1>3. Readers = {} /\ ~Owned
  BY <1>2 DEF Readers, Owned
<1>4. LockWordExact
  <2>1. ~Odd(0)
    BY DEF Odd
  <2>2. QED
    BY <1>3, <2>1, ReadersFinite DEF LockWordExact, Init
<1>5. AtomicOK
  BY NoOwnerAssumption DEF Init, AtomicOK
<1>6. QED
  BY <1>1, <1>2, <1>4, <1>5 DEF IInv, QueuesOK, Exclusion

-----------------------------------------------------------------------------
(* Steps that do not touch the lock word.                                  *)

\* A step of w leaves the other workers where they are.
Others(w) == \A v \in Workers \ {w} :
                 /\ pc'[v] = pc[v] /\ old7'[v] = old7[v] /\ wr'[v] = wr[v]
                 /\ v \in failed' <=> v \in failed

Quiet(w) == /\ Others(w)
            /\ lockw' = lockw
            /\ Registered(w)' <=> Registered(w)
            /\ HoldsExclusive(w)' <=> HoldsExclusive(w)

\* ... so it keeps what the lock word says, if it is quiet.
LEMMA QuietStep ==
    ASSUME Exclusion, LockWordExact, NEW w \in Workers, Quiet(w)
    PROVE  Exclusion' /\ LockWordExact'
<1>1. \A v \in Workers : /\ Registered(v)' <=> Registered(v)
                         /\ HoldsExclusive(v)' <=> HoldsExclusive(v)
  BY DEF Quiet, Others, Registered, HoldsShared, HoldsExclusive
<1>2. Readers' = Readers /\ (Owned' <=> Owned)
  BY <1>1 DEF Readers, Owned
<1>3. QED
  BY <1>1, <1>2 DEF Exclusion, LockWordExact, Quiet

\* ... and it keeps what the device has in hand, if that is not of w or w
\* leaves it alone.
LEMMA AtomicKept ==
    ASSUME AtomicOK, NEW w \in Workers, Others(w), lockw' = lockw, variant' = variant,
           atomic' = atomic, atomic = w => AtomicOf(w)'
    PROVE  AtomicOK'
<1> SUFFICES ASSUME NEW v \in Workers, atomic = v PROVE AtomicOf(v)'
  BY DEF AtomicOK
<1>1. CASE v = w
  BY <1>1
<1>2. CASE v # w
  <2>1. AtomicOf(v) /\ v \in Workers \ {w}
    BY <1>2 DEF AtomicOK
  <2>2. QED
    BY <2>1 DEF AtomicOf, Others, Written, Aligned, ReleaseOffset
<1>3. QED
  BY <1>1, <1>2

\* When the device has nothing in hand there is nothing to be said.
LEMMA AtomicDone == ASSUME atomic' = NoOwner PROVE AtomicOK'
BY NoOwnerAssumption DEF AtomicOK

\* The others' queues are as they were.
LEMMA QueuesStep ==
    ASSUME QueuesOK, NEW w \in Workers, Others(w), QueueOK(w)'
    PROVE  QueuesOK'
BY DEF QueuesOK, QueueOK, Others, Released, Written

\* Whatever is posted or executed, a queue stays a queue.
LEMMA QueueTypes ==
    ASSUME wr \in [Workers -> Queues], NEW w \in Workers
    PROVE  /\ \A lines \in SUBSET Lines : [wr EXCEPT ![w].write = lines] \in [Workers -> Queues]
           /\ \A lines \in SUBSET Lines : [wr EXCEPT ![w].read = lines] \in [Workers -> Queues]
           /\ \A b \in BOOLEAN : [wr EXCEPT ![w].release = b] \in [Workers -> Queues]
           /\ \A b \in BOOLEAN : [wr EXCEPT ![w].unlock = b] \in [Workers -> Queues]
           /\ \A kind \in {"none", "shared", "exclusive"} :
                 [wr EXCEPT ![w].acquire = kind] \in [Workers -> Queues]
           /\ \A kind \in {"none", "shared", "exclusive"}, lines \in SUBSET Lines :
                 [wr EXCEPT ![w].acquire = kind, ![w].read = lines] \in [Workers -> Queues]
           /\ \A lines \in SUBSET Lines, b \in BOOLEAN :
                 [wr EXCEPT ![w].write = lines, ![w].unlock = b] \in [Workers -> Queues]
           /\ [wr EXCEPT ![w] = EmptyQueue] \in [Workers -> Queues]
<1> SUFFICES ASSUME NEW lines \in SUBSET Lines, NEW b \in BOOLEAN,
                    NEW kind \in {"none", "shared", "exclusive"}
             PROVE  /\ [wr EXCEPT ![w].write = lines] \in [Workers -> Queues]
                    /\ [wr EXCEPT ![w].read = lines] \in [Workers -> Queues]
                    /\ [wr EXCEPT ![w].release = b] \in [Workers -> Queues]
                    /\ [wr EXCEPT ![w].unlock = b] \in [Workers -> Queues]
                    /\ [wr EXCEPT ![w].acquire = kind] \in [Workers -> Queues]
                    /\ [wr EXCEPT ![w].acquire = kind, ![w].read = lines] \in [Workers -> Queues]
                    /\ [wr EXCEPT ![w].write = lines, ![w].unlock = b] \in [Workers -> Queues]
                    /\ [wr EXCEPT ![w] = EmptyQueue] \in [Workers -> Queues]
  BY Zenon
<1> DEFINE q == wr[w]
<1>1. /\ [q EXCEPT !.write = lines] \in Queues
      /\ [q EXCEPT !.release = b] \in Queues
      /\ [q EXCEPT !.unlock = b] \in Queues
      /\ [q EXCEPT !.acquire = kind] \in Queues
      /\ [q EXCEPT !.read = lines] \in Queues
  BY DEF Queues
<1>2. /\ [[q EXCEPT !.acquire = kind] EXCEPT !.read = lines] \in Queues
      /\ [[q EXCEPT !.write = lines] EXCEPT !.unlock = b] \in Queues
      /\ EmptyQueue \in Queues
  BY DEF Queues, EmptyQueue
<1>3. \A p \in Queues : [wr EXCEPT ![w] = p] \in [Workers -> Queues]
  OBVIOUS
<1>4. /\ [wr EXCEPT ![w].acquire = kind, ![w].read = lines]
         = [wr EXCEPT ![w] = [[q EXCEPT !.acquire = kind] EXCEPT !.read = lines]]
      /\ [wr EXCEPT ![w].write = lines, ![w].unlock = b]
         = [wr EXCEPT ![w] = [[q EXCEPT !.write = lines] EXCEPT !.unlock = b]]
  OBVIOUS
<1>5. QED BY <1>1, <1>2, <1>3, <1>4

\* The updated payload is a payload.
LEMMA IncrementedType ==
    \A payload \in [Lines -> Nat] : Incremented(payload) \in [Lines -> Nat]
BY LinesAssumption DEF Incremented

-----------------------------------------------------------------------------
(* What the steps of a thread do.                                          *)

\* Nothing is posted or computed.
Idles(w) == \/ SharedRefused(w) \/ SharedRead(w) \/ SharedReleased(w)
            \/ ExclusiveRefused(w) \/ ExclusiveRead(w) \/ Updated(w)
            \/ PollFails(w) \/ Finish(w)

\* ... so just the thread moves.
LEMMA IdlesEffect ==
    ASSUME TypeOK, NEW w \in Workers, Idles(w)
    PROVE  /\ lockw' = lockw /\ data' = data /\ old7' = old7 /\ old' = old /\ wr' = wr
           /\ failed' = failed /\ variant' = variant /\ atomic' = atomic
           /\ Others(w)
           /\ \/ Polled(w) /\ pc[w] = "s_lock" /\ Odd(old7[w]) /\ pc'[w] = "idle"
              \/ Polled(w) /\ pc[w] = "x_lock" /\ old7[w] # 0 /\ pc'[w] = "idle"
              \/ Polled(w) /\ pc[w] = "s_read" /\ pc'[w] = "s_cs"
              \/ Polled(w) /\ pc[w] = "x_read" /\ pc'[w] = "x_cs"
              \/ Polled(w) /\ pc[w] \in {"s_release", "x_write"} /\ pc'[w] = "idle"
              \/ w \in failed /\ wr[w] = EmptyQueue /\ pc'[w] = "aborted"
              \/ pc[w] = "idle" /\ pc'[w] = "done"
<1>1. /\ lockw' = lockw /\ data' = data /\ old7' = old7 /\ old' = old /\ wr' = wr
      /\ failed' = failed /\ variant' = variant /\ atomic' = atomic
  BY DEF Idles, SharedRefused, SharedRead, SharedReleased, ExclusiveRefused, ExclusiveRead,
     Updated, PollFails, Finish, remote, main
<1>2. /\ \A v \in Workers \ {w} : pc'[v] = pc[v]
      /\ \/ Polled(w) /\ pc[w] = "s_lock" /\ Odd(old7[w]) /\ pc'[w] = "idle"
         \/ Polled(w) /\ pc[w] = "x_lock" /\ old7[w] # 0 /\ pc'[w] = "idle"
         \/ Polled(w) /\ pc[w] = "s_read" /\ pc'[w] = "s_cs"
         \/ Polled(w) /\ pc[w] = "x_read" /\ pc'[w] = "x_cs"
         \/ Polled(w) /\ pc[w] \in {"s_release", "x_write"} /\ pc'[w] = "idle"
         \/ w \in failed /\ wr[w] = EmptyQueue /\ pc'[w] = "aborted"
         \/ pc[w] = "idle" /\ pc'[w] = "done"
  BY DEF Idles, SharedRefused, SharedRead, SharedReleased, ExclusiveRefused, ExclusiveRead,
     Updated, PollFails, Finish, Goto, TypeOK
<1>3. QED
  BY <1>1, <1>2 DEF Others

\* An acquiring atomic is posted, with a READ behind it or not.
Posts(w) == LockShared(w) \/ LockExclusive(w)

\* ... behind what is left of the operation before.
LEMMA PostsEffect ==
    ASSUME TypeOK, NEW w \in Workers, Posts(w)
    PROVE  /\ lockw' = lockw /\ data' = data /\ old7' = old7 /\ old' = old
           /\ failed' = failed /\ variant' = variant /\ atomic' = atomic
           /\ Others(w)
           /\ pc[w] = "idle"
           /\ \/ pc'[w] = "s_lock" /\ wr'[w].acquire = "shared"
              \/ pc'[w] = "x_lock" /\ wr'[w].acquire = "exclusive"
           /\ wr'[w].read = SpeculativeRead /\ wr'[w].write = wr[w].write
           /\ wr'[w].unlock = wr[w].unlock /\ wr'[w].release = wr[w].release
           /\ wr' \in [Workers -> Queues]
<1>1. /\ lockw' = lockw /\ data' = data /\ old7' = old7 /\ old' = old
      /\ failed' = failed /\ variant' = variant /\ atomic' = atomic
  BY DEF Posts, LockShared, LockExclusive, remote, main
<1>2. PICK kind \in {"shared", "exclusive"} :
        /\ wr' = [wr EXCEPT ![w].acquire = kind, ![w].read = SpeculativeRead]
        /\ Goto(w, "idle", IF kind = "shared" THEN "s_lock" ELSE "x_lock")
  BY DEF Posts, LockShared, LockExclusive
<1>3. /\ wr'[w].acquire = kind /\ wr'[w].read = SpeculativeRead
      /\ wr'[w].write = wr[w].write /\ wr'[w].unlock = wr[w].unlock
      /\ wr'[w].release = wr[w].release
      /\ \A v \in Workers \ {w} : wr'[v] = wr[v]
  <2>1. wr \in [Workers -> Queues]
    BY DEF TypeOK
  <2>2. QED
    BY <1>2, <2>1 DEF Queues
<1>4. /\ pc[w] = "idle" /\ pc'[w] = IF kind = "shared" THEN "s_lock" ELSE "x_lock"
      /\ \A v \in Workers \ {w} : pc'[v] = pc[v]
  BY <1>2 DEF Goto, TypeOK
<1>5. wr' \in [Workers -> Queues]
  <2>1. SpeculativeRead \in SUBSET Lines
    BY DEF SpeculativeRead
  <2>2. QED
    BY <1>2, <2>1, QueueTypes DEF TypeOK
<1>6. QED
  BY <1>1, <1>3, <1>4, <1>5 DEF Others

\* The lock is granted.
Enters(w) == SharedGranted(w) \/ ExclusiveGranted(w)

\* ... and the payload is there, or is read now.
LEMMA EntersEffect ==
    ASSUME TypeOK, NEW w \in Workers, Enters(w)
    PROVE  /\ lockw' = lockw /\ data' = data /\ old7' = old7 /\ old' = old
           /\ failed' = failed /\ variant' = variant /\ atomic' = atomic
           /\ Others(w) /\ Polled(w)
           /\ \/ pc[w] = "s_lock" /\ ~Odd(old7[w]) /\ pc'[w] \in {"s_read", "s_cs"}
              \/ pc[w] = "x_lock" /\ old7[w] = 0 /\ pc'[w] \in {"x_read", "x_cs"}
           /\ wr'[w].acquire = "none" /\ wr'[w].write = {} /\ ~wr'[w].unlock /\ ~wr'[w].release
           /\ \/ variant.speculative_read /\ wr'[w].read = {}
              \/ pc'[w] \in {"s_read", "x_read"} /\ wr'[w].read = Lines
                 /\ ~variant.speculative_read
           /\ wr' \in [Workers -> Queues]
<1>1. /\ lockw' = lockw /\ data' = data /\ old7' = old7 /\ old' = old
      /\ failed' = failed /\ variant' = variant /\ atomic' = atomic /\ Polled(w)
  BY DEF Enters, SharedGranted, ExclusiveGranted, Granted, remote, main
<1>2. /\ \/ pc[w] = "s_lock" /\ ~Odd(old7[w]) /\ pc'[w] \in {"s_read", "s_cs"}
         \/ pc[w] = "x_lock" /\ old7[w] = 0 /\ pc'[w] \in {"x_read", "x_cs"}
      /\ ~variant.speculative_read => pc'[w] \in {"s_read", "x_read"}
      /\ \A v \in Workers \ {w} : pc'[v] = pc[v]
  BY DEF Enters, SharedGranted, ExclusiveGranted, Granted, Goto, TypeOK
<1>3. wr' = IF variant.speculative_read THEN wr ELSE [wr EXCEPT ![w].read = Lines]
  BY DEF Enters, SharedGranted, ExclusiveGranted, Granted
<1>4. /\ wr'[w].acquire = wr[w].acquire /\ wr'[w].write = wr[w].write
      /\ wr'[w].unlock = wr[w].unlock /\ wr'[w].release = wr[w].release
      /\ variant.speculative_read => wr'[w].read = wr[w].read
      /\ ~variant.speculative_read => wr'[w].read = Lines
      /\ \A v \in Workers \ {w} : wr'[v] = wr[v]
  BY <1>3 DEF TypeOK, Queues
<1>5. wr' \in [Workers -> Queues]
  BY <1>3, QueueTypes DEF TypeOK
<1>6. QED
  BY <1>1, <1>2, <1>4, <1>5 DEF Others, Polled, Acquired, Released, Written

\* A reader's release is posted.
LEMMA SharedReleaseEffect ==
    ASSUME TypeOK, NEW w \in Workers, SharedRelease(w)
    PROVE  /\ lockw' = lockw /\ data' = data /\ old7' = old7 /\ old' = old
           /\ failed' = failed /\ variant' = variant /\ atomic' = atomic
           /\ Others(w)
           /\ pc[w] = "s_cs" /\ pc'[w] \in {"idle", "s_release"}
           /\ wr'[w].acquire = wr[w].acquire /\ wr'[w].write = wr[w].write
           /\ wr'[w].unlock = wr[w].unlock /\ wr'[w].read = wr[w].read /\ wr'[w].release
           /\ wr' \in [Workers -> Queues]
<1>1. /\ lockw' = lockw /\ data' = data /\ old7' = old7 /\ old' = old
      /\ failed' = failed /\ variant' = variant /\ atomic' = atomic
      /\ wr' = [wr EXCEPT ![w].release = TRUE]
  BY DEF SharedRelease, remote, main
<1>2. /\ pc[w] = "s_cs" /\ pc'[w] \in {"idle", "s_release"}
      /\ \A v \in Workers \ {w} : pc'[v] = pc[v]
  BY DEF SharedRelease, Goto, TypeOK
<1>3. /\ wr'[w].acquire = wr[w].acquire /\ wr'[w].write = wr[w].write
      /\ wr'[w].unlock = wr[w].unlock /\ wr'[w].read = wr[w].read /\ wr'[w].release
  <2>1. wr \in [Workers -> Queues]
    BY DEF TypeOK
  <2>2. QED
    BY <1>1, <2>1 DEF Queues
<1>4. wr' \in [Workers -> Queues] /\ \A v \in Workers \ {w} : wr'[v] = wr[v]
  <2>1. wr' \in [Workers -> Queues]
    BY <1>1, QueueTypes DEF TypeOK
  <2>2. wr \in [Workers -> Queues]
    BY DEF TypeOK
  <2>3. \A v \in Workers \ {w} : wr'[v] = wr[v]
    BY <1>1, <2>2
  <2>4. QED
    BY <2>1, <2>3
<1>5. QED
  BY <1>1, <1>2, <1>3, <1>4 DEF Others

\* The WRITE of the tuple is posted.
LEMMA UpdateEffect ==
    ASSUME TypeOK, NEW w \in Workers, Update(w)
    PROVE  /\ lockw' = lockw /\ data' = data /\ failed' = failed /\ variant' = variant /\ atomic' = atomic
           /\ old' = [old EXCEPT ![w] = Incremented(old[w])]
           /\ old7' = [old7 EXCEPT ![w] = 0]
           /\ Others(w)
           /\ pc[w] = "x_cs" /\ pc'[w] \in {"idle", "x_write"}
           /\ wr'[w].acquire = wr[w].acquire /\ wr'[w].write = Lines
           /\ wr'[w].unlock /\ wr'[w].read = wr[w].read /\ wr'[w].release = wr[w].release
           /\ wr' \in [Workers -> Queues]
<1>1. /\ lockw' = lockw /\ data' = data /\ failed' = failed /\ variant' = variant /\ atomic' = atomic
      /\ old' = [old EXCEPT ![w] = Incremented(old[w])]
      /\ old7' = [old7 EXCEPT ![w] = 0]
      /\ wr' = [wr EXCEPT ![w].write = Lines, ![w].unlock = TRUE]
  BY DEF Update, remote, main
<1>2. /\ pc[w] = "x_cs" /\ pc'[w] \in {"idle", "x_write"}
      /\ \A v \in Workers \ {w} : pc'[v] = pc[v]
  BY DEF Update, Goto, TypeOK
<1>3. /\ wr'[w].acquire = wr[w].acquire /\ wr'[w].write = Lines
      /\ wr'[w].unlock /\ wr'[w].read = wr[w].read /\ wr'[w].release = wr[w].release
  <2>1. wr \in [Workers -> Queues]
    BY DEF TypeOK
  <2>2. QED
    BY <1>1, <2>1 DEF Queues
<1>4. wr' \in [Workers -> Queues] /\ \A v \in Workers \ {w} : wr'[v] = wr[v]
  <2>1. wr' \in [Workers -> Queues]
    BY <1>1, QueueTypes DEF TypeOK
  <2>2. wr \in [Workers -> Queues]
    BY DEF TypeOK
  <2>3. \A v \in Workers \ {w} : wr'[v] = wr[v]
    BY <1>1, <2>2
  <2>4. QED
    BY <2>1, <2>3
<1>5. \A v \in Workers \ {w} : old7'[v] = old7[v]
  BY <1>1 DEF TypeOK
<1>6. QED
  BY <1>1, <1>2, <1>3, <1>4, <1>5 DEF Others

-----------------------------------------------------------------------------
(* The threads keep the invariant: the lock word is not theirs.            *)

\* The rest of the types: what the effects do not tell.
Pcs == {"idle", "s_lock", "s_read", "s_cs", "s_release", "x_lock", "x_read", "x_cs",
        "x_write", "done", "aborted"}

\* ... of the threads and of main.
LEMMA ThreadTypes ==
    ASSUME TypeOK, NEW w \in Workers, Reader(w) \/ Writer(w) \/ PollFails(w) \/ Finish(w)
    PROVE  /\ pc' \in [Workers -> Pcs] /\ updates' \in [Workers -> Nat] /\ g_updates' \in Nat
           /\ keep_running' \in BOOLEAN
<1>1. \E to \in Pcs : pc' = [pc EXCEPT ![w] = to]
  <2>1. CASE Reader(w)
    BY <2>1 DEF Reader, LockShared, SharedRefused, SharedGranted, SharedRead, SharedRelease,
       SharedReleased, Granted, Goto, Pcs
  <2>2. CASE Writer(w)
    BY <2>2 DEF Writer, LockExclusive, ExclusiveRefused, ExclusiveGranted, ExclusiveRead, Update,
       Updated, Granted, Goto, Pcs
  <2>3. CASE PollFails(w) \/ Finish(w)
    BY <2>3 DEF PollFails, Finish, Goto, Pcs
  <2>4. QED
    BY <2>1, <2>2, <2>3
<1>2. pc' \in [Workers -> Pcs]
  BY <1>1 DEF TypeOK, Pcs
<1>3. updates' = updates \/ updates' = [updates EXCEPT ![w] = updates[w] + 1]
  BY DEF Reader, LockShared, SharedRefused, SharedGranted, SharedRead, SharedRelease,
     SharedReleased, Granted, Writer, LockExclusive, ExclusiveRefused, ExclusiveGranted,
     ExclusiveRead, Update, Updated, PollFails, Finish
<1>4. /\ g_updates' = g_updates \/ g_updates' = g_updates + updates[w]
      /\ keep_running' = keep_running
  BY DEF Reader, LockShared, SharedRefused, SharedGranted, SharedRead, SharedRelease,
     SharedReleased, Granted, Writer, LockExclusive, ExclusiveRefused, ExclusiveGranted,
     ExclusiveRead, Update, Updated, PollFails, Finish, main
<1>5. QED
  BY <1>2, <1>3, <1>4 DEF TypeOK

\* Whatever a thread does is quiet.
LEMMA ThreadStep ==
    ASSUME IInv, NEW w \in Workers, Reader(w) \/ Writer(w) \/ PollFails(w) \/ Finish(w)
    PROVE  TypeOK' /\ QueuesOK' /\ AtomicOK' /\ Quiet(w)
<1> USE DEF IInv
<1>0. /\ pc' \in [Workers -> Pcs] /\ updates' \in [Workers -> Nat] /\ g_updates' \in Nat
      /\ keep_running' \in BOOLEAN
  BY ThreadTypes
<1>1. CASE Idles(w)
  <2>1. TypeOK'
    BY <1>0, <1>1, IdlesEffect DEF TypeOK, Pcs
  <2>2. QueueOK(w)'
    BY <1>1, IdlesEffect DEF QueuesOK, QueueOK, Polled, Acquired, Released, Written, EmptyQueue
  <2>3. Quiet(w)
    BY <1>1, IdlesEffect DEF QueuesOK, QueueOK, Polled, Acquired, Released, Written, Quiet,
       Registered, HoldsShared, HoldsExclusive, EmptyQueue
  <2>4. atomic = w => AtomicOf(w)'
    BY <1>1, IdlesEffect DEF AtomicOK, AtomicOf, Written, Aligned, ReleaseOffset
  <2>5. QED
    BY <1>1, <2>1, <2>2, <2>3, <2>4, IdlesEffect, QueuesStep, AtomicKept
<1>2. CASE Posts(w)
  <2>1. TypeOK'
    BY <1>0, <1>2, PostsEffect DEF TypeOK, Pcs
  <2>2. QueueOK(w)'
    BY <1>2, PostsEffect DEF QueuesOK, QueueOK, Released, Written
  <2>3. Quiet(w)
    BY <1>2, PostsEffect DEF Quiet, Registered, HoldsShared, HoldsExclusive
  <2>4. atomic = w => AtomicOf(w)'
    <3>1. wr[w].acquire = "none"
      BY <1>2, PostsEffect DEF QueuesOK, QueueOK, TypeOK, Queues
    <3>2. QED
      BY <1>2, <3>1, PostsEffect DEF AtomicOK, AtomicOf, Written, Aligned, ReleaseOffset
  <2>5. QED
    BY <1>2, <2>1, <2>2, <2>3, <2>4, PostsEffect, QueuesStep, AtomicKept
<1>3. CASE Enters(w)
  <2>1. TypeOK'
    BY <1>0, <1>3, EntersEffect DEF TypeOK, Pcs
  <2>2. w \notin failed /\ Acquired(w)
    BY <1>3, EntersEffect DEF Polled, Acquired, Released
  <2>3. QueueOK(w)'
    BY <1>3, <2>2, EntersEffect DEF QueueOK, Released, Written
  <2>4. Quiet(w)
    BY <1>3, <2>2, EntersEffect DEF Acquired, Released, Written, Quiet,
       Registered, HoldsShared, HoldsExclusive
  <2>5. atomic # w
    BY <2>2 DEF AtomicOK, AtomicOf, Acquired, Released
  <2>6. QED
    BY <1>3, <2>1, <2>3, <2>4, <2>5, EntersEffect, QueuesStep, AtomicKept
<1>4. CASE SharedRelease(w)
  <2>1. TypeOK'
    BY <1>0, <1>4, SharedReleaseEffect DEF TypeOK, Pcs
  <2>2. /\ w \notin failed /\ Released(w) /\ wr[w].acquire = "none"
    BY <1>4, SharedReleaseEffect DEF QueuesOK, QueueOK, TypeOK, Queues
  <2>3. QueueOK(w)'
    BY <1>4, <2>2, SharedReleaseEffect DEF QueueOK, Released, Written
  <2>4. Quiet(w)
    BY <1>4, <2>2, SharedReleaseEffect DEF Released, Written, Quiet,
       Registered, HoldsShared, HoldsExclusive
  <2>5. atomic # w
    BY <2>2 DEF AtomicOK, AtomicOf, Released
  <2>6. QED
    BY <1>4, <2>1, <2>3, <2>4, <2>5, SharedReleaseEffect, QueuesStep, AtomicKept
<1>5. CASE Update(w)
  <2>1. TypeOK'
    <3>1. /\ old' = [old EXCEPT ![w] = Incremented(old[w])]
          /\ old7' = [old7 EXCEPT ![w] = 0]
      BY <1>5, UpdateEffect
    <3>2. old' \in [Workers -> [Lines -> Nat]]
      BY <3>1, IncrementedType DEF TypeOK
    <3>3. old7' \in [Workers -> Words]
      BY <3>1, WordFacts DEF TypeOK
    <3>4. QED
      BY <1>0, <1>5, <3>2, <3>3, UpdateEffect DEF TypeOK, Pcs
  <2>2. /\ w \notin failed /\ Released(w) /\ wr[w].acquire = "none"
    BY <1>5, UpdateEffect DEF QueuesOK, QueueOK, TypeOK, Queues
  <2>3. old7'[w] = 0
    BY <1>5, UpdateEffect DEF TypeOK
  <2>4. QueueOK(w)'
    BY <1>5, <2>2, <2>3, UpdateEffect DEF QueueOK, Released, Written
  <2>5. Quiet(w)
    BY <1>5, <2>2, UpdateEffect DEF Released, Written, Quiet,
       Registered, HoldsShared, HoldsExclusive
  <2>6. atomic # w
    BY <2>2 DEF AtomicOK, AtomicOf, Released
  <2>7. QED
    BY <1>5, <2>1, <2>4, <2>5, <2>6, UpdateEffect, QueuesStep, AtomicKept
<1>6. QED
  BY <1>1, <1>2, <1>3, <1>4, <1>5 DEF Reader, Writer, Idles, Posts, Enters

-----------------------------------------------------------------------------
(* The queue pairs.                                                        *)

\* A line of the WRITE.
LEMMA NicWriteEffect ==
    ASSUME TypeOK, NEW w \in Workers, NEW l \in Lines, NicWrite(w, l)
    PROVE  /\ lockw' = lockw /\ old7' = old7 /\ old' = old /\ pc' = pc
           /\ failed' = failed /\ variant' = variant /\ atomic' = atomic
           /\ data' = [data EXCEPT ![l] = old[w][l]] /\ l \in wr[w].write
           /\ Others(w)
           /\ wr'[w].acquire = wr[w].acquire /\ wr'[w].write = wr[w].write \ {l}
           /\ wr'[w].unlock = wr[w].unlock /\ wr'[w].read = wr[w].read
           /\ wr'[w].release = wr[w].release
           /\ wr' \in [Workers -> Queues]
<1>1. /\ lockw' = lockw /\ old7' = old7 /\ old' = old /\ pc' = pc
      /\ failed' = failed /\ variant' = variant /\ atomic' = atomic
      /\ data' = [data EXCEPT ![l] = old[w][l]] /\ l \in wr[w].write
      /\ wr' = [wr EXCEPT ![w].write = wr[w].write \ {l}]
  BY DEF NicWrite, local, main
<1>2. wr[w].write \ {l} \in SUBSET Lines
  BY DEF TypeOK, Queues
<1>3. wr' \in [Workers -> Queues]
  BY <1>1, <1>2, QueueTypes DEF TypeOK
<1>4. wr \in [Workers -> Queues]
  BY DEF TypeOK
<1>5. /\ wr'[w].acquire = wr[w].acquire /\ wr'[w].write = wr[w].write \ {l}
      /\ wr'[w].unlock = wr[w].unlock /\ wr'[w].read = wr[w].read
      /\ wr'[w].release = wr[w].release
  BY <1>1, <1>4 DEF Queues
<1>6. Others(w)
  BY <1>1, <1>4 DEF Others
<1>7. QED
  BY <1>1, <1>3, <1>5, <1>6

\* A line of the READ.
LEMMA NicReadEffect ==
    ASSUME TypeOK, NEW w \in Workers, NEW l \in Lines, NicRead(w, l)
    PROVE  /\ lockw' = lockw /\ old7' = old7 /\ data' = data /\ pc' = pc
           /\ failed' = failed /\ variant' = variant /\ atomic' = atomic
           /\ old' = [old EXCEPT ![w][l] = data[l]] /\ l \in wr[w].read /\ Acquired(w)
           /\ Others(w)
           /\ wr'[w].acquire = wr[w].acquire /\ wr'[w].write = wr[w].write
           /\ wr'[w].unlock = wr[w].unlock /\ wr'[w].read = wr[w].read \ {l}
           /\ wr'[w].release = wr[w].release
           /\ wr' \in [Workers -> Queues]
<1>1. /\ lockw' = lockw /\ old7' = old7 /\ data' = data /\ pc' = pc
      /\ failed' = failed /\ variant' = variant /\ atomic' = atomic
      /\ old' = [old EXCEPT ![w][l] = data[l]] /\ l \in wr[w].read /\ Acquired(w)
      /\ wr' = [wr EXCEPT ![w].read = wr[w].read \ {l}]
  BY DEF NicRead, remote, main
<1>2. wr[w].read \ {l} \in SUBSET Lines
  BY DEF TypeOK, Queues
<1>3. wr' \in [Workers -> Queues]
  BY <1>1, <1>2, QueueTypes DEF TypeOK
<1>4. wr \in [Workers -> Queues]
  BY DEF TypeOK
<1>5. /\ wr'[w].acquire = wr[w].acquire /\ wr'[w].write = wr[w].write
      /\ wr'[w].unlock = wr[w].unlock /\ wr'[w].read = wr[w].read \ {l}
      /\ wr'[w].release = wr[w].release
  BY <1>1, <1>4 DEF Queues
<1>6. Others(w)
  BY <1>1, <1>4 DEF Others
<1>7. QED
  BY <1>1, <1>3, <1>5, <1>6

\* ... come and go without the lock word.
LEMMA PayloadStep ==
    ASSUME IInv, NEW w \in Workers, NEW l \in Lines, NicWrite(w, l) \/ NicRead(w, l)
    PROVE  TypeOK' /\ QueuesOK' /\ AtomicOK' /\ Quiet(w)
<1> USE DEF IInv
<1>1. CASE NicWrite(w, l)
  <2>1. TypeOK'
    <3>1. data' \in [Lines -> Nat]
      BY <1>1, NicWriteEffect DEF TypeOK
    <3>2. QED
      BY <1>1, <3>1, NicWriteEffect DEF TypeOK, NicWrite, local, main
  <2>2. wr[w].write # {}
    BY <1>1, NicWriteEffect
  <2>3. QueueOK(w)'
    BY <1>1, <2>2, NicWriteEffect DEF QueuesOK, QueueOK, Released, Written
  <2>4. Quiet(w)
    BY <1>1, NicWriteEffect DEF Quiet, Registered, HoldsShared, HoldsExclusive
  <2>5. atomic # w
    BY <2>2 DEF AtomicOK, AtomicOf, Written
  <2>6. QED
    BY <1>1, <2>1, <2>3, <2>4, <2>5, NicWriteEffect, QueuesStep, AtomicKept
<1>2. CASE NicRead(w, l)
  <2>1. TypeOK'
    <3>1. old' = [old EXCEPT ![w][l] = data[l]]
      BY <1>2, NicReadEffect
    <3>2. old' \in [Workers -> [Lines -> Nat]]
      BY <3>1 DEF TypeOK
    <3>3. QED
      BY <1>2, <3>2, NicReadEffect DEF TypeOK, NicRead, remote, main
  <2>2. QueueOK(w)'
    BY <1>2, NicReadEffect DEF QueuesOK, QueueOK, Released, Written
  <2>3. Quiet(w)
    BY <1>2, NicReadEffect DEF Quiet, Registered, HoldsShared, HoldsExclusive
  <2>4. atomic # w
    BY <1>2, NicReadEffect DEF AtomicOK, AtomicOf, Acquired, Released
  <2>5. QED
    BY <1>2, <2>1, <2>2, <2>3, <2>4, NicReadEffect, QueuesStep, AtomicKept
<1>3. QED
  BY <1>1, <1>2

\* A queue pair that fails was releasing, or has failed before.
LEMMA FailStep ==
    ASSUME IInv, NEW w \in Workers, NicFail(w)
    PROVE  TypeOK' /\ QueuesOK' /\ AtomicOK' /\ Quiet(w)
<1> USE DEF IInv
<1>1. /\ lockw' = lockw /\ data' = data /\ old7' = old7 /\ old' = old /\ pc' = pc
      /\ variant' = variant /\ updates' = updates /\ g_updates' = g_updates
      /\ keep_running' = keep_running
      /\ atomic' = atomic
      /\ failed' = failed \union {w} /\ wr' = [wr EXCEPT ![w] = EmptyQueue]
      /\ \/ wr[w].release /\ Written(w) /\ ~Aligned
         \/ w \in failed
  BY DEF NicFail, remote, local, main
<1>2. TypeOK'
  BY <1>1, QueueTypes DEF TypeOK
<1>3. Others(w) /\ wr'[w] = EmptyQueue /\ w \in failed'
  BY <1>1 DEF Others, TypeOK
<1>4. /\ ~wr'[w].release /\ ~wr'[w].unlock /\ wr'[w].write = {} /\ wr'[w].acquire = "none"
      /\ wr'[w].read = {}
  BY <1>3 DEF EmptyQueue
<1>5. /\ Written(w) /\ Registered(w) /\ ~HoldsExclusive(w)
      /\ pc[w] \in {"idle", "s_lock", "x_lock", "s_release", "done", "aborted"}
  <2>1. QueueOK(w) /\ pc[w] \in Pcs
    BY DEF QueuesOK, TypeOK, Pcs
  <2>2. CASE w \in failed
    BY <2>1, <2>2 DEF QueueOK, Written, Registered, HoldsExclusive
  <2>3. CASE wr[w].release /\ Written(w)
    <3>1. pc[w] \notin {"s_read", "s_cs", "x_read", "x_cs", "x_write"} /\ ~wr[w].unlock
      BY <2>1, <2>3 DEF QueueOK, Released, Written
    <3>2. pc[w] = "x_lock" => wr[w].acquire # "none" \/ w \in failed
      BY <2>1, <2>3 DEF QueueOK, Released
    <3>3. QED
      BY <2>1, <2>3, <3>1, <3>2 DEF Pcs, Registered, HoldsExclusive
  <2>4. QED
    BY <1>1, <2>2, <2>3
<1>6. QueueOK(w)'
  BY <1>1, <1>3, <1>4, <1>5 DEF QueueOK, Released, Written
<1>7. Quiet(w)
  BY <1>1, <1>3, <1>4, <1>5 DEF Quiet, Registered, HoldsExclusive
<1>8. atomic # w
  BY <1>1 DEF AtomicOK, AtomicOf
<1>9. QED
  BY <1>1, <1>2, <1>3, <1>6, <1>7, <1>8, QueuesStep, AtomicKept

\* Fetching the word changes nothing but the buffer of a worker that waits.
LEMMA FetchStep ==
    ASSUME IInv, NEW w \in Workers, NicFetch(w)
    PROVE  /\ TypeOK' /\ QueuesOK' /\ AtomicOK' /\ Quiet(w)
           /\ data' = data /\ old' = old /\ wr' = wr /\ pc' = pc /\ variant' = variant
           /\ failed' = failed
           /\ ~wr[w].unlock /\ (pc[w] \in {"s_lock", "x_lock"} => wr[w].acquire # "none")
<1> USE DEF IInv
<1>1. /\ lockw' = lockw /\ data' = data /\ old' = old /\ wr' = wr /\ pc' = pc
      /\ failed' = failed /\ variant' = variant /\ updates' = updates
      /\ g_updates' = g_updates /\ keep_running' = keep_running
      /\ old7' = [old7 EXCEPT ![w] = lockw] /\ atomic' = w
      /\ \/ wr[w].release /\ Written(w) /\ Aligned
         \/ wr[w].acquire # "none" /\ Released(w)
  BY DEF NicFetch, main
<1>2. old7' \in [Workers -> Words] /\ old7'[w] = lockw /\ Others(w)
  BY <1>1 DEF TypeOK, Others
<1>3. TypeOK'
  BY <1>1, <1>2 DEF TypeOK
<1>4. QueueOK(w)
  BY DEF QueuesOK
<1>5. Written(w) /\ ~wr[w].unlock /\ w \notin failed
  BY <1>1, <1>4 DEF QueueOK, Released, Written
<1>6. pc[w] \in {"s_lock", "x_lock"} => wr[w].acquire # "none"
  BY <1>1, <1>4, <1>5 DEF QueueOK, Released
<1>7. QueueOK(w)'
  BY <1>1, <1>4, <1>5 DEF QueueOK, Released, Written
<1>8. Quiet(w)
  BY <1>1, <1>2, <1>5, <1>6 DEF Quiet, Registered, HoldsShared, HoldsExclusive
<1>9. AtomicOK'
  BY <1>1, <1>2, <1>5 DEF AtomicOK, AtomicOf, Written, Aligned, ReleaseOffset, Released
<1>10. QED
  BY <1>1, <1>2, <1>3, <1>5, <1>6, <1>7, <1>8, <1>9, QueuesStep

-----------------------------------------------------------------------------
(* What the lock word goes through.                                        *)

\* What the four requests that change it do besides.
Changes(w) == NicUnlock(w) \/ NicRelease(w) \/ NicFetchAdd(w) \/ NicCompareSwap(w)

\* Their effect: everything else keeps what it has.
LEMMA ChangesEffect ==
    ASSUME IInv, NEW w \in Workers, Changes(w)
    PROVE  /\ data' = data /\ old' = old /\ pc' = pc /\ failed' = failed /\ variant' = variant
           /\ updates' = updates /\ g_updates' = g_updates /\ keep_running' = keep_running
           /\ old7' = old7
           /\ Others(w)
           /\ wr'[w].write = wr[w].write /\ wr[w].write = {} /\ wr'[w].read = wr[w].read
           /\ wr' \in [Workers -> Queues]
           /\ NicUnlock(w) \/ (atomic = w /\ atomic' = NoOwner)
           /\ \/ NicUnlock(w) /\ atomic' = atomic /\ ~wr'[w].unlock
                 /\ wr'[w].acquire = wr[w].acquire /\ wr'[w].release = wr[w].release
              \/ NicRelease(w) /\ ~wr[w].unlock /\ ~wr'[w].unlock /\ ~wr'[w].release
                 /\ wr'[w].acquire = wr[w].acquire
              \/ (NicFetchAdd(w) \/ NicCompareSwap(w)) /\ Released(w) /\ ~wr'[w].unlock
                 /\ ~wr'[w].release /\ wr'[w].acquire = "none"
<1>1. /\ data' = data /\ old' = old /\ pc' = pc /\ failed' = failed /\ variant' = variant
      /\ updates' = updates /\ g_updates' = g_updates /\ keep_running' = keep_running
      /\ old7' = old7
      /\ (NicUnlock(w) /\ atomic' = atomic) \/ (atomic = w /\ atomic' = NoOwner)
  BY DEF Changes, NicUnlock, NicRelease, NicFetchAdd, NicCompareSwap, Store, local, main
<1>2. wr[w].write = {} /\ (~NicUnlock(w) => Written(w)) /\ wr \in [Workers -> Queues]
  BY <1>1 DEF NicUnlock, IInv, AtomicOK, AtomicOf, Written, TypeOK
<1>3. CASE NicUnlock(w)
  <2>1. wr' = [wr EXCEPT ![w].unlock = FALSE] /\ atomic' = atomic
    BY <1>3 DEF NicUnlock
  <2>2. wr' \in [Workers -> Queues]
    BY <1>2, <2>1, QueueTypes
  <2>3. /\ wr'[w].write = wr[w].write /\ wr'[w].read = wr[w].read /\ ~wr'[w].unlock
        /\ wr'[w].acquire = wr[w].acquire /\ wr'[w].release = wr[w].release
        /\ \A v \in Workers \ {w} : wr'[v] = wr[v]
    BY <1>2, <2>1 DEF Queues
  <2>4. QED
    BY <1>1, <1>2, <1>3, <2>1, <2>2, <2>3 DEF Others
<1>4. CASE NicRelease(w)
  <2>1. wr' = [wr EXCEPT ![w].release = FALSE] /\ wr[w].release
    BY <1>4 DEF NicRelease
  <2>2. wr' \in [Workers -> Queues]
    BY <1>2, <2>1, QueueTypes
  <2>3. atomic = w /\ atomic' = NoOwner /\ ~wr[w].unlock
    BY <1>4 DEF NicRelease, Store, IInv, AtomicOK, AtomicOf, Written
  <2>4. /\ wr'[w].write = wr[w].write /\ wr'[w].read = wr[w].read /\ ~wr'[w].unlock
        /\ wr'[w].acquire = wr[w].acquire /\ ~wr'[w].release
        /\ \A v \in Workers \ {w} : wr'[v] = wr[v]
    BY <1>2, <2>1, <2>3 DEF Queues
  <2>5. QED
    BY <1>1, <1>2, <1>4, <2>2, <2>3, <2>4 DEF Others
<1>5. CASE NicFetchAdd(w) \/ NicCompareSwap(w)
  <2>1. wr' = [wr EXCEPT ![w].acquire = "none"] /\ Released(w) /\ atomic = w /\ atomic' = NoOwner
    BY <1>5 DEF NicFetchAdd, NicCompareSwap, Store
  <2>2. wr' \in [Workers -> Queues]
    BY <1>2, <2>1, QueueTypes
  <2>3. ~wr[w].unlock /\ ~wr[w].release
    BY <2>1 DEF Released, Written
  <2>4. /\ wr'[w].write = wr[w].write /\ wr'[w].read = wr[w].read /\ ~wr'[w].unlock
        /\ wr'[w].acquire = "none" /\ ~wr'[w].release
        /\ \A v \in Workers \ {w} : wr'[v] = wr[v]
    BY <1>2, <2>1, <2>3 DEF Queues
  <2>5. QED
    BY <1>1, <1>2, <1>5, <2>1, <2>2, <2>4 DEF Others
<1>6. QED
  BY <1>3, <1>4, <1>5 DEF Changes

\* They keep types and queues, if the lock word stays a word.
LEMMA ChangesTypes ==
    ASSUME IInv, NEW w \in Workers, Changes(w)
    PROVE  QueuesOK' /\ (lockw' \in Words => TypeOK')
<1>1. QueueOK(w)'
  <2>1. QueueOK(w)
    BY DEF IInv, QueuesOK
  <2>2. TypeOK
    BY DEF IInv
  <2>3. CASE NicUnlock(w)
    BY <2>1, <2>2, <2>3, ChangesEffect DEF Changes, QueueOK, Released, Written, NicUnlock,
       NicRelease, NicFetchAdd, NicCompareSwap
  <2>4. CASE NicRelease(w)
    <3>1. ~wr[w].unlock /\ wr[w].release
      BY <2>4 DEF NicRelease, Store, IInv, AtomicOK, AtomicOf, Written
    <3>2. QED
      BY <2>1, <2>2, <2>4, <3>1, ChangesEffect DEF Changes, QueueOK, Released, Written, NicUnlock
  <2>5. CASE NicFetchAdd(w) \/ NicCompareSwap(w)
    <3>1. Released(w) /\ wr[w].acquire # "none"
      BY <2>5 DEF NicFetchAdd, NicCompareSwap
    <3>2. pc[w] \in {"s_lock", "x_lock"} /\ w \notin failed
      BY <2>5, <3>1, <2>1 DEF QueueOK, NicFetchAdd, NicCompareSwap, Released
    <3>3. ~NicUnlock(w) /\ ~NicRelease(w)
      BY <3>1 DEF NicUnlock, NicRelease, Released, Written
    <3>4. /\ pc' = pc /\ failed' = failed /\ wr'[w].write = {} /\ wr'[w].acquire = "none"
          /\ ~wr'[w].unlock /\ ~wr'[w].release
      BY <2>2, <2>5, <3>3, ChangesEffect DEF Changes
    <3>5. QED
      BY <3>2, <3>4 DEF QueueOK, Released, Written
  <2>6. QED
    BY <2>3, <2>4, <2>5 DEF Changes
<1>2. QueuesOK'
  BY <1>1, ChangesEffect, QueuesStep DEF IInv
<1>3. atomic' \in Workers \union {NoOwner}
  <2>1. atomic' = atomic \/ atomic' = NoOwner
    BY DEF Changes, NicUnlock, NicRelease, NicFetchAdd, NicCompareSwap, Store
  <2>2. QED
    BY <2>1 DEF IInv, TypeOK
<1>4. /\ data' = data /\ old' = old /\ pc' = pc /\ failed' = failed /\ variant' = variant
      /\ updates' = updates /\ g_updates' = g_updates /\ keep_running' = keep_running
      /\ old7' = old7 /\ wr' \in [Workers -> Queues]
  BY ChangesEffect
<1>5. ASSUME lockw' \in Words PROVE TypeOK'
  BY <1>3, <1>4, <1>5 DEF IInv, TypeOK
<1>6. QED
  BY <1>2, <1>5

\* A registration: it counts if there was no owner, and leaves no trace in an
\* even word if there was.
LEMMA FetchAddStep ==
    ASSUME IInv, NEW w \in Workers, NicFetchAdd(w)
    PROVE  IInv'
<1> USE WordFacts
<1>1. /\ Others(w) /\ pc' = pc /\ failed' = failed /\ old7' = old7 /\ AtomicOK'
      /\ wr'[w].acquire = "none" /\ ~wr'[w].unlock /\ ~wr'[w].release
      /\ QueuesOK' /\ (lockw' \in Words => TypeOK')
  <2>1. Changes(w)
    BY DEF Changes
  <2>2. ~wr[w].unlock /\ ~wr[w].release
    BY DEF NicFetchAdd, Released, Written
  <2>3. ~NicUnlock(w) /\ ~NicRelease(w)
    BY <2>2 DEF NicUnlock, NicRelease
  <2>4. /\ Others(w) /\ pc' = pc /\ failed' = failed /\ old7' = old7 /\ atomic' = NoOwner
        /\ wr'[w].acquire = "none" /\ ~wr'[w].unlock /\ ~wr'[w].release
    BY <2>1, <2>2, <2>3, ChangesEffect
  <2>5. QED
    BY <2>1, <2>4, ChangesTypes, AtomicDone
<1>2. /\ pc[w] = "s_lock" /\ wr[w].acquire = "shared" /\ lockw' = AddWords(old7[w], 2)
      /\ w \notin failed /\ ~wr[w].unlock /\ ~wr[w].release /\ old7[w] \in Words
  BY DEF NicFetchAdd, Store, IInv, TypeOK, QueuesOK, QueueOK, Released, Written
<1>3. old7[w] = lockw \/ (Odd(old7[w]) /\ lockw = 0)
  BY <1>2 DEF NicFetchAdd, Store, IInv, AtomicOK, AtomicOf
<1>4. lockw' \in Words /\ (Odd(lockw') <=> Odd(old7[w]))
  BY <1>2, OddFacts
<1>5. ~HoldsExclusive(w) /\ ~HoldsExclusive(w)' /\ ~Registered(w)
  BY <1>1, <1>2 DEF HoldsExclusive, Registered, HoldsShared
<1>6. \A v \in Workers \ {w} : /\ HoldsExclusive(v)' <=> HoldsExclusive(v)
                               /\ Registered(v)' <=> Registered(v)
  BY <1>1 DEF Others, HoldsExclusive, Registered, HoldsShared
<1>7. Exclusion' /\ (Owned' <=> Owned)
  BY <1>5, <1>6 DEF IInv, Exclusion, Owned
<1>8. Registered(w)' <=> ~Odd(old7[w])
  BY <1>1, <1>2 DEF Registered, HoldsShared
<1>9. LockWordExact'
  <2>1. CASE Odd(old7[w])
    <3>1. Readers = {}
      <4>1. ~Odd(0)
        BY DEF Odd
      <4>2. QED
        BY <1>3, <2>1, <4>1, ReadersFinite DEF IInv, LockWordExact
    <3>2. Readers' = {}
      BY <1>6, <1>8, <2>1, <3>1 DEF Readers
    <3>3. QED
      BY <1>4, <2>1, <3>2 DEF LockWordExact
  <2>2. CASE ~Odd(old7[w])
    <3>1. ~Odd(lockw) /\ old7[w] = lockw /\ ~Owned /\ lockw = 2 * Cardinality(Readers)
      BY <1>3, <2>2 DEF IInv, LockWordExact
    <3>2. Readers' = Readers \union {w} /\ w \notin Readers
      BY <1>5, <1>6, <1>8, <2>2 DEF Readers
    <3>3. Cardinality(Readers') = Cardinality(Readers) + 1
      BY <3>2, ReadersFinite, FS_AddElement
    <3>4. Cardinality(Readers') <= Cardinality(Workers)
      <4>1. Readers' \in SUBSET Workers
        BY <3>2 DEF Readers
      <4>2. QED
        BY <4>1, WorkersAssumption, FS_Subset
    <3>5. lockw' = lockw + 2
      <4>1. /\ Cardinality(Readers) \in Nat
            /\ Cardinality(Readers) + 1 <= Cardinality(Workers)
        BY <3>3, <3>4, ReadersFinite
      <4>2. lockw + 2 < 2 * HalfWord
        BY <3>1, <4>1
      <4>3. QED
        BY <1>2, <3>1, <4>2 DEF AddWords
    <3>6. lockw' = 2 * Cardinality(Readers')
      BY <3>1, <3>3, <3>5, ReadersFinite
    <3>7. QED
      BY <1>4, <1>7, <2>2, <3>1, <3>6 DEF LockWordExact
  <2>3. QED
    BY <2>1, <2>2
<1>10. QED
  BY <1>1, <1>4, <1>7, <1>9 DEF IInv

\* A swap succeeds where there is neither owner nor reader.
LEMMA CompareSwapStep ==
    ASSUME IInv, NEW w \in Workers, NicCompareSwap(w)
    PROVE  IInv'
<1> USE WordFacts
<1>1. /\ Others(w) /\ pc' = pc /\ failed' = failed /\ old7' = old7 /\ AtomicOK'
      /\ wr'[w].acquire = "none" /\ ~wr'[w].unlock /\ ~wr'[w].release
      /\ QueuesOK' /\ (lockw' \in Words => TypeOK')
  <2>1. Changes(w)
    BY DEF Changes
  <2>2. ~wr[w].unlock /\ ~wr[w].release
    BY DEF NicCompareSwap, Released, Written
  <2>3. ~NicUnlock(w) /\ ~NicRelease(w)
    BY <2>2 DEF NicUnlock, NicRelease
  <2>4. /\ Others(w) /\ pc' = pc /\ failed' = failed /\ old7' = old7 /\ atomic' = NoOwner
        /\ wr'[w].acquire = "none" /\ ~wr'[w].unlock /\ ~wr'[w].release
    BY <2>1, <2>2, <2>3, ChangesEffect
  <2>5. QED
    BY <2>1, <2>4, ChangesTypes, AtomicDone
<1>2. /\ pc[w] = "x_lock" /\ wr[w].acquire = "exclusive"
      /\ lockw' = (IF old7[w] = 0 THEN 1 ELSE lockw)
      /\ w \notin failed /\ ~wr[w].unlock /\ ~wr[w].release /\ lockw \in Words
  BY DEF NicCompareSwap, Store, IInv, TypeOK, QueuesOK, QueueOK, Released, Written
<1>3. ~HoldsExclusive(w) /\ ~Registered(w) /\ ~Registered(w)'
  BY <1>1, <1>2 DEF HoldsExclusive, Registered, HoldsShared
<1>4. \A v \in Workers \ {w} : /\ HoldsExclusive(v)' <=> HoldsExclusive(v)
                               /\ Registered(v)' <=> Registered(v)
  BY <1>1 DEF Others, HoldsExclusive, Registered, HoldsShared
<1>5. Readers' = Readers
  BY <1>3, <1>4 DEF Readers
<1>6. HoldsExclusive(w)' <=> old7[w] = 0
  BY <1>1, <1>2 DEF HoldsExclusive
<1>7. Exclusion' /\ LockWordExact' /\ lockw' \in Words
  <2>1. CASE old7[w] = 0
    <3>1. ~Owned /\ Readers = {}
      <4>1. ~Odd(0)
        BY DEF Odd
      <4>2. lockw = 0
        BY <1>2, <2>1, <4>1 DEF NicCompareSwap, Store, IInv, AtomicOK, AtomicOf
      <4>3. QED
        BY <4>1, <4>2, ReadersFinite DEF IInv, LockWordExact
    <3>2. Owned' /\ Exclusion'
      BY <1>4, <1>6, <2>1, <3>1 DEF Owned, Exclusion
    <3>3. Odd(lockw') /\ lockw' \in Words
      BY <1>2, <2>1, OddFacts
    <3>4. QED
      BY <1>5, <3>1, <3>2, <3>3 DEF LockWordExact
  <2>2. CASE old7[w] # 0
    <3>1. Exclusion' /\ (Owned' <=> Owned)
      BY <1>3, <1>4, <1>6, <2>2 DEF IInv, Exclusion, Owned
    <3>2. QED
      BY <1>2, <1>5, <2>2, <3>1 DEF IInv, LockWordExact
  <2>3. QED
    BY <2>1, <2>2
<1>8. QED
  BY <1>1, <1>7 DEF IInv

\* A registered reader's release: there is no owner.
LEMMA ReleaseStep ==
    ASSUME IInv, NEW w \in Workers, NicRelease(w)
    PROVE  IInv'
<1> USE WordFacts
<1>1. /\ Others(w) /\ pc' = pc /\ failed' = failed /\ wr[w].write = {}
      /\ wr'[w].acquire = wr[w].acquire /\ ~wr[w].unlock /\ ~wr'[w].unlock /\ ~wr'[w].release
      /\ QueuesOK' /\ AtomicOK' /\ (lockw' \in Words => TypeOK')
  <2>1. Changes(w)
    BY DEF Changes
  <2>2. ~NicUnlock(w) /\ wr[w].release
    BY DEF NicUnlock, NicRelease, Store, IInv, AtomicOK, AtomicOf, Written
  <2>3. ~NicFetchAdd(w) /\ ~NicCompareSwap(w)
    BY <2>2 DEF NicFetchAdd, NicCompareSwap, Released
  <2>4. QED
    BY <2>1, <2>2, <2>3, ChangesEffect, ChangesTypes, AtomicDone
<1>2. wr[w].release /\ lockw' = AddWords(lockw, 2 * HalfWord - 2)
  BY DEF NicRelease, Store, IInv, AtomicOK, AtomicOf
<1>3. /\ pc[w] \notin {"s_read", "s_cs", "x_read", "x_cs"} /\ w \notin failed
      /\ pc[w] \in {"s_lock", "x_lock"} => wr[w].acquire # "none"
  BY <1>2 DEF IInv, QueuesOK, QueueOK, Released
<1>4. /\ ~HoldsExclusive(w) /\ ~HoldsExclusive(w)'
      /\ Registered(w) /\ ~Registered(w)'
  BY <1>1, <1>2, <1>3 DEF HoldsExclusive, Registered, HoldsShared
<1>5. \A v \in Workers \ {w} : /\ HoldsExclusive(v)' <=> HoldsExclusive(v)
                               /\ Registered(v)' <=> Registered(v)
  BY <1>1 DEF Others, HoldsExclusive, Registered, HoldsShared
<1>6. Exclusion' /\ (Owned' <=> Owned)
  BY <1>4, <1>5 DEF IInv, Exclusion, Owned
<1>7. w \in Readers /\ Readers' = Readers \ {w}
  BY <1>4, <1>5 DEF Readers
<1>8. ~Odd(lockw) /\ ~Owned /\ lockw = 2 * Cardinality(Readers)
  BY <1>7 DEF IInv, LockWordExact
<1>9. /\ Cardinality(Readers') = Cardinality(Readers) - 1 /\ Cardinality(Readers) >= 1
      /\ Cardinality(Readers) \in Nat /\ Cardinality(Readers) < HalfWord
  <2>1. Cardinality(Readers \ {w}) = Cardinality(Readers) - 1
    BY <1>7, ReadersFinite, FS_RemoveElement
  <2>2. QED
    BY <1>7, <2>1, ReadersFinite
<1>10. lockw' = lockw - 2
  <2>1. lockw \in Nat /\ lockw >= 2
    BY <1>8, <1>9
  <2>2. QED
    BY <1>2, <2>1 DEF AddWords
<1>11. lockw' = 2 * Cardinality(Readers') /\ lockw' \in Words
  <2>1. lockw' = 2 * (Cardinality(Readers) - 1)
    BY <1>8, <1>9, <1>10
  <2>2. QED
    BY <1>9, <2>1
<1>12. ~Odd(lockw')
  <2>1. Cardinality(Readers') \in Nat
    BY <1>9
  <2>2. QED
    BY <1>11, <2>1, OddFacts
<1>13. QED
  BY <1>1, <1>6, <1>8, <1>11, <1>12 DEF IInv, LockWordExact

\* The end of a WRITE: the owner leaves, and nothing is left of the refused,
\* except of one whose atomic the device has in hand.
LEMMA UnlockStep ==
    ASSUME IInv, NEW w \in Workers, NicUnlock(w)
    PROVE  IInv'
<1> USE WordFacts
<1>1. wr[w].unlock /\ lockw' = old7[w] /\ old7[w] = 0 /\ ~wr[w].release /\ w \notin failed
  BY DEF NicUnlock, IInv, QueuesOK, QueueOK, Written
<1>2. /\ Others(w) /\ pc' = pc /\ failed' = failed /\ wr[w].write = {} /\ old7' = old7
      /\ atomic' = atomic /\ variant' = variant
      /\ wr'[w].acquire = wr[w].acquire /\ ~wr'[w].unlock /\ wr'[w].release = wr[w].release
      /\ QueuesOK' /\ (lockw' \in Words => TypeOK')
  <2>1. Changes(w)
    BY DEF Changes
  <2>2. ~NicRelease(w) /\ ~NicFetchAdd(w) /\ ~NicCompareSwap(w)
    BY <1>1 DEF NicRelease, NicFetchAdd, NicCompareSwap, Released, Written
  <2>3. QED
    BY <2>1, <2>2, ChangesEffect, ChangesTypes
<1>3. /\ pc[w] \notin {"s_read", "s_cs", "x_read", "x_cs"}
      /\ pc[w] \in {"s_lock", "x_lock"} => wr[w].acquire # "none"
  BY <1>1 DEF IInv, QueuesOK, QueueOK, Released, Written
<1>4. HoldsExclusive(w) /\ ~HoldsExclusive(w)' /\ ~Registered(w) /\ ~Registered(w)'
  BY <1>1, <1>2, <1>3 DEF HoldsExclusive, Registered, HoldsShared
<1>5. \A v \in Workers \ {w} : /\ HoldsExclusive(v)' <=> HoldsExclusive(v)
                               /\ Registered(v)' <=> Registered(v)
  BY <1>2 DEF Others, HoldsExclusive, Registered, HoldsShared
<1>6. Exclusion' /\ ~Owned' /\ Owned
  BY <1>4, <1>5 DEF IInv, Exclusion, Owned
<1>7. Odd(lockw) /\ Readers = {} /\ Readers' = Readers
  BY <1>4, <1>5, <1>6 DEF IInv, LockWordExact, Readers
<1>8. LockWordExact'
  <2>1. ~Odd(0)
    BY DEF Odd
  <2>2. QED
    BY <1>1, <1>6, <1>7, <2>1, ReadersFinite DEF LockWordExact
<1>9. AtomicOK'
  <2> SUFFICES ASSUME NEW v \in Workers, atomic = v PROVE AtomicOf(v)'
    BY <1>2 DEF AtomicOK
  <2>1. AtomicOf(v)
    BY DEF IInv, AtomicOK
  <2>2. v # w
    BY <1>1, <2>1 DEF AtomicOf, Written
  <2>3. ~wr[v].release
    BY <1>7 DEF Readers, Registered
  <2>4. Odd(old7[v])
    BY <1>7, <2>1, <2>3 DEF AtomicOf
  <2>5. QED
    BY <1>1, <1>2, <2>1, <2>2, <2>3, <2>4 DEF AtomicOf, Others, Written
<1>10. QED
  BY <1>1, <1>2, <1>6, <1>8, <1>9 DEF IInv

-----------------------------------------------------------------------------

\* Every step of the system keeps the invariant.
LEMMA NextInv == IInv /\ [Next]_vars => IInv'
<1> SUFFICES ASSUME IInv, [Next]_vars PROVE IInv'
  OBVIOUS
<1>1. ASSUME NEW w \in Workers, Nic(w) PROVE IInv'
  <2>1. ASSUME NEW l \in Lines, NicWrite(w, l) \/ NicRead(w, l) PROVE IInv'
    BY <2>1, PayloadStep, QuietStep DEF IInv
  <2>2. ASSUME NicFail(w) PROVE IInv'
    BY <2>2, FailStep, QuietStep DEF IInv
  <2>3. ASSUME NicFetch(w) PROVE IInv'
    BY <2>3, FetchStep, QuietStep DEF IInv
  <2>4. QED
    BY <1>1, <2>1, <2>2, <2>3, UnlockStep, ReleaseStep, FetchAddStep, CompareSwapStep DEF Nic
<1>2. ASSUME NEW w \in Workers, Thread(w) PROVE IInv'
  BY <1>2, ThreadStep, QuietStep DEF IInv, Thread
<1>3. ASSUME StopRunning \/ Terminated \/ UNCHANGED vars PROVE IInv'
  <2>1. /\ lockw' = lockw /\ data' = data /\ old7' = old7 /\ old' = old /\ wr' = wr
        /\ pc' = pc /\ failed' = failed /\ variant' = variant /\ updates' = updates
        /\ g_updates' = g_updates /\ keep_running' \in BOOLEAN /\ atomic' = atomic
    BY <1>3 DEF StopRunning, Terminated, vars, local, remote, IInv, TypeOK
  <2>2. TypeOK'
    BY <2>1 DEF IInv, TypeOK
  <2>3. PICK w \in Workers : TRUE
    BY WorkersAssumption
  <2>4. QueuesOK'
    BY <2>1 DEF IInv, QueuesOK, QueueOK, Released, Written
  <2>5. Quiet(w)
    BY <2>1 DEF Quiet, Others, Registered, HoldsShared, HoldsExclusive
  <2>6. AtomicOK'
    BY <2>1 DEF IInv, AtomicOK, AtomicOf, Written, Aligned, ReleaseOffset
  <2>7. QED
    BY <2>2, <2>4, <2>5, <2>6, QuietStep DEF IInv
<1>4. QED
  BY <1>1, <1>2, <1>3 DEF Next

\* IInv is an invariant of the lock of locking_benchmark_tail.cpp.
LEMMA Invariance == Spec => []IInv
BY InitInv, NextInv, PTL DEF Spec

\* The state of TailLock stays in its types: however many refused readers add
\* to the lock word, it stays a word.
THEOREM TailTypeCorrect == Spec => []TypeOK
BY Invariance, PTL DEF IInv

\* An even lock word means that there is no owner, and is twice the number of
\* readers that were let in; an odd one means that there is no reader.  Refused
\* readers never deregister, the word may wrap around under an owner, and what
\* the device has fetched for one of them may be stored after the WRITE.
THEOREM TailWordExact == Spec => []LockWordExact
BY Invariance, PTL DEF IInv
-----------------------------------------------------------------------------
(* What is read, and the abstract lock.                                    *)

\* w holds the lock, and its buffer is being filled or has been.
Reading(w) ==
    \/ pc[w] \in {"s_read", "s_cs", "x_read", "x_cs"}
    \/ /\ variant.speculative_read
       /\ wr[w].acquire = "none"
       /\ w \notin failed
       /\ \/ pc[w] = "s_lock" /\ ~Odd(old7[w])
          \/ pc[w] = "x_lock" /\ old7[w] = 0

\* w's WRITE is posted, and its end has not landed yet.
Writing(w) == wr[w].unlock

DataOf(w) ==
    /\ wr[w].write # {} => Writing(w)
    /\ Writing(w) => /\ \A l, m \in Lines : old[w][l] = old[w][m]
                     /\ \A l \in Lines \ wr[w].write : data[l] = old[w][l]
    /\ pc[w] \notin {"s_lock", "s_read", "x_lock", "x_read"} => wr[w].read = {}
    /\ pc[w] \in {"s_lock", "x_lock"} =>
          /\ wr[w].read \subseteq SpeculativeRead
          /\ wr[w].acquire # "none" => wr[w].read = SpeculativeRead
    /\ Reading(w) => \A l \in Lines \ wr[w].read : old[w][l] = data[l]

\* The payload is whole unless a WRITE is under way.
Whole == (\A w \in Workers : wr[w].write = {}) => \A l, m \in Lines : data[l] = data[m]

DataOK == Whole /\ \A w \in Workers : DataOf(w)

-----------------------------------------------------------------------------
(* The abstract lock, read off the state of TailLock.                        *)

First    == CHOOSE l \in Lines : TRUE
AOwner   == IF Owned THEN CHOOSE w \in Workers : HoldsExclusive(w) ELSE NoOwner
ASharers == {w \in Workers : HoldsShared(w)}
ADirty   == \E w \in Workers : Writing(w)
AValue   == IF ADirty THEN old[CHOOSE w \in Workers : Writing(w)][First] ELSE data[First]

\* The actions of the abstract lock are about these.
LEMMA AbstractActions ==
    /\ Abstract!Init <=> AOwner = NoOwner /\ ASharers = {} /\ ADirty = FALSE /\ AValue = 0
    /\ AOwner' = AOwner /\ ASharers' = ASharers /\ (ADirty' <=> ADirty) /\ AValue' = AValue
          => UNCHANGED Abstract!vars
    /\ \A w \in Workers :
        /\ AOwner = NoOwner /\ ASharers = {} /\ AOwner' = w /\ ASharers' = ASharers
           /\ (ADirty' <=> ADirty) /\ AValue' = AValue
              => Abstract!AcquireExclusive(w)
        /\ AOwner = w /\ ~ADirty /\ ADirty' /\ AValue' = AValue + 1 /\ AOwner' = AOwner
           /\ ASharers' = ASharers
              => Abstract!Update(w)
        /\ AOwner = w /\ ADirty /\ AOwner' = NoOwner /\ ~ADirty' /\ ASharers' = ASharers
           /\ AValue' = AValue
              => Abstract!ReleaseExclusive(w)
        /\ AOwner = NoOwner /\ w \notin ASharers /\ ASharers' = ASharers \union {w}
           /\ AOwner' = AOwner /\ (ADirty' <=> ADirty) /\ AValue' = AValue
              => Abstract!AcquireShared(w)
        /\ w \in ASharers /\ ASharers' = ASharers \ {w}
           /\ AOwner' = AOwner /\ (ADirty' <=> ADirty) /\ AValue' = AValue
              => Abstract!ReleaseShared(w)
BY Zenon DEF Abstract!Init, Abstract!vars, Abstract!AcquireExclusive, Abstract!Update,
       Abstract!ReleaseExclusive, Abstract!AcquireShared, Abstract!ReleaseShared,
       AOwner, ASharers, ADirty, AValue, First, Writing

-----------------------------------------------------------------------------
(* Who is alone with what.                                                 *)

\* A writer is alone: nobody else owns the tuple, no reader is let in.
Alone == \A v, w \in Workers : HoldsExclusive(v) => ~HoldsShared(w)

\* ... which is what the lock word says.
LEMMA OwnersAlone == IInv => Alone
BY DEF IInv, LockWordExact, Owned, Readers, Registered, Alone

\* ... in the next state, too.
LEMMA OwnersAloneThen == IInv' => Alone'
BY OwnersAlone, PTL

\* A worker that reads holds the lock and has nothing of its own in flight.
LEMMA ReadingHolds ==
    ASSUME IInv, NEW w \in Workers, Reading(w)
    PROVE  /\ Released(w) /\ wr[w].acquire = "none" /\ ~Writing(w)
           /\ HoldsShared(w) \/ HoldsExclusive(w)
<1>1. QueueOK(w) /\ wr[w].acquire \in {"none", "shared", "exclusive"}
  BY DEF IInv, QueuesOK, TypeOK, Queues
<1>2. Released(w) /\ wr[w].acquire = "none"
  BY <1>1 DEF Reading, QueueOK
<1>3. ~Writing(w)
  BY <1>2 DEF Released, Written, Writing
<1>4. HoldsShared(w) \/ HoldsExclusive(w)
  BY DEF Reading, HoldsShared, HoldsExclusive
<1>5. QED
  BY <1>2, <1>3, <1>4

\* Nobody writes beside it.
LEMMA ReadingAlone ==
    ASSUME IInv, DataOK, NEW w \in Workers, Reading(w)
    PROVE  \A v \in Workers : ~Writing(v) /\ wr[v].write = {}
<1> SUFFICES ASSUME NEW v \in Workers PROVE ~Writing(v) /\ wr[v].write = {}
  OBVIOUS
<1>1. Writing(v) => HoldsExclusive(v)
  BY DEF Writing, HoldsExclusive
<1>2. ~Writing(v)
  BY <1>1, ReadingHolds, OwnersAlone DEF IInv, Exclusion, Alone
<1>3. QED
  BY <1>2 DEF DataOK, DataOf

\* ... nor does anybody write beside a writer.
LEMMA WritingAlone ==
    ASSUME IInv, DataOK, NEW w \in Workers, Writing(w)
    PROVE  \A v \in Workers \ {w} : ~Writing(v) /\ wr[v].write = {} /\ ~Reading(v)
<1> SUFFICES ASSUME NEW v \in Workers \ {w}
             PROVE  ~Writing(v) /\ wr[v].write = {} /\ ~Reading(v)
  OBVIOUS
<1>1. ~Writing(v)
  BY DEF Writing, HoldsExclusive, IInv, Exclusion
<1>2. QED
  BY <1>1, ReadingAlone DEF DataOK, DataOf

-----------------------------------------------------------------------------
(* What the payload and the buffers hold.                                  *)

\* The zeroed payload and buffers.
LEMMA InitData == Init => DataOK
BY DEF Init, DataOK, Whole, DataOf, Reading, Writing, EmptyQueue, SpeculativeRead

\* A step that leaves the payload alone is about the buffer of one worker.
LEMMA ThreadData ==
    ASSUME DataOK, NEW w \in Workers, Others(w), data' = data, variant' = variant,
           \A v \in Workers \ {w} : old'[v] = old[v],
           wr'[w].write = {} => wr[w].write = {},
           DataOf(w)'
    PROVE  DataOK'
<1>1. Whole'
  BY DEF DataOK, Whole, Others
<1>2. \A v \in Workers \ {w} : DataOf(v)'
  <2> SUFFICES ASSUME NEW v \in Workers \ {w} PROVE DataOf(v)'
    OBVIOUS
  <2>1. DataOf(v) /\ (Writing(v)' <=> Writing(v)) /\ (Reading(v)' <=> Reading(v))
    BY DEF DataOK, Writing, Reading, Others
  <2>2. QED
    BY <2>1 DEF DataOf, SpeculativeRead, Others
<1>3. QED
  BY <1>1, <1>2 DEF DataOK

\* The WRITE of a line.
LEMMA WriteData ==
    ASSUME IInv, DataOK, NEW w \in Workers, NEW l \in Lines, NicWrite(w, l)
    PROVE  DataOK' /\ Writing(w) /\ Writing(w)'
<1>1. /\ data' = [data EXCEPT ![l] = old[w][l]]
      /\ pc' = pc /\ old7' = old7 /\ old' = old /\ variant' = variant /\ failed' = failed
      /\ l \in wr[w].write /\ Others(w) /\ wr'[w].write = wr[w].write \ {l}
      /\ wr'[w].acquire = wr[w].acquire /\ wr'[w].read = wr[w].read
      /\ wr'[w].unlock = wr[w].unlock
  BY NicWriteEffect DEF IInv
<1>2. Writing(w) /\ Writing(w)'
  BY <1>1 DEF DataOK, DataOf, Writing
<1>3. ~Reading(w)
  BY <1>2, ReadingHolds
<1>4. ~Reading(w)'
  BY <1>1, <1>3 DEF Reading
<1>5. data'[l] = old[w][l] /\ \A m \in Lines \ {l} : data'[m] = data[m]
  BY <1>1 DEF IInv, TypeOK
<1>6. DataOf(w)'
  BY <1>1, <1>2, <1>4, <1>5 DEF DataOK, DataOf, SpeculativeRead
<1>7. \A v \in Workers \ {w} : DataOf(v)'
  <2> SUFFICES ASSUME NEW v \in Workers \ {w} PROVE DataOf(v)'
    OBVIOUS
  <2>1. ~Writing(v) /\ wr[v].write = {} /\ ~Reading(v)
    BY <1>2, WritingAlone
  <2>2. ~Writing(v)' /\ wr'[v].write = {} /\ ~Reading(v)'
    BY <1>1, <2>1 DEF Writing, Reading, Others
  <2>3. QED
    BY <1>1, <2>2 DEF DataOK, DataOf, Others, SpeculativeRead
<1>8. Whole'
  BY <1>1, <1>2, <1>6 DEF Whole, DataOf
<1>9. QED
  BY <1>2, <1>6, <1>7, <1>8 DEF DataOK

\* The READ of a line.
LEMMA ReadData ==
    ASSUME IInv, DataOK, NEW w \in Workers, NEW l \in Lines, NicRead(w, l)
    PROVE  DataOK' /\ ~Writing(w) /\ ~Writing(w)' /\ \A v \in Workers \ {w} : old'[v] = old[v]
<1>1. /\ old' = [old EXCEPT ![w][l] = data[l]]
      /\ pc' = pc /\ old7' = old7 /\ data' = data /\ variant' = variant /\ failed' = failed
      /\ l \in wr[w].read /\ Acquired(w) /\ Others(w) /\ wr'[w].write = wr[w].write
      /\ wr'[w].acquire = wr[w].acquire /\ wr'[w].read = wr[w].read \ {l}
      /\ wr'[w].unlock = wr[w].unlock
  BY NicReadEffect DEF IInv
<1>2. /\ old'[w][l] = data[l] /\ \A m \in Lines \ {l} : old'[w][m] = old[w][m]
      /\ \A v \in Workers \ {w} : old'[v] = old[v]
  BY <1>1 DEF IInv, TypeOK
<1>3. ~Writing(w) /\ ~Writing(w)' /\ wr[w].write = {} /\ wr[w].acquire = "none"
  BY <1>1 DEF Writing, Acquired, Released, Written
<1>4. Reading(w)' <=> Reading(w)
  BY <1>1 DEF Reading
<1>5. DataOf(w)'
  BY <1>1, <1>2, <1>3, <1>4 DEF DataOK, DataOf, SpeculativeRead
<1>6. DataOK'
  BY <1>1, <1>2, <1>3, <1>5, ThreadData
<1>7. QED
  BY <1>2, <1>3, <1>6

\* A request that changes the lock word.
LEMMA ChangesData ==
    ASSUME IInv, DataOK, NEW w \in Workers, Changes(w)
    PROVE  DataOK' /\ ~Writing(w)'
<1>1. /\ data' = data /\ old' = old /\ pc' = pc /\ failed' = failed /\ variant' = variant
      /\ Others(w) /\ wr'[w].write = {} /\ wr[w].write = {} /\ wr'[w].read = wr[w].read
      /\ ~wr'[w].unlock /\ wr'[w].acquire \in {"none", wr[w].acquire}
  BY ChangesEffect DEF IInv
<1>2. ~Writing(w)'
  BY <1>1 DEF Writing
<1>3. QueueOK(w) /\ DataOf(w)
  BY DEF IInv, QueuesOK, DataOK
<1>4. \A l \in Lines \ wr'[w].read : Reading(w)' => old'[w][l] = data'[l]
  <2>1. CASE NicUnlock(w) \/ NicRelease(w)
    <3>1. ~Released(w) /\ wr'[w].acquire = wr[w].acquire
      BY <2>1, ChangesEffect DEF NicUnlock, NicRelease, Released, Written, NicFetchAdd,
         NicCompareSwap, IInv
    <3>2. ~Reading(w)'
      BY <1>1, <1>3, <3>1 DEF Reading, QueueOK
    <3>3. QED
      BY <3>2
  <2>2. CASE NicFetchAdd(w) \/ NicCompareSwap(w)
    <3>1. pc[w] \in {"s_lock", "x_lock"} /\ wr[w].acquire # "none"
      BY <1>3, <2>2 DEF NicFetchAdd, NicCompareSwap, QueueOK
    <3>2. wr'[w].read = SpeculativeRead
      BY <1>1, <1>3, <3>1 DEF DataOf
    <3>3. Reading(w)' => wr'[w].read = Lines
      BY <1>1, <3>1, <3>2 DEF Reading, SpeculativeRead
    <3>4. QED
      BY <3>3
  <2>3. QED
    BY <2>1, <2>2 DEF Changes
<1>5. DataOf(w)'
  BY <1>1, <1>2, <1>3, <1>4 DEF DataOf, SpeculativeRead
<1>6. QED
  BY <1>1, <1>2, <1>5, ThreadData

\* The device fetches the lock word.
LEMMA FetchData ==
    ASSUME IInv, DataOK, NEW w \in Workers, NicFetch(w)
    PROVE  DataOK'
<1>1. /\ Others(w) /\ data' = data /\ old' = old /\ wr' = wr /\ pc' = pc
      /\ variant' = variant /\ failed' = failed
      /\ pc[w] \in {"s_lock", "x_lock"} => wr[w].acquire # "none"
  BY FetchStep DEF Quiet
<1>2. Reading(w)' <=> Reading(w)
  BY <1>1 DEF Reading
<1>3. DataOf(w)'
  BY <1>1, <1>2 DEF DataOK, DataOf, Writing, SpeculativeRead
<1>4. QED
  BY <1>1, <1>3, ThreadData

\* A queue pair that fails.
LEMMA FailData ==
    ASSUME IInv, DataOK, NEW w \in Workers, NicFail(w)
    PROVE  /\ DataOK' /\ data' = data /\ old' = old /\ pc' = pc /\ Others(w)
           /\ ~Writing(w) /\ ~Writing(w)' /\ w \in failed'
<1>1. /\ data' = data /\ old' = old /\ pc' = pc /\ variant' = variant
      /\ wr' = [wr EXCEPT ![w] = EmptyQueue] /\ w \in failed'
      /\ \/ wr[w].release /\ Written(w)
         \/ w \in failed
  BY DEF NicFail, remote, local, main
<1>2. QueueOK(w) /\ DataOf(w) /\ wr \in [Workers -> Queues]
  BY DEF IInv, QueuesOK, DataOK, TypeOK
<1>3. Written(w)
  BY <1>1, <1>2 DEF QueueOK
<1>4. wr'[w] = EmptyQueue
  BY <1>1, <1>2
<1>5. wr[w].write = {} /\ ~Writing(w) /\ ~Writing(w)' /\ wr'[w].write = {} /\ wr'[w].read = {}
      /\ wr'[w].acquire = "none"
  BY <1>3, <1>4 DEF Written, Writing, EmptyQueue
<1>6. Others(w)
  BY FailStep DEF Quiet
<1>7. ~Reading(w)'
  <2>1. pc[w] \notin {"s_read", "s_cs", "x_read", "x_cs"}
    BY <1>1, <1>2 DEF QueueOK, Released
  <2>2. QED
    BY <1>1, <2>1 DEF Reading
<1>8. DataOf(w)'
  BY <1>5, <1>7 DEF DataOf
<1>9. QED
  BY <1>1, <1>5, <1>6, <1>8, ThreadData

-----------------------------------------------------------------------------
(* What a step of one worker is to the abstract lock.                      *)

\* Owner and value, where somebody is known to own or to have written.
OwnerIs == /\ \A w \in Workers : HoldsExclusive(w) => AOwner = w
           /\ (\A w \in Workers : ~HoldsExclusive(w)) => AOwner = NoOwner
ValueIs == /\ \A w \in Workers : Writing(w) => ADirty /\ AValue = old[w][First]
           /\ (\A w \in Workers : ~Writing(w)) => ~ADirty /\ AValue = data[First]

\* ... in every state of the invariant.
LEMMA AbstractState == IInv => OwnerIs /\ ValueIs
<1> SUFFICES ASSUME IInv PROVE OwnerIs /\ ValueIs
  OBVIOUS
<1>1. OwnerIs
  BY DEF IInv, Exclusion, OwnerIs, AOwner, Owned
<1>2. \A v, w \in Workers : Writing(v) /\ Writing(w) => v = w
  BY DEF IInv, Exclusion, Writing, HoldsExclusive
<1>3. ValueIs
  BY <1>2 DEF ValueIs, ADirty, AValue
<1>4. QED
  BY <1>1, <1>3

\* ... and so in the next one.
LEMMA AbstractStateThen == IInv' => OwnerIs' /\ ValueIs'
BY AbstractState, PTL

\* A step of w that writes nothing new keeps the abstract value.
ValueKept(w) ==
    /\ Others(w)
    /\ data' = data \/ Writing(w)
    /\ \A v \in Workers \ {w} : old'[v] = old[v]
    /\ Writing(w)' <=> Writing(w)
    /\ Writing(w) => old'[w] = old[w]

\* ... whoever has written, or if nobody has.
LEMMA KeepsValue ==
    ASSUME IInv, IInv', NEW w \in Workers, ValueKept(w)
    PROVE  (ADirty' <=> ADirty) /\ AValue' = AValue
<1>1. \A v \in Workers : /\ Writing(v)' <=> Writing(v)
                         /\ Writing(v) => old'[v] = old[v]
  BY DEF ValueKept, Others, Writing
<1>2. CASE \E v \in Workers : Writing(v)
  <2>1. PICK v \in Workers : Writing(v)
    BY <1>2
  <2>2. Writing(v)' /\ old'[v] = old[v]
    BY <1>1, <2>1
  <2>3. ADirty /\ AValue = old[v][First]
    BY <2>1, AbstractState DEF ValueIs
  <2>4. ADirty' /\ AValue' = old'[v][First]
    BY <2>2, AbstractStateThen DEF ValueIs
  <2>5. QED
    BY <2>2, <2>3, <2>4
<1>3. CASE ~\E v \in Workers : Writing(v)
  <2>1. ~ADirty /\ AValue = data[First]
    BY <1>3, AbstractState DEF ValueIs
  <2>2. ~ADirty' /\ AValue' = data'[First]
    BY <1>1, <1>3, AbstractStateThen DEF ValueIs
  <2>3. QED
    BY <1>3, <2>1, <2>2 DEF ValueKept
<1>4. QED
  BY <1>2, <1>3

\* The owner changes with the ownership of the worker that moves only.
LEMMA KeepsOwner ==
    ASSUME IInv, IInv', NEW w \in Workers, Others(w),
           HoldsExclusive(w)' <=> HoldsExclusive(w)
    PROVE  AOwner' = AOwner
<1>1. \A v \in Workers : HoldsExclusive(v)' <=> HoldsExclusive(v)
  BY DEF Others, HoldsExclusive
<1>2. QED
  BY <1>1, AbstractState, AbstractStateThen DEF OwnerIs

\* ... and it alone enters or leaves the sharers.
LEMMA Sharers ==
    ASSUME NEW w \in Workers, Others(w)
    PROVE  ASharers' = IF HoldsShared(w)' THEN ASharers \union {w} ELSE ASharers \ {w}
<1>1. \A v \in Workers \ {w} : HoldsShared(v)' <=> HoldsShared(v)
  BY DEF Others, HoldsShared
<1>2. QED
  BY <1>1 DEF ASharers

AStep == [Abstract!Next]_(Abstract!vars)

\* A step in which nobody comes or goes and nothing is written.
Stutters(w) == /\ ValueKept(w)
               /\ HoldsExclusive(w)' <=> HoldsExclusive(w)
               /\ HoldsShared(w)' <=> HoldsShared(w)

\* Most steps are none of the abstract lock.
LEMMA StutterStep ==
    ASSUME IInv, IInv', NEW w \in Workers, Stutters(w)
    PROVE  AStep
<1>1. (ADirty' <=> ADirty) /\ AValue' = AValue
  BY KeepsValue DEF Stutters
<1>2. AOwner' = AOwner
  BY KeepsOwner DEF Stutters, ValueKept
<1>3. ASharers' = ASharers
  BY Sharers DEF Stutters, ValueKept, ASharers
<1>4. QED
  BY <1>1, <1>2, <1>3, AbstractActions DEF AStep

\* A reader enters only where there is no owner.
LEMMA AcquireSharedStep ==
    ASSUME IInv, IInv', NEW w \in Workers, ValueKept(w),
           HoldsExclusive(w)' <=> HoldsExclusive(w), ~HoldsShared(w), HoldsShared(w)'
    PROVE  AStep
<1>1. (ADirty' <=> ADirty) /\ AValue' = AValue /\ AOwner' = AOwner
  BY KeepsValue, KeepsOwner DEF ValueKept
<1>2. w \notin ASharers /\ ASharers' = ASharers \union {w}
  BY Sharers DEF ValueKept, ASharers
<1>3. \A v \in Workers : ~HoldsExclusive(v)'
  BY OwnersAloneThen DEF Alone
<1>4. AOwner = NoOwner
  BY <1>1, <1>3, AbstractStateThen DEF OwnerIs
<1>5. QED
  BY <1>1, <1>2, <1>4, AbstractActions DEF AStep, Abstract!Next

\* A reader leaves.
LEMMA ReleaseSharedStep ==
    ASSUME IInv, IInv', NEW w \in Workers, ValueKept(w),
           HoldsExclusive(w)' <=> HoldsExclusive(w), HoldsShared(w), ~HoldsShared(w)'
    PROVE  AStep
<1>1. (ADirty' <=> ADirty) /\ AValue' = AValue /\ AOwner' = AOwner
  BY KeepsValue, KeepsOwner DEF ValueKept
<1>2. w \in ASharers /\ ASharers' = ASharers \ {w}
  BY Sharers DEF ValueKept, ASharers
<1>3. QED
  BY <1>1, <1>2, AbstractActions DEF AStep, Abstract!Next

\* A writer enters only where there is nobody.
LEMMA AcquireExclusiveStep ==
    ASSUME IInv, IInv', NEW w \in Workers, ValueKept(w),
           ~HoldsExclusive(w), HoldsExclusive(w)', ~HoldsShared(w), ~HoldsShared(w)'
    PROVE  AStep
<1>1. (ADirty' <=> ADirty) /\ AValue' = AValue
  BY KeepsValue
<1>2. \A v \in Workers \ {w} : ~HoldsExclusive(v)' /\ ~HoldsShared(v)'
  BY OwnersAloneThen DEF Alone, IInv, Exclusion
<1>3. \A v \in Workers : ~HoldsExclusive(v) /\ ~HoldsShared(v)
  BY <1>2 DEF ValueKept, Others, HoldsExclusive, HoldsShared
<1>4. AOwner = NoOwner /\ AOwner' = w
  BY <1>3, AbstractState, AbstractStateThen DEF OwnerIs
<1>5. ASharers = {} /\ ASharers' = ASharers
  BY <1>2, <1>3 DEF ASharers
<1>6. QED
  BY <1>1, <1>4, <1>5, AbstractActions DEF AStep, Abstract!Next

\* The value the owner has computed is the abstract one before it is stored.
LEMMA UpdateStep ==
    ASSUME IInv, IInv', NEW w \in Workers, Others(w), HoldsExclusive(w), HoldsExclusive(w)',
           ~HoldsShared(w), ~HoldsShared(w)', ~Writing(w), Writing(w)',
           old'[w][First] = data[First] + 1
    PROVE  AStep
<1>1. \A v \in Workers : ~Writing(v)
  BY DEF IInv, Exclusion, Writing, HoldsExclusive
<1>2. AOwner = w /\ AOwner' = AOwner
  BY AbstractState, AbstractStateThen DEF OwnerIs
<1>3. ~ADirty /\ AValue = data[First]
  BY <1>1, AbstractState DEF ValueIs
<1>4. ADirty' /\ AValue' = AValue + 1
  BY <1>3, AbstractStateThen DEF ValueIs
<1>5. ASharers' = ASharers
  BY Sharers DEF ASharers
<1>6. QED
  BY <1>2, <1>3, <1>4, <1>5, AbstractActions DEF AStep, Abstract!Next

\* What the owner leaves behind is stored.
LEMMA ReleaseExclusiveStep ==
    ASSUME IInv, IInv', DataOK, NEW w \in Workers, Others(w), data' = data,
           Writing(w), wr[w].write = {}, ~HoldsExclusive(w)', ~HoldsShared(w), ~HoldsShared(w)'
    PROVE  AStep
<1>1. HoldsExclusive(w)
  BY DEF Writing, HoldsExclusive
<1>2. \A v \in Workers : ~HoldsExclusive(v)' /\ ~Writing(v)'
  BY <1>1 DEF IInv, Exclusion, Others, HoldsExclusive, Writing
<1>3. AOwner = w /\ AOwner' = NoOwner
  BY <1>1, <1>2, AbstractState, AbstractStateThen DEF OwnerIs
<1>4. ADirty /\ AValue = old[w][First]
  BY AbstractState DEF ValueIs
<1>5. ~ADirty' /\ AValue' = data[First]
  BY <1>2, AbstractStateThen DEF ValueIs
<1>6. old[w][First] = data[First]
  <2>1. First \in Lines
    BY LinesAssumption DEF First
  <2>2. QED
    BY <2>1 DEF DataOK, DataOf
<1>7. ASharers' = ASharers
  BY Sharers DEF ASharers
<1>8. QED
  BY <1>3, <1>4, <1>5, <1>6, <1>7, AbstractActions DEF AStep, Abstract!Next

-----------------------------------------------------------------------------
(* The steps of the queue pairs.                                           *)

\* Lines of the payload come and go without the lock being concerned.
LEMMA PayloadMoves ==
    ASSUME IInv, IInv', DataOK, NEW w \in Workers, NEW l \in Lines,
           NicWrite(w, l) \/ NicRead(w, l)
    PROVE  DataOK' /\ AStep
<1>1. TypeOK
  BY DEF IInv
<1>2. CASE NicWrite(w, l)
  <2>1. DataOK' /\ Writing(w) /\ Writing(w)'
    BY <1>2, WriteData
  <2>2. /\ Others(w) /\ pc' = pc /\ old' = old /\ old7' = old7 /\ failed' = failed
        /\ wr'[w].acquire = wr[w].acquire /\ wr'[w].unlock = wr[w].unlock
    BY <1>1, <1>2, NicWriteEffect
  <2>3. Stutters(w)
    BY <2>1, <2>2 DEF Stutters, ValueKept, HoldsExclusive, HoldsShared
  <2>4. QED
    BY <2>1, <2>3, StutterStep
<1>3. CASE NicRead(w, l)
  <2>1. DataOK' /\ ~Writing(w) /\ ~Writing(w)' /\ \A v \in Workers \ {w} : old'[v] = old[v]
    BY <1>3, ReadData
  <2>2. /\ Others(w) /\ pc' = pc /\ data' = data /\ old7' = old7 /\ failed' = failed
        /\ wr'[w].acquire = wr[w].acquire /\ wr'[w].unlock = wr[w].unlock
    BY <1>1, <1>3, NicReadEffect
  <2>3. Stutters(w)
    BY <2>1, <2>2 DEF Stutters, ValueKept, HoldsExclusive, HoldsShared
  <2>4. QED
    BY <2>1, <2>3, StutterStep
<1>4. QED
  BY <1>2, <1>3

\* What fails had left the lock before, or was not going to get it.
LEMMA FailMoves ==
    ASSUME IInv, IInv', DataOK, NEW w \in Workers, NicFail(w)
    PROVE  DataOK' /\ AStep
<1>1. /\ DataOK' /\ data' = data /\ old' = old /\ pc' = pc /\ Others(w)
      /\ ~Writing(w) /\ ~Writing(w)' /\ w \in failed'
  BY FailData
<1>2. HoldsExclusive(w)' <=> HoldsExclusive(w)
  BY FailStep DEF Quiet
<1>3. ~HoldsShared(w)
  <2>1. QueueOK(w)
    BY DEF IInv, QueuesOK
  <2>2. w \in failed \/ wr[w].release
    BY DEF NicFail
  <2>3. QED
    BY <2>1, <2>2 DEF QueueOK, Released, HoldsShared
<1>4. ~HoldsShared(w)'
  BY <1>1, <1>3 DEF HoldsShared
<1>5. Stutters(w)
  BY <1>1, <1>2, <1>3, <1>4 DEF Stutters, ValueKept
<1>6. QED
  BY <1>1, <1>5, StutterStep

\* Fetching the lock word is nothing to the abstract lock.
LEMMA FetchMoves ==
    ASSUME IInv, IInv', DataOK, NEW w \in Workers, NicFetch(w)
    PROVE  DataOK' /\ AStep
<1>1. /\ Others(w) /\ data' = data /\ old' = old /\ wr' = wr /\ pc' = pc
      /\ pc[w] \in {"s_lock", "x_lock"} => wr[w].acquire # "none"
      /\ HoldsExclusive(w)' <=> HoldsExclusive(w)
  BY FetchStep DEF Quiet
<1>2. HoldsShared(w)' <=> HoldsShared(w)
  BY <1>1 DEF HoldsShared
<1>3. Stutters(w)
  BY <1>1, <1>2 DEF Stutters, ValueKept, Writing
<1>4. QED
  BY <1>3, FetchData, StutterStep

\* An increment lets a reader in, a swap a writer, if there is nobody in the way.
LEMMA AcquireMoves ==
    ASSUME IInv, IInv', DataOK, NEW w \in Workers, NicFetchAdd(w) \/ NicCompareSwap(w)
    PROVE  AStep
<1>1. /\ Others(w) /\ data' = data /\ old' = old /\ pc' = pc /\ ~wr'[w].unlock
  BY ChangesEffect DEF IInv, Changes
<1>2. QueueOK(w) /\ wr[w].acquire \in {"shared", "exclusive"} /\ Released(w)
  BY DEF IInv, QueuesOK, NicFetchAdd, NicCompareSwap
<1>3. ~Writing(w) /\ ~Writing(w)'
  BY <1>1, <1>2 DEF Writing, Released, Written
<1>4. ValueKept(w)
  BY <1>1, <1>3 DEF ValueKept
<1>5. ~HoldsExclusive(w) /\ ~HoldsShared(w)
  BY <1>2, <1>3 DEF HoldsExclusive, HoldsShared, QueueOK, Writing
<1>6. CASE NicFetchAdd(w)
  <2>1. ~HoldsExclusive(w)'
    BY <1>1, <1>2, <1>6 DEF NicFetchAdd, QueueOK, HoldsExclusive
  <2>2. QED
    BY <1>4, <1>5, <2>1, AcquireSharedStep, StutterStep DEF Stutters
<1>7. CASE NicCompareSwap(w)
  <2>1. ~HoldsShared(w)'
    BY <1>1, <1>2, <1>7 DEF NicCompareSwap, QueueOK, HoldsShared
  <2>2. QED
    BY <1>4, <1>5, <2>1, AcquireExclusiveStep, StutterStep DEF Stutters
<1>8. QED
  BY <1>6, <1>7

\* The end of a WRITE ends its writer's turn; a reader's turn has ended when it
\* posted its release.
LEMMA ReleaseMoves ==
    ASSUME IInv, IInv', DataOK, NEW w \in Workers, NicUnlock(w) \/ NicRelease(w)
    PROVE  AStep
<1>1. /\ Others(w) /\ data' = data /\ old' = old /\ pc' = pc /\ failed' = failed
      /\ ~wr'[w].unlock /\ wr[w].write = {}
  BY ChangesEffect DEF IInv, Changes
<1>2. QueueOK(w) /\ ~Released(w)
  BY DEF IInv, QueuesOK, NicUnlock, NicRelease, Released, Written
<1>3. wr'[w].acquire = wr[w].acquire
  BY <1>2, ChangesEffect DEF IInv, Changes, NicFetchAdd, NicCompareSwap
<1>4. /\ ~HoldsShared(w) /\ ~HoldsShared(w)' /\ ~HoldsExclusive(w)'
      /\ HoldsExclusive(w) => Writing(w)
  BY <1>1, <1>2, <1>3 DEF HoldsShared, HoldsExclusive, QueueOK, Writing
<1>5. CASE NicUnlock(w)
  BY <1>1, <1>4, <1>5, ReleaseExclusiveStep DEF NicUnlock, Writing
<1>6. CASE NicRelease(w)
  <2>1. ~Writing(w) /\ ~Writing(w)'
    BY <1>1, <1>6 DEF NicRelease, Store, IInv, AtomicOK, AtomicOf, Written, Writing
  <2>2. Stutters(w)
    BY <1>1, <1>4, <2>1 DEF Stutters, ValueKept
  <2>3. QED
    BY <2>2, StutterStep
<1>7. QED
  BY <1>5, <1>6

-----------------------------------------------------------------------------
(* The steps of the threads.                                               *)

\* Those that neither post nor compute.
LEMMA IdleMoves ==
    ASSUME IInv, IInv', DataOK, NEW w \in Workers, Idles(w)
    PROVE  DataOK' /\ AStep
<1>1. /\ data' = data /\ old7' = old7 /\ old' = old /\ wr' = wr
      /\ failed' = failed /\ variant' = variant /\ Others(w)
  BY IdlesEffect DEF IInv
<1>2. \/ Polled(w) /\ pc[w] = "s_lock" /\ Odd(old7[w]) /\ pc'[w] = "idle"
      \/ Polled(w) /\ pc[w] = "x_lock" /\ old7[w] # 0 /\ pc'[w] = "idle"
      \/ Polled(w) /\ pc[w] = "s_read" /\ pc'[w] = "s_cs"
      \/ Polled(w) /\ pc[w] = "x_read" /\ pc'[w] = "x_cs"
      \/ Polled(w) /\ pc[w] \in {"s_release", "x_write"} /\ pc'[w] = "idle"
      \/ w \in failed /\ wr[w] = EmptyQueue /\ pc'[w] = "aborted"
      \/ pc[w] = "idle" /\ pc'[w] = "done"
  BY IdlesEffect DEF IInv
<1>3. QueueOK(w) /\ DataOf(w)
  BY DEF IInv, QueuesOK, DataOK
<1>4. /\ HoldsExclusive(w)' <=> HoldsExclusive(w)
      /\ HoldsShared(w)' <=> HoldsShared(w)
  BY <1>1, <1>2, <1>3 DEF HoldsExclusive, HoldsShared, QueueOK, Released, EmptyQueue
<1>5. Stutters(w)
  BY <1>1, <1>4 DEF Stutters, ValueKept, Writing
<1>6. DataOf(w)'
  <2>1. (Writing(w)' <=> Writing(w)) /\ (Reading(w)' => Reading(w))
    BY <1>1, <1>2 DEF Writing, Reading
  <2>2. \/ pc[w] \notin {"s_lock", "s_read", "x_lock", "x_read"}
        \/ wr[w].read = {}
    BY <1>2 DEF Polled, EmptyQueue
  <2>3. wr[w].read = {} /\ pc'[w] \notin {"s_lock", "s_read", "x_lock", "x_read"}
    BY <1>2, <1>3, <2>2 DEF DataOf
  <2>4. QED
    BY <1>1, <1>3, <2>1, <2>3 DEF DataOf
<1>7. QED
  BY <1>1, <1>5, <1>6, ThreadData, StutterStep

\* The requests that acquire.
LEMMA PostMoves ==
    ASSUME IInv, IInv', DataOK, NEW w \in Workers, Posts(w)
    PROVE  DataOK' /\ AStep
<1>1. /\ data' = data /\ old7' = old7 /\ old' = old /\ failed' = failed
      /\ variant' = variant /\ Others(w) /\ pc[w] = "idle" /\ pc'[w] \in {"s_lock", "x_lock"}
      /\ wr'[w].acquire # "none" /\ wr'[w].read = SpeculativeRead
      /\ wr'[w].write = wr[w].write /\ wr'[w].unlock = wr[w].unlock
  BY PostsEffect DEF IInv
<1>2. Writing(w)' <=> Writing(w)
  BY <1>1 DEF Writing
<1>3. Stutters(w)
  BY <1>1, <1>2 DEF Stutters, ValueKept, HoldsExclusive, HoldsShared
<1>4. DataOf(w)'
  BY <1>1, <1>2 DEF DataOK, DataOf, Reading, SpeculativeRead
<1>5. QED
  BY <1>1, <1>3, <1>4, ThreadData, StutterStep

\* With the lock granted, the payload is in the buffer or is going to be read.
LEMMA GrantMoves ==
    ASSUME IInv, IInv', DataOK, NEW w \in Workers, Enters(w)
    PROVE  DataOK' /\ AStep
<1>1. /\ data' = data /\ old7' = old7 /\ old' = old /\ failed' = failed
      /\ variant' = variant /\ Others(w) /\ Polled(w)
      /\ \/ pc[w] = "s_lock" /\ ~Odd(old7[w]) /\ pc'[w] \in {"s_read", "s_cs"}
         \/ pc[w] = "x_lock" /\ old7[w] = 0 /\ pc'[w] \in {"x_read", "x_cs"}
      /\ wr'[w].write = {} /\ ~wr'[w].unlock
  BY EntersEffect DEF IInv
<1>2. \/ variant.speculative_read /\ wr'[w].read = {}
      \/ pc'[w] \in {"s_read", "x_read"} /\ wr'[w].read = Lines
  BY EntersEffect DEF IInv
<1>3. wr[w].acquire = "none" /\ wr[w].read = {} /\ w \notin failed /\ wr[w].write = {}
  BY <1>1 DEF Polled, Acquired, Released, Written
<1>4. ~Writing(w) /\ ~Writing(w)'
  BY <1>1 DEF Polled, Acquired, Released, Written, Writing
<1>5. /\ HoldsExclusive(w)' <=> HoldsExclusive(w)
      /\ HoldsShared(w)' <=> HoldsShared(w)
  BY <1>1, <1>3, <1>4 DEF HoldsExclusive, HoldsShared, Writing
<1>6. Stutters(w)
  BY <1>1, <1>4, <1>5 DEF Stutters, ValueKept
<1>7. DataOf(w)'
  <2>1. variant.speculative_read => \A l \in Lines : old[w][l] = data[l]
    BY <1>1, <1>3 DEF DataOK, DataOf, Reading
  <2>2. \A l \in Lines \ wr'[w].read : old'[w][l] = data'[l]
    BY <1>1, <1>2, <2>1
  <2>3. pc'[w] \in {"s_read", "x_read"} \/ wr'[w].read = {}
    BY <1>2
  <2>4. pc'[w] \notin {"s_lock", "x_lock"}
    BY <1>1
  <2>5. QED
    BY <1>1, <1>4, <2>2, <2>3, <2>4 DEF DataOf
<1>8. QED
  BY <1>1, <1>3, <1>6, <1>7, ThreadData, StutterStep

\* A reader's turn ends when it posts its release.
LEMMA DeregisterMoves ==
    ASSUME IInv, IInv', DataOK, NEW w \in Workers, SharedRelease(w)
    PROVE  DataOK' /\ AStep
<1>1. /\ data' = data /\ old7' = old7 /\ old' = old /\ failed' = failed
      /\ variant' = variant /\ Others(w) /\ pc[w] = "s_cs" /\ pc'[w] \in {"idle", "s_release"}
      /\ wr'[w].write = wr[w].write /\ wr'[w].unlock = wr[w].unlock
      /\ wr'[w].read = wr[w].read
  BY SharedReleaseEffect DEF IInv
<1>2. wr[w].read = {} /\ wr[w].write = {} /\ ~wr[w].unlock
  BY <1>1 DEF DataOK, DataOf, IInv, QueuesOK, QueueOK, Released, Written
<1>3. ~Writing(w) /\ ~Writing(w)'
  BY <1>1, <1>2 DEF Writing
<1>4. /\ ValueKept(w) /\ ~HoldsExclusive(w) /\ ~HoldsExclusive(w)' /\ ~HoldsShared(w)'
      /\ HoldsShared(w)
  BY <1>1, <1>2, <1>3 DEF ValueKept, HoldsExclusive, HoldsShared
<1>5. DataOf(w)'
  BY <1>1, <1>2, <1>3 DEF DataOf, Reading
<1>6. QED
  BY <1>1, <1>4, <1>5, ReleaseSharedStep, ThreadData

\* What a writer computes is one more, in every line.
LEMMA IncrementedIs ==
    \A payload \in [Lines -> Nat] : \A l \in Lines :
        Incremented(payload)[l] = payload[First] + 1
BY DEF Incremented, First

\* The update is made when the WRITE is posted.
LEMMA UpdateMoves ==
    ASSUME IInv, IInv', DataOK, NEW w \in Workers, Update(w)
    PROVE  DataOK' /\ AStep
<1>1. /\ data' = data /\ failed' = failed /\ variant' = variant
      /\ old' = [old EXCEPT ![w] = Incremented(old[w])]
      /\ Others(w) /\ pc[w] = "x_cs" /\ pc'[w] \in {"idle", "x_write"}
      /\ wr'[w].write = Lines /\ wr'[w].unlock /\ wr'[w].read = wr[w].read
  BY UpdateEffect DEF IInv
<1>2. wr[w].read = {} /\ wr[w].write = {} /\ ~wr[w].unlock
  BY <1>1 DEF DataOK, DataOf, IInv, QueuesOK, QueueOK, Released, Written
<1>3. ~Writing(w) /\ Writing(w)'
  BY <1>1, <1>2 DEF Writing
<1>4. First \in Lines
  BY LinesAssumption DEF First
<1>5. \A v \in Workers \ {w} : old'[v] = old[v]
  BY <1>1 DEF IInv, TypeOK
<1>6. \A l \in Lines : old'[w][l] = data[First] + 1
  <2>1. \A l \in Lines : old'[w][l] = old[w][First] + 1
    BY <1>1, IncrementedIs DEF IInv, TypeOK
  <2>2. old[w][First] = data[First]
    BY <1>1, <1>2, <1>4 DEF DataOK, DataOf, Reading
  <2>3. QED
    BY <2>1, <2>2
<1>7. HoldsExclusive(w) /\ HoldsExclusive(w)' /\ ~HoldsShared(w) /\ ~HoldsShared(w)'
  BY <1>1 DEF HoldsExclusive, HoldsShared
<1>8. DataOf(w)'
  BY <1>1, <1>2, <1>3, <1>6 DEF DataOf, Reading
<1>9. AStep
  BY <1>1, <1>3, <1>4, <1>6, <1>7, UpdateStep
<1>10. QED
  BY <1>1, <1>2, <1>5, <1>8, <1>9, ThreadData

-----------------------------------------------------------------------------

\* Every step keeps what the buffers hold and is a step of the abstract lock.
LEMMA NextMoves == IInv /\ IInv' /\ DataOK /\ [Next]_vars => DataOK' /\ AStep
<1> SUFFICES ASSUME IInv, IInv', DataOK, [Next]_vars PROVE DataOK' /\ AStep
  OBVIOUS
<1>1. ASSUME NEW w \in Workers, Nic(w) PROVE DataOK' /\ AStep
  BY <1>1, PayloadMoves, FailMoves, FetchMoves, ChangesData, AcquireMoves, ReleaseMoves
     DEF Nic, Changes
<1>2. ASSUME NEW w \in Workers, Thread(w) PROVE DataOK' /\ AStep
  BY <1>2, IdleMoves, PostMoves, GrantMoves, DeregisterMoves, UpdateMoves
     DEF Thread, Reader, Writer, Idles, Posts, Enters
<1>3. ASSUME StopRunning \/ Terminated \/ UNCHANGED vars PROVE DataOK' /\ AStep
  <2>1. /\ data' = data /\ old' = old /\ old7' = old7 /\ wr' = wr /\ pc' = pc
        /\ failed' = failed /\ variant' = variant
    BY <1>3 DEF StopRunning, Terminated, vars, local, remote
  <2>2. DataOK'
    BY <2>1 DEF DataOK, Whole, DataOf, Reading, Writing, SpeculativeRead
  <2>3. PICK w \in Workers : TRUE
    BY WorkersAssumption
  <2>4. Stutters(w)
    BY <2>1 DEF Stutters, ValueKept, Others, Writing, HoldsExclusive, HoldsShared
  <2>5. QED
    BY <2>2, <2>4, StutterStep
<1>4. QED
  BY <1>1, <1>2, <1>3 DEF Next

\* Nobody holds the lock in the beginning.
LEMMA InitAbstract == Init => Abstract!Init
<1> SUFFICES ASSUME Init PROVE Abstract!Init
  OBVIOUS
<1>1. \A w \in Workers : ~HoldsExclusive(w) /\ ~HoldsShared(w) /\ ~Writing(w)
  BY DEF Init, HoldsExclusive, HoldsShared, Writing, EmptyQueue
<1>2. AOwner = NoOwner /\ ASharers = {}
  BY <1>1 DEF AOwner, ASharers, Owned
<1>3. ADirty = FALSE
  BY <1>1 DEF ADirty
<1>4. AValue = 0
  BY <1>3, LinesAssumption DEF Init, AValue, First
<1>5. QED
  BY <1>2, <1>3, <1>4, AbstractActions

\* The invariant with the data.
LEMMA DataInvariance == Spec => [](IInv /\ DataOK)
<1>1. Init => IInv /\ DataOK
  BY InitInv, InitData
<1>2. IInv /\ DataOK /\ [Next]_vars => (IInv /\ DataOK)'
  BY NextInv, NextMoves
<1>3. QED
  BY <1>1, <1>2, PTL DEF Spec

\* The reader's test, "prev_version != old[i]", never throws, however many
\* readers and writers there are, whichever flags are set, and in whichever
\* order the lines of a tuple come and go.
THEOREM TailSnapshotsWhole == Spec => []SharedSnapshot
<1>1. IInv /\ DataOK => SharedSnapshot
  <2> SUFFICES ASSUME IInv, DataOK, NEW w \in Workers, pc[w] = "s_cs",
                      NEW l \in Lines, NEW m \in Lines
               PROVE  old[w][l] = data[m]
    BY DEF SharedSnapshot
  <2>1. Reading(w) /\ wr[w].read = {}
    BY DEF Reading, DataOK, DataOf
  <2>2. old[w][l] = data[l]
    BY <2>1 DEF DataOK, DataOf
  <2>3. data[l] = data[m]
    BY <2>1, ReadingAlone DEF DataOK, Whole
  <2>4. QED
    BY <2>2, <2>3
<1>2. QED
  BY <1>1, DataInvariance, PTL

\* The lock whose writers release it by the last word of their WRITE is the
\* abstract reader/writer lock: refused readers, wiped out instead of
\* deregistered, and readers whose release failed take nothing away from it.
THEOREM TailLockImplementsSpec == Spec => Implements
<1>1. IInv /\ DataOK /\ [Next]_vars => AStep
  BY NextInv, NextMoves
<1>2. QED
  BY <1>1, InitAbstract, DataInvariance, PTL DEF Spec, Implements, Abstract!Spec, AStep

=============================================================================
