------------------------ MODULE BatchedRWLock_proofs ------------------------
(***************************************************************************)
(* BatchedRWLock, for any finite set of workers, any payload, batches of   *)
(* any size and any number of updates: type correctness, what the lock     *)
(* word counts, that a writer computes from a whole, current tuple, and    *)
(* that no update is lost.                                                 *)
(***************************************************************************)
EXTENDS BatchedRWLock, FiniteSetTheorems, SumTheorems, TLAPS

\* What a thread has in its queue at each point of its program, what may
\* stand beside what, and that the bound on the updates holds to the end of one.
QueueOK(w) ==
    /\ wr[w].write # {} => wr[w].release = Excl
    /\ wr[w].read # {} => /\ wr[w].release # Excl /\ wr[w].acquire = "none"
                          /\ pc[w] \in {"s_poll", "x_poll"}
    /\ wr[w].acquire = "shared" => pc[w] = "s_poll"
    /\ wr[w].acquire = "exclusive" => pc[w] = "x_poll"
    /\ pc[w] = "x_poll" /\ wr[w].acquire = "none" => Released(w)
    /\ pc[w] = "x_cs" => Released(w)
    /\ wr[w].rounds # 0 => pc[w] = "s_poll"
    /\ pc[w] \in {"x_lock", "x_poll", "x_cs"} => updates[w] < MaxUpdates

QueuesOK == \A w \in Workers : QueueOK(w)

Rounds == {w \in Workers : Registered(w)}
Owners == {w \in Workers : HoldsExclusive(w)}

\* There is one owner at most.
Exclusion == \A v, w \in Workers : HoldsExclusive(v) /\ HoldsExclusive(w) => v = w

\* w owns the tuple, and its buffer is being filled or has been.
Reading(w) == \/ pc[w] = "x_cs"
              \/ pc[w] = "x_poll" /\ wr[w].acquire = "none" /\ x_locked[w] = 0

\* What an owner has read is what is stored.
OwnersData ==
    \A w \in Workers : Reading(w) =>
        \A l \in Lines \ wr[w].read : buffer[w][l] = data[l]

IInv == TypeOK /\ QueuesOK /\ Exclusion /\ LockWordExact /\ OwnersData

-----------------------------------------------------------------------------

\* The sizes: EXCLUSIVE_LOCKED is out of the readers' reach, and the sum of
\* both fits the 64-bit lock word.
LEMMA WordFacts ==
    /\ Excl \in Nat /\ WordSize \in Nat /\ Cardinality(Workers) \in Nat
    /\ 1 < Excl /\ Cardinality(Workers) < Excl
    /\ Excl + Cardinality(Workers) < WordSize
    /\ BatchSize \in Nat /\ BatchSize # 0 /\ MaxUpdates \in Nat
    /\ Words = 0 .. WordSize - 1 /\ 0 \in Words
BY WorkersAssumption, WordAssumption, BoundsAssumption, FS_CardinalityType DEF Words

\* The network adds and subtracts, where the result is a word.
LEMMA WordArithmetic ==
    /\ \A a, b \in Nat : a + b < WordSize => AddWords(a, b) = a + b
    /\ \A a, b \in Nat : b <= a /\ a < WordSize => SubWords(a, b) = a - b
BY WordFacts DEF AddWords, SubWords

\* Rounds and owners are finitely many.
LEMMA CountFacts ==
    /\ IsFiniteSet(Rounds) /\ Cardinality(Rounds) \in Nat
    /\ Cardinality(Rounds) <= Cardinality(Workers)
    /\ Cardinality(Rounds) = 0 <=> Rounds = {}
    /\ IsFiniteSet(Owners) /\ Cardinality(Owners) \in Nat
    /\ Cardinality(Owners) = 0 <=> Owners = {}
    /\ lockw = Cardinality(Rounds) + Excl * Cardinality(Owners) <=> LockWordExact
<1>1. IsFiniteSet(Workers) /\ Rounds \subseteq Workers /\ Owners \subseteq Workers
  BY WorkersAssumption DEF Rounds, Owners
<1>2. IsFiniteSet(Rounds) /\ Cardinality(Rounds) <= Cardinality(Workers) /\ IsFiniteSet(Owners)
  BY <1>1, FS_Subset
<1>3. /\ Cardinality(Rounds) \in Nat /\ Cardinality(Owners) \in Nat
      /\ Cardinality(Rounds) = 0 <=> Rounds = {}
      /\ Cardinality(Owners) = 0 <=> Owners = {}
  BY <1>2, FS_CardinalityType, FS_EmptySet
<1>4. QED
  BY <1>2, <1>3 DEF LockWordExact, Rounds, Owners

\* ... so one owner makes the lock word Excl or more.
LEMMA OwnersCount ==
    ASSUME Exclusion
    PROVE  /\ \A w \in Owners : Owners = {w} /\ Cardinality(Owners) = 1
           /\ Cardinality(Owners) \in {0, 1}
<1>1. ASSUME NEW w \in Owners PROVE Owners = {w} /\ Cardinality(Owners) = 1
  <2>1. Owners = {w}
    BY DEF Exclusion, Owners
  <2>2. QED
    BY <2>1, FS_Singleton
<1>2. QED
  BY <1>1, CountFacts

\* The zeroed tuple and the idle threads satisfy the invariant.
LEMMA InitInv == Init => IInv
<1> SUFFICES ASSUME Init PROVE IInv
  OBVIOUS
<1>1. TypeOK
  BY WordFacts DEF Init, TypeOK, Queues
<1>2. \A w \in Workers : /\ ~Registered(w) /\ ~HoldsExclusive(w) /\ QueueOK(w) /\ ~Reading(w)
  BY WordFacts DEF Init, Registered, HoldsExclusive, QueueOK, Released, Reading
<1>3. Rounds = {} /\ Owners = {}
  BY <1>2 DEF Rounds, Owners
<1>4. LockWordExact
  <2>1. Cardinality(Rounds) = 0 /\ Cardinality(Owners) = 0
    BY <1>3, FS_EmptySet
  <2>2. lockw = Cardinality(Rounds) + Excl * Cardinality(Owners)
    BY <2>1, WordFacts DEF Init
  <2>3. QED
    BY <2>2, CountFacts
<1>5. QED
  BY <1>1, <1>2, <1>4 DEF IInv, QueuesOK, Exclusion, OwnersData

-----------------------------------------------------------------------------
(* Steps that do not touch the lock word.                                  *)

\* A step of w leaves the other workers where they are.
Others(w) == \A v \in Workers \ {w} :
                 /\ pc'[v] = pc[v] /\ x_locked'[v] = x_locked[v] /\ wr'[v] = wr[v]
                 /\ updates'[v] = updates[v]

Quiet(w) == /\ lockw' = lockw
            /\ Registered(w)' <=> Registered(w)
            /\ HoldsExclusive(w)' <=> HoldsExclusive(w)

\* ... so it keeps what the lock word says, if it is quiet.
LEMMA QuietStep ==
    ASSUME Exclusion, LockWordExact, NEW w \in Workers, Others(w), Quiet(w)
    PROVE  Exclusion' /\ LockWordExact'
<1>1. \A v \in Workers : /\ Registered(v)' <=> Registered(v)
                         /\ HoldsExclusive(v)' <=> HoldsExclusive(v)
  BY DEF Quiet, Others, Registered, HoldsExclusive, Released
<1>2. /\ {v \in Workers : Registered(v)}' = {v \in Workers : Registered(v)}
      /\ {v \in Workers : HoldsExclusive(v)}' = {v \in Workers : HoldsExclusive(v)}
  BY <1>1
<1>3. QED
  BY <1>1, <1>2 DEF Exclusion, LockWordExact, Quiet

\* The others' queues are as they were.
LEMMA QueuesStep ==
    ASSUME QueuesOK, NEW w \in Workers, Others(w), QueueOK(w)'
    PROVE  QueuesOK'
BY DEF QueuesOK, QueueOK, Others, Released

\* If nothing is stored, and nothing read by another worker, its data stay.
LEMMA DataStep ==
    ASSUME OwnersData, NEW w \in Workers, Others(w), data' = data,
           \A v \in Workers \ {w} : buffer'[v] = buffer[v],
           Reading(w)' => \A l \in Lines \ wr'[w].read : buffer'[w][l] = data[l]
    PROVE  OwnersData'
<1> SUFFICES ASSUME NEW v \in Workers, Reading(v)', NEW l \in Lines \ wr'[v].read
             PROVE  buffer'[v][l] = data'[l]
  BY DEF OwnersData
<1>1. CASE v = w
  BY <1>1
<1>2. CASE v # w
  <2>1. Reading(v) /\ wr'[v] = wr[v] /\ buffer'[v] = buffer[v]
    BY <1>2 DEF Others, Reading
  <2>2. QED
    BY <2>1 DEF OwnersData
<1>3. QED
  BY <1>1, <1>2

\* Whoever reads as an owner is one, and has nothing in flight.
LEMMA ReadingOwns ==
    ASSUME QueuesOK, NEW w \in Workers, Reading(w)
    PROVE  HoldsExclusive(w) /\ Released(w)
BY DEF QueuesOK, QueueOK, Reading, HoldsExclusive

\* Whatever is posted or executed, a queue stays a queue.
LEMMA QueueTypes ==
    ASSUME NEW q \in Queues, NEW lines \in SUBSET Lines, NEW amount \in {0, 1, Excl},
           NEW kind \in {"none", "shared", "exclusive"}, NEW n \in 0 .. BatchSize - 1
    PROVE  /\ [q EXCEPT !.write = lines] \in Queues
           /\ [q EXCEPT !.read = lines] \in Queues
           /\ [q EXCEPT !.acquire = kind] \in Queues
           /\ [q EXCEPT !.release = amount] \in Queues
           /\ [q EXCEPT !.acquire = kind, !.rounds = n] \in Queues
           /\ [q EXCEPT !.acquire = kind, !.read = lines] \in Queues
           /\ [q EXCEPT !.acquire = kind, !.read = lines, !.release = amount] \in Queues
           /\ [q EXCEPT !.write = lines, !.release = amount] \in Queues
           /\ [q EXCEPT !.release = amount, !.acquire = kind, !.rounds = n] \in Queues
BY DEF Queues

-----------------------------------------------------------------------------
(* The threads.                                                            *)

\* Nothing is posted or computed.
Idles(w) == \/ SharedRead(w) \/ UnlockShared(w) \/ BeginWrite(w)
            \/ ExclusiveRestart(w) \/ ExclusiveLocked(w)

\* ... so just the thread moves.
LEMMA IdleStep ==
    ASSUME IInv, NEW w \in Workers, Idles(w)
    PROVE  IInv'
<1> USE DEF IInv
<1>1. /\ lockw' = lockw /\ data' = data /\ x_locked' = x_locked /\ buffer' = buffer
      /\ wr' = wr /\ updates' = updates
  BY DEF Idles, SharedRead, UnlockShared, BeginWrite, ExclusiveRestart, ExclusiveLocked
<1>2. /\ \A v \in Workers \ {w} : pc'[v] = pc[v]
      /\ \/ Polled(w) /\ pc[w] = "s_poll" /\ pc'[w] = "s_done"
         \/ pc[w] = "s_done" /\ pc'[w] = "idle"
         \/ pc[w] = "idle" /\ pc'[w] = "x_lock" /\ updates[w] < MaxUpdates
         \/ Polled(w) /\ pc[w] = "x_poll" /\ x_locked[w] # 0 /\ pc'[w] = "x_lock"
         \/ Polled(w) /\ pc[w] = "x_poll" /\ x_locked[w] = 0 /\ pc'[w] = "x_cs"
      /\ pc' \in [Workers -> {"idle", "s_poll", "s_done", "x_lock", "x_poll", "x_cs"}]
  BY DEF Idles, SharedRead, UnlockShared, BeginWrite, ExclusiveRestart, ExclusiveLocked, Goto,
     TypeOK
<1>3. Others(w) /\ QueueOK(w)
  BY <1>1, <1>2 DEF Others, QueuesOK
<1>4. QueueOK(w)'
  BY <1>1, <1>2, <1>3, WordFacts DEF QueueOK, Polled, Released
<1>5. HoldsExclusive(w)' <=> HoldsExclusive(w)
  BY <1>1, <1>2, <1>3 DEF QueueOK, Polled, HoldsExclusive, Released
<1>6. Quiet(w)
  BY <1>1, <1>5 DEF Quiet, Registered
<1>7. Reading(w)' => Reading(w)
  BY <1>1, <1>2 DEF Reading, Polled
<1>8. OwnersData'
  BY <1>1, <1>3, <1>7, DataStep DEF OwnersData
<1>9. TypeOK'
  BY <1>1, <1>2 DEF TypeOK
<1>10. QED
  BY <1>3, <1>4, <1>6, <1>8, <1>9, QuietStep, QueuesStep

\* An acquiring atomic is posted, for a reader with the rounds of its batch.
LEMMA PostStep ==
    ASSUME IInv, NEW w \in Workers, LockShared(w) \/ LockExclusive(w)
    PROVE  IInv'
<1> USE DEF IInv
<1>1. /\ lockw' = lockw /\ data' = data /\ x_locked' = x_locked /\ buffer' = buffer
      /\ updates' = updates
  BY DEF LockShared, LockExclusive
<1>2. /\ \A v \in Workers \ {w} : pc'[v] = pc[v]
      /\ \/ pc[w] = "idle" /\ pc'[w] = "s_poll"
         \/ pc[w] = "x_lock" /\ pc'[w] = "x_poll"
      /\ pc' \in [Workers -> {"idle", "s_poll", "s_done", "x_lock", "x_poll", "x_cs"}]
  BY DEF LockShared, LockExclusive, Goto, TypeOK
<1>3. PICK q \in Queues :
        /\ wr' = [wr EXCEPT ![w] = q]
        /\ q.write = wr[w].write /\ q.release = wr[w].release /\ q.read = wr[w].read
        /\ \/ pc[w] = "idle" /\ q.acquire = "shared"
           \/ pc[w] = "x_lock" /\ q.acquire = "exclusive" /\ q.rounds = wr[w].rounds
  <2>1. wr[w] \in Queues
    BY DEF TypeOK
  <2>2. CASE LockShared(w)
    <3> DEFINE q == [wr[w] EXCEPT !.acquire = "shared", !.rounds = BatchSize - 1]
    <3>1. wr' = [wr EXCEPT ![w] = q]
      BY <2>2 DEF LockShared
    <3>2. q \in Queues
      <4>1. BatchSize - 1 \in 0 .. BatchSize - 1
        BY WordFacts
      <4>2. QED
        BY <2>1, <4>1, QueueTypes
    <3>3. /\ q.write = wr[w].write /\ q.release = wr[w].release /\ q.read = wr[w].read
          /\ q.acquire = "shared"
      BY <2>1 DEF Queues
    <3>4. QED
      BY <2>2, <3>1, <3>2, <3>3 DEF LockShared, Goto
  <2>3. CASE LockExclusive(w)
    <3> DEFINE q == [wr[w] EXCEPT !.acquire = "exclusive"]
    <3>1. wr' = [wr EXCEPT ![w] = q]
      BY <2>3 DEF LockExclusive
    <3>2. /\ q \in Queues
          /\ q.write = wr[w].write /\ q.release = wr[w].release /\ q.read = wr[w].read
          /\ q.acquire = "exclusive" /\ q.rounds = wr[w].rounds
      BY <2>1 DEF Queues
    <3>3. QED
      BY <2>3, <3>1, <3>2 DEF LockExclusive, Goto
  <2>4. QED
    BY <2>2, <2>3
<1>4. wr' \in [Workers -> Queues] /\ wr'[w] = q /\ \A v \in Workers \ {w} : wr'[v] = wr[v]
  BY <1>3 DEF TypeOK
<1>5. Others(w) /\ QueueOK(w)
  BY <1>1, <1>2, <1>4 DEF Others, QueuesOK
<1>6. QueueOK(w)'
  <2>1. wr[w].read = {}
    BY <1>2, <1>5 DEF QueueOK
  <2>2. CASE pc[w] = "idle"
    BY <1>2, <1>3, <1>4, <1>5, <2>1, <2>2 DEF QueueOK
  <2>3. CASE pc[w] = "x_lock"
    BY <1>1, <1>2, <1>3, <1>4, <1>5, <2>1, <2>3 DEF QueueOK
  <2>4. QED
    BY <1>2, <2>2, <2>3
<1>7. Quiet(w) /\ ~Reading(w)'
  BY <1>1, <1>2, <1>3, <1>4 DEF Quiet, Registered, HoldsExclusive, Reading
<1>8. OwnersData'
  BY <1>1, <1>5, <1>7, DataStep
<1>9. TypeOK'
  BY <1>1, <1>2, <1>4 DEF TypeOK
<1>10. QED
  BY <1>5, <1>6, <1>7, <1>8, <1>9, QuietStep, QueuesStep

\* The WRITE and the release are posted: the owner is one until the latter.
LEMMA UnlockStep ==
    ASSUME IInv, NEW w \in Workers, UnlockExclusive(w)
    PROVE  IInv'
<1> USE DEF IInv
<1>1. /\ lockw' = lockw /\ data' = data /\ x_locked' = x_locked
      /\ buffer' = [buffer EXCEPT ![w] = [l \in Lines |-> buffer[w][l] + 1]]
      /\ updates' = [updates EXCEPT ![w] = updates[w] + 1]
      /\ wr' = [wr EXCEPT ![w].write = Lines, ![w].release = Excl]
  BY DEF UnlockExclusive
<1>2. /\ pc[w] = "x_cs" /\ pc'[w] = "idle" /\ \A v \in Workers \ {w} : pc'[v] = pc[v]
      /\ pc' \in [Workers -> {"idle", "s_poll", "s_done", "x_lock", "x_poll", "x_cs"}]
  BY DEF UnlockExclusive, Goto, TypeOK
<1>3. wr \in [Workers -> Queues] /\ QueueOK(w)
  BY DEF TypeOK, QueuesOK
<1>4. /\ wr'[w].write = Lines /\ wr'[w].release = Excl /\ wr'[w].acquire = wr[w].acquire
      /\ wr'[w].read = wr[w].read /\ wr'[w].rounds = wr[w].rounds
  BY <1>1, <1>3 DEF Queues
<1>5. wr' \in [Workers -> Queues] /\ \A v \in Workers \ {w} : wr'[v] = wr[v]
  <2>1. [wr[w] EXCEPT !.write = Lines, !.release = Excl] \in Queues
    BY <1>3 DEF Queues
  <2>2. wr' = [wr EXCEPT ![w] = [wr[w] EXCEPT !.write = Lines, !.release = Excl]]
    BY <1>1
  <2>3. QED
    BY <1>3, <2>1, <2>2
<1>6. /\ updates' \in [Workers -> 0 .. MaxUpdates]
      /\ \A v \in Workers \ {w} : updates'[v] = updates[v]
  <2>1. updates[w] + 1 \in 0 .. MaxUpdates
    BY <1>2, <1>3, WordFacts DEF QueueOK, TypeOK
  <2>2. QED
    BY <1>1, <2>1 DEF TypeOK
<1>7. /\ buffer' \in [Workers -> [Lines -> Nat]]
      /\ \A v \in Workers \ {w} : buffer'[v] = buffer[v]
  BY <1>1 DEF TypeOK
<1>8. Others(w)
  BY <1>1, <1>2, <1>5, <1>6 DEF Others
<1>9. QueueOK(w)'
  BY <1>2, <1>3, <1>4 DEF QueueOK
<1>10. Quiet(w) /\ ~Reading(w)'
  BY <1>1, <1>2, <1>3, <1>4, WordFacts DEF Quiet, Registered, HoldsExclusive, Reading, QueueOK,
     Released
<1>11. OwnersData'
  BY <1>1, <1>7, <1>8, <1>10, DataStep
<1>12. TypeOK'
  BY <1>1, <1>2, <1>5, <1>6, <1>7 DEF TypeOK
<1>13. QED
  BY <1>8, <1>9, <1>10, <1>11, <1>12, QuietStep, QueuesStep

-----------------------------------------------------------------------------
(* The queue pairs: the payload.                                           *)

\* A line of the WRITE: nobody reads as an owner beside it.
LEMMA WriteStep ==
    ASSUME IInv, NEW w \in Workers, NEW l \in Lines, NicWrite(w, l)
    PROVE  IInv'
<1> USE DEF IInv
<1>1. /\ lockw' = lockw /\ pc' = pc /\ x_locked' = x_locked /\ buffer' = buffer
      /\ updates' = updates /\ l \in wr[w].write
      /\ data' = [data EXCEPT ![l] = buffer[w][l]]
      /\ wr' = [wr EXCEPT ![w].write = wr[w].write \ {l}]
  BY DEF NicWrite
<1>2. wr \in [Workers -> Queues] /\ QueueOK(w)
  BY DEF TypeOK, QueuesOK
<1>3. /\ wr'[w].write = wr[w].write \ {l} /\ wr'[w].release = wr[w].release
      /\ wr'[w].acquire = wr[w].acquire /\ wr'[w].read = wr[w].read
      /\ wr'[w].rounds = wr[w].rounds
  BY <1>1, <1>2 DEF Queues
<1>4. wr' \in [Workers -> Queues] /\ \A v \in Workers \ {w} : wr'[v] = wr[v]
  <2>1. [wr[w] EXCEPT !.write = wr[w].write \ {l}] \in Queues
    BY <1>2 DEF Queues
  <2>2. QED
    BY <1>1, <1>2, <2>1
<1>5. Others(w) /\ wr[w].release = Excl
  BY <1>1, <1>2, <1>4 DEF Others, QueueOK
<1>6. QueueOK(w)'
  BY <1>1, <1>2, <1>3, <1>5 DEF QueueOK, Released
<1>7. HoldsExclusive(w) /\ Quiet(w)
  BY <1>1, <1>3, <1>5 DEF Quiet, Registered, HoldsExclusive
<1>8. \A v \in Workers : ~Reading(v)
  <2> SUFFICES ASSUME NEW v \in Workers, Reading(v) PROVE FALSE
    OBVIOUS
  <2>1. HoldsExclusive(v) /\ Released(v)
    BY ReadingOwns
  <2>2. v = w
    BY <1>7, <2>1 DEF Exclusion
  <2>3. QED
    BY <1>5, <2>1, <2>2, WordFacts DEF Released
<1>9. OwnersData'
  BY <1>1, <1>3, <1>4, <1>8 DEF OwnersData, Reading
<1>10. TypeOK'
  BY <1>1, <1>4 DEF TypeOK
<1>11. QED
  BY <1>5, <1>6, <1>7, <1>9, <1>10, QuietStep, QueuesStep

\* A line of the READ.
LEMMA ReadStep ==
    ASSUME IInv, NEW w \in Workers, NEW l \in Lines, NicRead(w, l)
    PROVE  IInv'
<1> USE DEF IInv
<1>1. /\ lockw' = lockw /\ pc' = pc /\ x_locked' = x_locked /\ data' = data
      /\ updates' = updates /\ l \in wr[w].read
      /\ buffer' = [buffer EXCEPT ![w][l] = data[l]]
      /\ wr' = [wr EXCEPT ![w].read = wr[w].read \ {l}]
  BY DEF NicRead
<1>2. wr \in [Workers -> Queues] /\ QueueOK(w)
  BY DEF TypeOK, QueuesOK
<1>3. /\ wr'[w].write = wr[w].write /\ wr'[w].release = wr[w].release
      /\ wr'[w].acquire = wr[w].acquire /\ wr'[w].read = wr[w].read \ {l}
      /\ wr'[w].rounds = wr[w].rounds
  BY <1>1, <1>2 DEF Queues
<1>4. wr' \in [Workers -> Queues] /\ \A v \in Workers \ {w} : wr'[v] = wr[v]
  <2>1. [wr[w] EXCEPT !.read = wr[w].read \ {l}] \in Queues
    BY <1>2 DEF Queues
  <2>2. QED
    BY <1>1, <1>2, <2>1
<1>5. Others(w)
  BY <1>1, <1>4 DEF Others
<1>6. QueueOK(w)'
  BY <1>1, <1>2, <1>3 DEF QueueOK, Released
<1>7. Quiet(w) /\ (Reading(w)' <=> Reading(w))
  BY <1>1, <1>3 DEF Quiet, Registered, HoldsExclusive, Released, Reading
<1>8. /\ buffer' \in [Workers -> [Lines -> Nat]] /\ buffer'[w][l] = data[l]
      /\ \A m \in Lines \ {l} : buffer'[w][m] = buffer[w][m]
      /\ \A v \in Workers \ {w} : buffer'[v] = buffer[v]
  BY <1>1 DEF TypeOK
<1>9. OwnersData'
  BY <1>1, <1>3, <1>5, <1>7, <1>8, DataStep DEF OwnersData
<1>10. TypeOK'
  BY <1>1, <1>4, <1>8 DEF TypeOK
<1>11. QED
  BY <1>5, <1>6, <1>7, <1>9, <1>10, QuietStep, QueuesStep

-----------------------------------------------------------------------------
(* The queue pairs: the lock word.                                         *)

\* What an atomic does besides.
Atomics(w) == NicRelease(w) \/ NicFetchAdd(w) \/ NicCompareSwap(w)

\* ... it returns the lock word, and shows in its own queue.
LEMMA AtomicsEffect ==
    ASSUME TypeOK, NEW w \in Workers, Atomics(w)
    PROVE  /\ data' = data /\ pc' = pc /\ buffer' = buffer /\ updates' = updates
           /\ x_locked'[w] = lockw /\ Others(w)
           /\ wr' \in [Workers -> Queues]
           /\ wr'[w].write = wr[w].write /\ wr[w].write = {}
           /\ lockw' \in Words => TypeOK'
<1>1. /\ data' = data /\ pc' = pc /\ buffer' = buffer /\ updates' = updates
      /\ x_locked' = [x_locked EXCEPT ![w] = lockw] /\ wr[w].write = {}
  BY DEF Atomics, NicRelease, NicFetchAdd, NicCompareSwap, Atomic, Released
<1>2. wr \in [Workers -> Queues] /\ wr[w] \in Queues
  BY DEF TypeOK
<1>3. PICK q \in Queues : wr' = [wr EXCEPT ![w] = q] /\ q.write = wr[w].write
  <2>1. CASE NicRelease(w)
    <3>1. wr' = [wr EXCEPT ![w] = NextRound(wr[w])]
      BY <2>1 DEF NicRelease
    <3>2. wr[w].rounds = 0 \/ wr[w].rounds - 1 \in 0 .. BatchSize - 1
      BY <1>2, WordFacts DEF Queues
    <3>3. NextRound(wr[w]) \in Queues
      <4>1. [wr[w] EXCEPT !.release = 0] \in Queues
        BY <1>2 DEF Queues
      <4>2. wr[w].rounds # 0 =>
              [wr[w] EXCEPT !.release = 0, !.acquire = "shared", !.rounds = wr[w].rounds - 1]
                \in Queues
        BY <1>2, <3>2 DEF Queues
      <4>3. QED
        BY <4>1, <4>2 DEF NextRound
    <3>4. NextRound(wr[w]).write = wr[w].write
      BY <1>2 DEF NextRound, Queues
    <3>5. QED
      BY <3>1, <3>3, <3>4
  <2>2. CASE NicFetchAdd(w)
    <3> DEFINE q == [wr[w] EXCEPT !.acquire = "none", !.read = Lines, !.release = 1]
    <3>1. wr' = [wr EXCEPT ![w] = q]
      BY <2>2 DEF NicFetchAdd
    <3>2. q \in Queues /\ q.write = wr[w].write
      BY <1>2 DEF Queues
    <3>3. QED
      BY <3>1, <3>2
  <2>3. CASE NicCompareSwap(w)
    <3> DEFINE q == [wr[w] EXCEPT !.acquire = "none", !.read = Lines]
    <3>1. wr' = [wr EXCEPT ![w] = q]
      BY <2>3 DEF NicCompareSwap
    <3>2. q \in Queues /\ q.write = wr[w].write
      BY <1>2 DEF Queues
    <3>3. QED
      BY <3>1, <3>2
  <2>4. QED
    BY <2>1, <2>2, <2>3 DEF Atomics
<1>4. wr' \in [Workers -> Queues] /\ wr'[w] = q /\ \A v \in Workers \ {w} : wr'[v] = wr[v]
  BY <1>2, <1>3
<1>5. /\ x_locked' \in [Workers -> Words] /\ x_locked'[w] = lockw
      /\ \A v \in Workers \ {w} : x_locked'[v] = x_locked[v]
  BY <1>1 DEF TypeOK
<1>6. QED
  BY <1>1, <1>3, <1>4, <1>5 DEF Others, TypeOK

\* Who else is in a round, and who else owns the tuple, stays.
LEMMA OthersCount ==
    ASSUME NEW w \in Workers, Others(w)
    PROVE  /\ Rounds' = IF Registered(w)' THEN Rounds \union {w} ELSE Rounds \ {w}
           /\ Owners' = IF HoldsExclusive(w)' THEN Owners \union {w} ELSE Owners \ {w}
<1>1. \A v \in Workers \ {w} : /\ Registered(v)' <=> Registered(v)
                               /\ HoldsExclusive(v)' <=> HoldsExclusive(v)
  BY DEF Others, Registered, HoldsExclusive, Released
<1>2. QED
  BY <1>1 DEF Rounds, Owners

\* The lock word, as a formula about the next state.
LEMMA WordThen ==
    lockw' = Cardinality(Rounds') + Excl * Cardinality(Owners') => LockWordExact'
BY DEF LockWordExact, Rounds, Owners

\* A round begins.
LEMMA FetchAddStep ==
    ASSUME IInv, NEW w \in Workers, NicFetchAdd(w)
    PROVE  IInv'
<1> USE WordFacts
<1>1. /\ data' = data /\ pc' = pc /\ buffer' = buffer /\ updates' = updates /\ Others(w)
      /\ wr'[w].write = {} /\ (lockw' \in Words => TypeOK')
  BY AtomicsEffect DEF IInv, Atomics
<1>2. /\ wr[w].acquire = "shared" /\ Released(w) /\ lockw' = AddWords(lockw, 1) /\ QueueOK(w)
      /\ wr \in [Workers -> Queues] /\ lockw \in Words
      /\ wr' = [wr EXCEPT ![w].acquire = "none", ![w].read = Lines, ![w].release = 1]
  BY DEF IInv, TypeOK, QueuesOK, NicFetchAdd, Atomic
<1>3. /\ wr'[w].acquire = "none" /\ wr'[w].release = 1 /\ wr'[w].rounds = wr[w].rounds
      /\ pc[w] = "s_poll"
  BY <1>2 DEF Queues, QueueOK
<1>4. /\ ~Registered(w) /\ Registered(w)' /\ ~HoldsExclusive(w) /\ ~HoldsExclusive(w)'
      /\ ~Reading(w)'
  BY <1>1, <1>2, <1>3 DEF Registered, HoldsExclusive, Reading, Released
<1>5. Rounds' = Rounds \union {w} /\ Owners' = Owners /\ w \notin Rounds
  BY <1>1, <1>4, OthersCount DEF Rounds, Owners
<1>6. Cardinality(Rounds') = Cardinality(Rounds) + 1
  BY <1>5, CountFacts, FS_AddElement
<1>7. Cardinality(Rounds') <= Cardinality(Workers)
  <2>1. Rounds' \in SUBSET Workers
    BY <1>5 DEF Rounds
  <2>2. QED
    BY <2>1, WorkersAssumption, FS_Subset
<1>8. /\ lockw = Cardinality(Rounds) + Excl * Cardinality(Owners)
      /\ Cardinality(Owners) \in {0, 1} /\ Cardinality(Rounds) \in Nat
  BY CountFacts, OwnersCount DEF IInv
<1>9. lockw + 1 < WordSize /\ lockw \in Nat
  BY <1>6, <1>7, <1>8
<1>10. lockw' = lockw + 1
  BY <1>2, <1>9, WordArithmetic
<1>11. lockw' = Cardinality(Rounds') + Excl * Cardinality(Owners') /\ lockw' \in Words
  <2>1. PICK owned : owned = Excl * Cardinality(Owners) /\ owned = Excl * Cardinality(Owners')
    BY <1>5
  <2>2. lockw = Cardinality(Rounds) + owned
    BY <1>8, <2>1
  <2>3. owned \in Nat
    BY <1>8, <2>1
  <2>4. lockw' = Cardinality(Rounds') + owned
    BY <1>6, <1>8, <1>10, <2>2, <2>3
  <2>5. QED
    BY <1>9, <1>10, <2>1, <2>4
<1>12. QueueOK(w)'
  BY <1>1, <1>2, <1>3 DEF QueueOK
<1>13. Exclusion'
  BY <1>5 DEF IInv, Exclusion, Owners
<1>14. OwnersData'
  BY <1>1, <1>4, DataStep DEF IInv
<1>15. QED
  BY <1>1, <1>11, <1>12, <1>13, <1>14, WordThen, QueuesStep DEF IInv

\* A swap succeeds where there is neither an owner nor a round.
LEMMA CompareSwapStep ==
    ASSUME IInv, NEW w \in Workers, NicCompareSwap(w)
    PROVE  IInv'
<1> USE WordFacts
<1>1. /\ data' = data /\ pc' = pc /\ buffer' = buffer /\ updates' = updates /\ Others(w)
      /\ wr'[w].write = {} /\ (lockw' \in Words => TypeOK') /\ x_locked'[w] = lockw
  BY AtomicsEffect DEF IInv, Atomics
<1>2. /\ wr[w].acquire = "exclusive" /\ Released(w) /\ QueueOK(w)
      /\ lockw' = (IF lockw = 0 THEN Excl ELSE lockw)
      /\ wr \in [Workers -> Queues] /\ lockw \in Words
      /\ wr' = [wr EXCEPT ![w].acquire = "none", ![w].read = Lines]
  BY DEF IInv, TypeOK, QueuesOK, NicCompareSwap, Atomic
<1>3. /\ wr'[w].acquire = "none" /\ wr'[w].release = 0 /\ wr'[w].rounds = wr[w].rounds
      /\ wr'[w].read = Lines /\ pc[w] = "x_poll"
  BY <1>2 DEF Queues, QueueOK, Released
<1>4. /\ ~Registered(w) /\ ~Registered(w)' /\ ~HoldsExclusive(w)
      /\ HoldsExclusive(w)' <=> lockw = 0
  BY <1>1, <1>2, <1>3 DEF Registered, HoldsExclusive, Released
<1>5. Rounds' = Rounds /\ Owners' = IF lockw = 0 THEN Owners \union {w} ELSE Owners
  BY <1>1, <1>4, OthersCount DEF Rounds, Owners
<1>6. /\ lockw = Cardinality(Rounds) + Excl * Cardinality(Owners)
      /\ Cardinality(Owners) \in {0, 1} /\ Cardinality(Rounds) \in Nat
  BY CountFacts, OwnersCount DEF IInv
<1>7. CASE lockw = 0
  <2>1. Cardinality(Owners) = 0 /\ Cardinality(Rounds) = 0
    BY <1>6, <1>7
  <2>2. Owners' = {w}
    BY <1>5, <1>7, <2>1, CountFacts
  <2>3. Cardinality(Owners') = 1
    BY <2>2, FS_Singleton
  <2>4. lockw' = Cardinality(Rounds') + Excl * Cardinality(Owners') /\ lockw' \in Words
    BY <1>2, <1>5, <1>7, <2>1, <2>3
  <2>5. Exclusion'
    BY <2>2 DEF Exclusion, Owners
  <2>6. QED
    BY <2>4, <2>5, WordThen, <1>1, <1>3, <1>2, QueuesStep, DataStep DEF IInv, QueueOK, Released
<1>8. CASE lockw # 0
  <2>1. lockw' = lockw /\ Owners' = Owners
    BY <1>2, <1>5, <1>8
  <2>2. lockw' = Cardinality(Rounds') + Excl * Cardinality(Owners') /\ lockw' \in Words
    BY <1>2, <1>5, <1>6, <2>1
  <2>3. Exclusion'
    BY <2>1 DEF IInv, Exclusion, Owners
  <2>4. QED
    BY <2>2, <2>3, WordThen, <1>1, <1>3, <1>2, QueuesStep, DataStep DEF IInv, QueueOK, Released
<1>9. QED
  BY <1>7, <1>8

\* A round ends, or an owner's turn does.
LEMMA ReleaseStep ==
    ASSUME IInv, NEW w \in Workers, NicRelease(w)
    PROVE  IInv'
<1> USE WordFacts
<1>1. /\ data' = data /\ pc' = pc /\ buffer' = buffer /\ updates' = updates /\ Others(w)
      /\ wr'[w].write = {} /\ (lockw' \in Words => TypeOK')
  BY AtomicsEffect DEF IInv, Atomics
<1>2. /\ wr[w].release \in {1, Excl} /\ wr[w].read = {} /\ QueueOK(w)
      /\ lockw' = SubWords(lockw, wr[w].release)
      /\ wr \in [Workers -> Queues] /\ lockw \in Words
      /\ wr' = [wr EXCEPT ![w] = NextRound(wr[w])]
  BY DEF IInv, TypeOK, Queues, QueuesOK, NicRelease, Atomic
<1>3. /\ wr'[w].release = 0 /\ wr'[w].read = {}
      /\ \/ wr'[w].acquire = wr[w].acquire /\ wr'[w].rounds = wr[w].rounds
         \/ wr'[w].acquire = "shared" /\ wr[w].rounds # 0
  BY <1>2 DEF Queues, NextRound
<1>4. pc[w] # "x_cs" /\ (pc[w] = "x_poll" => wr'[w].acquire # "none")
  BY <1>2, <1>3 DEF QueueOK, Released
<1>5. ~Registered(w)' /\ ~HoldsExclusive(w)' /\ ~Reading(w)'
  BY <1>1, <1>3, <1>4 DEF Registered, HoldsExclusive, Reading
<1>6. Rounds' = Rounds \ {w} /\ Owners' = Owners \ {w}
  BY <1>1, <1>5, OthersCount
<1>7. /\ lockw = Cardinality(Rounds) + Excl * Cardinality(Owners)
      /\ Cardinality(Owners) \in {0, 1} /\ Cardinality(Rounds) \in Nat
  BY CountFacts, OwnersCount DEF IInv
<1>8. lockw' = Cardinality(Rounds') + Excl * Cardinality(Owners') /\ lockw' \in Words
  <2>1. CASE wr[w].release = 1
    <3>1. w \in Rounds /\ w \notin Owners
      BY <1>2, <1>4, <2>1 DEF Rounds, Owners, Registered, HoldsExclusive, Released
    <3>2. Owners' = Owners /\ Cardinality(Rounds') = Cardinality(Rounds) - 1
      <4>1. Owners' = Owners
        BY <1>6, <3>1
      <4>2. Cardinality(Rounds \ {w}) = Cardinality(Rounds) - 1
        BY <3>1, CountFacts, FS_RemoveElement
      <4>3. QED
        BY <1>6, <4>1, <4>2
    <3>3. Cardinality(Rounds) >= 1
      <4>1. Rounds # {}
        BY <3>1
      <4>2. Cardinality(Rounds) # 0 /\ Cardinality(Rounds) \in Nat
        BY <4>1, CountFacts
      <4>3. QED
        BY ONLY <4>2
    <3>4. \A n \in {0, 1} : Excl * n = IF n = 1 THEN Excl ELSE 0
      OBVIOUS
    <3>5. PICK owned \in {0, Excl} : /\ owned = Excl * Cardinality(Owners)
                                     /\ owned = Excl * Cardinality(Owners')
      BY <1>7, <3>2, <3>4
    <3>6. lockw = Cardinality(Rounds) + owned
      BY <1>7, <3>5
    <3>7. lockw >= 1 /\ lockw < WordSize /\ lockw \in Nat
      BY <1>2, <1>7, <3>3, <3>6
    <3>8. lockw' = lockw - 1
      BY <1>2, <2>1, <3>7, WordArithmetic
    <3>9. lockw' = Cardinality(Rounds') + owned
      BY <1>7, <3>2, <3>6, <3>8
    <3>10. QED
      BY <3>5, <3>7, <3>8, <3>9
  <2>2. CASE wr[w].release = Excl
    <3>1. w \notin Rounds /\ w \in Owners
      BY <2>2 DEF Rounds, Owners, Registered, HoldsExclusive
    <3>2. Rounds' = Rounds /\ Cardinality(Owners) = 1 /\ Owners' = {}
      BY <1>6, <3>1, OwnersCount DEF IInv
    <3>3. Cardinality(Owners') = 0
      BY <3>2, FS_EmptySet
    <3>4. lockw >= Excl /\ lockw < WordSize /\ lockw \in Nat
      BY <1>2, <1>7, <3>2
    <3>5. lockw' = lockw - Excl
      BY <1>2, <2>2, <3>4, WordArithmetic
    <3>6. QED
      BY <1>2, <1>7, <3>2, <3>3, <3>4, <3>5
  <2>3. QED
    BY <1>2, <2>1, <2>2
<1>9. QueueOK(w)'
  BY <1>1, <1>2, <1>3, <1>4 DEF QueueOK, Released
<1>10. Exclusion'
  BY <1>6 DEF IInv, Exclusion, Owners
<1>11. OwnersData'
  BY <1>1, <1>5, DataStep DEF IInv
<1>12. QED
  BY <1>1, <1>8, <1>9, <1>10, <1>11, WordThen, QueuesStep DEF IInv

-----------------------------------------------------------------------------

\* Every step of the system keeps the invariant.
LEMMA NextInv == IInv /\ [Next]_vars => IInv'
<1> SUFFICES ASSUME IInv, [Next]_vars PROVE IInv'
  OBVIOUS
<1>1. ASSUME NEW w \in Workers, Nic(w) PROVE IInv'
  BY <1>1, WriteStep, ReadStep, ReleaseStep, FetchAddStep, CompareSwapStep DEF Nic
<1>2. ASSUME NEW w \in Workers, Thread(w) PROVE IInv'
  BY <1>2, IdleStep, PostStep, UnlockStep DEF Thread, Idles
<1>3. ASSUME UNCHANGED vars PROVE IInv'
  BY <1>3 DEF vars, IInv, TypeOK, QueuesOK, QueueOK, Released, Exclusion, LockWordExact,
     Registered, HoldsExclusive, OwnersData, Reading
<1>4. QED
  BY <1>1, <1>2, <1>3 DEF Next

\* IInv is an invariant of the batched lock.
LEMMA Invariance == Spec => []IInv
BY InitInv, NextInv, PTL DEF Spec

\* The state of BatchedRWLock stays in its types; the lock word, which readers
\* of all batches add to beside an owner, stays a word.
THEOREM BatchedTypeCorrect == Spec => []TypeOK
BY Invariance, PTL DEF IInv

\* The lock word counts the rounds under way and the one owner.
THEOREM BatchedWordExact == Spec => []LockWordExact
BY Invariance, PTL DEF IInv

\* A writer computes its update from the whole and current tuple, although
\* readers that nobody refuses come and go beside it.
THEOREM BatchedWriterSnapshot == Spec => []WriterSnapshot
<1>1. IInv => WriterSnapshot
  <2> SUFFICES ASSUME IInv, NEW w \in Workers, pc[w] = "x_cs", NEW l \in Lines
               PROVE  buffer[w][l] = data[l]
    BY DEF WriterSnapshot
  <2>1. Reading(w) /\ wr[w].read = {}
    BY DEF IInv, QueuesOK, QueueOK, Reading
  <2>2. QED
    BY <2>1 DEF IInv, OwnersData
<1>2. QED
  BY <1>1, Invariance, PTL

-----------------------------------------------------------------------------
(* The updates.                                                            *)

\* w has updated its buffer, and the update is on its way.
Owed(w) == wr[w].release = Excl

\* The tuple counts all updates, or is about to: the lines that the WRITE under
\* way has yet to store are in its buffer.
Sum     == Total(updates)
Paid(w) == \A l \in Lines : /\ buffer[w][l] = Sum
                            /\ l \notin wr[w].write => data[l] = Sum
CountOK == /\ \A w \in Workers : Owed(w) => Paid(w)
           /\ (\A w \in Workers : ~Owed(w)) => \A l \in Lines : data[l] = Sum

\* The sum changes with the updates only,
LEMMA SameSum == updates' = updates => Sum' = Sum
BY DEF Sum

\* and what is owed changes with the WRITE and the release.
LEMMA SameCount ==
    ASSUME CountOK, updates' = updates, data' = data,
           \A v \in Workers : /\ Owed(v)' <=> Owed(v)
                              /\ Owed(v) => /\ buffer'[v] = buffer[v]
                                            /\ wr'[v].write = wr[v].write
    PROVE  CountOK'
<1>1. Sum' = Sum
  BY SameSum
<1>2. \A v \in Workers : Owed(v)' => Paid(v)'
  BY <1>1 DEF CountOK, Paid
<1>3. (\A v \in Workers : ~Owed(v)') => \A l \in Lines : data'[l] = Sum'
  BY <1>1 DEF CountOK
<1>4. QED
  BY <1>2, <1>3 DEF CountOK

\* There is nothing to count in the beginning.
LEMMA InitCount == Init => CountOK
<1> SUFFICES ASSUME Init PROVE CountOK
  OBVIOUS
<1>1. Sum = 0
  BY WorkersAssumption, TotalOfZeros DEF Init, Sum
<1>2. \A w \in Workers : ~Owed(w)
  BY WordFacts DEF Init, Owed
<1>3. QED
  BY <1>1, <1>2 DEF Init, CountOK

\* Whoever owes is alone with that.
LEMMA OwesAlone ==
    ASSUME IInv, NEW w \in Workers, HoldsExclusive(w)
    PROVE  \A v \in Workers \ {w} : ~Owed(v) /\ wr[v].write = {}
BY DEF IInv, Exclusion, HoldsExclusive, Owed, QueuesOK, QueueOK

\* An update counts when it is made.
LEMMA UnlockCount ==
    ASSUME IInv, CountOK, NEW w \in Workers, UnlockExclusive(w)
    PROVE  CountOK'
<1>1. /\ pc[w] = "x_cs" /\ data' = data
      /\ buffer' = [buffer EXCEPT ![w] = [l \in Lines |-> buffer[w][l] + 1]]
      /\ updates' = [updates EXCEPT ![w] = updates[w] + 1]
      /\ wr' = [wr EXCEPT ![w].write = Lines, ![w].release = Excl]
  BY DEF UnlockExclusive, Goto
<1>2. /\ wr'[w].write = Lines /\ wr'[w].release = Excl
      /\ \A v \in Workers \ {w} : wr'[v] = wr[v]
  BY <1>1 DEF IInv, TypeOK, Queues
<1>3. HoldsExclusive(w) /\ wr[w].release = 0 /\ wr[w].read = {} /\ Reading(w)
  BY <1>1 DEF HoldsExclusive, Reading, IInv, QueuesOK, QueueOK, Released
<1>4. \A v \in Workers : ~Owed(v)
  BY <1>3, OwesAlone, WordFacts DEF Owed
<1>5. \A l \in Lines : buffer[w][l] = data[l] /\ data[l] = Sum
  BY <1>3, <1>4 DEF CountOK, IInv, OwnersData
<1>6. Sum \in Int /\ Sum' = Sum + 1
  <2>1. updates \in [Workers -> Int] /\ updates' \in [Workers -> Int]
    BY <1>1 DEF IInv, TypeOK
  <2>2. updates'[w] = updates[w] + 1 /\ \A v \in Workers \ {w} : updates'[v] = updates[v]
    BY <1>1 DEF IInv, TypeOK
  <2>3. QED
    BY <2>1, <2>2, WorkersAssumption, TotalOfChanged DEF Sum
<1>7. \A l \in Lines : buffer'[w][l] = Sum'
  <2>1. \A l \in Lines : buffer'[w][l] = buffer[w][l] + 1
    BY <1>1 DEF IInv, TypeOK
  <2>2. QED
    BY <1>5, <1>6, <2>1
<1>8. Owed(w)' /\ \A v \in Workers \ {w} : ~Owed(v)'
  BY <1>2, <1>4 DEF Owed
<1>9. QED
  BY <1>2, <1>7, <1>8 DEF CountOK, Paid

\* A line of the WRITE.
LEMMA WriteCount ==
    ASSUME IInv, CountOK, NEW w \in Workers, NEW l \in Lines, NicWrite(w, l)
    PROVE  CountOK'
<1>1. /\ buffer' = buffer /\ updates' = updates /\ l \in wr[w].write
      /\ data' = [data EXCEPT ![l] = buffer[w][l]]
      /\ wr' = [wr EXCEPT ![w].write = wr[w].write \ {l}]
  BY DEF NicWrite
<1>2. /\ wr'[w].write = wr[w].write \ {l} /\ wr'[w].release = wr[w].release
      /\ \A v \in Workers \ {w} : wr'[v] = wr[v]
  BY <1>1 DEF IInv, TypeOK, Queues
<1>3. Owed(w) /\ HoldsExclusive(w)
  BY <1>1 DEF IInv, QueuesOK, QueueOK, Owed, HoldsExclusive
<1>4. data'[l] = buffer[w][l] /\ \A m \in Lines \ {l} : data'[m] = data[m]
  BY <1>1 DEF IInv, TypeOK
<1>5. Owed(w)' /\ \A v \in Workers \ {w} : ~Owed(v)'
  BY <1>2, <1>3, OwesAlone DEF Owed
<1>6. \A m \in Lines : /\ buffer[w][m] = Sum
                       /\ m \notin wr[w].write => data[m] = Sum
  BY <1>3 DEF CountOK, Paid
<1>7. Sum' = Sum
  BY <1>1, SameSum
<1>8. Paid(w)'
  BY <1>1, <1>2, <1>4, <1>6, <1>7 DEF Paid
<1>9. QED
  BY <1>5, <1>8 DEF CountOK

\* A line of a READ: whoever reads owes nothing.
LEMMA ReadCount ==
    ASSUME IInv, CountOK, NEW w \in Workers, NEW l \in Lines, NicRead(w, l)
    PROVE  CountOK'
<1>1. /\ data' = data /\ updates' = updates /\ l \in wr[w].read
      /\ buffer' = [buffer EXCEPT ![w][l] = data[l]]
      /\ wr' = [wr EXCEPT ![w].read = wr[w].read \ {l}]
  BY DEF NicRead
<1>2. /\ wr'[w].release = wr[w].release /\ \A v \in Workers \ {w} : wr'[v] = wr[v]
      /\ \A v \in Workers \ {w} : buffer'[v] = buffer[v]
  BY <1>1 DEF IInv, TypeOK, Queues
<1>3. ~Owed(w)
  BY <1>1 DEF IInv, QueuesOK, QueueOK, Owed
<1>4. \A v \in Workers : /\ Owed(v)' <=> Owed(v)
                         /\ Owed(v) => buffer'[v] = buffer[v] /\ wr'[v] = wr[v]
  BY <1>2, <1>3 DEF Owed
<1>5. QED
  BY <1>1, <1>4, SameCount

\* The release is executed when all lines are stored.
LEMMA ReleaseCount ==
    ASSUME IInv, CountOK, NEW w \in Workers, NicRelease(w)
    PROVE  CountOK'
<1>1. /\ data' = data /\ buffer' = buffer /\ updates' = updates /\ wr[w].write = {}
      /\ wr' = [wr EXCEPT ![w] = NextRound(wr[w])]
  BY DEF NicRelease, Atomic
<1>2. wr'[w].release = 0 /\ \A v \in Workers \ {w} : wr'[v] = wr[v]
  BY <1>1 DEF IInv, TypeOK, Queues, NextRound
<1>3. ~Owed(w)' /\ \A v \in Workers \ {w} : Owed(v)' <=> Owed(v)
  BY <1>2, WordFacts DEF Owed
<1>4. CASE Owed(w)
  <2>1. \A l \in Lines : data[l] = Sum
    <3>1. Paid(w) /\ wr[w].write = {}
      BY <1>1, <1>4 DEF CountOK
    <3>2. QED
      BY <3>1 DEF Paid
  <2>2. \A v \in Workers : ~Owed(v)'
    BY <1>3, <1>4, OwesAlone DEF Owed, HoldsExclusive
  <2>3. data' = data /\ Sum' = Sum
    BY <1>1, SameSum
  <2>4. QED
    BY <2>1, <2>2, <2>3 DEF CountOK
<1>5. CASE ~Owed(w)
  <2>1. \A v \in Workers : (Owed(v)' <=> Owed(v)) /\ (Owed(v) => wr'[v] = wr[v])
    BY <1>2, <1>3, <1>5
  <2>2. QED
    BY <1>1, <2>1, SameCount
<1>6. QED
  BY <1>4, <1>5

\* Whatever else is done counts nothing.
LEMMA OtherCount ==
    ASSUME IInv, CountOK, NEW w \in Workers,
           Idles(w) \/ LockShared(w) \/ LockExclusive(w) \/ NicFetchAdd(w) \/ NicCompareSwap(w)
    PROVE  CountOK'
<1>1. data' = data /\ buffer' = buffer /\ updates' = updates
  BY DEF Idles, SharedRead, UnlockShared, BeginWrite, ExclusiveRestart, ExclusiveLocked,
     LockShared, LockExclusive, NicFetchAdd, NicCompareSwap, Atomic
<1>2. \A v \in Workers : (Owed(v)' <=> Owed(v)) /\ wr'[v].write = wr[v].write
  <2>1. CASE Idles(w)
    BY <2>1 DEF Idles, SharedRead, UnlockShared, BeginWrite, ExclusiveRestart,
       ExclusiveLocked, Owed
  <2>2. CASE LockShared(w) \/ LockExclusive(w) \/ NicCompareSwap(w)
    <3>1. wr \in [Workers -> Queues] /\ \A v \in Workers \ {w} : wr'[v] = wr[v]
      BY <2>2 DEF LockShared, LockExclusive, NicCompareSwap, IInv, TypeOK
    <3>2. wr'[w].release = wr[w].release /\ wr'[w].write = wr[w].write
      <4>1. CASE LockShared(w)
        BY <3>1, <4>1 DEF LockShared, Queues
      <4>2. CASE LockExclusive(w)
        BY <3>1, <4>2 DEF LockExclusive, Queues
      <4>3. CASE NicCompareSwap(w)
        BY <3>1, <4>3 DEF NicCompareSwap, Queues
      <4>4. QED
        BY <2>2, <4>1, <4>2, <4>3
    <3>3. QED
      BY <3>1, <3>2 DEF Owed
  <2>3. CASE NicFetchAdd(w)
    <3>1. /\ wr' = [wr EXCEPT ![w].acquire = "none", ![w].read = Lines, ![w].release = 1]
          /\ wr[w].release = 0
      BY <2>3 DEF NicFetchAdd, Released
    <3>2. /\ wr'[w].release = 1 /\ wr'[w].write = wr[w].write
          /\ \A v \in Workers \ {w} : wr'[v] = wr[v]
      BY <3>1 DEF IInv, TypeOK, Queues
    <3>3. ~Owed(w) /\ ~Owed(w)'
      BY <3>1, <3>2, WordFacts DEF Owed
    <3>4. QED
      BY <3>2, <3>3 DEF Owed
  <2>4. QED
    BY <2>1, <2>2, <2>3
<1>3. QED
  BY <1>1, <1>2, SameCount

\* The invariant with the count.
LEMMA CountInvariance == Spec => [](IInv /\ CountOK)
<1>1. Init => IInv /\ CountOK
  BY InitInv, InitCount
<1>2. ASSUME IInv, CountOK, [Next]_vars PROVE CountOK'
  <2>1. ASSUME NEW w \in Workers, Nic(w) PROVE CountOK'
    BY <1>2, <2>1, WriteCount, ReadCount, ReleaseCount, OtherCount DEF Nic
  <2>2. ASSUME NEW w \in Workers, Thread(w) PROVE CountOK'
    BY <1>2, <2>2, UnlockCount, OtherCount DEF Thread, Idles
  <2>3. ASSUME UNCHANGED vars PROVE CountOK'
    <3>1. /\ updates' = updates /\ data' = data
          /\ \A v \in Workers : buffer'[v] = buffer[v] /\ wr'[v] = wr[v]
      BY <2>3 DEF vars
    <3>2. QED
      BY <1>2, <3>1, SameCount DEF Owed
  <2>4. QED
    BY <1>2, <2>1, <2>2, <2>3 DEF Next
<1>3. IInv /\ CountOK /\ [Next]_vars => (IInv /\ CountOK)'
  BY <1>2, NextInv
<1>4. QED
  BY <1>1, <1>3, PTL DEF Spec

\* Readers that nobody refuses do not make a writer lose an update: when nobody
\* owns the tuple, every line of it counts the updates of all workers.
THEOREM BatchedUpdatesAddUp == Spec => []NoLostUpdate
<1>1. IInv /\ CountOK => NoLostUpdate
  BY DEF NoLostUpdate, CountOK, HoldsExclusive, Owed, Sum, Total
<1>2. QED
  BY <1>1, CountInvariance, PTL
=============================================================================
