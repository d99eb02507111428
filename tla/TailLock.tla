------------------------------ MODULE TailLock ------------------------------
(***************************************************************************)
(* The reader/writer lock of frontend/locking_benchmark_tail.cpp.  The     *)
(* lock word stands behind the payload, in the tuple's last 8 bytes.  Bit  *)
(* 0 is the writer's, each reader adds 2.  A writer needs no release of    *)
(* its own: its WRITE covers the whole tuple and ends in a lock word of 0. *)
(* A refused reader does not deregister, the writer's WRITE wipes it out.  *)
(*                                                                         *)
(* A worker is a thread and the send queue of its queue pair, as in        *)
(* RWLock.  What a queue pair still has to do stands in the order          *)
(*   WRITE payload, WRITE lock word, FAA(-2), atomic acquire, READ payload *)
(* A WRITE fills the payload in any order, and the lock word, which it is  *)
(* followed by in memory, last.  Every payload word holds one counter.     *)
(*                                                                         *)
(* RDMA atomics are atomic with one another only: the device fetches the   *)
(* word in one step and stores the result in another, and the last word of *)
(* a WRITE may land in between.                                            *)
(***************************************************************************)
EXTENDS Integers, FiniteSets

CONSTANTS
    Workers,     \* the worker threads, each in a compute node of its own
    Lines,       \* the cache lines of the payload
    HalfWord,    \* half the number of values of a 64-bit word, 2^63 in the code
    Variants,    \* the settings of the benchmark's flags to explore
    NoOwner,     \* what stands for the owner of a lock nobody owns
    MaxUpdates   \* bound: the updates one worker makes

ASSUME WorkersAssumption == Workers # {} /\ IsFiniteSet(Workers)
ASSUME LinesAssumption == Lines # {}
ASSUME WordAssumption == HalfWord \in Nat /\ Cardinality(Workers) < HalfWord
ASSUME VariantsAssumption ==
    Variants \subseteq [speculative_read : BOOLEAN, order_release : BOOLEAN]
ASSUME NoOwnerAssumption == NoOwner \notin Workers
ASSUME MaxUpdatesAssumption == MaxUpdates \in Nat

VARIABLES
    variant,       \* the flags of this run of the benchmark
    lockw,         \* remote: the last word of the tuple
    data,          \* remote: the counter in each cache line of the payload
    atomic,        \* remote: whose atomic the device has fetched the lock word
                   \* for and has not stored the result of, or NoOwner
    pc,            \* where each thread stands
    old7,          \* old[LOCK_OFFSET_INDEX]: the local copy of the lock word,
                   \* where what an atomic has fetched lands
    old,           \* old[0..]: the payload in the thread's local buffer
    wr,            \* what each queue pair still has to execute
    failed,        \* the workers whose queue pair is in the error state
    updates,       \* the thread's count of its own updates
    g_updates,     \* the total, added up as threads leave
    keep_running

local  == <<pc, old7, old, updates>>
remote == <<lockw, data, atomic>>
main   == <<variant, g_updates, keep_running>>
vars   == <<variant, lockw, data, atomic, pc, old7, old, wr, failed, updates,
            g_updates, keep_running>>

LOCK_OFFSET_BYTE  == 56
LOCK_OFFSET_INDEX == 7

Words == 0 .. 2 * HalfWord - 1

Queues == [write : SUBSET Lines, unlock : BOOLEAN, release : BOOLEAN,
           acquire : {"none", "shared", "exclusive"}, read : SUBSET Lines]
EmptyQueue == [write |-> {}, unlock |-> FALSE, release |-> FALSE,
               acquire |-> "none", read |-> {}]

TypeOK ==
    /\ variant \in Variants
    /\ lockw \in Words
    /\ data \in [Lines -> Nat]
    /\ atomic \in Workers \union {NoOwner}
    /\ pc \in [Workers -> {"idle", "s_lock", "s_read", "s_cs", "s_release", "x_lock",
                           "x_read", "x_cs", "x_write", "done", "aborted"}]
    /\ old7 \in [Workers -> Words]
    /\ old \in [Workers -> [Lines -> Nat]]
    /\ wr \in [Workers -> Queues]
    /\ failed \in SUBSET Workers
    /\ updates \in [Workers -> Nat]
    /\ g_updates \in Nat
    /\ keep_running \in BOOLEAN

Init ==
    /\ variant \in Variants
    /\ lockw = 0
    /\ data = [l \in Lines |-> 0]
    /\ atomic = NoOwner
    /\ pc = [w \in Workers |-> "idle"]
    /\ old7 = [w \in Workers |-> 0]
    /\ old = [w \in Workers |-> [l \in Lines |-> 0]]
    /\ wr = [w \in Workers |-> EmptyQueue]
    /\ failed = {}
    /\ updates = [w \in Workers |-> 0]
    /\ g_updates = 0
    /\ keep_running = TRUE

-----------------------------------------------------------------------------
(* The queue pair.                                                         *)

\* Mutant: the FAA does not wrap at 64 bits.
AddUnbounded(a, b) == a + b

\* Registrations of refused readers add up while a writer owns the tuple.
AddWords(a, b) == IF a + b >= 2 * HalfWord THEN a + b - 2 * HalfWord ELSE a + b

Odd(word) == word % 2 = 1

\* The payload's part of the WRITE, from what the local buffer holds now.
NicWrite(w, l) ==
    /\ l \in wr[w].write
    /\ data' = [data EXCEPT ![l] = old[w][l]]
    /\ wr' = [wr EXCEPT ![w].write = @ \ {l}]
    /\ UNCHANGED <<lockw, atomic, local, failed, main>>

\* Mutant: the lock word of the WRITE lands first.
NicUnlockFirst(w) ==
    /\ wr[w].unlock
    /\ lockw' = old7[w]
    /\ wr' = [wr EXCEPT ![w].unlock = FALSE]
    /\ UNCHANGED <<data, atomic, local, failed, main>>

\* The end of the WRITE: the local copy of the lock word, behind the payload.
NicUnlock(w) ==
    /\ wr[w].unlock
    /\ wr[w].write = {}
    /\ lockw' = old7[w]
    /\ wr' = [wr EXCEPT ![w].unlock = FALSE]
    /\ UNCHANGED <<data, atomic, local, failed, main>>

Written(w) == wr[w].write = {} /\ ~wr[w].unlock

\* s_order_release adds an index in words to an address, s_unlock an offset in bytes.
ReleaseOffset == IF variant.order_release THEN LOCK_OFFSET_INDEX ELSE LOCK_OFFSET_BYTE
Aligned == ReleaseOffset % 8 = 0

\* The responder refuses an atomic whose address is no multiple of 8: the
\* queue pair enters the error state and flushes what is posted to it.
NicFail(w) ==
    /\ \/ wr[w].release /\ Written(w) /\ ~Aligned
       \/ w \in failed /\ wr[w] # EmptyQueue
    /\ failed' = failed \union {w}
    /\ wr' = [wr EXCEPT ![w] = EmptyQueue]
    /\ UNCHANGED <<remote, local, main>>

Released(w) == Written(w) /\ ~wr[w].release /\ w \notin failed

\* The device begins one atomic at a time, and fetches the word.
NicFetch(w) ==
    /\ atomic = NoOwner
    /\ \/ wr[w].release /\ Written(w) /\ Aligned
       \/ wr[w].acquire # "none" /\ Released(w)
    /\ old7' = [old7 EXCEPT ![w] = lockw]
    /\ atomic' = w
    /\ UNCHANGED <<lockw, data, pc, old, wr, updates, failed, main>>

\* What it stores is computed from what it has fetched.
Store(w, word) ==
    /\ atomic = w
    /\ lockw' = word
    /\ atomic' = NoOwner
    /\ UNCHANGED <<data, local, failed, main>>

NicRelease(w) ==
    /\ wr[w].release
    /\ Store(w, AddWords(old7[w], 2 * HalfWord - 2))
    /\ wr' = [wr EXCEPT ![w].release = FALSE]

\* FETCH_AND_ADD(2) registers a reader, whoever holds the lock.
NicFetchAdd(w) ==
    /\ wr[w].acquire = "shared"
    /\ Released(w)
    /\ Store(w, AddWords(old7[w], 2))
    /\ wr' = [wr EXCEPT ![w].acquire = "none"]

\* COMPARE_AND_SWAP(UNLOCKED, 1); one that fails stores nothing.
NicCompareSwap(w) ==
    /\ wr[w].acquire = "exclusive"
    /\ Released(w)
    /\ Store(w, IF old7[w] = 0 THEN 1 ELSE lockw)
    /\ wr' = [wr EXCEPT ![w].acquire = "none"]

Acquired(w) == Released(w) /\ wr[w].acquire = "none"

\* basic_x_lock reads the lock word, too; its copy is overwritten with 0
\* before anybody looks at it and is left out.
NicRead(w, l) ==
    /\ l \in wr[w].read
    /\ Acquired(w)
    /\ old' = [old EXCEPT ![w][l] = data[l]]
    /\ wr' = [wr EXCEPT ![w].read = @ \ {l}]
    /\ UNCHANGED <<remote, pc, old7, updates, failed, main>>

\* poll_cq returns: all that was posted is done.
Polled(w) == Acquired(w) /\ wr[w].read = {}

Nic(w) == \/ \E l \in Lines : NicWrite(w, l) \/ NicRead(w, l)
          \/ NicUnlock(w) \/ NicFail(w)
          \/ NicFetch(w) \/ NicRelease(w) \/ NicFetchAdd(w) \/ NicCompareSwap(w)

-----------------------------------------------------------------------------
(* The thread.                                                             *)

Goto(w, from, to) == pc[w] = from /\ pc' = [pc EXCEPT ![w] = to]

\* "wc failed": poll_cq throws, nothing catches, the process ends.
PollFails(w) ==
    /\ w \in failed
    /\ wr[w] = EmptyQueue
    /\ pc[w] \in {"s_lock", "s_read", "s_release", "x_lock", "x_read", "x_write"}
    /\ pc' = [pc EXCEPT ![w] = "aborted"]
    /\ UNCHANGED <<remote, old7, old, wr, updates, failed, main>>

SpeculativeRead == IF variant.speculative_read THEN Lines ELSE {}

\* With the lock in hand: the payload is there, or is read now.
Granted(w, lock, read, cs) ==
    /\ IF variant.speculative_read
       THEN Goto(w, lock, cs) /\ UNCHANGED wr
       ELSE Goto(w, lock, read) /\ wr' = [wr EXCEPT ![w].read = Lines]
    /\ UNCHANGED <<remote, old7, old, updates, failed, main>>

LockShared(w) ==
    /\ keep_running
    /\ Goto(w, "idle", "s_lock")
    /\ wr' = [wr EXCEPT ![w].acquire = "shared",
                        ![w].read = SpeculativeRead]
    /\ UNCHANGED <<remote, old7, old, updates, failed, main>>

\* Mutant: a refused reader deregisters, as in locking_benchmark.
SharedRefusedUndo(w) ==
    /\ Polled(w)
    /\ Odd(old7[w])
    /\ Goto(w, "s_lock", "s_release")
    /\ wr' = [wr EXCEPT ![w].release = TRUE]
    /\ UNCHANGED <<remote, old7, old, updates, failed, main>>

\* (s_locked & 1) == 1: a writer owns the tuple; continue with any tuple.
SharedRefused(w) ==
    /\ Polled(w)
    /\ Odd(old7[w])
    /\ Goto(w, "s_lock", "idle")
    /\ UNCHANGED <<remote, old7, old, wr, updates, failed, main>>

\* Mutant: only the plain mark of a writer keeps a reader out.
SharedGrantedBesideRefused(w) ==
    /\ Polled(w)
    /\ old7[w] # 1
    /\ Granted(w, "s_lock", "s_read", "s_cs")

SharedGranted(w) ==
    /\ Polled(w)
    /\ ~Odd(old7[w])
    /\ Granted(w, "s_lock", "s_read", "s_cs")

SharedRead(w) ==
    /\ Polled(w)
    /\ Goto(w, "s_read", "s_cs")
    /\ UNCHANGED <<remote, old7, old, wr, updates, failed, main>>

\* s_order_release posts the FAA and goes on; s_unlock polls for it.
SharedRelease(w) ==
    /\ IF variant.order_release THEN Goto(w, "s_cs", "idle") ELSE Goto(w, "s_cs", "s_release")
    /\ wr' = [wr EXCEPT ![w].release = TRUE]
    /\ UNCHANGED <<remote, old7, old, updates, failed, main>>

SharedReleased(w) ==
    /\ Polled(w)
    /\ Goto(w, "s_release", "idle")
    /\ UNCHANGED <<remote, old7, old, wr, updates, failed, main>>

Reader(w) == \/ LockShared(w) \/ SharedRefused(w) \/ SharedGranted(w) \/ SharedRead(w)
             \/ SharedRelease(w) \/ SharedReleased(w)

LockExclusive(w) ==
    /\ keep_running
    /\ updates[w] < MaxUpdates
    /\ Goto(w, "idle", "x_lock")
    /\ wr' = [wr EXCEPT ![w].acquire = "exclusive",
                        ![w].read = SpeculativeRead]
    /\ UNCHANGED <<remote, old7, old, updates, failed, main>>

\* Mutant: the swap is tried again until it succeeds, as in locking_benchmark.
ExclusiveRefusedRetry(w) ==
    /\ Polled(w)
    /\ old7[w] # 0
    /\ pc[w] = "x_lock"
    /\ wr' = [wr EXCEPT ![w].acquire = "exclusive",
                        ![w].read = SpeculativeRead]
    /\ UNCHANGED <<remote, local, failed, main>>

\* x_locked != UNLOCKED: continue, with a read or a write of any tuple.
ExclusiveRefused(w) ==
    /\ Polled(w)
    /\ old7[w] # 0
    /\ Goto(w, "x_lock", "idle")
    /\ UNCHANGED <<remote, old7, old, wr, updates, failed, main>>

\* Mutant: a writer looks at the writer's bit only, as the readers do.
ExclusiveGrantedBit(w) ==
    /\ Polled(w)
    /\ ~Odd(old7[w])
    /\ Granted(w, "x_lock", "x_read", "x_cs")

ExclusiveGranted(w) ==
    /\ Polled(w)
    /\ old7[w] = 0
    /\ Granted(w, "x_lock", "x_read", "x_cs")

ExclusiveRead(w) ==
    /\ Polled(w)
    /\ Goto(w, "x_read", "x_cs")
    /\ UNCHANGED <<remote, old7, old, wr, updates, failed, main>>

\* new_version = ++old[0], in every word but the last.
Incremented(payload) ==
    LET first == CHOOSE l \in Lines : TRUE
    IN  [l \in Lines |-> payload[first] + 1]

\* The WRITE of the whole tuple, its lock word set to 0; order_release does
\* not wait for it.
Update(w) ==
    /\ old' = [old EXCEPT ![w] = Incremented(@)]
    /\ old7' = [old7 EXCEPT ![w] = 0]
    /\ wr' = [wr EXCEPT ![w].write = Lines,
                        ![w].unlock = TRUE]
    /\ IF variant.order_release
       THEN Goto(w, "x_cs", "idle") /\ updates' = [updates EXCEPT ![w] = @ + 1]
       ELSE Goto(w, "x_cs", "x_write") /\ UNCHANGED updates
    /\ UNCHANGED <<remote, failed, main>>

Updated(w) ==
    /\ Polled(w)
    /\ Goto(w, "x_write", "idle")
    /\ updates' = [updates EXCEPT ![w] = @ + 1]
    /\ UNCHANGED <<remote, old7, old, wr, failed, main>>

Writer(w) == \/ LockExclusive(w) \/ ExclusiveRefused(w) \/ ExclusiveGranted(w)
             \/ ExclusiveRead(w) \/ Update(w) \/ Updated(w)

-----------------------------------------------------------------------------
(* The end of the run.                                                     *)

\* sleep(FLAGS_run_for_seconds); keep_running = false.
StopRunning ==
    /\ keep_running
    /\ keep_running' = FALSE
    /\ UNCHANGED <<remote, local, wr, failed, variant, g_updates>>

Finish(w) ==
    /\ ~keep_running
    /\ Goto(w, "idle", "done")
    /\ g_updates' = g_updates + updates[w]
    /\ UNCHANGED <<remote, old7, old, wr, updates, failed, variant, keep_running>>

AllLeft == \A w \in Workers : pc[w] \in {"done", "aborted"}
Drained == \A w \in Workers : wr[w] = EmptyQueue

Terminated == AllLeft /\ Drained /\ UNCHANGED vars

Thread(w) == Reader(w) \/ Writer(w) \/ PollFails(w) \/ Finish(w)

Next == \/ \E w \in Workers : Nic(w) \/ Thread(w)
        \/ StopRunning
        \/ Terminated

Spec == Init /\ [][Next]_vars

\* Threads keep running and queue pairs keep executing, as in RWLock.
Fairness == /\ \A w \in Workers : WF_vars(Nic(w)) /\ WF_vars(Thread(w))
            /\ WF_vars(StopRunning)

FairSpec == Spec /\ Fairness
-----------------------------------------------------------------------------
(* Who holds the lock.                                                     *)

\* w's swap succeeded and the end of its WRITE has not landed yet.
HoldsExclusive(w) ==
    \/ pc[w] = "x_lock" /\ wr[w].acquire = "none" /\ old7[w] = 0 /\ w \notin failed
    \/ pc[w] \in {"x_read", "x_cs"}
    \/ wr[w].unlock

\* w was registered when no writer owned the tuple.
HoldsShared(w) ==
    \/ pc[w] = "s_lock" /\ wr[w].acquire = "none" /\ ~Odd(old7[w]) /\ w \notin failed
    \/ pc[w] \in {"s_read", "s_cs"}

\* ... and has not been deregistered: where its FAA(-2) failed it never will be.
Registered(w) == HoldsShared(w) \/ wr[w].release \/ w \in failed

Readers == {w \in Workers : Registered(w)}
Owned   == \E w \in Workers : HoldsExclusive(w)

-----------------------------------------------------------------------------
(* Properties.                                                             *)

\* An even lock word tells the whole truth: nobody owns the tuple, and the
\* word is twice the number of readers that were let in, however many refused
\* ones have come and gone.  An odd one tells that no reader is let in; it does
\* not tell that there is an owner, see WriteUnlocks.
LockWordExact ==
    IF Odd(lockw) THEN Readers = {}
                  ELSE ~Owned /\ lockw = 2 * Cardinality(Readers)

\* The reader's own test, "prev_version != old[i]" throws, never fires: what
\* was read is one state of the tuple, and it is the current one.
SharedSnapshot ==
    \A w \in Workers : pc[w] = "s_cs" =>
        \A l, m \in Lines : old[w][l] = data[m]

\* TailLock implements RWLockSpec, as RWLock does: the WRITE is the update and
\* its last word the release.
Abstract == INSTANCE RWLockSpec WITH
    owner   <- IF Owned THEN CHOOSE w \in Workers : HoldsExclusive(w) ELSE NoOwner,
    sharers <- {w \in Workers : HoldsShared(w)},
    dirty   <- \E w \in Workers : wr[w].unlock,
    value   <- LET first == CHOOSE l \in Lines : TRUE
               IN  IF \E w \in Workers : wr[w].unlock
                   THEN old[CHOOSE w \in Workers : wr[w].unlock][first]
                   ELSE data[first]

Implements == Abstract!Spec

\* The workers end with the run, even where a reader left the lock word so
\* that no writer will ever get the lock again.
ThreadsLeave == ~keep_running ~> AllLeft

\* "old[LOCK_OFFSET_INDEX] = 0; // unlock": the end of the WRITE gives the
\* lock back.  It does not where a refused reader's FAA has fetched the word
\* before and stores it, with the writer's bit, behind.
WriteUnlocks == Odd(lockw) => Owned
=============================================================================
