------------------------------- MODULE RWLock -------------------------------
(***************************************************************************)
(* The pessimistic reader/writer lock of frontend/locking_benchmark.cpp    *)
(* (and nam_experiment.cpp, which differs in the number of storage nodes): *)
(* every lock operation is an RDMA verb on a tuple in remote memory.       *)
(*                                                                         *)
(* A tuple is its lock word, at word 0, and a payload that spans several   *)
(* cache lines; every payload word holds the same counter.  The lock word  *)
(* counts the registered readers and has Excl (EXCLUSIVE_LOCKED) added     *)
(* while a writer owns it.  Where the code reads the lock word along with  *)
(* the payload, the copy is overwritten before it is looked at: it is left *)
(* out.  Workers may turn to other tuples in between; one is modelled.     *)
(*                                                                         *)
(* A worker is a CPU thread and the send queue of its queue pair.  The     *)
(* thread posts work requests and polls for the signaled ones; the queue   *)
(* pair executes them in posting order.  Between two polls a thread has at *)
(* most one request of each kind in its queue, and they stand in the order *)
(*      WRITE payload, FAA release, atomic acquire, READ payload           *)
(* so wr[w], which says what is left of each, is the whole queue.          *)
(***************************************************************************)
EXTENDS Integers, FiniteSets

CONSTANTS
    Workers,     \* the worker threads of all compute nodes
    Lines,       \* the cache lines of the payload
    Excl,        \* EXCLUSIVE_LOCKED, 2^60 in the code
    WordSize,    \* the number of values of a 64-bit word, 2^64 in the code
    Variants,    \* the settings of the benchmark's flags to explore
    NoOwner,     \* what stands for the owner of a lock nobody owns
    MaxUpdates   \* bound: the updates one worker makes

ASSUME WorkersAssumption == Workers # {} /\ IsFiniteSet(Workers)
ASSUME LinesAssumption == Lines # {}
ASSUME WordAssumption ==
    /\ Excl \in Nat /\ WordSize \in Nat
    /\ 1 < Excl /\ Cardinality(Workers) < Excl
    /\ Excl + Cardinality(Workers) < WordSize
ASSUME VariantsAssumption ==
    Variants \subseteq
        [speculative_read : BOOLEAN, write_combining : BOOLEAN, order_release : BOOLEAN]
ASSUME NoOwnerAssumption == NoOwner \notin Workers
ASSUME MaxUpdatesAssumption == MaxUpdates \in Nat

VARIABLES
    variant,       \* the flags of this run of the benchmark
    lockw,         \* remote: word 0 of the tuple
    data,          \* remote: the counter in each cache line of the payload
    pc,            \* where each thread stands
    old0,          \* old[0]: the result of the thread's latest atomic
    old,           \* old[1..]: the payload in the thread's local buffer
    wr,            \* what each queue pair still has to execute
    updates,       \* the thread's count of its own updates
    g_updates,     \* the compute node's total, added up as threads leave
    keep_running

local  == <<pc, old0, old, updates>>
remote == <<lockw, data>>
main   == <<variant, g_updates, keep_running>>
vars   == <<variant, lockw, data, pc, old0, old, wr, updates, g_updates, keep_running>>

Words == 0 .. WordSize - 1

Queues == [write : SUBSET Lines, release : {0, 1, Excl},
           acquire : {"none", "shared", "exclusive"}, read : SUBSET Lines]
EmptyQueue == [write |-> {}, release |-> 0, acquire |-> "none", read |-> {}]

TypeOK ==
    /\ variant \in Variants
    /\ lockw \in Words
    /\ data \in [Lines -> Nat]
    /\ pc \in [Workers -> {"idle", "shared", "s_lock", "s_read", "s_cs", "s_release",
                           "s_undo", "exclusive", "x_lock", "x_read", "x_cs",
                           "x_write", "x_release", "done"}]
    /\ old0 \in [Workers -> Words]
    /\ old \in [Workers -> [Lines -> Nat]]
    /\ wr \in [Workers -> Queues]
    /\ updates \in [Workers -> Nat]
    /\ g_updates \in Nat
    /\ keep_running \in BOOLEAN

Init ==
    /\ variant \in Variants
    /\ lockw = 0
    /\ data = [l \in Lines |-> 0]
    /\ pc = [w \in Workers |-> "idle"]
    /\ old0 = [w \in Workers |-> 0]
    /\ old = [w \in Workers |-> [l \in Lines |-> 0]]
    /\ wr = [w \in Workers |-> EmptyQueue]
    /\ updates = [w \in Workers |-> 0]
    /\ g_updates = 0
    /\ keep_running = TRUE

-----------------------------------------------------------------------------
(* The queue pair.  What it does is the network's, not the code's.         *)

\* Mutant: the FAA does not wrap at 64 bits.
AddUnbounded(a, b) == a + b

\* The sum of two words, and the difference as the code writes it: the sum
\* with the two's complement (EXCLUSIVE_UNLOCK_TO_BE_ADDED, int64_t{-1}).
AddWords(a, b) == IF a + b >= WordSize THEN a + b - WordSize ELSE a + b
SubWords(a, b) == AddWords(a, WordSize - b)

\* A WRITE reaches the payload one cache line at a time, in any order.  It
\* takes what the local buffer holds at that moment.
NicWrite(w, l) ==
    /\ l \in wr[w].write
    /\ data' = [data EXCEPT ![l] = old[w][l]]
    /\ wr' = [wr EXCEPT ![w].write = @ \ {l}]
    /\ UNCHANGED <<lockw, local, main>>

\* FETCH_AND_ADD(-1) or FETCH_AND_ADD(-Excl); the old value lands in old[0].
NicRelease(w) ==
    /\ wr[w].release # 0
    /\ wr[w].write = {}
    /\ lockw' = SubWords(lockw, wr[w].release)
    /\ old0' = [old0 EXCEPT ![w] = lockw]
    /\ wr' = [wr EXCEPT ![w].release = 0]
    /\ UNCHANGED <<data, pc, old, updates, main>>

Released(w) == wr[w].write = {} /\ wr[w].release = 0

\* FETCH_AND_ADD(1) registers a reader, whoever holds the lock.
NicFetchAdd(w) ==
    /\ wr[w].acquire = "shared"
    /\ Released(w)
    /\ lockw' = AddWords(lockw, 1)
    /\ old0' = [old0 EXCEPT ![w] = lockw]
    /\ wr' = [wr EXCEPT ![w].acquire = "none"]
    /\ UNCHANGED <<data, pc, old, updates, main>>

\* COMPARE_AND_SWAP(UNLOCKED, EXCLUSIVE_LOCKED).
NicCompareSwap(w) ==
    /\ wr[w].acquire = "exclusive"
    /\ Released(w)
    /\ lockw' = IF lockw = 0 THEN Excl ELSE lockw
    /\ old0' = [old0 EXCEPT ![w] = lockw]
    /\ wr' = [wr EXCEPT ![w].acquire = "none"]
    /\ UNCHANGED <<data, pc, old, updates, main>>

Acquired(w) == Released(w) /\ wr[w].acquire = "none"

\* A READ fetches the payload one cache line at a time, in any order.
NicRead(w, l) ==
    /\ l \in wr[w].read
    /\ Acquired(w)
    /\ old' = [old EXCEPT ![w][l] = data[l]]
    /\ wr' = [wr EXCEPT ![w].read = @ \ {l}]
    /\ UNCHANGED <<remote, pc, old0, updates, main>>

\* poll_cq returns: all that was posted up to the signaled request is done.
Polled(w) == Acquired(w) /\ wr[w].read = {}

Nic(w) == \/ \E l \in Lines : NicWrite(w, l) \/ NicRead(w, l)
          \/ NicRelease(w) \/ NicFetchAdd(w) \/ NicCompareSwap(w)

-----------------------------------------------------------------------------
(* The thread: readers.                                                    *)

Goto(w, from, to) == pc[w] = from /\ pc' = [pc EXCEPT ![w] = to]

ChooseRead(w) ==
    /\ keep_running
    /\ Goto(w, "idle", "shared")
    /\ UNCHANGED <<remote, old0, old, wr, updates, main>>

\* With speculative_read the READ of the payload is posted behind the atomic,
\* before anything is known of the lock.
SpeculativeRead == IF variant.speculative_read THEN Lines ELSE {}

\* The request that registers the reader.
PostShared(w) ==
    /\ Goto(w, "shared", "s_lock")
    /\ wr' = [wr EXCEPT ![w].acquire = "shared",
                        ![w].read = SpeculativeRead]
    /\ UNCHANGED <<remote, old0, old, updates, main>>

\* Mutant: the refused reader stays registered.
SharedRefusedRegistered(w) ==
    /\ Polled(w)
    /\ old0[w] >= Excl
    /\ Goto(w, "s_lock", "shared")
    /\ UNCHANGED <<remote, old0, old, wr, updates, main>>

\* s_locked >= EXCLUSIVE_LOCKED: a writer owns the tuple, deregister.
SharedRefused(w) ==
    /\ Polled(w)
    /\ old0[w] >= Excl
    /\ Goto(w, "s_lock", "s_undo")
    /\ wr' = [wr EXCEPT ![w].release = 1]
    /\ UNCHANGED <<remote, old0, old, updates, main>>

SharedRetry(w) ==
    /\ Polled(w)
    /\ Goto(w, "s_undo", "shared")
    /\ UNCHANGED <<remote, old0, old, wr, updates, main>>

\* Mutants: nobody looks at s_locked; s_locked > EXCLUSIVE_LOCKED.
SharedGrantedAlways(w) ==
    /\ Polled(w)
    /\ IF variant.speculative_read
       THEN Goto(w, "s_lock", "s_cs") /\ UNCHANGED wr
       ELSE Goto(w, "s_lock", "s_read") /\ wr' = [wr EXCEPT ![w].read = Lines]
    /\ UNCHANGED <<remote, old0, old, updates, main>>

SharedGrantedAtLimit(w) == old0[w] <= Excl /\ SharedGrantedAlways(w)

SharedGranted(w) ==
    /\ Polled(w)
    /\ old0[w] < Excl
    /\ IF variant.speculative_read
       THEN Goto(w, "s_lock", "s_cs") /\ UNCHANGED wr
       ELSE Goto(w, "s_lock", "s_read") /\ wr' = [wr EXCEPT ![w].read = Lines]
    /\ UNCHANGED <<remote, old0, old, updates, main>>

SharedRead(w) ==
    /\ Polled(w)
    /\ Goto(w, "s_read", "s_cs")
    /\ UNCHANGED <<remote, old0, old, wr, updates, main>>

\* s_order_release posts the FAA and goes on; s_unlock polls for it.
SharedRelease(w) ==
    /\ IF variant.order_release THEN Goto(w, "s_cs", "idle") ELSE Goto(w, "s_cs", "s_release")
    /\ wr' = [wr EXCEPT ![w].release = 1]
    /\ UNCHANGED <<remote, old0, old, updates, main>>

SharedReleased(w) ==
    /\ Polled(w)
    /\ Goto(w, "s_release", "idle")
    /\ UNCHANGED <<remote, old0, old, wr, updates, main>>

Reader(w) == \/ ChooseRead(w) \/ PostShared(w) \/ SharedRefused(w) \/ SharedRetry(w)
             \/ SharedGranted(w) \/ SharedRead(w) \/ SharedRelease(w) \/ SharedReleased(w)

-----------------------------------------------------------------------------
(* The thread: writers.                                                    *)

ChooseWrite(w) ==
    /\ keep_running
    /\ updates[w] < MaxUpdates
    /\ Goto(w, "idle", "exclusive")
    /\ UNCHANGED <<remote, old0, old, wr, updates, main>>

PostExclusive(w) ==
    /\ Goto(w, "exclusive", "x_lock")
    /\ wr' = [wr EXCEPT ![w].acquire = "exclusive",
                        ![w].read = SpeculativeRead]
    /\ UNCHANGED <<remote, old0, old, updates, main>>

\* x_locked != UNLOCKED: the swap did not happen, try again.
ExclusiveRefused(w) ==
    /\ Polled(w)
    /\ old0[w] # 0
    /\ Goto(w, "x_lock", "exclusive")
    /\ UNCHANGED <<remote, old0, old, wr, updates, main>>

\* Mutants: readers do not keep a writer out; the payload is not read.
ExclusiveGrantedShared(w) ==
    /\ Polled(w)
    /\ old0[w] < Excl
    /\ IF variant.speculative_read
       THEN Goto(w, "x_lock", "x_cs") /\ UNCHANGED wr
       ELSE Goto(w, "x_lock", "x_read") /\ wr' = [wr EXCEPT ![w].read = Lines]
    /\ UNCHANGED <<remote, old0, old, updates, main>>

ExclusiveGrantedUnread(w) ==
    /\ Polled(w)
    /\ old0[w] = 0
    /\ Goto(w, "x_lock", "x_cs")
    /\ UNCHANGED <<remote, old0, old, wr, updates, main>>

ExclusiveGranted(w) ==
    /\ Polled(w)
    /\ old0[w] = 0
    /\ IF variant.speculative_read
       THEN Goto(w, "x_lock", "x_cs") /\ UNCHANGED wr
       ELSE Goto(w, "x_lock", "x_read") /\ wr' = [wr EXCEPT ![w].read = Lines]
    /\ UNCHANGED <<remote, old0, old, updates, main>>

ExclusiveRead(w) ==
    /\ Polled(w)
    /\ Goto(w, "x_read", "x_cs")
    /\ UNCHANGED <<remote, old0, old, wr, updates, main>>

\* The payload with its counter increased in every word: new_version = ++old[1].
Incremented(payload) ==
    LET first == CHOOSE l \in Lines : TRUE
    IN  [l \in Lines |-> payload[first] + 1]

CountUpdate(w) == updates' = [updates EXCEPT ![w] = @ + 1]

\* Without write_combining the WRITE is polled for before the release is posted.
UpdateThenWrite(w) ==
    /\ ~variant.write_combining
    /\ Goto(w, "x_cs", "x_write")
    /\ old' = [old EXCEPT ![w] = Incremented(@)]
    /\ wr' = [wr EXCEPT ![w].write = Lines]
    /\ UNCHANGED <<remote, old0, updates, main>>

ExclusiveRelease(w) ==
    /\ Polled(w)
    /\ Goto(w, "x_write", "x_release")
    /\ wr' = [wr EXCEPT ![w].release = Excl]
    /\ UNCHANGED <<remote, old0, old, updates, main>>

\* write_combining: WRITE and FAA together, then poll for both.
UpdateAndRelease(w) ==
    /\ variant.write_combining
    /\ ~variant.order_release
    /\ Goto(w, "x_cs", "x_release")
    /\ old' = [old EXCEPT ![w] = Incremented(@)]
    /\ wr' = [wr EXCEPT ![w].write = Lines, ![w].release = Excl]
    /\ UNCHANGED <<remote, old0, updates, main>>

\* x_order_release: both unsignaled, and on to the next operation.
UpdateAndGoOn(w) ==
    /\ variant.write_combining
    /\ variant.order_release
    /\ Goto(w, "x_cs", "idle")
    /\ old' = [old EXCEPT ![w] = Incremented(@)]
    /\ wr' = [wr EXCEPT ![w].write = Lines, ![w].release = Excl]
    /\ CountUpdate(w)
    /\ UNCHANGED <<remote, old0, main>>

ExclusiveReleased(w) ==
    /\ Polled(w)
    /\ Goto(w, "x_release", "idle")
    /\ CountUpdate(w)
    /\ UNCHANGED <<remote, old0, old, wr, main>>

Writer(w) == \/ ChooseWrite(w) \/ PostExclusive(w) \/ ExclusiveRefused(w)
             \/ ExclusiveGranted(w) \/ ExclusiveRead(w) \/ UpdateThenWrite(w)
             \/ ExclusiveRelease(w) \/ UpdateAndRelease(w) \/ UpdateAndGoOn(w)
             \/ ExclusiveReleased(w)

-----------------------------------------------------------------------------
(* The end of a stage.                                                     *)

\* main: sleep(run_for_seconds); keep_running = false.
StopRunning ==
    /\ keep_running
    /\ keep_running' = FALSE
    /\ UNCHANGED <<remote, local, wr, variant, g_updates>>

\* g_updates += updates; running_threads_counter--.
Finish(w) ==
    /\ ~keep_running
    /\ Goto(w, "idle", "done")
    /\ g_updates' = g_updates + updates[w]
    /\ UNCHANGED <<remote, old0, old, wr, updates, variant, keep_running>>

AllDone == \A w \in Workers : pc[w] = "done"
Drained == \A w \in Workers : wr[w] = EmptyQueue

\* The storage node's "drain all open requests" is over; nothing happens any more.
Terminated == AllDone /\ Drained /\ UNCHANGED vars

Thread(w) == Reader(w) \/ Writer(w) \/ Finish(w)

Next == \/ \E w \in Workers : Nic(w) \/ Thread(w)
        \/ StopRunning
        \/ Terminated

Spec == Init /\ [][Next]_vars

\* Every thread keeps running and every queue pair keeps executing.  The
\* operating system schedules pinned threads, and a reliable connection
\* retransmits; nothing is assumed of the race for the lock.
Fairness == /\ \A w \in Workers : WF_vars(Nic(w)) /\ WF_vars(Thread(w))
            /\ WF_vars(StopRunning)

FairSpec == Spec /\ Fairness
-----------------------------------------------------------------------------
(* Who holds the lock, read off the thread and its queue.                  *)

\* w's swap succeeded and its release has not been executed yet.
HoldsExclusive(w) ==
    \/ pc[w] = "x_lock" /\ wr[w].acquire = "none" /\ old0[w] = 0
    \/ pc[w] \in {"x_read", "x_cs", "x_write"}
    \/ wr[w].release = Excl

\* w's FAA(1) has been executed and its FAA(-1) has not.
Registered(w) ==
    \/ pc[w] = "s_lock" /\ wr[w].acquire = "none"
    \/ pc[w] \in {"s_read", "s_cs"}
    \/ wr[w].release = 1

\* w is registered and saw no writer.  It stays so until the FAA(-1) is posted.
HoldsShared(w) ==
    \/ pc[w] = "s_lock" /\ wr[w].acquire = "none" /\ old0[w] < Excl
    \/ pc[w] \in {"s_read", "s_cs"}

Readers == {w \in Workers : Registered(w)}
Owned   == \E w \in Workers : HoldsExclusive(w)

-----------------------------------------------------------------------------
(* Properties.                                                             *)

\* A writer that owns the tuple is alone with it: neither another writer nor
\* a reader that was let in is there, although the writer's release may
\* still be in its queue while its thread works on the next operation.
Exclusion ==
    \A v, w \in Workers :
        (v # w /\ HoldsExclusive(v)) => ~HoldsExclusive(w) /\ ~HoldsShared(w)

\* The lock word is the registered readers, refused ones included, plus Excl
\* for the owner: no increment or decrement is lost, none is made twice.
LockWordExact ==
    lockw = Cardinality(Readers) + (IF Owned THEN Excl ELSE 0)

\* The reader's own test, "prev_version != old[i]" throws, never fires: what
\* was read is one state of the tuple, and it is the current one.
SharedSnapshot ==
    \A w \in Workers : pc[w] = "s_cs" =>
        \A l, m \in Lines : old[w][l] = data[m]

\* The storage node's test after all clients have left: the payload words of
\* a tuple are equal and "aggregated updates" is the clients' "updates".
AggregatedUpdates ==
    AllDone /\ Drained => \A l \in Lines : data[l] = g_updates

\* RWLock implements RWLockSpec: the owner is whoever's swap succeeded, and
\* the value is what the owner is about to write, else what is stored.
Written(w) == wr[w].release = Excl \/ pc[w] = "x_write"

Abstract == INSTANCE RWLockSpec WITH
    owner   <- IF Owned THEN CHOOSE w \in Workers : HoldsExclusive(w) ELSE NoOwner,
    sharers <- {w \in Workers : HoldsShared(w)},
    dirty   <- \E w \in Workers : Written(w),
    value   <- LET first == CHOOSE l \in Lines : TRUE
               IN  IF \E w \in Workers : Written(w)
                   THEN old[CHOOSE w \in Workers : Written(w)][first]
                   ELSE data[first]

Implements == Abstract!Spec

\* Once the stage is over every thread leaves its operation, so joinAll
\* returns: no worker spins for ever on a lock nobody owns.
ThreadsLeave == ~keep_running ~> AllDone
=============================================================================
