---------------------------- MODULE BatchedRWLock ----------------------------
(***************************************************************************)
(* ReaderWriterLock of frontend/OptimisticLocks.hpp, as run_pessimistic of *)
(* frontend/optmistic_benchmark.cpp uses it.  It is the lock of RWLock.tla *)
(* with reads in batches: registration, READ and deregistration are posted *)
(* together, several times over, and the test of what the registration     *)
(* returned is commented out.  Tuple and network are as in RWLock.tla.     *)
(*                                                                         *)
(* A send queue holds at most, in this order, the WRITE and the FAA of the *)
(* previous operation, and the current one's atomic with the READ posted   *)
(* behind it: wr[w].acquire stands for both, and the READ's lines appear   *)
(* in wr[w].read when the atomic has been executed.  wr[w].rounds counts   *)
(* the further rounds of a batch.  The thread alternates between two local *)
(* buffers; as it waits for its READs before it changes a buffer, and they *)
(* wait for the WRITE before them, one says as much.                       *)
(***************************************************************************)
EXTENDS Integers, FiniteSets, Functions

CONSTANTS
    Workers,     \* the worker threads of all compute nodes
    Lines,       \* the cache lines of the payload
    Excl,        \* EXCLUSIVE_LOCKED, 2^60 in the code
    WordSize,    \* the number of values of a 64-bit word, 2^64 in the code
    BatchSize,   \* FLAGS_batch_size
    MaxUpdates   \* bound: the updates one worker makes

ASSUME WorkersAssumption == Workers # {} /\ IsFiniteSet(Workers)
ASSUME LinesAssumption == Lines # {}
ASSUME WordAssumption ==
    /\ Excl \in Nat /\ WordSize \in Nat
    /\ 1 < Excl /\ Cardinality(Workers) < Excl
    /\ Excl + Cardinality(Workers) < WordSize
ASSUME BoundsAssumption == BatchSize \in Nat \ {0} /\ MaxUpdates \in Nat

VARIABLES
    lockw,     \* remote: word 0 of the tuple
    data,      \* remote: the update that each cache line of the payload is of
    pc,        \* where each thread stands
    x_locked,  \* lock_buffer[0]: the result of the thread's latest atomic
    buffer,    \* tuple_buffer: the payload in the thread's local buffer
    wr,        \* what each queue pair still has to execute
    updates    \* the thread's count of its own updates

vars == <<lockw, data, pc, x_locked, buffer, wr, updates>>

Words == 0 .. WordSize - 1

Queues == [write : SUBSET Lines, release : {0, 1, Excl},
           acquire : {"none", "shared", "exclusive"}, read : SUBSET Lines,
           rounds : 0 .. BatchSize - 1]

TypeOK ==
    /\ lockw \in Words
    /\ data \in [Lines -> Nat]
    /\ pc \in [Workers -> {"idle", "s_poll", "s_done", "x_lock", "x_poll", "x_cs"}]
    /\ x_locked \in [Workers -> Words]
    /\ buffer \in [Workers -> [Lines -> Nat]]
    /\ wr \in [Workers -> Queues]
    /\ updates \in [Workers -> 0 .. MaxUpdates]

Init ==
    /\ lockw = 0
    /\ data = [l \in Lines |-> 0]
    /\ pc = [w \in Workers |-> "idle"]
    /\ x_locked = [w \in Workers |-> 0]
    /\ buffer = [w \in Workers |-> [l \in Lines |-> 0]]
    /\ wr = [w \in Workers |-> [write |-> {}, release |-> 0, acquire |-> "none",
                                read |-> {}, rounds |-> 0]]
    /\ updates = [w \in Workers |-> 0]

-----------------------------------------------------------------------------
(* The queue pair.                                                         *)

AddWords(a, b) == IF a + b >= WordSize THEN a + b - WordSize ELSE a + b
SubWords(a, b) == AddWords(a, WordSize - b)

\* An atomic on the lock word returns its old value to lock_buffer.
Atomic(w, new) ==
    /\ lockw' = new
    /\ x_locked' = [x_locked EXCEPT ![w] = lockw]
    /\ UNCHANGED <<data, pc, buffer, updates>>

NicWrite(w, l) ==
    /\ l \in wr[w].write
    /\ data' = [data EXCEPT ![l] = buffer[w][l]]
    /\ wr' = [wr EXCEPT ![w].write = @ \ {l}]
    /\ UNCHANGED <<lockw, pc, x_locked, buffer, updates>>

\* What a batch goes on with after one round.  The release may also be the
\* last of the operation before, in front of the first round.
NextRound(q) == IF q.rounds = 0 \/ q.acquire # "none" THEN [q EXCEPT !.release = 0]
                ELSE [q EXCEPT !.release = 0, !.acquire = "shared", !.rounds = @ - 1]

\* Mutant: the release overtakes the WRITE.
NicReleaseUnordered(w) ==
    /\ wr[w].release # 0
    /\ wr[w].read = {}
    /\ Atomic(w, SubWords(lockw, wr[w].release))
    /\ wr' = [wr EXCEPT ![w] = NextRound(@)]

\* The fenced FAA: behind the WRITE of a writer, behind the READ of a reader.
NicRelease(w) ==
    /\ wr[w].release # 0
    /\ wr[w].write = {}
    /\ wr[w].read = {}
    /\ Atomic(w, SubWords(lockw, wr[w].release))
    /\ wr' = [wr EXCEPT ![w] = NextRound(@)]

Released(w) == wr[w].write = {} /\ wr[w].release = 0

\* Mutant: the deregistration is not posted.
NicFetchAddForGood(w) ==
    /\ wr[w].acquire = "shared"
    /\ Released(w)
    /\ Atomic(w, AddWords(lockw, 1))
    /\ wr' = [wr EXCEPT ![w].acquire = "none", ![w].read = Lines]

\* FAA(1), with the READ and the FAA(-1) of its round behind it.
NicFetchAdd(w) ==
    /\ wr[w].acquire = "shared"
    /\ Released(w)
    /\ Atomic(w, AddWords(lockw, 1))
    /\ wr' = [wr EXCEPT ![w].acquire = "none", ![w].read = Lines, ![w].release = 1]

NicCompareSwap(w) ==
    /\ wr[w].acquire = "exclusive"
    /\ Released(w)
    /\ Atomic(w, IF lockw = 0 THEN Excl ELSE lockw)
    /\ wr' = [wr EXCEPT ![w].acquire = "none", ![w].read = Lines]

NicRead(w, l) ==
    /\ l \in wr[w].read
    /\ buffer' = [buffer EXCEPT ![w][l] = data[l]]
    /\ wr' = [wr EXCEPT ![w].read = @ \ {l}]
    /\ UNCHANGED <<lockw, data, pc, x_locked, updates>>

Nic(w) == \/ \E l \in Lines : NicWrite(w, l) \/ NicRead(w, l)
          \/ NicRelease(w) \/ NicFetchAdd(w) \/ NicCompareSwap(w)

\* All READs are complete.  The last FAA(-1) of a batch may not be.
Polled(w) == wr[w].acquire = "none" /\ wr[w].read = {} /\ wr[w].rounds = 0

-----------------------------------------------------------------------------
(* The thread.                                                             *)

Goto(w, from, to) == pc[w] = from /\ pc' = [pc EXCEPT ![w] = to]

\* Mutant: the loop posts one round more than it polls for (i <= batch_size).
LockSharedOneMore(w) ==
    /\ Goto(w, "idle", "s_poll")
    /\ wr' = [wr EXCEPT ![w].acquire = "shared", ![w].rounds = BatchSize]
    /\ UNCHANGED <<lockw, data, x_locked, buffer, updates>>

\* FLAGS_batch_size rounds of FAA(1), READ and FAA(-1).
LockShared(w) ==
    /\ Goto(w, "idle", "s_poll")
    /\ wr' = [wr EXCEPT ![w].acquire = "shared", ![w].rounds = BatchSize - 1]
    /\ UNCHANGED <<lockw, data, x_locked, buffer, updates>>

\* The test of s_locked that would follow is commented out.
SharedRead(w) ==
    /\ Polled(w)
    /\ Goto(w, "s_poll", "s_done")
    /\ UNCHANGED <<lockw, data, x_locked, buffer, wr, updates>>

\* unlockShared: "Do nothing for batched version".
UnlockShared(w) ==
    /\ Goto(w, "s_done", "idle")
    /\ UNCHANGED <<lockw, data, x_locked, buffer, wr, updates>>

BeginWrite(w) ==
    /\ updates[w] < MaxUpdates
    /\ Goto(w, "idle", "x_lock")
    /\ UNCHANGED <<lockw, data, x_locked, buffer, wr, updates>>

LockExclusive(w) ==
    /\ Goto(w, "x_lock", "x_poll")
    /\ wr' = [wr EXCEPT ![w].acquire = "exclusive"]
    /\ UNCHANGED <<lockw, data, x_locked, buffer, updates>>

ExclusiveRestart(w) ==
    /\ Polled(w)
    /\ x_locked[w] # 0
    /\ Goto(w, "x_poll", "x_lock")
    /\ UNCHANGED <<lockw, data, x_locked, buffer, wr, updates>>

\* Mutant: a writer is let in beside readers.
ExclusiveLockedShared(w) ==
    /\ Polled(w)
    /\ x_locked[w] < Excl
    /\ Goto(w, "x_poll", "x_cs")
    /\ UNCHANGED <<lockw, data, x_locked, buffer, wr, updates>>

ExclusiveLocked(w) ==
    /\ Polled(w)
    /\ x_locked[w] = 0
    /\ Goto(w, "x_poll", "x_cs")
    /\ UNCHANGED <<lockw, data, x_locked, buffer, wr, updates>>

\* The update, and unlockExclusive: both requests unsignaled.
UnlockExclusive(w) ==
    /\ Goto(w, "x_cs", "idle")
    /\ buffer' = [buffer EXCEPT ![w] = [l \in Lines |-> @[l] + 1]]
    /\ wr' = [wr EXCEPT ![w].write = Lines, ![w].release = Excl]
    /\ updates' = [updates EXCEPT ![w] = @ + 1]
    /\ UNCHANGED <<lockw, data, x_locked>>

Thread(w) == \/ LockShared(w) \/ SharedRead(w) \/ UnlockShared(w)
             \/ BeginWrite(w) \/ LockExclusive(w) \/ ExclusiveRestart(w)
             \/ ExclusiveLocked(w) \/ UnlockExclusive(w)

Next == \E w \in Workers : Nic(w) \/ Thread(w)

Spec == Init /\ [][Next]_vars

-----------------------------------------------------------------------------
(* Properties.                                                             *)

\* w's swap succeeded and its release has not been executed yet.
HoldsExclusive(w) ==
    \/ pc[w] = "x_poll" /\ wr[w].acquire = "none" /\ Released(w) /\ x_locked[w] = 0
    \/ pc[w] = "x_cs"
    \/ wr[w].release = Excl

\* One round of w's batch is between its two FAAs.
Registered(w) == wr[w].release = 1

\* The lock word is the rounds under way plus Excl for the one owner: what a
\* batch adds while a writer owns the tuple it takes back, and a writer's
\* release is not confused by it.
LockWordExact ==
    lockw = Cardinality({w \in Workers : Registered(w)})
            + Excl * Cardinality({w \in Workers : HoldsExclusive(w)})

\* A writer computes its update from one state of the tuple, the current one.
WriterSnapshot ==
    \A w \in Workers : pc[w] = "x_cs" => \A l \in Lines : buffer[w][l] = data[l]

\* When nobody owns the tuple every update has reached it, once.
NoLostUpdate ==
    (\A w \in Workers : ~HoldsExclusive(w)) =>
        \A l \in Lines : data[l] = FoldFunction(+, 0, updates)

\* A read that lockShared returns from is one state of the tuple.  NOTES.md
\* says that the read path does "check if writer locked".
SharedSnapshot ==
    \A w \in Workers : pc[w] = "s_done" =>
        \A l, m \in Lines : buffer[w][l] = buffer[w][m]
=============================================================================
