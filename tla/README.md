# A TLA+ model of the RDMA synchronization benchmarks

The repository compares ways to synchronize access to tuples in remote memory
with one-sided RDMA verbs: pessimistic reader/writer locks, and optimistic
reads validated by versions, checksums or FaRM-style cache-line versions.  This
directory holds TLA+ modules of its synchronization protocols, the TLC
configurations that check them, and TLAPS proofs.  Paths below are relative to
the repository's root.

## The system

Storage nodes own memory and do nothing else while a benchmark runs.  Compute
nodes run worker threads; each worker has one reliable connection (queue pair)
to each storage node and posts READ, WRITE, FETCH_AND_ADD and COMPARE_AND_SWAP
requests on it.  All synchronization between workers is in words of the storage
nodes' memory.

| component | state | operations | what is hard | what makes it correct | module |
|---|---|---|---|---|---|
| pessimistic lock, `frontend/locking_benchmark.cpp`, `nam_experiment.cpp` | lock word and payload of a tuple; local buffer; requests in flight | shared and exclusive lock/unlock, in the variants `speculative_read`, `write_combining`, `order_release` | unsignaled writes and releases overlap the next operation; refused readers touch the lock word too | exclusion, exact lock word, whole reads, no lost update | `RWLock` |
| optimistic locks, `frontend/OptimisticLocks.hpp`, used by `optdb_experiment.cpp`, `optmistic_benchmark.cpp`, `opt_btree.cpp` | tuple with version(s), latch and checksum; local copies | `OptimisticLock::lock/unlock`, `ExclusiveLock::lock/unlock`, with `V2`, `CRC`, `FaRM`, `RC`, `Broken` and `HeaderLock`, `FooterLock` | reads without a lock, torn reads, buffers reused while a WRITE is in flight | validated reads are snapshots, no lost update, latch exclusive | `OptimisticLock` (not `RC` and `Broken`) |
| `ReaderWriterLock`, same file | lock word | batched lockShared, lockExclusive, unlockExclusive | the reader's test is commented out | exact lock word, whole reads by writers | `BatchedRWLock` |
| tail lock, `frontend/locking_benchmark_tail.cpp` | lock word behind the payload | as the pessimistic lock, released by the payload's WRITE | the WRITE wipes out readers' increments, and may land in the middle of one | exclusion, exact lock word, a WRITE that unlocks | `TailLock` |
| stages: RDMA barrier (`frontend/BenchmarkHelper.hpp`), `concurrency::Barrier` (`Concurrency.hpp`), `main` and its jobs (`nam_experiment.cpp`, `optmistic_benchmark.cpp`, ...) | a counter on the storage node; counter and 8-bit round of a node; `keep_running`, `running_threads_counter` | `rdma_barrier_wait`, `Barrier::wait`, schedule, stop, join | waits for equality with a value that may be passed over; jobs refer to locals of a loop's body | nobody starts before all have come; locals outlive the jobs; stages end | `Stage` |
| worker pool, `backend/nam/threads/WorkerPool.cpp` | per worker a mutex, a condition variable and three flags | schedule, join, destroy | one condition variable for two kinds of waiters; shutdown without the mutex | each job runs once, calls return, and only after their job | `WorkerPool` |
| connection manager, `backend/nam/rdma/CommunicationManager.hpp` | connections, counters, event channels | connect with retry, event handler, exchange of keys, destructor | handler thread against main and destruction; retry; two exchanges on one completion queue | every connection is counted once, the handler ends when it should | `ConnectionManager` |
| nodes, `Storage`, `Worker.cpp`, `Compute`, `NAM` | catalog, number of connections | wait for clients, exchange the catalog | equality with an expected number; who serves whom in which order | every worker gets the catalog, everybody ends | `ConnectionManager` |
| `frontend/btree.cpp`, `frontend/lock.cpp` | a path of tuples | lock, read, unlock per level | the same lock | the same | |
| `concurrency::WorkerGroup` | threads | fork, join | | | |
| profiling, `backend/nam/profiling` | counters per worker | increase, read and reset | read-modify-write in two atomics against exchange | every event is counted once | |
| `HybridLatch`, `SpinLock`, `BatchQueue`, `MPMCQueue` | local latches and queues | | | not used by a benchmark | |
| `distexperiments/distexprunner` | processes on the nodes | cd, run, stdin, kill over RPC | requests run as concurrent tasks | commands in the order they were sent | |

How they interact: `main` of a compute node makes a worker pool; the threads of the
pool construct their `Worker`, which connects to the storage nodes through `CM`
(`ConnectionManager`).  `main` then runs stages: it schedules one job per worker
(`WorkerPool`), the jobs meet at the barriers and work until `keep_running`
is cleared (`Stage`).  The work of a job is a loop of lock operations on
tuples (`RWLock`, `TailLock`, `OptimisticLock`, `BatchedRWLock`).  The layers meet at
narrow interfaces, and each module takes from the one below what that one's
properties say: `Stage` takes from `WorkerPool` that a scheduled job runs once
and that `joinAll` returns after all jobs; the locks take from `Stage` that
`keep_running` and the counters outlive the jobs, and from `ConnectionManager`
one connected queue pair per worker with nothing of the set-up left in its completion
queue.

The microbenchmarks (`torn_writes.cpp`, `optimistic_st.cpp`, `ordering_fixed.cpp`,
`atomic_alignment*.cpp`, `read_benchmark.cpp`, `cas_benchmark.cpp`, ...)
measure the network and the processor; what they measure is an assumption here, stated
next.  Random numbers, checksums, core pinning, tables and scripts are
sequential code, third-party code or I/O.

## The network

`CommunicationManager.hpp` posts requests to a queue pair.  The models assume of
a reliable connection

 * requests of one queue pair are executed in the order they were posted, and
   a completion of a signaled request means all before it are done;
 * atomics on one word are atomic with each other and with nothing else: the device
   fetches the word and stores the result, and a WRITE may land in between (which
   `atomic_visibility.cpp` tests for, "inconsistency detected").  `TailLock` has the two
   halves of an atomic as two steps.  In the other modules an atomic is one step, because no
   WRITE of another queue pair can fall into it: in `RWLock` and `BatchedRWLock` no WRITE covers
   the lock word (they start behind it, at `lock_addr + 8`: `locking_benchmark.cpp:158`,
   `:163`, `:279`, `OptimisticLocks.hpp:628`); in `OptimisticLock` a WRITE covers the latch
   only while its worker holds it, when another worker's swap fails and stores nothing.  The barrier's
   counter is never written;
 * READ takes cache lines one at a time in any order;
 * WRITE reaches memory one cache line at a time.  `RWLock` lets the lines come
   in any order; in `OptimisticLock` they come in increasing order, as
   `FooterLock` relies on (the end of the payload's WRITE clears the latch);
 * a WRITE's data is fetched from the local buffer when it is executed and not
   when it is posted.  So reusing the buffer of an unsignaled WRITE is visible.

Requests are neither lost nor duplicated: the hardware retransmits, and the code
throws on an unsuccessful completion.

A worker's send queue is not a sequence of requests.  A thread polls once per
operation, so at most one request of each kind is in its queue, in a fixed
order, and `wr[w]` records what is left of each.  Requests for several words or
lines are recorded by the set of lines that is left.

## Modules

### RWLock, RWLockSpec, RWLock_proofs

`RWLock` is `locking_benchmark.cpp` on one tuple.  `pc[w]` stands for the point in
the worker's loop, `old0` and `old` for the local buffer `old[0]`, `old[1..]`, `lockw`
and `data` for the tuple, `wr` for the queue pair, `updates`, `g_updates` and
`keep_running` for the variables of the same names.  `variant` holds the three
flags, so one run covers all eight settings.  Actions come in two kinds: those of
the thread, from one poll to the next, and those of the queue pair (`Nic...`), one
per request or cache line.

`RWLockSpec` is the abstract lock: an owner, sharers, and a value that goes up
by one under each owner.  `Implements` maps `RWLock` to it: a worker owns the lock
from its successful CAS to the execution of its release, which may be
long after its thread has gone on, and the value is changed when the
thread computes it.

`MCRWLock`/`RWLock.cfg`: two workers, two payload lines, two updates per worker,
EXCLUSIVE_LOCKED = 4 in words of 64 values.  Two workers meet in all pairs of
points of the two protocols, and two updates let a worker's second operation
overlap the release of its first.  Two lines are enough for a torn read. The word's values
leave room for both workers' increments next to the mark, like the code's.

 * `Exclusion`: the exclusive owner is alone, releases in flight included.
 * `LockWordExact`: the word is the registered readers plus the owner's mark.
 * `SharedSnapshot`: the reader's own test (`prev_version != old[i]`) never throws.
 * `AggregatedUpdates`: the storage node's test at the end: its sum is the clients'
   `updates`.
 * `Implements`: refinement of `RWLockSpec`.
 * `ThreadsLeave`: once the stage ends every thread leaves its loop.

Fairness: each thread keeps running and each queue pair keeps executing
(weak fairness per worker, not per action).  Threads are pinned and spin, and a
reliable connection retransmits.  Nothing is assumed of who wins a CAS, and a
writer may starve while readers come and go: no property says otherwise.

### OptimisticLock, OptimisticLock_proofs

`OptimisticLocks.hpp` as `run_check` and `run_test` use it.  `mode` holds the template
arguments and the number of local buffers a worker alternates between: one in
`optdb_experiment.cpp`, two in `optmistic_benchmark.cpp`.  A line holds the words the
protocol looks at.  The checksum is the vector of the data it was computed
from, so equal checksums mean equal data (no collisions), and it covers the
data and not the version or the latch.  `--batch` repeats the same READ; the
data of the last one stays, so a batch is one READ.  `Broken` and `RC` are not modelled:
`Broken` validates nothing, and of `RC`, which reads data and version over two
connections, the validation is commented out (`OptimisticLocks.hpp:494-516`).
Both are baselines for measurements and promise nothing.

`OptimisticLock.cfg`: CRC and FaRM with a header and a footer latch and one buffer, V2
with a header latch and one buffer, V2 with a footer latch and two buffers; two workers,
two lines, two updates of one worker and one of the other (`TwoAndOne`).  Two updates of one
worker are needed for the overlap of a WRITE in flight with the next operation of the same
kind, and for a version to be seen, changed and seen again; the other worker's update is the one
that must not be lost, and its reads, before and after, the ones that must not be
fooled.  The same instance with two updates each passes for the safety properties, which are also proved
for any number.

 * `LatchExclusive`: the latch is set exactly while one worker's latch or release is
   pending.
 * `SnapshotConsistent`: `run_check`'s test; a validated read is one state of the tuple.
 * `NoLostUpdate`: when nobody holds the latch, the tuple counts all updates.
 * `ReadsOwnWrites`: a validated read contains the thread's own unsignaled update.
 * `VersionsStepUp`: no version goes back or skips.
 * `OperationsEnd`: with a bounded number of updates every operation ends, because no update
   leaves behind a latch or an inconsistent proof.

Fairness is that of `RWLock`; whether a thread starts another operation is
not assumed.  Under unbounded updates a reader may restart for ever, as in the code.

`OptdbSingleBuffer.cfg` is a violation.  V2 with a footer latch clears the version and
the latch in the local buffer before it reads them (`OptimisticLocks.hpp:225`).  With a
single buffer, as `optdb_experiment.cpp:188` allocates, the unsignaled WRITE of the
thread's previous update may still have to be fetched from it: then
version 0 and latch 0 go to the tuple behind new data.  Another worker that
read version 0 before, and old and new lines in between, validates them.
`optdb_experiment.cpp:49` says "after the validation we have a consistent
snapshot", and `:70` throws "Read consistency check failed".  The counterexample has
20 steps.  With two buffers (`optmistic_benchmark.cpp:344`) the first run shows that it
cannot happen.

### BatchedRWLock, BatchedRWLock_proofs

`ReaderWriterLock` of `OptimisticLocks.hpp` as `run_pessimistic` uses it: the lock word of `RWLock`,
but `lockShared` posts FAA(1), READ, FAA(-1) `batch_size` times at once, waits for the READs,
and does not look at what the FAAs returned; `unlockShared` does nothing.  The queue pair's
state is as in `RWLock`, with `rounds` for the rest of a batch.

`BatchedRWLock.cfg`: two workers, two lines, batches of two, two updates per worker.  Two rounds let
a batch straddle a writer's acquisition and release.

 * `LockWordExact`: the word is the rounds under way plus the owner's mark.
 * `WriterSnapshot`: a writer computes its update from the whole, current tuple.
 * `NoLostUpdate`: when nobody owns the tuple it counts all updates.

`BatchedUnchecked.cfg` is a violation of `SharedSnapshot`.  `NOTES.md` gives the pessimistic read
path as "... Poll() -> check if writer locked -> FAA(unsignaled) [dec reader]"; the check is
commented out (`OptimisticLocks.hpp:656-661`), and a reader returns with lines of two updates.

### TailLock, TailLock_proofs

`TailLock` is `locking_benchmark_tail.cpp` on one tuple, in the manner of `RWLock`.
The differences are the code's.  The lock word is the last word of the tuple: bit 0 is the
writer's, a reader adds 2.  A writer does not release; its WRITE covers the
whole tuple and ends in a lock word of 0, which `NicUnlock` executes after the
last payload line.  A refused reader does not deregister: it goes on to another
operation, and its increment stays until the writer's WRITE wipes it out.  A refused writer
does not retry either.  A queue pair can fail (`NicFail`), and a worker that
polls then throws.

A WRITE to a word that others change by atomics is what this lock has and `RWLock` has not.  So
an atomic is two steps here: `NicFetch`, which brings the word to `old7`, and
`NicRelease`, `NicFetchAdd` or `NicCompareSwap`, which store what is computed from it.  The device has one
atomic in hand at a time (`atomic`); `NicUnlock`, the end of a WRITE, comes when it comes.

`MCTailLock`/`TailLock.cfg`: two workers, two lines, two updates each, words of 8 values,
all four settings of the flags.  Three increments of refused readers make the word
wrap around, so the wrap is reached.

 * `LockWordExact`: an even word is exact: nobody owns the tuple, and it is twice the
   readers that were let in, refused ones wiped out.  An odd one says that no reader is
   let in.
 * `SharedSnapshot`, `ThreadsLeave`: as for `RWLock`.
 * `Implements`: the same abstract lock `RWLockSpec`; the last word of the WRITE is the release.

`TailUnlock.cfg` is a violation of `WriteUnlocks`, that an odd word has an owner.  The code says
"old[LOCK_OFFSET_INDEX] = 0; // unlock" (`locking_benchmark_tail.cpp:237`).  A refused
reader's FETCH_AND_ADD fetches 1, the end of the writer's WRITE stores 0, and the
atomic stores 3 behind it.  From then on the writer's bit is set and there is no writer:
whoever comes is refused, and no WRITE will ever clear the bit again.  The counterexample has 14
steps and one update.  The main run has these behaviours, too: readers still read whole
tuples, writers still exclude each other, and all threads leave when the run ends, since a refused
operation goes on to the test of `keep_running`.

`s_order_release` adds `LOCK_OFFSET_INDEX` (7 words) to `lock_addr` where all others add
`LOCK_OFFSET_BYTE` (56) (`locking_benchmark_tail.cpp:188`).  The atomic goes to an
address that is no multiple of 8, its queue pair fails, and the worker's next poll meets
`:124`, "wc failed".  A single reader shows this; no property is about it.  The model has it
(`Aligned`, `NicFail`, `PollFails`): the abandoned reader stays registered for ever,
which `LockWordExact`, `Implements` and `ThreadsLeave` bear.

### Stage, Stage_proofs

`Stage` composes what starts and ends the stages of a benchmark on all compute
nodes: `main` of each node, its workers, the RDMA barrier they all share
(`barrier`, and `barrier_value` for `*local_barrier_buffer`), and the node's
`concurrency::Barrier` (`cntr`, `round`, `prevRound`), which only some of the programs
have (`with_barrier`).  `rdma_barrier_wait` is FETCH_AND_ADD, READ until the value
equals the expected one, and pass; `Barrier::wait` is five actions, one per access to an atomic.
`entered` is a history variable: the last stage for which a worker has
entered the RDMA barrier.  How long `main` sleeps is left open.

`MCStage`/`Stage.cfg`: two nodes with two workers each, two stages, with and without the thread
barrier.  Two nodes are needed for a node that runs ahead into its next stage,
two workers for one that is left behind by its neighbour.

 * `StartTogether`: who is past the RDMA barrier of a stage is so because every worker of
   every node has entered it.
 * `MeasuredFromStart`: with the thread barrier, `main` sleeps only when all its workers
   are past both barriers.
 * `LocalsOutliveJobs`: a job's stage is its node's stage, and the loop's body is not left
   while a job is there.  `running_threads_counter`, which is 0 before the first job
   begins as well as after the last, would not do (`nam_experiment.cpp:268`); `joinAll` does.
 * `EndsUnlessOvertaken`: all stages end, unless some worker is overtaken: it has entered
   the RDMA barrier and does not read the counter before somebody enters the next
   stage's.  It then waits for a value that has gone by, for ever, in the model as in
   the code (`BenchmarkHelper.hpp:520` tests for equality).  Only the
   seconds `main` sleeps keep it from happening, and the model has no clock.

### ConnectionManager, ConnectionManager_proofs

`CommunicationManager.hpp`, `Storage::startAndConnect` and `Worker`'s constructor: the workers
of all compute nodes, which connect to each storage node in turn under their
node's `outgoingMut` (`LockOutgoing` to `Initiated`), then exchange `InitMessage`s with
each in turn (`Finished`); the handler thread of each storage node (`HandleRequest` to
`Disconnected`); and its main thread (`Start` to `Join`).  With
`FLAGS_rcopt` the jobs open an additional connection in every stage (`NextStage`).
`sent` and `polled` count messages and completions per end of a connection; they
are one completion queue for both exchanges, as in the code.

The network appears as time only: a connection event stays in `events` until the
handler retrieves it, so events of different connections arrive in any order,
and a poll finds any number of the completions there can be.  A request is refused when
the storage node does not listen yet or the backlog is full, and the
worker releases the mutex, sleeps and tries again.

`MCConnectionManager`/`ConnectionManager.cfg`: two workers on one node and on two, with two storage
nodes, or with one and `FLAGS_rcopt`; a backlog of 1, so that two requests are enough
for a refusal; one stage.  `CHECK_DEADLOCK FALSE` because every process ends; that none of them
stops early is `EverybodyEnds`.

 * `ContextsComplete`: when main has seen the number it waits for, its copy holds all
   connections, each once, each filled in, and the handler is done with them.
 * `PhasesApart`: the two exchanges do not take each other's completions.  A poll that asked
   for 2 instead of `2 - completions` would.
 * `HandlerEnds`: the handler, which ends whenever no connection is left, ends after the
   last worker and not between two; and it is gone when main destroys its channel.  (That the
   handler counts the last disconnection, which lets main go, and returns is one step: it does not
   touch the channel in between.)
 * `EverybodyEnds`: all connect, and all processes end.  Workers and storage nodes take
   each other in different orders; nobody waits in a circle.

`RcoptStages.cfg` is a violation of `ExchangesEnd`, with two stages: the job of the second stage
opens another connection (`optmistic_benchmark.cpp:366`), which nobody serves, because the storage node
calls `startAndConnect` for the second connections once (`:256`).  `FLAGS_readratios` has
three values by default (`:41`); `scripts/run_exp.sh:64` passes one, and hides it.

Not modelled: an attempt that the storage node has seen and the worker has given up on,
events the handler does not acknowledge ("Unexpected Event"), `TIMEWAIT_EXIT`, the memory and
queue pairs that failed attempts leave behind, what the handler sees before the constructor is
over (`:397`), the destructor of a compute node after its disconnections, and `NAM`, which holds both sides in one process.

### WorkerPool, WorkerPool_proofs

`WorkerPool.cpp`: per worker a mutex, a condition variable as the set of those that wait on
it, `jobSet`, `jobDone`, `wtReady`; the thread's loop; and one main thread that
calls `scheduleJobAsync`, `scheduleJobSync` and `joinAll` in any order and finally
the destructor.  A critical section of the main thread is one step; the
worker's is several, because `keepRunning` is changed without the mutex: between the test in
`cv.wait` (`TestFails`) and the wait (`Sleep`) the main thread can not get at the job, but the
destructor's store and its `notify_one` may come.  `notify_one` picks any waiter, and waiters may wake without one.

`WorkerPool.cfg`: two workers, three jobs each, so that a job can meet the leftovers of two
earlier ones.

 * `JobsNotLost`, `JoinedMeansDone`, `SyncMeansDone`: no job is overwritten or run twice,
   and the calls that wait for jobs return after them.
 * `DeletedAfterUse`: the Worker objects outlive the threads.
 * `CallsReturn`: the shared condition variable with `notify_one` never wakes the wrong
   side for good.
 * `EndsUnlessMissed`: the destructor returns, wherever its workers are when it begins, running,
   starting, asleep or between jobs, unless one of them missed it: that one had tested
   `keepRunning` before it was cleared and was not yet asleep when its notification was given.

`PoolHangs.cfg` is a violation of `PoolEnds`, that the destructor returns.  The destructor
clears `keepRunning` and notifies without the mutex (`WorkerPool.cpp:62-66`).  A worker between its test and its wait (`:30`) misses
both, sleeps, and `while (runningThreads)` spins for ever.  The
experiments wait for the processes to end (`locking_benchmark.py:44`).  Only a spurious wakeup
would help, which need not come.  In the counterexample a worker, its job
done, is between the two when the destructor begins; the instance has two workers and one job each.

Fairness: each worker thread and the main thread keep running, the destructor's
start is the program's choice, and wakeups without a notification do not come
for ever (a run that needs them to make progress would be wrong).

## Proofs

`RWLock_proofs` proves for any finite set of workers, any payload and any flags,
without a bound on the updates other than the model's,
`TypeCorrect`, `MutualExclusion` and `LockWordCounts`.  The constants' assumptions: fewer
workers than EXCLUSIVE_LOCKED, and both together fit a word.

None of the three is inductive alone.  `IInv` adds `QueuesOK`, which says what a
thread may have in its queue at each point of its program: an acquiring atomic
only while its thread waits for it, and nothing of the previous operation once
the thread has polled.  Then

 * steps of a thread, and payload traffic, are *quiet*: they leave the lock word
   alone, and nobody's registration or ownership changes (`QuietStep`, `ReaderStep`,
   `WriterStep`, `PayloadStep`);
 * a FETCH_AND_ADD(1) adds a registered reader and 1; if its old value was
   below EXCLUSIVE_LOCKED then, by `LockWordExact`, there is no owner (`FetchAddStep`);
 * a COMPARE_AND_SWAP succeeds on 0 only, and by `LockWordExact` there is then neither
   reader nor owner (`CompareSwapStep`);
 * a release takes back exactly what its worker had added (`ReleaseStep`), and the
   two's complement addition is a subtraction because the word is large enough.

`WorkerPool_proofs` proves the five safety properties of the pool for any number of workers and
jobs: `PoolTypeCorrect`, `NoJobLost`, `DeletionSafe`, `SyncWaitsForJob`, `JoinWaitsForJobs`.  `IInv`
there adds to them `Counted` (`runningThreads` is the number of threads between start and
exit), `FlagsOK` (a running job is still set; a job that is set is not done) and
`MainOK` (no thread is before its start once the constructor has returned; the workers
`joinAll` has passed have no job set).  The two action properties follow from the
invariant in the state in which the call returns.

`Stage_proofs` proves the four safety properties of the stages for any nodes, any workers and
any number of stages: `StageTypeCorrect`, `NobodyStartsEarly`, `MeasuresTheStage`,
`JobsWithinStage`.  `IInv` comes in layers: `PlacesOK` (who can be where: a worker has a job only while its
main is between `Schedule` and the join), `StagesOK` (no worker has entered a stage but its node's, or the
one before), `RdmaOK`, `CountOK` (`running_threads_counter` is the number of workers
at work) and `BarrierOK` (`cntr` is the number of those that have not arrived, and
who resets it is alone).  The heart is `RdmaOK`: for some s all workers have entered the
barrier s or s + 1 times, and the counter is (number of workers) * s plus the number of those that
are ahead.  So it equals (number of workers) * s only when all have entered stage s
and none the next.

`RWLock_proofs` goes on to the properties about data, `SnapshotsWhole` and
`LockImplementsSpec`, for any workers, any lines and any flags.  To `IInv` it adds `DataOK`: the
payload is whole unless a WRITE is under way; the buffer of a worker whose WRITE is under way is
whole, and is what is stored in the lines already written; what a holder of the lock
has read so far is what is stored.  The abstract state is read off that: the owner and the
sharers from who holds the lock, the value from the writer's buffer while its WRITE is under
way and from the payload otherwise.  Every action of `RWLock` is then shown to be
`AcquireExclusive`, `Update`, `ReleaseExclusive`, `AcquireShared` or `ReleaseShared` of `RWLockSpec`,
or to leave its variables alone.  The same abstract value carries the sums: `CountOK` says that
it is the sum of what the workers' threads have computed, and that `g_updates` is the sum
of what the threads that ended have added.  When all are done and nothing is in a
queue, these are the same, and what is stored is the abstract value: `UpdatesAddUp`.

`SumTheorems` has what those proofs need of a sum over all workers, which the models write
as a fold: the sum of zeros is 0 (`TotalOfZeros`), and where one term changes, the sum
changes by as much (`TotalOfChanged`).  A fold chooses the order, so that is an induction on the
cardinality of the set; it is written as the choice of a least counterexample
(`LeastNumber`) and needs no induction theorem with an operator as its parameter.

`TailLock_proofs` proves `TailTypeCorrect` and `TailWordExact`.  `IInv` has the parts of `RWLock`'s;
the arithmetic differs.  While a writer owns the tuple refused readers may add as often
as they like, so nothing is known of the word but its parity, which adding 2 does not
change even where the word wraps around (`OddFacts`).  A writer is let in on a word of 0 only,
and its WRITE ends in 0 when no reader that was let in is there.  `AtomicOK` says what the device
may have in hand: what it fetched is what the word still holds, unless a WRITE has ended since; then
what it fetched is odd and the word is 0.  So the only atomic that stores something stale is a
refused reader's, and what it stores is odd (`FetchAddStep`); a swap that fetched something odd stores
nothing, and a release is never overtaken, because its reader keeps writers out.
`TailSnapshotsWhole` and `TailLockImplementsSpec` follow along the
lines of `RWLock_proofs`; the end of the WRITE is the release, and a reader whose
queue pair failed stays a sharer for ever, which the abstract lock allows.

`BatchedRWLock_proofs` proves `BatchedTypeCorrect`, `BatchedWordExact` and `BatchedWriterSnapshot`
for any workers, lines and batch size.  Readers that nobody refuses break the
exclusion of readers and writers, but not that of writers: `IInv` has `Exclusion` among
owners, the word as rounds under way plus EXCLUSIVE_LOCKED times the owners, and
`OwnersData`, that what an owner has read is what is stored.  `BatchedUpdatesAddUp` proves
`NoLostUpdate` from one more, `CountOK`: while a writer's update is counted and not yet
written, its buffer counts all updates, and so do the lines already written; while there
is none, the tuple does.

`OptimisticLock_proofs` proves `OptimisticTypeCorrect` and `OptimisticLatchExclusive` in all modes, and
`ValidatedReadsAreSnapshots` and `VersionsNeverSkip` under `EnoughBuffers`: V2 with a footer latch has two
local buffers.  `OptdbSingleBuffer.cfg` shows that the assumption is needed for snapshots.  Workers,
lines and updates are any.  There are three inductive invariants:

 * `IInv`, for the first two: what a thread may have in its queue at each point of its
   program (`QueueOK`), the latch that a WRITE under way is about to write, 1 with a
   header and 0 with a footer (`LatchKept`), what the holder of the latch has read
   (`OwnerReads`), and that there is at most one holder (`OneHolder`);
 * `DInv`, on top of it, for the data: a WRITE under way is of the next version, and the
   lines it has yet to fill are of the one before (`WriteOK`, `TupleOK`); checksums and
   line versions, wherever a copy of them is, are of one version (`ProofsOK`); with two
   buffers the operation that begins meanwhile uses the other one (`BufferKept`); and
   what a reader knows (`ReadOK`): for as long as the version it saw unlatched is
   `Current`, all it has read since is of that version (`Seen`).  Versions only grow, so a
   reader that finds the same version and no latch at its end knows that it was
   current all along;
 * `CountOK`, on top of `IInv` and without `DInv`, for `OptimisticUpdatesAddUp` and
   `ReadersSeeTheirOwn`: a WRITE under way is of a tuple that counts all updates, and so do
   the lines already written; without one the tuple does (`Counted`).  What a
   thread has read contains its own updates (`SeesOwn`), since its READ comes after its WRITE
   in its queue.  Data counts the same whatever versions go with it, so neither
   theorem assumes `EnoughBuffers`: with a single buffer a reader may be fooled, but no
   update is lost.

That a WRITE under way has a first line to store is the well-foundedness of < on Nat.

`ConnectionManager_proofs` proves `ConnectionTypeCorrect`, `ContextsAreComplete`, `ExchangesApart` and
`HandlerEndsLast` for any workers on any nodes, any number of storage nodes, any
backlog and any number of stages.  What is hard about this component is that a connection has
three processes, a worker, a handler and a main thread, which know of each other only by
events, completions and a number.  `IInv` gives each end of a connection a position:
`Stand(s, c)`, how far the worker is over the connection c to s, from not begun over requested,
established and through the first exchange to the end of the second, and `Answer(s, c)`, how
far the storage node's handler and main have come with it.  Then

 * `WorkersOK`: a worker goes through its connections in order, and leaves after its last;
 * `EndsOK`: an end has sent what its position says and has polled for all completions of the
   exchanges it is done with and for none of those to come, which is what `ExchangesApart` is
   about; and for no more than there were;
 * `EventsOK`: which events of a connection there can be, and what each says of the position
   of the worker and the handler's tables;
 * `HandlersOK`: `numberConnections` is the cardinality of the accepted connections whose
   disconnection has not been retrieved (`Live`), and `numberConnectionsEstablished` of those
   over which `RdmaInfo` has been exchanged and which are still counted (`Counted`);
 * `MainsOK`: main's copy is the contexts in the order of the handler's `incomingIds`, and it
   is done with the exchanges up to `served`.

A worker that is done with a connection has got main's answer (`Concluded`), and so it has over
every earlier connection (`Earlier`).  So while main waits
for a wave nobody is ahead of it (`Abreast`) and nobody has left (`Parting`), and when it sees
the number it waits for, the connections counted, being no more than the wave's and as
many, are the wave's (`Complete`).  Conversely a handler that counts 0 after a
disconnection has seen all workers leave (`NobodyLeft`, `HandlerDone`).  The parts of `IInv`
are also invariants of the instance of `ConnectionManager.cfg`, where they were checked before
they were proved.

Every invariant and every action property of the runs that pass is proved, and so are the
two refinements.  Only model-checked are the liveness properties (`ThreadsLeave`,
`OperationsEnd`, `CallsReturn`, `EndsUnlessMissed`, `EndsUnlessOvertaken`, `EverybodyEnds`), which are
outside the prover's reach.

## Not modelled

 * `RC` and `Broken` of the optimistic locks, see `OptimisticLock`.
 * Completion queues with a limit.  They have 16 entries
   (`CommunicationManager.hpp:799`), and a batch of reads posts 32 signaled requests before it
   polls; what the device does then is not in this code.
 * `btree.cpp`, `opt_btree.cpp` and `lock.cpp`: paths of lock operations `RWLock` and `OptimisticLock` have,
   one tuple at a time, without a property across tuples.
 * Profiling: counters nothing depends on, which are read and reset while others
   increase them, so that an interval may be counted twice (`WorkerCounters.hpp:118`).
 * `HybridLatch`, `SpinLock`, `BatchQueue`, `MPMCQueue`: nothing uses them.
 * `WorkerGroup`, memory and work partitioning: a fork and a join, ranges, a
   monotonic buffer; sequential code before the stages.
 * The Python runner: processes on the nodes and what they print.
 * The microbenchmarks: measurements of the hardware around the job skeleton of
   `Stage`.
 * `Tabulate.hpp`, which is close to half of the repository's code, `PerfEvent.hpp`, `ZipfRejectionInversion.hpp` and the like:
   third-party, sequential, formatting or I/O.

The protocols are a small part of the repository's lines: the benchmarks repeat the same skeleton of
flags, tables, stages and output around a few loops of lock operations.  That is
why the models cover most of the synchronization and a small share of the lines.

## Running

    tlc -config RWLock.cfg MCRWLock
    tlc -config OptimisticLock.cfg MCOptimisticLock
    tlc -config OptdbSingleBuffer.cfg MCOptimisticLock     (a violation)
    tlc -config BatchedRWLock.cfg BatchedRWLock
    tlc -config BatchedUnchecked.cfg BatchedRWLock         (a violation)
    tlc -config WorkerPool.cfg WorkerPool
    tlc -config PoolHangs.cfg WorkerPool                   (a violation)
    tlc -config TailLock.cfg MCTailLock
    tlc -config TailUnlock.cfg MCTailLock                  (a violation)
    tlc -config Stage.cfg MCStage
    tlc -config ConnectionManager.cfg MCConnectionManager
    tlc -config RcoptStages.cfg MCConnectionManager        (a violation)
    tlapm SumTheorems.tla
    tlapm RWLock_proofs.tla
    tlapm TailLock_proofs.tla
    tlapm BatchedRWLock_proofs.tla
    tlapm WorkerPool_proofs.tla
    tlapm Stage_proofs.tla
    tlapm OptimisticLock_proofs.tla
    tlapm ConnectionManager_proofs.tla
