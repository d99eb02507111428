----------------------------- MODULE WorkerPool -----------------------------
(***************************************************************************)
(* The worker threads of backend/nam/threads/WorkerPool.cpp and the main   *)
(* thread that gives them jobs.  Per worker there is one mutex and one     *)
(* condition variable, on which the worker waits for a job and the main    *)
(* thread waits for the worker; every change is announced by notify_one.   *)
(* A worker runs its job with the mutex held.  A waiter re-tests its       *)
(* predicate whenever it has the mutex again, and may wake for no reason.  *)
(* The flags in meta change under the mutex only, so the main thread tests *)
(* them and acts on the test in one step.  keepRunning is cleared without  *)
(* it: a worker tests it in one step and goes to sleep in another.         *)
(***************************************************************************)
EXTENDS Integers

CONSTANTS
    N,       \* workersCount; the workers are 1 .. N
    MaxJobs  \* bound: the jobs given to one worker

ASSUME NAssumption == N \in Nat \ {0}
ASSUME MaxJobsAssumption == MaxJobs \in Nat

Threads == 1 .. N

VARIABLES
    keepRunning,
    runningThreads,
    meta,      \* workerThreadsMeta: jobSet, jobDone and wtReady of each worker
    mutex,     \* meta.mutex: who holds it
    cv,        \* meta.cv: who waits on it
    pc,        \* where each worker stands
    main,      \* where the main thread stands
    t_i,       \* the worker the main thread is dealing with
    scheduled, \* history: the jobs given to each worker
    ran        \* history: the jobs each worker has run

pool  == <<keepRunning, runningThreads>>
calls == <<main, t_i, scheduled>>
vars  == <<keepRunning, runningThreads, meta, mutex, cv, pc, main, t_i, scheduled, ran>>

\* The calls of the main thread: scheduleJobAsync, scheduleJobSync, joinAll.
Calling == {"async", "async_notify", "sync", "sync_notify", "sync_done", "join"}

Flags == [jobSet : BOOLEAN, jobDone : BOOLEAN, wtReady : BOOLEAN]

TypeOK ==
    /\ keepRunning \in BOOLEAN
    /\ runningThreads \in 0 .. N
    /\ meta \in [Threads -> Flags]
    /\ mutex \in [Threads -> {"free", "worker"}]
    /\ cv \in [Threads -> SUBSET {"worker", "main"}]
    /\ pc \in [Threads -> {"start", "loop", "lock", "wait", "sleep", "job", "exit", "left"}]
    /\ main \in Calling \union {"construct", "free", "destroy", "leave", "destroyed"}
    /\ t_i \in Threads
    /\ scheduled \in [Threads -> Nat]
    /\ ran \in [Threads -> Nat]

Init ==
    /\ keepRunning = TRUE
    /\ runningThreads = 0
    /\ meta = [t \in Threads |-> [jobSet |-> FALSE, jobDone |-> FALSE, wtReady |-> TRUE]]
    /\ mutex = [t \in Threads |-> "free"]
    /\ cv = [t \in Threads |-> {}]
    /\ pc = [t \in Threads |-> "start"]
    /\ main = "construct"
    /\ t_i = 1
    /\ scheduled = [t \in Threads |-> 0]
    /\ ran = [t \in Threads |-> 0]

\* Of those that wait, one goes on; if nobody waits the call is without effect.
NotifyOne(t) ==
    IF cv[t] = {} THEN UNCHANGED cv ELSE \E x \in cv[t] : cv' = [cv EXCEPT ![t] = @ \ {x}]

Goto(t, from, to) == pc[t] = from /\ pc' = [pc EXCEPT ![t] = to]

-----------------------------------------------------------------------------
(* A worker.                                                               *)

Start(t) ==
    /\ Goto(t, "start", "loop")
    /\ runningThreads' = runningThreads + 1
    /\ UNCHANGED <<keepRunning, meta, mutex, cv, calls, ran>>

\* Mutant: runningThreads++ inside the loop.
LoopCounting(t) ==
    /\ IF keepRunning THEN Goto(t, "loop", "lock") ELSE Goto(t, "loop", "exit")
    /\ runningThreads' = runningThreads + 1
    /\ UNCHANGED <<keepRunning, meta, mutex, cv, calls, ran>>

Loop(t) ==
    /\ IF keepRunning THEN Goto(t, "loop", "lock") ELSE Goto(t, "loop", "exit")
    /\ UNCHANGED <<pool, meta, mutex, cv, calls, ran>>

\* The mutex is taken, at first or on coming back from the wait.
Lock(t) ==
    /\ mutex[t] = "free"
    /\ "worker" \notin cv[t]
    /\ Goto(t, "lock", "wait")
    /\ mutex' = [mutex EXCEPT ![t] = "worker"]
    /\ UNCHANGED <<pool, meta, cv, calls, ran>>

\* cv.wait: the predicate is false, ...
TestFails(t) ==
    /\ keepRunning
    /\ ~meta[t].jobSet
    /\ Goto(t, "wait", "sleep")
    /\ UNCHANGED <<pool, meta, mutex, cv, calls, ran>>

\* ... so the mutex is released for the wait, whatever was cleared meanwhile.
Sleep(t) ==
    /\ Goto(t, "sleep", "lock")
    /\ mutex' = [mutex EXCEPT ![t] = "free"]
    /\ cv' = [cv EXCEPT ![t] = @ \union {"worker"}]
    /\ UNCHANGED <<pool, meta, calls, ran>>

TakeJob(t) ==
    /\ keepRunning
    /\ meta[t].jobSet
    /\ Goto(t, "wait", "job")
    /\ meta' = [meta EXCEPT ![t].wtReady = FALSE]
    /\ UNCHANGED <<pool, mutex, cv, calls, ran>>

\* Mutant: nobody is told of the end of the job.
FinishJobSilently(t) ==
    /\ Goto(t, "job", "loop")
    /\ meta' = [meta EXCEPT ![t] = [jobSet |-> FALSE, jobDone |-> TRUE, wtReady |-> TRUE]]
    /\ mutex' = [mutex EXCEPT ![t] = "free"]
    /\ ran' = [ran EXCEPT ![t] = @ + 1]
    /\ UNCHANGED <<pool, cv, calls>>

FinishJob(t) ==
    /\ Goto(t, "job", "loop")
    /\ meta' = [meta EXCEPT ![t] = [jobSet |-> FALSE, jobDone |-> TRUE, wtReady |-> TRUE]]
    /\ NotifyOne(t)
    /\ mutex' = [mutex EXCEPT ![t] = "free"]
    /\ ran' = [ran EXCEPT ![t] = @ + 1]
    /\ UNCHANGED <<pool, calls>>

\* keepRunning went away while the worker waited; a job still set is not run.
Break(t) ==
    /\ ~keepRunning
    /\ Goto(t, "wait", "exit")
    /\ mutex' = [mutex EXCEPT ![t] = "free"]
    /\ UNCHANGED <<pool, meta, cv, calls, ran>>

Exit(t) ==
    /\ Goto(t, "exit", "left")
    /\ runningThreads' = runningThreads - 1
    /\ UNCHANGED <<keepRunning, meta, mutex, cv, calls, ran>>

Worker(t) == \/ Start(t) \/ Loop(t) \/ Lock(t) \/ TestFails(t) \/ Sleep(t)
             \/ TakeJob(t) \/ FinishJob(t) \/ Break(t) \/ Exit(t)

SpuriousWakeup(t) ==
    /\ \E x \in cv[t] : cv' = [cv EXCEPT ![t] = @ \ {x}]
    /\ UNCHANGED <<pool, meta, mutex, pc, calls, ran>>

-----------------------------------------------------------------------------
(* The main thread.                                                        *)

MainGoto(from, to) == main = from /\ main' = to

\* WorkerPool's constructor returns once all threads run.
Construct ==
    /\ runningThreads = N
    /\ MainGoto("construct", "free")
    /\ UNCHANGED <<pool, meta, mutex, cv, pc, t_i, scheduled, ran>>

Call(t) ==
    /\ t_i' = t
    /\ \/ scheduled[t] < MaxJobs /\ MainGoto("free", "async")
       \/ scheduled[t] < MaxJobs /\ MainGoto("free", "sync")
       \/ t = 1 /\ MainGoto("free", "join")
    /\ UNCHANGED <<pool, meta, mutex, cv, pc, scheduled, ran>>

\* The main thread has the mutex of the worker it is dealing with.
Locked == mutex[t_i] = "free" /\ "main" \notin cv[t_i]

\* Mutant: wtReady alone, which is TRUE until the worker has taken the job.
Ready == meta[t_i].wtReady

Idle == ~meta[t_i].jobSet /\ meta[t_i].wtReady

\* The main thread's cv.wait on a predicate that is false.
WaitFor(predicate) ==
    /\ Locked
    /\ ~predicate
    /\ cv' = [cv EXCEPT ![t_i] = @ \union {"main"}]
    /\ UNCHANGED <<pool, meta, mutex, pc, calls, ran>>

ScheduleWaits == main \in {"async", "sync"} /\ WaitFor(Idle)

\* Mutant: jobDone keeps the value of the job before.
ScheduleStale ==
    /\ Locked
    /\ Idle
    /\ MainGoto("async", "async_notify") \/ MainGoto("sync", "sync_notify")
    /\ meta' = [meta EXCEPT ![t_i].jobSet = TRUE]
    /\ scheduled' = [scheduled EXCEPT ![t_i] = @ + 1]
    /\ UNCHANGED <<pool, mutex, cv, pc, t_i, ran>>

\* scheduleJobAsync and scheduleJobSync: set the job, release the mutex ...
Schedule ==
    /\ Locked
    /\ Idle
    /\ MainGoto("async", "async_notify") \/ MainGoto("sync", "sync_notify")
    /\ meta' = [meta EXCEPT ![t_i].jobSet = TRUE, ![t_i].jobDone = FALSE]
    /\ scheduled' = [scheduled EXCEPT ![t_i] = @ + 1]
    /\ UNCHANGED <<pool, mutex, cv, pc, t_i, ran>>

\* ... and notify.
ScheduleNotify ==
    /\ MainGoto("async_notify", "free") \/ MainGoto("sync_notify", "sync_done")
    /\ NotifyOne(t_i)
    /\ UNCHANGED <<pool, meta, mutex, pc, t_i, scheduled, ran>>

SyncWaits == main = "sync_done" /\ WaitFor(meta[t_i].jobDone)

SyncReturn ==
    /\ Locked
    /\ meta[t_i].jobDone
    /\ MainGoto("sync_done", "free")
    /\ UNCHANGED <<pool, meta, mutex, cv, pc, t_i, scheduled, ran>>

JoinWaits == main = "join" /\ WaitFor(Idle)

\* joinAll goes from worker to worker.
Join ==
    /\ Locked
    /\ Idle
    /\ IF t_i < N THEN MainGoto("join", "join") /\ t_i' = t_i + 1
       ELSE MainGoto("join", "free") /\ UNCHANGED t_i
    /\ UNCHANGED <<pool, meta, mutex, cv, pc, scheduled, ran>>

\* ~WorkerPool: keepRunning is cleared without any mutex ...
Destroy ==
    /\ MainGoto("free", "destroy")
    /\ keepRunning' = FALSE
    /\ t_i' = 1
    /\ UNCHANGED <<runningThreads, meta, mutex, cv, pc, scheduled, ran>>

\* Mutant: the workers that wait are not woken.
DestroySilently ==
    /\ MainGoto("destroy", "leave")
    /\ UNCHANGED <<pool, meta, mutex, cv, pc, t_i, scheduled, ran>>

DestroyNotify ==
    /\ IF t_i < N THEN MainGoto("destroy", "destroy") /\ t_i' = t_i + 1
       ELSE MainGoto("destroy", "leave") /\ UNCHANGED t_i
    /\ NotifyOne(t_i)
    /\ UNCHANGED <<pool, meta, mutex, pc, scheduled, ran>>

\* Mutant: the Worker objects are deleted while threads run.
DestroyedAtOnce ==
    /\ MainGoto("leave", "destroyed")
    /\ UNCHANGED <<pool, meta, mutex, cv, pc, t_i, scheduled, ran>>

\* ... and the Worker objects are deleted once no thread runs any more.
Destroyed ==
    /\ runningThreads = 0
    /\ MainGoto("leave", "destroyed")
    /\ UNCHANGED <<pool, meta, mutex, cv, pc, t_i, scheduled, ran>>

Main == \/ Construct \/ ScheduleWaits \/ Schedule \/ ScheduleNotify
        \/ SyncWaits \/ SyncReturn \/ JoinWaits \/ Join
        \/ DestroyNotify \/ Destroyed

-----------------------------------------------------------------------------

Next == \/ \E t \in Threads : Worker(t) \/ SpuriousWakeup(t) \/ Call(t)
        \/ Main \/ Destroy

Spec == Init /\ [][Next]_vars

\* Every thread that can take a step does, whatever the program calls.  For a
\* wait to end no wakeup without a notify is needed, so none comes for ever.
Fairness ==
    /\ \A t \in Threads : WF_vars(Worker(t))
    /\ WF_vars(Main)
    /\ <>[][\A t \in Threads : ~SpuriousWakeup(t)]_vars

FairSpec == Spec /\ Fairness

-----------------------------------------------------------------------------
(* Properties.                                                             *)

\* No job is set over one that has not run, and none runs twice, although
\* the main thread lets go of the mutex before it notifies.
JobsNotLost ==
    \A t \in Threads : scheduled[t] = ran[t] + (IF meta[t].jobSet THEN 1 ELSE 0)

\* When joinAll returns every job given to any worker has run to its end; the
\* jobs use variables of the caller's frame.
JoinedMeansDone ==
    [][main = "join" /\ main' = "free" => \A t \in Threads : ran[t] = scheduled[t]]_vars

\* scheduleJobSync returns after its own job, not on an earlier one's jobDone.
SyncMeansDone ==
    [][main = "sync_done" /\ main' = "free" => ran[t_i] = scheduled[t_i]]_vars

\* The Worker objects go away after the last thread that uses them.
DeletedAfterUse ==
    main = "destroyed" => \A t \in Threads : pc[t] = "left"

\* schedule and join return: notify_one on a condition variable with two
\* kinds of waiters never wakes the wrong one for good.
CallsReturn == main \in Calling ~> main = "free"

\* The destructor returns.  It need not: see Missed.
PoolEnds == main = "destroy" ~> main = "destroyed"

\* t has tested keepRunning before the destructor cleared it, and is not yet
\* asleep when the destructor's one notification for it is given.
Missed(t) == /\ pc[t] = "sleep"
             /\ main = "leave" \/ (main = "destroy" /\ t < t_i)

\* Nothing else keeps the destructor from returning: workers that run, start,
\* sleep, or are anywhere else between two jobs when it begins all leave.
EndsUnlessMissed ==
    main = "destroy" /\ t_i = 1 ~> main = "destroyed" \/ \E t \in Threads : Missed(t)
=============================================================================
