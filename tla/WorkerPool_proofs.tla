-------------------------- MODULE WorkerPool_proofs --------------------------
(***************************************************************************)
(* WorkerPool, for any number of workers and jobs: no job is lost, the     *)
(* calls that wait for jobs return after them, and the pool's objects are  *)
(* deleted after the threads that use them.                                *)
(***************************************************************************)
EXTENDS WorkerPool, FiniteSetTheorems, TLAPS

\* The threads that runningThreads counts.
Running == {t \in Threads : pc[t] \notin {"start", "left"}}
Counted == runningThreads = Cardinality(Running)

\* The flags of a worker: a job that runs is still set, one that is set is not done.
FlagsOK == \A t \in Threads : /\ pc[t] = "job" => meta[t].jobSet
                              /\ meta[t].jobDone => ~meta[t].jobSet

\* What the main thread has waited for so far.
MainOK == /\ main # "construct" => \A t \in Threads : pc[t] # "start"
          /\ main = "join" => \A t \in Threads : t < t_i => ~meta[t].jobSet

IInv == TypeOK /\ Counted /\ FlagsOK /\ MainOK /\ JobsNotLost /\ DeletedAfterUse

-----------------------------------------------------------------------------

\* There are N threads.
LEMMA ThreadsFinite == IsFiniteSet(Threads) /\ Cardinality(Threads) = N
BY NAssumption, FS_Interval DEF Threads

\* No more than N of them run; if N do, all do, and if 0 do, none does.
LEMMA RunningBounds ==
    /\ IsFiniteSet(Running)
    /\ Cardinality(Running) \in 0 .. N
    /\ Cardinality(Running) = N => Running = Threads
    /\ Cardinality(Running) = 0 => Running = {}
<1>1. Running \in SUBSET Threads
  BY DEF Running
<1>2. /\ IsFiniteSet(Running) /\ Cardinality(Running) <= Cardinality(Threads)
      /\ Cardinality(Threads) = Cardinality(Running) => Threads = Running
  BY <1>1, ThreadsFinite, FS_Subset
<1>3. Cardinality(Running) \in Nat
  BY <1>2, FS_CardinalityType
<1>4. Cardinality(Running) = 0 => Running = {}
  BY <1>2, FS_EmptySet
<1>5. QED
  BY <1>2, <1>3, <1>4, ThreadsFinite, NAssumption

\* Setting a flag leaves a worker's flags flags.
LEMMA FlagsType ==
    \A r \in Flags : /\ [r EXCEPT !.wtReady = FALSE] \in Flags
                     /\ [r EXCEPT !.jobSet = TRUE, !.jobDone = FALSE] \in Flags
                     /\ [jobSet |-> FALSE, jobDone |-> TRUE, wtReady |-> TRUE] \in Flags
BY DEF Flags

\* The pool as it is constructed satisfies the invariant.
LEMMA InitInv == Init => IInv
<1> SUFFICES ASSUME Init PROVE IInv
  OBVIOUS
<1>1. TypeOK
  BY NAssumption DEF Init, TypeOK, Threads, Calling, Flags
<1>2. Running = {}
  BY DEF Init, Running
<1>3. Counted
  BY <1>2, FS_EmptySet DEF Init, Counted
<1>4. FlagsOK /\ MainOK /\ JobsNotLost /\ DeletedAfterUse
  BY DEF Init, FlagsOK, MainOK, JobsNotLost, DeletedAfterUse, Calling
<1>5. QED
  BY <1>1, <1>3, <1>4 DEF IInv

-----------------------------------------------------------------------------
(* A worker.                                                               *)

\* A thread that goes from one point of its loop to another, or that starts
\* or leaves, keeps the count with what it does to runningThreads.
LEMMA CountStep ==
    ASSUME IInv, NEW t \in Threads, \A u \in Threads \ {t} : pc'[u] = pc[u],
           \/ /\ pc[t] \notin {"start", "left"} /\ pc'[t] \notin {"start", "left"}
              /\ runningThreads' = runningThreads
           \/ /\ pc[t] = "start" /\ pc'[t] = "loop"
              /\ runningThreads' = runningThreads + 1
           \/ /\ pc[t] = "exit" /\ pc'[t] = "left"
              /\ runningThreads' = runningThreads - 1
    PROVE  Counted' /\ runningThreads' \in 0 .. N
<1>1. CASE /\ pc[t] \notin {"start", "left"} /\ pc'[t] \notin {"start", "left"}
           /\ runningThreads' = runningThreads
  <2>1. Running' = Running
    BY <1>1 DEF Running
  <2>2. QED
    BY <1>1, <2>1 DEF IInv, Counted, TypeOK
<1>2. CASE /\ pc[t] = "start" /\ pc'[t] = "loop"
           /\ runningThreads' = runningThreads + 1
  <2>1. Running' = Running \union {t} /\ t \notin Running
    BY <1>2 DEF Running
  <2>2. Cardinality(Running') = Cardinality(Running) + 1
    BY <2>1, RunningBounds, FS_AddElement
  <2>3. Counted'
    BY <1>2, <2>2 DEF IInv, Counted
  <2>4. Running \union {t} \in SUBSET Threads
    BY DEF Running
  <2>5. Cardinality(Running \union {t}) <= N
    BY <2>4, ThreadsFinite, FS_Subset
  <2>6. QED
    BY <2>1, <2>2, <2>3, <2>5, RunningBounds, NAssumption DEF Counted
<1>3. CASE /\ pc[t] = "exit" /\ pc'[t] = "left"
           /\ runningThreads' = runningThreads - 1
  <2>1. Running' = Running \ {t} /\ t \in Running
    BY <1>3 DEF Running
  <2>2. Cardinality(Running') = Cardinality(Running) - 1
    BY <2>1, RunningBounds, FS_RemoveElement
  <2>3. Counted'
    BY <1>3, <2>2 DEF IInv, Counted
  <2>4. Cardinality(Running) >= 1
    BY <2>1, RunningBounds
  <2>5. QED
    BY <2>2, <2>3, <2>4, RunningBounds, NAssumption DEF Counted
<1>4. QED
  BY <1>1, <1>2, <1>3

\* A worker's step keeps the invariant.
LEMMA WorkerStep ==
    ASSUME IInv, NEW t \in Threads, Worker(t)
    PROVE  IInv'
<1> USE DEF IInv, pool, calls, Goto
<1>1. ASSUME Start(t) PROVE IInv'
  <2>1. Counted' /\ runningThreads' \in 0 .. N
    BY <1>1, CountStep DEF Start, TypeOK
  <2>2. TypeOK' BY <1>1, <2>1 DEF Start, TypeOK
  <2>3. FlagsOK' BY <1>1 DEF Start, TypeOK, FlagsOK
  <2>4. MainOK' /\ DeletedAfterUse' BY <1>1 DEF Start, TypeOK, MainOK, DeletedAfterUse
  <2>5. JobsNotLost' BY <1>1 DEF Start, JobsNotLost
  <2>6. QED BY <2>1, <2>2, <2>3, <2>4, <2>5
<1>2. ASSUME Exit(t) PROVE IInv'
  <2>1. Counted' /\ runningThreads' \in 0 .. N
    BY <1>2, CountStep DEF Exit, TypeOK
  <2>2. TypeOK' BY <1>2, <2>1 DEF Exit, TypeOK
  <2>3. FlagsOK' BY <1>2 DEF Exit, TypeOK, FlagsOK
  <2>4. MainOK' /\ DeletedAfterUse' BY <1>2 DEF Exit, TypeOK, MainOK, DeletedAfterUse
  <2>5. JobsNotLost' BY <1>2 DEF Exit, JobsNotLost
  <2>6. QED BY <2>1, <2>2, <2>3, <2>4, <2>5
<1>3. ASSUME Loop(t) \/ Lock(t) \/ TestFails(t) \/ Sleep(t) \/ Break(t) PROVE IInv'
  <2>1. Counted' /\ runningThreads' \in 0 .. N
    BY <1>3, CountStep DEF Loop, Lock, TestFails, Sleep, Break, TypeOK
  <2>2. TypeOK'
    <3>1. pc' \in [Threads -> {"start", "loop", "lock", "wait", "sleep", "job", "exit", "left"}]
      BY <1>3 DEF Loop, Lock, TestFails, Sleep, Break, TypeOK
    <3>2. mutex' \in [Threads -> {"free", "worker"}]
      BY <1>3 DEF Loop, Lock, TestFails, Sleep, Break, TypeOK
    <3>3. cv' \in [Threads -> SUBSET {"worker", "main"}]
      BY <1>3 DEF Loop, Lock, TestFails, Sleep, Break, TypeOK
    <3>4. QED
      BY <1>3, <2>1, <3>1, <3>2, <3>3 DEF Loop, Lock, TestFails, Sleep, Break, TypeOK
  <2>3. FlagsOK'
    BY <1>3 DEF Loop, Lock, TestFails, Sleep, Break, TypeOK, FlagsOK
  <2>4. MainOK' /\ DeletedAfterUse'
    BY <1>3 DEF Loop, Lock, TestFails, Sleep, Break, TypeOK, MainOK, DeletedAfterUse
  <2>5. JobsNotLost' BY <1>3 DEF Loop, Lock, TestFails, Sleep, Break, JobsNotLost
  <2>6. QED BY <2>1, <2>2, <2>3, <2>4, <2>5
<1>4. ASSUME TakeJob(t) PROVE IInv'
  <2>1. Counted' /\ runningThreads' \in 0 .. N
    BY <1>4, CountStep DEF TakeJob, TypeOK
  <2>2. TypeOK'
    <3>1. meta' \in [Threads -> Flags]
      BY <1>4, FlagsType DEF TakeJob, TypeOK
    <3>2. QED BY <1>4, <2>1, <3>1 DEF TakeJob, TypeOK
  <2>3. \A u \in Threads : /\ meta'[u].jobSet = meta[u].jobSet
                           /\ meta'[u].jobDone = meta[u].jobDone
    BY <1>4 DEF TakeJob, TypeOK
  <2>4. FlagsOK'
    BY <1>4, <2>3 DEF TakeJob, TypeOK, FlagsOK
  <2>5. MainOK' /\ DeletedAfterUse'
    BY <1>4, <2>3 DEF TakeJob, TypeOK, MainOK, DeletedAfterUse
  <2>6. JobsNotLost' BY <1>4, <2>3 DEF TakeJob, JobsNotLost
  <2>7. QED BY <2>1, <2>2, <2>4, <2>5, <2>6
<1>5. ASSUME FinishJob(t) PROVE IInv'
  <2>1. Counted' /\ runningThreads' \in 0 .. N
    BY <1>5, CountStep DEF FinishJob, TypeOK
  <2>2. cv' \in [Threads -> SUBSET {"worker", "main"}]
    BY <1>5 DEF FinishJob, NotifyOne, TypeOK
  <2>3. TypeOK'
    <3>1. meta' \in [Threads -> Flags]
      BY <1>5, FlagsType DEF FinishJob, TypeOK
    <3>2. ran' \in [Threads -> Nat]
      BY <1>5 DEF FinishJob, TypeOK
    <3>3. QED BY <1>5, <2>1, <2>2, <3>1, <3>2 DEF FinishJob, TypeOK
  <2>4. \A u \in Threads \ {t} : meta'[u] = meta[u] /\ pc'[u] = pc[u] /\ ran'[u] = ran[u]
    BY <1>5 DEF FinishJob, TypeOK
  <2>5. /\ meta[t].jobSet /\ ~meta'[t].jobSet /\ pc'[t] = "loop" /\ pc[t] = "job"
        /\ ran'[t] = ran[t] + 1 /\ scheduled' = scheduled /\ main' = main /\ t_i' = t_i
    BY <1>5 DEF FinishJob, TypeOK, FlagsOK
  <2>6. FlagsOK' BY <2>4, <2>5 DEF FlagsOK
  <2>7. MainOK' /\ DeletedAfterUse'
    BY <2>4, <2>5 DEF MainOK, DeletedAfterUse
  <2>8. JobsNotLost'
    <3>1. ran[t] \in Nat /\ scheduled[t] = ran[t] + 1
      BY <2>5 DEF JobsNotLost, TypeOK
    <3>2. scheduled[t] = ran'[t] + 0
      BY <2>5, <3>1
    <3>3. QED BY <2>4, <2>5, <3>2 DEF JobsNotLost
  <2>9. QED BY <2>1, <2>3, <2>6, <2>7, <2>8
<1>6. QED
  BY <1>1, <1>2, <1>3, <1>4, <1>5 DEF Worker

-----------------------------------------------------------------------------
(* The main thread.                                                        *)

\* While only condition variables change, nothing else is to be shown.
LEMMA WaitStep ==
    ASSUME IInv, cv' \in [Threads -> SUBSET {"worker", "main"}],
           UNCHANGED <<keepRunning, runningThreads, meta, mutex, pc, main, t_i,
                       scheduled, ran>>
    PROVE  IInv'
<1>1. TypeOK' BY DEF IInv, TypeOK
<1>2. Counted' BY DEF IInv, Counted, Running
<1>3. FlagsOK' /\ MainOK' /\ JobsNotLost' /\ DeletedAfterUse'
  BY DEF IInv, FlagsOK, MainOK, JobsNotLost, DeletedAfterUse
<1>4. QED BY <1>1, <1>2, <1>3 DEF IInv

\* A notification wakes at most one waiter.
LEMMA NotifyType ==
    ASSUME TypeOK, NEW t \in Threads, NotifyOne(t)
    PROVE  cv' \in [Threads -> SUBSET {"worker", "main"}]
BY DEF NotifyOne, TypeOK

\* Setting a job counts it, and only on a worker that has none set.
LEMMA ScheduleStep == ASSUME IInv, Schedule PROVE IInv'
<1> USE DEF IInv, pool, MainGoto
<1>1. /\ t_i \in Threads /\ t_i' = t_i /\ pc' = pc /\ ran' = ran
      /\ ~meta[t_i].jobSet /\ meta'[t_i].jobSet /\ ~meta'[t_i].jobDone
      /\ scheduled'[t_i] = scheduled[t_i] + 1
      /\ main \in {"async", "sync"} /\ main' \in {"async_notify", "sync_notify"}
  BY DEF Schedule, Idle, TypeOK
<1>2. \A u \in Threads \ {t_i} : meta'[u] = meta[u] /\ scheduled'[u] = scheduled[u]
  BY DEF Schedule, TypeOK
<1>3. TypeOK'
  <2>1. meta' \in [Threads -> Flags]
    BY FlagsType DEF Schedule, TypeOK
  <2>2. scheduled' \in [Threads -> Nat]
    BY DEF Schedule, TypeOK
  <2>3. QED
    BY <1>1, <2>1, <2>2 DEF Schedule, TypeOK, Calling
<1>4. Counted' BY DEF Schedule, Counted, Running
<1>5. FlagsOK' BY <1>1, <1>2 DEF FlagsOK
<1>6. MainOK' /\ DeletedAfterUse' BY <1>1 DEF MainOK, DeletedAfterUse
<1>7. JobsNotLost'
  <2>1. ran[t_i] \in Nat /\ scheduled[t_i] = ran[t_i] + 0
    BY <1>1 DEF JobsNotLost, TypeOK
  <2>2. scheduled'[t_i] = ran'[t_i] + 1
    BY <1>1, <2>1
  <2>3. QED BY <1>1, <1>2, <2>2 DEF JobsNotLost
<1>8. QED BY <1>3, <1>4, <1>5, <1>6, <1>7

\* Everything else the main thread does keeps the invariant too.
LEMMA MainStep == ASSUME IInv, Main \/ Destroy \/ (\E t \in Threads : Call(t))
                  PROVE  IInv'
<1> USE DEF IInv, pool, calls, MainGoto
<1> DEFINE Same == UNCHANGED <<runningThreads, meta, mutex, pc, scheduled, ran>>
<1>1. ASSUME Same, cv' \in [Threads -> SUBSET {"worker", "main"}],
             keepRunning' \in BOOLEAN, t_i' \in Threads,
             main' \in Calling \union {"free", "destroy", "leave", "destroyed"},
             MainOK', DeletedAfterUse'
      PROVE  IInv'
  <2>1. TypeOK' BY <1>1 DEF TypeOK
  <2>2. Counted' BY <1>1 DEF Counted, Running
  <2>3. FlagsOK' /\ JobsNotLost' BY <1>1 DEF FlagsOK, JobsNotLost
  <2>4. QED BY <1>1, <2>1, <2>2, <2>3
<1>2. CASE Construct
  <2>1. Running = Threads
    BY <1>2, RunningBounds DEF Construct, Counted
  <2>2. \A t \in Threads : pc[t] # "start"
    BY <2>1 DEF Running
  <2>3. MainOK' /\ DeletedAfterUse'
    BY <1>2, <2>2 DEF Construct, MainOK, DeletedAfterUse
  <2>4. QED BY <1>1, <1>2, <2>3 DEF Construct, TypeOK
<1>3. CASE ScheduleWaits \/ SyncWaits \/ JoinWaits
  <2>1. cv' \in [Threads -> SUBSET {"worker", "main"}]
    BY <1>3 DEF ScheduleWaits, SyncWaits, JoinWaits, WaitFor, TypeOK
  <2>2. QED BY <1>3, <2>1, WaitStep DEF ScheduleWaits, SyncWaits, JoinWaits, WaitFor
<1>4. CASE Schedule
  BY <1>4, ScheduleStep
<1>5. CASE ScheduleNotify
  <2>1. cv' \in [Threads -> SUBSET {"worker", "main"}]
    BY <1>5, NotifyType DEF ScheduleNotify, TypeOK
  <2>2. MainOK' /\ DeletedAfterUse'
    BY <1>5 DEF ScheduleNotify, MainOK, DeletedAfterUse
  <2>3. QED BY <1>1, <1>5, <2>1, <2>2 DEF ScheduleNotify, TypeOK, Calling
<1>6. CASE SyncReturn
  <2>1. MainOK' /\ DeletedAfterUse'
    BY <1>6 DEF SyncReturn, MainOK, DeletedAfterUse
  <2>2. QED BY <1>1, <1>6, <2>1 DEF SyncReturn, TypeOK
<1>7. CASE Join
  <2>1. CASE t_i < N
    <3>1. \A t \in Threads : t < t_i + 1 => t < t_i \/ t = t_i
      BY DEF Threads, TypeOK
    <3>2. MainOK' /\ DeletedAfterUse'
      BY <1>7, <2>1, <3>1 DEF Join, Idle, MainOK, DeletedAfterUse
    <3>3. t_i' \in Threads
      BY <1>7, <2>1, NAssumption DEF Join, Threads, TypeOK
    <3>4. QED BY <1>1, <1>7, <2>1, <3>2, <3>3 DEF Join, TypeOK, Calling
  <2>2. CASE ~(t_i < N)
    <3>1. MainOK' /\ DeletedAfterUse'
      BY <1>7, <2>2 DEF Join, MainOK, DeletedAfterUse
    <3>2. QED BY <1>1, <1>7, <2>2, <3>1 DEF Join, TypeOK
  <2>3. QED BY <2>1, <2>2
<1>8. CASE DestroyNotify
  <2>1. cv' \in [Threads -> SUBSET {"worker", "main"}]
    BY <1>8, NotifyType DEF DestroyNotify, TypeOK
  <2>2. t_i' \in Threads
    BY <1>8, NAssumption DEF DestroyNotify, Threads, TypeOK
  <2>3. main \in {"destroy"} /\ main' \in {"destroy", "leave"}
    BY <1>8 DEF DestroyNotify
  <2>4. MainOK' /\ DeletedAfterUse'
    BY <1>8, <2>3 DEF DestroyNotify, MainOK, DeletedAfterUse
  <2>5. QED BY <1>1, <1>8, <2>1, <2>2, <2>3, <2>4 DEF DestroyNotify, TypeOK
<1>9. CASE Destroyed
  <2>1. Running = {}
    BY <1>9, RunningBounds DEF Destroyed, Counted
  <2>2. \A t \in Threads : pc[t] = "left"
    BY <1>9, <2>1 DEF Destroyed, Running, MainOK, TypeOK
  <2>3. MainOK' /\ DeletedAfterUse'
    BY <1>9, <2>2 DEF Destroyed, MainOK, DeletedAfterUse
  <2>4. QED BY <1>1, <1>9, <2>3 DEF Destroyed, TypeOK
<1>10. CASE Destroy
  <2>1. MainOK' /\ DeletedAfterUse'
    BY <1>10 DEF Destroy, MainOK, DeletedAfterUse
  <2>2. 1 \in Threads
    BY NAssumption DEF Threads
  <2>3. QED BY <1>1, <1>10, <2>1, <2>2 DEF Destroy, TypeOK
<1>11. ASSUME NEW t \in Threads, Call(t) PROVE IInv'
  <2>1. main = "free" /\ main' \in {"async", "sync", "join"} /\ t_i' = t
        /\ (main' = "join" => t = 1)
    BY <1>11 DEF Call
  <2>2. \A u \in Threads : ~(u < 1)
    BY NAssumption DEF Threads
  <2>3. MainOK' /\ DeletedAfterUse'
    BY <1>11, <2>1, <2>2 DEF Call, MainOK, DeletedAfterUse
  <2>4. QED BY <1>1, <1>11, <2>1, <2>3 DEF Call, TypeOK, Calling
<1>12. QED
  BY <1>2, <1>3, <1>4, <1>5, <1>6, <1>7, <1>8, <1>9, <1>10, <1>11 DEF Main

-----------------------------------------------------------------------------

\* Every step of the pool keeps the invariant.
LEMMA NextInv == IInv /\ [Next]_vars => IInv'
<1> SUFFICES ASSUME IInv, [Next]_vars PROVE IInv'
  OBVIOUS
<1>1. ASSUME NEW t \in Threads, SpuriousWakeup(t) PROVE IInv'
  <2>1. cv' \in [Threads -> SUBSET {"worker", "main"}]
    BY <1>1 DEF SpuriousWakeup, IInv, TypeOK
  <2>2. QED BY <1>1, <2>1, WaitStep DEF SpuriousWakeup, pool, calls
<1>2. CASE UNCHANGED vars
  BY <1>2, WaitStep DEF vars, IInv, TypeOK
<1>3. QED
  BY <1>1, <1>2, WorkerStep, MainStep DEF Next

\* IInv is an invariant of the worker pool.
LEMMA Invariance == Spec => []IInv
BY InitInv, NextInv, PTL DEF Spec

\* The pool's state keeps its types; runningThreads in particular counts
\* from 0 to the number of workers and does not wrap.
THEOREM PoolTypeCorrect == Spec => []TypeOK
BY Invariance, PTL DEF IInv

\* No job that was set is overwritten before it has run, and none runs twice.
THEOREM NoJobLost == Spec => []JobsNotLost
BY Invariance, PTL DEF IInv

\* ~WorkerPool deletes the Worker objects when all threads have left.
THEOREM DeletionSafe == Spec => []DeletedAfterUse
BY Invariance, PTL DEF IInv

\* scheduleJobSync returns when its own job has run.
THEOREM SyncWaitsForJob == Spec => SyncMeansDone
<1>1. IInv /\ [Next]_vars =>
          [main = "sync_done" /\ main' = "free" => ran[t_i] = scheduled[t_i]]_vars
  <2> SUFFICES ASSUME IInv, [Next]_vars, main = "sync_done", main' = "free"
               PROVE  ran[t_i] = scheduled[t_i]
    OBVIOUS
  <2>1. SyncReturn
    BY DEF Next, vars, Worker, Start, Loop, Lock, TestFails, Sleep, TakeJob, FinishJob, Break, Exit,
       SpuriousWakeup, Call, Main, Construct, ScheduleWaits, Schedule, ScheduleNotify,
       SyncWaits, JoinWaits, Join, WaitFor, DestroyNotify, Destroyed, Destroy,
       MainGoto, calls
  <2>2. t_i \in Threads /\ ~meta[t_i].jobSet
    BY <2>1 DEF SyncReturn, IInv, FlagsOK, TypeOK
  <2>3. QED
    BY <2>2 DEF IInv, JobsNotLost, TypeOK
<1>2. QED
  BY <1>1, Invariance, PTL DEF Spec, SyncMeansDone

\* joinAll returns when every job that was given to any worker has run.
THEOREM JoinWaitsForJobs == Spec => JoinedMeansDone
<1>1. IInv /\ [Next]_vars =>
          [main = "join" /\ main' = "free" => \A t \in Threads : ran[t] = scheduled[t]]_vars
  <2> SUFFICES ASSUME IInv, [Next]_vars, main = "join", main' = "free"
               PROVE  \A t \in Threads : ran[t] = scheduled[t]
    OBVIOUS
  <2>1. Join /\ ~(t_i < N)
    BY DEF Next, vars, Worker, Start, Loop, Lock, TestFails, Sleep, TakeJob, FinishJob, Break, Exit,
       SpuriousWakeup, Call, Main, Construct, ScheduleWaits, Schedule, ScheduleNotify,
       SyncWaits, SyncReturn, JoinWaits, Join, WaitFor, DestroyNotify, Destroyed, Destroy,
       MainGoto, calls
  <2>2. \A t \in Threads : t < t_i \/ t = t_i
    BY <2>1, NAssumption DEF IInv, TypeOK, Threads
  <2>3. \A t \in Threads : ~meta[t].jobSet
    BY <2>1, <2>2 DEF Join, Idle, IInv, MainOK
  <2>4. QED
    BY <2>3 DEF IInv, JobsNotLost, TypeOK
<1>2. QED
  BY <1>1, Invariance, PTL DEF Spec, JoinedMeansDone
=============================================================================
