-------------------------------- MODULE Stage --------------------------------
(***************************************************************************)
(* The stages of a benchmark and the two barriers that start them.         *)
(*                                                                         *)
(* On every compute node main gives each worker of its pool one job per    *)
(* stage.  A job passes the barrier in remote memory that all workers of   *)
(* all nodes share (rdma_barrier_wait, rdma_barrier_nam_wait) and, in      *)
(* nam_experiment and optdb_experiment, concurrency::Barrier, which it     *)
(* shares with main and the node's other jobs.  Then it works until main   *)
(* clears keep_running.  main sleeps, clears keep_running, waits for       *)
(* running_threads_counter to be 0, joins the pool, and goes on to the     *)
(* next stage with a new barrier, flag and counter: they are locals of the *)
(* loop's body, which the jobs hold by reference.                          *)
(*                                                                         *)
(* A node stands for its main thread, too.  The work on tuples is left     *)
(* out, and so is the length of main's sleep: main may wake up at any      *)
(* time.  The pool is as in WorkerPool: a job that is scheduled runs, and  *)
(* joinAll waits until none is left.                                       *)
(***************************************************************************)
EXTENDS Integers, FiniteSets

CONSTANTS
    Nodes,           \* the compute nodes
    Workers,         \* the workers of all nodes
    NodeOf,          \* the node each of them runs on
    Variants,        \* whether there is a thread barrier: a set of Booleans
    MaxStage         \* bound: the number of stages, workloads times zipfs

ASSUME WorkersAssumption == Workers # {} /\ IsFiniteSet(Workers)
ASSUME NodesAssumption == NodeOf \in [Workers -> Nodes] /\ Nodes \intersect Workers = {}
ASSUME VariantsAssumption == Variants \subseteq BOOLEAN
ASSUME MaxStageAssumption == MaxStage \in Nat

Threads == Workers \union Nodes

Node(t)      == IF t \in Nodes THEN t ELSE NodeOf[t]
WorkersOf(n) == {w \in Workers : NodeOf[w] = n}
FLAGS_worker(n) == Cardinality(WorkersOf(n))

VARIABLES
    with_barrier,   \* is there a thread barrier in this program?
    barrier,        \* remote: the counter of the RDMA barrier
    barrier_value,  \* *local_barrier_buffer of each worker
    pc,             \* where each thread stands
    stage,          \* of each node's main, which its jobs read
    keep_running,   \* of each node, as the next two
    running_threads_counter,
    cntr,           \* Barrier::cntr
    round,          \* Barrier::round
    prevRound,      \* the local variable of Barrier::wait
    entered         \* history: the stages whose RDMA barrier a worker has entered

rdma == <<barrier, barrier_value, entered>>
flag == <<keep_running, running_threads_counter>>
b    == <<cntr, round, prevRound>>
vars == <<with_barrier, barrier, barrier_value, pc, stage, keep_running,
          running_threads_counter, cntr, round, prevRound, entered>>

RdmaPcs    == {"rdma_enter", "rdma_read"}
BarrierPcs == {"wait", "arrive", "reset", "advance", "spin"}
WorkerPcs  == RdmaPcs \union BarrierPcs \union {"idle", "begin", "work"}
MainPcs    == BarrierPcs \union {"schedule", "sleep", "count", "join", "done"}

TypeOK ==
    /\ with_barrier \in Variants
    /\ barrier \in Nat
    /\ barrier_value \in [Workers -> Nat]
    /\ pc \in [Threads -> WorkerPcs \union MainPcs]
    /\ stage \in [Nodes -> 1 .. MaxStage + 1]
    /\ keep_running \in [Nodes -> BOOLEAN]
    /\ running_threads_counter \in [Nodes -> Nat]
    /\ cntr \in [Nodes -> Nat]
    /\ round \in [Nodes -> 0 .. 255]
    /\ prevRound \in [Threads -> 0 .. 255]
    /\ entered \in [Workers -> 0 .. MaxStage]

Init ==
    /\ with_barrier \in Variants
    /\ barrier = 0
    /\ barrier_value = [w \in Workers |-> 0]
    /\ pc = [t \in Threads |-> IF t \in Nodes THEN "schedule" ELSE "idle"]
    /\ stage = [n \in Nodes |-> 1]
    /\ keep_running = [n \in Nodes |-> FALSE]
    /\ running_threads_counter = [n \in Nodes |-> 0]
    /\ cntr = [n \in Nodes |-> 0]
    /\ round = [n \in Nodes |-> 0]
    /\ prevRound = [t \in Threads |-> 0]
    /\ entered = [w \in Workers |-> 0]

Goto(t, from, to) == pc[t] = from /\ pc' = [pc EXCEPT ![t] = to]

-----------------------------------------------------------------------------
(* main.                                                                   *)

\* Mutant: main is forgotten.
ThreadCountOfJobs(n) == FLAGS_worker(n)

\* Barrier b(FLAGS_worker + 1): include main thread.
ThreadCount(n) == FLAGS_worker(n) + 1

\* The loop's body begins: its locals are made and a job goes to each worker.
\* A job that is late is as good as one that is scheduled late.
Schedule(n) ==
    /\ pc[n] = "schedule"
    /\ stage[n] <= MaxStage
    /\ keep_running' = [keep_running EXCEPT ![n] = TRUE]
    /\ running_threads_counter' = [running_threads_counter EXCEPT ![n] = 0]
    /\ cntr' = [cntr EXCEPT ![n] = ThreadCount(n)]
    /\ round' = [round EXCEPT ![n] = 0]
    /\ pc' = [t \in Threads |->
                CASE t \in WorkersOf(n) -> "rdma_enter"
                  [] t = n -> IF with_barrier THEN "wait" ELSE "sleep"
                  [] OTHER -> pc[t]]
    /\ UNCHANGED <<with_barrier, rdma, stage, prevRound>>

\* sleep(FLAGS_run_for_seconds); keep_running = false.
StopRunning(n) ==
    /\ Goto(n, "sleep", "count")
    /\ keep_running' = [keep_running EXCEPT ![n] = FALSE]
    /\ UNCHANGED <<with_barrier, rdma, stage, running_threads_counter, b>>

\* while (running_threads_counter): it is 0, too, as long as no job has begun.
NoneRunning(n) ==
    /\ running_threads_counter[n] = 0
    /\ Goto(n, "count", "join")
    /\ UNCHANGED <<with_barrier, rdma, stage, flag, b>>

\* Mutant: the counter stands in for joinAll.
EndStageUnjoined(n) ==
    /\ Goto(n, "join", "schedule")
    /\ stage' = [stage EXCEPT ![n] = @ + 1]
    /\ UNCHANGED <<with_barrier, rdma, flag, b>>

\* joinAll; stage++; the loop's body ends.
EndStage(n) ==
    /\ \A w \in WorkersOf(n) : pc[w] = "idle"
    /\ Goto(n, "join", "schedule")
    /\ stage' = [stage EXCEPT ![n] = @ + 1]
    /\ UNCHANGED <<with_barrier, rdma, flag, b>>

End(n) ==
    /\ stage[n] > MaxStage
    /\ Goto(n, "schedule", "done")
    /\ UNCHANGED <<with_barrier, rdma, stage, flag, b>>

-----------------------------------------------------------------------------
(* The RDMA barrier.                                                       *)

\* Mutant: the counter is compared with the workers of one node.
ExpectedOfNode(w) == FLAGS_worker(NodeOf[w]) * stage[NodeOf[w]]

\* FLAGS_all_worker, or FLAGS_worker * FLAGS_storage_nodes.
Expected(w) == Cardinality(Workers) * stage[NodeOf[w]]

\* The FETCH_AND_ADD; the old value lands in the local buffer.
FetchAdd(w) ==
    /\ Goto(w, "rdma_enter", "rdma_read")
    /\ barrier' = barrier + 1
    /\ barrier_value' = [barrier_value EXCEPT ![w] = barrier]
    /\ entered' = [entered EXCEPT ![w] = stage[NodeOf[w]]]
    /\ UNCHANGED <<with_barrier, stage, flag, b>>

\* Mutant: barrier_value is not volatile, the loop tests what it read first.
ReadBarrierHoisted(w) ==
    /\ pc[w] = "rdma_read"
    /\ barrier_value[w] # Expected(w)
    /\ UNCHANGED vars

ReadBarrier(w) ==
    /\ pc[w] = "rdma_read"
    /\ barrier_value[w] # Expected(w)
    /\ barrier_value' = [barrier_value EXCEPT ![w] = barrier]
    /\ UNCHANGED <<with_barrier, barrier, entered, pc, stage, flag, b>>

PassRdmaBarrier(w) ==
    /\ barrier_value[w] = Expected(w)
    /\ Goto(w, "rdma_read", IF with_barrier THEN "wait" ELSE "begin")
    /\ UNCHANGED <<with_barrier, rdma, stage, flag, b>>

-----------------------------------------------------------------------------
(* concurrency::Barrier.                                                   *)

AfterWait(t) == IF t \in Nodes THEN "sleep" ELSE "begin"

\* auto prevRound = round.load()
PrevRound(t) ==
    /\ Goto(t, "wait", "arrive")
    /\ prevRound' = [prevRound EXCEPT ![t] = round[Node(t)]]
    /\ UNCHANGED <<with_barrier, rdma, stage, flag, cntr, round>>

\* auto prev = cntr.fetch_sub(1)
Arrive(t) ==
    /\ Goto(t, "arrive", IF cntr[Node(t)] = 1 THEN "reset" ELSE "spin")
    /\ cntr' = [cntr EXCEPT ![Node(t)] = @ - 1]
    /\ UNCHANGED <<with_barrier, rdma, stage, flag, round, prevRound>>

\* The last one: cntr = threadCount; then the finalizer, which does nothing.
Reset(t) ==
    /\ Goto(t, "reset", "advance")
    /\ cntr' = [cntr EXCEPT ![Node(t)] = ThreadCount(Node(t))]
    /\ UNCHANGED <<with_barrier, rdma, stage, flag, round, prevRound>>

\* round++, 8 bits wide.
Advance(t) ==
    /\ Goto(t, "advance", AfterWait(t))
    /\ round' = [round EXCEPT ![Node(t)] = (@ + 1) % 256]
    /\ UNCHANGED <<with_barrier, rdma, stage, flag, cntr, prevRound>>

\* The end of while (round == prevRound).
Leave(t) ==
    /\ round[Node(t)] # prevRound[t]
    /\ Goto(t, "spin", AfterWait(t))
    /\ UNCHANGED <<with_barrier, rdma, stage, flag, b>>

Wait(t) == PrevRound(t) \/ Arrive(t) \/ Reset(t) \/ Advance(t) \/ Leave(t)

-----------------------------------------------------------------------------
(* A job behind the barriers.                                              *)

\* running_threads_counter++.
BeginWork(w) ==
    /\ Goto(w, "begin", "work")
    /\ running_threads_counter' = [running_threads_counter EXCEPT ![NodeOf[w]] = @ + 1]
    /\ UNCHANGED <<with_barrier, rdma, stage, keep_running, b>>

\* while (keep_running) ends; running_threads_counter--; the job is over.
EndWork(w) ==
    /\ ~keep_running[NodeOf[w]]
    /\ Goto(w, "work", "idle")
    /\ running_threads_counter' = [running_threads_counter EXCEPT ![NodeOf[w]] = @ - 1]
    /\ UNCHANGED <<with_barrier, rdma, stage, keep_running, b>>

AllDone == \A n \in Nodes : pc[n] = "done"
Terminated == AllDone /\ UNCHANGED vars

MainStep(n) == Schedule(n) \/ StopRunning(n) \/ NoneRunning(n) \/ EndStage(n) \/ End(n)
WorkerStep(w) == FetchAdd(w) \/ ReadBarrier(w) \/ PassRdmaBarrier(w)
                 \/ BeginWork(w) \/ EndWork(w)

Next == \/ \E n \in Nodes : MainStep(n)
        \/ \E w \in Workers : WorkerStep(w)
        \/ \E t \in Threads : Wait(t)
        \/ Terminated

Spec == Init /\ [][Next]_vars

\* Threads are scheduled; READs of the counter complete.
Fairness == /\ \A n \in Nodes : WF_vars(MainStep(n))
            /\ \A w \in Workers : WF_vars(WorkerStep(w))
            /\ \A t \in Threads : WF_vars(Wait(t))

FairSpec == Spec /\ Fairness
-----------------------------------------------------------------------------
(* Properties.                                                             *)

\* What the RDMA barrier is for: a worker is past it only if every worker of
\* every node has entered it for the same stage, or a later one.
PastRdmaBarrier(w) == pc[w] \in BarrierPcs \union {"begin", "work"}

StartTogether ==
    \A w \in Workers : PastRdmaBarrier(w) =>
        \A v \in Workers : entered[v] >= entered[w]

\* What the thread barrier adds: the seconds a stage is measured for begin
\* when all workers of the node are past both barriers, and none of them
\* begins work that main has called off.
MeasuredFromStart ==
    with_barrier => \A n \in Nodes : pc[n] = "sleep" =>
        \A w \in WorkersOf(n) : pc[w] \in {"begin", "work", "advance", "spin"}

\* The locals of the loop's body are there as long as a job uses them, and
\* belong to the stage of that job: running_threads_counter, which is 0
\* before the jobs begin, would not see to it alone.
LocalsOutliveJobs ==
    \A w \in Workers :
        /\ pc[w] # "idle" => pc[NodeOf[w]] \notin {"schedule", "done"}
        /\ pc[w] \notin {"idle", "rdma_enter"} => entered[w] = stage[NodeOf[w]]

\* A worker that entered the RDMA barrier and did not read the counter before
\* somebody entered the next stage's: it waits for a value that has gone by.
Overtaken(w) ==
    pc[w] = "rdma_read" /\ barrier > Expected(w) /\ barrier_value[w] # Expected(w)

\* The program runs through all its stages, unless that happens.  Nothing but
\* the length of main's sleep keeps it from happening.
EndsUnlessOvertaken == <>(AllDone \/ \E w \in Workers : Overtaken(w))
=============================================================================
