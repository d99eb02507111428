---------------------------- MODULE Stage_proofs ----------------------------
(***************************************************************************)
(* Stage, for any number of nodes, workers and stages: workers start a     *)
(* stage together, it is measured from there, and what main gives the jobs *)
(* of a stage outlives them.                                               *)
(*                                                                         *)
(* The inductive invariant is built in layers, each of which is preserved  *)
(* because of those before it.                                             *)
(***************************************************************************)
EXTENDS Stage, FiniteSetTheorems, TLAPS

W == Cardinality(Workers)

\* main is not in the loop's body, or has no job to wait for any more.
Outside(n) == pc[n] \in {"schedule", "done"}
Ending(n)  == pc[n] \in {"count", "join"}

\* Where threads may be; the flag that keeps jobs going.
PlacesOK ==
    /\ \A w \in Workers : pc[w] \in WorkerPcs
    /\ \A n \in Nodes : /\ pc[n] \in MainPcs
                        /\ ~Outside(n) /\ ~Ending(n) => keep_running[n]
                        /\ ~Outside(n) => stage[n] <= MaxStage
    /\ ~with_barrier => \A t \in Threads : pc[t] \notin BarrierPcs

\* Which stages' barrier a worker has entered.
StagesOK ==
    \A w \in Workers :
        /\ pc[w] = "idle" =>
             IF Outside(NodeOf[w]) THEN entered[w] = stage[NodeOf[w]] - 1
             ELSE Ending(NodeOf[w]) /\ entered[w] = stage[NodeOf[w]]
        /\ pc[w] # "idle" => ~Outside(NodeOf[w])
        /\ pc[w] = "rdma_enter" => entered[w] = stage[NodeOf[w]] - 1
        /\ pc[w] \notin {"idle", "rdma_enter"} => entered[w] = stage[NodeOf[w]]

\* The counter counts, and no worker is two stages ahead of another one.
Ahead(s) == {w \in Workers : entered[w] = s + 1}
Counts(s) == /\ \A w \in Workers : entered[w] \in {s, s + 1}
             /\ barrier = W * s + Cardinality(Ahead(s))
RdmaOK ==
    /\ \E s \in Nat : Counts(s)
    /\ \A w \in Workers :
        /\ barrier_value[w] <= barrier
        /\ pc[w] # "rdma_read" => \A v \in Workers : entered[v] >= entered[w]

\* running_threads_counter.
Working(n) == {w \in WorkersOf(n) : pc[w] = "work"}
CountOK == \A n \in Nodes : running_threads_counter[n] = Cardinality(Working(n))

\* The thread barrier: those that are still to come, and the last one, which
\* alone is at large while all the others spin.
Arrivals == RdmaPcs \union {"wait", "arrive"}
ThreadsOf(n) == {t \in Threads : Node(t) = n}
ToCome(n) == {t \in ThreadsOf(n) : pc[t] \in Arrivals}
BarrierOf(n) ==
    /\ ToCome(n) # {} => cntr[n] = Cardinality(ToCome(n))
    /\ \A t \in ThreadsOf(n) :
        /\ pc[t] \in Arrivals =>
             round[n] = 0 /\ \A u \in ThreadsOf(n) : pc[u] \in Arrivals \union {"spin"}
        /\ pc[t] \in {"reset", "advance"} =>
             round[n] = 0 /\ \A u \in ThreadsOf(n) \ {t} : pc[u] = "spin"
        /\ pc[t] \in {"arrive", "spin"} => prevRound[t] = 0
BarrierOK == with_barrier => \A n \in Nodes : ~Outside(n) => BarrierOf(n)

IInv == TypeOK /\ PlacesOK /\ StagesOK /\ RdmaOK /\ CountOK /\ BarrierOK

USE WorkersAssumption, NodesAssumption, VariantsAssumption, MaxStageAssumption

-----------------------------------------------------------------------------
(* The threads of a node.                                                  *)

\* Every thread has a node; a node's workers are finitely many.
LEMMA NodeThreads ==
    /\ \A w \in Workers : NodeOf[w] \in Nodes /\ Node(w) = NodeOf[w] /\ w \notin Nodes
    /\ \A n \in Nodes : Node(n) = n /\ n \notin Workers
    /\ \A t \in Threads : Node(t) \in Nodes
    /\ \A n \in Nodes : ThreadsOf(n) = WorkersOf(n) \union {n}
BY DEF Node, Threads, ThreadsOf, WorkersOf

LEMMA FiniteThreads ==
    ASSUME NEW n \in Nodes
    PROVE  /\ IsFiniteSet(WorkersOf(n)) /\ IsFiniteSet(ThreadsOf(n))
           /\ FLAGS_worker(n) \in Nat
           /\ Cardinality(ThreadsOf(n)) = ThreadCount(n)
<1>1. WorkersOf(n) \in SUBSET Workers
  BY DEF WorkersOf
<1>2. IsFiniteSet(WorkersOf(n)) /\ FLAGS_worker(n) \in Nat
  BY <1>1, FS_Subset, FS_CardinalityType DEF FLAGS_worker
<1>3. n \notin WorkersOf(n)
  BY DEF WorkersOf
<1>4. /\ IsFiniteSet(WorkersOf(n) \union {n})
      /\ Cardinality(WorkersOf(n) \union {n}) = Cardinality(WorkersOf(n)) + 1
  BY <1>2, <1>3, FS_AddElement
<1>5. QED
  BY <1>2, <1>4, NodeThreads DEF FLAGS_worker, ThreadCount

-----------------------------------------------------------------------------
(* Types, places and stages.                                               *)

\* The state each of the initial ones is in.
LEMMA InitPlaces == Init => TypeOK /\ PlacesOK /\ StagesOK
<1> SUFFICES ASSUME Init PROVE TypeOK /\ PlacesOK /\ StagesOK
  OBVIOUS
<1>1. pc \in [Threads -> WorkerPcs \union MainPcs]
  BY DEF Init, WorkerPcs, MainPcs
<1>2. TypeOK
  BY <1>1 DEF Init, TypeOK
<1>3. /\ \A w \in Workers : pc[w] = "idle" /\ entered[w] = 0
      /\ \A n \in Nodes : pc[n] = "schedule" /\ stage[n] = 1
  BY NodeThreads DEF Init, Threads
<1>4. PlacesOK
  BY <1>3 DEF PlacesOK, Outside, Ending, WorkerPcs, MainPcs, Threads, BarrierPcs
<1>5. StagesOK
  BY <1>3 DEF StagesOK, Outside
<1>6. QED
  BY <1>2, <1>4, <1>5

\* A worker that works is counted.
LEMMA WorkingCounted ==
    ASSUME TypeOK, CountOK, NEW w \in Workers, pc[w] = "work"
    PROVE  /\ running_threads_counter[NodeOf[w]] # 0
           /\ running_threads_counter[NodeOf[w]] - 1 \in Nat
<1>1. w \in Working(NodeOf[w]) /\ Working(NodeOf[w]) \in SUBSET WorkersOf(NodeOf[w])
  BY DEF Working, WorkersOf
<1>2. IsFiniteSet(Working(NodeOf[w])) /\ Cardinality(Working(NodeOf[w])) \in Nat
  BY <1>1, FiniteThreads, NodeThreads, FS_Subset, FS_CardinalityType
<1>3. Cardinality(Working(NodeOf[w])) # 0
  BY <1>1, <1>2, FS_EmptySet
<1>4. QED
  BY <1>2, <1>3, NodeThreads DEF CountOK

\* A thread that has still to come is counted.
LEMMA ArrivalCounted ==
    ASSUME TypeOK, PlacesOK, StagesOK, BarrierOK, NEW t \in Threads, pc[t] = "arrive"
    PROVE  /\ with_barrier /\ ~Outside(Node(t)) /\ BarrierOf(Node(t))
           /\ t \in ToCome(Node(t)) /\ IsFiniteSet(ToCome(Node(t)))
           /\ cntr[Node(t)] = Cardinality(ToCome(Node(t)))
           /\ cntr[Node(t)] - 1 \in Nat
<1>1. with_barrier /\ ~Outside(Node(t))
  BY NodeThreads DEF TypeOK, PlacesOK, StagesOK, BarrierPcs, Outside, Threads
<1>2. BarrierOf(Node(t))
  BY <1>1, NodeThreads DEF BarrierOK
<1>3. t \in ToCome(Node(t)) /\ ToCome(Node(t)) \in SUBSET ThreadsOf(Node(t))
  BY DEF ToCome, ThreadsOf, Arrivals
<1>4. IsFiniteSet(ToCome(Node(t))) /\ Cardinality(ToCome(Node(t))) \in Nat
  BY <1>3, FiniteThreads, NodeThreads, FS_Subset, FS_CardinalityType
<1>5. Cardinality(ToCome(Node(t))) # 0
  BY ONLY <1>3, <1>4, FS_EmptySet
<1>6. cntr[Node(t)] = Cardinality(ToCome(Node(t)))
  BY <1>2, <1>3 DEF BarrierOf
<1>7. QED
  BY <1>1, <1>2, <1>3, <1>4, <1>5, <1>6

\* Every step keeps types and places, and lets main go on when its jobs are over.
LEMMA PlacesStep ==
    TypeOK /\ PlacesOK /\ StagesOK /\ CountOK /\ BarrierOK /\ [Next]_vars
        => TypeOK' /\ PlacesOK' /\ StagesOK'
<1> SUFFICES ASSUME TypeOK, PlacesOK, StagesOK, CountOK, BarrierOK, [Next]_vars
             PROVE  TypeOK' /\ PlacesOK' /\ StagesOK'
  OBVIOUS
<1> USE NodeThreads DEF TypeOK, PlacesOK, StagesOK, Outside, Ending, WorkerPcs, MainPcs,
                        RdmaPcs, BarrierPcs, Threads, Goto, flag, rdma, b
<1>1. ASSUME NEW n \in Nodes, Schedule(n)
      PROVE  TypeOK' /\ PlacesOK' /\ StagesOK'
  <2>1. ThreadCount(n) \in Nat
    BY FiniteThreads DEF ThreadCount
  <2>2. pc' \in [Threads -> WorkerPcs \union MainPcs]
    BY <1>1 DEF Schedule, WorkersOf
  <2>3. TypeOK'
    BY <1>1, <2>1, <2>2 DEF Schedule
  <2>4. PlacesOK' /\ StagesOK'
    BY <1>1 DEF Schedule, WorkersOf
  <2>5. QED
    BY <2>3, <2>4
<1>2. ASSUME NEW n \in Nodes, StopRunning(n)
      PROVE  TypeOK' /\ PlacesOK' /\ StagesOK'
  BY <1>2 DEF StopRunning
<1>3. ASSUME NEW n \in Nodes, NoneRunning(n)
      PROVE  TypeOK' /\ PlacesOK' /\ StagesOK'
  BY <1>3 DEF NoneRunning
<1>4. ASSUME NEW n \in Nodes, EndStage(n)
      PROVE  TypeOK' /\ PlacesOK' /\ StagesOK'
  BY <1>4 DEF EndStage, WorkersOf
<1>5. ASSUME NEW n \in Nodes, End(n)
      PROVE  TypeOK' /\ PlacesOK' /\ StagesOK'
  BY <1>5 DEF End
<1>6. ASSUME NEW w \in Workers, FetchAdd(w)
      PROVE  TypeOK' /\ PlacesOK' /\ StagesOK'
  BY <1>6 DEF FetchAdd
<1>7. ASSUME NEW w \in Workers, ReadBarrier(w)
      PROVE  TypeOK' /\ PlacesOK' /\ StagesOK'
  BY <1>7 DEF ReadBarrier
<1>8. ASSUME NEW w \in Workers, PassRdmaBarrier(w)
      PROVE  TypeOK' /\ PlacesOK' /\ StagesOK'
  BY <1>8 DEF PassRdmaBarrier
<1>9. ASSUME NEW w \in Workers, BeginWork(w)
      PROVE  TypeOK' /\ PlacesOK' /\ StagesOK'
  BY <1>9 DEF BeginWork
<1>10. ASSUME NEW w \in Workers, EndWork(w)
       PROVE  TypeOK' /\ PlacesOK' /\ StagesOK'
  <2>1. running_threads_counter[NodeOf[w]] - 1 \in Nat
    BY <1>10, WorkingCounted DEF EndWork
  <2>2. QED
    BY <1>10, <2>1 DEF EndWork
<1>11. ASSUME NEW t \in Threads, PrevRound(t)
       PROVE  TypeOK' /\ PlacesOK' /\ StagesOK'
  BY <1>11 DEF PrevRound
<1>12. ASSUME NEW t \in Threads, Arrive(t)
       PROVE  TypeOK' /\ PlacesOK' /\ StagesOK'
  <2>1. cntr[Node(t)] - 1 \in Nat
    BY <1>12, ArrivalCounted DEF Arrive
  <2>2. QED
    BY <1>12, <2>1 DEF Arrive
<1>13. ASSUME NEW t \in Threads, Reset(t)
       PROVE  TypeOK' /\ PlacesOK' /\ StagesOK'
  <2>1. ThreadCount(Node(t)) \in Nat
    BY FiniteThreads DEF ThreadCount
  <2>2. QED
    BY <1>13, <2>1 DEF Reset
<1>14. ASSUME NEW t \in Threads, Advance(t)
       PROVE  TypeOK' /\ PlacesOK' /\ StagesOK'
  <2>1. (round[Node(t)] + 1) % 256 \in 0 .. 255
    <3>1. Node(t) \in Nodes /\ round \in [Nodes -> 0 .. 255] => round[Node(t)] \in 0 .. 255
      BY ONLY SMT
    <3>2. round[Node(t)] \in 0 .. 255
      BY <3>1
    <3>3. QED
      BY ONLY <3>2, SMT
  <2>2. round' \in [Nodes -> 0 .. 255]
    BY <1>14, <2>1 DEF Advance
  <2>3. TypeOK'
    BY <1>14, <2>2 DEF Advance, AfterWait
  <2>4. PlacesOK'
    BY <1>14 DEF Advance, AfterWait
  <2>5. StagesOK'
    BY <1>14 DEF Advance, AfterWait
  <2>6. QED
    BY <2>3, <2>4, <2>5
<1>15. ASSUME NEW t \in Threads, Leave(t)
       PROVE  TypeOK' /\ PlacesOK' /\ StagesOK'
  BY <1>15 DEF Leave, AfterWait
<1>16. CASE UNCHANGED vars
  BY <1>16 DEF vars
<1>17. QED
  BY <1>1, <1>2, <1>3, <1>4, <1>5, <1>6, <1>7, <1>8, <1>9, <1>10, <1>11, <1>12,
     <1>13, <1>14, <1>15, <1>16 DEF Next, MainStep, WorkerStep, Wait, Terminated

-----------------------------------------------------------------------------
(* The RDMA barrier.                                                       *)

\* No more workers are ahead than there are; if that many are, all are.
LEMMA AheadBounds ==
    ASSUME NEW s
    PROVE  /\ IsFiniteSet(Ahead(s)) /\ Cardinality(Ahead(s)) \in 0 .. W
           /\ Cardinality(Ahead(s)) = W => Ahead(s) = Workers
           /\ W \in Nat \ {0}
<1>1. Ahead(s) \in SUBSET Workers
  BY DEF Ahead
<1>2. /\ IsFiniteSet(Ahead(s)) /\ Cardinality(Ahead(s)) <= Cardinality(Workers)
      /\ Cardinality(Workers) = Cardinality(Ahead(s)) => Workers = Ahead(s)
  BY <1>1, FS_Subset
<1>3. Cardinality(Ahead(s)) \in Nat /\ Cardinality(Workers) \in Nat
  BY <1>2, FS_CardinalityType
<1>4. Cardinality(Workers) # 0
  BY FS_EmptySet
<1>5. QED
  BY <1>2, <1>3, <1>4 DEF W

\* The counter, seen from a worker that is behind, or one of all that are level.
LEMMA CountsFrom ==
    ASSUME TypeOK, RdmaOK, NEW w \in Workers, \A v \in Workers : entered[v] >= entered[w]
    PROVE  entered[w] \in Nat /\ Counts(entered[w])
<1>1. PICK s \in Nat : Counts(s)
  BY DEF RdmaOK
<1>2. entered[w] \in Nat /\ (entered[w] = s \/ entered[w] = s + 1)
  BY <1>1 DEF Counts, TypeOK
<1>3. CASE entered[w] = s + 1
  <2>1. \A v \in Workers : entered[v] = s + 1
    BY <1>1, <1>3 DEF Counts
  <2>2. Ahead(s) = Workers /\ Ahead(s + 1) = {}
    BY <2>1 DEF Ahead
  <2>3. W * (s + 1) = W * s + W
    BY AheadBounds
  <2>4. Cardinality(Ahead(s + 1)) = 0
    BY <2>2, FS_EmptySet
  <2>5. barrier = W * s + W
    BY <1>1, <2>2 DEF Counts, W
  <2>6. barrier = W * (s + 1) + Cardinality(Ahead(s + 1))
    BY <2>3, <2>4, <2>5, AheadBounds
  <2>7. Counts(s + 1)
    BY <2>1, <2>6 DEF Counts
  <2>8. QED
    BY <1>2, <1>3, <2>7
<1>4. QED
  BY <1>1, <1>2, <1>3

\* A worker that reads what it waits for knows that all have entered.
LEMMA ExpectedReached ==
    ASSUME TypeOK, RdmaOK, NEW w \in Workers, barrier >= W * entered[w]
    PROVE  \A v \in Workers : entered[v] >= entered[w]
<1>1. PICK s \in Nat : Counts(s)
  BY DEF RdmaOK
<1>2. CASE entered[w] = s
  BY <1>1, <1>2 DEF Counts
<1>3. CASE entered[w] = s + 1
  <2>1. W * (s + 1) = W * s + W /\ W * s \in Nat
    BY AheadBounds
  <2>2. barrier = W * s + Cardinality(Ahead(s))
    BY <1>1 DEF Counts
  <2>3. Cardinality(Ahead(s)) = W
    BY <1>3, <2>1, <2>2, AheadBounds
  <2>4. Ahead(s) = Workers
    BY <2>3, AheadBounds
  <2>5. QED
    BY <1>3, <2>4 DEF Ahead
<1>4. QED
  BY <1>1, <1>2, <1>3 DEF Counts

LEMMA InitRdma == Init => RdmaOK
<1> SUFFICES ASSUME Init PROVE RdmaOK
  OBVIOUS
<1>1. Ahead(0) = {}
  BY DEF Init, Ahead
<1>2. Cardinality(Ahead(0)) = 0 /\ W * 0 = 0
  BY <1>1, FS_EmptySet, AheadBounds
<1>3. Counts(0)
  BY <1>2 DEF Init, Counts
<1>4. QED
  BY <1>3 DEF Init, RdmaOK

\* A step that does not enter or leave the RDMA barrier is no matter to it.
LEMMA RdmaQuiet ==
    ASSUME RdmaOK, UNCHANGED rdma,
           \A w \in Workers : pc'[w] # "rdma_read" =>
               \/ pc[w] # "rdma_read"
               \/ \A v \in Workers : entered[v] >= entered[w]
    PROVE  RdmaOK'
<1>1. PICK s \in Nat : Counts(s)
  BY DEF RdmaOK
<1>2. Ahead(s)' = Ahead(s)
  BY DEF Ahead, rdma
<1>3. Counts(s)'
  BY <1>1, <1>2 DEF Counts, rdma
<1>4. QED
  BY <1>3 DEF RdmaOK, rdma

LEMMA RdmaStep ==
    TypeOK /\ PlacesOK /\ StagesOK /\ RdmaOK /\ [Next]_vars => RdmaOK'
<1> SUFFICES ASSUME TypeOK, PlacesOK, StagesOK, RdmaOK, [Next]_vars
             PROVE  RdmaOK'
  OBVIOUS
<1> USE NodeThreads
<1>1. ASSUME NEW w \in Workers, FetchAdd(w)
      PROVE  RdmaOK'
  <2>1. \A v \in Workers : entered[v] >= entered[w]
    BY <1>1 DEF FetchAdd, Goto, RdmaOK
  <2> PICK s \in Nat : s = entered[w] /\ Counts(s)
    BY <2>1, CountsFrom
  <2>2. s = entered[w] /\ Counts(s)
    OBVIOUS
  <2>3. entered' = [entered EXCEPT ![w] = s + 1]
    <3>1. s = stage[NodeOf[w]] - 1
      BY <1>1, <2>2 DEF FetchAdd, Goto, StagesOK
    <3>2. stage[NodeOf[w]] = s + 1
      BY <3>1 DEF TypeOK
    <3>3. QED
      BY <1>1, <3>2 DEF FetchAdd
  <2>4. Ahead(s)' = Ahead(s) \union {w} /\ w \notin Ahead(s)
    BY <2>2, <2>3 DEF Ahead, TypeOK
  <2>5. Cardinality(Ahead(s)') = Cardinality(Ahead(s)) + 1
    BY <2>4, AheadBounds, FS_AddElement
  <2>6. W * s \in Nat /\ Cardinality(Ahead(s)) \in Nat
    BY <2>2, AheadBounds
  <2>7. barrier' = W * s + Cardinality(Ahead(s)')
    BY <1>1, <2>2, <2>5, <2>6 DEF FetchAdd, Counts
  <2>8. \A v \in Workers : entered'[v] \in {s, s + 1}
    BY <2>2, <2>3 DEF Counts, TypeOK
  <2>9. \E r \in Nat : Counts(r)'
    BY <2>2, <2>7, <2>8 DEF Counts, Ahead
  <2>10. \A v \in Workers : barrier_value'[v] <= barrier'
    BY <1>1 DEF FetchAdd, TypeOK, RdmaOK
  <2>11. ASSUME NEW v \in Workers, pc'[v] # "rdma_read", NEW u \in Workers
         PROVE  entered'[u] >= entered'[v]
    <3>1. v # w /\ pc[v] # "rdma_read"
      BY <1>1, <2>11 DEF FetchAdd, Goto, TypeOK, Threads
    <3>2. entered'[v] = entered[v] /\ entered[u] >= entered[v]
      BY <3>1, <2>3 DEF RdmaOK, TypeOK
    <3>3. entered'[u] >= entered[u]
      BY <2>2, <2>3 DEF TypeOK
    <3>4. QED
      BY <3>2, <3>3, <2>2, <2>8 DEF TypeOK
  <2>12. QED
    BY <2>9, <2>10, <2>11 DEF RdmaOK
<1>2. ASSUME NEW w \in Workers, ReadBarrier(w)
      PROVE  RdmaOK'
  <2>1. PICK s \in Nat : Counts(s)
    BY DEF RdmaOK
  <2>2. Ahead(s)' = Ahead(s)
    BY <1>2 DEF Ahead, ReadBarrier
  <2>3. Counts(s)'
    BY <1>2, <2>1, <2>2 DEF Counts, ReadBarrier
  <2>4. QED
    BY <1>2, <2>3 DEF RdmaOK, ReadBarrier, TypeOK
<1>3. ASSUME NEW w \in Workers, PassRdmaBarrier(w)
      PROVE  RdmaOK'
  <2>1. entered[w] = stage[NodeOf[w]]
    BY <1>3 DEF PassRdmaBarrier, Goto, StagesOK
  <2>2. barrier >= W * entered[w]
    BY <1>3, <2>1, AheadBounds DEF PassRdmaBarrier, RdmaOK, TypeOK, Expected, W
  <2>3. \A v \in Workers : entered[v] >= entered[w]
    BY <2>2, ExpectedReached
  <2>4. QED
    BY <1>3, <2>3, RdmaQuiet DEF PassRdmaBarrier, Goto, TypeOK, Threads
<1>4. ASSUME NEW n \in Nodes, Schedule(n)
      PROVE  RdmaOK'
  <2>1. \A w \in Workers : pc[w] = "rdma_read" => pc'[w] = "rdma_read"
    BY <1>4 DEF Schedule, WorkersOf, Outside, StagesOK, Threads
  <2>2. QED
    BY <1>4, <2>1, RdmaQuiet DEF Schedule
<1>5. ASSUME NEW n \in Nodes, StopRunning(n) \/ NoneRunning(n) \/ EndStage(n) \/ End(n)
      PROVE  RdmaOK'
  BY <1>5, RdmaQuiet DEF StopRunning, NoneRunning, EndStage, End, Goto, TypeOK, Threads
<1>6. ASSUME NEW w \in Workers, BeginWork(w) \/ EndWork(w)
      PROVE  RdmaOK'
  BY <1>6, RdmaQuiet DEF BeginWork, EndWork, Goto, TypeOK, Threads
<1>7. ASSUME NEW t \in Threads, Wait(t)
      PROVE  RdmaOK'
  BY <1>7, RdmaQuiet DEF Wait, PrevRound, Arrive, Reset, Advance, Leave, Goto, TypeOK, Threads
<1>8. CASE UNCHANGED vars
  BY <1>8, RdmaQuiet DEF vars, rdma
<1>9. QED
  BY <1>1, <1>2, <1>3, <1>4, <1>5, <1>6, <1>7, <1>8
     DEF Next, MainStep, WorkerStep, Terminated

-----------------------------------------------------------------------------
(* running_threads_counter.                                                *)

LEMMA InitCount == Init => CountOK
<1> SUFFICES ASSUME Init, NEW n \in Nodes PROVE running_threads_counter[n] = Cardinality(Working(n))
  BY DEF CountOK
<1>1. Working(n) = {}
  BY NodeThreads DEF Init, Working, WorkersOf, Threads
<1>2. QED
  BY <1>1, FS_EmptySet DEF Init

\* A step that makes no worker work and lets none end is no matter to the counter.
LEMMA CountQuiet ==
    ASSUME CountOK, UNCHANGED running_threads_counter,
           \A w \in Workers : pc'[w] = "work" <=> pc[w] = "work"
    PROVE  CountOK'
<1>1. \A n \in Nodes : Working(n)' = Working(n)
  BY DEF Working, WorkersOf
<1>2. QED
  BY <1>1 DEF CountOK

LEMMA CountStep ==
    TypeOK /\ PlacesOK /\ StagesOK /\ CountOK /\ [Next]_vars => CountOK'
<1> SUFFICES ASSUME TypeOK, PlacesOK, StagesOK, CountOK, [Next]_vars
             PROVE  CountOK'
  OBVIOUS
<1> USE NodeThreads
<1>1. ASSUME NEW n \in Nodes, Schedule(n)
      PROVE  CountOK'
  <2>1. \A w \in WorkersOf(n) : pc'[w] = "rdma_enter"
    BY <1>1 DEF Schedule, WorkersOf, Threads
  <2>2. Working(n)' = {}
    BY <2>1 DEF Working, WorkersOf
  <2>3. running_threads_counter'[n] = Cardinality(Working(n)')
    BY <1>1, <2>2, FS_EmptySet DEF Schedule, TypeOK
  <2>4. ASSUME NEW m \in Nodes \ {n}
        PROVE  running_threads_counter'[m] = Cardinality(Working(m)')
    <3>1. \A w \in WorkersOf(m) : pc'[w] = pc[w]
      BY <1>1 DEF Schedule, WorkersOf, Threads
    <3>2. Working(m)' = Working(m)
      BY <3>1 DEF Working, WorkersOf
    <3>3. QED
      BY <1>1, <3>2 DEF Schedule, CountOK, TypeOK
  <2>5. QED
    BY <2>3, <2>4 DEF CountOK
<1>2. ASSUME NEW w \in Workers, BeginWork(w)
      PROVE  CountOK'
  <2>1. w \notin Working(NodeOf[w]) /\ Working(NodeOf[w])' = Working(NodeOf[w]) \union {w}
    BY <1>2 DEF BeginWork, Goto, TypeOK, Threads, Working, WorkersOf
  <2>2. IsFiniteSet(Working(NodeOf[w]))
    BY FiniteThreads, FS_Subset DEF Working
  <2>3. Cardinality(Working(NodeOf[w])') = Cardinality(Working(NodeOf[w])) + 1
    BY ONLY <2>1, <2>2, FS_AddElement
  <2>4. \A m \in Nodes \ {NodeOf[w]} : Working(m)' = Working(m)
    BY <1>2 DEF BeginWork, Goto, TypeOK, Threads, Working, WorkersOf
  <2>5. QED
    BY <1>2, <2>3, <2>4 DEF BeginWork, CountOK, TypeOK
<1>3. ASSUME NEW w \in Workers, EndWork(w)
      PROVE  CountOK'
  <2>1. w \in Working(NodeOf[w]) /\ Working(NodeOf[w])' = Working(NodeOf[w]) \ {w}
    BY <1>3 DEF EndWork, Goto, TypeOK, Threads, Working, WorkersOf
  <2>2. IsFiniteSet(Working(NodeOf[w]))
    BY FiniteThreads, FS_Subset DEF Working
  <2>3. Cardinality(Working(NodeOf[w])') = Cardinality(Working(NodeOf[w])) - 1
    <3>1. Cardinality(Working(NodeOf[w]) \ {w}) = Cardinality(Working(NodeOf[w])) - 1
      BY ONLY <2>1, <2>2, FS_RemoveElement
    <3>2. QED
      BY ONLY <2>1, <3>1
  <2>4. \A m \in Nodes \ {NodeOf[w]} : Working(m)' = Working(m)
    BY <1>3 DEF EndWork, Goto, TypeOK, Threads, Working, WorkersOf
  <2>5. QED
    BY <1>3, <2>3, <2>4 DEF EndWork, CountOK, TypeOK
<1>4. ASSUME NEW n \in Nodes, StopRunning(n) \/ NoneRunning(n) \/ EndStage(n) \/ End(n)
      PROVE  CountOK'
  BY <1>4, CountQuiet DEF StopRunning, NoneRunning, EndStage, End, Goto, TypeOK, Threads, flag
<1>5. ASSUME NEW w \in Workers, FetchAdd(w) \/ ReadBarrier(w) \/ PassRdmaBarrier(w)
      PROVE  CountOK'
  BY <1>5, CountQuiet DEF FetchAdd, ReadBarrier, PassRdmaBarrier, Goto, TypeOK, Threads, flag
<1>6. ASSUME NEW t \in Threads, Wait(t)
      PROVE  CountOK'
  BY <1>6, CountQuiet DEF Wait, PrevRound, Arrive, Reset, Advance, Leave, AfterWait, Goto,
                          TypeOK, Threads, flag
<1>7. CASE UNCHANGED vars
  BY <1>7, CountQuiet DEF vars
<1>8. QED
  BY <1>1, <1>2, <1>3, <1>4, <1>5, <1>6, <1>7
     DEF Next, MainStep, WorkerStep, Terminated

-----------------------------------------------------------------------------
(* The thread barrier.                                                     *)

\* What other nodes do is no matter to a node's barrier.
LEMMA BarrierLocal ==
    ASSUME NEW n \in Nodes, BarrierOf(n), cntr'[n] = cntr[n], round'[n] = round[n],
           \A t \in ThreadsOf(n) : pc'[t] = pc[t] /\ prevRound'[t] = prevRound[t]
    PROVE  BarrierOf(n)'
<1>1. ToCome(n)' = ToCome(n)
  BY DEF ToCome, ThreadsOf
<1>2. ThreadsOf(n)' = ThreadsOf(n)
  BY DEF ThreadsOf
<1>3. QED
  BY <1>1, <1>2 DEF BarrierOf

\* Behind the barrier there is nothing left of it.
LEMMA BarrierOver ==
    ASSUME NEW n \in Nodes, BarrierOf(n), NEW t \in ThreadsOf(n),
           pc[t] \notin Arrivals \union {"spin", "reset", "advance"}
    PROVE  \A u \in ThreadsOf(n) : pc[u] \notin Arrivals \union {"reset", "advance"}
BY DEF BarrierOf, Arrivals, RdmaPcs

\* It is enough to look at the node a step is taken on.
LEMMA BarrierFrame ==
    ASSUME BarrierOK, NEW n \in Nodes, with_barrier' = with_barrier,
           \A m \in Nodes \ {n} : cntr'[m] = cntr[m] /\ round'[m] = round[m],
           \A t \in Threads : Node(t) # n => pc'[t] = pc[t] /\ prevRound'[t] = prevRound[t],
           with_barrier /\ ~Outside(n)' => BarrierOf(n)'
    PROVE  BarrierOK'
<1> SUFFICES ASSUME with_barrier, NEW m \in Nodes \ {n}, ~Outside(m)' PROVE BarrierOf(m)'
  BY DEF BarrierOK
<1>1. \A t \in ThreadsOf(m) : pc'[t] = pc[t] /\ prevRound'[t] = prevRound[t]
  BY DEF ThreadsOf
<1>2. pc'[m] = pc[m]
  BY NodeThreads DEF Threads
<1>3. BarrierOf(m)
  BY <1>2 DEF BarrierOK, Outside
<1>4. QED
  BY <1>1, <1>3, BarrierLocal

\* A thread goes on before its arrival.
LEMMA ComingStep ==
    ASSUME NEW n \in Nodes, BarrierOf(n), NEW t \in ThreadsOf(n), pc[t] \in Arrivals,
           pc'[t] \in Arrivals, cntr'[n] = cntr[n], round'[n] = round[n],
           pc'[t] = "arrive" => prevRound'[t] = 0,
           \A u \in ThreadsOf(n) \ {t} : pc'[u] = pc[u] /\ prevRound'[u] = prevRound[u]
    PROVE  BarrierOf(n)'
<1>1. ToCome(n)' = ToCome(n) /\ ThreadsOf(n)' = ThreadsOf(n)
  BY DEF ToCome, ThreadsOf
<1>2. ASSUME NEW u \in ThreadsOf(n)
      PROVE  /\ round'[n] = 0 /\ pc'[u] \in Arrivals \union {"spin"}
             /\ pc'[u] \in {"arrive", "spin"} => prevRound'[u] = 0
  BY DEF BarrierOf, Arrivals, RdmaPcs
<1>3. \A u \in ThreadsOf(n) : pc'[u] \notin {"reset", "advance"}
  BY <1>2 DEF Arrivals, RdmaPcs
<1>4. QED
  BY <1>1, <1>2, <1>3 DEF BarrierOf

\* A thread goes on behind the barrier, or leaves it.
LEMMA BehindStep ==
    ASSUME NEW n \in Nodes, BarrierOf(n), NEW t \in ThreadsOf(n),
           \A u \in ThreadsOf(n) : pc[u] \notin Arrivals \union {"reset", "advance"},
           pc'[t] \notin BarrierPcs \union Arrivals,
           \A u \in ThreadsOf(n) \ {t} : pc'[u] = pc[u] /\ prevRound'[u] = prevRound[u]
    PROVE  BarrierOf(n)'
<1>1. ToCome(n)' = {} /\ ThreadsOf(n)' = ThreadsOf(n)
  BY DEF ToCome, ThreadsOf, BarrierPcs
<1>2. QED
  BY <1>1 DEF BarrierOf, Arrivals, RdmaPcs, BarrierPcs

LEMMA InitBarrier == Init => BarrierOK
BY NodeThreads DEF Init, BarrierOK, Outside, Threads

LEMMA BarrierStep ==
    TypeOK /\ PlacesOK /\ StagesOK /\ BarrierOK /\ [Next]_vars => BarrierOK'
<1> SUFFICES ASSUME TypeOK, PlacesOK, StagesOK, BarrierOK, [Next]_vars
             PROVE  BarrierOK'
  OBVIOUS
<1> USE NodeThreads DEF Goto, flag, rdma, b
<1>1. ASSUME NEW n \in Nodes, Schedule(n)
      PROVE  BarrierOK'
  <2>1. cntr'[n] = Cardinality(ThreadsOf(n)) /\ round'[n] = 0
    BY <1>1, FiniteThreads DEF Schedule, TypeOK
  <2>2. with_barrier => \A t \in ThreadsOf(n) : pc'[t] \in {"rdma_enter", "wait"}
    BY <1>1 DEF Schedule, WorkersOf, Threads
  <2>3. with_barrier => ToCome(n)' = ThreadsOf(n)
    BY <2>2 DEF ToCome, ThreadsOf, Arrivals, RdmaPcs
  <2>4. with_barrier => BarrierOf(n)'
    BY <2>1, <2>2, <2>3 DEF BarrierOf, Arrivals, RdmaPcs, ThreadsOf
  <2>5. /\ \A m \in Nodes \ {n} : cntr'[m] = cntr[m] /\ round'[m] = round[m]
        /\ with_barrier' = with_barrier
    BY <1>1 DEF Schedule, TypeOK
  <2>6. \A t \in Threads : Node(t) # n => pc'[t] = pc[t] /\ prevRound'[t] = prevRound[t]
    BY <1>1 DEF Schedule, WorkersOf
  <2>7. QED
    BY <2>4, <2>5, <2>6, BarrierFrame
<1>2. ASSUME NEW n \in Nodes, EndStage(n) \/ End(n)
      PROVE  BarrierOK'
  <2>1. Outside(n)' /\ \A t \in Threads : t # n => pc'[t] = pc[t]
    BY <1>2 DEF EndStage, End, TypeOK, Threads, Outside
  <2>2. UNCHANGED <<with_barrier, cntr, round, prevRound>>
    BY <1>2 DEF EndStage, End
  <2>3. \A t \in Threads : Node(t) # n => pc'[t] = pc[t]
    BY <2>1
  <2>4. QED
    BY <2>1, <2>2, <2>3, BarrierFrame
<1>3. ASSUME NEW t \in Threads,
             \/ t \in Nodes /\ (StopRunning(t) \/ NoneRunning(t))
             \/ t \in Workers /\ (BeginWork(t) \/ EndWork(t))
      PROVE  BarrierOK'
  <2>1. /\ pc[t] \notin Arrivals \union {"spin", "reset", "advance"} /\ ~Outside(Node(t))
        /\ pc'[t] \notin BarrierPcs \union Arrivals
    BY <1>3 DEF StopRunning, NoneRunning, BeginWork, EndWork, Arrivals, RdmaPcs, BarrierPcs,
                Outside, StagesOK, TypeOK
  <2>2. /\ UNCHANGED <<with_barrier, cntr, round, prevRound>>
        /\ \A u \in Threads \ {t} : pc'[u] = pc[u]
    BY <1>3 DEF StopRunning, NoneRunning, BeginWork, EndWork, TypeOK
  <2>3. t \in ThreadsOf(Node(t))
    BY DEF ThreadsOf
  <2>4. with_barrier => BarrierOf(Node(t))
    BY <2>1 DEF BarrierOK
  <2>5. with_barrier => BarrierOf(Node(t))'
    BY <2>1, <2>2, <2>3, <2>4, BarrierOver, BehindStep DEF ThreadsOf
  <2>6. QED
    BY <2>2, <2>5, BarrierFrame
<1>4. ASSUME NEW t \in Threads,
             \/ t \in Workers /\ (FetchAdd(t) \/ ReadBarrier(t) \/ PassRdmaBarrier(t))
             \/ PrevRound(t)
      PROVE  BarrierOK'
  <2>1. pc[t] \in Arrivals /\ ~Outside(Node(t))
    BY <1>4 DEF FetchAdd, ReadBarrier, PassRdmaBarrier, PrevRound, Arrivals, RdmaPcs,
                Outside, StagesOK, Threads
  <2>2. with_barrier => BarrierOf(Node(t))
    BY <2>1 DEF BarrierOK
  <2>3. t \in ThreadsOf(Node(t))
    BY DEF ThreadsOf
  <2>4. /\ with_barrier' = with_barrier /\ cntr' = cntr /\ round' = round
        /\ \A u \in Threads \ {t} : pc'[u] = pc[u] /\ prevRound'[u] = prevRound[u]
        /\ with_barrier => pc'[t] \in Arrivals
    BY <1>4 DEF FetchAdd, ReadBarrier, PassRdmaBarrier, PrevRound, TypeOK, Arrivals, RdmaPcs,
                Threads
  <2>5. with_barrier => round[Node(t)] = 0
    BY <2>1, <2>2, <2>3 DEF BarrierOf
  <2>6. with_barrier /\ pc'[t] = "arrive" => prevRound'[t] = 0
    <3>1. CASE PrevRound(t)
      BY <2>5, <3>1 DEF PrevRound, TypeOK
    <3>2. CASE t \in Workers /\ (FetchAdd(t) \/ ReadBarrier(t) \/ PassRdmaBarrier(t))
      <4>1. pc'[t] # "arrive"
        BY <3>2 DEF FetchAdd, ReadBarrier, PassRdmaBarrier, TypeOK
      <4>2. QED
        BY <4>1
    <3>3. QED
      BY <1>4, <3>1, <3>2
  <2>7. with_barrier => BarrierOf(Node(t))'
    BY <2>1, <2>2, <2>3, <2>4, <2>6, ComingStep DEF ThreadsOf
  <2>8. QED
    BY <2>4, <2>7, BarrierFrame
<1>5. ASSUME NEW t \in Threads, Arrive(t)
      PROVE  BarrierOK'
  <2> DEFINE n == Node(t)
  <2>1. /\ pc[t] = "arrive" /\ UNCHANGED <<with_barrier, round, prevRound>>
        /\ pc' = [pc EXCEPT ![t] = IF cntr[n] = 1 THEN "reset" ELSE "spin"]
        /\ cntr' = [cntr EXCEPT ![n] = cntr[n] - 1]
    BY <1>5 DEF Arrive
  <2>2. /\ BarrierOf(n) /\ t \in ToCome(n) /\ IsFiniteSet(ToCome(n))
        /\ cntr[n] = Cardinality(ToCome(n))
    BY <2>1, ArrivalCounted
  <2>3. ToCome(n)' = ToCome(n) \ {t}
    BY <2>1, <2>2 DEF ToCome, ThreadsOf, TypeOK, Arrivals, RdmaPcs
  <2>4. Cardinality(ToCome(n)') = cntr'[n] /\ IsFiniteSet(ToCome(n)')
    BY <2>1, <2>2, <2>3, FS_RemoveElement DEF TypeOK
  <2>5. t \in ThreadsOf(n) /\ ThreadsOf(n)' = ThreadsOf(n)
    BY DEF ThreadsOf
  <2>6. \A u \in ThreadsOf(n) \ {t} : pc'[u] = pc[u]
    BY <2>1 DEF ThreadsOf, TypeOK
  <2>7. \A u \in ThreadsOf(n) : pc[u] \in Arrivals \union {"spin"}
    BY <2>1, <2>2, <2>5 DEF BarrierOf, Arrivals
  <2>8. round'[n] = 0 /\ prevRound'[t] = 0
    BY <2>1, <2>2, <2>5 DEF BarrierOf, Arrivals
  <2>9. CASE cntr[n] = 1
    <3>1. pc'[t] = "reset" /\ ToCome(n)' = {}
      BY <2>1, <2>4, <2>9, FS_EmptySet DEF TypeOK
    <3>2. \A u \in ThreadsOf(n) \ {t} : pc'[u] = "spin" /\ prevRound'[u] = 0
      BY <2>1, <2>2, <2>6, <2>7, <3>1 DEF ToCome, BarrierOf, ThreadsOf
    <3>3. BarrierOf(n)'
      BY <2>5, <2>8, <3>1, <3>2 DEF BarrierOf, Arrivals, RdmaPcs
    <3>4. QED
      BY <2>1, <3>3, BarrierFrame DEF TypeOK
  <2>10. CASE cntr[n] # 1
    <3>1. pc'[t] = "spin"
      BY <2>1, <2>10 DEF TypeOK
    <3>2. ASSUME NEW u \in ThreadsOf(n)
          PROVE  /\ pc'[u] \in Arrivals \union {"spin"} /\ pc'[u] \notin {"reset", "advance"}
                 /\ pc'[u] \in {"arrive", "spin"} => prevRound'[u] = 0
      BY <2>1, <2>2, <2>6, <2>7, <2>8, <3>1 DEF BarrierOf, Arrivals, RdmaPcs
    <3>3. BarrierOf(n)'
      BY <2>4, <2>5, <2>8, <3>2 DEF BarrierOf
    <3>4. QED
      BY <2>1, <3>3, BarrierFrame DEF TypeOK
  <2>11. QED
    BY <2>9, <2>10
<1>6. ASSUME NEW t \in Threads, Reset(t) \/ Advance(t)
      PROVE  BarrierOK'
  <2> DEFINE n == Node(t)
  <2>1. pc[t] \in {"reset", "advance"} /\ ~Outside(n)
    BY <1>6 DEF Reset, Advance, Outside, StagesOK, Threads
  <2>2. /\ with_barrier' = with_barrier /\ prevRound' = prevRound
        /\ \A m \in Nodes \ {n} : cntr'[m] = cntr[m] /\ round'[m] = round[m]
        /\ \A u \in Threads \ {t} : pc'[u] = pc[u]
    BY <1>6 DEF Reset, Advance, TypeOK
  <2>3. t \in ThreadsOf(n) /\ ThreadsOf(n)' = ThreadsOf(n)
    BY DEF ThreadsOf
  <2>4. with_barrier => BarrierOf(n)
    BY <2>1 DEF BarrierOK
  <2>5. with_barrier => round[n] = 0 /\ \A u \in ThreadsOf(n) \ {t} : pc'[u] = "spin" /\ prevRound'[u] = 0
    BY <2>1, <2>2, <2>3, <2>4 DEF BarrierOf, ThreadsOf
  <2>6. \/ pc'[t] = "advance" /\ round' = round
        \/ pc'[t] \in {"begin", "sleep"}
    BY <1>6 DEF Reset, Advance, AfterWait, TypeOK
  <2>7. with_barrier => ToCome(n)' = {}
    BY <2>3, <2>5, <2>6 DEF ToCome, Arrivals, RdmaPcs
  <2>8. with_barrier => BarrierOf(n)'
    BY <2>3, <2>5, <2>6, <2>7 DEF BarrierOf, Arrivals, RdmaPcs
  <2>9. QED
    BY <2>2, <2>8, BarrierFrame
<1>7. ASSUME NEW t \in Threads, Leave(t)
      PROVE  BarrierOK'
  <2> DEFINE n == Node(t)
  <2>1. pc[t] = "spin" /\ ~Outside(n) /\ round[n] # prevRound[t]
    BY <1>7 DEF Leave, Outside, StagesOK, Threads
  <2>2. /\ UNCHANGED <<with_barrier, cntr, round, prevRound>>
        /\ \A u \in Threads \ {t} : pc'[u] = pc[u]
        /\ pc'[t] \in {"begin", "sleep"}
    BY <1>7 DEF Leave, AfterWait, TypeOK
  <2>3. t \in ThreadsOf(n)
    BY DEF ThreadsOf
  <2>4. with_barrier => BarrierOf(n)
    BY <2>1 DEF BarrierOK
  <2>5. with_barrier => round[n] # 0
    BY <2>1, <2>3, <2>4 DEF BarrierOf
  <2>6. with_barrier => \A u \in ThreadsOf(n) : pc[u] \notin Arrivals \union {"reset", "advance"}
    BY <2>4, <2>5 DEF BarrierOf
  <2>7. pc'[t] \notin BarrierPcs \union Arrivals
    BY <2>2 DEF BarrierPcs, Arrivals, RdmaPcs
  <2>8. with_barrier => BarrierOf(n)'
    BY <2>2, <2>3, <2>4, <2>6, <2>7, BehindStep DEF ThreadsOf
  <2>9. QED
    BY <2>2, <2>8, BarrierFrame
<1>8. CASE UNCHANGED vars
  <2>1. \A n \in Nodes : BarrierOf(n) => BarrierOf(n)'
    BY <1>8, BarrierLocal DEF vars
  <2>2. QED
    BY <1>8, <2>1 DEF BarrierOK, Outside, vars
<1>9. QED
  BY <1>1, <1>2, <1>3, <1>4, <1>5, <1>6, <1>7, <1>8
     DEF Next, MainStep, WorkerStep, Wait, Terminated, Threads

-----------------------------------------------------------------------------
(* What follows.                                                           *)

THEOREM Invariance == Spec => []IInv
<1>1. Init => IInv
  BY InitPlaces, InitRdma, InitCount, InitBarrier DEF IInv
<1>2. IInv /\ [Next]_vars => IInv'
  BY PlacesStep, RdmaStep, CountStep, BarrierStep DEF IInv
<1>3. QED
  BY <1>1, <1>2, PTL DEF Spec

\* The state of the stages keeps its types; neither counter goes below 0.
THEOREM StageTypeCorrect == Spec => []TypeOK
BY Invariance, PTL DEF IInv

\* No worker is past the RDMA barrier before all workers of all nodes have
\* entered it for its stage.
THEOREM NobodyStartsEarly == Spec => []StartTogether
<1>1. IInv => StartTogether
  <2> SUFFICES ASSUME IInv, NEW w \in Workers, PastRdmaBarrier(w)
               PROVE  \A v \in Workers : entered[v] >= entered[w]
    BY DEF StartTogether
  <2>1. pc[w] # "rdma_read"
    BY DEF PastRdmaBarrier, BarrierPcs
  <2>2. QED
    BY <2>1 DEF IInv, RdmaOK
<1>2. QED
  BY <1>1, Invariance, PTL

\* main begins to measure when all its workers are past both barriers, and
\* none of them is so late that it finds the stage over.
THEOREM MeasuresTheStage == Spec => []MeasuredFromStart
<1>1. IInv => MeasuredFromStart
  <2> SUFFICES ASSUME IInv, with_barrier, NEW n \in Nodes, pc[n] = "sleep",
                      NEW w \in WorkersOf(n)
               PROVE  pc[w] \in {"begin", "work", "advance", "spin"}
    BY DEF MeasuredFromStart
  <2>1. ~Outside(n) /\ ~Ending(n)
    BY DEF Outside, Ending
  <2>2. BarrierOf(n) /\ n \in ThreadsOf(n) /\ w \in ThreadsOf(n)
    BY <2>1, NodeThreads DEF IInv, BarrierOK
  <2>3. pc[w] \notin Arrivals \union {"reset", "advance"}
    BY <2>2, BarrierOver DEF Arrivals, RdmaPcs
  <2>4. pc[w] \in WorkerPcs /\ pc[w] # "idle"
    BY <2>1 DEF IInv, PlacesOK, StagesOK, WorkersOf
  <2>5. QED
    BY <2>3, <2>4 DEF WorkerPcs, RdmaPcs, BarrierPcs, Arrivals
<1>2. QED
  BY <1>1, Invariance, PTL

\* A stage's locals are there until its last job is over, and a job that has
\* entered the barrier is a job of that stage.
THEOREM JobsWithinStage == Spec => []LocalsOutliveJobs
<1>1. IInv => LocalsOutliveJobs
  BY DEF IInv, StagesOK, Outside, LocalsOutliveJobs
<1>2. QED
  BY <1>1, Invariance, PTL
=============================================================================
