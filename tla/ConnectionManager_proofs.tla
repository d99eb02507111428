----------------------- MODULE ConnectionManager_proofs -----------------------
(***************************************************************************)
(* ConnectionManager, for any workers on any compute nodes, any number of  *)
(* storage nodes, any backlog and any number of stages: type correctness,  *)
(* what main finds when it has seen the number of connections it waits     *)
(* for, that no exchange takes the completions of another, and when the    *)
(* handler ends.                                                           *)
(***************************************************************************)
EXTENDS ConnectionManager, FiniteSetTheorems, TLAPS

\* The storage nodes that connection number r of a worker goes to.
LastOf(r) == IF r = 1 THEN variant.storage_nodes ELSE 1

\* How far a worker is with its connection c to s:
\*   0 not begun, 1 requested, 2 established,
\*   3 in the exchange of RdmaInfo, 4 done with it,
\*   5 in the exchange of InitMessages, 6 done with it.
At(at, ph) ==
    IF at = "connecting" THEN 1
    ELSE IF at = "send" THEN (IF ph = 1 THEN 2 ELSE 4)
    ELSE IF at = "poll" THEN (IF ph = 1 THEN 3 ELSE 5)
    ELSE IF at \in {"ready", "left"} THEN 6 ELSE 0

Stand(s, c) ==
    LET w == c[1]
    IN  IF c[2] > round[w] \/ s > LastOf(c[2]) THEN 0
        ELSE IF c[2] < round[w] THEN 6
        ELSE IF s < server[w] THEN (IF phase[w] = 1 THEN 4 ELSE 6)
        ELSE IF s > server[w] THEN (IF phase[w] = 1 THEN 0 ELSE 4)
        ELSE At(pc[w], phase[w])

\* How far the storage node is with it: the handler exchanges RdmaInfo, main
\* the InitMessages.
Answered(s)  == {rdmaCtxs[s][i] : i \in 1 .. served[s]}
Answer(s, c) ==
    IF c \in Answered(s) THEN 6
    ELSE IF mpc[s] = "poll" /\ c = rdmaCtxs[s][served[s] + 1] THEN 5
    ELSE IF c \in typed[s] THEN 4
    ELSE IF hpc[s] = "poll" /\ c = current[s] THEN 3 ELSE 0

\* What an end that is that far has sent and polled for.
EndOK(k, n, p) ==
    /\ n = (IF k >= 5 THEN 2 ELSE IF k >= 3 THEN 1 ELSE 0)
    /\ p \in 0 .. 4
    /\ p <= (IF k >= 5 THEN 4 ELSE IF k >= 3 THEN 2 ELSE 0)
    /\ p >= (IF k = 6 THEN 4 ELSE IF k >= 4 THEN 2 ELSE 0)

Far(e) == IF e[1] = "client" THEN Stand(e[2], e[3]) ELSE Answer(e[2], e[3])

\* ... and each has polled for no more than there was.
EndsOK == \A e \in Ends : /\ EndOK(Far(e), sent[e], polled[e])
                          /\ polled[e] <= sent[e] + sent[Peer(e)]

\* Where a worker may be.
WorkerOK(w) ==
    /\ pc[w] \in {"lock", "connect", "sleep", "connecting"} => phase[w] = 1
    /\ server[w] <= LastServer(w) /\ round[w] <= LastRound
    /\ pc[w] \in {"ready", "left"} => phase[w] = 2 /\ server[w] = LastServer(w)
    /\ pc[w] = "left" => round[w] = LastRound

\* Which events there may be, and how far the two ends have got together.
EventOK(s, c) ==
    /\ <<"request", c>> \in events[s] => Stand(s, c) = 1 /\ c \notin accepted[s]
    /\ <<"established", c>> \in events[s] =>
          c \in accepted[s] /\ Stand(s, c) >= 2 /\ Answer(s, c) = 0
    /\ <<"disconnected", c>> \in events[s] => pc[c[1]] = "left" /\ c \in typed[s]
    /\ c \in accepted[s] => Stand(s, c) >= 1
    /\ Answer(s, c) # 0 => Stand(s, c) >= 2

\* The connections whose disconnection the handler has not retrieved yet,
Live(s) == {c \in accepted[s] : pc[c[1]] = "left" => <<"disconnected", c>> \in events[s]}
\* ... and those it has exchanged RdmaInfo over and still counts.
Counted(s) == {c \in typed[s] : c \in Live(s) \/ (hpc[s] = "disconnect" /\ c = current[s])}

HandlerOK(s) ==
    /\ hpc[s] = "off" <=> mpc[s] = "off"
    /\ hpc[s] = "off" => accepted[s] = {}
    /\ hpc[s] = "push" => current[s] \in accepted[s]
    /\ hpc[s] = "poll" => current[s] \in accepted[s] \ typed[s]
    /\ hpc[s] = "disconnect" => current[s] \in typed[s] \ Live(s)
    /\ hpc[s] = "get" /\ accepted[s] # {} => Live(s) # {}
    /\ hpc[s] = "ended" => AllLeft
    /\ IsInjective(incomingIds[s])
    /\ ToSet(incomingIds[s]) = IF hpc[s] = "push" THEN accepted[s] \ {current[s]} ELSE accepted[s]
    /\ typed[s] \subseteq ToSet(incomingIds[s])

NumbersOK(s) ==
    /\ numberConnections[s] = Cardinality(Live(s))
    /\ numberConnectionsEstablished[s] = Cardinality(Counted(s))

\* The waves whose connections main has a copy of.
Copied(s) == IF mpc[s] \in {"off", "wait", "snapshot"} THEN wave[s] - 1 ELSE wave[s]

MainOK(s) ==
    /\ Len(rdmaCtxs[s]) <= Len(incomingIds[s])
    /\ \A i \in 1 .. Len(rdmaCtxs[s]) : rdmaCtxs[s][i] = incomingIds[s][i]
    /\ served[s] <= Len(rdmaCtxs[s])
    /\ mpc[s] = "poll" => served[s] < Len(rdmaCtxs[s])
    /\ mpc[s] \notin {"serve", "poll"} => served[s] = Len(rdmaCtxs[s])
    /\ ToSet(rdmaCtxs[s]) = Workers \X (1 .. Copied(s))
    /\ ToSet(rdmaCtxs[s]) \subseteq typed[s]
    /\ mpc[s] = "off" <=> wave[s] = 0
    /\ wave[s] <= LastWave
    /\ mpc[s] \in {"run", "destroy", "join", "done"} => wave[s] = LastWave
    /\ mpc[s] = "snapshot" => typed[s] = Workers \X (1 .. wave[s])
    /\ mpc[s] \in {"destroy", "join", "done"} => hpc[s] = "ended"

WorkersOK  == \A w \in Workers : WorkerOK(w)
EventsOK   == \A s \in Servers : \A c \in Conns : EventOK(s, c)
HandlersOK == \A s \in Servers : HandlerOK(s) /\ NumbersOK(s)
MainsOK    == \A s \in Servers : MainOK(s)

IInv == TypeOK /\ WorkersOK /\ EndsOK /\ EventsOK /\ HandlersOK /\ MainsOK

-----------------------------------------------------------------------------
(* The parameters.                                                         *)

\* Storage nodes and connections.
LEMMA ConnFacts ==
    /\ MaxServers \in Nat /\ MaxStage \in Nat /\ MaxServers >= 1 /\ MaxStage >= 1
    /\ Servers \subseteq Nat /\ 1 \in Servers
    /\ \A c \in Conns : c[1] \in Workers /\ c[2] \in 1 .. MaxStage + 1 /\ c = <<c[1], c[2]>>
    /\ \A w \in Workers : \A r \in 1 .. MaxStage + 1 : <<w, r>> \in Conns
    /\ IsFiniteSet(Conns) /\ Cardinality(Conns) \in Nat /\ Conns # {}
<1>1. MaxServers \in Nat /\ MaxStage \in Nat /\ MaxServers >= 1 /\ MaxStage >= 1
  BY VariantsAssumption
<1>2. IsFiniteSet(Conns)
  <2>1. IsFiniteSet(1 .. MaxStage + 1)
    BY <1>1, FS_Interval
  <2>2. QED
    BY <2>1, WorkersAssumption, FS_Product DEF Conns
<1>3. Cardinality(Conns) \in Nat
  BY <1>2, FS_CardinalityType
<1>4. \A w \in Workers : \A r \in 1 .. MaxStage + 1 : <<w, r>> \in Conns
  BY DEF Conns
<1>5. Conns # {}
  <2>1. PICK w \in Workers : TRUE
    BY WorkersAssumption
  <2>2. 1 \in 1 .. MaxStage + 1
    BY <1>1
  <2>3. QED
    BY <1>4, <2>1, <2>2
<1>6. \A c \in Conns : c[1] \in Workers /\ c[2] \in 1 .. MaxStage + 1 /\ c = <<c[1], c[2]>>
  BY DEF Conns
<1>7. QED
  BY <1>1, <1>2, <1>3, <1>4, <1>5, <1>6 DEF Servers

\* The variants: a worker goes to the storage nodes in its first round, and to
\* the one storage node there is in the others.
LEMMA VariantFacts ==
    ASSUME variant \in Variants
    PROVE  /\ \A r \in Nat : LastOf(r) \in Servers
           /\ \A w \in Workers : LastServer(w) = LastOf(round[w]) /\ NodeOf[w] \in Nodes
           /\ LastRound \in 1 .. MaxStage + 1 /\ LastWave \in {1, 2} /\ LastWave <= LastRound
           /\ LastRound > 1 => \A r \in Nat : LastOf(r) = 1
<1>1. /\ variant.storage_nodes \in 1 .. MaxServers /\ variant.rcopt \in BOOLEAN
      /\ variant.node_of \in [Workers -> Nodes]
      /\ variant.rcopt => variant.storage_nodes = 1
  BY VariantsAssumption
<1>2. QED
  BY <1>1, ConnFacts DEF LastOf, LastServer, Servers, NodeOf, LastRound, LastWave

\* The two ends of each connection.
LEMMA EndFacts ==
    /\ \A s \in Servers : \A c \in Conns :
        /\ <<"client", s, c>> \in Ends /\ <<"server", s, c>> \in Ends
        /\ Peer(<<"client", s, c>>) = <<"server", s, c>>
        /\ Peer(<<"server", s, c>>) = <<"client", s, c>>
        /\ Far(<<"client", s, c>>) = Stand(s, c)
        /\ Far(<<"server", s, c>>) = Answer(s, c)
    /\ \A e \in Ends : /\ Peer(e) \in Ends /\ Peer(e) # e /\ Peer(Peer(e)) = e
                       /\ \E s \in Servers : \E c \in Conns :
                             e = <<"client", s, c>> \/ e = <<"server", s, c>>
BY DEF Ends, Peer, Far

\* What the numbers of Stand and Answer are.
LEMMA StandRange ==
    \A s \in Servers : \A c \in Conns : Stand(s, c) \in 0 .. 6 /\ Answer(s, c) \in {0, 3, 4, 5, 6}
BY DEF Stand, At, Answer

LEMMA StandRangeThen ==
    (\A s \in Servers : \A c \in Conns : Stand(s, c) \in 0 .. 6 /\ Answer(s, c) \in {0, 3, 4, 5, 6})'
BY StandRange, PTL

-----------------------------------------------------------------------------
(* What the invariant says together.                                       *)

\* The counters of an end are in their ranges.
LEMMA EndsTyped == EndsOK => \A e \in Ends : sent[e] \in 0 .. 2 /\ polled[e] \in 0 .. 4
<1> SUFFICES ASSUME EndsOK, NEW e \in Ends PROVE sent[e] \in 0 .. 2 /\ polled[e] \in 0 .. 4
  OBVIOUS
<1>1. PICK s \in Servers, c \in Conns : e = <<"client", s, c>> \/ e = <<"server", s, c>>
  BY EndFacts
<1>2. Far(e) \in 0 .. 6
  <2>1. CASE e = <<"client", s, c>>
    BY <2>1, EndFacts, StandRange
  <2>2. CASE e = <<"server", s, c>>
    <3>1. Far(e) = Answer(s, c) /\ Answer(s, c) \in {0, 3, 4, 5, 6}
      BY <2>2, EndFacts, StandRange
    <3>2. QED
      BY <3>1
  <2>3. QED
    BY <1>1, <2>1, <2>2
<1>3. QED
  BY <1>2 DEF EndsOK, EndOK

\* ... in the next state, too.
LEMMA EndsTypedThen == EndsOK' => (\A e \in Ends : sent[e] \in 0 .. 2 /\ polled[e] \in 0 .. 4)'
BY EndsTyped, PTL

\* The numbers Stand compares.
LEMMA Positions ==
    ASSUME TypeOK, NEW s \in Servers, NEW c \in Conns
    PROVE  /\ c[1] \in Workers /\ c[2] \in 1 .. MaxStage + 1 /\ c = <<c[1], c[2]>>
           /\ MaxStage \in Nat /\ c[2] \in Nat /\ c[2] >= 1 /\ s \in Nat /\ s >= 1
           /\ round[c[1]] \in Nat /\ server[c[1]] \in Nat /\ phase[c[1]] \in {1, 2}
           /\ LastOf(c[2]) \in Nat /\ LastOf(c[2]) >= 1
           /\ LastRound \in Nat /\ LastRound >= 1
<1>1. c[1] \in Workers /\ c[2] \in 1 .. MaxStage + 1 /\ c = <<c[1], c[2]>>
      /\ MaxStage \in Nat /\ c[2] \in Nat /\ c[2] >= 1
  BY ConnFacts
<1>2. round[c[1]] \in Nat /\ server[c[1]] \in Nat /\ phase[c[1]] \in {1, 2}
  <2>1. round[c[1]] \in 1 .. MaxStage + 1 /\ server[c[1]] \in Servers /\ phase[c[1]] \in 1 .. 2
    BY <1>1 DEF TypeOK
  <2>2. Servers \subseteq Nat
    BY ConnFacts
  <2>3. QED
    BY <1>1, <2>1, <2>2
<1>3. LastOf(c[2]) \in Servers /\ LastRound \in Nat /\ LastRound >= 1
  BY <1>1, VariantFacts DEF TypeOK
<1>4. \A t \in Servers : t \in Nat /\ t >= 1
  BY DEF Servers
<1>5. QED
  BY <1>1, <1>2, <1>3, <1>4

\* Main's copy: what it has answered, or is about to, is in it.
LEMMA AnswerFacts ==
    ASSUME TypeOK, NEW s \in Servers, MainOK(s), NEW c \in Conns
    PROVE  /\ Answered(s) \subseteq ToSet(rdmaCtxs[s])
           /\ Answer(s, c) >= 5 => c \in ToSet(rdmaCtxs[s])
           /\ c \in typed[s] <=> Answer(s, c) >= 4
           /\ ToSet(rdmaCtxs[s]) \subseteq ToSet(incomingIds[s])
<1>1. /\ rdmaCtxs[s] \in Seq(Conns) /\ served[s] \in Nat /\ incomingIds[s] \in Seq(Conns)
      /\ Len(rdmaCtxs[s]) \in Nat /\ Len(incomingIds[s]) \in Nat
  BY DEF TypeOK
<1>2. ToSet(rdmaCtxs[s]) = {rdmaCtxs[s][i] : i \in 1 .. Len(rdmaCtxs[s])}
      /\ ToSet(incomingIds[s]) = {incomingIds[s][i] : i \in 1 .. Len(incomingIds[s])}
  BY <1>1 DEF ToSet
<1>3. Answered(s) \subseteq ToSet(rdmaCtxs[s])
  BY <1>1, <1>2 DEF MainOK, Answered
<1>4. mpc[s] = "poll" => rdmaCtxs[s][served[s] + 1] \in ToSet(rdmaCtxs[s])
  <2>1. mpc[s] = "poll" => served[s] + 1 \in 1 .. Len(rdmaCtxs[s])
    BY <1>1 DEF MainOK
  <2>2. QED
    BY <1>2, <2>1
<1>5. Answer(s, c) >= 5 => c \in ToSet(rdmaCtxs[s])
  BY <1>3, <1>4 DEF Answer
<1>6. c \in typed[s] <=> Answer(s, c) >= 4
  BY <1>5 DEF Answer, MainOK
<1>7. ToSet(rdmaCtxs[s]) \subseteq ToSet(incomingIds[s])
  <2> SUFFICES ASSUME NEW i \in 1 .. Len(rdmaCtxs[s])
               PROVE  rdmaCtxs[s][i] \in ToSet(incomingIds[s])
    BY <1>2
  <2>1. Len(rdmaCtxs[s]) <= Len(incomingIds[s]) /\ rdmaCtxs[s][i] = incomingIds[s][i]
    BY DEF MainOK
  <2>2. i \in 1 .. Len(incomingIds[s])
    BY <1>1, <2>1
  <2>3. QED
    BY <1>2, <2>1, <2>2
<1>8. QED
  BY <1>3, <1>5, <1>6, <1>7

\* ... and each connection in it once.
LEMMA CopyInjective ==
    ASSUME TypeOK, NEW s \in Servers, HandlerOK(s), MainOK(s)
    PROVE  /\ IsInjective(rdmaCtxs[s])
           /\ \A i, j \in 1 .. Len(rdmaCtxs[s]) : rdmaCtxs[s][i] = rdmaCtxs[s][j] => i = j
<1>1. /\ rdmaCtxs[s] \in Seq(Conns) /\ incomingIds[s] \in Seq(Conns)
      /\ Len(rdmaCtxs[s]) \in Nat /\ Len(incomingIds[s]) \in Nat
  BY DEF TypeOK
<1>2. \A i, j \in 1 .. Len(incomingIds[s]) : incomingIds[s][i] = incomingIds[s][j] => i = j
  BY <1>1 DEF HandlerOK, IsInjective
<1>3. \A i \in 1 .. Len(rdmaCtxs[s]) :
         i \in 1 .. Len(incomingIds[s]) /\ rdmaCtxs[s][i] = incomingIds[s][i]
  BY <1>1 DEF MainOK
<1>4. \A i, j \in 1 .. Len(rdmaCtxs[s]) : rdmaCtxs[s][i] = rdmaCtxs[s][j] => i = j
  BY <1>2, <1>3
<1>5. DOMAIN rdmaCtxs[s] = 1 .. Len(rdmaCtxs[s])
  BY <1>1
<1>6. QED
  BY <1>4, <1>5 DEF IsInjective

\* A worker that is done with a connection has got main's answer.
LEMMA Concluded ==
    ASSUME IInv, NEW s \in Servers, NEW c \in Conns, Stand(s, c) = 6
    PROVE  c \in ToSet(rdmaCtxs[s])
<1>1. /\ sent[<<"client", s, c>>] = 2 /\ polled[<<"client", s, c>>] = 4
      /\ EndOK(Answer(s, c), sent[<<"server", s, c>>], polled[<<"server", s, c>>])
  BY EndFacts DEF IInv, EndsOK, EndOK
<1>2. polled[<<"client", s, c>>] <= sent[<<"client", s, c>>] + sent[<<"server", s, c>>]
  BY EndFacts DEF IInv, EndsOK
<1>3. sent[<<"server", s, c>>] \in 0 .. 2
  BY EndFacts, EndsTyped DEF IInv
<1>4. sent[<<"server", s, c>>] = 2
  BY <1>1, <1>2, <1>3
<1>5. Answer(s, c) >= 5
  BY <1>1, <1>4, StandRange DEF EndOK
<1>6. QED
  BY <1>5, AnswerFacts DEF IInv, MainsOK

\* What a handler has accepted somebody has asked for.
LEMMA Asked ==
    ASSUME TypeOK, WorkersOK, NEW s \in Servers, NEW c \in Conns, Stand(s, c) >= 1
    PROVE  /\ c[2] <= round[c[1]] /\ s <= LastOf(c[2]) /\ c[2] <= LastRound
           /\ c[2] > 1 => s = 1
<1>1. /\ c[1] \in Workers /\ c[2] \in Nat /\ c[2] >= 1 /\ s \in Nat /\ s >= 1
      /\ round[c[1]] \in Nat /\ LastOf(c[2]) \in Nat /\ LastRound \in Nat
  BY Positions
<1>2. c[2] <= round[c[1]] /\ s <= LastOf(c[2])
  <2>1. ~(c[2] > round[c[1]] \/ s > LastOf(c[2]))
    BY DEF Stand
  <2>2. QED
    BY <1>1, <2>1
<1>3. round[c[1]] <= LastRound
  BY <1>1 DEF WorkersOK, WorkerOK
<1>4. c[2] <= LastRound
  BY <1>1, <1>2, <1>3
<1>5. c[2] > 1 => s = 1
  <2>1. c[2] > 1 => LastOf(c[2]) = 1
    BY <1>1 DEF LastOf
  <2>2. QED
    BY <1>1, <1>2, <2>1
<1>6. QED
  BY <1>2, <1>4, <1>5

\* A worker has got main's answer over each earlier connection.
LEMMA Earlier ==
    ASSUME IInv, NEW s \in Servers, NEW c \in Conns, Stand(s, c) >= 1, c[2] > 1
    PROVE  <<c[1], c[2] - 1>> \in ToSet(rdmaCtxs[s])
<1> DEFINE d == <<c[1], c[2] - 1>>
<1>1. c[1] \in Workers /\ c[2] \in 1 .. MaxStage + 1 /\ s = 1 /\ c[2] <= round[c[1]]
      /\ MaxStage \in Nat /\ round[c[1]] \in 1 .. MaxStage + 1
  BY ConnFacts, Asked DEF IInv, TypeOK
<1>2. d \in Conns /\ d[1] = c[1] /\ d[2] = c[2] - 1 /\ d[2] \in Nat
  BY <1>1, ConnFacts
<1>3. s <= LastOf(d[2])
  <2>1. LastOf(d[2]) \in Servers
    BY <1>2, VariantFacts DEF IInv, TypeOK
  <2>2. QED
    BY <1>1, <2>1 DEF Servers
<1> HIDE DEF d
<1>4. Stand(s, d) = 6
  <2>1. d[2] < round[d[1]] /\ LastOf(d[2]) \in Nat
    BY <1>1, <1>2, Positions DEF IInv
  <2>2. QED
    BY <1>1, <1>2, <1>3, <2>1 DEF Stand
<1>5. d \in ToSet(rdmaCtxs[s])
  BY <1>2, <1>4, Concluded
<1>6. QED
  BY <1>5 DEF d

\* As long as main waits, no worker is ahead of the wave it waits for.
LEMMA Abreast ==
    ASSUME IInv, NEW s \in Servers, mpc[s] \in {"wait", "snapshot"}
    PROVE  accepted[s] \subseteq Workers \X (1 .. wave[s])
<1> SUFFICES ASSUME NEW c \in accepted[s] PROVE c \in Workers \X (1 .. wave[s])
  OBVIOUS
<1>1. c \in Conns /\ c[1] \in Workers /\ c[2] \in 1 .. MaxStage + 1 /\ c = <<c[1], c[2]>>
      /\ MaxStage \in Nat
  BY ConnFacts DEF IInv, TypeOK
<1>2. Stand(s, c) >= 1
  BY <1>1 DEF IInv, EventsOK, EventOK
<1>3. /\ wave[s] \in 0 .. 2 /\ wave[s] # 0
      /\ ToSet(rdmaCtxs[s]) = Workers \X (1 .. wave[s] - 1)
  BY DEF IInv, TypeOK, MainsOK, MainOK, Copied
<1>4. c[2] <= wave[s]
  <2>1. CASE c[2] = 1
    BY <1>3, <2>1
  <2>2. CASE c[2] > 1
    <3>1. <<c[1], c[2] - 1>> \in Workers \X (1 .. wave[s] - 1)
      BY <1>1, <1>2, <1>3, <2>2, Earlier
    <3>2. c[2] - 1 \in 1 .. wave[s] - 1
      BY <3>1
    <3>3. QED
      BY <1>1, <1>3, <3>2
  <2>3. QED
    BY <1>1, <2>1, <2>2
<1>5. c[2] \in 1 .. wave[s]
  BY <1>1, <1>3, <1>4
<1>6. QED
  BY <1>1, <1>5

\* Where a worker that has left had a connection, main is done with waiting,
\* and has all connections.
LEMMA Parting ==
    ASSUME IInv, NEW s \in Servers, NEW c \in Conns, Stand(s, c) >= 1,
           pc[c[1]] \in {"ready", "left"}, round[c[1]] = LastRound
    PROVE  /\ mpc[s] \notin {"off", "wait", "snapshot"} /\ wave[s] = LastWave
           /\ ToSet(rdmaCtxs[s]) = Workers \X (1 .. LastWave)
           /\ c \in ToSet(rdmaCtxs[s])
<1>1. /\ c[1] \in Workers /\ c[2] \in 1 .. MaxStage + 1 /\ MaxStage \in Nat /\ c = <<c[1], c[2]>>
      /\ c[2] <= LastRound /\ s <= LastOf(c[2]) /\ WorkerOK(c[1]) /\ (c[2] > 1 => s = 1)
      /\ TypeOK /\ variant \in Variants
  BY ConnFacts, Asked DEF IInv, TypeOK, WorkersOK
<1>2. /\ LastRound \in 1 .. MaxStage + 1 /\ LastWave \in {1, 2} /\ LastWave <= LastRound
      /\ server[c[1]] \in Nat /\ s \in Nat /\ server[c[1]] = LastOf(LastRound)
      /\ LastOf(c[2]) \in Nat /\ LastOf(LastRound) \in Nat
      /\ phase[c[1]] = 2
  <2>1. /\ LastRound \in 1 .. MaxStage + 1 /\ LastWave \in {1, 2} /\ LastWave <= LastRound
        /\ LastServer(c[1]) = LastOf(LastRound)
    BY <1>1, VariantFacts
  <2>2. server[c[1]] \in Nat /\ s \in Nat /\ LastOf(c[2]) \in Nat
    BY <1>1, Positions
  <2>3. server[c[1]] = LastOf(LastRound) /\ phase[c[1]] = 2
    BY <1>1, <2>1 DEF WorkerOK
  <2>4. QED
    BY <2>1, <2>2, <2>3
<1> DEFINE d == <<c[1], LastRound>>
<1>3. d \in Conns /\ d[1] = c[1] /\ d[2] = LastRound
  BY <1>1, <1>2, ConnFacts
<1>4. s <= LastOf(LastRound)
  <2>1. CASE LastRound > 1
    BY <1>1, <1>2, <2>1, VariantFacts
  <2>2. CASE ~(LastRound > 1)
    <3>1. c[2] = LastRound
      BY <1>1, <1>2, <2>2
    <3>2. QED
      BY <1>1, <3>1
  <2>3. QED
    BY <2>1, <2>2
<1> HIDE DEF d
<1>5. Stand(s, d) = 6
  BY <1>2, <1>3, <1>4 DEF Stand, At
<1>6. Stand(s, c) = 6
  BY <1>1, <1>2, Positions DEF Stand, At
<1>7. d \in ToSet(rdmaCtxs[s]) /\ c \in ToSet(rdmaCtxs[s])
  BY <1>3, <1>5, <1>6, Concluded
<1>8. MainOK(s) /\ wave[s] \in 0 .. 2 /\ Copied(s) \in {wave[s] - 1, wave[s]}
  BY DEF IInv, MainsOK, TypeOK, Copied
<1>9. d[2] \in 1 .. Copied(s)
  BY <1>7, <1>8 DEF MainOK
<1>10. wave[s] = LastWave /\ Copied(s) = wave[s]
  BY <1>2, <1>3, <1>8, <1>9 DEF MainOK
<1>11. mpc[s] \notin {"off", "wait", "snapshot"}
  BY <1>8, <1>10 DEF Copied
<1>12. QED
  BY <1>7, <1>8, <1>10, <1>11 DEF MainOK

-----------------------------------------------------------------------------
(* In the beginning.                                                       *)

LEMMA InitTypes == Init => TypeOK
<1> SUFFICES ASSUME Init PROVE TypeOK
  OBVIOUS
<1>1. (CHOOSE c \in Conns : TRUE) \in Conns
  BY ConnFacts
<1>2. current \in [Servers -> Conns]
  BY <1>1 DEF Init
<1>3. /\ numberConnections \in [Servers -> 0 .. Cardinality(Conns)]
      /\ numberConnectionsEstablished \in [Servers -> 0 .. Cardinality(Conns)]
  <2>1. 0 \in 0 .. Cardinality(Conns)
    BY ConnFacts
  <2>2. QED
    BY <2>1 DEF Init
<1>4. round \in [Workers -> 1 .. MaxStage + 1] /\ server \in [Workers -> Servers]
  <2>1. 1 \in 1 .. MaxStage + 1 /\ 1 \in Servers
    BY ConnFacts
  <2>2. QED
    BY <2>1 DEF Init
<1>5. incomingIds \in [Servers -> Seq(Conns)] /\ rdmaCtxs \in [Servers -> Seq(Conns)]
  BY DEF Init
<1>6. /\ variant \in Variants /\ phase \in [Workers -> 1 .. 2]
      /\ pc \in [Workers -> {"lock", "connect", "sleep", "connecting", "send", "poll",
                             "ready", "left"}]
      /\ outgoingMut \in [Nodes -> Workers \union {Nobody}]
      /\ sent \in [Ends -> 0 .. 2] /\ polled \in [Ends -> 0 .. 4]
  BY DEF Init
<1>7. /\ events \in [Servers -> SUBSET ({"request", "established", "disconnected"} \X Conns)]
      /\ accepted \in [Servers -> SUBSET Conns] /\ typed \in [Servers -> SUBSET Conns]
      /\ hpc \in [Servers -> {"off", "get", "push", "poll", "disconnect", "ended"}]
      /\ mpc \in [Servers -> {"off", "wait", "snapshot", "serve", "poll", "run", "destroy",
                              "join", "done"}]
      /\ wave \in [Servers -> 0 .. 2] /\ served \in [Servers -> Nat]
  BY DEF Init
<1>8. QED
  BY <1>2, <1>3, <1>4, <1>5, <1>6, <1>7 DEF TypeOK

LEMMA InitInv == Init => IInv
<1> SUFFICES ASSUME Init PROVE IInv
  OBVIOUS
<1>1. TypeOK
  BY InitTypes
<1>2. variant \in Variants
  BY DEF Init
<1>3. WorkersOK
  <2> SUFFICES ASSUME NEW w \in Workers PROVE WorkerOK(w)
    BY DEF WorkersOK
  <2>1. pc[w] = "lock" /\ round[w] = 1 /\ server[w] = 1 /\ phase[w] = 1
    BY DEF Init
  <2>2. LastServer(w) \in Servers /\ LastRound \in 1 .. MaxStage + 1
    <3>1. LastOf(1) \in Servers /\ LastServer(w) = LastOf(round[w])
      BY <1>2, VariantFacts
    <3>2. QED
      BY <1>2, <2>1, <3>1, VariantFacts
  <2>3. QED
    BY <2>1, <2>2, ConnFacts DEF WorkerOK, Servers
<1>4. \A s \in Servers : \A c \in Conns : Stand(s, c) = 0 /\ Answer(s, c) = 0
  <2> SUFFICES ASSUME NEW s \in Servers, NEW c \in Conns
               PROVE  Stand(s, c) = 0 /\ Answer(s, c) = 0
    OBVIOUS
  <2>1. pc[c[1]] = "lock" /\ round[c[1]] = 1 /\ server[c[1]] = 1 /\ phase[c[1]] = 1
    BY ConnFacts DEF Init
  <2>2. c[2] >= 1 /\ s >= 1 /\ c[2] \in Nat /\ s \in Nat
    BY <1>1, Positions
  <2>3. Stand(s, c) = 0
    BY <2>1, <2>2 DEF Stand, At
  <2>4. served[s] = 0 /\ typed[s] = {} /\ hpc[s] = "off" /\ mpc[s] = "off"
    BY DEF Init
  <2>5. Answer(s, c) = 0
    BY <2>4 DEF Answer, Answered
  <2>6. QED
    BY <2>3, <2>5
<1>5. EndsOK
  <2> SUFFICES ASSUME NEW e \in Ends
               PROVE  EndOK(Far(e), sent[e], polled[e]) /\ polled[e] <= sent[e] + sent[Peer(e)]
    BY DEF EndsOK
  <2>1. Far(e) = 0
    <3>1. PICK s \in Servers, c \in Conns : e = <<"client", s, c>> \/ e = <<"server", s, c>>
      BY EndFacts
    <3>2. Stand(s, c) = 0 /\ Answer(s, c) = 0
      BY <1>4
    <3>3. Far(<<"client", s, c>>) = 0 /\ Far(<<"server", s, c>>) = 0
      BY <3>2, EndFacts
    <3>4. QED
      BY <3>1, <3>3
  <2>2. sent[e] = 0 /\ polled[e] = 0 /\ sent[Peer(e)] = 0
    BY EndFacts DEF Init
  <2>3. QED
    BY <2>1, <2>2 DEF EndOK
<1>6. EventsOK
  BY <1>4 DEF EventsOK, EventOK, Init
<1>7. ASSUME NEW s \in Servers
      PROVE  HandlerOK(s) /\ NumbersOK(s) /\ MainOK(s)
  <2>1. /\ accepted[s] = {} /\ typed[s] = {} /\ hpc[s] = "off" /\ mpc[s] = "off"
        /\ incomingIds[s] = <<>> /\ rdmaCtxs[s] = <<>> /\ served[s] = 0 /\ wave[s] = 0
        /\ numberConnections[s] = 0 /\ numberConnectionsEstablished[s] = 0
    BY DEF Init
  <2>2. ToSet(incomingIds[s]) = {} /\ IsInjective(incomingIds[s]) /\ ToSet(rdmaCtxs[s]) = {}
    BY <2>1 DEF ToSet, IsInjective
  <2>3. HandlerOK(s)
    BY <2>1, <2>2 DEF HandlerOK
  <2>4. NumbersOK(s)
    <3>1. Live(s) = {} /\ Counted(s) = {}
      BY <2>1 DEF Live, Counted
    <3>2. QED
      BY <2>1, <3>1, FS_EmptySet DEF NumbersOK
  <2>5. MainOK(s)
    <3>1. Copied(s) = -1 /\ 1 .. -1 = {}
      BY <2>1 DEF Copied
    <3>2. ToSet(rdmaCtxs[s]) = Workers \X (1 .. Copied(s))
      BY <2>2, <3>1
    <3>3. wave[s] <= LastWave
      BY <1>2, <2>1, VariantFacts
    <3>4. QED
      BY <2>1, <2>2, <3>2, <3>3 DEF MainOK
  <2>6. QED
    BY <2>3, <2>4, <2>5
<1>8. QED
  BY <1>1, <1>3, <1>5, <1>6, <1>7 DEF IInv, HandlersOK, MainsOK

-----------------------------------------------------------------------------
(* What a step that changes little keeps.                                  *)

\* TypeOK without the ranges of the counters.
LooseTypes ==
    /\ variant \in Variants
    /\ pc \in [Workers -> {"lock", "connect", "sleep", "connecting", "send", "poll",
                           "ready", "left"}]
    /\ round \in [Workers -> 1 .. MaxStage + 1]
    /\ server \in [Workers -> Servers]
    /\ phase \in [Workers -> 1 .. 2]
    /\ outgoingMut \in [Nodes -> Workers \union {Nobody}]
    /\ sent \in [Ends -> Int] /\ polled \in [Ends -> Int]
    /\ events \in [Servers -> SUBSET ({"request", "established", "disconnected"} \X Conns)]

ServerTypes ==
    /\ accepted \in [Servers -> SUBSET Conns]
    /\ hpc \in [Servers -> {"off", "get", "push", "poll", "disconnect", "ended"}]
    /\ current \in [Servers -> Conns]
    /\ numberConnections \in [Servers -> Int]
    /\ numberConnectionsEstablished \in [Servers -> Int]
    /\ incomingIds \in [Servers -> Seq(Conns)]
    /\ typed \in [Servers -> SUBSET Conns]

MainTypes ==
    /\ mpc \in [Servers -> {"off", "wait", "snapshot", "serve", "poll", "run", "destroy",
                            "join", "done"}]
    /\ wave \in [Servers -> 0 .. 2]
    /\ rdmaCtxs \in [Servers -> Seq(Conns)]
    /\ served \in [Servers -> Nat]

LEMMA TypesLoose == TypeOK => LooseTypes /\ ServerTypes /\ MainTypes
<1> SUFFICES ASSUME TypeOK PROVE LooseTypes /\ ServerTypes /\ MainTypes
  OBVIOUS
<1>1. \A S, T, U : \A f \in [S -> T] : T \subseteq U => f \in [S -> U]
  OBVIOUS
<1>2. sent \in [Ends -> Int] /\ polled \in [Ends -> Int]
  <2>1. sent \in [Ends -> 0 .. 2] /\ polled \in [Ends -> 0 .. 4]
    BY DEF TypeOK
  <2>2. 0 .. 2 \subseteq Int /\ 0 .. 4 \subseteq Int
    OBVIOUS
  <2>3. QED
    BY <1>1, <2>1, <2>2
<1>3. numberConnections \in [Servers -> Int] /\ numberConnectionsEstablished \in [Servers -> Int]
  <2>1. /\ numberConnections \in [Servers -> 0 .. Cardinality(Conns)]
        /\ numberConnectionsEstablished \in [Servers -> 0 .. Cardinality(Conns)]
    BY DEF TypeOK
  <2>2. 0 .. Cardinality(Conns) \subseteq Int
    BY ConnFacts
  <2>3. QED
    BY <1>1, <2>1, <2>2
<1>4. LooseTypes
  BY <1>2 DEF TypeOK, LooseTypes
<1>5. ServerTypes
  BY <1>3 DEF TypeOK, ServerTypes
<1>6. MainTypes
  BY DEF TypeOK, MainTypes
<1>7. QED
  BY <1>4, <1>5, <1>6

\* The ranges follow from the rest of the invariant.
LEMMA TypesStrict ==
    LooseTypes /\ ServerTypes /\ MainTypes /\ EndsOK /\ HandlersOK => TypeOK
<1> SUFFICES ASSUME LooseTypes, ServerTypes, MainTypes, EndsOK, HandlersOK PROVE TypeOK
  OBVIOUS
<1>1. sent \in [Ends -> 0 .. 2] /\ polled \in [Ends -> 0 .. 4]
  BY EndsTyped DEF LooseTypes
<1>2. /\ numberConnections \in [Servers -> 0 .. Cardinality(Conns)]
      /\ numberConnectionsEstablished \in [Servers -> 0 .. Cardinality(Conns)]
  <2>1. ASSUME NEW s \in Servers
        PROVE  /\ numberConnections[s] \in 0 .. Cardinality(Conns)
               /\ numberConnectionsEstablished[s] \in 0 .. Cardinality(Conns)
    <3>1. Live(s) \subseteq Conns /\ Counted(s) \subseteq Conns
      BY DEF Live, Counted, ServerTypes
    <3>2. \A S : S \subseteq Conns => Cardinality(S) \in 0 .. Cardinality(Conns)
      <4>1. \A S : S \subseteq Conns =>
               Cardinality(S) \in Nat /\ Cardinality(S) <= Cardinality(Conns)
        BY ConnFacts, FS_Subset, FS_CardinalityType
      <4>2. QED
        BY <4>1, ConnFacts
    <3>3. QED
      BY <3>1, <3>2 DEF HandlersOK, NumbersOK
  <2>2. QED
    BY <2>1 DEF ServerTypes
<1>3. QED
  BY <1>1, <1>2 DEF TypeOK, LooseTypes, ServerTypes, MainTypes

LEMMA TypesStrictThen ==
    LooseTypes' /\ ServerTypes' /\ MainTypes' /\ EndsOK' /\ HandlersOK' => TypeOK'
BY TypesStrict, PTL

\* What says nothing of the workers but where they are.
LEMMA WorkersKept ==
    ASSUME WorkersOK, UNCHANGED <<variant, client>>
    PROVE  WorkersOK'
BY DEF WorkersOK, WorkerOK, client, LastServer, LastRound

LEMMA VariantKept ==
    ASSUME UNCHANGED variant
    PROVE  LastRound' = LastRound /\ LastWave' = LastWave /\ \A r : LastOf(r)' = LastOf(r)
BY DEF LastRound, LastWave, LastOf

\* Only one end moves.
LEMMA EndStep ==
    ASSUME EndsOK, NEW e \in Ends, EndOK(Far(e), sent[e], polled[e])',
           \A d \in Ends \ {e} : sent'[d] = sent[d] /\ polled'[d] = polled[d] /\ Far(d)' = Far(d),
           sent'[e] >= sent[e], sent'[e] \in Int, polled'[e] <= sent'[e] + sent[Peer(e)]
    PROVE  EndsOK'
<1> SUFFICES ASSUME NEW d \in Ends
             PROVE  /\ EndOK(Far(d), sent[d], polled[d])'
                    /\ polled'[d] <= sent'[d] + sent'[Peer(d)]
  BY DEF EndsOK, Peer
<1>1. CASE d = e
  <2>1. sent'[Peer(e)] = sent[Peer(e)]
    BY EndFacts
  <2>2. QED
    BY <1>1, <2>1
<1>2. CASE d # e
  <2>1. /\ sent'[d] = sent[d] /\ polled'[d] = polled[d] /\ Far(d)' = Far(d)
        /\ EndOK(Far(d), sent[d], polled[d])
    BY <1>2 DEF EndsOK
  <2>2. EndOK(Far(d), sent[d], polled[d])'
    BY <2>1 DEF EndOK
  <2>3. sent'[Peer(d)] >= sent[Peer(d)]
    <3>1. CASE Peer(d) = e
      BY <3>1
    <3>2. CASE Peer(d) # e
      <4>1. Peer(d) \in Ends \ {e} /\ sent[Peer(d)] \in 0 .. 2
        BY <3>2, EndFacts, EndsTyped
      <4>2. QED
        BY <4>1
    <3>3. QED
      BY <3>1, <3>2
  <2>4. sent[d] \in 0 .. 2 /\ polled[d] \in 0 .. 4 /\ sent[Peer(d)] \in 0 .. 2
        /\ sent'[Peer(d)] \in Int
    <3>1. Peer(d) \in Ends /\ (\A x \in Ends : sent[x] \in 0 .. 2 /\ polled[x] \in 0 .. 4)
      BY EndFacts, EndsTyped
    <3>2. sent'[Peer(d)] \in Int
      BY <3>1
    <3>3. QED
      BY <3>1, <3>2
  <2>5. polled[d] <= sent[d] + sent[Peer(d)]
    BY DEF EndsOK
  <2>6. QED
    BY <2>1, <2>2, <2>3, <2>4, <2>5
<1>3. QED
  BY <1>1, <1>2

\* None does.
LEMMA EndsSame ==
    ASSUME EndsOK, UNCHANGED qps, \A d \in Ends : Far(d)' = Far(d)
    PROVE  EndsOK'
BY DEF EndsOK, EndOK, qps, Peer

\* Only the worker's end moves, or only the storage node's.
LEMMA FarMoves ==
    ASSUME NEW S, NEW A,
           \A s \in Servers : \A c \in Conns : <<s, c>> \notin S => Stand(s, c)' = Stand(s, c),
           \A s \in Servers : \A c \in Conns : <<s, c>> \notin A => Answer(s, c)' = Answer(s, c)
    PROVE  \A e \in Ends : \/ e[1] = "client" /\ <<e[2], e[3]>> \in S
                           \/ e[1] = "server" /\ <<e[2], e[3]>> \in A
                           \/ Far(e)' = Far(e)
<1> SUFFICES ASSUME NEW e \in Ends
             PROVE  \/ e[1] = "client" /\ <<e[2], e[3]>> \in S
                    \/ e[1] = "server" /\ <<e[2], e[3]>> \in A
                    \/ Far(e)' = Far(e)
  OBVIOUS
<1>1. e[1] \in {"client", "server"} /\ e[2] \in Servers /\ e[3] \in Conns
  BY DEF Ends
<1>2. CASE e[1] = "client"
  BY <1>1, <1>2 DEF Far
<1>3. CASE e[1] = "server"
  BY <1>1, <1>3 DEF Far
<1>4. QED
  BY <1>1, <1>2, <1>3

\* A worker's step is nothing to the storage nodes' threads.
LEMMA ServersKept ==
    ASSUME IInv, UNCHANGED <<variant, handler, main>>, AllLeft => AllLeft',
           \A s \in Servers : Live(s)' = Live(s)
    PROVE  HandlersOK' /\ MainsOK' /\ ServerTypes' /\ MainTypes'
<1>1. UNCHANGED <<hpc, current, numberConnections, numberConnectionsEstablished, incomingIds,
                  typed, accepted>>
  BY DEF handler
<1>2. UNCHANGED <<mpc, wave, rdmaCtxs, served>>
  BY DEF main
<1>3. ServerTypes' /\ MainTypes'
  <2>1. ServerTypes /\ MainTypes
    BY TypesLoose DEF IInv
  <2>2. QED
    BY <1>1, <1>2, <2>1 DEF ServerTypes, MainTypes
<1>4. ASSUME NEW s \in Servers PROVE HandlerOK(s)'
  BY <1>1, <1>2 DEF IInv, HandlersOK, HandlerOK
<1>5. ASSUME NEW s \in Servers PROVE NumbersOK(s)'
  <2>1. Counted(s)' = Counted(s)
    BY <1>1 DEF Counted
  <2>2. QED
    BY <1>1, <2>1 DEF IInv, HandlersOK, NumbersOK
<1>6. ASSUME NEW s \in Servers PROVE MainOK(s)'
  <2>1. LastWave' = LastWave
    BY VariantKept
  <2>2. QED
    BY <1>1, <1>2, <2>1 DEF IInv, MainsOK, MainOK, Copied
<1>7. QED
  BY <1>3, <1>4, <1>5, <1>6 DEF HandlersOK, MainsOK

LEMMA AnswersKept ==
    ASSUME UNCHANGED <<handler, main>>
    PROVE  \A s, c : Answer(s, c)' = Answer(s, c)
BY DEF Answer, Answered, handler, main

\* Nor is it to the connections of others.
LEMMA PcMoves ==
    ASSUME TypeOK, NEW w \in Workers, WorkerOK(w),
           NEW t \in Servers, t = server[w], NEW d \in Conns, d = <<w, round[w]>>,
           UNCHANGED <<variant, round, server, phase>>,
           \A x \in Workers \ {w} : pc'[x] = pc[x]
    PROVE  /\ Stand(t, d) = At(pc[w], phase[w])
           /\ Stand(t, d)' = At(pc'[w], phase[w])
           /\ \A s \in Servers : \A c \in Conns :
                s # t \/ c # d => Stand(s, c)' = Stand(s, c)
<1>1. t \in Nat /\ round[w] \in Nat /\ d[1] = w /\ d[2] = round[w]
  BY Positions
<1>2. LastOf(round[w]) \in Nat /\ t <= LastOf(round[w]) /\ LastOf(round[w])' = LastOf(round[w])
  <2>1. LastOf(round[w]) \in Servers /\ LastServer(w) = LastOf(round[w])
    BY <1>1, VariantFacts DEF TypeOK
  <2>2. LastOf(round[w])' = LastOf(round[w])
    BY DEF LastOf
  <2>3. QED
    BY <2>1, <2>2, ConnFacts DEF WorkerOK
<1>3. Stand(t, d) = At(pc[w], phase[w]) /\ Stand(t, d)' = At(pc'[w], phase[w])
  BY <1>1, <1>2 DEF Stand
<1>4. ASSUME NEW s \in Servers, NEW c \in Conns, s # t \/ c # d
      PROVE  Stand(s, c)' = Stand(s, c)
  <2>1. /\ c[1] \in Workers /\ c[2] \in Nat /\ s \in Nat /\ c = <<c[1], c[2]>>
        /\ round[c[1]] \in Nat /\ server[c[1]] \in Nat /\ LastOf(c[2])' = LastOf(c[2])
    BY Positions, VariantKept
  <2>2. CASE c[1] # w
    BY <1>1, <2>1, <2>2 DEF Stand
  <2>3. CASE c[1] = w /\ c[2] # round[w]
    BY <1>1, <2>1, <2>3 DEF Stand
  <2>4. CASE c[1] = w /\ c[2] = round[w]
    <3>1. s # t
      BY <1>4, <2>1, <2>4
    <3>2. QED
      BY <1>1, <2>1, <2>4, <3>1 DEF Stand
  <2>5. QED
    BY <2>2, <2>3, <2>4
<1>5. QED
  BY <1>3, <1>4

\* The disconnections a worker's step leaves to be seen.
LEMMA LiveKept ==
    ASSUME TypeOK, UNCHANGED accepted,
           \A s \in Servers : \A c \in Conns :
              <<"disconnected", c>> \in events'[s] <=> <<"disconnected", c>> \in events[s],
           \A w \in Workers : pc'[w] = "left" <=> pc[w] = "left"
    PROVE  \A s \in Servers : Live(s)' = Live(s)
<1>1. \A s \in Servers : \A c \in accepted[s] : c \in Conns /\ c[1] \in Workers
  BY ConnFacts DEF TypeOK
<1>2. QED
  BY <1>1 DEF Live

\* Nothing happens, and the workers only get on.
LEMMA EventsKept ==
    ASSUME EventsOK, UNCHANGED <<events, handler, main>>,
           \A s \in Servers : \A c \in Conns :
              /\ Stand(s, c)' \in Int /\ Stand(s, c) \in Int /\ Stand(s, c)' >= Stand(s, c)
              /\ Stand(s, c) = 1 => Stand(s, c)' = 1
              /\ pc[c[1]] = "left" => pc'[c[1]] = "left"
    PROVE  EventsOK'
<1> SUFFICES ASSUME NEW s \in Servers, NEW c \in Conns PROVE EventOK(s, c)'
  BY DEF EventsOK
<1>1. Answer(s, c)' = Answer(s, c)
  BY AnswersKept
<1>2. EventOK(s, c)
  BY DEF EventsOK
<1>3. QED
  BY <1>1, <1>2 DEF EventOK, handler

-----------------------------------------------------------------------------
(* The steps of a worker.                                                  *)

\* One that is not at the end of an exchange.
LEMMA WorkersMove ==
    ASSUME TypeOK, WorkersOK, NEW w \in Workers, NEW b, b \notin {"ready", "left"},
           UNCHANGED <<variant, round, server, phase>>, pc' = [pc EXCEPT ![w] = b],
           b \in {"lock", "connect", "sleep", "connecting"} => phase[w] = 1
    PROVE  WorkersOK'
<1>1. LastRound' = LastRound /\ \A x : LastServer(x)' = LastServer(x)
  BY DEF LastRound, LastServer
<1>2. pc'[w] = b /\ \A x \in Workers \ {w} : pc'[x] = pc[x]
  BY DEF TypeOK
<1>3. QED
  BY <1>1, <1>2 DEF WorkersOK, WorkerOK

\* What it changes: how far the worker is over the connection it is busy with,
\* what it has sent and polled for over it, and which events there are of it.
LEMMA WorkerInv ==
    ASSUME IInv, NEW w \in Workers, pc[w] # "left",
           NEW t \in Servers, NEW d \in Conns, NEW e, e = <<"client", t, d>>,
           UNCHANGED <<variant, handler, main>>, LooseTypes', WorkersOK',
           \A x \in Workers : pc'[x] = "left" <=> pc[x] = "left",
           \A s \in Servers : \A c \in Conns : s # t \/ c # d => Stand(s, c)' = Stand(s, c),
           \A s \in Servers : \A c \in Conns :
              <<"disconnected", c>> \in events'[s] <=> <<"disconnected", c>> \in events[s],
           \A s \in Servers : \A c \in Conns : s # t \/ c # d =>
              \A k : <<k, c>> \in events'[s] <=> <<k, c>> \in events[s],
           EventOK(t, d)', EndOK(Stand(t, d), sent[e], polled[e])',
           \A x \in Ends \ {e} : sent'[x] = sent[x] /\ polled'[x] = polled[x],
           sent'[e] >= sent[e], polled'[e] <= sent'[e] + sent[Peer(e)]
    PROVE  IInv'
<1>1. \A s, c : Answer(s, c)' = Answer(s, c)
  BY AnswersKept
<1>2. EndsOK'
  <2>1. e \in Ends /\ Far(e)' = Stand(t, d)'
    BY EndFacts DEF Far
  <2>2. \A x \in Ends \ {e} : Far(x)' = Far(x)
    BY <1>1 DEF Far, Ends
  <2>3. sent'[e] \in Int /\ EndsOK
    BY <2>1 DEF LooseTypes, IInv
  <2>4. EndOK(Far(e), sent[e], polled[e])'
    BY <2>1 DEF EndOK
  <2>5. QED
    BY <2>1, <2>2, <2>3, <2>4, EndStep
<1>3. EventsOK'
  <2> SUFFICES ASSUME NEW s \in Servers, NEW c \in Conns PROVE EventOK(s, c)'
    BY DEF EventsOK
  <2>1. CASE s = t /\ c = d
    BY <2>1
  <2>2. CASE s # t \/ c # d
    <3>1. EventOK(s, c) /\ accepted' = accepted /\ typed' = typed /\ Stand(s, c)' = Stand(s, c)
      BY <2>2 DEF IInv, EventsOK, handler
    <3>2. pc[c[1]] = "left" => pc'[c[1]] = "left"
      BY ConnFacts
    <3>3. \A k : <<k, c>> \in events'[s] <=> <<k, c>> \in events[s]
      BY <2>2
    <3>4. QED
      BY <1>1, <3>1, <3>2, <3>3 DEF EventOK
  <2>3. QED
    BY <2>1, <2>2
<1>4. HandlersOK' /\ MainsOK' /\ ServerTypes' /\ MainTypes'
  <2>1. \A s \in Servers : Live(s)' = Live(s)
    BY LiveKept DEF IInv, handler
  <2>2. ~AllLeft
    BY DEF AllLeft
  <2>3. QED
    BY <2>1, <2>2, ServersKept
<1>5. QED
  BY <1>2, <1>3, <1>4, TypesStrictThen DEF IInv

\* Where a worker is, and what the invariant says of it.
LEMMA Busy ==
    ASSUME IInv, NEW w \in Workers
    PROVE  /\ TypeOK /\ WorkersOK /\ WorkerOK(w) /\ LooseTypes /\ EventsOK
           /\ \E t \in Servers, d \in Conns :
                /\ t = server[w] /\ d = <<w, round[w]>> /\ d[1] = w
                /\ Mine(w) = <<"client", t, d>> /\ Mine(w) \in Ends
                /\ Far(Mine(w)) = At(pc[w], phase[w]) /\ Stand(t, d) = At(pc[w], phase[w])
                /\ Peer(Mine(w)) = <<"server", t, d>>
           /\ EndOK(At(pc[w], phase[w]), sent[Mine(w)], polled[Mine(w)])
           /\ sent[Mine(w)] \in 0 .. 2 /\ polled[Mine(w)] \in 0 .. 4
           /\ sent[Peer(Mine(w))] \in 0 .. 2
           /\ polled[Mine(w)] <= sent[Mine(w)] + sent[Peer(Mine(w))]
<1>1. TypeOK /\ WorkersOK /\ WorkerOK(w) /\ LooseTypes /\ EventsOK /\ EndsOK
  BY TypesLoose DEF IInv, WorkersOK
<1>2. PICK t \in Servers, d \in Conns : t = server[w] /\ d = <<w, round[w]>>
  BY <1>1, ConnFacts DEF TypeOK
<1>3. Stand(t, d) = At(pc[w], phase[w])
  <2>1. t \in Nat /\ round[w] \in Nat /\ d[1] = w /\ d[2] = round[w]
    BY <1>1, <1>2, Positions
  <2>2. LastOf(round[w]) \in Nat /\ t <= LastOf(round[w])
    <3>1. LastOf(round[w]) \in Servers /\ LastServer(w) = LastOf(round[w])
      BY <1>1, <2>1, VariantFacts DEF TypeOK
    <3>2. QED
      BY <1>1, <1>2, <3>1, ConnFacts DEF WorkerOK
  <2>3. QED
    BY <1>2, <2>1, <2>2 DEF Stand
<1>4. /\ Mine(w) = <<"client", t, d>> /\ Mine(w) \in Ends /\ Peer(Mine(w)) = <<"server", t, d>>
      /\ Far(Mine(w)) = At(pc[w], phase[w]) /\ Peer(Mine(w)) \in Ends
  BY <1>2, <1>3, EndFacts DEF Mine
<1>5. EndOK(At(pc[w], phase[w]), sent[Mine(w)], polled[Mine(w)])
      /\ polled[Mine(w)] <= sent[Mine(w)] + sent[Peer(Mine(w))]
  BY <1>1, <1>4 DEF EndsOK
<1>6. d[1] = w
  BY <1>2
<1>7. QED
  BY <1>1, <1>2, <1>3, <1>4, <1>5, <1>6, EndsTyped

\* LockOutgoing, Refused, Retry: nothing that is seen elsewhere.
LEMMA QuietInv ==
    ASSUME IInv, NEW w \in Workers, LockOutgoing(w) \/ Refused(w) \/ Retry(w)
    PROVE  IInv'
<1>1. /\ UNCHANGED <<variant, round, server, phase, qps, events, handler, main>>
      /\ outgoingMut' \in [Nodes -> Workers \union {Nobody}]
      /\ \E a, b \in {"lock", "connect", "sleep"} : pc[w] = a /\ pc' = [pc EXCEPT ![w] = b]
  <2>1. outgoingMut \in [Nodes -> Workers \union {Nobody}]
    BY DEF IInv, TypeOK
  <2>2. CASE LockOutgoing(w)
    BY <2>1, <2>2 DEF LockOutgoing, Goto
  <2>3. CASE Refused(w)
    BY <2>1, <2>3 DEF Refused, Goto, Release
  <2>4. CASE Retry(w)
    BY <2>1, <2>4 DEF Retry, Goto
  <2>5. QED
    BY <2>2, <2>3, <2>4
<1>2. PICK a, b \in {"lock", "connect", "sleep"} : pc[w] = a /\ pc' = [pc EXCEPT ![w] = b]
  BY <1>1
<1>3. TypeOK /\ WorkersOK /\ EventsOK /\ EndsOK /\ WorkerOK(w) /\ phase[w] = 1
  BY <1>2 DEF IInv, WorkersOK, WorkerOK
<1>4. LooseTypes'
  <2>1. LooseTypes
    BY <1>3, TypesLoose
  <2>2. QED
    BY <1>1, <1>2, <2>1 DEF LooseTypes, qps
<1>5. WorkersOK'
  BY <1>1, <1>2, <1>3, WorkersMove
<1>6. \A s \in Servers : \A c \in Conns : Stand(s, c)' = Stand(s, c)
  <2>1. At(a, phase[w]) = At(b, phase[w])
    BY DEF At
  <2>2. PICK t \in Servers, d \in Conns : t = server[w] /\ d = <<w, round[w]>>
    BY <1>3, ConnFacts DEF TypeOK
  <2>3. pc'[w] = b /\ \A x \in Workers \ {w} : pc'[x] = pc[x]
    BY <1>2, <1>3 DEF TypeOK
  <2>4. QED
    BY <1>1, <1>2, <1>3, <2>1, <2>2, <2>3, PcMoves
<1>7. \A s, c : Answer(s, c)' = Answer(s, c)
  BY <1>1, AnswersKept
<1>8. EndsOK'
  <2>1. \A e \in Ends : Far(e)' = Far(e)
    BY <1>6, <1>7 DEF Far, Ends
  <2>2. QED
    BY <1>1, <1>3, <2>1, EndsSame
<1>9. EventsOK'
  <2>1. \A c \in Conns : pc[c[1]] = "left" => pc'[c[1]] = "left"
    BY <1>2, <1>3, ConnFacts DEF TypeOK
  <2>2. QED
    BY <1>1, <1>3, <1>6, <2>1, StandRange, EventsKept
<1>10. HandlersOK' /\ MainsOK' /\ ServerTypes' /\ MainTypes'
  <2>1. \A s \in Servers : Live(s)' = Live(s)
    <3>1. \A x \in Workers : pc'[x] = "left" <=> pc[x] = "left"
      BY <1>2, <1>3 DEF TypeOK
    <3>2. QED
      BY <1>1, <1>3, <3>1, LiveKept DEF handler
  <2>2. ~AllLeft
    BY <1>2 DEF AllLeft
  <2>3. QED
    BY <1>1, <2>1, <2>2, ServersKept
<1>11. QED
  BY <1>4, <1>5, <1>8, <1>9, <1>10, TypesStrictThen DEF IInv

\* Connect: the connection is requested.
LEMMA ConnectInv ==
    ASSUME IInv, NEW w \in Workers, Connect(w)
    PROVE  IInv'
<1>1. /\ TypeOK /\ WorkersOK /\ WorkerOK(w) /\ LooseTypes /\ EventsOK
      /\ EndOK(At(pc[w], phase[w]), sent[Mine(w)], polled[Mine(w)])
      /\ sent[Mine(w)] \in 0 .. 2 /\ polled[Mine(w)] <= sent[Mine(w)] + sent[Peer(Mine(w))]
  BY Busy
<1>2. PICK t \in Servers, d \in Conns :
         /\ t = server[w] /\ d = <<w, round[w]>> /\ d[1] = w /\ Mine(w) = <<"client", t, d>>
         /\ Stand(t, d) = At(pc[w], phase[w])
  BY Busy
<1>3. PICK e \in Ends : e = Mine(w)
  BY Busy
<1>4. /\ UNCHANGED <<variant, round, server, phase, outgoingMut, sent, polled, handler, main>>
      /\ pc[w] = "connect" /\ pc' = [pc EXCEPT ![w] = "connecting"] /\ phase[w] = 1
      /\ events' = [events EXCEPT ![t] = @ \union {<<"request", d>>}]
  BY <1>1, <1>2 DEF Connect, Goto, Signal, qps, WorkerOK
<1>5. At("connect", 1) = 0 /\ At("connecting", 1) = 1
  BY DEF At
<1>6. pc'[w] = "connecting" /\ \A x \in Workers \ {w} : pc'[x] = pc[x]
  BY <1>1, <1>4 DEF TypeOK
<1>7. /\ Stand(t, d)' = 1
      /\ \A s \in Servers : \A c \in Conns : s # t \/ c # d => Stand(s, c)' = Stand(s, c)
  BY <1>1, <1>2, <1>4, <1>5, <1>6, PcMoves
<1>8. LooseTypes'
  BY <1>1, <1>2, <1>4 DEF LooseTypes
<1>9. WorkersOK'
  BY <1>1, <1>4, WorkersMove
<1>10. /\ \A s \in Servers : \A c \in Conns :
             <<"disconnected", c>> \in events'[s] <=> <<"disconnected", c>> \in events[s]
       /\ \A s \in Servers : \A c \in Conns : s # t \/ c # d =>
             \A k : <<k, c>> \in events'[s] <=> <<k, c>> \in events[s]
       /\ \A k : k # "request" => (<<k, d>> \in events'[t] <=> <<k, d>> \in events[t])
  BY <1>1, <1>4 DEF TypeOK
<1>11. EventOK(t, d)'
  <2>1. EventOK(t, d) /\ accepted' = accepted /\ typed' = typed
    BY <1>1, <1>4 DEF EventsOK, handler
  <2>2. Answer(t, d)' = Answer(t, d)
    BY <1>4, AnswersKept
  <2>3. Stand(t, d) = 0 /\ Answer(t, d) = 0 /\ d \notin accepted[t]
    BY <1>2, <1>4, <1>5, <2>1, StandRange DEF EventOK
  <2>4. <<"established", d>> \notin events[t]
    BY <2>1, <2>3 DEF EventOK
  <2>5. pc'[d[1]] = "left" <=> pc[d[1]] = "left"
    BY <1>2, <1>4, <1>6
  <2>6. QED
    BY <1>7, <1>10, <2>1, <2>2, <2>3, <2>4, <2>5 DEF EventOK
<1>12. EndOK(Stand(t, d), sent[e], polled[e])'
  BY <1>1, <1>3, <1>4, <1>5, <1>7 DEF EndOK
<1>13. \A x \in Workers : pc'[x] = "left" <=> pc[x] = "left"
  BY <1>4, <1>6
<1>14. sent'[e] >= sent[e] /\ polled'[e] <= sent'[e] + sent[Peer(e)]
  BY <1>1, <1>3, <1>4
<1>15. QED
  BY <1>2, <1>3, <1>4, <1>7, <1>8, <1>9, <1>10, <1>11, <1>12, <1>13, <1>14, WorkerInv

\* Connected: the storage node will be told, and has not begun to answer.
LEMMA ConnectedInv ==
    ASSUME IInv, NEW w \in Workers, Connected(w)
    PROVE  IInv'
<1>1. /\ TypeOK /\ WorkersOK /\ WorkerOK(w) /\ LooseTypes /\ EventsOK
      /\ EndOK(At(pc[w], phase[w]), sent[Mine(w)], polled[Mine(w)])
      /\ sent[Mine(w)] \in 0 .. 2 /\ polled[Mine(w)] <= sent[Mine(w)] + sent[Peer(Mine(w))]
  BY Busy
<1>2. PICK t \in Servers, d \in Conns :
         /\ t = server[w] /\ d = <<w, round[w]>> /\ d[1] = w /\ Mine(w) = <<"client", t, d>>
         /\ Stand(t, d) = At(pc[w], phase[w])
  BY Busy
<1>3. PICK e \in Ends : e = Mine(w)
  BY Busy
<1>4. /\ UNCHANGED <<variant, round, server, phase, outgoingMut, sent, polled, handler, main>>
      /\ pc[w] = "connecting" /\ pc' = [pc EXCEPT ![w] = "send"] /\ phase[w] = 1
      /\ events' = [events EXCEPT ![t] = @ \union {<<"established", d>>}]
      /\ d \in accepted[t]
  BY <1>1, <1>2 DEF Connected, Goto, Signal, qps, WorkerOK
<1>5. At("connecting", 1) = 1 /\ At("send", 1) = 2
  BY DEF At
<1>6. pc'[w] = "send" /\ \A x \in Workers \ {w} : pc'[x] = pc[x]
  BY <1>1, <1>4 DEF TypeOK
<1>7. /\ Stand(t, d)' = 2
      /\ \A s \in Servers : \A c \in Conns : s # t \/ c # d => Stand(s, c)' = Stand(s, c)
  BY <1>1, <1>2, <1>4, <1>5, <1>6, PcMoves
<1>8. LooseTypes'
  BY <1>1, <1>2, <1>4 DEF LooseTypes
<1>9. WorkersOK'
  BY <1>1, <1>4, WorkersMove
<1>10. /\ \A s \in Servers : \A c \in Conns :
             <<"disconnected", c>> \in events'[s] <=> <<"disconnected", c>> \in events[s]
       /\ \A s \in Servers : \A c \in Conns : s # t \/ c # d =>
             \A k : <<k, c>> \in events'[s] <=> <<k, c>> \in events[s]
       /\ \A k : k # "established" => (<<k, d>> \in events'[t] <=> <<k, d>> \in events[t])
  BY <1>1, <1>4 DEF TypeOK
<1>11. EventOK(t, d)'
  <2>1. EventOK(t, d) /\ accepted' = accepted /\ typed' = typed
    BY <1>1, <1>4 DEF EventsOK, handler
  <2>2. Answer(t, d)' = Answer(t, d)
    BY <1>4, AnswersKept
  <2>3. Stand(t, d) = 1 /\ Answer(t, d) = 0 /\ <<"request", d>> \notin events[t]
    BY <1>2, <1>4, <1>5, <2>1, StandRange DEF EventOK
  <2>4. pc'[d[1]] = "left" <=> pc[d[1]] = "left"
    BY <1>2, <1>4, <1>6
  <2>5. QED
    BY <1>4, <1>7, <1>10, <2>1, <2>2, <2>3, <2>4 DEF EventOK
<1>12. EndOK(Stand(t, d), sent[e], polled[e])'
  BY <1>1, <1>3, <1>4, <1>5, <1>7 DEF EndOK
<1>13. \A x \in Workers : pc'[x] = "left" <=> pc[x] = "left"
  BY <1>4, <1>6
<1>14. sent'[e] >= sent[e] /\ polled'[e] <= sent'[e] + sent[Peer(e)]
  BY <1>1, <1>3, <1>4
<1>15. QED
  BY <1>2, <1>3, <1>4, <1>7, <1>8, <1>9, <1>10, <1>11, <1>12, <1>13, <1>14, WorkerInv

\* No event, and the worker gets on.
LEMMA EventStill ==
    ASSUME NEW t \in Servers, NEW d \in Conns, EventOK(t, d), UNCHANGED <<events, handler, main>>,
           Stand(t, d) >= 2, Stand(t, d)' >= 2,
           pc'[d[1]] = "left" <=> pc[d[1]] = "left"
    PROVE  EventOK(t, d)'
<1>1. Answer(t, d)' = Answer(t, d) /\ accepted' = accepted /\ typed' = typed /\ events' = events
  BY AnswersKept DEF handler
<1>2. <<"request", d>> \notin events[t]
  BY DEF EventOK
<1>3. Stand(t, d)' \in 0 .. 6
  BY StandRangeThen
<1>4. QED
  BY <1>1, <1>2, <1>3 DEF EventOK

\* ClientSend: the first message or the second.
LEMMA ClientSendInv ==
    ASSUME IInv, NEW w \in Workers, ClientSend(w)
    PROVE  IInv'
<1>1. /\ TypeOK /\ WorkersOK /\ WorkerOK(w) /\ LooseTypes /\ EventsOK
      /\ EndOK(At(pc[w], phase[w]), sent[Mine(w)], polled[Mine(w)])
      /\ sent[Mine(w)] \in 0 .. 2 /\ polled[Mine(w)] \in 0 .. 4
      /\ sent[Peer(Mine(w))] \in 0 .. 2 /\ polled[Mine(w)] <= sent[Mine(w)] + sent[Peer(Mine(w))]
      /\ phase[w] \in {1, 2}
  <2>1. phase[w] \in 1 .. 2
    BY Busy DEF TypeOK
  <2>2. QED
    BY <2>1, Busy
<1>2. PICK t \in Servers, d \in Conns :
         /\ t = server[w] /\ d = <<w, round[w]>> /\ d[1] = w /\ Mine(w) = <<"client", t, d>>
         /\ Stand(t, d) = At(pc[w], phase[w])
  BY Busy
<1>3. PICK e \in Ends : e = Mine(w)
  BY Busy
<1>4. /\ UNCHANGED <<variant, round, server, phase, outgoingMut, polled, events, handler, main>>
      /\ pc[w] = "send" /\ pc' = [pc EXCEPT ![w] = "poll"] /\ sent' = [sent EXCEPT ![e] = @ + 1]
  BY <1>3 DEF ClientSend, Goto, PostSend
<1>5. /\ phase[w] = 1 => At("send", phase[w]) = 2 /\ At("poll", phase[w]) = 3
      /\ phase[w] = 2 => At("send", phase[w]) = 4 /\ At("poll", phase[w]) = 5
  BY DEF At
<1>6. pc'[w] = "poll" /\ \A x \in Workers \ {w} : pc'[x] = pc[x]
  BY <1>1, <1>4 DEF TypeOK
<1>7. /\ Stand(t, d)' = At("poll", phase[w])
      /\ \A s \in Servers : \A c \in Conns : s # t \/ c # d => Stand(s, c)' = Stand(s, c)
  BY <1>1, <1>2, <1>4, <1>6, PcMoves
<1>8. LooseTypes'
  BY <1>1, <1>2, <1>4 DEF LooseTypes
<1>9. WorkersOK'
  BY <1>1, <1>4, WorkersMove
<1>10. /\ \A s \in Servers : \A c \in Conns :
             <<"disconnected", c>> \in events'[s] <=> <<"disconnected", c>> \in events[s]
       /\ \A s \in Servers : \A c \in Conns : s # t \/ c # d =>
             \A k : <<k, c>> \in events'[s] <=> <<k, c>> \in events[s]
  BY <1>4
<1>11. EventOK(t, d)'
  <2>1. EventOK(t, d) /\ (pc'[d[1]] = "left" <=> pc[d[1]] = "left")
    BY <1>1, <1>2, <1>4, <1>6 DEF EventsOK
  <2>2. Stand(t, d) >= 2 /\ Stand(t, d)' >= 2
    BY <1>1, <1>2, <1>4, <1>5, <1>7
  <2>3. QED
    BY <1>4, <2>1, <2>2, EventStill
<1>12. /\ sent'[e] = sent[e] + 1 /\ polled'[e] = polled[e]
       /\ \A x \in Ends \ {e} : sent'[x] = sent[x] /\ polled'[x] = polled[x]
  BY <1>1, <1>4 DEF TypeOK
<1>13. EndOK(Stand(t, d), sent[e], polled[e])'
  <2>1. EndOK(At("send", phase[w]), sent[e], polled[e])
    BY <1>1, <1>3, <1>4
  <2>2. CASE phase[w] = 1
    BY <1>5, <1>7, <1>12, <2>1, <2>2 DEF EndOK
  <2>3. CASE phase[w] = 2
    BY <1>5, <1>7, <1>12, <2>1, <2>3 DEF EndOK
  <2>4. QED
    BY <1>1, <2>2, <2>3
<1>14. \A x \in Workers : pc'[x] = "left" <=> pc[x] = "left"
  BY <1>4, <1>6
<1>15. sent'[e] >= sent[e] /\ polled'[e] <= sent'[e] + sent[Peer(e)]
  BY <1>1, <1>3, <1>4, <1>12
<1>16. QED
  BY <1>2, <1>3, <1>4, <1>7, <1>8, <1>9, <1>10, <1>11, <1>12, <1>13, <1>14, <1>15, WorkerInv

\* A poll of an end in its exchange of phase p.
LEMMA PollFacts ==
    ASSUME TypeOK, NEW e \in Ends, NEW p \in {1, 2}, PollSome(e, p),
           sent[e] \in 0 .. 2, polled[e] \in 0 .. 4, sent[Peer(e)] \in 0 .. 2,
           EndOK(IF p = 1 THEN 3 ELSE 5, sent[e], polled[e])
    PROVE  /\ EndOK(IF p = 1 THEN 3 ELSE 5, sent'[e], polled'[e])
           /\ sent' = sent /\ polled'[e] <= sent'[e] + sent[Peer(e)]
           /\ polled' \in [Ends -> Int] /\ \A x \in Ends \ {e} : polled'[x] = polled[x]
<1>1. PICK k \in 1 .. Expected(e, p) : /\ polled[e] + k <= sent[e] + sent[Peer(e)]
                                       /\ polled' = [polled EXCEPT ![e] = @ + k]
  BY DEF PollSome
<1>2. k \in 1 .. (2 - (polled[e] - 2 * (p - 1))) /\ polled \in [Ends -> Int]
  BY <1>1, TypesLoose DEF Expected, LooseTypes
<1>3. polled'[e] = polled[e] + k /\ \A x \in Ends \ {e} : polled'[x] = polled[x]
  BY <1>1, <1>2
<1>4. sent' = sent /\ k \in Int /\ k >= 1 /\ k <= 2 - (polled[e] - 2 * (p - 1))
  BY <1>2 DEF PollSome
<1>5. polled' \in [Ends -> Int]
  BY <1>1, <1>2, <1>4
<1>6. CASE p = 1
  BY <1>1, <1>3, <1>4, <1>5, <1>6 DEF EndOK
<1>7. CASE p = 2
  BY <1>1, <1>3, <1>4, <1>5, <1>7 DEF EndOK
<1>8. QED
  BY <1>6, <1>7

\* ClientPoll: at most the two completions of the exchange.
LEMMA ClientPollInv ==
    ASSUME IInv, NEW w \in Workers, ClientPoll(w)
    PROVE  IInv'
<1>1. /\ TypeOK /\ WorkersOK /\ WorkerOK(w) /\ LooseTypes /\ EventsOK
      /\ EndOK(At(pc[w], phase[w]), sent[Mine(w)], polled[Mine(w)])
      /\ sent[Mine(w)] \in 0 .. 2 /\ polled[Mine(w)] \in 0 .. 4
      /\ sent[Peer(Mine(w))] \in 0 .. 2
      /\ phase[w] \in {1, 2}
  <2>1. phase[w] \in 1 .. 2
    BY Busy DEF TypeOK
  <2>2. QED
    BY <2>1, Busy
<1>2. PICK t \in Servers, d \in Conns :
         /\ t = server[w] /\ d = <<w, round[w]>> /\ d[1] = w /\ Mine(w) = <<"client", t, d>>
         /\ Stand(t, d) = At(pc[w], phase[w])
  BY Busy
<1>3. PICK e \in Ends : e = Mine(w)
  BY Busy
<1>4. /\ UNCHANGED <<variant, pc, round, server, phase, outgoingMut, events, handler, main>>
      /\ pc[w] = "poll" /\ PollSome(e, phase[w])
  BY <1>3 DEF ClientPoll, client
<1>5. At("poll", phase[w]) = IF phase[w] = 1 THEN 3 ELSE 5
  BY DEF At
<1>6. \A s \in Servers : \A c \in Conns : Stand(s, c)' = Stand(s, c)
  BY <1>4 DEF Stand, LastOf
<1>7. /\ EndOK(IF phase[w] = 1 THEN 3 ELSE 5, sent'[e], polled'[e])
      /\ sent' = sent /\ polled'[e] <= sent'[e] + sent[Peer(e)]
      /\ polled' \in [Ends -> Int] /\ \A x \in Ends \ {e} : polled'[x] = polled[x]
  BY <1>1, <1>3, <1>4, <1>5, PollFacts
<1>8. LooseTypes'
  BY <1>1, <1>4, <1>7 DEF LooseTypes
<1>9. WorkersOK'
  BY <1>1, <1>4, WorkersKept DEF client
<1>10. EventOK(t, d)'
  <2>1. EventOK(t, d) /\ Stand(t, d) >= 2 /\ Stand(t, d)' >= 2
    BY <1>1, <1>2, <1>4, <1>5, <1>6 DEF EventsOK
  <2>2. QED
    BY <1>4, <2>1, EventStill
<1>11. EndOK(Stand(t, d), sent[e], polled[e])'
  BY <1>2, <1>4, <1>5, <1>6, <1>7 DEF EndOK
<1>12. sent'[e] >= sent[e]
  BY <1>1, <1>3, <1>7
<1>13. QED
  BY <1>2, <1>3, <1>4, <1>6, <1>7, <1>8, <1>9, <1>10, <1>11, <1>12, WorkerInv

\* The end of an exchange: the peer's message of the phase is there.
LEMMA MovesOn ==
    ASSUME IInv, NEW w \in Workers, ClientExchanged(w)
    PROVE  /\ pc[w] = "poll" /\ phase[w] \in {1, 2} /\ polled[Mine(w)] = 2 * phase[w]
           /\ EndOK(IF phase[w] = 1 THEN 4 ELSE 6, sent[Mine(w)], polled[Mine(w)])
<1>1. /\ EndOK(At(pc[w], phase[w]), sent[Mine(w)], polled[Mine(w)])
      /\ phase[w] \in 1 .. 2
  BY Busy DEF TypeOK
<1>2. pc[w] = "poll" /\ polled[Mine(w)] = 2 * phase[w] /\ phase[w] \in {1, 2}
  BY <1>1 DEF ClientExchanged, Exchanged
<1>3. At("poll", phase[w]) = IF phase[w] = 1 THEN 3 ELSE 5
  BY DEF At
<1>4. CASE phase[w] = 1
  BY <1>1, <1>2, <1>3, <1>4 DEF EndOK
<1>5. CASE phase[w] = 2
  BY <1>1, <1>2, <1>3, <1>5 DEF EndOK
<1>6. QED
  BY <1>2, <1>4, <1>5

\* ... and the next storage node's turn, or the next phase.
LEMMA InitiatedMoves ==
    ASSUME IInv, NEW w \in Workers, Initiated(w),
           NEW t \in Servers, NEW d \in Conns, t = server[w], d = <<w, round[w]>>
    PROVE  /\ Stand(t, d)' = 4 /\ WorkersOK'
           /\ \A s \in Servers : \A c \in Conns : s # t \/ c # d => Stand(s, c)' = Stand(s, c)
<1>1. /\ pc[w] = "poll" /\ phase[w] = 1 /\ UNCHANGED <<variant, round>>
      /\ TypeOK /\ WorkersOK /\ WorkerOK(w)
      /\ \A x \in Workers \ {w} : pc'[x] = pc[x] /\ server'[x] = server[x] /\ phase'[x] = phase[x]
  <2>1. TypeOK /\ WorkersOK /\ WorkerOK(w)
    BY Busy
  <2>2. pc[w] = "poll" /\ phase[w] = 1 /\ UNCHANGED <<variant, round>>
    BY DEF Initiated, ClientExchanged
  <2>3. \A x \in Workers \ {w} : pc'[x] = pc[x] /\ server'[x] = server[x] /\ phase'[x] = phase[x]
    BY <2>1 DEF Initiated, TypeOK
  <2>4. QED
    BY <2>1, <2>2, <2>3
<1>2. /\ t \in Nat /\ t >= 1 /\ round[w] \in Nat /\ d[1] = w /\ d[2] = round[w]
      /\ LastOf(round[w]) \in Nat /\ LastOf(round[w]) >= 1
  BY <1>1, Positions
<1>3. /\ LastOf(round[w])' = LastOf(round[w]) /\ LastServer(w) = LastOf(round[w])
      /\ LastServer(w)' = LastServer(w)
  BY <1>1, VariantFacts DEF LastOf, LastServer, TypeOK
<1>4. t <= LastOf(round[w])
  BY <1>1, <1>3 DEF WorkerOK
<1>5. \/ /\ t < LastOf(round[w]) /\ server'[w] = t + 1 /\ pc'[w] = "lock" /\ phase'[w] = 1
      \/ /\ t = LastOf(round[w]) /\ server'[w] = 1 /\ pc'[w] = "send" /\ phase'[w] = 2
  BY <1>1, <1>2, <1>3, <1>4 DEF Initiated, TypeOK
<1>6. Stand(t, d)' = 4
  BY <1>1, <1>2, <1>3, <1>4, <1>5 DEF Stand, At
<1>7. ASSUME NEW s \in Servers, NEW c \in Conns, s # t \/ c # d
      PROVE  Stand(s, c)' = Stand(s, c)
  <2>1. /\ c[1] \in Workers /\ c[2] \in Nat /\ s \in Nat /\ s >= 1 /\ c = <<c[1], c[2]>>
        /\ round[c[1]] \in Nat /\ server[c[1]] \in Nat /\ LastOf(c[2])' = LastOf(c[2])
    BY <1>1, Positions, VariantKept
  <2>2. CASE c[1] # w
    BY <1>1, <2>1, <2>2 DEF Stand
  <2>3. CASE c[1] = w /\ c[2] # round[w]
    BY <1>1, <1>2, <2>1, <2>3 DEF Stand
  <2>4. CASE c[1] = w /\ c[2] = round[w]
    <3>1. s # t
      BY <1>7, <2>1, <2>4
    <3>2. QED
      BY <1>1, <1>2, <1>3, <1>4, <1>5, <2>1, <2>4, <3>1 DEF Stand, At
  <2>5. QED
    BY <2>2, <2>3, <2>4
<1>8. WorkersOK'
  <2> SUFFICES ASSUME NEW x \in Workers PROVE WorkerOK(x)'
    BY DEF WorkersOK
  <2>1. WorkerOK(x) /\ LastRound' = LastRound
    BY <1>1 DEF WorkersOK, LastRound
  <2>2. CASE x = w
    BY <1>1, <1>2, <1>3, <1>4, <1>5, <2>1, <2>2 DEF WorkerOK
  <2>3. CASE x # w
    <3>1. LastServer(x)' = LastServer(x)
      BY <1>1 DEF LastServer
    <3>2. QED
      BY <1>1, <2>1, <2>3, <3>1 DEF WorkerOK
  <2>4. QED
    BY <2>2, <2>3
<1>9. QED
  BY <1>6, <1>7, <1>8

LEMMA FinishedMoves ==
    ASSUME IInv, NEW w \in Workers, Finished(w),
           NEW t \in Servers, NEW d \in Conns, t = server[w], d = <<w, round[w]>>
    PROVE  /\ Stand(t, d)' = 6 /\ WorkersOK'
           /\ \A s \in Servers : \A c \in Conns : s # t \/ c # d => Stand(s, c)' = Stand(s, c)
<1>1. /\ pc[w] = "poll" /\ phase[w] = 2 /\ UNCHANGED <<variant, round, phase>>
      /\ TypeOK /\ WorkersOK /\ WorkerOK(w)
      /\ \A x \in Workers \ {w} : pc'[x] = pc[x] /\ server'[x] = server[x] /\ phase'[x] = phase[x]
  BY Busy DEF Finished, ClientExchanged, TypeOK
<1>2. /\ t \in Nat /\ t >= 1 /\ round[w] \in Nat /\ d[1] = w /\ d[2] = round[w]
      /\ LastOf(round[w]) \in Nat /\ LastOf(round[w]) >= 1
  BY <1>1, Positions
<1>3. /\ LastOf(round[w])' = LastOf(round[w]) /\ LastServer(w) = LastOf(round[w])
      /\ LastServer(w)' = LastServer(w)
  BY <1>1, VariantFacts DEF LastOf, LastServer, TypeOK
<1>4. t <= LastOf(round[w])
  BY <1>1, <1>3 DEF WorkerOK
<1>5. \/ t < LastOf(round[w]) /\ server'[w] = t + 1 /\ pc'[w] = "send"
      \/ t = LastOf(round[w]) /\ server'[w] = t /\ pc'[w] = "ready"
  BY <1>1, <1>2, <1>3, <1>4 DEF Finished, TypeOK
<1>6. Stand(t, d)' = 6
  BY <1>1, <1>2, <1>3, <1>4, <1>5 DEF Stand, At
<1>7. ASSUME NEW s \in Servers, NEW c \in Conns, s # t \/ c # d
      PROVE  Stand(s, c)' = Stand(s, c)
  <2>1. /\ c[1] \in Workers /\ c[2] \in Nat /\ s \in Nat /\ s >= 1 /\ c = <<c[1], c[2]>>
        /\ round[c[1]] \in Nat /\ server[c[1]] \in Nat /\ LastOf(c[2])' = LastOf(c[2])
    BY <1>1, Positions, VariantKept
  <2>2. CASE c[1] # w
    BY <1>1, <2>1, <2>2 DEF Stand
  <2>3. CASE c[1] = w /\ c[2] # round[w]
    BY <1>1, <1>2, <2>1, <2>3 DEF Stand
  <2>4. CASE c[1] = w /\ c[2] = round[w]
    <3>1. s # t
      BY <1>7, <2>1, <2>4
    <3>2. QED
      BY <1>1, <1>2, <1>3, <1>4, <1>5, <2>1, <2>4, <3>1 DEF Stand, At
  <2>5. QED
    BY <2>2, <2>3, <2>4
<1>8. WorkersOK'
  <2> SUFFICES ASSUME NEW x \in Workers PROVE WorkerOK(x)'
    BY DEF WorkersOK
  <2>1. WorkerOK(x) /\ LastRound' = LastRound
    BY <1>1 DEF WorkersOK, LastRound
  <2>2. CASE x = w
    BY <1>1, <1>2, <1>3, <1>4, <1>5, <2>1, <2>2 DEF WorkerOK
  <2>3. CASE x # w
    <3>1. LastServer(x)' = LastServer(x)
      BY <1>1 DEF LastServer
    <3>2. QED
      BY <1>1, <2>1, <2>3, <3>1 DEF WorkerOK
  <2>4. QED
    BY <2>2, <2>3
<1>9. QED
  BY <1>6, <1>7, <1>8

\* Initiated, Finished.
LEMMA MovesOnInv ==
    ASSUME IInv, NEW w \in Workers, Initiated(w) \/ Finished(w)
    PROVE  IInv'
<1>1. /\ TypeOK /\ LooseTypes /\ EventsOK /\ polled[Mine(w)] <= sent[Mine(w)] + sent[Peer(Mine(w))]
      /\ sent[Mine(w)] \in 0 .. 2
  BY Busy
<1>2. PICK t \in Servers, d \in Conns :
         /\ t = server[w] /\ d = <<w, round[w]>> /\ d[1] = w /\ Mine(w) = <<"client", t, d>>
         /\ Stand(t, d) = At(pc[w], phase[w])
  BY Busy
<1>3. PICK e \in Ends : e = Mine(w)
  BY Busy
<1>4. /\ ClientExchanged(w) /\ UNCHANGED <<variant, sent, polled, events, handler, main>>
  BY DEF Initiated, Finished, qps
<1>5. /\ pc[w] = "poll" /\ phase[w] \in {1, 2}
      /\ EndOK(IF phase[w] = 1 THEN 4 ELSE 6, sent[e], polled[e])
  BY <1>3, <1>4, MovesOn
<1>6. /\ Stand(t, d)' = (IF phase[w] = 1 THEN 4 ELSE 6) /\ WorkersOK'
      /\ \A s \in Servers : \A c \in Conns : s # t \/ c # d => Stand(s, c)' = Stand(s, c)
  <2>1. CASE Initiated(w)
    <3>1. phase[w] = 1
      BY <2>1 DEF Initiated
    <3>2. QED
      BY <1>2, <2>1, <3>1, InitiatedMoves
  <2>2. CASE Finished(w)
    <3>1. phase[w] = 2
      BY <2>2 DEF Finished
    <3>2. QED
      BY <1>2, <2>2, <3>1, FinishedMoves
  <2>3. QED
    BY <2>1, <2>2
<1>7. LooseTypes' /\ \A x \in Workers : pc'[x] = "left" <=> pc[x] = "left"
  <2>1. server' \in [Workers -> Servers]
    <3>1. LastServer(w) \in Servers /\ server[w] \in Servers /\ 1 \in Servers
      <4>1. round[w] \in Nat /\ server[w] \in Servers
        BY <1>1, <1>2, Positions DEF TypeOK
      <4>2. QED
        BY <1>1, <4>1, VariantFacts, ConnFacts DEF TypeOK
    <3>2. server[w] < LastServer(w) => server[w] + 1 \in Servers
      BY <3>1, ConnFacts DEF Servers
    <3>3. \/ server' = server \/ server' = [server EXCEPT ![w] = 1]
          \/ server[w] < LastServer(w) /\ server' = [server EXCEPT ![w] = server[w] + 1]
      BY DEF Initiated, Finished
    <3>4. server \in [Workers -> Servers]
      BY <1>1 DEF TypeOK
    <3>5. QED
      BY <3>1, <3>2, <3>3, <3>4
  <2>2. /\ pc' \in [Workers -> {"lock", "connect", "sleep", "connecting", "send", "poll",
                                "ready", "left"}]
        /\ phase' \in [Workers -> 1 .. 2] /\ round' = round
        /\ outgoingMut' \in [Nodes -> Workers \union {Nobody}]
        /\ \A x \in Workers : pc'[x] = "left" <=> pc[x] = "left"
    <3>1. \E b \in {"lock", "send", "ready"} : pc' = [pc EXCEPT ![w] = b]
      BY DEF Initiated, Finished
    <3>2. phase' = phase \/ phase' = [phase EXCEPT ![w] = 2]
      BY DEF Initiated, Finished
    <3>3. outgoingMut' \in [Nodes -> Workers \union {Nobody}] /\ round' = round
      BY <1>1 DEF Initiated, Finished, Release, TypeOK
    <3>4. /\ pc \in [Workers -> {"lock", "connect", "sleep", "connecting", "send", "poll",
                                "ready", "left"}]
          /\ phase \in [Workers -> 1 .. 2]
      BY <1>1 DEF TypeOK
    <3>5. QED
      BY <1>5, <3>1, <3>2, <3>3, <3>4
  <2>3. QED
    BY <1>1, <1>4, <2>1, <2>2 DEF LooseTypes
<1>8. EventOK(t, d)'
  <2>1. EventOK(t, d) /\ (pc'[d[1]] = "left" <=> pc[d[1]] = "left")
    BY <1>1, <1>2, <1>7 DEF EventsOK
  <2>2. Stand(t, d) >= 2 /\ Stand(t, d)' >= 2
    BY <1>2, <1>5, <1>6 DEF At
  <2>3. QED
    BY <1>4, <2>1, <2>2, EventStill
<1>9. EndOK(Stand(t, d), sent[e], polled[e])'
  BY <1>4, <1>5, <1>6 DEF EndOK
<1>10. sent'[e] >= sent[e] /\ polled'[e] <= sent'[e] + sent[Peer(e)]
  BY <1>1, <1>3, <1>4
<1>11. QED
  BY <1>2, <1>3, <1>4, <1>5, <1>6, <1>7, <1>8, <1>9, <1>10, WorkerInv

-----------------------------------------------------------------------------
(* The steps of a compute node.                                            *)

\* A worker that is ready is done with every connection it has had.
LEMMA ReadyStand ==
    ASSUME TypeOK, WorkersOK, NEW s \in Servers, NEW c \in Conns, pc[c[1]] \in {"ready", "left"}
    PROVE  Stand(s, c) = IF c[2] > round[c[1]] \/ s > LastOf(c[2]) THEN 0 ELSE 6
<1>1. /\ c[1] \in Workers /\ c[2] \in Nat /\ s \in Nat /\ round[c[1]] \in Nat
      /\ server[c[1]] \in Nat /\ LastOf(c[2]) \in Nat
  BY Positions
<1>2. WorkerOK(c[1]) /\ LastServer(c[1]) = LastOf(round[c[1]])
  BY <1>1, VariantFacts DEF WorkersOK, TypeOK
<1>3. phase[c[1]] = 2 /\ server[c[1]] = LastOf(round[c[1]])
  BY <1>2 DEF WorkerOK
<1>4. QED
  BY <1>1, <1>3 DEF Stand, At

\* NextStage: no connection of the stage has been begun.
LEMMA NextStageInv ==
    ASSUME IInv, NEW n \in Nodes, NextStage(n)
    PROVE  IInv'
<1>1. /\ TypeOK /\ WorkersOK /\ EventsOK /\ EndsOK /\ LooseTypes
      /\ LastRound \in 1 .. MaxStage + 1 /\ MaxStage \in Nat
      /\ UNCHANGED <<variant, outgoingMut, qps, events, handler, main>>
  BY TypesLoose, VariantFacts, ConnFacts DEF IInv, NextStage, TypeOK
<1>2. ASSUME NEW w \in Workers
      PROVE  IF NodeOf[w] = n
             THEN /\ pc[w] = "ready" /\ round[w] < LastRound /\ round'[w] = round[w] + 1
                  /\ server'[w] = 1 /\ phase'[w] = 1 /\ pc'[w] = "lock"
             ELSE /\ round'[w] = round[w] /\ server'[w] = server[w] /\ phase'[w] = phase[w]
                  /\ pc'[w] = pc[w]
  BY DEF NextStage, AllReady, WorkersOf
<1>3. LooseTypes'
  <2>1. round' \in [Workers -> 1 .. MaxStage + 1]
    <3>1. \A w \in Workers : round[w] \in 1 .. MaxStage + 1
      BY <1>1 DEF TypeOK
    <3>2. \A w \in Workers : round'[w] \in 1 .. MaxStage + 1
      BY <1>1, <1>2, <3>1
    <3>3. QED
      BY <3>2 DEF NextStage
  <2>2. /\ server' \in [Workers -> Servers] /\ phase' \in [Workers -> 1 .. 2]
        /\ pc' \in [Workers -> {"lock", "connect", "sleep", "connecting", "send", "poll",
                                "ready", "left"}]
    <3>1. 1 \in Servers /\ 1 \in 1 .. 2
      BY ConnFacts
    <3>2. server' \in [Workers -> Servers] /\ phase' \in [Workers -> 1 .. 2]
      BY <1>1, <3>1 DEF NextStage, TypeOK
    <3>3. pc' \in [Workers -> {"lock", "connect", "sleep", "connecting", "send", "poll",
                               "ready", "left"}]
      BY <1>1 DEF NextStage, TypeOK
    <3>4. QED
      BY <3>2, <3>3
  <2>3. QED
    BY <1>1, <2>1, <2>2 DEF LooseTypes, qps
<1>4. WorkersOK'
  <2> SUFFICES ASSUME NEW w \in Workers PROVE WorkerOK(w)'
    BY DEF WorkersOK
  <2>1. WorkerOK(w) /\ LastRound' = LastRound /\ round[w] \in Nat /\ round[w] >= 1
    BY <1>1 DEF WorkersOK, LastRound, TypeOK
  <2>2. CASE NodeOf[w] = n
    <3>1. LastServer(w)' = 1
      BY <1>2, <2>1, <2>2 DEF LastServer
    <3>2. QED
      BY <1>1, <1>2, <2>1, <2>2, <3>1 DEF WorkerOK
  <2>3. CASE NodeOf[w] # n
    <3>1. LastServer(w)' = LastServer(w)
      BY <1>1, <1>2, <2>3 DEF LastServer
    <3>2. /\ round'[w] = round[w] /\ server'[w] = server[w] /\ phase'[w] = phase[w]
          /\ pc'[w] = pc[w]
      BY <1>2, <2>3
    <3>3. QED
      BY <2>1, <3>1, <3>2 DEF WorkerOK
  <2>4. QED
    BY <2>2, <2>3
<1>5. \A s \in Servers : \A c \in Conns : Stand(s, c)' = Stand(s, c)
  <2> SUFFICES ASSUME NEW s \in Servers, NEW c \in Conns PROVE Stand(s, c)' = Stand(s, c)
    OBVIOUS
  <2>1. /\ c[1] \in Workers /\ c[2] \in Nat /\ c[2] >= 1 /\ s \in Nat /\ s >= 1
        /\ round[c[1]] \in Nat /\ LastOf(c[2])' = LastOf(c[2]) /\ LastOf(c[2]) \in Nat
        /\ round[c[1]] >= 1
    BY <1>1, Positions, VariantKept DEF TypeOK
  <2>2. CASE NodeOf[c[1]] = n
    <3>1. Stand(s, c) = IF c[2] > round[c[1]] \/ s > LastOf(c[2]) THEN 0 ELSE 6
      BY <1>1, <1>2, <2>1, <2>2, ReadyStand
    <3>2. c[2] = round[c[1]] + 1 => LastOf(c[2]) = 1
      BY <2>1 DEF LastOf
    <3>3. QED
      BY <1>2, <2>1, <2>2, <3>1, <3>2 DEF Stand, At
  <2>3. CASE NodeOf[c[1]] # n
    BY <1>2, <2>1, <2>3 DEF Stand
  <2>4. QED
    BY <2>2, <2>3
<1>6. EndsOK'
  <2>1. \A s, c : Answer(s, c)' = Answer(s, c)
    BY <1>1, AnswersKept
  <2>2. \A e \in Ends : Far(e)' = Far(e)
    BY <1>5, <2>1 DEF Far, Ends
  <2>3. QED
    BY <1>1, <2>2, EndsSame
<1>7. \A w \in Workers : pc'[w] = "left" <=> pc[w] = "left"
  BY <1>2
<1>8. EventsOK'
  BY <1>1, <1>5, <1>7, ConnFacts, StandRange, EventsKept
<1>9. HandlersOK' /\ MainsOK' /\ ServerTypes' /\ MainTypes'
  <2>1. \A s \in Servers : Live(s)' = Live(s)
    BY <1>1, <1>7, LiveKept DEF handler
  <2>2. AllLeft => AllLeft'
    BY <1>7 DEF AllLeft
  <2>3. QED
    BY <1>1, <2>1, <2>2, ServersKept
<1>10. QED
  BY <1>3, <1>4, <1>6, <1>8, <1>9, TypesStrictThen DEF IInv

\* Disconnect: every connection it has had has been answered.
LEMMA DisconnectInv ==
    ASSUME IInv, NEW n \in Nodes, Disconnect(n)
    PROVE  IInv'
<1>1. /\ TypeOK /\ WorkersOK /\ EventsOK /\ EndsOK /\ LooseTypes
      /\ UNCHANGED <<variant, round, server, phase, outgoingMut, qps, handler, main>>
  BY TypesLoose DEF IInv, Disconnect
<1>2. ASSUME NEW w \in Workers
      PROVE  IF NodeOf[w] = n
             THEN pc[w] = "ready" /\ round[w] = LastRound /\ pc'[w] = "left"
             ELSE pc'[w] = pc[w]
  BY DEF Disconnect, AllReady, WorkersOf
<1>3. ASSUME NEW s \in Servers, NEW c \in Conns
      PROVE  /\ <<"request", c>> \in events'[s] <=> <<"request", c>> \in events[s]
             /\ <<"established", c>> \in events'[s] <=> <<"established", c>> \in events[s]
             /\ <<"disconnected", c>> \in events'[s] <=>
                   \/ <<"disconnected", c>> \in events[s]
                   \/ NodeOf[c[1]] = n /\ c \in accepted[s]
  BY DEF Disconnect, ConnsOf
<1>4. LooseTypes'
  <2>1. pc' \in [Workers -> {"lock", "connect", "sleep", "connecting", "send", "poll",
                             "ready", "left"}]
    BY <1>1 DEF Disconnect, TypeOK
  <2>2. events' \in [Servers -> SUBSET ({"request", "established", "disconnected"} \X Conns)]
    BY <1>1 DEF Disconnect, ConnsOf, TypeOK
  <2>3. QED
    BY <1>1, <2>1, <2>2 DEF LooseTypes, qps
<1>5. WorkersOK'
  <2> SUFFICES ASSUME NEW w \in Workers PROVE WorkerOK(w)'
    BY DEF WorkersOK
  <2>1. WorkerOK(w) /\ LastRound' = LastRound /\ LastServer(w)' = LastServer(w)
    BY <1>1 DEF WorkersOK, LastRound, LastServer
  <2>2. QED
    BY <1>1, <1>2, <2>1 DEF WorkerOK
<1>6. \A s \in Servers : \A c \in Conns : Stand(s, c)' = Stand(s, c)
  <2> SUFFICES ASSUME NEW s \in Servers, NEW c \in Conns PROVE Stand(s, c)' = Stand(s, c)
    OBVIOUS
  <2>1. c[1] \in Workers /\ LastOf(c[2])' = LastOf(c[2])
    BY <1>1, ConnFacts, VariantKept
  <2>2. At(pc[c[1]], phase[c[1]])' = At(pc[c[1]], phase[c[1]])
    BY <1>1, <1>2, <2>1 DEF At
  <2>3. QED
    BY <1>1, <2>1, <2>2 DEF Stand
<1>7. \A s, c : Answer(s, c)' = Answer(s, c)
  BY <1>1, AnswersKept
<1>8. EndsOK'
  <2>1. \A e \in Ends : Far(e)' = Far(e)
    BY <1>6, <1>7 DEF Far, Ends
  <2>2. QED
    BY <1>1, <2>1, EndsSame
<1>9. EventsOK'
  <2> SUFFICES ASSUME NEW s \in Servers, NEW c \in Conns PROVE EventOK(s, c)'
    BY DEF EventsOK
  <2>1. EventOK(s, c) /\ accepted' = accepted /\ typed' = typed /\ c[1] \in Workers
    BY <1>1, ConnFacts DEF EventsOK, handler
  <2>2. NodeOf[c[1]] = n /\ c \in accepted[s] => c \in typed[s]
    <3> SUFFICES ASSUME NodeOf[c[1]] = n, c \in accepted[s] PROVE c \in typed[s]
      OBVIOUS
    <3>1. Stand(s, c) >= 1
      BY <2>1 DEF EventOK
    <3>2. pc[c[1]] \in {"ready", "left"} /\ round[c[1]] = LastRound
      BY <1>2, <2>1
    <3>3. c \in ToSet(rdmaCtxs[s])
      BY <3>1, <3>2, Parting
    <3>4. QED
      BY <3>3 DEF IInv, MainsOK, MainOK
  <2>3. QED
    BY <1>2, <1>3, <1>6, <1>7, <2>1, <2>2 DEF EventOK
<1>10. HandlersOK' /\ MainsOK' /\ ServerTypes' /\ MainTypes'
  <2>1. \A s \in Servers : Live(s)' = Live(s)
    <3> SUFFICES ASSUME NEW s \in Servers PROVE Live(s)' = Live(s)
      OBVIOUS
    <3>1. accepted' = accepted /\ \A c \in accepted[s] : c \in Conns /\ c[1] \in Workers
      BY <1>1, ConnFacts DEF TypeOK, handler
    <3>2. \A c \in accepted[s] : (pc'[c[1]] = "left" => <<"disconnected", c>> \in events'[s])
                             <=> (pc[c[1]] = "left" => <<"disconnected", c>> \in events[s])
      BY <1>2, <1>3, <3>1
    <3>3. QED
      BY <3>1, <3>2 DEF Live
  <2>2. AllLeft => AllLeft'
    BY <1>2 DEF AllLeft
  <2>3. QED
    BY <1>1, <2>1, <2>2, ServersKept
<1>11. QED
  BY <1>4, <1>5, <1>8, <1>9, <1>10, TypesStrictThen DEF IInv

-----------------------------------------------------------------------------
(* The steps of a storage node's threads.                                  *)

\* A step of one storage node's threads leaves the others' alone.
Elsewhere(s) ==
    \A t \in Servers \ {s} :
        /\ events'[t] = events[t] /\ accepted'[t] = accepted[t] /\ typed'[t] = typed[t]
        /\ hpc'[t] = hpc[t] /\ current'[t] = current[t] /\ incomingIds'[t] = incomingIds[t]
        /\ numberConnections'[t] = numberConnections[t]
        /\ numberConnectionsEstablished'[t] = numberConnectionsEstablished[t]
        /\ mpc'[t] = mpc[t] /\ wave'[t] = wave[t]
        /\ rdmaCtxs'[t] = rdmaCtxs[t] /\ served'[t] = served[t]

LEMMA HandlerElsewhere ==
    ASSUME TypeOK, NEW s \in Servers, HandlerStep(s)
    PROVE  Elsewhere(s) /\ UNCHANGED <<variant, client, main>>
<1>1. CASE HandleRequest(s)
  BY <1>1 DEF HandleRequest, HGoto, GetEvent, Elsewhere, main
<1>2. CASE PushContext(s)
  BY <1>2 DEF PushContext, HGoto, Elsewhere, main
<1>3. CASE HandleEstablished(s)
  BY <1>3 DEF HandleEstablished, HGoto, GetEvent, Elsewhere, main
<1>4. CASE HandlerPoll(s)
  BY <1>4 DEF HandlerPoll, Elsewhere, handler, main
<1>5. CASE Established(s)
  BY <1>5 DEF Established, HGoto, Elsewhere, main
<1>6. CASE HandleDisconnected(s)
  BY <1>6 DEF HandleDisconnected, HGoto, GetEvent, Elsewhere, main
<1>7. CASE Disconnected(s)
  BY <1>7 DEF Disconnected, HGoto, Elsewhere, main
<1>8. QED
  BY <1>1, <1>2, <1>3, <1>4, <1>5, <1>6, <1>7 DEF HandlerStep

LEMMA MainElsewhere ==
    ASSUME TypeOK, NEW s \in Servers, MainStep(s)
    PROVE  /\ Elsewhere(s) /\ UNCHANGED <<variant, client, events, accepted, current, typed>>
           /\ UNCHANGED <<numberConnections, numberConnectionsEstablished, incomingIds>>
<1>1. CASE Start(s)
  BY <1>1 DEF Start, MGoto, HGoto, Elsewhere
<1>2. CASE AllConnected(s)
  BY <1>2 DEF AllConnected, MGoto, Elsewhere, handler
<1>3. CASE CopyContexts(s)
  BY <1>3 DEF CopyContexts, MGoto, Elsewhere, handler
<1>4. CASE ServeSend(s)
  BY <1>4 DEF ServeSend, MGoto, Elsewhere, handler
<1>5. CASE ServePoll(s)
  BY <1>5 DEF ServePoll, Elsewhere, handler, main
<1>6. CASE ServeNext(s)
  BY <1>6 DEF ServeNext, MGoto, Elsewhere, handler
<1>7. CASE ServeEnd(s)
  BY <1>7 DEF ServeEnd, MGoto, Elsewhere, handler
<1>8. CASE AllGone(s)
  BY <1>8 DEF AllGone, MGoto, Elsewhere, handler
<1>9. CASE Destroy(s)
  BY <1>9 DEF Destroy, MGoto, Elsewhere, handler
<1>10. CASE Join(s)
  BY <1>10 DEF Join, MGoto, Elsewhere, handler
<1>11. QED
  BY <1>1, <1>2, <1>3, <1>4, <1>5, <1>6, <1>7, <1>8, <1>9, <1>10 DEF MainStep

\* The workers stay where they are.
LEMMA StandsKept ==
    ASSUME UNCHANGED <<variant, client>>
    PROVE  /\ \A s, c : Stand(s, c)' = Stand(s, c)
           /\ AllLeft' = AllLeft /\ pc' = pc
<1>1. \A r : LastOf(r)' = LastOf(r)
  BY VariantKept
<1>2. QED
  BY <1>1 DEF Stand, AllLeft, client

\* What there is to show of such a step.
LEMMA ServerInv ==
    ASSUME IInv, NEW s \in Servers, Elsewhere(s), UNCHANGED <<variant, client>>,
           sent' \in [Ends -> Int], polled' \in [Ends -> Int],
           events' \in [Servers -> SUBSET ({"request", "established", "disconnected"} \X Conns)],
           ServerTypes', MainTypes',
           \A c \in Conns : EventOK(s, c)', HandlerOK(s)', NumbersOK(s)', MainOK(s)', EndsOK'
    PROVE  IInv'
<1>1. /\ \A t, c : Stand(t, c)' = Stand(t, c)
      /\ AllLeft' = AllLeft /\ pc' = pc
      /\ LastWave' = LastWave
  BY StandsKept, VariantKept
<1>2. WorkersOK'
  BY WorkersKept DEF IInv
<1>3. LooseTypes'
  <2>1. LooseTypes
    BY TypesLoose DEF IInv
  <2>2. QED
    BY <2>1 DEF LooseTypes, client
<1>4. ASSUME NEW t \in Servers, t # s
      PROVE  HandlerOK(t)' /\ NumbersOK(t)' /\ MainOK(t)' /\ \A c \in Conns : EventOK(t, c)'
  <2>1. /\ events'[t] = events[t] /\ accepted'[t] = accepted[t] /\ typed'[t] = typed[t]
        /\ hpc'[t] = hpc[t] /\ current'[t] = current[t] /\ incomingIds'[t] = incomingIds[t]
        /\ numberConnections'[t] = numberConnections[t]
        /\ numberConnectionsEstablished'[t] = numberConnectionsEstablished[t]
        /\ mpc'[t] = mpc[t] /\ wave'[t] = wave[t]
        /\ rdmaCtxs'[t] = rdmaCtxs[t] /\ served'[t] = served[t]
    BY <1>4 DEF Elsewhere
  <2>2. HandlerOK(t) /\ NumbersOK(t) /\ MainOK(t) /\ \A c \in Conns : EventOK(t, c)
    BY DEF IInv, HandlersOK, MainsOK, EventsOK
  <2>3. Live(t)' = Live(t) /\ Counted(t)' = Counted(t)
    <3>1. Live(t)' = Live(t)
      BY <1>1, <2>1 DEF Live
    <3>2. QED
      BY <2>1, <3>1 DEF Counted
  <2>4. HandlerOK(t)'
    BY <1>1, <2>1, <2>2, <2>3 DEF HandlerOK
  <2>5. NumbersOK(t)'
    BY <2>1, <2>2, <2>3 DEF NumbersOK
  <2>6. MainOK(t)'
    BY <1>1, <2>1, <2>2 DEF MainOK, Copied
  <2>7. ASSUME NEW c \in Conns PROVE EventOK(t, c)'
    <3>1. Answer(t, c)' = Answer(t, c)
      BY <2>1 DEF Answer, Answered
    <3>2. EventOK(t, c)
      BY <2>2
    <3>3. QED
      BY <1>1, <2>1, <3>1, <3>2 DEF EventOK
  <2>8. QED
    BY <2>4, <2>5, <2>6, <2>7
<1>5. EventsOK' /\ HandlersOK' /\ MainsOK'
  BY <1>4 DEF EventsOK, HandlersOK, MainsOK
<1>6. QED
  BY <1>2, <1>3, <1>5, TypesStrictThen DEF IInv

\* The storage node's end of one connection moves.
LEMMA AnswerStep ==
    ASSUME EndsOK, NEW s \in Servers, Elsewhere(s), UNCHANGED <<variant, client>>,
           NEW d \in Conns, NEW e, e = <<"server", s, d>>,
           \A c \in Conns \ {d} : Answer(s, c)' = Answer(s, c),
           \A x \in Ends \ {e} : sent'[x] = sent[x] /\ polled'[x] = polled[x],
           EndOK(Answer(s, d), sent[e], polled[e])', sent'[e] \in Int,
           sent'[e] >= sent[e], polled'[e] <= sent'[e] + sent[Peer(e)]
    PROVE  EndsOK'
<1>1. e \in Ends /\ Far(e)' = Answer(s, d)'
  BY EndFacts DEF Far
<1>2. \A t, c : Stand(t, c)' = Stand(t, c)
  BY StandsKept
<1>3. \A t \in Servers : \A c \in Conns : t # s \/ c # d => Answer(t, c)' = Answer(t, c)
  BY DEF Elsewhere, Answer, Answered
<1>4. \A x \in Ends \ {e} : Far(x)' = Far(x)
  BY <1>2, <1>3 DEF Far, Ends
<1>5. EndOK(Far(e), sent[e], polled[e])'
  BY <1>1 DEF EndOK
<1>6. QED
  BY <1>1, <1>4, <1>5, EndStep

\* Or none does.
LEMMA AnswersSame ==
    ASSUME EndsOK, NEW s \in Servers, Elsewhere(s), UNCHANGED <<variant, client, sent, polled>>,
           \A c \in Conns : Answer(s, c)' = Answer(s, c)
    PROVE  EndsOK'
<1>1. \A t, c : Stand(t, c)' = Stand(t, c)
  BY StandsKept
<1>2. \A t \in Servers : \A c \in Conns : Answer(t, c)' = Answer(t, c)
  BY DEF Elsewhere, Answer, Answered
<1>3. \A x \in Ends : Far(x)' = Far(x)
  BY <1>1, <1>2 DEF Far, Ends
<1>4. QED
  BY <1>3, EndsSame DEF qps

\* What the invariant says of one storage node.
LEMMA AtServer ==
    ASSUME IInv, NEW s \in Servers
    PROVE  /\ TypeOK /\ EndsOK /\ LooseTypes /\ ServerTypes /\ MainTypes
           /\ HandlerOK(s) /\ NumbersOK(s) /\ MainOK(s) /\ \A c \in Conns : EventOK(s, c)
           /\ \A c \in Conns : c \in typed[s] <=> Answer(s, c) >= 4
           /\ accepted[s] \subseteq Conns /\ typed[s] \subseteq accepted[s]
           /\ current[s] \in Conns /\ numberConnections[s] \in Int
           /\ numberConnectionsEstablished[s] \in Int
           /\ IsFiniteSet(Live(s)) /\ IsFiniteSet(Counted(s))
<1>1. /\ TypeOK /\ EndsOK /\ LooseTypes /\ ServerTypes /\ MainTypes
      /\ HandlerOK(s) /\ NumbersOK(s) /\ MainOK(s) /\ \A c \in Conns : EventOK(s, c)
  BY TypesLoose DEF IInv, HandlersOK, MainsOK, EventsOK
<1>2. /\ accepted[s] \subseteq Conns /\ current[s] \in Conns /\ numberConnections[s] \in Int
      /\ numberConnectionsEstablished[s] \in Int
  BY <1>1 DEF ServerTypes
<1>3. typed[s] \subseteq accepted[s]
  BY <1>1 DEF HandlerOK
<1>4. Live(s) \subseteq Conns /\ Counted(s) \subseteq Conns
  BY <1>2, <1>3 DEF Live, Counted
<1>5. IsFiniteSet(Live(s)) /\ IsFiniteSet(Counted(s))
  BY <1>4, ConnFacts, FS_Subset
<1>6. \A c \in Conns : c \in typed[s] <=> Answer(s, c) >= 4
  BY <1>1, AnswerFacts
<1>7. QED
  BY <1>1, <1>2, <1>3, <1>5, <1>6

\* A connection of a worker that has left is one that main has answered.
LEMMA GoneTyped ==
    ASSUME IInv, NEW s \in Servers, NEW c \in accepted[s], pc[c[1]] = "left"
    PROVE  /\ c \in typed[s] /\ c \in ToSet(rdmaCtxs[s]) /\ c \in ToSet(incomingIds[s])
           /\ ToSet(rdmaCtxs[s]) = Workers \X (1 .. LastWave)
           /\ ToSet(rdmaCtxs[s]) \subseteq ToSet(incomingIds[s])
<1>1. c \in Conns /\ c[1] \in Workers /\ EventOK(s, c) /\ MainOK(s) /\ TypeOK
  BY AtServer, ConnFacts
<1>2. Stand(s, c) >= 1 /\ round[c[1]] = LastRound
  BY <1>1 DEF EventOK, IInv, WorkersOK, WorkerOK
<1>3. c \in ToSet(rdmaCtxs[s]) /\ ToSet(rdmaCtxs[s]) = Workers \X (1 .. LastWave)
  BY <1>1, <1>2, Parting
<1>4. ToSet(rdmaCtxs[s]) \subseteq ToSet(incomingIds[s])
  BY <1>1, AnswerFacts
<1>5. QED
  BY <1>1, <1>3, <1>4 DEF MainOK

\* HandleRequest: one connection more, whose worker is waiting for it.
LEMMA HandleRequestInv ==
    ASSUME IInv, NEW s \in Servers, HandleRequest(s)
    PROVE  IInv'
<1>1. /\ TypeOK /\ EndsOK /\ LooseTypes /\ ServerTypes /\ MainTypes
      /\ HandlerOK(s) /\ NumbersOK(s) /\ MainOK(s) /\ \A c \in Conns : EventOK(s, c)
      /\ accepted[s] \subseteq Conns /\ typed[s] \subseteq accepted[s]
      /\ IsFiniteSet(Live(s)) /\ numberConnections[s] \in Int
  BY AtServer
<1>2. Elsewhere(s) /\ UNCHANGED <<variant, client, main>>
  BY <1>1, HandlerElsewhere DEF HandlerStep
<1>3. PICK d \in Conns :
         /\ <<"request", d>> \in events[s]
         /\ events' = [events EXCEPT ![s] = @ \ {<<"request", d>>}]
         /\ current' = [current EXCEPT ![s] = d]
         /\ accepted' = [accepted EXCEPT ![s] = @ \union {d}]
  BY DEF HandleRequest, GetEvent
<1>4. /\ UNCHANGED <<sent, polled, numberConnectionsEstablished, incomingIds, typed>>
      /\ numberConnections' = [numberConnections EXCEPT ![s] = @ + 1]
      /\ hpc[s] = "get" /\ hpc' = [hpc EXCEPT ![s] = "push"]
  BY DEF HandleRequest, HGoto, qps
<1>5. /\ accepted'[s] = accepted[s] \union {d} /\ current'[s] = d /\ hpc'[s] = "push"
      /\ numberConnections'[s] = numberConnections[s] + 1
      /\ \A k, c : <<k, c>> \in events'[s] <=> <<k, c>> \in events[s] /\ ~(k = "request" /\ c = d)
  BY <1>1, <1>3, <1>4 DEF TypeOK
<1>6. UNCHANGED <<pc, mpc, wave, rdmaCtxs, served>>
  BY <1>2 DEF client, main
<1>7. Stand(s, d) = 1 /\ d \notin accepted[s] /\ d \notin typed[s] /\ pc[d[1]] # "left"
  <2>1. Stand(s, d) = 1 /\ d \notin accepted[s]
    BY <1>1, <1>3 DEF EventOK
  <2>2. pc[d[1]] # "left"
    BY <2>1, ReadyStand DEF IInv
  <2>3. QED
    BY <1>1, <2>1, <2>2
<1>8. /\ \A t, c : Stand(t, c)' = Stand(t, c)
      /\ AllLeft' = AllLeft
  BY <1>2, StandsKept
<1>9. \A c \in Conns : Answer(s, c)' = Answer(s, c)
  BY <1>4, <1>5, <1>6 DEF Answer, Answered
<1>10. ServerTypes' /\ MainTypes'
  BY <1>1, <1>3, <1>4, <1>6 DEF ServerTypes, MainTypes
<1>11. events' \in [Servers -> SUBSET ({"request", "established", "disconnected"} \X Conns)]
  BY <1>1, <1>3 DEF TypeOK
<1>12. ASSUME NEW c \in Conns PROVE EventOK(s, c)'
  <2>1. EventOK(s, c) /\ EventOK(s, d)
    BY <1>1
  <2>2. CASE c = d
    BY <1>4, <1>5, <1>6, <1>7, <1>8, <1>9, <2>1, <2>2 DEF EventOK
  <2>3. CASE c # d
    BY <1>4, <1>5, <1>6, <1>8, <1>9, <2>1, <2>3 DEF EventOK
  <2>4. QED
    BY <2>2, <2>3
<1>13. HandlerOK(s)'
  BY <1>1, <1>4, <1>5, <1>6, <1>7, <1>8 DEF HandlerOK
<1>14. NumbersOK(s)'
  <2>1. Live(s)' = Live(s) \union {d} /\ d \notin Live(s)
    BY <1>5, <1>6, <1>7 DEF Live
  <2>2. Counted(s)' = Counted(s)
    BY <1>4, <1>5, <1>7, <2>1 DEF Counted
  <2>3. Cardinality(Live(s)') = Cardinality(Live(s)) + 1
    BY <1>1, <2>1, FS_AddElement
  <2>4. QED
    BY <1>1, <1>4, <1>5, <2>2, <2>3 DEF NumbersOK
<1>15. MainOK(s)'
  <2>1. LastWave' = LastWave
    BY <1>2, VariantKept
  <2>2. hpc[s] # "ended" /\ mpc[s] \notin {"destroy", "join", "done"}
    BY <1>1, <1>4 DEF MainOK
  <2>3. QED
    BY <1>1, <1>4, <1>6, <2>1, <2>2 DEF MainOK, Copied
<1>16. EndsOK'
  BY <1>1, <1>2, <1>4, <1>9, AnswersSame
<1>17. sent' \in [Ends -> Int] /\ polled' \in [Ends -> Int]
  BY <1>1, <1>4 DEF LooseTypes
<1>18. QED
  BY <1>2, <1>10, <1>11, <1>12, <1>13, <1>14, <1>15, <1>16, <1>17, ServerInv

\* What a handler is in the middle of accepting is a connection of a worker
\* that has not left, and so is one it exchanges RdmaInfo over.
LEMMA CurrentLives ==
    ASSUME IInv, NEW s \in Servers, hpc[s] \in {"push", "poll"}
    PROVE  /\ current[s] \in accepted[s] /\ current[s] \in Live(s) /\ pc[current[s][1]] # "left"
           /\ NextEvent(s, numberConnections[s]) = "get"
<1>1. current[s] \in accepted[s] /\ HandlerOK(s) /\ NumbersOK(s) /\ IsFiniteSet(Live(s))
  BY AtServer DEF HandlerOK
<1>2. pc[current[s][1]] # "left"
  BY <1>1, GoneTyped DEF HandlerOK
<1>3. current[s] \in Live(s)
  BY <1>1, <1>2 DEF Live
<1>4. Cardinality(Live(s)) # 0
  BY <1>1, <1>3, FS_EmptySet
<1>5. QED
  BY <1>1, <1>2, <1>3, <1>4 DEF NumbersOK, NextEvent

\* PushContext.
LEMMA PushContextInv ==
    ASSUME IInv, NEW s \in Servers, PushContext(s)
    PROVE  IInv'
<1>1. /\ TypeOK /\ EndsOK /\ LooseTypes /\ ServerTypes /\ MainTypes
      /\ HandlerOK(s) /\ NumbersOK(s) /\ MainOK(s) /\ \A c \in Conns : EventOK(s, c)
      /\ accepted[s] \subseteq Conns /\ typed[s] \subseteq accepted[s]
      /\ current[s] \in Conns
  BY AtServer
<1>2. Elsewhere(s) /\ UNCHANGED <<variant, client, main>>
  BY <1>1, HandlerElsewhere DEF HandlerStep
<1>3. /\ hpc[s] = "push" /\ hpc' = [hpc EXCEPT ![s] = "get"]
      /\ incomingIds' = [incomingIds EXCEPT ![s] = Append(@, current[s])]
      /\ UNCHANGED <<sent, polled, events, current, numberConnections,
                     numberConnectionsEstablished, typed, accepted>>
  BY CurrentLives DEF PushContext, HGoto, qps
<1>4. /\ incomingIds[s] \in Seq(Conns) /\ incomingIds'[s] = Append(incomingIds[s], current[s])
      /\ hpc'[s] = "get" /\ current[s] \in accepted[s] /\ current[s] \in Live(s)
  BY <1>1, <1>3, CurrentLives DEF TypeOK
<1>5. UNCHANGED <<pc, mpc, wave, rdmaCtxs, served>>
  BY <1>2 DEF client, main
<1>6. /\ \A t, c : Stand(t, c)' = Stand(t, c)
      /\ AllLeft' = AllLeft
  BY <1>2, StandsKept
<1>7. \A c \in Conns : Answer(s, c)' = Answer(s, c)
  BY <1>3, <1>4, <1>5 DEF Answer, Answered
<1>8. ServerTypes' /\ MainTypes'
  <2>1. incomingIds' \in [Servers -> Seq(Conns)]
    BY <1>1, <1>3 DEF ServerTypes
  <2>2. hpc' \in [Servers -> {"off", "get", "push", "poll", "disconnect", "ended"}]
    BY <1>1, <1>3 DEF ServerTypes
  <2>3. QED
    BY <1>1, <1>3, <1>5, <2>1, <2>2 DEF ServerTypes, MainTypes
<1>9. events' \in [Servers -> SUBSET ({"request", "established", "disconnected"} \X Conns)]
  BY <1>1, <1>3 DEF TypeOK
<1>10. ASSUME NEW c \in Conns PROVE EventOK(s, c)'
  BY <1>1, <1>3, <1>5, <1>6, <1>7 DEF EventOK
<1>11. Live(s)' = Live(s)
  BY <1>3, <1>5 DEF Live
<1>12. HandlerOK(s)'
  <2>1. ToSet(incomingIds[s]) = accepted[s] \ {current[s]} /\ IsInjective(incomingIds[s])
    BY <1>1, <1>3 DEF HandlerOK
  <2>2. /\ Len(incomingIds[s]) \in Nat /\ Len(incomingIds'[s]) = Len(incomingIds[s]) + 1
        /\ \A i \in 1 .. Len(incomingIds[s]) : incomingIds'[s][i] = incomingIds[s][i]
        /\ incomingIds'[s][Len(incomingIds[s]) + 1] = current[s]
    BY <1>1, <1>4
  <2>3. /\ \A i \in 1 .. Len(incomingIds[s]) : incomingIds[s][i] # current[s]
        /\ \A i, j \in 1 .. Len(incomingIds[s]) : incomingIds[s][i] = incomingIds[s][j] => i = j
    <3>1. \A i \in 1 .. Len(incomingIds[s]) : incomingIds[s][i] \in ToSet(incomingIds[s])
      BY <1>4 DEF ToSet
    <3>2. QED
      BY <1>4, <2>1, <3>1 DEF IsInjective
  <2>4. IsInjective(incomingIds'[s])
    <3>1. DOMAIN incomingIds'[s] = 1 .. Len(incomingIds[s]) + 1
      BY <1>4, <2>2
    <3>2. QED
      BY <2>2, <2>3, <3>1 DEF IsInjective
  <2>5. ToSet(incomingIds'[s]) = accepted[s]
    <3>1. ToSet(incomingIds'[s]) = {incomingIds'[s][i] : i \in 1 .. Len(incomingIds[s]) + 1}
      BY <1>4, <2>2 DEF ToSet
    <3>2. ToSet(incomingIds[s]) = {incomingIds[s][i] : i \in 1 .. Len(incomingIds[s])}
      BY <1>4 DEF ToSet
    <3>3. ToSet(incomingIds'[s]) = ToSet(incomingIds[s]) \union {current[s]}
      BY <2>2, <3>1, <3>2
    <3>4. QED
      BY <1>4, <2>1, <3>3
  <2>6. QED
    BY <1>1, <1>3, <1>4, <1>5, <1>6, <1>11, <2>4, <2>5 DEF HandlerOK
<1>13. NumbersOK(s)'
  <2>1. Counted(s)' = Counted(s)
    BY <1>3, <1>4, <1>11 DEF Counted
  <2>2. QED
    BY <1>1, <1>3, <1>11, <2>1 DEF NumbersOK
<1>14. MainOK(s)'
  <2>1. LastWave' = LastWave
    BY <1>2, VariantKept
  <2>2. hpc[s] # "ended" /\ mpc[s] \notin {"destroy", "join", "done"}
    BY <1>1, <1>3 DEF MainOK
  <2>3. /\ Len(rdmaCtxs[s]) <= Len(incomingIds'[s]) /\ Len(rdmaCtxs[s]) \in Nat
        /\ \A i \in 1 .. Len(rdmaCtxs[s]) : rdmaCtxs[s][i] = incomingIds'[s][i]
    <3>1. /\ Len(incomingIds[s]) \in Nat /\ Len(incomingIds'[s]) = Len(incomingIds[s]) + 1
          /\ \A i \in 1 .. Len(incomingIds[s]) : incomingIds'[s][i] = incomingIds[s][i]
          /\ Len(rdmaCtxs[s]) \in Nat
      BY <1>1, <1>4 DEF TypeOK
    <3>2. QED
      BY <1>1, <3>1 DEF MainOK
  <2>4. QED
    BY <1>1, <1>3, <1>5, <2>1, <2>2, <2>3 DEF MainOK, Copied
<1>15. EndsOK'
  BY <1>1, <1>2, <1>3, <1>7, AnswersSame
<1>16. sent' \in [Ends -> Int] /\ polled' \in [Ends -> Int]
  BY <1>1, <1>3 DEF LooseTypes
<1>17. QED
  BY <1>2, <1>8, <1>9, <1>10, <1>12, <1>13, <1>14, <1>15, <1>16, ServerInv

\* HandleEstablished: the handler begins its exchange.
LEMMA HandleEstablishedInv ==
    ASSUME IInv, NEW s \in Servers, HandleEstablished(s)
    PROVE  IInv'
<1>1. /\ TypeOK /\ EndsOK /\ LooseTypes /\ ServerTypes /\ MainTypes
      /\ HandlerOK(s) /\ NumbersOK(s) /\ MainOK(s) /\ \A c \in Conns : EventOK(s, c)
      /\ accepted[s] \subseteq Conns /\ typed[s] \subseteq accepted[s]
      /\ \A c \in Conns : c \in typed[s] <=> Answer(s, c) >= 4
  BY AtServer
<1>2. Elsewhere(s) /\ UNCHANGED <<variant, client, main>>
  BY <1>1, HandlerElsewhere DEF HandlerStep
<1>3. PICK d \in Conns :
         /\ <<"established", d>> \in events[s]
         /\ events' = [events EXCEPT ![s] = @ \ {<<"established", d>>}]
         /\ current' = [current EXCEPT ![s] = d]
         /\ sent' = [sent EXCEPT ![<<"server", s, d>>] = @ + 1]
  BY DEF HandleEstablished, GetEvent, PostSend
<1>4. /\ UNCHANGED <<polled, numberConnections, numberConnectionsEstablished, incomingIds,
                     typed, accepted>>
      /\ hpc[s] = "get" /\ hpc' = [hpc EXCEPT ![s] = "poll"]
  BY DEF HandleEstablished, HGoto, PostSend
<1>5. /\ current'[s] = d /\ hpc'[s] = "poll"
      /\ \A k, c : <<k, c>> \in events'[s] <=> <<k, c>> \in events[s] /\ ~(k = "established" /\ c = d)
  BY <1>1, <1>3, <1>4 DEF TypeOK
<1>6. UNCHANGED <<pc, mpc, wave, rdmaCtxs, served>>
  BY <1>2 DEF client, main
<1>7. /\ Stand(s, d) >= 2 /\ Answer(s, d) = 0 /\ d \in accepted[s] /\ d \notin typed[s]
      /\ <<"request", d>> \notin events[s]
  <2>1. Stand(s, d) >= 2 /\ Answer(s, d) = 0 /\ d \in accepted[s]
    BY <1>1, <1>3 DEF EventOK
  <2>2. <<"request", d>> \notin events[s]
    BY <1>1, <2>1 DEF EventOK
  <2>3. QED
    BY <1>1, <2>1, <2>2
<1>8. /\ \A t, c : Stand(t, c)' = Stand(t, c)
      /\ AllLeft' = AllLeft
  BY <1>2, StandsKept
<1>9. /\ \A c \in Conns \ {d} : Answer(s, c)' = Answer(s, c)
      /\ Answer(s, d)' = 3
  <2>1. \A c \in Conns \ {d} : Answer(s, c)' = Answer(s, c)
    BY <1>4, <1>5, <1>6 DEF Answer, Answered
  <2>2. d \notin Answered(s) /\ ~(mpc[s] = "poll" /\ d = rdmaCtxs[s][served[s] + 1])
    BY <1>7 DEF Answer
  <2>3. Answer(s, d)' = 3
    BY <1>4, <1>5, <1>6, <1>7, <2>2 DEF Answer, Answered
  <2>4. QED
    BY <2>1, <2>3
<1>10. ServerTypes' /\ MainTypes'
  BY <1>1, <1>3, <1>4, <1>6 DEF ServerTypes, MainTypes
<1>11. events' \in [Servers -> SUBSET ({"request", "established", "disconnected"} \X Conns)]
  BY <1>1, <1>3 DEF TypeOK
<1>12. ASSUME NEW c \in Conns PROVE EventOK(s, c)'
  <2>1. EventOK(s, c) /\ EventOK(s, d)
    BY <1>1
  <2>2. CASE c = d
    BY <1>4, <1>5, <1>6, <1>7, <1>8, <1>9, <2>1, <2>2 DEF EventOK
  <2>3. CASE c # d
    BY <1>4, <1>5, <1>6, <1>8, <1>9, <2>1, <2>3 DEF EventOK
  <2>4. QED
    BY <2>2, <2>3
<1>13. Live(s)' = Live(s)
  BY <1>4, <1>5, <1>6 DEF Live
<1>14. HandlerOK(s)'
  BY <1>1, <1>4, <1>5, <1>6, <1>7, <1>8, <1>13 DEF HandlerOK
<1>15. NumbersOK(s)'
  <2>1. Counted(s)' = Counted(s)
    BY <1>4, <1>5, <1>13 DEF Counted
  <2>2. QED
    BY <1>1, <1>4, <1>13, <2>1 DEF NumbersOK
<1>16. MainOK(s)'
  <2>1. LastWave' = LastWave
    BY <1>2, VariantKept
  <2>2. hpc[s] # "ended" /\ mpc[s] \notin {"destroy", "join", "done"}
    BY <1>1, <1>4 DEF MainOK
  <2>3. QED
    BY <1>1, <1>4, <1>6, <2>1, <2>2 DEF MainOK, Copied
<1>17. PICK e \in Ends : e = <<"server", s, d>>
  BY EndFacts
<1>18. /\ EndOK(0, sent[e], polled[e]) /\ polled[e] <= sent[e] + sent[Peer(e)]
       /\ sent[e] \in 0 .. 2 /\ sent[Peer(e)] \in 0 .. 2
  <2>1. Far(e) = 0 /\ Peer(e) \in Ends
    BY <1>7, <1>17, EndFacts
  <2>2. QED
    BY <1>1, <2>1, EndsTyped DEF EndsOK
<1>19. /\ sent' \in [Ends -> Int] /\ polled' \in [Ends -> Int] /\ sent'[e] = sent[e] + 1
       /\ \A x \in Ends \ {e} : sent'[x] = sent[x] /\ polled'[x] = polled[x]
       /\ polled'[e] = polled[e]
  BY <1>1, <1>3, <1>4, <1>17 DEF LooseTypes
<1>20. EndsOK'
  <2>1. EndOK(Answer(s, d), sent[e], polled[e])'
    BY <1>9, <1>18, <1>19 DEF EndOK
  <2>2. sent'[e] \in Int /\ sent'[e] >= sent[e] /\ polled'[e] <= sent'[e] + sent[Peer(e)]
    BY <1>18, <1>19 DEF EndOK
  <2>3. QED
    BY <1>1, <1>2, <1>9, <1>17, <1>19, <2>1, <2>2, AnswerStep
<1>21. QED
  BY <1>2, <1>10, <1>11, <1>12, <1>14, <1>15, <1>16, <1>19, <1>20, ServerInv

\* The end a handler is busy with.
LEMMA HandlerEnd ==
    ASSUME IInv, NEW s \in Servers, hpc[s] = "poll"
    PROVE  /\ Theirs(s) = <<"server", s, current[s]>> /\ Theirs(s) \in Ends
           /\ Answer(s, current[s]) = 3 /\ current[s] \in accepted[s] /\ current[s] \notin typed[s]
           /\ EndOK(3, sent[Theirs(s)], polled[Theirs(s)])
           /\ polled[Theirs(s)] <= sent[Theirs(s)] + sent[Peer(Theirs(s))]
           /\ sent[Theirs(s)] \in 0 .. 2 /\ polled[Theirs(s)] \in 0 .. 4
           /\ sent[Peer(Theirs(s))] \in 0 .. 2
<1>1. /\ TypeOK /\ EndsOK /\ HandlerOK(s) /\ current[s] \in Conns
      /\ \A c \in Conns : c \in typed[s] <=> Answer(s, c) >= 4
  BY AtServer
<1>2. current[s] \in accepted[s] /\ current[s] \notin typed[s]
  BY <1>1 DEF HandlerOK
<1>3. Answer(s, current[s]) = 3
  <2>1. ~(Answer(s, current[s]) >= 4)
    BY <1>1, <1>2
  <2>2. QED
    BY <1>2, <2>1 DEF Answer
<1>4. Theirs(s) = <<"server", s, current[s]>> /\ Theirs(s) \in Ends /\ Far(Theirs(s)) = 3
      /\ Peer(Theirs(s)) \in Ends
  BY <1>1, <1>3, EndFacts DEF Theirs
<1>5. QED
  BY <1>1, <1>2, <1>3, <1>4, EndsTyped DEF EndsOK

\* HandlerPoll: at most the two completions of the exchange.
LEMMA HandlerPollInv ==
    ASSUME IInv, NEW s \in Servers, HandlerPoll(s)
    PROVE  IInv'
<1>1. /\ TypeOK /\ EndsOK /\ LooseTypes /\ ServerTypes /\ MainTypes
      /\ HandlerOK(s) /\ NumbersOK(s) /\ MainOK(s) /\ \A c \in Conns : EventOK(s, c)
      /\ current[s] \in Conns
  BY AtServer
<1>2. /\ Elsewhere(s) /\ UNCHANGED <<variant, client, main, handler, events, sent>>
      /\ hpc[s] = "poll" /\ PollSome(Theirs(s), 1)
  BY <1>1, HandlerElsewhere DEF HandlerStep, HandlerPoll, PollSome
<1>3. /\ UNCHANGED <<pc, mpc, wave, rdmaCtxs, served, hpc, current, numberConnections>>
      /\ UNCHANGED <<numberConnectionsEstablished, incomingIds, typed, accepted>>
  BY <1>2 DEF client, main, handler
<1>4. PICK d \in Conns, e \in Ends :
         d = current[s] /\ e = <<"server", s, d>> /\ e = Theirs(s)
  BY <1>1, EndFacts DEF Theirs
<1>5. /\ \A t, c : Stand(t, c)' = Stand(t, c)
      /\ AllLeft' = AllLeft /\ LastWave' = LastWave
  BY <1>2, StandsKept, VariantKept
<1>6. \A c \in Conns : Answer(s, c)' = Answer(s, c)
  BY <1>2, AnswersKept
<1>7. /\ EndOK(3, sent[e], polled[e]) /\ sent[e] \in 0 .. 2 /\ polled[e] \in 0 .. 4
      /\ sent[Peer(e)] \in 0 .. 2 /\ Answer(s, d) = 3
  BY <1>2, <1>4, HandlerEnd
<1>8. /\ EndOK(3, sent'[e], polled'[e]) /\ polled'[e] <= sent'[e] + sent[Peer(e)]
      /\ polled' \in [Ends -> Int] /\ \A x \in Ends \ {e} : polled'[x] = polled[x]
  BY <1>1, <1>2, <1>4, <1>7, PollFacts
<1>9. EndsOK'
  <2>1. EndOK(Answer(s, d), sent[e], polled[e])'
    BY <1>6, <1>7, <1>8 DEF EndOK
  <2>2. \A x \in Ends \ {e} : sent'[x] = sent[x] /\ polled'[x] = polled[x]
    BY <1>2, <1>8
  <2>3. sent'[e] \in Int /\ sent'[e] >= sent[e]
    BY <1>2, <1>7
  <2>4. QED
    BY <1>1, <1>2, <1>4, <1>6, <1>8, <2>1, <2>2, <2>3, AnswerStep
<1>10. Live(s)' = Live(s) /\ Counted(s)' = Counted(s)
  BY <1>2, <1>3 DEF Live, Counted
<1>11. HandlerOK(s)' /\ NumbersOK(s)'
  BY <1>1, <1>3, <1>5, <1>10 DEF HandlerOK, NumbersOK
<1>12. MainOK(s)'
  BY <1>1, <1>3, <1>5 DEF MainOK, Copied
<1>13. \A c \in Conns : EventOK(s, c)'
  BY <1>1, <1>2, <1>3, <1>5, <1>6 DEF EventOK
<1>14. /\ ServerTypes' /\ MainTypes' /\ sent' \in [Ends -> Int]
       /\ events' \in [Servers -> SUBSET ({"request", "established", "disconnected"} \X Conns)]
  BY <1>1, <1>2, <1>3 DEF ServerTypes, MainTypes, LooseTypes
<1>15. QED
  BY <1>2, <1>8, <1>9, <1>11, <1>12, <1>13, <1>14, ServerInv

\* Established: the handler is done with the connection, and counts it.
LEMMA EstablishedInv ==
    ASSUME IInv, NEW s \in Servers, Established(s)
    PROVE  IInv'
<1>1. /\ TypeOK /\ EndsOK /\ LooseTypes /\ ServerTypes /\ MainTypes
      /\ HandlerOK(s) /\ NumbersOK(s) /\ MainOK(s) /\ \A c \in Conns : EventOK(s, c)
      /\ current[s] \in Conns /\ typed[s] \subseteq accepted[s]
      /\ numberConnectionsEstablished[s] \in Int /\ IsFiniteSet(Counted(s))
  BY AtServer
<1>2. hpc[s] = "poll" /\ Exchanged(Theirs(s), 1)
  BY DEF Established, HGoto
<1>3. PICK d \in Conns, e \in Ends :
         d = current[s] /\ e = <<"server", s, d>> /\ e = Theirs(s)
  BY <1>1, EndFacts DEF Theirs
<1>4. /\ Elsewhere(s)
      /\ UNCHANGED <<variant, client, main, sent, polled, events, current, numberConnections,
                     incomingIds, accepted>>
      /\ hpc' = [hpc EXCEPT ![s] = "get"]
      /\ typed' = [typed EXCEPT ![s] = @ \union {d}]
      /\ numberConnectionsEstablished' = [numberConnectionsEstablished EXCEPT ![s] = @ + 1]
  BY <1>1, <1>2, <1>3, CurrentLives, HandlerElsewhere DEF HandlerStep, Established, HGoto, qps
<1>5. /\ hpc'[s] = "get" /\ typed'[s] = typed[s] \union {d}
      /\ numberConnectionsEstablished'[s] = numberConnectionsEstablished[s] + 1
      /\ UNCHANGED <<pc, mpc, wave, rdmaCtxs, served>>
  BY <1>1, <1>4 DEF TypeOK, client, main
<1>6. /\ \A t, c : Stand(t, c)' = Stand(t, c)
      /\ AllLeft' = AllLeft /\ LastWave' = LastWave
  BY <1>4, StandsKept, VariantKept
<1>7. /\ EndOK(3, sent[e], polled[e]) /\ sent[e] \in 0 .. 2 /\ polled[e] = 2
      /\ polled[e] <= sent[e] + sent[Peer(e)]
      /\ Answer(s, d) = 3 /\ d \in accepted[s] /\ d \notin typed[s] /\ d \in Live(s)
  BY <1>2, <1>3, HandlerEnd, CurrentLives DEF Exchanged
<1>8. /\ \A c \in Conns \ {d} : Answer(s, c)' = Answer(s, c)
      /\ Answer(s, d)' = 4
  <2>1. \A c \in Conns \ {d} : Answer(s, c)' = Answer(s, c)
    BY <1>3, <1>5 DEF Answer, Answered
  <2>2. d \notin Answered(s) /\ ~(mpc[s] = "poll" /\ d = rdmaCtxs[s][served[s] + 1])
    BY <1>7 DEF Answer
  <2>3. Answer(s, d)' = 4
    BY <1>5, <2>2 DEF Answer, Answered
  <2>4. QED
    BY <2>1, <2>3
<1>9. EndsOK'
  <2>1. EndOK(Answer(s, d), sent[e], polled[e])'
    BY <1>4, <1>7, <1>8 DEF EndOK
  <2>2. \A x \in Ends \ {e} : sent'[x] = sent[x] /\ polled'[x] = polled[x]
    BY <1>4
  <2>3. sent'[e] \in Int /\ sent'[e] >= sent[e] /\ polled'[e] <= sent'[e] + sent[Peer(e)]
    BY <1>4, <1>7
  <2>4. QED
    BY <1>1, <1>3, <1>4, <1>8, <2>1, <2>2, <2>3, AnswerStep
<1>10. Live(s)' = Live(s)
  BY <1>4, <1>5 DEF Live
<1>11. HandlerOK(s)'
  BY <1>1, <1>2, <1>4, <1>5, <1>6, <1>7, <1>10 DEF HandlerOK
<1>12. NumbersOK(s)'
  <2>1. Counted(s)' = Counted(s) \union {d} /\ d \notin Counted(s)
    BY <1>2, <1>4, <1>5, <1>7, <1>10 DEF Counted
  <2>2. Cardinality(Counted(s)') = Cardinality(Counted(s)) + 1
    BY <1>1, <2>1, FS_AddElement
  <2>3. QED
    BY <1>1, <1>4, <1>5, <1>10, <2>2 DEF NumbersOK
<1>13. MainOK(s)'
  <2>1. hpc[s] # "ended" /\ mpc[s] \notin {"destroy", "join", "done"}
    BY <1>1, <1>2 DEF MainOK
  <2>2. mpc[s] # "snapshot"
    <3> SUFFICES ASSUME mpc[s] = "snapshot" PROVE FALSE
      OBVIOUS
    <3>1. d \in Workers \X (1 .. wave[s])
      BY <1>7, Abreast
    <3>2. QED
      BY <1>1, <1>7, <3>1 DEF MainOK
  <2>3. QED
    BY <1>1, <1>4, <1>5, <1>6, <2>1, <2>2 DEF MainOK, Copied
<1>14. ASSUME NEW c \in Conns PROVE EventOK(s, c)'
  <2>1. EventOK(s, c) /\ EventOK(s, d)
    BY <1>1
  <2>2. CASE c = d
    BY <1>4, <1>5, <1>6, <1>7, <1>8, <2>1, <2>2 DEF EventOK
  <2>3. CASE c # d
    BY <1>4, <1>5, <1>6, <1>8, <2>1, <2>3 DEF EventOK
  <2>4. QED
    BY <2>2, <2>3
<1>15. /\ ServerTypes' /\ MainTypes' /\ sent' \in [Ends -> Int] /\ polled' \in [Ends -> Int]
       /\ events' \in [Servers -> SUBSET ({"request", "established", "disconnected"} \X Conns)]
  BY <1>1, <1>4, <1>5 DEF ServerTypes, MainTypes, LooseTypes
<1>16. QED
  BY <1>4, <1>9, <1>11, <1>12, <1>13, <1>14, <1>15, ServerInv

\* HandleDisconnected: the handler has seen that the connection's worker left.
LEMMA HandleDisconnectedInv ==
    ASSUME IInv, NEW s \in Servers, HandleDisconnected(s)
    PROVE  IInv'
<1>1. /\ TypeOK /\ EndsOK /\ LooseTypes /\ ServerTypes /\ MainTypes
      /\ HandlerOK(s) /\ NumbersOK(s) /\ MainOK(s) /\ \A c \in Conns : EventOK(s, c)
      /\ accepted[s] \subseteq Conns /\ typed[s] \subseteq accepted[s]
      /\ IsFiniteSet(Live(s)) /\ numberConnections[s] \in Int
  BY AtServer
<1>2. PICK d \in Conns :
         /\ <<"disconnected", d>> \in events[s]
         /\ events' = [events EXCEPT ![s] = @ \ {<<"disconnected", d>>}]
         /\ current' = [current EXCEPT ![s] = d]
  BY DEF HandleDisconnected, GetEvent
<1>3. /\ Elsewhere(s)
      /\ UNCHANGED <<variant, client, main, sent, polled, numberConnectionsEstablished,
                     incomingIds, typed, accepted>>
      /\ numberConnections' = [numberConnections EXCEPT ![s] = @ - 1]
      /\ hpc[s] = "get" /\ hpc' = [hpc EXCEPT ![s] = "disconnect"]
  BY <1>1, HandlerElsewhere DEF HandlerStep, HandleDisconnected, HGoto, qps
<1>4. /\ current'[s] = d /\ hpc'[s] = "disconnect"
      /\ numberConnections'[s] = numberConnections[s] - 1
      /\ \A k, c : <<k, c>> \in events'[s] <=> <<k, c>> \in events[s] /\ ~(k = "disconnected" /\ c = d)
      /\ UNCHANGED <<pc, mpc, wave, rdmaCtxs, served>>
  BY <1>1, <1>2, <1>3 DEF TypeOK, client, main
<1>5. pc[d[1]] = "left" /\ d \in typed[s] /\ d \in Live(s)
  BY <1>1, <1>2 DEF EventOK, Live
<1>6. /\ \A t, c : Stand(t, c)' = Stand(t, c)
      /\ AllLeft' = AllLeft /\ LastWave' = LastWave
  BY <1>3, StandsKept, VariantKept
<1>7. \A c \in Conns : Answer(s, c)' = Answer(s, c)
  BY <1>3, <1>4 DEF Answer, Answered
<1>8. ServerTypes' /\ MainTypes' /\ sent' \in [Ends -> Int] /\ polled' \in [Ends -> Int]
  BY <1>1, <1>2, <1>3, <1>4 DEF ServerTypes, MainTypes, LooseTypes
<1>9. events' \in [Servers -> SUBSET ({"request", "established", "disconnected"} \X Conns)]
  BY <1>1, <1>2 DEF TypeOK
<1>10. ASSUME NEW c \in Conns PROVE EventOK(s, c)'
  BY <1>1, <1>3, <1>4, <1>6, <1>7 DEF EventOK
<1>11. Live(s)' = Live(s) \ {d}
  BY <1>3, <1>4, <1>5 DEF Live
<1>12. HandlerOK(s)'
  BY <1>1, <1>3, <1>4, <1>5, <1>6, <1>11 DEF HandlerOK
<1>13. NumbersOK(s)'
  <2>1. Counted(s)' = Counted(s)
    BY <1>3, <1>4, <1>5, <1>11 DEF Counted
  <2>2. Cardinality(Live(s)') = Cardinality(Live(s)) - 1
    BY <1>1, <1>5, <1>11, FS_RemoveElement
  <2>3. QED
    BY <1>1, <1>3, <1>4, <2>1, <2>2 DEF NumbersOK
<1>14. MainOK(s)'
  <2>1. hpc[s] # "ended" /\ mpc[s] \notin {"destroy", "join", "done"}
    BY <1>1, <1>3 DEF MainOK
  <2>2. QED
    BY <1>1, <1>3, <1>4, <1>6, <2>1 DEF MainOK, Copied
<1>15. EndsOK'
  BY <1>1, <1>3, <1>7, AnswersSame
<1>16. QED
  BY <1>3, <1>8, <1>9, <1>10, <1>12, <1>13, <1>14, <1>15, ServerInv

\* A handler without a connection has seen every worker leave.
LEMMA NobodyLeft ==
    ASSUME IInv, NEW s \in Servers, accepted[s] # {}, Live(s) = {}
    PROVE  AllLeft
<1>1. HandlerOK(s) /\ typed[s] \subseteq accepted[s] /\ MainOK(s) /\ LastWave \in {1, 2}
  BY AtServer, VariantFacts DEF TypeOK
<1>2. \A c \in accepted[s] : pc[c[1]] = "left"
  BY DEF Live
<1>3. PICK d \in accepted[s] : TRUE
  OBVIOUS
<1>4. ToSet(rdmaCtxs[s]) = Workers \X (1 .. LastWave)
  BY <1>2, <1>3, GoneTyped
<1>5. ASSUME NEW w \in Workers PROVE pc[w] = "left"
  <2>1. <<w, 1>> \in ToSet(rdmaCtxs[s])
    BY <1>1, <1>4
  <2>2. <<w, 1>> \in accepted[s]
    BY <1>1, <2>1 DEF MainOK
  <2>3. QED
    BY <1>2, <2>2
<1>6. QED
  BY <1>5 DEF AllLeft

\* Disconnected: ... and counts it no more; without any the handler ends.
LEMMA DisconnectedInv ==
    ASSUME IInv, NEW s \in Servers, Disconnected(s)
    PROVE  IInv'
<1>1. /\ TypeOK /\ EndsOK /\ LooseTypes /\ ServerTypes /\ MainTypes
      /\ HandlerOK(s) /\ NumbersOK(s) /\ MainOK(s) /\ \A c \in Conns : EventOK(s, c)
      /\ current[s] \in Conns /\ typed[s] \subseteq accepted[s]
      /\ numberConnectionsEstablished[s] \in Int
      /\ IsFiniteSet(Counted(s)) /\ IsFiniteSet(Live(s))
  BY AtServer
<1>2. PICK d \in Conns : d = current[s]
  BY <1>1
<1>3. PICK h \in {"get", "ended"} : h = NextEvent(s, numberConnections[s])
  BY DEF NextEvent
<1>4. /\ Elsewhere(s)
      /\ UNCHANGED <<variant, client, main, sent, polled, events, current, numberConnections,
                     incomingIds, typed, accepted>>
      /\ hpc[s] = "disconnect" /\ hpc' = [hpc EXCEPT ![s] = h]
      /\ numberConnectionsEstablished' = [numberConnectionsEstablished EXCEPT ![s] = @ - 1]
  BY <1>1, <1>3, HandlerElsewhere DEF HandlerStep, Disconnected, HGoto, qps
<1>5. /\ hpc'[s] = h
      /\ numberConnectionsEstablished'[s] = numberConnectionsEstablished[s] - 1
      /\ UNCHANGED <<pc, mpc, wave, rdmaCtxs, served>>
  BY <1>1, <1>4 DEF TypeOK, client, main
<1>6. d \in typed[s] /\ d \notin Live(s) /\ d \in accepted[s]
  BY <1>1, <1>2, <1>4 DEF HandlerOK
<1>7. h = "ended" <=> Live(s) = {}
  BY <1>1, <1>3, FS_EmptySet DEF NumbersOK, NextEvent
<1>8. h = "ended" => AllLeft
  BY <1>6, <1>7, NobodyLeft
<1>9. /\ \A t, c : Stand(t, c)' = Stand(t, c)
      /\ AllLeft' = AllLeft /\ LastWave' = LastWave
  BY <1>4, StandsKept, VariantKept
<1>10. \A c \in Conns : Answer(s, c)' = Answer(s, c)
  BY <1>4, <1>5 DEF Answer, Answered
<1>11. Live(s)' = Live(s)
  BY <1>4, <1>5 DEF Live
<1>12. HandlerOK(s)'
  BY <1>1, <1>4, <1>5, <1>7, <1>8, <1>9, <1>11 DEF HandlerOK
<1>13. NumbersOK(s)'
  <2>1. Counted(s)' = Counted(s) \ {d} /\ d \in Counted(s)
    BY <1>2, <1>4, <1>5, <1>6, <1>11 DEF Counted
  <2>2. Cardinality(Counted(s)') = Cardinality(Counted(s)) - 1
    BY <1>1, <2>1, FS_RemoveElement
  <2>3. QED
    BY <1>1, <1>4, <1>5, <1>11, <2>2 DEF NumbersOK
<1>14. MainOK(s)'
  <2>1. hpc[s] # "ended" /\ mpc[s] \notin {"destroy", "join", "done"}
    BY <1>1, <1>4 DEF MainOK
  <2>2. QED
    BY <1>1, <1>4, <1>5, <1>9, <2>1 DEF MainOK, Copied
<1>15. \A c \in Conns : EventOK(s, c)'
  BY <1>1, <1>4, <1>5, <1>9, <1>10 DEF EventOK
<1>16. EndsOK'
  BY <1>1, <1>4, <1>10, AnswersSame
<1>17. /\ ServerTypes' /\ MainTypes' /\ sent' \in [Ends -> Int] /\ polled' \in [Ends -> Int]
       /\ events' \in [Servers -> SUBSET ({"request", "established", "disconnected"} \X Conns)]
  BY <1>1, <1>4, <1>5 DEF ServerTypes, MainTypes, LooseTypes
<1>18. QED
  BY <1>4, <1>12, <1>13, <1>14, <1>15, <1>16, <1>17, ServerInv

-----------------------------------------------------------------------------
(* The steps of main.                                                      *)

\* What there is to show of one that leaves the handler alone.
LEMMA MainInv ==
    ASSUME IInv, NEW s \in Servers, MainStep(s), UNCHANGED handler,
           mpc[s] # "off", mpc'[s] # "off", MainTypes', MainOK(s)', EndsOK',
           sent' \in [Ends -> Int], polled' \in [Ends -> Int],
           \A c \in Conns : Answer(s, c)' = 0 <=> Answer(s, c) = 0
    PROVE  IInv'
<1>1. /\ TypeOK /\ LooseTypes /\ ServerTypes
      /\ HandlerOK(s) /\ NumbersOK(s) /\ \A c \in Conns : EventOK(s, c)
  BY AtServer
<1>2. Elsewhere(s) /\ UNCHANGED <<variant, client, events>>
  BY <1>1, MainElsewhere
<1>3. UNCHANGED <<hpc, current, numberConnections, numberConnectionsEstablished, incomingIds,
                  typed, accepted>>
  BY DEF handler
<1>4. /\ \A t, c : Stand(t, c)' = Stand(t, c)
      /\ AllLeft' = AllLeft /\ pc' = pc
  BY <1>2, StandsKept
<1>5. Live(s)' = Live(s) /\ Counted(s)' = Counted(s)
  BY <1>2, <1>3, <1>4 DEF Live, Counted
<1>6. HandlerOK(s)' /\ NumbersOK(s)'
  BY <1>1, <1>3, <1>4, <1>5 DEF HandlerOK, NumbersOK
<1>7. \A c \in Conns : EventOK(s, c)'
  BY <1>1, <1>2, <1>3, <1>4 DEF EventOK
<1>8. /\ ServerTypes'
      /\ events' \in [Servers -> SUBSET ({"request", "established", "disconnected"} \X Conns)]
  BY <1>1, <1>2, <1>3 DEF ServerTypes, LooseTypes
<1>9. QED
  BY <1>2, <1>6, <1>7, <1>8, ServerInv

\* Start: there has been nothing yet.
LEMMA StartInv ==
    ASSUME IInv, NEW s \in Servers, Start(s)
    PROVE  IInv'
<1>1. /\ TypeOK /\ EndsOK /\ LooseTypes /\ ServerTypes /\ MainTypes
      /\ HandlerOK(s) /\ NumbersOK(s) /\ MainOK(s) /\ \A c \in Conns : EventOK(s, c)
  BY AtServer
<1>2. Elsewhere(s) /\ UNCHANGED <<variant, client>>
  BY <1>1, MainElsewhere DEF MainStep
<1>3. /\ UNCHANGED <<sent, polled, events, current, numberConnections,
                     numberConnectionsEstablished, incomingIds, typed, accepted, rdmaCtxs, served>>
      /\ mpc[s] = "off" /\ hpc[s] = "off" /\ mpc' = [mpc EXCEPT ![s] = "wait"]
      /\ hpc' = [hpc EXCEPT ![s] = "get"] /\ wave' = [wave EXCEPT ![s] = 1]
  BY DEF Start, MGoto, HGoto, qps
<1>4. mpc'[s] = "wait" /\ hpc'[s] = "get" /\ wave'[s] = 1 /\ wave[s] = 0 /\ accepted[s] = {}
  BY <1>1, <1>3 DEF TypeOK, MainOK, HandlerOK
<1>5. /\ \A t, c : Stand(t, c)' = Stand(t, c)
      /\ AllLeft' = AllLeft /\ LastWave' = LastWave /\ pc' = pc
  BY <1>2, StandsKept, VariantKept
<1>6. \A c \in Conns : Answer(s, c)' = Answer(s, c)
  BY <1>3, <1>4 DEF Answer, Answered
<1>7. Live(s)' = Live(s) /\ Counted(s)' = Counted(s)
  BY <1>3, <1>4, <1>5 DEF Live, Counted
<1>8. HandlerOK(s)' /\ NumbersOK(s)'
  BY <1>1, <1>3, <1>4, <1>5, <1>7 DEF HandlerOK, NumbersOK
<1>9. MainOK(s)'
  <2>1. LastWave \in {1, 2}
    BY <1>1, VariantFacts DEF TypeOK
  <2>2. Copied(s) = -1 /\ Copied(s)' = 0 /\ 1 .. -1 = 1 .. 0
    BY <1>3, <1>4 DEF Copied
  <2>3. QED
    BY <1>1, <1>3, <1>4, <1>5, <2>1, <2>2 DEF MainOK
<1>10. \A c \in Conns : EventOK(s, c)'
  BY <1>1, <1>3, <1>5, <1>6 DEF EventOK
<1>11. EndsOK'
  BY <1>1, <1>2, <1>3, <1>6, AnswersSame
<1>12. /\ ServerTypes' /\ MainTypes' /\ sent' \in [Ends -> Int] /\ polled' \in [Ends -> Int]
       /\ events' \in [Servers -> SUBSET ({"request", "established", "disconnected"} \X Conns)]
  BY <1>1, <1>3 DEF ServerTypes, MainTypes, LooseTypes
<1>13. QED
  BY <1>2, <1>8, <1>9, <1>10, <1>11, <1>12, ServerInv

\* AllConnected: while main waits nobody has left, so the number it sees is
\* that of the connections of these waves, and each of them is there.
LEMMA Complete ==
    ASSUME IInv, NEW s \in Servers, mpc[s] = "wait",
           numberConnectionsEstablished[s] = NumConnections(s)
    PROVE  typed[s] = Workers \X (1 .. wave[s])
<1>1. /\ TypeOK /\ HandlerOK(s) /\ NumbersOK(s) /\ MainOK(s) /\ \A c \in Conns : EventOK(s, c)
      /\ accepted[s] \subseteq Conns /\ typed[s] \subseteq accepted[s]
      /\ wave[s] \in Nat
  <2>1. wave[s] \in 0 .. 2
    BY AtServer DEF MainTypes
  <2>2. QED
    BY <2>1, AtServer
<1>2. \A c \in accepted[s] : pc[c[1]] # "left"
  <2> SUFFICES ASSUME NEW c \in accepted[s], pc[c[1]] = "left" PROVE FALSE
    OBVIOUS
  <2>1. c \in Conns /\ c[1] \in Workers /\ Stand(s, c) >= 1
    BY <1>1, ConnFacts DEF EventOK
  <2>2. round[c[1]] = LastRound
    BY <2>1 DEF IInv, WorkersOK, WorkerOK
  <2>3. QED
    BY <2>1, <2>2, Parting
<1>3. Counted(s) = typed[s]
  BY <1>1, <1>2 DEF Counted, Live
<1> DEFINE All == Workers \X (1 .. wave[s])
<1>4. typed[s] \subseteq All
  BY <1>1, Abreast
<1>5. IsFiniteSet(All) /\ Cardinality(All) = Cardinality(Workers) * wave[s]
  <2>1. IsFiniteSet(1 .. wave[s]) /\ Cardinality(1 .. wave[s]) = wave[s]
    BY <1>1, FS_Interval
  <2>2. QED
    BY <2>1, WorkersAssumption, FS_Product
<1>6. Cardinality(typed[s]) = Cardinality(All)
  BY <1>1, <1>3, <1>5 DEF NumbersOK, NumConnections
<1>7. QED
  BY <1>4, <1>5, <1>6, FS_Subset

LEMMA AllConnectedInv ==
    ASSUME IInv, NEW s \in Servers, AllConnected(s)
    PROVE  IInv'
<1>1. /\ TypeOK /\ EndsOK /\ LooseTypes /\ MainTypes /\ HandlerOK(s) /\ MainOK(s)
  BY AtServer
<1>2. MainStep(s) /\ Elsewhere(s) /\ UNCHANGED <<variant, client>>
  BY <1>1, MainElsewhere DEF MainStep
<1>3. /\ UNCHANGED <<sent, polled, events, handler, wave, rdmaCtxs, served>>
      /\ mpc[s] = "wait" /\ mpc' = [mpc EXCEPT ![s] = "snapshot"]
  BY DEF AllConnected, MGoto, qps
<1>4. mpc'[s] = "snapshot" /\ UNCHANGED <<typed, incomingIds, hpc, current>>
  BY <1>1, <1>3 DEF TypeOK, handler
<1>5. \A c \in Conns : Answer(s, c)' = Answer(s, c)
  BY <1>3, <1>4 DEF Answer, Answered
<1>6. MainOK(s)'
  <2>1. typed[s] = Workers \X (1 .. wave[s])
    BY <1>3, Complete DEF AllConnected
  <2>2. LastWave' = LastWave
    BY <1>2, VariantKept
  <2>3. QED
    BY <1>1, <1>3, <1>4, <2>1, <2>2 DEF MainOK, Copied
<1>7. EndsOK'
  BY <1>1, <1>2, <1>3, <1>5, AnswersSame
<1>8. MainTypes' /\ sent' \in [Ends -> Int] /\ polled' \in [Ends -> Int]
  BY <1>1, <1>3 DEF MainTypes, LooseTypes
<1>9. QED
  BY <1>2, <1>3, <1>4, <1>5, <1>6, <1>7, <1>8, MainInv

\* CopyContexts: and there is no other.
LEMMA CopyContextsInv ==
    ASSUME IInv, NEW s \in Servers, CopyContexts(s)
    PROVE  IInv'
<1>1. /\ TypeOK /\ EndsOK /\ LooseTypes /\ MainTypes /\ HandlerOK(s) /\ MainOK(s)
      /\ typed[s] \subseteq accepted[s]
  BY AtServer
<1>2. MainStep(s) /\ Elsewhere(s) /\ UNCHANGED <<variant, client>>
  BY <1>1, MainElsewhere DEF MainStep
<1>3. /\ UNCHANGED <<sent, polled, events, handler, wave, served>>
      /\ mpc[s] = "snapshot" /\ mpc' = [mpc EXCEPT ![s] = "serve"]
      /\ rdmaCtxs' = [rdmaCtxs EXCEPT ![s] = incomingIds[s]]
  BY DEF CopyContexts, MGoto, qps
<1>4. /\ mpc'[s] = "serve" /\ rdmaCtxs'[s] = incomingIds[s]
      /\ UNCHANGED <<typed, incomingIds, hpc, current>>
  BY <1>1, <1>3 DEF TypeOK, handler
<1>5. served[s] \in Nat /\ Len(rdmaCtxs[s]) \in Nat /\ Len(incomingIds[s]) \in Nat
  BY <1>1 DEF TypeOK
<1>6. served[s] <= Len(incomingIds[s])
      /\ \A i \in 1 .. served[s] : rdmaCtxs[s][i] = incomingIds[s][i]
  BY <1>1, <1>5 DEF MainOK
<1>7. \A c \in Conns : Answer(s, c)' = Answer(s, c)
  <2>1. Answered(s)' = Answered(s)
    BY <1>3, <1>4, <1>6 DEF Answered
  <2>2. QED
    BY <1>3, <1>4, <2>1 DEF Answer
<1>8. MainOK(s)'
  <2>1. ToSet(incomingIds[s]) = Workers \X (1 .. wave[s]) /\ typed[s] = Workers \X (1 .. wave[s])
    <3>1. typed[s] = Workers \X (1 .. wave[s]) /\ typed[s] \subseteq ToSet(incomingIds[s])
      BY <1>1, <1>3 DEF MainOK, HandlerOK
    <3>2. ToSet(incomingIds[s]) \subseteq accepted[s]
      BY <1>1 DEF HandlerOK
    <3>3. accepted[s] \subseteq Workers \X (1 .. wave[s])
      BY <1>3, Abreast
    <3>4. QED
      BY <3>1, <3>2, <3>3
  <2>2. LastWave' = LastWave
    BY <1>2, VariantKept
  <2>3. Copied(s)' = wave[s] /\ wave[s] # 0
    BY <1>1, <1>3, <1>4 DEF Copied, MainOK
  <2>4. QED
    BY <1>1, <1>3, <1>4, <1>5, <1>6, <2>1, <2>2, <2>3 DEF MainOK
<1>9. EndsOK'
  BY <1>1, <1>2, <1>3, <1>7, AnswersSame
<1>10. MainTypes' /\ sent' \in [Ends -> Int] /\ polled' \in [Ends -> Int]
  <2>1. rdmaCtxs' \in [Servers -> Seq(Conns)]
    BY <1>1, <1>3 DEF TypeOK
  <2>2. QED
    BY <1>1, <1>3, <2>1 DEF MainTypes, LooseTypes
<1>11. QED
  BY <1>2, <1>3, <1>4, <1>7, <1>8, <1>9, <1>10, MainInv

\* The connection main is serving, or serves next.
LEMMA ServingEnd ==
    ASSUME IInv, NEW s \in Servers, mpc[s] \in {"serve", "poll"}, served[s] < Len(rdmaCtxs[s])
    PROVE  \E d \in Conns, e \in Ends :
              /\ d = rdmaCtxs[s][served[s] + 1] /\ e = <<"server", s, d>> /\ e = Serving(s)
              /\ Answer(s, d) = IF mpc[s] = "poll" THEN 5 ELSE 4
              /\ d \notin Answered(s)
              /\ EndOK(Answer(s, d), sent[e], polled[e])
              /\ polled[e] <= sent[e] + sent[Peer(e)]
              /\ sent[e] \in 0 .. 2 /\ polled[e] \in 0 .. 4 /\ sent[Peer(e)] \in 0 .. 2
<1>1. /\ TypeOK /\ EndsOK /\ HandlerOK(s) /\ MainOK(s)
  BY AtServer
<1>2. /\ rdmaCtxs[s] \in Seq(Conns) /\ served[s] \in Nat /\ incomingIds[s] \in Seq(Conns)
      /\ Len(rdmaCtxs[s]) \in Nat /\ Len(incomingIds[s]) \in Nat
  BY <1>1 DEF TypeOK
<1>3. PICK d \in Conns : d = rdmaCtxs[s][served[s] + 1]
  BY <1>2
<1>4. PICK e \in Ends : e = <<"server", s, d>>
  BY EndFacts
<1>5. d \notin Answered(s)
  <2>1. \A i, j \in 1 .. Len(rdmaCtxs[s]) : rdmaCtxs[s][i] = rdmaCtxs[s][j] => i = j
    BY <1>1, CopyInjective
  <2>2. \A i \in 1 .. served[s] :
           i \in 1 .. Len(rdmaCtxs[s]) /\ served[s] + 1 \in 1 .. Len(rdmaCtxs[s]) /\ i # served[s] + 1
    BY <1>2
  <2>3. QED
    BY <1>3, <2>1, <2>2 DEF Answered
<1>6. d \in typed[s]
  <2>1. d \in ToSet(rdmaCtxs[s])
    BY <1>2, <1>3 DEF ToSet
  <2>2. QED
    BY <1>1, <2>1 DEF MainOK
<1>7. Answer(s, d) = IF mpc[s] = "poll" THEN 5 ELSE 4
  BY <1>3, <1>5, <1>6 DEF Answer
<1>8. Far(e) = Answer(s, d) /\ Peer(e) \in Ends /\ e = Serving(s)
  BY <1>3, <1>4, EndFacts DEF Serving
<1>9. /\ EndOK(Answer(s, d), sent[e], polled[e]) /\ polled[e] <= sent[e] + sent[Peer(e)]
      /\ sent[e] \in 0 .. 2 /\ polled[e] \in 0 .. 4 /\ sent[Peer(e)] \in 0 .. 2
  BY <1>1, <1>8, EndsTyped DEF EndsOK
<1>10. QED
  BY <1>3, <1>4, <1>5, <1>7, <1>8, <1>9

\* ServeSend.
LEMMA ServeSendInv ==
    ASSUME IInv, NEW s \in Servers, ServeSend(s)
    PROVE  IInv'
<1>1. TypeOK /\ EndsOK /\ LooseTypes /\ MainTypes /\ MainOK(s)
  BY AtServer
<1>2. MainStep(s) /\ Elsewhere(s) /\ UNCHANGED <<variant, client>>
  BY <1>1, MainElsewhere DEF MainStep
<1>3. mpc[s] = "serve" /\ served[s] < Len(rdmaCtxs[s])
  BY DEF ServeSend, MGoto
<1>4. PICK d \in Conns, e \in Ends :
         /\ d = rdmaCtxs[s][served[s] + 1] /\ e = <<"server", s, d>> /\ e = Serving(s)
         /\ Answer(s, d) = 4 /\ d \notin Answered(s)
         /\ EndOK(4, sent[e], polled[e]) /\ polled[e] <= sent[e] + sent[Peer(e)]
         /\ sent[e] \in 0 .. 2 /\ polled[e] \in 0 .. 4 /\ sent[Peer(e)] \in 0 .. 2
  <2>1. (IF mpc[s] = "poll" THEN 5 ELSE 4) = 4
    BY <1>3
  <2>2. QED
    BY <1>3, <2>1, ServingEnd
<1>5. /\ UNCHANGED <<polled, events, handler, wave, rdmaCtxs, served>>
      /\ mpc' = [mpc EXCEPT ![s] = "poll"] /\ sent' = [sent EXCEPT ![e] = @ + 1]
  BY <1>4 DEF ServeSend, MGoto, PostSend
<1>6. mpc'[s] = "poll" /\ UNCHANGED <<typed, incomingIds, hpc, current>>
  BY <1>1, <1>5 DEF TypeOK, handler
<1>7. /\ \A c \in Conns \ {d} : Answer(s, c)' = Answer(s, c)
      /\ Answer(s, d)' = 5
  BY <1>3, <1>4, <1>5, <1>6 DEF Answer, Answered
<1>8. /\ sent' \in [Ends -> Int] /\ polled' \in [Ends -> Int] /\ sent'[e] = sent[e] + 1
      /\ \A x \in Ends \ {e} : sent'[x] = sent[x] /\ polled'[x] = polled[x]
      /\ polled'[e] = polled[e] /\ MainTypes'
  <2>1. sent \in [Ends -> Int] /\ polled \in [Ends -> Int]
    BY <1>1 DEF LooseTypes
  <2>2. MainTypes'
    BY <1>1, <1>5 DEF MainTypes
  <2>3. QED
    BY <1>5, <2>1, <2>2
<1>9. EndsOK'
  <2>1. EndOK(Answer(s, d), sent[e], polled[e])'
    BY <1>4, <1>7, <1>8 DEF EndOK
  <2>2. sent'[e] \in Int /\ sent'[e] >= sent[e] /\ polled'[e] <= sent'[e] + sent[Peer(e)]
    BY <1>4, <1>8
  <2>3. QED
    BY <1>1, <1>2, <1>4, <1>7, <1>8, <2>1, <2>2, AnswerStep
<1>10. MainOK(s)'
  <2>1. LastWave' = LastWave
    BY <1>2, VariantKept
  <2>2. QED
    BY <1>1, <1>3, <1>5, <1>6, <2>1 DEF MainOK, Copied
<1>11. \A c \in Conns : Answer(s, c)' = 0 <=> Answer(s, c) = 0
  BY <1>4, <1>7
<1>12. QED
  BY <1>2, <1>3, <1>5, <1>6, <1>8, <1>9, <1>10, <1>11, MainInv

\* ServePoll: at most the two completions of the exchange.
LEMMA ServePollInv ==
    ASSUME IInv, NEW s \in Servers, ServePoll(s)
    PROVE  IInv'
<1>1. TypeOK /\ EndsOK /\ LooseTypes /\ MainTypes /\ MainOK(s)
  BY AtServer
<1>2. MainStep(s) /\ Elsewhere(s) /\ UNCHANGED <<variant, client>>
  BY <1>1, MainElsewhere DEF MainStep
<1>3. mpc[s] = "poll" /\ served[s] < Len(rdmaCtxs[s])
  BY <1>1 DEF ServePoll, MainOK
<1>4. PICK d \in Conns, e \in Ends :
         /\ d = rdmaCtxs[s][served[s] + 1] /\ e = <<"server", s, d>> /\ e = Serving(s)
         /\ Answer(s, d) = 5
         /\ EndOK(5, sent[e], polled[e])
         /\ sent[e] \in 0 .. 2 /\ polled[e] \in 0 .. 4 /\ sent[Peer(e)] \in 0 .. 2
  BY <1>3, ServingEnd
<1>5. UNCHANGED <<sent, events, handler, main>> /\ PollSome(e, 2)
  BY <1>4 DEF ServePoll, PollSome
<1>6. UNCHANGED <<typed, incomingIds, hpc, current, mpc, wave, rdmaCtxs, served>>
  BY <1>5 DEF handler, main
<1>7. \A c \in Conns : Answer(s, c)' = Answer(s, c)
  BY <1>5, AnswersKept
<1>8. /\ EndOK(5, sent'[e], polled'[e]) /\ polled'[e] <= sent'[e] + sent[Peer(e)]
      /\ polled' \in [Ends -> Int] /\ \A x \in Ends \ {e} : polled'[x] = polled[x]
  BY <1>1, <1>4, <1>5, PollFacts
<1>9. EndsOK'
  <2>1. EndOK(Answer(s, d), sent[e], polled[e])'
    BY <1>4, <1>7, <1>8 DEF EndOK
  <2>2. \A x \in Ends \ {e} : sent'[x] = sent[x] /\ polled'[x] = polled[x]
    BY <1>5, <1>8
  <2>3. sent'[e] \in Int /\ sent'[e] >= sent[e]
    BY <1>4, <1>5
  <2>4. QED
    BY <1>1, <1>2, <1>4, <1>7, <1>8, <2>1, <2>2, <2>3, AnswerStep
<1>10. MainOK(s)'
  <2>1. LastWave' = LastWave
    BY <1>2, VariantKept
  <2>2. QED
    BY <1>1, <1>6, <2>1 DEF MainOK, Copied
<1>11. MainTypes' /\ sent' \in [Ends -> Int]
  BY <1>1, <1>5, <1>6 DEF MainTypes, LooseTypes
<1>12. QED
  BY <1>2, <1>3, <1>5, <1>6, <1>7, <1>8, <1>9, <1>10, <1>11, MainInv

\* ServeNext.
LEMMA ServeNextInv ==
    ASSUME IInv, NEW s \in Servers, ServeNext(s)
    PROVE  IInv'
<1>1. TypeOK /\ EndsOK /\ LooseTypes /\ MainTypes /\ MainOK(s)
  BY AtServer
<1>2. MainStep(s) /\ Elsewhere(s) /\ UNCHANGED <<variant, client>>
  BY <1>1, MainElsewhere DEF MainStep
<1>3. mpc[s] = "poll" /\ served[s] < Len(rdmaCtxs[s])
  BY <1>1 DEF ServeNext, MGoto, MainOK
<1>4. PICK d \in Conns, e \in Ends :
         /\ d = rdmaCtxs[s][served[s] + 1] /\ e = <<"server", s, d>> /\ e = Serving(s)
         /\ Answer(s, d) = 5
         /\ EndOK(5, sent[e], polled[e]) /\ polled[e] <= sent[e] + sent[Peer(e)]
         /\ sent[e] \in 0 .. 2
  BY <1>3, ServingEnd
<1>5. /\ UNCHANGED <<sent, polled, events, handler, wave, rdmaCtxs>>
      /\ mpc' = [mpc EXCEPT ![s] = "serve"] /\ served' = [served EXCEPT ![s] = @ + 1]
      /\ polled[e] = 4
  BY <1>4 DEF ServeNext, MGoto, Exchanged, qps
<1>6. /\ mpc'[s] = "serve" /\ served'[s] = served[s] + 1 /\ served[s] \in Nat
      /\ Len(rdmaCtxs[s]) \in Nat /\ UNCHANGED <<typed, incomingIds, hpc, current>>
  BY <1>1, <1>5 DEF TypeOK, handler
<1>7. /\ \A c \in Conns \ {d} : Answer(s, c)' = Answer(s, c)
      /\ Answer(s, d)' = 6
  <2>1. Answered(s)' = Answered(s) \union {d}
    <3>1. 1 .. served[s] + 1 = (1 .. served[s]) \union {served[s] + 1}
      BY <1>6
    <3>2. Answered(s)' = {rdmaCtxs[s][i] : i \in 1 .. served[s] + 1}
      BY <1>5, <1>6 DEF Answered
    <3>3. QED
      BY <1>4, <3>1, <3>2 DEF Answered
  <2>2. QED
    BY <1>3, <1>4, <1>5, <1>6, <2>1 DEF Answer
<1>8. EndsOK'
  <2>1. EndOK(Answer(s, d), sent[e], polled[e])'
    BY <1>4, <1>5, <1>7 DEF EndOK
  <2>2. \A x \in Ends \ {e} : sent'[x] = sent[x] /\ polled'[x] = polled[x]
    BY <1>5
  <2>3. sent'[e] \in Int /\ sent'[e] >= sent[e] /\ polled'[e] <= sent'[e] + sent[Peer(e)]
    BY <1>4, <1>5
  <2>4. QED
    BY <1>1, <1>2, <1>4, <1>7, <2>1, <2>2, <2>3, AnswerStep
<1>9. MainOK(s)'
  <2>1. LastWave' = LastWave
    BY <1>2, VariantKept
  <2>2. QED
    BY <1>1, <1>3, <1>5, <1>6, <2>1 DEF MainOK, Copied
<1>10. MainTypes' /\ sent' \in [Ends -> Int] /\ polled' \in [Ends -> Int]
  <2>1. served' \in [Servers -> Nat]
    BY <1>1, <1>5 DEF MainTypes
  <2>2. QED
    BY <1>1, <1>5, <2>1 DEF MainTypes, LooseTypes
<1>11. \A c \in Conns : Answer(s, c)' = 0 <=> Answer(s, c) = 0
  BY <1>4, <1>7
<1>12. QED
  BY <1>2, <1>3, <1>5, <1>6, <1>8, <1>9, <1>10, <1>11, MainInv

\* ServeEnd: main waits for the next wave, or is done.
LEMMA ServeEndInv ==
    ASSUME IInv, NEW s \in Servers, ServeEnd(s)
    PROVE  IInv'
<1>1. TypeOK /\ EndsOK /\ LooseTypes /\ MainTypes /\ MainOK(s) /\ HandlerOK(s)
  BY AtServer
<1>2. MainStep(s) /\ Elsewhere(s) /\ UNCHANGED <<variant, client>>
  BY <1>1, MainElsewhere DEF MainStep
<1>3. wave[s] \in 0 .. 2 /\ LastWave \in {1, 2} /\ wave[s] <= LastWave /\ wave[s] # 0
      /\ served[s] = Len(rdmaCtxs[s]) /\ mpc[s] = "serve"
  BY <1>1, VariantFacts DEF ServeEnd, MGoto, MainOK, TypeOK
<1>4. PICK m \in {"wait", "run"}, v \in 0 .. 2 :
         /\ mpc' = [mpc EXCEPT ![s] = m] /\ wave' = [wave EXCEPT ![s] = v]
         /\ \/ m = "wait" /\ v = wave[s] + 1 /\ v <= LastWave
            \/ m = "run" /\ v = wave[s] /\ v = LastWave
  <2>1. CASE wave[s] < LastWave
    <3>1. mpc' = [mpc EXCEPT ![s] = "wait"] /\ wave' = [wave EXCEPT ![s] = wave[s] + 1]
      BY <2>1 DEF ServeEnd, MGoto
    <3>2. wave[s] + 1 \in 0 .. 2 /\ wave[s] + 1 <= LastWave
      BY <1>3, <2>1
    <3>3. QED
      BY <3>1, <3>2
  <2>2. CASE ~(wave[s] < LastWave)
    <3>1. mpc' = [mpc EXCEPT ![s] = "run"] /\ wave' = [wave EXCEPT ![s] = wave[s]]
      BY <2>2 DEF ServeEnd, MGoto
    <3>2. wave[s] = LastWave
      BY <1>3, <2>2
    <3>3. QED
      BY <1>3, <3>1, <3>2
  <2>3. QED
    BY <2>1, <2>2
<1>5. UNCHANGED <<sent, polled, events, handler, rdmaCtxs, served>>
  BY DEF ServeEnd, qps
<1>6. /\ mpc'[s] = m /\ wave'[s] = v /\ UNCHANGED <<typed, incomingIds, hpc, current>>
  BY <1>1, <1>4, <1>5 DEF TypeOK, handler
<1>7. \A c \in Conns : Answer(s, c)' = Answer(s, c)
  BY <1>3, <1>4, <1>5, <1>6 DEF Answer, Answered
<1>8. MainOK(s)'
  <2>1. LastWave' = LastWave
    BY <1>2, VariantKept
  <2>2. Copied(s) = wave[s] /\ Copied(s)' = wave[s]
    BY <1>3, <1>4, <1>6 DEF Copied
  <2>3. QED
    BY <1>1, <1>3, <1>4, <1>5, <1>6, <2>1, <2>2 DEF MainOK
<1>9. EndsOK'
  BY <1>1, <1>2, <1>5, <1>7, AnswersSame
<1>10. MainTypes' /\ sent' \in [Ends -> Int] /\ polled' \in [Ends -> Int]
  BY <1>1, <1>4, <1>5 DEF MainTypes, LooseTypes
<1>11. QED
  BY <1>2, <1>3, <1>4, <1>5, <1>6, <1>7, <1>8, <1>9, <1>10, MainInv

\* AllGone: when main has seen 0, the handler has nothing left to wait for.
LEMMA HandlerDone ==
    ASSUME IInv, NEW s \in Servers, mpc[s] = "run", numberConnectionsEstablished[s] = 0
    PROVE  hpc[s] = "ended"
<1>1. /\ TypeOK /\ HandlerOK(s) /\ NumbersOK(s) /\ MainOK(s) /\ IsFiniteSet(Counted(s))
      /\ accepted[s] \subseteq Conns /\ typed[s] \subseteq accepted[s]
  BY AtServer
<1>2. Counted(s) = {}
  BY <1>1, FS_EmptySet DEF NumbersOK
<1>3. \A c \in typed[s] : c \notin Live(s) /\ ~(hpc[s] = "disconnect" /\ c = current[s])
  BY <1>2 DEF Counted
<1>4. ASSUME NEW w \in Workers
      PROVE  <<w, 1>> \in typed[s] /\ pc[w] = "left"
  <2>1. LastWave \in {1, 2} /\ Copied(s) = LastWave
    BY <1>1, VariantFacts DEF TypeOK, MainOK, Copied
  <2>2. <<w, 1>> \in typed[s]
    BY <1>1, <2>1 DEF MainOK
  <2>3. pc[w] = "left"
    BY <1>1, <1>3, <2>2 DEF Live
  <2>4. QED
    BY <2>2, <2>3
<1>5. Live(s) = {}
  <2> SUFFICES ASSUME NEW c \in Live(s) PROVE FALSE
    OBVIOUS
  <2>1. c \in accepted[s] /\ pc[c[1]] = "left"
    BY <1>1, <1>4, ConnFacts DEF Live
  <2>2. QED
    BY <1>3, <2>1, GoneTyped
<1>6. accepted[s] # {}
  BY <1>1, <1>4, WorkersAssumption
<1>7. hpc[s] \notin {"off", "get"}
  BY <1>1, <1>5, <1>6 DEF HandlerOK
<1>8. hpc[s] \notin {"push", "poll"}
  BY <1>5, CurrentLives
<1>9. hpc[s] # "disconnect"
  BY <1>1, <1>3 DEF HandlerOK
<1>10. QED
  BY <1>1, <1>7, <1>8, <1>9 DEF TypeOK

\* AllGone, Destroy, Join.
LEMMA TeardownInv ==
    ASSUME IInv, NEW s \in Servers, AllGone(s) \/ Destroy(s) \/ Join(s)
    PROVE  IInv'
<1>1. TypeOK /\ EndsOK /\ LooseTypes /\ MainTypes /\ MainOK(s)
  BY AtServer
<1>2. MainStep(s) /\ Elsewhere(s) /\ UNCHANGED <<variant, client>>
  BY <1>1, MainElsewhere DEF MainStep
<1>3. PICK m \in {"destroy", "join", "done"} : mpc' = [mpc EXCEPT ![s] = m]
  BY DEF AllGone, Destroy, Join, MGoto
<1>4. /\ UNCHANGED <<sent, polled, events, handler, wave, rdmaCtxs, served>>
      /\ mpc[s] \in {"run", "destroy", "join"}
  BY DEF AllGone, Destroy, Join, MGoto, qps
<1>5. mpc'[s] = m /\ UNCHANGED <<typed, incomingIds, hpc, current>>
  BY <1>1, <1>3, <1>4 DEF TypeOK, handler
<1>6. hpc[s] = "ended"
  <2>1. CASE AllGone(s)
    BY <2>1, HandlerDone DEF AllGone, MGoto
  <2>2. CASE Destroy(s) \/ Join(s)
    BY <1>1, <2>2 DEF Destroy, Join, MGoto, MainOK
  <2>3. QED
    BY <2>1, <2>2
<1>7. \A c \in Conns : Answer(s, c)' = Answer(s, c)
  BY <1>3, <1>4, <1>5 DEF Answer, Answered
<1>8. MainOK(s)'
  <2>1. LastWave' = LastWave
    BY <1>2, VariantKept
  <2>2. QED
    BY <1>1, <1>3, <1>4, <1>5, <1>6, <2>1 DEF MainOK, Copied
<1>9. EndsOK'
  BY <1>1, <1>2, <1>4, <1>7, AnswersSame
<1>10. MainTypes' /\ sent' \in [Ends -> Int] /\ polled' \in [Ends -> Int]
  BY <1>1, <1>3, <1>4 DEF MainTypes, LooseTypes
<1>11. QED
  BY <1>2, <1>3, <1>4, <1>5, <1>7, <1>8, <1>9, <1>10, MainInv

-----------------------------------------------------------------------------
(* The theorems.                                                           *)

\* Every step of every process keeps the invariant.
LEMMA NextInv == IInv /\ [Next]_vars => IInv'
<1> SUFFICES ASSUME IInv, [Next]_vars PROVE IInv'
  OBVIOUS
<1>1. ASSUME NEW w \in Workers, WorkerStep(w) PROVE IInv'
  BY <1>1, QuietInv, ConnectInv, ConnectedInv, ClientSendInv, ClientPollInv, MovesOnInv
     DEF WorkerStep
<1>2. ASSUME NEW n \in Nodes, NodeStep(n) PROVE IInv'
  BY <1>2, NextStageInv, DisconnectInv DEF NodeStep
<1>3. ASSUME NEW s \in Servers, HandlerStep(s) PROVE IInv'
  BY <1>3, HandleRequestInv, PushContextInv, HandleEstablishedInv, HandlerPollInv,
     EstablishedInv, HandleDisconnectedInv, DisconnectedInv DEF HandlerStep
<1>4. ASSUME NEW s \in Servers, MainStep(s) PROVE IInv'
  BY <1>4, StartInv, AllConnectedInv, CopyContextsInv, ServeSendInv, ServePollInv,
     ServeNextInv, ServeEndInv, TeardownInv DEF MainStep
<1>5. CASE UNCHANGED vars
  <2>1. UNCHANGED <<variant, pc, round, server, phase, outgoingMut, sent, polled, events,
                    hpc, current, numberConnections, numberConnectionsEstablished,
                    incomingIds, typed, accepted, mpc, wave, rdmaCtxs, served>>
    BY <1>5 DEF vars, client, handler, main, qps
  <2>2. UNCHANGED <<variant, client, qps, events, handler, main>>
    BY <2>1 DEF client, handler, main, qps
  <2>3. LooseTypes'
    <3>1. LooseTypes
      BY TypesLoose DEF IInv
    <3>2. QED
      BY <2>1, <3>1 DEF LooseTypes
  <2>4. WorkersOK'
    BY <2>2, WorkersKept DEF IInv
  <2>5. /\ \A s, c : Stand(s, c)' = Stand(s, c)
        /\ AllLeft' = AllLeft
        /\ \A s, c : Answer(s, c)' = Answer(s, c)
    BY <2>2, StandsKept, AnswersKept
  <2>6. EndsOK'
    <3>1. \A e \in Ends : Far(e)' = Far(e)
      BY <2>5 DEF Far, Ends
    <3>2. QED
      BY <2>2, <3>1, EndsSame DEF IInv
  <2>7. EventsOK'
    BY <2>1, <2>5 DEF IInv, EventsOK, EventOK
  <2>8. HandlersOK' /\ MainsOK' /\ ServerTypes' /\ MainTypes'
    <3>1. \A s \in Servers : Live(s)' = Live(s)
      BY <2>1 DEF Live
    <3>2. QED
      BY <2>2, <2>5, <3>1, ServersKept
  <2>9. QED
    BY <2>3, <2>4, <2>6, <2>7, <2>8, TypesStrictThen DEF IInv
<1>6. QED
  BY <1>1, <1>2, <1>3, <1>4, <1>5 DEF Next

LEMMA Invariance == Spec => []IInv
BY InitInv, NextInv, PTL DEF Spec

\* Every variable of connection set-up and teardown keeps its type: an end sends
\* no more than its two messages, and numberConnections and
\* numberConnectionsEstablished, which the handler counts up and down, never
\* fall below 0 nor exceed the number of connections there can be.
THEOREM ConnectionTypeCorrect == Spec => []TypeOK
<1>1. IInv => TypeOK
  BY DEF IInv
<1>2. QED
  BY <1>1, Invariance, PTL

\* startAndConnect: whatever the workers' attempts and the events' order, and
\* whichever other connections are made at the same time, what main copies when
\* the number is right is every connection of the workers up to the wave, each
\* once and with its type, and the handler is done with all of them.
THEOREM ContextsAreComplete == Spec => []ContextsComplete
<1>1. IInv => ContextsComplete
  <2> SUFFICES ASSUME IInv, NEW s \in Servers, mpc[s] \in {"serve", "poll"}
               PROVE  /\ IsInjective(rdmaCtxs[s])
                      /\ ToSet(rdmaCtxs[s]) = Workers \X (1 .. wave[s])
                      /\ ToSet(rdmaCtxs[s]) \subseteq typed[s]
                      /\ hpc[s] = "poll" => current[s] \notin ToSet(rdmaCtxs[s])
    BY DEF ContextsComplete
  <2>1. TypeOK /\ HandlerOK(s) /\ MainOK(s)
    BY AtServer
  <2>2. IsInjective(rdmaCtxs[s])
    BY <2>1, CopyInjective
  <2>3. ToSet(rdmaCtxs[s]) = Workers \X (1 .. wave[s]) /\ ToSet(rdmaCtxs[s]) \subseteq typed[s]
    BY <2>1 DEF MainOK, Copied
  <2>4. hpc[s] = "poll" => current[s] \notin ToSet(rdmaCtxs[s])
    BY <2>1, <2>3 DEF HandlerOK
  <2>5. QED
    BY <2>2, <2>3, <2>4
<1>2. QED
  BY <1>1, Invariance, PTL

\* An end of a connection that main has answered over, or has yet to.
LEMMA ServedEnd ==
    ASSUME IInv, NEW s \in Servers, mpc[s] \in {"serve", "poll"},
           NEW i \in 1 .. Len(rdmaCtxs[s]), NEW e, e = <<"server", s, rdmaCtxs[s][i]>>
    PROVE  /\ i <= served[s] => polled[e] = 4 /\ sent[Peer(e)] = 2
           /\ i > served[s] + 1 => polled[e] = 2 /\ sent[Peer(e)] >= 1
<1>1. TypeOK /\ EndsOK /\ HandlerOK(s) /\ MainOK(s)
  BY AtServer
<1>2. /\ rdmaCtxs[s] \in Seq(Conns) /\ served[s] \in Nat /\ incomingIds[s] \in Seq(Conns)
      /\ Len(rdmaCtxs[s]) \in Nat /\ Len(incomingIds[s]) \in Nat
  BY <1>1 DEF TypeOK
<1>3. PICK d \in Conns : d = rdmaCtxs[s][i]
  BY <1>2
<1>4. /\ Far(e) = Answer(s, d) /\ e \in Ends /\ Peer(e) \in Ends
  BY <1>3, EndFacts
<1>5. /\ EndOK(Answer(s, d), sent[e], polled[e]) /\ polled[e] <= sent[e] + sent[Peer(e)]
      /\ sent[e] \in 0 .. 2 /\ polled[e] \in 0 .. 4 /\ sent[Peer(e)] \in 0 .. 2
  BY <1>1, <1>4, EndsTyped DEF EndsOK
<1>6. CASE i <= served[s]
  <2>1. Answer(s, d) = 6
    BY <1>2, <1>3, <1>6 DEF Answer, Answered
  <2>2. QED
    BY <1>2, <1>5, <1>6, <2>1 DEF EndOK
<1>7. CASE i > served[s] + 1
  <2>1. \A j, k \in 1 .. Len(rdmaCtxs[s]) : rdmaCtxs[s][j] = rdmaCtxs[s][k] => j = k
    BY <1>1, CopyInjective
  <2>2. d \notin Answered(s)
    <3>1. \A j \in 1 .. served[s] : j \in 1 .. Len(rdmaCtxs[s]) /\ j # i
      BY <1>1, <1>2, <1>7 DEF MainOK
    <3>2. QED
      BY <1>3, <2>1, <3>1 DEF Answered
  <2>3. d # rdmaCtxs[s][served[s] + 1]
    BY <1>2, <1>3, <1>7, <2>1
  <2>4. d \in typed[s]
    <3>1. d \in ToSet(rdmaCtxs[s])
      BY <1>2, <1>3 DEF ToSet
    <3>2. QED
      BY <1>1, <3>1 DEF MainOK
  <2>5. Answer(s, d) = 4
    BY <2>2, <2>3, <2>4 DEF Answer
  <2>6. QED
    BY <1>2, <1>5, <1>7, <2>5 DEF EndOK
<1>8. QED
  BY <1>2, <1>6, <1>7

\* pollCompletion in initiateConnection, in exchangeInitialMesssage, in the
\* handler and in startAndConnect: an exchange finds the completion queue of its
\* connection as the exchange before left it, takes its own two completions and
\* none of the next one's, and ends with the peer's message.
THEOREM ExchangesApart == Spec => []PhasesApart
<1>1. IInv => PhasesApart
  <2> SUFFICES ASSUME IInv PROVE PhasesApart
    OBVIOUS
  <2>1. ASSUME NEW w \in Workers
        PROVE  /\ pc[w] = "send" => /\ polled[Mine(w)] = 2 * (phase[w] - 1)
                                    /\ sent[Peer(Mine(w))] >= phase[w] - 1
               /\ pc[w] = "poll" => polled[Mine(w)] <= 2 * phase[w]
    <3>1. /\ EndOK(At(pc[w], phase[w]), sent[Mine(w)], polled[Mine(w)])
          /\ sent[Mine(w)] \in 0 .. 2 /\ polled[Mine(w)] \in 0 .. 4
          /\ sent[Peer(Mine(w))] \in 0 .. 2
          /\ polled[Mine(w)] <= sent[Mine(w)] + sent[Peer(Mine(w))]
          /\ phase[w] \in 1 .. 2
      BY Busy DEF TypeOK
    <3>2. CASE phase[w] = 1
      BY <3>1, <3>2 DEF At, EndOK
    <3>3. CASE phase[w] = 2
      BY <3>1, <3>3 DEF At, EndOK
    <3>4. QED
      BY <3>1, <3>2, <3>3
  <2>2. ASSUME NEW s \in Servers PROVE hpc[s] = "poll" => polled[Theirs(s)] <= 2
    BY HandlerEnd DEF EndOK
  <2>3. ASSUME NEW s \in Servers, mpc[s] \in {"serve", "poll"},
               NEW i \in 1 .. Len(rdmaCtxs[s])
        PROVE  LET e == <<"server", s, rdmaCtxs[s][i]>> IN
               /\ i <= served[s] => polled[e] = 4 /\ sent[Peer(e)] = 2
               /\ i > served[s] + 1 => polled[e] = 2 /\ sent[Peer(e)] >= 1
    BY <2>3, ServedEnd
  <2>4. QED
    BY <2>1, <2>2, <2>3 DEF PhasesApart
<1>2. QED
  BY <1>1, Invariance, PTL

\* The handler's `if (numberConnections == 0)`: it does not end between two
\* waves of connections, but after the last worker has left; and when main has
\* seen no connection left and destroys the channel, the handler has ended.
THEOREM HandlerEndsLast == Spec => []HandlerEnds
<1>1. IInv => HandlerEnds
  BY DEF IInv, HandlersOK, HandlerOK, MainsOK, MainOK, HandlerEnds
<1>2. QED
  BY <1>1, Invariance, PTL

=============================================================================
