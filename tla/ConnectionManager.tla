-------------------------- MODULE ConnectionManager --------------------------
(***************************************************************************)
(* Connection set-up and teardown: rdma::CM, Storage::startAndConnect and  *)
(* the constructor of Worker.                                              *)
(*                                                                         *)
(* A worker of a compute node connects to one storage node after another   *)
(* (initiateConnection, with the exchange of RdmaInfo), then exchanges     *)
(* InitMessages with one after another (exchangeInitialMesssage).  With    *)
(* FLAGS_rcopt its job opens one more connection to the one storage node   *)
(* in every stage.  In the end the compute node disconnects.               *)
(*                                                                         *)
(* A storage node has two threads: the handler of connection events, which *)
(* accepts and exchanges RdmaInfo, and main, which waits for a number of   *)
(* connections, exchanges InitMessages with them in the order they were    *)
(* accepted, waits until all are gone and destroys the CM.                 *)
(*                                                                         *)
(* What the network does is a matter of when events and completions are    *)
(* seen: an event stays in `events` as long as it likes, and a poll may    *)
(* find any number of the completions there can be by then.                *)
(***************************************************************************)
EXTENDS Integers, Sequences, FiniteSets, SequencesExt

CONSTANTS
    Workers,      \* the worker threads of all compute nodes
    Nodes,        \* the compute nodes
    Backlog,      \* of rdma_listen: 3 in the code
    Variants,     \* the number of storage nodes, FLAGS_rcopt, and which node
                  \* each worker runs on
    MaxServers,   \* bound: the number of storage nodes
    MaxStage,     \* bound: the number of stages
    Nobody        \* what stands for the holder of a free mutex

ASSUME WorkersAssumption == Workers # {} /\ IsFiniteSet(Workers)
ASSUME NobodyAssumption == Nobody \notin Workers
ASSUME BacklogAssumption == Backlog \in Nat \ {0}
ASSUME VariantsAssumption ==
    /\ MaxServers \in Nat \ {0} /\ MaxStage \in Nat \ {0}
    /\ Variants \subseteq [storage_nodes : 1 .. MaxServers, rcopt : BOOLEAN,
                           node_of : [Workers -> Nodes]]
    /\ \A v \in Variants : v.rcopt => v.storage_nodes = 1

\* A connection of a worker to a storage node; its number is 1 for the one
\* its constructor makes, and goes up with the stages.
Servers == 1 .. MaxServers
Conns   == Workers \X (1 .. MaxStage + 1)

VARIABLES
    variant,
    pc,           \* of each worker
    round,        \* the number of the connection a worker is busy with
    server,       \* the storage node it is busy with
    phase,        \* 1: initiateConnection, 2: exchangeInitialMesssage
    outgoingMut,  \* of each compute node: who holds it
    sent,         \* the messages an end of a connection has sent
    polled,       \* the completions it has polled
    events,       \* the connection events a storage node has yet to retrieve
    accepted,     \* the connections the handler of a storage node has accepted
    hpc,          \* of each handler
    current,      \* the connection a handler is busy with
    numberConnections,
    numberConnectionsEstablished,
    incomingIds,
    typed,        \* the contexts that hold the peer's RdmaInfo
    mpc,          \* of each storage node's main
    wave,         \* how often it has called startAndConnect
    rdmaCtxs,     \* its copy of incomingIds
    served        \* its index i; servedConnections while it is not serving

client  == <<pc, round, server, phase, outgoingMut>>
handler == <<hpc, current, numberConnections, numberConnectionsEstablished,
             incomingIds, typed, accepted>>
main    == <<mpc, wave, rdmaCtxs, served>>
qps     == <<sent, polled>>
vars    == <<variant, client, qps, events, handler, main>>

NodeOf == variant.node_of
WorkersOf(n) == {w \in Workers : NodeOf[w] = n}

\* The storage nodes a worker connects to: "Assuming only one storge node".
LastServer(w) == IF round[w] = 1 THEN variant.storage_nodes ELSE 1
LastRound     == IF variant.rcopt THEN MaxStage + 1 ELSE 1
LastWave      == IF variant.rcopt THEN 2 ELSE 1

\* The two ends of a connection.
Ends    == {"client", "server"} \X Servers \X Conns
Peer(e) == <<IF e[1] = "client" THEN "server" ELSE "client", e[2], e[3]>>

\* Mutant: in the second phase one worker goes the other way round.
MineShifted(w) ==
    LET last == phase[w] = 2 /\ w = CHOOSE v \in Workers : TRUE
    IN  <<"client", IF last THEN LastServer(w) + 1 - server[w] ELSE server[w],
          <<w, round[w]>>>>

\* The end a worker is busy with.
Mine(w) == <<"client", server[w], <<w, round[w]>>>>

TypeOK ==
    /\ variant \in Variants
    /\ pc \in [Workers -> {"lock", "connect", "sleep", "connecting", "send", "poll",
                           "ready", "left"}]
    /\ round \in [Workers -> 1 .. MaxStage + 1]
    /\ server \in [Workers -> Servers]
    /\ phase \in [Workers -> 1 .. 2]
    /\ outgoingMut \in [Nodes -> Workers \union {Nobody}]
    /\ sent \in [Ends -> 0 .. 2]
    /\ polled \in [Ends -> 0 .. 4]
    /\ events \in [Servers -> SUBSET ({"request", "established", "disconnected"} \X Conns)]
    /\ accepted \in [Servers -> SUBSET Conns]
    /\ hpc \in [Servers -> {"off", "get", "push", "poll", "disconnect", "ended"}]
    /\ current \in [Servers -> Conns]
    /\ numberConnections \in [Servers -> 0 .. Cardinality(Conns)]
    /\ numberConnectionsEstablished \in [Servers -> 0 .. Cardinality(Conns)]
    /\ incomingIds \in [Servers -> Seq(Conns)]
    /\ typed \in [Servers -> SUBSET Conns]
    /\ mpc \in [Servers -> {"off", "wait", "snapshot", "serve", "poll", "run", "destroy",
                            "join", "done"}]
    /\ wave \in [Servers -> 0 .. 2]
    /\ rdmaCtxs \in [Servers -> Seq(Conns)]
    /\ served \in [Servers -> Nat]

Init ==
    /\ variant \in Variants
    /\ pc = [w \in Workers |-> "lock"]
    /\ round = [w \in Workers |-> 1]
    /\ server = [w \in Workers |-> 1]
    /\ phase = [w \in Workers |-> 1]
    /\ outgoingMut = [n \in Nodes |-> Nobody]
    /\ sent = [e \in Ends |-> 0]
    /\ polled = [e \in Ends |-> 0]
    /\ events = [s \in Servers |-> {}]
    /\ accepted = [s \in Servers |-> {}]
    /\ hpc = [s \in Servers |-> "off"]
    /\ current = [s \in Servers |-> CHOOSE c \in Conns : TRUE]
    /\ numberConnections = [s \in Servers |-> 0]
    /\ numberConnectionsEstablished = [s \in Servers |-> 0]
    /\ incomingIds = [s \in Servers |-> <<>>]
    /\ typed = [s \in Servers |-> {}]
    /\ mpc = [s \in Servers |-> "off"]
    /\ wave = [s \in Servers |-> 0]
    /\ rdmaCtxs = [s \in Servers |-> <<>>]
    /\ served = [s \in Servers |-> 0]

-----------------------------------------------------------------------------
(* The exchange of two messages, which both ends do in both phases.        *)

\* postSend, signaled.
PostSend(e) == sent' = [sent EXCEPT ![e] = @ + 1] /\ UNCHANGED polled

\* Mutant: always asks for two.
ExpectedAlwaysTwo(e, p) == 2

\* auto expected = 2 - completions
Expected(e, p) == 2 - (polled[e] - 2 * (p - 1))

\* while (completions != 2)
Exchanged(e, p) == polled[e] = 2 * p

\* pollCompletion: a completion for each message sent, and one for each of
\* the peer's, as far as they have come, in any order.
PollSome(e, p) ==
    /\ ~Exchanged(e, p)
    /\ \E k \in 1 .. Expected(e, p) :
        /\ polled[e] + k <= sent[e] + sent[Peer(e)]
        /\ polled' = [polled EXCEPT ![e] = @ + k]
    /\ UNCHANGED sent

-----------------------------------------------------------------------------
(* A worker: initiateConnection to each storage node in turn, then         *)
(* exchangeInitialMesssage with each in turn.                              *)

Goto(w, from, to) == pc[w] = from /\ pc' = [pc EXCEPT ![w] = to]

Release(w) == outgoingMut' = [outgoingMut EXCEPT ![NodeOf[w]] = Nobody]

LockOutgoing(w) ==
    /\ outgoingMut[NodeOf[w]] = Nobody
    /\ outgoingMut' = [outgoingMut EXCEPT ![NodeOf[w]] = w]
    /\ Goto(w, "lock", "connect")
    /\ UNCHANGED <<variant, round, server, phase, qps, events, handler, main>>

\* A node that does not listen yet refuses, and so does one whose handler is
\* behind by a backlog of requests.
Listens(s) ==
    /\ mpc[s] # "off"
    /\ Cardinality({c \in Conns : <<"request", c>> \in events[s]}) < Backlog

\* rdma_connect; what it gets is not ESTABLISHED.
Refused(w) ==
    /\ ~Listens(server[w])
    /\ Goto(w, "connect", "sleep")
    /\ Release(w)
    /\ UNCHANGED <<variant, round, server, phase, qps, events, handler, main>>

\* sleep(1); goto RETRY
Retry(w) ==
    /\ Goto(w, "sleep", "lock")
    /\ UNCHANGED <<variant, round, server, phase, outgoingMut, qps, events, handler, main>>

Signal(s, kind, c) == events' = [events EXCEPT ![s] = @ \union {<<kind, c>>}]

Connect(w) ==
    /\ Listens(server[w])
    /\ Goto(w, "connect", "connecting")
    /\ Signal(server[w], "request", <<w, round[w]>>)
    /\ UNCHANGED <<variant, round, server, phase, outgoingMut, qps, handler, main>>

\* RDMA_CM_EVENT_ESTABLISHED, here and, sooner or later, there.
Connected(w) ==
    /\ <<w, round[w]>> \in accepted[server[w]]
    /\ Goto(w, "connecting", "send")
    /\ Signal(server[w], "established", <<w, round[w]>>)
    /\ UNCHANGED <<variant, round, server, phase, outgoingMut, qps, handler, main>>

ClientSend(w) ==
    /\ Goto(w, "send", "poll")
    /\ PostSend(Mine(w))
    /\ UNCHANGED <<variant, round, server, phase, outgoingMut, events, handler, main>>

ClientPoll(w) ==
    /\ pc[w] = "poll"
    /\ PollSome(Mine(w), phase[w])
    /\ UNCHANGED <<variant, client, events, handler, main>>

ClientExchanged(w) == pc[w] = "poll" /\ Exchanged(Mine(w), phase[w])

\* The end of initiateConnection: the mutex is released, and the next storage
\* node's turn comes, or the second phase.
Initiated(w) ==
    /\ ClientExchanged(w)
    /\ phase[w] = 1
    /\ Release(w)
    /\ IF server[w] < LastServer(w)
       THEN /\ server' = [server EXCEPT ![w] = @ + 1]
            /\ pc' = [pc EXCEPT ![w] = "lock"]
            /\ UNCHANGED phase
       ELSE /\ server' = [server EXCEPT ![w] = 1]
            /\ phase' = [phase EXCEPT ![w] = 2]
            /\ pc' = [pc EXCEPT ![w] = "send"]
    /\ UNCHANGED <<variant, round, qps, events, handler, main>>

\* The end of exchangeInitialMesssage.
Finished(w) ==
    /\ ClientExchanged(w)
    /\ phase[w] = 2
    /\ IF server[w] < LastServer(w)
       THEN server' = [server EXCEPT ![w] = @ + 1] /\ pc' = [pc EXCEPT ![w] = "send"]
       ELSE pc' = [pc EXCEPT ![w] = "ready"] /\ UNCHANGED server
    /\ UNCHANGED <<variant, round, phase, outgoingMut, qps, events, handler, main>>

AllReady(n) == \A w \in WorkersOf(n) : pc[w] = "ready"

\* The pool is up, or joined: every worker gets its job of the next stage.
NextStage(n) ==
    /\ AllReady(n)
    /\ \A w \in WorkersOf(n) : round[w] < LastRound
    /\ round' = [w \in Workers |-> IF NodeOf[w] = n THEN round[w] + 1 ELSE round[w]]
    /\ server' = [w \in Workers |-> IF NodeOf[w] = n THEN 1 ELSE server[w]]
    /\ phase' = [w \in Workers |-> IF NodeOf[w] = n THEN 1 ELSE phase[w]]
    /\ pc' = [w \in Workers |-> IF NodeOf[w] = n THEN "lock" ELSE pc[w]]
    /\ UNCHANGED <<variant, outgoingMut, qps, events, handler, main>>

ConnsOf(n, s) == {c \in Conns : NodeOf[c[1]] = n /\ c \in accepted[s]}

\* ~CM on a compute node: rdma_disconnect for all of outgoingIds.
Disconnect(n) ==
    /\ AllReady(n)
    /\ \A w \in WorkersOf(n) : round[w] = LastRound
    /\ pc' = [w \in Workers |-> IF NodeOf[w] = n THEN "left" ELSE pc[w]]
    /\ events' = [s \in Servers |->
                    events[s] \union {<<"disconnected", c>> : c \in ConnsOf(n, s)}]
    /\ UNCHANGED <<variant, round, server, phase, outgoingMut, qps, handler, main>>

-----------------------------------------------------------------------------
(* The handler of a storage node.                                          *)

HGoto(s, from, to) == hpc[s] = from /\ hpc' = [hpc EXCEPT ![s] = to]

Theirs(s) == <<"server", s, current[s]>>

\* rdma_get_cm_event.
GetEvent(s, kind, c) ==
    /\ <<kind, c>> \in events[s]
    /\ events' = [events EXCEPT ![s] = @ \ {<<kind, c>>}]
    /\ current' = [current EXCEPT ![s] = c]

\* CONNECT_REQUEST, up to rdma_accept.
HandleRequest(s) ==
    /\ HGoto(s, "get", "push")
    /\ \E c \in Conns :
        /\ GetEvent(s, "request", c)
        /\ accepted' = [accepted EXCEPT ![s] = @ \union {c}]
    /\ numberConnections' = [numberConnections EXCEPT ![s] = @ + 1]
    /\ UNCHANGED <<variant, client, qps, main, numberConnectionsEstablished,
                   incomingIds, typed>>

\* Mutant: the handler goes on waiting.
NextEventNever(s, n) == "get"

\* if (numberConnections == 0) { ...; running = false; return; }
NextEvent(s, n) == IF n = 0 THEN "ended" ELSE "get"

\* Its rest, under incomingMut, which main holds only to copy incomingIds.
PushContext(s) ==
    /\ HGoto(s, "push", NextEvent(s, numberConnections[s]))
    /\ incomingIds' = [incomingIds EXCEPT ![s] = Append(@, current[s])]
    /\ UNCHANGED <<variant, client, qps, events, main, current, numberConnections,
                   numberConnectionsEstablished, typed, accepted>>

\* ESTABLISHED, up to postSend.
HandleEstablished(s) ==
    /\ HGoto(s, "get", "poll")
    /\ \E c \in Conns :
        GetEvent(s, "established", c) /\ PostSend(<<"server", s, c>>)
    /\ UNCHANGED <<variant, client, main, numberConnections,
                   numberConnectionsEstablished, incomingIds, typed, accepted>>

HandlerPoll(s) ==
    /\ hpc[s] = "poll"
    /\ PollSome(Theirs(s), 1)
    /\ UNCHANGED <<variant, client, events, handler, main>>

\* Its rest: the context is filled in and numberConnectionsEstablished++.
Established(s) ==
    /\ Exchanged(Theirs(s), 1)
    /\ HGoto(s, "poll", NextEvent(s, numberConnections[s]))
    /\ typed' = [typed EXCEPT ![s] = @ \union {current[s]}]
    /\ numberConnectionsEstablished' = [numberConnectionsEstablished EXCEPT ![s] = @ + 1]
    /\ UNCHANGED <<variant, client, qps, events, main, current, numberConnections,
                   incomingIds, accepted>>

\* DISCONNECTED: numberConnections--
HandleDisconnected(s) ==
    /\ HGoto(s, "get", "disconnect")
    /\ \E c \in Conns : GetEvent(s, "disconnected", c)
    /\ numberConnections' = [numberConnections EXCEPT ![s] = @ - 1]
    /\ UNCHANGED <<variant, client, qps, main, numberConnectionsEstablished,
                   incomingIds, typed, accepted>>

\* numberConnectionsEstablished--, and the test at the end of the loop: in
\* between the handler uses nothing that main, let go by the former, destroys.
Disconnected(s) ==
    /\ HGoto(s, "disconnect", NextEvent(s, numberConnections[s]))
    /\ numberConnectionsEstablished' = [numberConnectionsEstablished EXCEPT ![s] = @ - 1]
    /\ UNCHANGED <<variant, client, qps, events, main, current, numberConnections,
                   incomingIds, typed, accepted>>

-----------------------------------------------------------------------------
(* main of a storage node.                                                 *)

MGoto(s, from, to) == mpc[s] = from /\ mpc' = [mpc EXCEPT ![s] = to]

\* The constructors of Storage and CM; the handler is let go.
Start(s) ==
    /\ s <= variant.storage_nodes
    /\ MGoto(s, "off", "wait")
    /\ HGoto(s, "off", "get")
    /\ wave' = [wave EXCEPT ![s] = 1]
    /\ UNCHANGED <<variant, client, qps, events, current, numberConnections,
                   numberConnectionsEstablished, incomingIds, typed, accepted,
                   rdmaCtxs, served>>

\* FLAGS_worker, which the storage node is given as that of all compute
\* nodes, or FLAGS_worker * 2.
NumConnections(s) == Cardinality(Workers) * wave[s]

\* Mutant: requests are counted.
AllConnectedRequested(s) ==
    /\ numberConnections[s] = NumConnections(s)
    /\ MGoto(s, "wait", "snapshot")
    /\ UNCHANGED <<variant, client, qps, events, handler, wave, rdmaCtxs, served>>

\* while (getNumberIncomingConnections() != numConnections)
AllConnected(s) ==
    /\ numberConnectionsEstablished[s] = NumConnections(s)
    /\ MGoto(s, "wait", "snapshot")
    /\ UNCHANGED <<variant, client, qps, events, handler, wave, rdmaCtxs, served>>

\* getIncomingConnections.
CopyContexts(s) ==
    /\ MGoto(s, "snapshot", "serve")
    /\ rdmaCtxs' = [rdmaCtxs EXCEPT ![s] = incomingIds[s]]
    /\ UNCHANGED <<variant, client, qps, events, handler, wave, served>>

\* The end of the connection main serves.
Serving(s) == <<"server", s, rdmaCtxs[s][served[s] + 1]>>

ServeSend(s) ==
    /\ served[s] < Len(rdmaCtxs[s])
    /\ MGoto(s, "serve", "poll")
    /\ PostSend(Serving(s))
    /\ UNCHANGED <<variant, client, events, handler, wave, rdmaCtxs, served>>

ServePoll(s) ==
    /\ mpc[s] = "poll"
    /\ PollSome(Serving(s), 2)
    /\ UNCHANGED <<variant, client, events, handler, main>>

ServeNext(s) ==
    /\ MGoto(s, "poll", "serve")
    /\ Exchanged(Serving(s), 2)
    /\ served' = [served EXCEPT ![s] = @ + 1]
    /\ UNCHANGED <<variant, client, qps, events, handler, wave, rdmaCtxs>>

\* Mutant: servedConnections is forgotten.
ServeEndForgetful(s) ==
    /\ served[s] = Len(rdmaCtxs[s])
    /\ MGoto(s, "serve", IF wave[s] < LastWave THEN "wait" ELSE "run")
    /\ wave' = [wave EXCEPT ![s] = IF @ < LastWave THEN @ + 1 ELSE @]
    /\ served' = [served EXCEPT ![s] = 0]
    /\ UNCHANGED <<variant, client, qps, events, handler, rdmaCtxs>>

\* The end of startAndConnect; with FLAGS_rcopt it is called once more.
ServeEnd(s) ==
    /\ served[s] = Len(rdmaCtxs[s])
    /\ MGoto(s, "serve", IF wave[s] < LastWave THEN "wait" ELSE "run")
    /\ wave' = [wave EXCEPT ![s] = IF @ < LastWave THEN @ + 1 ELSE @]
    /\ UNCHANGED <<variant, client, qps, events, handler, rdmaCtxs, served>>

\* while (db.getCM().getNumberIncomingConnections())
AllGone(s) ==
    /\ numberConnectionsEstablished[s] = 0
    /\ MGoto(s, "run", "destroy")
    /\ UNCHANGED <<variant, client, qps, events, handler, wave, rdmaCtxs, served>>

\* ~CM up to rdma_destroy_event_channel(incomingChannel).
Destroy(s) ==
    /\ MGoto(s, "destroy", "join")
    /\ UNCHANGED <<variant, client, qps, events, handler, wave, rdmaCtxs, served>>

\* handler.join()
Join(s) ==
    /\ hpc[s] = "ended"
    /\ MGoto(s, "join", "done")
    /\ UNCHANGED <<variant, client, qps, events, handler, wave, rdmaCtxs, served>>

WorkerStep(w) == \/ LockOutgoing(w) \/ Refused(w) \/ Retry(w) \/ Connect(w)
                 \/ Connected(w) \/ ClientSend(w) \/ ClientPoll(w)
                 \/ Initiated(w) \/ Finished(w)
NodeStep(n) == NextStage(n) \/ Disconnect(n)
HandlerStep(s) == \/ HandleRequest(s) \/ PushContext(s) \/ HandleEstablished(s)
                  \/ HandlerPoll(s) \/ Established(s)
                  \/ HandleDisconnected(s) \/ Disconnected(s)
MainStep(s) == \/ Start(s) \/ AllConnected(s) \/ CopyContexts(s) \/ ServeSend(s)
               \/ ServePoll(s) \/ ServeNext(s) \/ ServeEnd(s) \/ AllGone(s)
               \/ Destroy(s) \/ Join(s)

Next == \/ \E w \in Workers : WorkerStep(w)
        \/ \E n \in Nodes : NodeStep(n)
        \/ \E s \in Servers : HandlerStep(s) \/ MainStep(s)

Spec == Init /\ [][Next]_vars

\* Threads are scheduled, processes are started, and what the network has to
\* deliver it delivers.
Fairness == /\ \A w \in Workers : WF_vars(WorkerStep(w))
            /\ \A n \in Nodes : WF_vars(NodeStep(n))
            /\ \A s \in Servers : WF_vars(HandlerStep(s)) /\ WF_vars(MainStep(s))

FairSpec == Spec /\ Fairness

-----------------------------------------------------------------------------
(* Properties.                                                             *)

AllLeft == \A w \in Workers : pc[w] = "left"
AllDone == AllLeft /\ \A s \in 1 .. variant.storage_nodes : mpc[s] = "done"

\* What main may rely on when it has seen the number it waits for: its copy
\* of incomingIds has every connection of the workers up to now, each once and
\* each with its type, which main throws on, and the handler is done with them:
\* from then on main alone polls their completion queues.
ContextsComplete ==
    \A s \in Servers : mpc[s] \in {"serve", "poll"} =>
        /\ IsInjective(rdmaCtxs[s])
        /\ ToSet(rdmaCtxs[s]) = Workers \X (1 .. wave[s])
        /\ ToSet(rdmaCtxs[s]) \subseteq typed[s]
        /\ hpc[s] = "poll" => current[s] \notin ToSet(rdmaCtxs[s])

\* "prevents over polling the q and draining it from next phase": an exchange
\* takes two completions and no more, though the peer's next message may be
\* there already, and when it is over the peer's message of its phase is there.
PhasesApart ==
    /\ \A w \in Workers :
        /\ pc[w] = "send" => /\ polled[Mine(w)] = 2 * (phase[w] - 1)
                             /\ sent[Peer(Mine(w))] >= phase[w] - 1
        /\ pc[w] = "poll" => polled[Mine(w)] <= 2 * phase[w]
    /\ \A s \in Servers :
        /\ hpc[s] = "poll" => polled[Theirs(s)] <= 2
        /\ mpc[s] \in {"serve", "poll"} => \A i \in 1 .. Len(rdmaCtxs[s]) :
            LET e == <<"server", s, rdmaCtxs[s][i]>> IN
            /\ i <= served[s] => polled[e] = 4 /\ sent[Peer(e)] = 2
            /\ i > served[s] + 1 => polled[e] = 2 /\ sent[Peer(e)] >= 1

\* The handler, which ends as soon as no connection is left, ends when no
\* worker will come any more; and it does not wait on the channel any more
\* when main destroys it.
HandlerEnds ==
    \A s \in Servers :
        /\ hpc[s] = "ended" => AllLeft
        /\ mpc[s] \in {"join", "done"} => hpc[s] = "ended"

\* Whatever is started first and however the attempts go, every worker gets all
\* its connections, and every process ends.
EverybodyEnds == <>AllDone

\* "Wait for the second connection from each worker for RC benchmark": what a
\* worker has begun to exchange over a connection it gets an answer to.
ExchangesEnd == \A w \in Workers : (pc[w] = "poll") ~> (pc[w] # "poll")
=============================================================================
