----------------------------- MODULE ClientProxy -----------------------------
(***************************************************************************)
(* The TCP proxy of one node (internal/proxy: proxy.go, connection.go,     *)
(* router.go): a handler goroutine per accepted client routes it by the    *)
(* local cluster state, connects to the backend, registers the pair with   *)
(* the ConnectionTracker and copies both ways until both directions ended  *)
(* or the context is done.  On shutdown Run drains the tracker and then    *)
(* the pools, while runDaemon exits without waiting for it.                *)
(*                                                                         *)
(* Abstractions.  An address is the node's name.  Acquire and dial either  *)
(* give a connection or fail; the pool itself is BackendPool.  GetReplicas *)
(* ranges over a Go map, so the round robin may answer any replica.        *)
(* Clients and PostgreSQL are external and may close at any time.          *)
(***************************************************************************)
EXTENDS Naturals

CONSTANTS Handlers,    \* accepted connections
          Nodes,       \* backends
          Pooled,      \* proxy.pool.enabled
          MaxChanges   \* bound: changes of the cluster state

ASSUME ProxyAssumption == "" \notin Nodes /\ Pooled \in BOOLEAN /\ MaxChanges \in Nat

VARIABLES cluster,    \* what the local FSM answers the router
          changes,    \* changes of it so far
          handler,    \* handler[h]: the goroutine of connection h
          clientUp,   \* connections whose client socket the proxy holds open
          backendUp,  \* the same for the backend socket
          clientEOF,  \* connections whose client has closed
          backendEOF, \* connections whose backend has closed
          halfClosed, \* connections whose backend was sent an EOF
          copying,    \* directions Pipe still copies
          conns,      \* the tracker's map
          cancelled,  \* connections whose own context was cancelled
          ctxDone,    \* the daemon's context is done
          listener,   \* listener[port]
          run,        \* where Run is, and the connections DrainAll found
          exited      \* runDaemon has returned

world == <<cluster, changes>>
sockets == <<clientUp, backendUp>>
peers == <<clientEOF, backendEOF>>
pipes == <<halfClosed, copying>>
tracker == <<conns, cancelled>>
daemon == <<ctxDone, listener, run, exited>>
vars == <<world, handler, sockets, peers, pipes, tracker, daemon>>

Ports == {"primary", "replica"}
Cluster == [primary : Nodes \cup {""}, replicas : SUBSET Nodes, splitBrain : BOOLEAN]

Init ==
    /\ \E p \in Nodes : cluster = [primary |-> p, replicas |-> Nodes \ {p}, splitBrain |-> FALSE]
    /\ changes = 0
    /\ handler = [h \in Handlers |->
                     [pc |-> "none", port |-> "primary", addrFn |-> "primary", backend |-> ""]]
    /\ clientUp = {} /\ backendUp = {} /\ clientEOF = {} /\ backendEOF = {}
    /\ halfClosed = {} /\ copying = {} /\ conns = {} /\ cancelled = {}
    /\ ctxDone = FALSE /\ exited = FALSE
    /\ listener = [p \in Ports |-> "starting"]
    /\ run = [pc |-> "serving", found |-> {}]

-----------------------------------------------------------------------------
(* listen.                                                                 *)

Listen(port) ==
    /\ ~exited
    /\ listener[port] = "starting"
    /\ listener' = [listener EXCEPT ![port] = "open"]
    /\ UNCHANGED <<world, handler, sockets, peers, pipes, tracker, ctxDone, run, exited>>

\* The port cannot be bound, or the goroutine that waits for ctx closes it.
ListenEnds(port) ==
    /\ ~exited
    /\ listener[port] = "starting" \/ (listener[port] = "open" /\ ctxDone)
    /\ listener' = [listener EXCEPT ![port] = "closed"]
    /\ UNCHANGED <<world, handler, sockets, peers, pipes, tracker, ctxDone, run, exited>>

Accept(h, port) ==
    /\ ~exited
    /\ listener[port] = "open" /\ handler[h].pc = "none"
    /\ handler' = [handler EXCEPT ![h] =
                      [pc |-> "check", port |-> port, addrFn |-> port, backend |-> ""]]
    /\ clientUp' = clientUp \cup {h}
    /\ UNCHANGED <<world, backendUp, peers, pipes, tracker, daemon>>

-----------------------------------------------------------------------------
(* handleConn.  PrimaryAddr and ReplicaAddr read the flag and the nodes in *)
(* separate calls; without replicas ReplicaAddr calls PrimaryAddr.         *)

Goto(h, pc) == handler' = [handler EXCEPT ![h].pc = pc]
Refuse(h) == Goto(h, "done") /\ clientUp' = clientUp \ {h}

IsSplitBrain(h) ==
    /\ ~exited
    /\ handler[h].pc = "check"
    /\ IF cluster.splitBrain THEN Refuse(h) ELSE Goto(h, "route") /\ UNCHANGED clientUp
    /\ UNCHANGED <<world, backendUp, peers, pipes, tracker, daemon>>

PrimaryAddr(h) ==
    /\ ~exited
    /\ handler[h].pc = "route" /\ handler[h].addrFn = "primary"
    /\ IF cluster.primary = "" THEN Refuse(h)
       ELSE /\ handler' = [handler EXCEPT ![h].pc = "connect", ![h].backend = cluster.primary]
            /\ UNCHANGED clientUp
    /\ UNCHANGED <<world, backendUp, peers, pipes, tracker, daemon>>

ReplicaAddr(h) ==
    /\ ~exited
    /\ handler[h].pc = "route" /\ handler[h].addrFn = "replica"
    /\ \/ /\ cluster.replicas = {}
          /\ handler' = [handler EXCEPT ![h].pc = "check", ![h].addrFn = "primary"]
       \/ \E b \in cluster.replicas :
             handler' = [handler EXCEPT ![h].pc = "connect", ![h].backend = b]
    /\ UNCHANGED <<world, sockets, peers, pipes, tracker, daemon>>

ConnectFails(h) ==
    /\ ~exited
    /\ handler[h].pc = "connect"
    /\ Refuse(h)
    /\ UNCHANGED <<world, backendUp, peers, pipes, tracker, daemon>>

Connect(h) ==
    /\ ~exited
    /\ handler[h].pc = "connect"
    /\ backendUp' = backendUp \cup {h}
    /\ Goto(h, "add")
    /\ UNCHANGED <<world, clientUp, peers, pipes, tracker, daemon>>

\* tracker.Add, then Pipe starts its two copies.
Add(h) ==
    /\ ~exited
    /\ handler[h].pc = "add"
    /\ conns' = conns \cup {h}
    /\ copying' = copying \cup {<<h, "up">>, <<h, "down">>}
    /\ Goto(h, "pipe")
    /\ UNCHANGED <<world, sockets, peers, halfClosed, cancelled, daemon>>

\* io.Copy reads an EOF or finds its source closed by the proxy.
SourceEnded(h, dir) ==
    IF dir = "up" THEN h \in clientEOF \/ h \notin clientUp
                  ELSE h \in backendEOF \/ h \notin backendUp

\* io.Copy may also fail to write, if there is something to write.
SinkEnded(h, dir) == SourceEnded(h, IF dir = "up" THEN "down" ELSE "up")

\* Faulty variant of CopyEnds: no CloseWrite.
CopyEndsQuietly(h, dir) ==
    /\ ~exited
    /\ <<h, dir>> \in copying
    /\ SourceEnded(h, dir) \/ SinkEnded(h, dir)
    /\ copying' = copying \ {<<h, dir>>}
    /\ UNCHANGED <<world, handler, sockets, peers, halfClosed, tracker, daemon>>

\* The EOF that CloseWrite sends the client binds it to nothing.
CopyEnds(h, dir) ==
    /\ ~exited
    /\ <<h, dir>> \in copying
    /\ SourceEnded(h, dir) \/ SinkEnded(h, dir)
    /\ copying' = copying \ {<<h, dir>>}
    /\ halfClosed' = IF dir = "up" THEN halfClosed \cup {h} ELSE halfClosed
    /\ UNCHANGED <<world, handler, sockets, peers, tracker, daemon>>

PipeReturned(h) == <<h, "up">> \notin copying /\ <<h, "down">> \notin copying

\* Faulty variant of ConnDone: connCtx does not derive from ctx.
ConnDoneOwn(h) == h \in cancelled

ConnDone(h) == h \in cancelled \/ ctxDone

\* Faulty variant of StopPipe: the connection leaves the tracker first.
StopAndRemove(h) ==
    /\ ~exited
    /\ handler[h].pc = "pipe" /\ (PipeReturned(h) \/ ConnDone(h))
    /\ conns' = conns \ {h}
    /\ Goto(h, "close")
    /\ UNCHANGED <<world, sockets, peers, pipes, cancelled, daemon>>

StopPipe(h) ==
    /\ ~exited
    /\ handler[h].pc = "pipe" /\ (PipeReturned(h) \/ ConnDone(h))
    /\ Goto(h, "close")
    /\ UNCHANGED <<world, sockets, peers, pipes, tracker, daemon>>

CloseBoth(h) ==
    /\ ~exited
    /\ handler[h].pc = "close"
    /\ clientUp' = clientUp \ {h} /\ backendUp' = backendUp \ {h}
    /\ Goto(h, "remove")
    /\ UNCHANGED <<world, peers, pipes, tracker, daemon>>

Remove(h) ==
    /\ ~exited
    /\ handler[h].pc = "remove"
    /\ conns' = conns \ {h} /\ cancelled' = cancelled \cup {h}
    /\ Goto(h, "done")
    /\ UNCHANGED <<world, sockets, peers, pipes, daemon>>

-----------------------------------------------------------------------------
(* Run, DrainAll and runDaemon.                                            *)

\* A signal, or a component that failed.
Shutdown ==
    /\ ~exited
    /\ ~ctxDone
    /\ ctxDone' = TRUE
    /\ UNCHANGED <<world, handler, sockets, peers, pipes, tracker, listener, run, exited>>

\* Run's select may see a listener's result before, or beside, ctx.Done.
RunReturns ==
    /\ ~exited
    /\ run.pc = "serving" /\ \E port \in Ports : listener[port] = "closed"
    /\ run' = [run EXCEPT !.pc = "returned"]
    /\ UNCHANGED <<world, handler, sockets, peers, pipes, tracker, ctxDone, listener, exited>>

DrainAll ==
    /\ ~exited
    /\ run.pc = "serving" /\ ctxDone
    /\ run' = [pc |-> "draining", found |-> conns]
    /\ cancelled' = cancelled \cup conns
    /\ UNCHANGED <<world, handler, sockets, peers, pipes, conns, ctxDone, listener, exited>>

DrainTick ==
    /\ ~exited
    /\ run.pc = "draining" /\ conns = {}
    /\ run' = [run EXCEPT !.pc = "drained"]
    /\ UNCHANGED <<world, handler, sockets, peers, pipes, tracker, ctxDone, listener, exited>>

\* At the deadline forceCloseAll closes what the tracker holds.
DrainDeadline ==
    /\ ~exited
    /\ run.pc = "draining"
    /\ clientUp' = clientUp \ conns /\ backendUp' = backendUp \ conns
    /\ run' = [run EXCEPT !.pc = "drained"]
    /\ UNCHANGED <<world, handler, peers, pipes, tracker, ctxDone, listener, exited>>

\* PoolManager.DrainAll closes the connections in use, too.
DrainPools ==
    /\ ~exited
    /\ run.pc = "drained"
    /\ backendUp' = IF Pooled THEN {} ELSE backendUp
    /\ run' = [run EXCEPT !.pc = "returned"]
    /\ UNCHANGED <<world, handler, clientUp, peers, pipes, tracker, ctxDone, listener, exited>>

\* runDaemon returns on ctx.Done, whatever Run is doing.
Exit ==
    /\ ~exited
    /\ ctxDone
    /\ exited' = TRUE /\ clientUp' = {} /\ backendUp' = {}
    /\ UNCHANGED <<world, handler, peers, pipes, tracker, ctxDone, listener, run>>

-----------------------------------------------------------------------------
(* The world.                                                              *)

ClientCloses(h) ==
    /\ ~exited
    /\ h \in clientUp \ clientEOF
    /\ clientEOF' = clientEOF \cup {h}
    /\ UNCHANGED <<world, handler, sockets, backendEOF, pipes, tracker, daemon>>

BackendCloses(h) ==
    /\ ~exited
    /\ h \in backendUp \ backendEOF
    /\ backendEOF' = backendEOF \cup {h}
    /\ UNCHANGED <<world, handler, sockets, clientEOF, pipes, tracker, daemon>>

\* A command is applied to the local FSM.  SET_REPLICA may name the primary.
ClusterChanges ==
    /\ ~exited
    /\ changes < MaxChanges
    /\ changes' = changes + 1
    /\ cluster' \in Cluster
    /\ UNCHANGED <<handler, sockets, peers, pipes, tracker, daemon>>

HandleConn(h) ==
    \/ IsSplitBrain(h) \/ PrimaryAddr(h) \/ ReplicaAddr(h) \/ Connect(h) \/ ConnectFails(h)
    \/ Add(h) \/ StopPipe(h) \/ CloseBoth(h) \/ Remove(h)

Drain == DrainAll \/ DrainTick \/ DrainDeadline \/ DrainPools \/ RunReturns

Next ==
    \/ \E h \in Handlers :
          \/ HandleConn(h) \/ ClientCloses(h) \/ BackendCloses(h)
          \/ \E port \in Ports : Accept(h, port)
          \/ \E dir \in {"up", "down"} : CopyEnds(h, dir)
    \/ \E port \in Ports : Listen(port) \/ ListenEnds(port)
    \/ Shutdown \/ Drain \/ Exit \/ ClusterChanges

Spec == Init /\ [][Next]_vars

\* The goroutines run until the process exits, a copy whose source has ended
\* ends, runDaemon cancels when Run returns, and PostgreSQL ends a session that
\* was sent an EOF.  Nothing is asked of clients, nor of when runDaemon returns.
FairSpec ==
    /\ Spec
    /\ WF_vars(Drain) /\ WF_vars(run.pc = "returned" /\ Shutdown)
    /\ \A port \in Ports : WF_vars(ListenEnds(port))
    /\ \A h \in Handlers :
          /\ WF_vars(HandleConn(h))
          /\ WF_vars(h \in halfClosed /\ BackendCloses(h))
          /\ \A dir \in {"up", "down"} :
                WF_vars(SourceEnded(h, dir) /\ CopyEnds(h, dir))

-----------------------------------------------------------------------------
(* Properties.                                                             *)

\* The types of the proxy's variables; a handler that got past the router has a
\* node to connect to, also when the primary went away meanwhile.
TypeOK ==
    /\ cluster \in Cluster /\ changes \in 0 .. MaxChanges
    /\ handler \in [Handlers ->
          [pc : {"none", "check", "route", "connect", "add", "pipe", "close", "remove", "done"},
           port : Ports, addrFn : Ports, backend : Nodes \cup {""}]]
    /\ \A h \in Handlers : handler[h].pc \in {"connect", "add", "pipe"} => handler[h].backend # ""
    /\ \A S \in {clientUp, backendUp, clientEOF, backendEOF, halfClosed, conns, cancelled} :
          S \subseteq Handlers
    /\ copying \subseteq Handlers \X {"up", "down"}
    /\ ctxDone \in BOOLEAN /\ exited \in BOOLEAN
    /\ listener \in [Ports -> {"starting", "open", "closed"}]
    /\ run \in [pc : {"serving", "draining", "drained", "returned"}, found : SUBSET Handlers]

\* When the tracker's DrainAll is over, because the tracker was empty or the
\* deadline passed, both sockets of every connection it found are closed:
\* handleConn leaves the tracker only after closing them.
DrainLeavesNothing ==
    run.pc \in {"drained", "returned"} => run.found \cap (clientUp \cup backendUp) = {}

\* After the context is done every handler ends unless the process goes first,
\* also one that was still connecting when DrainAll looked at the tracker.
ShutdownEndsAll ==
    ctxDone ~> (exited \/ \A h \in Handlers : handler[h].pc \in {"none", "done"})

\* A client that goes away takes its handler and backend connection with it: the
\* half-close of Pipe reaches PostgreSQL, whose close ends the other direction.
GoneClientEnds == \A h \in Handlers : h \in clientEOF ~> (handler[h].pc = "done" \/ exited)

\* README: connections are drained during failover.  A connection made through
\* the primary port does not stay for ever with a node that stays deposed.
Deposed(h) ==
    /\ ~exited
    /\ handler[h].pc = "pipe" /\ handler[h].port = "primary"
    /\ cluster.primary \in Nodes \ {handler[h].backend}

FailoverDrains == \A h \in Handlers : Deposed(h) ~> ~Deposed(h)

\* Comment of Pipe: it returns when either direction encounters an error or EOF.
PipeReturnsOnEither ==
    \A h \in Handlers :
        (handler[h].pc = "pipe" /\ ~({<<h, "up">>, <<h, "down">>} \subseteq copying))
            ~> (PipeReturned(h) \/ exited)

\* runDaemon logs a graceful shutdown and Run that it is draining: the process
\* then leaves no tracked connection to be cut by its end.
ExitAfterDrain == exited => conns = {} \/ run.pc \in {"drained", "returned"}
=============================================================================
