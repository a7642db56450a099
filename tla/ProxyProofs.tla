----------------------------- MODULE ProxyProofs -----------------------------
(***************************************************************************)
(* Safety of the proxy: types, and that a finished drain leaves no socket  *)
(* of the connections it found.  The argument is about the order in which  *)
(* handleConn works: the sockets and the tracker's entry of a connection   *)
(* are tied to where its handler is.                                       *)
(***************************************************************************)
EXTENDS ClientProxy, TLAPS

PCs == {"none", "check", "route", "connect", "add", "pipe", "close", "remove", "done"}
Handler == [pc : PCs, port : Ports, addrFn : Ports, backend : Nodes \cup {""}]

\* A handler that is going to use its backend has one.
HasBackend(r) == r.pc \in {"connect", "add", "pipe"} => r.backend # ""

HandlersOK ==
    /\ handler \in [Handlers -> Handler]
    /\ \A g \in Handlers : HasBackend(handler[g])

SetsOK ==
    /\ clientUp \subseteq Handlers /\ backendUp \subseteq Handlers
    /\ clientEOF \subseteq Handlers /\ backendEOF \subseteq Handlers
    /\ halfClosed \subseteq Handlers
    /\ conns \subseteq Handlers /\ cancelled \subseteq Handlers
    /\ copying \subseteq Handlers \X {"up", "down"}

DaemonOK ==
    /\ cluster \in Cluster /\ changes \in 0 .. MaxChanges
    /\ ctxDone \in BOOLEAN /\ exited \in BOOLEAN
    /\ listener \in [Ports -> {"starting", "open", "closed"}]
    /\ run \in [pc : {"serving", "draining", "drained", "returned"}, found : SUBSET Handlers]

-----------------------------------------------------------------------------
(* Types.                                                                  *)

\* TypeOK in three parts, which actions change separately.
LEMMA TypeParts == TypeOK <=> HandlersOK /\ SetsOK /\ DaemonOK
  BY Zenon DEF TypeOK, HandlersOK, SetsOK, DaemonOK, Handler, PCs, HasBackend

LEMMA TypePartsNext == HandlersOK' /\ SetsOK' /\ DaemonOK' => TypeOK'
  BY Zenon DEF TypeOK, HandlersOK, SetsOK, DaemonOK, Handler, PCs, HasBackend

\* What a step of one handler leaves is well typed.
LEMMA HandlerUpdate ==
    ASSUME NEW h \in Handlers, handler \in [Handlers -> Handler],
           \A g \in Handlers : HasBackend(handler[g]),
           NEW r \in Handler, HasBackend(r), handler' = [handler EXCEPT ![h] = r]
    PROVE  /\ handler' \in [Handlers -> Handler]
           /\ \A g \in Handlers : HasBackend(handler'[g])
  BY Zenon

\* The same for Goto, which never leads into the states with a backend from
\* those without.
LEMMA GotoUpdate ==
    ASSUME NEW h \in Handlers, handler \in [Handlers -> Handler],
           \A g \in Handlers : HasBackend(handler[g]),
           NEW pc \in PCs, Goto(h, pc),
           pc \in {"connect", "add", "pipe"} => handler[h].backend # ""
    PROVE  /\ handler' \in [Handlers -> Handler]
           /\ \A g \in Handlers : HasBackend(handler'[g])
<1> DEFINE r == [handler[h] EXCEPT !.pc = pc]
<1>1. handler[h] \in Handler
  BY Zenon
<1>2. r \in Handler /\ r.pc = pc /\ r.backend = handler[h].backend
  BY <1>1, Zenon DEF Handler
<1>3. handler' = [handler EXCEPT ![h] = r]
  BY Zenon DEF Goto
<1>4. HasBackend(r)
  BY <1>2, Zenon DEF HasBackend
<1> HIDE DEF r
<1> QED
  BY <1>2, <1>3, <1>4, HandlerUpdate, Zenon

\* Every action keeps the handlers' records well typed.
LEMMA HandlersStep == TypeOK /\ [Next]_vars => HandlersOK'
<1> SUFFICES ASSUME TypeOK, [Next]_vars PROVE HandlersOK'
  BY Zenon
<1>1. HandlersOK /\ DaemonOK
  BY TypeParts, Zenon
<1>2. handler' = handler => HandlersOK'
  BY <1>1, Zenon DEF HandlersOK
<1>3. ASSUME NEW h \in Handlers, HandleConn(h) PROVE HandlersOK'
  <2> DEFINE r == handler[h]
  <2>1. r \in Handler /\ HasBackend(r)
    BY <1>1, Zenon DEF HandlersOK
  <2>2. ASSUME NEW pc \in PCs, Goto(h, pc),
               pc \in {"connect", "add", "pipe"} => handler[h].backend # ""
        PROVE  HandlersOK'
    BY <1>1, <2>2, GotoUpdate, Zenon DEF HandlersOK
  <2>3. ASSUME NEW q \in Handler, HasBackend(q), handler' = [handler EXCEPT ![h] = q]
        PROVE  HandlersOK'
    BY <1>1, <2>3, HandlerUpdate, Zenon DEF HandlersOK
  <2>4. ASSUME NEW b \in Nodes,
               handler' = [handler EXCEPT ![h].pc = "connect", ![h].backend = b]
        PROVE  HandlersOK'
    <3> DEFINE q == [[r EXCEPT !.pc = "connect"] EXCEPT !.backend = b]
    <3>1. q \in Handler /\ q.backend = b
      BY <2>1, Zenon DEF Handler, PCs
    <3>2. HasBackend(q)
      BY <3>1, ProxyAssumption, Zenon DEF HasBackend
    <3>3. handler' = [handler EXCEPT ![h] = q]
      BY <1>1, <2>4, Zenon DEF HandlersOK
    <3> HIDE DEF q
    <3> QED
      BY <2>3, <3>1, <3>2, <3>3, Zenon
  <2>5. CASE IsSplitBrain(h)
    BY <2>2, <2>5, Zenon DEF IsSplitBrain, Refuse, PCs
  <2>6. CASE PrimaryAddr(h)
    <3>1. cluster.primary \in Nodes \cup {""}
      BY <1>1, Zenon DEF DaemonOK, Cluster
    <3> QED
      BY <2>2, <2>4, <2>6, <3>1, Zenon DEF PrimaryAddr, Refuse, PCs
  <2>7. CASE ReplicaAddr(h)
    <3>1. cluster.replicas \subseteq Nodes
      BY <1>1, Zenon DEF DaemonOK, Cluster
    <3>2. CASE handler' = [handler EXCEPT ![h].pc = "check", ![h].addrFn = "primary"]
      <4> DEFINE q == [[r EXCEPT !.pc = "check"] EXCEPT !.addrFn = "primary"]
      <4>1. q \in Handler /\ q.pc = "check"
        BY <2>1, Zenon DEF Handler, PCs, Ports
      <4>2. HasBackend(q)
        BY <4>1, Zenon DEF HasBackend
      <4>3. handler' = [handler EXCEPT ![h] = q]
        BY <1>1, <3>2, Zenon DEF HandlersOK
      <4> HIDE DEF q
      <4> QED
        BY <2>3, <4>1, <4>2, <4>3, Zenon
    <3> QED
      BY <2>4, <2>7, <3>1, <3>2, Zenon DEF ReplicaAddr
  <2>8. CASE Connect(h)
    BY <2>1, <2>2, <2>8, Zenon DEF Connect, PCs, HasBackend
  <2>9. CASE ConnectFails(h)
    BY <2>2, <2>9, Zenon DEF ConnectFails, Refuse, PCs
  <2>10. CASE Add(h)
    BY <2>1, <2>2, <2>10, Zenon DEF Add, PCs, HasBackend
  <2>11. CASE StopPipe(h) \/ CloseBoth(h) \/ Remove(h)
    BY <2>2, <2>11, Zenon DEF StopPipe, CloseBoth, Remove, PCs
  <2> QED
    BY <1>3, <2>5, <2>6, <2>7, <2>8, <2>9, <2>10, <2>11, Zenon DEF HandleConn
<1>4. ASSUME NEW h \in Handlers, NEW port \in Ports, Accept(h, port) PROVE HandlersOK'
  <2> DEFINE q == [pc |-> "check", port |-> port, addrFn |-> port, backend |-> ""]
  <2>1. q \in Handler /\ HasBackend(q)
    BY Zenon DEF Handler, PCs, HasBackend
  <2>2. handler' = [handler EXCEPT ![h] = q]
    BY <1>4, Zenon DEF Accept
  <2> HIDE DEF q
  <2> QED
    BY <1>1, <2>1, <2>2, HandlerUpdate, Zenon DEF HandlersOK
<1> QED
  BY <1>2, <1>3, <1>4, Zenon
     DEF Next, vars, Drain, ClientCloses, BackendCloses, CopyEnds, Listen, ListenEnds,
         Shutdown, RunReturns, DrainAll, DrainTick, DrainDeadline, DrainPools, Exit,
         ClusterChanges

\* Every action keeps the sets of connections and the daemon's state well typed.
LEMMA SetsStep == TypeOK /\ [Next]_vars => SetsOK'
<1> SUFFICES ASSUME TypeOK, [Next]_vars PROVE SetsOK'
  BY Zenon
<1>1. SetsOK /\ DaemonOK
  BY TypeParts, Zenon
<1>2. UNCHANGED <<sockets, peers, pipes, tracker>> => SetsOK'
  BY <1>1, Zenon DEF SetsOK, sockets, peers, pipes, tracker
<1>3. ASSUME NEW h \in Handlers, HandleConn(h) PROVE SetsOK'
  <2>1. CASE Add(h)
    BY <1>1, <2>1 DEF SetsOK, Add, sockets, peers
  <2>2. CASE ~Add(h)
    BY <1>1, <1>3, <2>2, Zenon
       DEF SetsOK, HandleConn, IsSplitBrain, PrimaryAddr, ReplicaAddr, Connect,
           ConnectFails, StopPipe, CloseBoth, Remove, Refuse, Goto, sockets, peers, pipes,
           tracker
  <2> QED
    BY <2>1, <2>2, Zenon
<1>4. ASSUME NEW h \in Handlers, ClientCloses(h) \/ BackendCloses(h) PROVE SetsOK'
  BY <1>1, <1>4, Zenon DEF SetsOK, ClientCloses, BackendCloses, sockets, pipes, tracker
<1>5. ASSUME NEW h \in Handlers, NEW port \in Ports, Accept(h, port) PROVE SetsOK'
  BY <1>1, <1>5, Zenon DEF SetsOK, Accept, peers, pipes, tracker
<1>6. ASSUME NEW h \in Handlers, NEW dir \in {"up", "down"}, CopyEnds(h, dir) PROVE SetsOK'
  BY <1>1, <1>6, Zenon DEF SetsOK, CopyEnds, sockets, peers, tracker
<1>7. CASE Drain \/ Exit
  BY <1>1, <1>7, Zenon
     DEF SetsOK, DaemonOK, Drain, DrainAll, DrainTick, DrainDeadline, DrainPools,
         RunReturns, Exit, sockets, peers, pipes, tracker
<1> QED
  BY <1>2, <1>3, <1>4, <1>5, <1>6, <1>7, Zenon
     DEF Next, vars, Listen, ListenEnds, Shutdown, ClusterChanges

LEMMA DaemonStep == TypeOK /\ [Next]_vars => DaemonOK'
<1> SUFFICES ASSUME TypeOK, [Next]_vars PROVE DaemonOK'
  BY Zenon
<1>1. SetsOK /\ DaemonOK
  BY TypeParts, Zenon
<1>2. UNCHANGED <<world, daemon>> => DaemonOK'
  BY <1>1, Zenon DEF DaemonOK, world, daemon
<1>3. CASE \E port \in Ports : Listen(port) \/ ListenEnds(port)
  BY <1>1, <1>3, Zenon DEF DaemonOK, Listen, ListenEnds, world
<1>4. CASE Shutdown \/ Exit
  BY <1>1, <1>4, Zenon DEF DaemonOK, Shutdown, Exit, world
<1>5. CASE Drain
  BY <1>1, <1>5
     DEF SetsOK, DaemonOK, Drain, DrainAll, DrainTick, DrainDeadline, DrainPools,
         RunReturns, world
<1>6. CASE ClusterChanges
  <2>1. changes' \in 0 .. MaxChanges
    <3>1. changes \in 0 .. MaxChanges
      BY <1>1, Zenon DEF DaemonOK
    <3>2. changes < MaxChanges /\ changes' = changes + 1
      BY <1>6, Zenon DEF ClusterChanges
    <3>3. MaxChanges \in Nat
      BY ProxyAssumption, Zenon
    <3> QED
      BY <3>1, <3>2, <3>3
  <2> QED
    BY <1>1, <1>6, <2>1, Zenon DEF DaemonOK, ClusterChanges, daemon
<1> QED
  BY <1>2, <1>3, <1>4, <1>5, <1>6, Zenon
     DEF Next, vars, HandleConn, IsSplitBrain, PrimaryAddr, ReplicaAddr, Connect,
         ConnectFails, Add, StopPipe, CloseBoth, Remove, ClientCloses, BackendCloses,
         Accept, CopyEnds

\* Types hold in every reachable state: also the part of TypeOK that a handler
\* past the router has a backend, although the primary may go away between the
\* router's reads (router.go:57).
THEOREM ProxyTypes == Spec => []TypeOK
<1>1. Init => TypeOK
  <2> SUFFICES ASSUME Init PROVE HandlersOK /\ SetsOK /\ DaemonOK
    BY TypeParts, Zenon
  <2>1. HandlersOK
    BY Zenon DEF Init, HandlersOK, Handler, HasBackend, PCs, Ports
  <2>2. SetsOK
    BY Zenon DEF Init, SetsOK
  <2>3. DaemonOK
    <3>1. PICK p \in Nodes : cluster = [primary |-> p, replicas |-> Nodes \ {p}, splitBrain |-> FALSE]
      BY Zenon DEF Init
    <3>2. cluster \in Cluster
      BY <3>1, Zenon DEF Cluster
    <3>3. changes \in 0 .. MaxChanges
      <4>1. changes = 0
        BY Zenon DEF Init
      <4>2. MaxChanges \in Nat
        BY ProxyAssumption, Zenon
      <4> QED
        BY <4>1, <4>2
    <3>4. run \in [pc : {"serving", "draining", "drained", "returned"}, found : SUBSET Handlers]
      BY Zenon DEF Init
    <3>5. ctxDone \in BOOLEAN /\ exited \in BOOLEAN
      BY Zenon DEF Init
    <3>6. listener \in [Ports -> {"starting", "open", "closed"}]
      BY Zenon DEF Init
    <3> QED
      BY <3>2, <3>3, <3>4, <3>5, <3>6, Zenon DEF DaemonOK
  <2> QED
    BY <2>1, <2>2, <2>3, Zenon
<1>2. TypeOK /\ [Next]_vars => TypeOK'
  BY HandlersStep, SetsStep, DaemonStep, TypePartsNext, Zenon
<1> QED
  BY <1>1, <1>2, PTL DEF Spec

-----------------------------------------------------------------------------
(* Where a handler is tells which sockets it holds and whether the tracker *)
(* has it.                                                                 *)

SocketsFollow ==
    \A h \in Handlers :
        /\ h \in clientUp => handler[h].pc \notin {"none", "remove", "done"}
        /\ h \in backendUp => handler[h].pc \in {"add", "pipe", "close"}

TrackedFollow ==
    \A h \in Handlers : h \in conns <=> handler[h].pc \in {"pipe", "close", "remove"}

\* A connection the drain found never goes back.
FoundFollow ==
    /\ \A h \in run.found : handler[h].pc \in {"pipe", "close", "remove", "done"}
    /\ run.pc = "serving" => run.found = {}

DrainInv == SocketsFollow /\ TrackedFollow /\ FoundFollow /\ DrainLeavesNothing

\* Sockets close and nothing else happens, except that the drain goes on.
LEMMA ClosingKeeps ==
    ASSUME DrainInv, UNCHANGED <<handler, conns>>,
           clientUp' \subseteq clientUp, backendUp' \subseteq backendUp,
           run' = run
    PROVE  DrainInv'
  BY Zenon DEF DrainInv, SocketsFollow, TrackedFollow, FoundFollow, DrainLeavesNothing

\* One handler goes on.  Only one that is not tracked yet may open sockets.
LEMMA HandlerKeeps ==
    ASSUME TypeOK, DrainInv, NEW h \in Handlers, run' = run,
           \A g \in Handlers : g # h => handler'[g] = handler[g],
           clientUp' \subseteq clientUp \cup {h}, backendUp' \subseteq backendUp \cup {h},
           conns' \ {h} = conns \ {h},
           h \in clientUp' => handler'[h].pc \notin {"none", "remove", "done"},
           h \in backendUp' => handler'[h].pc \in {"add", "pipe", "close"},
           h \in conns' <=> handler'[h].pc \in {"pipe", "close", "remove"},
           handler[h].pc \in {"pipe", "close", "remove", "done"} =>
              /\ handler'[h].pc \in {"pipe", "close", "remove", "done"}
              /\ clientUp' \subseteq clientUp /\ backendUp' \subseteq backendUp
    PROVE  DrainInv'
<1>1. run.found \subseteq Handlers
  BY TypeParts, Zenon DEF DaemonOK
<1>2. SocketsFollow'
  BY Zenon DEF DrainInv, SocketsFollow
<1>3. TrackedFollow'
  BY Zenon DEF DrainInv, TrackedFollow
<1>4. FoundFollow'
  BY <1>1, Zenon DEF DrainInv, FoundFollow
<1>5. DrainLeavesNothing'
  BY <1>1, Zenon DEF DrainInv, FoundFollow, DrainLeavesNothing
<1> QED
  BY <1>2, <1>3, <1>4, <1>5, Zenon DEF DrainInv

\* A step of handleConn.
LEMMA HandleConnKeeps ==
    ASSUME TypeOK, DrainInv, NEW h \in Handlers, HandleConn(h)
    PROVE  DrainInv'
<1>1. HandlersOK /\ run' = run
  BY TypeParts, Zenon
     DEF HandleConn, IsSplitBrain, PrimaryAddr, ReplicaAddr, Connect, ConnectFails, Add,
         StopPipe, CloseBoth, Remove, daemon
<1>2. \A g \in Handlers : g # h => handler'[g] = handler[g]
  BY <1>1, Zenon
     DEF HandlersOK, HandleConn, IsSplitBrain, PrimaryAddr, ReplicaAddr, Connect,
         ConnectFails, Add, StopPipe, CloseBoth, Remove, Refuse, Goto
<1>3. ASSUME NEW pc, Goto(h, pc) PROVE handler'[h].pc = pc
  BY <1>1, <1>3, Zenon DEF HandlersOK, Handler, Goto
<1>4. /\ h \in clientUp => handler[h].pc \notin {"none", "remove", "done"}
      /\ h \in backendUp => handler[h].pc \in {"add", "pipe", "close"}
      /\ h \in conns <=> handler[h].pc \in {"pipe", "close", "remove"}
  BY Zenon DEF DrainInv, SocketsFollow, TrackedFollow
<1>5. CASE IsSplitBrain(h) \/ ConnectFails(h)
  BY <1>1, <1>2, <1>3, <1>4, <1>5, HandlerKeeps, Zenon
     DEF IsSplitBrain, ConnectFails, Refuse, tracker
<1>6. CASE PrimaryAddr(h)
  <2>1. ASSUME cluster.primary # "" PROVE handler'[h].pc = "connect"
    <3>1. handler' = [handler EXCEPT ![h].pc = "connect", ![h].backend = cluster.primary]
      BY <1>6, <2>1, Zenon DEF PrimaryAddr
    <3>2. handler[h] \in Handler /\ h \in DOMAIN handler
      BY <1>1, Zenon DEF HandlersOK
    <3> QED
      BY <3>1, <3>2, Zenon DEF Handler
  <2> QED
    BY <1>1, <1>2, <1>3, <1>4, <1>6, <2>1, HandlerKeeps, Zenon DEF PrimaryAddr, Refuse, tracker
<1>7. CASE ReplicaAddr(h)
  <2>1. handler'[h].pc \in {"check", "connect"}
    BY <1>1, <1>7, Zenon DEF HandlersOK, Handler, ReplicaAddr
  <2> QED
    BY <1>1, <1>2, <1>4, <1>7, <2>1, HandlerKeeps, Zenon DEF ReplicaAddr, sockets, tracker
<1>8. CASE Connect(h)
  BY <1>1, <1>2, <1>3, <1>4, <1>8, HandlerKeeps, Zenon DEF Connect, tracker
<1>9. CASE Add(h)
  <2>1. handler[h].pc = "add" /\ handler'[h].pc = "pipe"
    BY <1>3, <1>9, Zenon DEF Add
  <2>2. UNCHANGED <<clientUp, backendUp>> /\ conns' = conns \cup {h}
    BY <1>9, Zenon DEF Add, sockets
  <2> QED
    BY <1>1, <1>2, <1>4, <2>1, <2>2, HandlerKeeps, Zenon
<1>10. CASE StopPipe(h)
  BY <1>1, <1>2, <1>3, <1>4, <1>10, HandlerKeeps, Zenon DEF StopPipe, sockets, tracker
<1>11. CASE CloseBoth(h)
  BY <1>1, <1>2, <1>3, <1>4, <1>11, HandlerKeeps, Zenon DEF CloseBoth, tracker
<1>12. CASE Remove(h)
  BY <1>1, <1>2, <1>3, <1>4, <1>12, HandlerKeeps, Zenon DEF Remove, sockets
<1> QED
  BY <1>5, <1>6, <1>7, <1>8, <1>9, <1>10, <1>11, <1>12, Zenon DEF HandleConn

\* Every step keeps the invariant.
LEMMA DrainStep == TypeOK /\ DrainInv /\ [Next]_vars => DrainInv'
<1> SUFFICES ASSUME TypeOK, DrainInv, [Next]_vars PROVE DrainInv'
  BY Zenon
<1>1. HandlersOK /\ SetsOK /\ DaemonOK
  BY TypeParts, Zenon
<1>2. ASSUME NEW h \in Handlers, NEW port \in Ports, Accept(h, port) PROVE DrainInv'
  <2>1. \A g \in Handlers : g # h => handler'[g] = handler[g]
    BY <1>1, <1>2, Zenon DEF HandlersOK, Accept
  <2>2. handler'[h].pc = "check" /\ handler[h].pc = "none"
    BY <1>1, <1>2, Zenon DEF HandlersOK, Accept
  <2>3. h \notin backendUp /\ h \notin conns
    BY <2>2, Zenon DEF DrainInv, SocketsFollow, TrackedFollow
  <2> QED
    BY <1>2, <2>1, <2>2, <2>3, HandlerKeeps, Zenon DEF Accept, tracker, daemon
<1>3. CASE DrainAll
  BY <1>1, <1>3, Zenon
     DEF DrainAll, DrainInv, SocketsFollow, TrackedFollow, FoundFollow,
         DrainLeavesNothing, SetsOK, sockets
<1>4. CASE DrainTick
  <2>1. \A h \in Handlers : handler[h].pc \notin {"pipe", "close", "remove"}
    BY <1>4, Zenon DEF DrainTick, DrainInv, TrackedFollow
  <2>2. \A h \in run.found : h \notin clientUp /\ h \notin backendUp
    BY <1>1, <2>1, Zenon DEF DrainInv, SocketsFollow, FoundFollow, DaemonOK
  <2>3. run'.pc = "drained" /\ run'.found = run.found
    BY <1>1, <1>4, Zenon DEF DrainTick, DaemonOK
  <2> QED
    BY <1>4, <2>2, <2>3, Zenon
       DEF DrainTick, DrainInv, SocketsFollow, TrackedFollow, FoundFollow,
           DrainLeavesNothing, sockets, tracker
<1>5. CASE DrainDeadline
  <2>1. \A h \in run.found : h \in conns \/ (h \notin clientUp /\ h \notin backendUp)
    BY <1>1, Zenon DEF DrainInv, SocketsFollow, TrackedFollow, FoundFollow, DaemonOK
  <2>2. run'.pc = "drained" /\ run'.found = run.found
    BY <1>1, <1>5, Zenon DEF DrainDeadline, DaemonOK
  <2> QED
    BY <1>5, <2>1, <2>2, Zenon
       DEF DrainDeadline, DrainInv, SocketsFollow, TrackedFollow, FoundFollow,
           DrainLeavesNothing, tracker
<1>6. CASE DrainPools \/ RunReturns
  <2>1. run'.pc = "returned" /\ run'.found = run.found
    BY <1>1, <1>6, Zenon DEF DrainPools, RunReturns, DaemonOK
  <2>2. run.pc = "drained" \/ run.found = {}
    BY <1>6, Zenon DEF DrainPools, RunReturns, DrainInv, FoundFollow
  <2>3. /\ UNCHANGED <<handler, conns>>
        /\ clientUp' \subseteq clientUp /\ backendUp' \subseteq backendUp
    BY <1>6, Zenon DEF DrainPools, RunReturns, sockets, tracker
  <2> QED
    BY <2>1, <2>2, <2>3, Zenon
       DEF DrainInv, SocketsFollow, TrackedFollow, FoundFollow, DrainLeavesNothing
<1>7. CASE Exit
  BY <1>7, ClosingKeeps, Zenon DEF Exit, tracker
<1>8. ASSUME NEW h \in Handlers,
             \/ ClientCloses(h) \/ BackendCloses(h)
             \/ \E dir \in {"up", "down"} : CopyEnds(h, dir)
      PROVE  DrainInv'
  BY <1>8, ClosingKeeps, Zenon
     DEF ClientCloses, BackendCloses, CopyEnds, sockets, tracker, daemon
<1>9. CASE \/ \E port \in Ports : Listen(port) \/ ListenEnds(port)
           \/ Shutdown \/ ClusterChanges \/ UNCHANGED vars
  BY <1>9, ClosingKeeps, Zenon
     DEF Listen, ListenEnds, Shutdown, ClusterChanges, vars, sockets, tracker, daemon
<1> QED
  BY <1>2, <1>3, <1>4, <1>5, <1>6, <1>7, <1>8, <1>9, HandleConnKeeps, Zenon DEF Next, Drain

\* A drain that is over has closed both sockets of every connection it found,
\* for any number of connections, whether the tracker ran empty or the
\* deadline passed, with and without pools (connection.go:89, proxy.go:210).
THEOREM DrainComplete == Spec => []DrainLeavesNothing
<1>1. Init => DrainInv
  <2> SUFFICES ASSUME Init PROVE DrainInv
    BY Zenon
  <2>1. \A h \in Handlers : handler[h].pc = "none"
    BY Zenon DEF Init
  <2>2. clientUp = {} /\ backendUp = {} /\ conns = {} /\ run.found = {}
    BY Zenon DEF Init
  <2> QED
    BY <2>1, <2>2, Zenon
       DEF DrainInv, SocketsFollow, TrackedFollow, FoundFollow, DrainLeavesNothing
<1>2. DrainInv => DrainLeavesNothing
  BY Zenon DEF DrainInv
<1> QED
  BY <1>1, <1>2, ProxyTypes, DrainStep, PTL DEF Spec
=============================================================================
