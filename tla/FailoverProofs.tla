--------------------------- MODULE FailoverProofs ---------------------------
(***************************************************************************)
(* Proofs about FailoverCluster, for any number of nodes, API workers and  *)
(* operations and any bounds: type correctness, a controller in flight     *)
(* that always has a way back, and the order in which directives are       *)
(* committed.                                                              *)
(*                                                                         *)
(* Then: directives are committed once and carried out by their target     *)
(* only, although a node reads them from a replica that may be behind, and *)
(* a success that a node reads has been committed.  From this follow       *)
(* PrimariesJustified, DemoteAfterCheckpoint and the refinement of         *)
(* DirectiveBoard.  At the end, that a node stays FENCED.                  *)
(***************************************************************************)
EXTENDS FailoverCluster, TLAPS

-----------------------------------------------------------------------------
(* The commands of ClusterFSM that the operations and loops write.         *)

\* An assignment to one key of a Go map keeps the map well typed.
LEMMA PutIsMap ==
    ASSUME NEW f, NEW K, NEW V, NEW k \in K, NEW v \in V, IsMap(f, K, V)
    PROVE  /\ IsMap(Put(f, k, v), K, V)
           /\ DOMAIN Put(f, k, v) = DOMAIN f \cup {k}
           /\ Put(f, k, v)[k] = v
           /\ \A x \in DOMAIN f : x # k => Put(f, k, v)[x] = f[x]
BY Zenon DEF IsMap, Put

\* SET_PRIMARY keeps the FSM well typed (fsm.go:133).
LEMMA SetPrimaryType ==
    ASSUME NEW s, FSMTypeOK(s), NEW n \in NodeNames, NEW i \in NodeInfo
    PROVE  /\ FSMTypeOK(SetPrimary(s, n, i))
           /\ SetPrimary(s, n, i).directives = s.directives
<1> DEFINE j == [i EXCEPT !.role = "primary"]
<1>1. j \in NodeInfo
  BY Zenon DEF NodeInfo, Roles
<1>2. IsMap(Put(s.nodes, n, j), NodeNames, NodeInfo)
  BY <1>1, PutIsMap DEF FSMTypeOK
<1>3. SetPrimary(s, n, i) = [s EXCEPT !.nodes = Put(s.nodes, n, j), !.primaryName = n]
  BY Zenon DEF SetPrimary
<1> HIDE DEF j
<1> QED
  BY <1>2, <1>3 DEF FSMTypeOK

\* UPDATE_NODE_HEALTH keeps the FSM well typed (fsm.go:173).
LEMMA UpdateNodeHealthType ==
    ASSUME NEW s, FSMTypeOK(s), NEW n \in NodeNames, NEW lag \in Nat, NEW seen \in Nat
    PROVE  /\ FSMTypeOK(UpdateNodeHealth(s, n, lag, seen))
           /\ UpdateNodeHealth(s, n, lag, seen).directives = s.directives
<1>1. CASE n \in DOMAIN s.nodes
  <2> DEFINE j == [s.nodes[n] EXCEPT !.lag = lag, !.lastSeen = seen]
  <2>1. j \in NodeInfo
    BY <1>1 DEF FSMTypeOK, IsMap, NodeInfo
  <2>2. IsMap(Put(s.nodes, n, j), NodeNames, NodeInfo)
    BY <2>1, PutIsMap DEF FSMTypeOK
  <2>3. UpdateNodeHealth(s, n, lag, seen) = [s EXCEPT !.nodes = Put(s.nodes, n, j)]
    BY <1>1, Zenon DEF UpdateNodeHealth
  <2> HIDE DEF j
  <2> QED
    BY <2>2, <2>3 DEF FSMTypeOK
<1>2. CASE n \notin DOMAIN s.nodes
  BY <1>2, Zenon DEF UpdateNodeHealth
<1> QED
  BY <1>1, <1>2, Zenon

\* PUBLISH_DIRECTIVE keeps the FSM well typed, adds the directive and leaves
\* the others alone (fsm.go:193).
LEMMA PublishDirectiveType ==
    ASSUME NEW s, FSMTypeOK(s), NEW id \in DirectiveIDs, NEW d \in Directive
    PROVE  /\ FSMTypeOK(PublishDirective(s, id, d))
           /\ DOMAIN PublishDirective(s, id, d).directives = DOMAIN s.directives \cup {id}
           /\ PublishDirective(s, id, d).directives[id] = d
           /\ \A x \in DOMAIN s.directives : x # id =>
                 PublishDirective(s, id, d).directives[x] = s.directives[x]
<1> DEFINE p == Put(s.directives, id, d)
<1>0. IsMap(s.directives, DirectiveIDs, Directive)
  BY DEF FSMTypeOK
<1>1. /\ IsMap(p, DirectiveIDs, Directive)
      /\ DOMAIN p = DOMAIN s.directives \cup {id}
      /\ p[id] = d
      /\ \A x \in DOMAIN s.directives : x # id => p[x] = s.directives[x]
  BY <1>0, Zenon DEF IsMap, Put
<1>2. PublishDirective(s, id, d) = [s EXCEPT !.directives = p]
  BY Zenon DEF PublishDirective
<1> HIDE DEF p
<1> QED
  BY <1>1, <1>2 DEF FSMTypeOK

\* COMPLETE_DIRECTIVE keeps the FSM well typed and neither adds nor removes a
\* directive (fsm.go:204).
LEMMA CompleteDirectiveType ==
    ASSUME NEW s, FSMTypeOK(s), NEW id, NEW err \in Errors, NEW now \in Nat
    PROVE  /\ FSMTypeOK(CompleteDirective(s, id, err, now))
           /\ DOMAIN CompleteDirective(s, id, err, now).directives = DOMAIN s.directives
<1>1. CASE id \in DOMAIN s.directives
  <2> DEFINE j == IF err # ""
                  THEN [s.directives[id] EXCEPT !.status = "failed",
                                                !.completedAt = now, !.error = err]
                  ELSE [s.directives[id] EXCEPT !.status = "completed",
                                                !.completedAt = now]
             p == Put(s.directives, id, j)
  <2>1. /\ id \in DirectiveIDs
        /\ s.directives[id] \in Directive
        /\ IsMap(s.directives, DirectiveIDs, Directive)
    BY <1>1 DEF FSMTypeOK, IsMap
  <2>2. j \in Directive
    BY <2>1, Zenon DEF Directive, Statuses, Errors
  <2> HIDE DEF j
  <2>3. /\ IsMap(p, DirectiveIDs, Directive)
        /\ DOMAIN p = DOMAIN s.directives
    BY <1>1, <2>1, <2>2, Zenon DEF IsMap, Put
  <2>4. CompleteDirective(s, id, err, now) = [s EXCEPT !.directives = p]
    BY <1>1, Zenon DEF CompleteDirective, j
  <2> HIDE DEF p
  <2> QED
    BY <2>3, <2>4 DEF FSMTypeOK
<1>2. CASE id \notin DOMAIN s.directives
  BY <1>2, Zenon DEF CompleteDirective
<1> QED
  BY <1>1, <1>2, Zenon

\* COMPLETE_DIRECTIVE changes neither a directive it does not name nor the type
\* and the target of the one it names (fsm.go:204).
LEMMA CompleteDirectiveKeeps ==
    ASSUME NEW s, FSMTypeOK(s), NEW id, NEW err \in Errors, NEW now \in Nat,
           NEW x \in DOMAIN s.directives
    PROVE  /\ CompleteDirective(s, id, err, now).directives[x].type = s.directives[x].type
           /\ CompleteDirective(s, id, err, now).directives[x].target = s.directives[x].target
           /\ x # id => CompleteDirective(s, id, err, now).directives[x] = s.directives[x]
<1> DEFINE d == CompleteDirective(s, id, err, now).directives[x]
<1>1. CASE id \in DOMAIN s.directives
  <2> DEFINE j == IF err # ""
                  THEN [s.directives[id] EXCEPT !.status = "failed",
                                                !.completedAt = now, !.error = err]
                  ELSE [s.directives[id] EXCEPT !.status = "completed",
                                                !.completedAt = now]
             p == Put(s.directives, id, j)
  <2>1. s.directives[id] \in Directive
    BY <1>1 DEF FSMTypeOK, IsMap
  <2>2. /\ j.type = s.directives[id].type
        /\ j.target = s.directives[id].target
    BY <2>1, Zenon DEF Directive
  <2> HIDE DEF j
  <2>3. p[x] = IF x = id THEN j ELSE s.directives[x]
    BY Zenon DEF Put
  <2>4. CompleteDirective(s, id, err, now) = [s EXCEPT !.directives = p]
    BY <1>1, Zenon DEF CompleteDirective, j
  <2> HIDE DEF p
  <2>5. d = p[x]
    BY <2>4 DEF FSMTypeOK
  <2> QED
    BY <2>2, <2>3, <2>5, Zenon
<1>2. CASE id \notin DOMAIN s.directives
  BY <1>2, Zenon DEF CompleteDirective
<1> QED
  BY <1>1, <1>2, Zenon

-----------------------------------------------------------------------------
(* The type invariant is inductive together with what the program counters *)
(* of operations and loops say about the fields they are about to use.     *)

OpShape ==
    \A n \in NodeNames, w \in Workers : op[n][w].step # "none" =>
        /\ op[n][w].from \in NodeNames
        /\ op[n][w].to \in NodeNames
        /\ op[n][w].now \in 1 .. MaxOps

LoopShape ==
    \A n \in NodeNames :
        /\ loop[n].pc \in {"run", "complete"} => loop[n].cur \in DirectiveIDs
        /\ loop[n].pc = "start" => loop[n].from \in NodeNames

CoreInv == NodesTypeOK /\ OpShape /\ LoopShape

TypeInv == CoreInv /\ HistoryTypeOK

\* A write through the store leaves the FSM as it was or applies the command.
LEMMA WritesEither ==
    ASSUME NEW n, NEW s, NEW t, NEW u \in Writes(n, s, t)
    PROVE  u = s \/ u = t
BY Zenon DEF Writes

\* setState keeps manager states and the FSM well typed and the directives
\* as they are (manager.go:177).
LEMMA SetStateType ==
    ASSUME NodesTypeOK, NEW n \in NodeNames, NEW new \in States,
           NEW s, FSMTypeOK(s)
    PROVE  /\ \A t \in StateWrites(n, new, s) :
                 FSMTypeOK(t) /\ t.directives = s.directives
           /\ SetState(n, new, s) => /\ state' \in [NodeNames -> States]
                                     /\ FSMTypeOK(fsm')
                                     /\ fsm'.directives = s.directives
<1>1. /\ FSMTypeOK(Refresh(s, n, 0))
      /\ Refresh(s, n, 0).directives = s.directives
  BY UpdateNodeHealthType DEF Refresh
<1>2. \A t \in StateWrites(n, new, s) : FSMTypeOK(t) /\ t.directives = s.directives
  BY <1>1, WritesEither, Zenon DEF StateWrites
<1> QED
  BY <1>2, Zenon DEF SetState, NodesTypeOK

\* The controller's two bookkeeping steps keep its variables well typed.
LEMMA ControllerType ==
    ASSUME NodesTypeOK, NEW n \in NodeNames
    PROVE  /\ Begin(n) => /\ inFlight' \in [NodeNames -> BOOLEAN]
                          /\ active' \in [NodeNames -> SUBSET DirectiveIDs]
                          /\ started' \in [NodeNames -> Timers]
                          /\ confirm' \in [NodeNames -> Timers]
           /\ ClearFailover(n) => /\ inFlight' \in [NodeNames -> BOOLEAN]
                                  /\ active' \in [NodeNames -> SUBSET DirectiveIDs]
                                  /\ started' \in [NodeNames -> Timers]
                                  /\ confirm' \in [NodeNames -> Timers]
BY Zenon DEF NodesTypeOK, Begin, ClearFailover, Timers

\* The values that stand for no operation, an idle loop and unknown health are
\* well typed.
LEMMA ConstantTypes ==
    /\ NoOp \in Operations /\ NoOp.step = "none"
    /\ Idle \in Loops /\ Idle.pc = "idle"
    /\ Unknown \in HealthStatus
<1>1. NoOp \in Operations /\ NoOp.step = "none"
  BY Zenon DEF NoOp, Operations, Steps
<1>2. Unknown \in HealthStatus
  BY Zenon DEF Unknown, HealthStatus
<1>3. Idle \in Loops /\ Idle.pc = "idle"
  BY ClusterAssumption DEF Idle, Loops, States, Errors
<1> QED
  BY <1>1, <1>2, <1>3, Zenon

\* A cluster whose managers have just started (NewManager, manager.go) satisfies
\* the inductive type invariant.
LEMMA InitType == Init => TypeInv
<1> SUFFICES ASSUME Init PROVE TypeInv
  BY Zenon
<1>1. FSMTypeOK(fsm)
  <2> DEFINE m == [n \in NodeNames |->
                    [role |-> IF n = InitialPrimary THEN "primary" ELSE InitialRole,
                     lag |-> 0, lastSeen |-> 1]]
  <2>1. IsMap(m, NodeNames, NodeInfo)
    BY ClusterAssumption, Zenon DEF IsMap, NodeInfo, Roles
  <2>2. \A K, V : IsMap(EmptyMap, K, V)
    BY Zenon DEF IsMap, EmptyMap
  <2>3. fsm = [NewClusterFSM EXCEPT !.primaryName = InitialPrimary, !.nodes = m]
    BY Zenon DEF Init
  <2>4. fsm = [nodes |-> m, primaryName |-> InitialPrimary, splitBrain |-> FALSE,
               params |-> EmptyMap, version |-> 0, directives |-> EmptyMap]
    BY <2>3, Zenon DEF NewClusterFSM
  <2> HIDE DEF m
  <2> QED
    BY <2>1, <2>2, <2>4, ClusterAssumption DEF FSMTypeOK
<1>2. NodesTypeOK
  <2>1. /\ isLeader \in [NodeNames -> BOOLEAN]
        /\ server \in [NodeNames -> Servers]
    BY Zenon DEF Init, Servers
  <2>5. leader \in NodeNames
    BY ClusterAssumption, Zenon DEF Init
  <2>2. /\ health \in [NodeNames -> HealthStatus]
        /\ op \in [NodeNames -> [Workers -> Operations]]
        /\ loop \in [NodeNames -> Loops]
    BY ConstantTypes, Zenon DEF Init
  <2>3. /\ contact \in [NodeNames -> BOOLEAN]
        /\ paused \in [NodeNames -> BOOLEAN]
        /\ backoff \in [NodeNames -> BOOLEAN]
        /\ inFlight \in [NodeNames -> BOOLEAN]
    BY Zenon DEF Init
  <2>4. /\ state \in [NodeNames -> States]
        /\ quorumLost \in [NodeNames -> Timers]
        /\ active \in [NodeNames -> SUBSET DirectiveIDs]
        /\ started \in [NodeNames -> Timers]
        /\ confirm \in [NodeNames -> Timers]
        /\ ops \in 0 .. MaxOps
        /\ elections \in Nat /\ faults \in Nat /\ crashes \in Nat
    BY ClusterAssumption DEF Init, States, Timers
  <2> QED
    BY <1>1, <2>1, <2>2, <2>3, <2>4, <2>5, Zenon DEF NodesTypeOK
<1>3. OpShape /\ LoopShape
  BY ConstantTypes, Zenon DEF Init, OpShape, LoopShape
<1>4. HistoryTypeOK
  <2>1. FSMTypeOK(NewClusterFSM)
    BY DEF FSMTypeOK, NewClusterFSM, IsMap, EmptyMap
  <2>2. MaxBehind \in Nat /\ 0 \in 0 .. MaxBehind
    BY ClusterAssumption
  <2> QED
    BY <2>1, <2>2, Zenon DEF Init, HistoryTypeOK
<1> QED
  BY <1>2, <1>3, <1>4, Zenon DEF TypeInv, CoreInv

\* What a node reads of the cluster state is well typed, whether its replica is
\* up to date or not.
LEMMA ViewType ==
    ASSUME TypeInv, NEW n \in NodeNames
    PROVE  FSMTypeOK(View(n))
<1>1. FSMTypeOK(fsm) /\ HistoryTypeOK /\ behind[n] \in 0 .. MaxBehind
  BY Zenon DEF TypeInv, CoreInv, NodesTypeOK, HistoryTypeOK
<1>2. behind[n] = 0 \/ behind[n] \in 1 .. MaxBehind
  BY <1>1, ClusterAssumption
<1> QED
  BY <1>1, <1>2, Zenon DEF HistoryTypeOK, View

\* So is what a node reads after a write of its own.
LEMMA ReadsType ==
    ASSUME TypeInv, NEW n \in NodeNames, NEW t, FSMTypeOK(t), NEW v \in Reads(n, t)
    PROVE  FSMTypeOK(v)
BY ViewType, Zenon DEF Reads

-----------------------------------------------------------------------------
(* What the building blocks of the actions do to the types.                *)

\* A loop that moves on with a well-typed record keeps all loops well typed.
LEMMA GotoType ==
    ASSUME TypeInv, NEW n \in NodeNames, NEW l \in Loops,
           l.pc \in {"run", "complete"} => l.cur \in DirectiveIDs,
           l.pc = "start" => l.from \in NodeNames,
           loop' = [loop EXCEPT ![n] = l]
    PROVE  loop' \in [NodeNames -> Loops] /\ LoopShape'
<1>1. /\ loop \in [NodeNames -> Loops]
      /\ LoopShape
  BY Zenon DEF TypeInv, CoreInv, NodesTypeOK
<1>2. loop' \in [NodeNames -> Loops]
  BY <1>1, Zenon
<1>3. \A m \in NodeNames : loop'[m] = IF m = n THEN l ELSE loop[m]
  BY <1>1, Zenon
<1>4. LoopShape'
  BY <1>1, <1>3 DEF LoopShape
<1> QED
  BY <1>2, <1>4, Zenon

\* An operation that moves on with a well-typed record keeps all operations well
\* typed.
LEMMA OpType ==
    ASSUME TypeInv, NEW n \in NodeNames, NEW w \in Workers, NEW o \in Operations,
           o.step # "none" => /\ o.from \in NodeNames
                              /\ o.to \in NodeNames
                              /\ o.now \in 1 .. MaxOps,
           SetOp(n, w, o)
    PROVE  op' \in [NodeNames -> [Workers -> Operations]] /\ OpShape'
<1>1. /\ op \in [NodeNames -> [Workers -> Operations]]
      /\ OpShape
  BY Zenon DEF TypeInv, CoreInv, NodesTypeOK
<1>2. op' \in [NodeNames -> [Workers -> Operations]]
  BY <1>1, Zenon DEF SetOp
<1>3. \A m \in NodeNames, v \in Workers :
        op'[m][v] = IF m = n /\ v = w THEN o ELSE op[m][v]
  BY <1>1, Zenon DEF SetOp
<1>4. OpShape'
  BY <1>1, <1>3 DEF OpShape
<1> QED
  BY <1>2, <1>4, Zenon

\* When an operation returns, to the manager loop or to an API handler, the loops
\* stay well typed.
LEMMA ReturnType ==
    ASSUME TypeInv, NEW n \in NodeNames, NEW w, Return(n, w)
    PROVE  loop' \in [NodeNames -> Loops] /\ LoopShape'
<1>1. CASE w = "loop"
  BY <1>1, GotoType, ConstantTypes, Zenon DEF Return
<1>2. CASE w # "loop"
  BY <1>2, Zenon DEF Return, TypeInv, CoreInv, NodesTypeOK, LoopShape
<1> QED
  BY <1>1, <1>2, Zenon

\* An operation that fails, and so clears the failover and resets the manager's
\* state, keeps all it touches well typed (failover.go:453).
LEMMA AbortType ==
    ASSUME TypeInv, NEW n \in NodeNames, NEW w \in Workers, NEW s, FSMTypeOK(s),
           Abort(n, w, s)
    PROVE  /\ inFlight' \in [NodeNames -> BOOLEAN]
           /\ active' \in [NodeNames -> SUBSET DirectiveIDs]
           /\ started' \in [NodeNames -> Timers]
           /\ confirm' \in [NodeNames -> Timers]
           /\ state' \in [NodeNames -> States]
           /\ FSMTypeOK(fsm') /\ fsm'.directives = s.directives
           /\ op' \in [NodeNames -> [Workers -> Operations]] /\ OpShape'
           /\ loop' \in [NodeNames -> Loops] /\ LoopShape'
<1>1. NodesTypeOK
  BY Zenon DEF TypeInv, CoreInv
<1>2. ClearFailover(n) /\ Return(n, w) /\ SetOp(n, w, NoOp)
  BY Zenon DEF Abort
<1>3. op' \in [NodeNames -> [Workers -> Operations]] /\ OpShape'
  BY <1>2, OpType, ConstantTypes, Zenon
<1>4. state' \in [NodeNames -> States] /\ FSMTypeOK(fsm') /\ fsm'.directives = s.directives
  <2>1. CASE SetState(n, "RUNNING_REPLICA", s)
    <3>1. "RUNNING_REPLICA" \in States
      BY Zenon DEF States
    <3> QED
      BY <1>1, <2>1, <3>1, SetStateType, Zenon
  <2>2. CASE fsm' = s /\ UNCHANGED state
    BY <1>1, <2>2, Zenon DEF NodesTypeOK
  <2> QED
    BY <2>1, <2>2, Zenon DEF Abort
<1> QED
  BY <1>1, <1>2, <1>3, <1>4, ControllerType, ReturnType, Zenon

-----------------------------------------------------------------------------
(* Operations of the failover controller.                                  *)

\* A directive built by publishFailoverDirectives is well typed (failover.go:206).
LEMMA NewDirectiveType ==
    ASSUME NEW now \in 1 .. MaxOps, NEW type \in DirectiveTypes, NEW target \in NodeNames
    PROVE  /\ <<now, type>> \in DirectiveIDs
           /\ NewDirective(type, target) \in Directive
<1>1. <<now, type>> \in DirectiveIDs
  BY ClusterAssumption, Zenon
<1>2. NewDirective(type, target) \in Directive
  BY Zenon DEF NewDirective, Directive, Statuses, Errors
<1> QED
  BY <1>1, <1>2, Zenon

\* Publishing a directive, or failing to, keeps the type invariant.
LEMMA PublishType ==
    ASSUME TypeInv, NEW n \in NodeNames, NEW w \in Workers,
           op[n][w].step # "none",
           NEW type \in DirectiveTypes, NEW target \in NodeNames, NEW next \in Steps,
           Publish(n, w, type, target, next)
    PROVE  CoreInv'
<1> DEFINE o == op[n][w]
           id == <<o.now, type>>
           s == PublishDirective(fsm, id, NewDirective(type, target))
<1>1. /\ NodesTypeOK /\ OpShape /\ LoopShape
      /\ FSMTypeOK(fsm)
  BY Zenon DEF TypeInv, CoreInv, NodesTypeOK
<1>2. /\ o \in Operations /\ o.from \in NodeNames /\ o.to \in NodeNames
      /\ o.now \in 1 .. MaxOps /\ o.ids \subseteq DirectiveIDs
  <2>1. o \in Operations
    BY <1>1, Zenon DEF NodesTypeOK
  <2>2. o.from \in NodeNames /\ o.to \in NodeNames /\ o.now \in 1 .. MaxOps
    BY <1>1, Zenon DEF OpShape
  <2> QED
    BY <2>1, <2>2, Zenon DEF Operations
<1>3. id \in DirectiveIDs /\ NewDirective(type, target) \in Directive
  BY <1>2, NewDirectiveType, Zenon
<1>4. FSMTypeOK(s)
  BY <1>1, <1>3, PublishDirectiveType, Zenon
<1>5. UNCHANGED <<raft, env, paused, backoff, quorumLost, budget>>
  BY Zenon DEF Publish
<1>6. CASE leader = n /\ fsm' = s /\ next = "none"
  <2>1. /\ active' = [active EXCEPT ![n] = o.ids \cup {id}]
        /\ UNCHANGED <<inFlight, started, confirm, state>>
        /\ SetOp(n, w, NoOp)
        /\ Return(n, w)
    BY <1>6, Zenon DEF Publish
  <2>2. op' \in [NodeNames -> [Workers -> Operations]] /\ OpShape'
    BY <2>1, OpType, ConstantTypes, Zenon
  <2>3. loop' \in [NodeNames -> Loops] /\ LoopShape'
    BY <2>1, ReturnType, Zenon
  <2>4. active' \in [NodeNames -> SUBSET DirectiveIDs]
    BY <1>1, <1>2, <1>3, <2>1, Zenon DEF NodesTypeOK
  <2>5. FSMTypeOK(fsm')
    BY <1>4, <1>6, Zenon
  <2> HIDE DEF s, id, o
  <2> QED
    BY <1>1, <1>5, <2>1, <2>2, <2>3, <2>4, <2>5, Zenon DEF TypeInv, CoreInv, NodesTypeOK, raft, env, budget, log
<1>7. CASE leader = n /\ fsm' = s /\ next # "none"
  <2> DEFINE p == [o EXCEPT !.step = next, !.ids = @ \cup {id}]
  <2>1. /\ SetOp(n, w, p)
        /\ UNCHANGED <<controller, loop, state>>
    BY <1>7, Zenon DEF Publish
  <2>2. /\ p \in Operations /\ p.from \in NodeNames /\ p.to \in NodeNames
        /\ p.now \in 1 .. MaxOps
    BY <1>2, <1>3, Zenon DEF Operations
  <2> HIDE DEF p
  <2>4. op' \in [NodeNames -> [Workers -> Operations]] /\ OpShape'
    BY <2>1, <2>2, OpType, Zenon
  <2>5. FSMTypeOK(fsm')
    BY <1>4, <1>7, Zenon
  <2> HIDE DEF s, id, o
  <2> QED
    BY <1>1, <1>5, <2>1, <2>4, <2>5, Zenon
       DEF TypeInv, CoreInv, NodesTypeOK, LoopShape, raft, env, budget, controller, log
<1>8. CASE \E t \in Writes(n, fsm, s) : Abort(n, w, t)
  <2>1. PICK t \in Writes(n, fsm, s) : Abort(n, w, t)
    BY <1>8, Zenon
  <2>2. FSMTypeOK(t)
    BY <1>1, <1>4, <2>1, WritesEither, Zenon
  <2> HIDE DEF s, id, o
  <2> QED
    BY <1>1, <1>5, <2>1, <2>2, AbortType, Zenon DEF TypeInv, CoreInv, NodesTypeOK, raft, env, budget, log
<1> QED
  BY <1>6, <1>7, <1>8, Zenon DEF Publish

\* Every step of a failover or switchover operation keeps the type invariant.
LEMMA OpStepType ==
    ASSUME TypeInv, NEW n \in NodeNames, NEW w \in Workers, OpStep(n, w)
    PROVE  CoreInv'
<1> DEFINE o == op[n][w]
<1>1. /\ NodesTypeOK /\ OpShape /\ LoopShape
      /\ FSMTypeOK(fsm)
  BY Zenon DEF TypeInv, CoreInv, NodesTypeOK
<1>2. o \in Operations
  BY <1>1, Zenon DEF NodesTypeOK
<1>3. o.step # "none" => /\ o.from \in NodeNames /\ o.to \in NodeNames
                         /\ o.now \in 1 .. MaxOps
  BY <1>1, Zenon DEF OpShape
<1>4. CASE PublishFence(n, w)
  BY <1>3, <1>4, PublishType, Zenon DEF PublishFence, DirectiveTypes, Steps
<1>5. CASE PublishPromote(n, w)
  BY <1>3, <1>5, PublishType, Zenon DEF PublishPromote, DirectiveTypes, Steps
<1>6. CASE PublishCheckpoint(n, w)
  BY <1>3, <1>6, PublishType, Zenon DEF PublishCheckpoint, DirectiveTypes, Steps
<1>7. CASE PublishDemote(n, w)
  BY <1>3, <1>7, PublishType, Zenon DEF PublishDemote, DirectiveTypes, Steps
<1>8. ASSUME Abort(n, w, fsm), UNCHANGED <<raft, env, paused, backoff, quorumLost, budget>>
      PROVE  CoreInv'
  BY <1>1, <1>8, AbortType, Zenon DEF TypeInv, CoreInv, NodesTypeOK, raft, env, budget, log
<1>9. ASSUME NEW next \in Steps, SetOp(n, w, [o EXCEPT !.step = next]), o.step # "none",
             UNCHANGED <<raft, fsm, env, manager, controller, loop, budget>>
      PROVE  CoreInv'
  <2> DEFINE p == [o EXCEPT !.step = next]
  <2>1. /\ p \in Operations /\ p.from \in NodeNames /\ p.to \in NodeNames
        /\ p.now \in 1 .. MaxOps
    BY <1>2, <1>3, <1>9, Zenon DEF Operations
  <2>2. SetOp(n, w, p)
    BY <1>9, Zenon
  <2> HIDE DEF p
  <2>3. op' \in [NodeNames -> [Workers -> Operations]] /\ OpShape'
    BY <2>1, <2>2, OpType, Zenon
  <2> HIDE DEF o
  <2> QED
    BY <1>1, <1>9, <2>3, Zenon
       DEF TypeInv, CoreInv, NodesTypeOK, LoopShape, raft, env, manager, controller, budget, log
<1>10. CASE AwaitCheckpoint(n, w)
  <2>1. CASE Abort(n, w, fsm)
    BY <1>8, <1>10, <2>1, Zenon DEF AwaitCheckpoint
  <2>2. CASE SetOp(n, w, [o EXCEPT !.step = "sync"]) /\ UNCHANGED <<fsm, controller, state, loop>>
    BY <1>9, <1>10, <2>2, Zenon DEF AwaitCheckpoint, manager, Steps
  <2> QED
    BY <1>10, <2>1, <2>2, Zenon DEF AwaitCheckpoint
<1>11. CASE AwaitSync(n, w)
  BY <1>9, <1>11, Zenon DEF AwaitSync, Steps, log
<1>12. CASE WaitTimeout(n, w)
  BY <1>8, <1>12, Zenon DEF WaitTimeout
<1> QED
  BY <1>4, <1>5, <1>6, <1>7, <1>10, <1>11, <1>12, Zenon DEF OpStep

\* The number of the next operation lies within the bound.
LEMMA NextStamp ==
    ASSUME NodesTypeOK, ops < MaxOps
    PROVE  ops + 1 \in 1 .. MaxOps /\ ops + 1 \in 0 .. MaxOps /\ ops + 1 \in Nat
<1>1. ops \in 0 .. MaxOps
  BY Zenon DEF NodesTypeOK
<1>2. MaxOps \in Nat
  BY ClusterAssumption, Zenon
<1> QED
  BY <1>1, <1>2

\* Starting a manual operation keeps the type invariant.
LEMMA StartManualType ==
    ASSUME TypeInv, NEW n \in NodeNames, NEW w \in Workers, NEW o \in Operations,
           o.from \in NodeNames, o.to \in NodeNames, o.now \in 1 .. MaxOps,
           StartManual(n, w, o)
    PROVE  CoreInv'
<1>1. NodesTypeOK /\ LoopShape /\ FSMTypeOK(fsm)
  BY Zenon DEF TypeInv, CoreInv, NodesTypeOK
<1>2. "FAILOVER_IN_PROGRESS" \in States
  BY Zenon DEF States
<1>3. /\ state' \in [NodeNames -> States]
      /\ FSMTypeOK(fsm')
  BY <1>1, <1>2, SetStateType, Zenon DEF StartManual
<1>4. /\ inFlight' \in [NodeNames -> BOOLEAN]
      /\ active' \in [NodeNames -> SUBSET DirectiveIDs]
      /\ started' \in [NodeNames -> Timers]
      /\ confirm' \in [NodeNames -> Timers]
  BY <1>1, ControllerType, Zenon DEF StartManual
<1>5. op' \in [NodeNames -> [Workers -> Operations]] /\ OpShape'
  BY OpType, Zenon DEF StartManual
<1>6. /\ ops' \in 0 .. MaxOps
      /\ UNCHANGED <<raft, env, paused, backoff, quorumLost, loop, elections, faults, crashes>>
  BY <1>1, NextStamp, Zenon DEF StartManual
<1> QED
  BY <1>1, <1>3, <1>4, <1>5, <1>6, Zenon DEF TypeInv, CoreInv, NodesTypeOK, LoopShape, raft, env, log

\* The records a failover and a switchover start with are well typed and keep
\* the nodes they were given.
LEMMA OperationType ==
    ASSUME NodesTypeOK, ops < MaxOps, NEW from \in NodeNames, NEW to \in NodeNames
    PROVE  /\ FailoverFrom(from, to) \in Operations
           /\ FailoverFrom(from, to).from = from
           /\ FailoverFrom(from, to).to = to
           /\ FailoverFrom(from, to).now \in 1 .. MaxOps
           /\ FailoverFrom(from, to).kind = "failover"
           /\ LET o == Operation("switchover", "checkpoint", from, to)
              IN  /\ o \in Operations /\ o.from = from /\ o.to = to
                  /\ o.now \in 1 .. MaxOps /\ o.kind = "switchover"
<1>1. ops + 1 \in 1 .. MaxOps /\ ops + 1 \in Nat
  BY NextStamp, Zenon
<1>2. ASSUME NEW k \in {"failover", "switchover"}, NEW st \in Steps
      PROVE  LET o == Operation(k, st, from, to)
             IN  /\ o \in Operations /\ o.from = from /\ o.to = to
                 /\ o.now \in 1 .. MaxOps /\ o.kind = k
  BY <1>1, Zenon DEF Operation, Operations
<1>3. "fence" \in Steps /\ "promote" \in Steps /\ "checkpoint" \in Steps
  BY Zenon DEF Steps
<1> QED
  BY <1>2, <1>3, Zenon DEF FailoverFrom

\* The operation of an automatic failover is well formed (manager.go:580).
LEMMA FailoverFromType ==
    ASSUME NodesTypeOK, ops < MaxOps, NEW from \in NodeNames, NEW to \in NodeNames, NEW o,
           o = FailoverFrom(from, to)
    PROVE  /\ o \in Operations /\ o.now \in 1 .. MaxOps
           /\ o.from \in NodeNames /\ o.to \in NodeNames
<1>1. /\ FailoverFrom(from, to) \in Operations
      /\ FailoverFrom(from, to).now \in 1 .. MaxOps
      /\ FailoverFrom(from, to).from = from
      /\ FailoverFrom(from, to).to = to
  BY OperationType
<1> QED
  BY <1>1, Zenon

\* GetPrimary names a node or nobody (fsm.go:315).
LEMMA GetPrimaryType ==
    ASSUME NEW s, FSMTypeOK(s)
    PROVE  GetPrimary(s) # "" => GetPrimary(s) \in NodeNames
BY DEF FSMTypeOK, IsMap, GetPrimary

\* The API handlers for failover, switchover, pause and resume keep the type
\* invariant (handlers.go:400).
LEMMA ApiCallType ==
    ASSUME TypeInv, NEW n \in NodeNames, ApiCall(n)
    PROVE  CoreInv'
<1>1. NodesTypeOK /\ FSMTypeOK(View(n))
  BY ViewType, Zenon DEF TypeInv, CoreInv
<1>2. ApiWorkers \subseteq Workers
  BY Zenon DEF Workers
<1>3. ASSUME NEW w \in ApiWorkers, NEW to \in NodeNames, ManualFailover(n, w, to)
      PROVE  CoreInv'
  <2>1. GetPrimary(View(n)) \in NodeNames /\ ops < MaxOps
    BY <1>1, <1>3, GetPrimaryType, Zenon DEF ManualFailover, StartManual
  <2> QED
    BY <1>1, <1>2, <1>3, <2>1, StartManualType, OperationType DEF ManualFailover
<1>4. ASSUME NEW w \in ApiWorkers, NEW to \in NodeNames, ManualSwitchover(n, w, to)
      PROVE  CoreInv'
  <2>1. GetPrimary(View(n)) \in NodeNames /\ ops < MaxOps
    BY <1>1, <1>4, GetPrimaryType, Zenon DEF ManualSwitchover, StartManual
  <2> QED
    BY <1>1, <1>2, <1>4, <2>1, StartManualType, OperationType DEF ManualSwitchover
<1>5. CASE Pause(n) \/ Resume(n)
  <2>1. paused' \in [NodeNames -> BOOLEAN]
    BY <1>1, <1>5, Zenon DEF Pause, Resume, NodesTypeOK
  <2>2. UNCHANGED <<raft, log, env, state, backoff, quorumLost, controller, op, loop, budget>>
    BY <1>5, Zenon DEF Pause, Resume
  <2> QED
    BY <2>1, <2>2, Zenon
       DEF TypeInv, CoreInv, NodesTypeOK, OpShape, LoopShape, raft, env, controller, budget, log
<1> QED
  BY <1>3, <1>4, <1>5, Zenon DEF ApiCall

-----------------------------------------------------------------------------
(* The manager loop.                                                       *)

\* However a command of executeDirective ends (manager.go:405), it leaves the
\* server as it was or changed, and an error or none.
LEMMA OutcomeFields ==
    ASSUME NEW b \in Servers, NEW a \in Servers, NEW r,
           \/ r = [server |-> b, err |-> "exec"]
           \/ r = [server |-> a, err |-> ""]
           \/ r = [server |-> a, err |-> "exec"]
    PROVE  (r.server = a \/ r.server = b) /\ r.err \in Errors
<1>1. CASE r = [server |-> b, err |-> "exec"]
  BY <1>1, Zenon DEF Errors
<1>2. CASE r = [server |-> a, err |-> ""]
  BY <1>2, Zenon DEF Errors
<1>3. CASE r = [server |-> a, err |-> "exec"]
  BY <1>3, Zenon DEF Errors
<1> QED
  BY <1>1, <1>2, <1>3, Zenon

\* Every outcome of a command is a server state and an error, and only
\* pg_ctl promote takes a server out of recovery.
LEMMA CommandResults ==
    ASSUME NEW u \in Servers
    PROVE  /\ \A r \in PgStop(u) \cup PgStart(u) \cup TouchSignal(u) \cup
                        Command(u, u.up, u) :
                 /\ r.server \in Servers
                 /\ r.err \in Errors
                 /\ u.standby => r.server.standby
           /\ \A r \in PgPromote(u) : r.server \in Servers /\ r.err \in Errors
<1>1. /\ [u EXCEPT !.up = FALSE] \in Servers
      /\ [u EXCEPT !.up = TRUE] \in Servers
      /\ [u EXCEPT !.standby = TRUE] \in Servers
      /\ [u EXCEPT !.standby = FALSE] \in Servers
      /\ [u EXCEPT !.up = FALSE].standby = u.standby
      /\ [u EXCEPT !.up = TRUE].standby = u.standby
      /\ [u EXCEPT !.standby = TRUE].standby
  BY Zenon DEF Servers
<1>2. ASSUME NEW r \in PgStop(u)
      PROVE  r.server \in Servers /\ r.err \in Errors /\ (u.standby => r.server.standby)
  <2> DEFINE a == [u EXCEPT !.up = FALSE]
  <2>1. \/ r = [server |-> u, err |-> "exec"]
        \/ r = [server |-> a, err |-> ""]
        \/ r = [server |-> a, err |-> "exec"]
    BY Zenon DEF PgStop, Command, Outcome
  <2>2. (r.server = a \/ r.server = u) /\ r.err \in Errors
    <3>1. a \in Servers
      BY <1>1, Zenon
    <3> HIDE DEF a
    <3> QED
      BY <2>1, <3>1, OutcomeFields, Zenon
  <2> QED
    BY <1>1, <2>2, Zenon
<1>3. ASSUME NEW r \in PgStart(u)
      PROVE  r.server \in Servers /\ r.err \in Errors /\ (u.standby => r.server.standby)
  <2> DEFINE a == [u EXCEPT !.up = TRUE]
  <2>1. \/ r = [server |-> u, err |-> "exec"]
        \/ r = [server |-> a, err |-> ""]
        \/ r = [server |-> a, err |-> "exec"]
    BY Zenon DEF PgStart, Command, Outcome
  <2>2. (r.server = a \/ r.server = u) /\ r.err \in Errors
    <3>1. a \in Servers
      BY <1>1, Zenon
    <3> HIDE DEF a
    <3> QED
      BY <2>1, <3>1, OutcomeFields, Zenon
  <2> QED
    BY <1>1, <2>2, Zenon
<1>4. ASSUME NEW r \in TouchSignal(u)
      PROVE  r.server \in Servers /\ r.err \in Errors /\ (u.standby => r.server.standby)
  <2> DEFINE a == [u EXCEPT !.standby = TRUE]
  <2>1. \/ r = [server |-> u, err |-> "exec"]
        \/ r = [server |-> a, err |-> ""]
        \/ r = [server |-> a, err |-> "exec"]
    BY Zenon DEF TouchSignal, Command, Outcome
  <2>2. (r.server = a \/ r.server = u) /\ r.err \in Errors
    <3>1. a \in Servers
      BY <1>1, Zenon
    <3> HIDE DEF a
    <3> QED
      BY <2>1, <3>1, OutcomeFields, Zenon
  <2> QED
    BY <1>1, <2>2, Zenon
<1>5. ASSUME NEW r \in Command(u, u.up, u)
      PROVE  r.server \in Servers /\ r.err \in Errors /\ (u.standby => r.server.standby)
  <2>1. \/ r = [server |-> u, err |-> "exec"]
        \/ r = [server |-> u, err |-> ""]
        \/ r = [server |-> u, err |-> "exec"]
    BY Zenon DEF Command, Outcome
  <2>2. (r.server = u \/ r.server = u) /\ r.err \in Errors
    BY <1>1, <2>1, OutcomeFields, Zenon
  <2> QED
    BY <1>1, <2>2, Zenon
<1>6. ASSUME NEW r \in PgPromote(u)
      PROVE  r.server \in Servers /\ r.err \in Errors
  <2> DEFINE a == [u EXCEPT !.standby = FALSE]
  <2>1. \/ r = [server |-> u, err |-> "exec"]
        \/ r = [server |-> a, err |-> ""]
        \/ r = [server |-> a, err |-> "exec"]
    BY Zenon DEF PgPromote, Command, Outcome
  <2>2. (r.server = a \/ r.server = u) /\ r.err \in Errors
    <3>1. a \in Servers
      BY <1>1, Zenon
    <3> HIDE DEF a
    <3> QED
      BY <2>1, <3>1, OutcomeFields, Zenon
  <2> QED
    BY <1>1, <2>2, Zenon
<1> QED
  BY <1>2, <1>3, <1>4, <1>5, <1>6, Zenon

\* The loop records evaluate goes through, from Idle to directives, evaluation,
\* the start of a failover and the clearing of one, are well typed.
LEMMA IdleTypes ==
    /\ \A S \in SUBSET DirectiveIDs : /\ [Idle EXCEPT !.pc = "dirs", !.todo = S] \in Loops
                                      /\ [Idle EXCEPT !.pc = "dirs", !.todo = S].pc = "dirs"
    /\ \A st \in States : /\ [Idle EXCEPT !.pc = "eval", !.st = st] \in Loops
                          /\ [Idle EXCEPT !.pc = "eval", !.st = st].pc = "eval"
    /\ \A m \in NodeNames : /\ [Idle EXCEPT !.pc = "start", !.from = m] \in Loops
                            /\ [Idle EXCEPT !.pc = "start", !.from = m].pc = "start"
                            /\ [Idle EXCEPT !.pc = "start", !.from = m].from = m
    /\ \A S \in SUBSET DirectiveIDs : /\ [Idle EXCEPT !.pc = "clear", !.todo = S] \in Loops
                                      /\ [Idle EXCEPT !.pc = "clear", !.todo = S].pc = "clear"
<1>1. Idle \in Loops
  BY ConstantTypes, Zenon
<1> QED
  BY <1>1, Zenon DEF Loops

\* The state a directive puts the manager in is a manager state.
LEMMA TransientType ==
    ASSUME NEW id \in DirectiveIDs, id[2] # "CHECKPOINT"
    PROVE  TransientState(id[2]) \in States
<1>1. id[2] \in DirectiveTypes
  BY ClusterAssumption, Zenon
<1> QED
  BY <1>1, Zenon DEF DirectiveTypes, TransientState, States

\* The directives a loop picks up are directives of the FSM (fsm.go:363).
LEMMA TodoType ==
    ASSUME NEW s, FSMTypeOK(s), NEW n
    PROVE  GetDirectivesForNode(s, n) \in SUBSET DirectiveIDs
BY DEF FSMTypeOK, IsMap, GetDirectivesForNode

\* A tick, which lists the directives for the node (manager.go:342), keeps the
\* type invariant.
LEMMA TickType ==
    ASSUME TypeInv, NEW n \in NodeNames, Tick(n)
    PROVE  CoreInv'
<1>1. FSMTypeOK(View(n))
  BY ViewType, Zenon
<1> DEFINE l == [Idle EXCEPT !.pc = "dirs", !.todo = GetDirectivesForNode(View(n), n)]
<1>2. l \in Loops /\ l.pc = "dirs"
  BY <1>1, TodoType, IdleTypes, Zenon
<1>3. loop' = [loop EXCEPT ![n] = l]
  BY Zenon DEF Tick, Goto
<1> HIDE DEF l
<1>4. loop' \in [NodeNames -> Loops] /\ LoopShape'
  BY <1>2, <1>3, GotoType, Zenon
<1> QED
  BY <1>4, Zenon DEF Tick, TypeInv, CoreInv, NodesTypeOK, OpShape, raft, env, manager, controller, budget, log

\* Taking up the next pending directive keeps the type invariant.
LEMMA NextDirectiveType ==
    ASSUME TypeInv, NEW n \in NodeNames, NextDirective(n)
    PROVE  CoreInv'
<1>1. NodesTypeOK /\ FSMTypeOK(fsm) /\ loop[n] \in Loops
  BY Zenon DEF TypeInv, CoreInv, NodesTypeOK
<1>2. PICK id \in loop[n].todo :
        /\ Goto(n, [loop[n] EXCEPT !.pc = "run", !.cur = id])
        /\ IF id[2] = "CHECKPOINT" THEN UNCHANGED <<state, fsm>>
           ELSE SetState(n, TransientState(id[2]), fsm)
  BY Zenon DEF NextDirective
<1>3. id \in DirectiveIDs
  BY <1>1, <1>2, Zenon DEF Loops
<1> DEFINE l == [loop[n] EXCEPT !.pc = "run", !.cur = id]
<1>4. l \in Loops /\ l.cur = id /\ l.pc = "run"
  BY <1>1, <1>3, Zenon DEF Loops
<1>5. loop' = [loop EXCEPT ![n] = l]
  BY <1>2, Zenon DEF Goto
<1> HIDE DEF l
<1>6. loop' \in [NodeNames -> Loops] /\ LoopShape'
  BY <1>3, <1>4, <1>5, GotoType, Zenon
<1>7. state' \in [NodeNames -> States] /\ FSMTypeOK(fsm')
  <2>1. CASE id[2] = "CHECKPOINT"
    BY <1>1, <1>2, <2>1, Zenon DEF NodesTypeOK
  <2>2. CASE id[2] # "CHECKPOINT"
    BY <1>1, <1>2, <1>3, <2>2, TransientType, SetStateType, Zenon
  <2> QED
    BY <2>1, <2>2, Zenon
<1> QED
  BY <1>6, <1>7, Zenon
     DEF NextDirective, TypeInv, CoreInv, NodesTypeOK, OpShape, raft, env, controller, budget, log

\* Going from the execution of a directive to its first completion attempt
\* (manager.go:346) keeps the type invariant.
LEMMA RanType ==
    ASSUME TypeInv, NEW n \in NodeNames, loop[n].pc = "run", NEW r,
           r.server \in Servers, r.err \in Errors, Ran(n, r),
           state' \in [NodeNames -> States], FSMTypeOK(fsm')
    PROVE  CoreInv'
<1>1. NodesTypeOK /\ LoopShape /\ loop[n] \in Loops
  BY Zenon DEF TypeInv, CoreInv, NodesTypeOK
<1> DEFINE l == [loop[n] EXCEPT !.pc = "complete", !.err = r.err, !.tries = 1]
<1>2. 1 \in 0 .. MaxRetries
  BY ClusterAssumption
<1>3. l \in Loops /\ l.cur = loop[n].cur /\ l.pc = "complete"
  BY <1>1, <1>2, Zenon DEF Loops
<1>4. loop[n].cur \in DirectiveIDs
  BY <1>1, Zenon DEF LoopShape
<1>5. loop' = [loop EXCEPT ![n] = l]
  BY Zenon DEF Ran, Goto
<1> HIDE DEF l
<1>6. loop' \in [NodeNames -> Loops] /\ LoopShape'
  BY <1>3, <1>4, <1>5, GotoType, Zenon
<1>7. server' \in [NodeNames -> Servers]
  BY <1>1, Zenon DEF Ran, NodesTypeOK
<1> QED
  BY <1>6, <1>7, Zenon DEF Ran, TypeInv, CoreInv, NodesTypeOK, OpShape, raft, controller, budget, log

\* Executing a directive keeps the type invariant (manager.go:405).
LEMMA RunType ==
    ASSUME TypeInv, NEW n \in NodeNames,
           RunFence(n) \/ RunPromote(n) \/ RunDemote(n) \/ RunCheckpoint(n)
    PROVE  CoreInv'
<1>1. NodesTypeOK /\ FSMTypeOK(fsm) /\ server[n] \in Servers /\ state \in [NodeNames -> States]
  BY Zenon DEF TypeInv, CoreInv, NodesTypeOK
<1>2. "RUNNING_PRIMARY" \in States /\ "RUNNING_REPLICA" \in States
  BY Zenon DEF States
<1>3. CASE RunFence(n)
  BY <1>1, <1>3, CommandResults, RanType, Zenon DEF log, RunFence, Running
<1>4. CASE RunCheckpoint(n)
  BY <1>1, <1>4, CommandResults, RanType, Zenon DEF log, RunCheckpoint, Running
<1>5. CASE RunPromote(n)
  <2> DEFINE i == [role |-> "", lag |-> 0, lastSeen |-> 1]
  <2>1. PICK r \in PgPromote(server[n]) :
          /\ Ran(n, r)
          /\ IF r.err # "" THEN UNCHANGED <<fsm, state>>
             ELSE \E s \in Writes(n, fsm, SetPrimary(fsm, n, i)) :
                     SetState(n, "RUNNING_PRIMARY", s)
    BY <1>5, Zenon DEF RunPromote
  <2>2. i \in NodeInfo
    BY Zenon DEF NodeInfo, Roles
  <2> HIDE DEF i
  <2>3. \A s \in Writes(n, fsm, SetPrimary(fsm, n, i)) : FSMTypeOK(s)
    BY <1>1, <2>2, WritesEither, SetPrimaryType
  <2>4. state' \in [NodeNames -> States] /\ FSMTypeOK(fsm')
    <3>1. CASE UNCHANGED <<fsm, state>>
      BY <1>1, <3>1, Zenon
    <3>2. ASSUME NEW s \in Writes(n, fsm, SetPrimary(fsm, n, i)),
                 SetState(n, "RUNNING_PRIMARY", s)
          PROVE  state' \in [NodeNames -> States] /\ FSMTypeOK(fsm')
      BY <1>1, <1>2, <2>3, <3>2, SetStateType, Zenon
    <3> QED
      BY <2>1, <3>1, <3>2, Zenon
  <2>5. loop[n].pc = "run"
    BY <1>5, Zenon DEF RunPromote, Running
  <2> QED
    BY <1>1, <2>1, <2>4, <2>5, CommandResults, RanType, Zenon
<1>6. CASE RunDemote(n)
  <2>1. PICK stop \in PgStop(server[n]) :
        \E touch \in Then(stop, TouchSignal(stop.server)) :
        \E start \in Then(touch, PgStart(touch.server)) :
          /\ Ran(n, start)
          /\ IF start.err # "" THEN UNCHANGED <<fsm, state>>
             ELSE SetState(n, "RUNNING_REPLICA", fsm)
    BY <1>6, Zenon DEF RunDemote
  <2>2. PICK touch \in Then(stop, TouchSignal(stop.server)) :
        \E start \in Then(touch, PgStart(touch.server)) :
          /\ Ran(n, start)
          /\ IF start.err # "" THEN UNCHANGED <<fsm, state>>
             ELSE SetState(n, "RUNNING_REPLICA", fsm)
    BY <2>1, Zenon
  <2>3. PICK start \in Then(touch, PgStart(touch.server)) :
          /\ Ran(n, start)
          /\ IF start.err # "" THEN UNCHANGED <<fsm, state>>
             ELSE SetState(n, "RUNNING_REPLICA", fsm)
    BY <2>2, Zenon
  <2>4. stop.server \in Servers /\ stop.err \in Errors
    BY <1>1, CommandResults, Zenon
  <2>5. touch.server \in Servers /\ touch.err \in Errors
    BY <2>4, CommandResults, Zenon DEF Then
  <2>6. start.server \in Servers /\ start.err \in Errors
    BY <2>5, CommandResults, Zenon DEF Then
  <2>7. state' \in [NodeNames -> States] /\ FSMTypeOK(fsm')
    BY <1>1, <1>2, <2>3, SetStateType, Zenon
  <2>8. loop[n].pc = "run"
    BY <1>6, Zenon DEF RunDemote, Running
  <2> QED
    BY <2>3, <2>6, <2>7, <2>8, RanType, Zenon
<1> QED
  BY <1>3, <1>4, <1>5, <1>6, Zenon

\* Going on to the remaining directives (manager.go:343) keeps the loops well
\* typed.
LEMMA DoneType ==
    ASSUME TypeInv, NEW n \in NodeNames, Done(n)
    PROVE  loop' \in [NodeNames -> Loops] /\ LoopShape'
<1>1. loop[n] \in Loops
  BY Zenon DEF TypeInv, CoreInv, NodesTypeOK
<1> DEFINE S == loop[n].todo \ {loop[n].cur}
           l == [Idle EXCEPT !.pc = "dirs", !.todo = S]
<1>2. S \in SUBSET DirectiveIDs
  BY <1>1, Zenon DEF Loops
<1> HIDE DEF S
<1>3. l \in Loops /\ l.pc = "dirs"
  BY <1>2, IdleTypes, Zenon
<1>4. loop' = [loop EXCEPT ![n] = l]
  BY Zenon DEF Done, Goto, S
<1> HIDE DEF l
<1> QED
  BY <1>3, <1>4, GotoType, Zenon

\* An attempt of completeDirectiveWithRetry keeps the type invariant
\* (manager.go:358).
LEMMA CompleteType ==
    ASSUME TypeInv, NEW n \in NodeNames, Complete(n)
    PROVE  CoreInv'
<1>1. NodesTypeOK /\ LoopShape /\ FSMTypeOK(fsm) /\ loop[n] \in Loops
  BY Zenon DEF TypeInv, CoreInv, NodesTypeOK
<1>2. loop[n].err \in Errors /\ loop[n].tries \in 0 .. MaxRetries
  BY <1>1, Zenon DEF Loops
<1>3. FSMTypeOK(fsm')
  <2>1. FSMTypeOK(CompleteDirective(fsm, loop[n].cur, loop[n].err, 1))
    BY <1>1, <1>2, CompleteDirectiveType, Zenon
  <2> QED
    BY <1>1, <2>1, WritesEither, Zenon DEF Complete
<1>4. backoff' \in [NodeNames -> BOOLEAN]
  BY <1>1, Zenon DEF Complete, NodesTypeOK
<1>5. loop' \in [NodeNames -> Loops] /\ LoopShape'
  <2>1. CASE Done(n)
    BY <2>1, DoneType, Zenon
  <2>2. CASE loop[n].tries # MaxRetries /\ Goto(n, [loop[n] EXCEPT !.tries = @ + 1])
    <3> DEFINE l == [loop[n] EXCEPT !.tries = @ + 1]
    <3>1. loop[n].tries + 1 \in 0 .. MaxRetries
      BY <1>2, <2>2, ClusterAssumption
    <3>2. l \in Loops /\ l.cur = loop[n].cur /\ l.pc = loop[n].pc /\ l.from = loop[n].from
      BY <1>1, <3>1, Zenon DEF Loops
    <3>3. loop[n].pc = "complete" /\ loop[n].cur \in DirectiveIDs
      BY <1>1, Zenon DEF Complete, LoopShape
    <3>4. loop' = [loop EXCEPT ![n] = l]
      BY <2>2, Zenon DEF Goto
    <3> HIDE DEF l
    <3> QED
      BY <3>2, <3>3, <3>4, GotoType, Zenon
  <2> QED
    BY <2>1, <2>2, Zenon DEF Complete
<1> QED
  BY <1>3, <1>4, <1>5, Zenon DEF Complete, TypeInv, CoreInv, NodesTypeOK, OpShape, raft, env, controller, budget, log

\* The loop record after evaluate has read the manager's state (manager.go:246)
\* is well typed.
LEMMA ObservedType ==
    ASSUME NodesTypeOK, NEW n \in NodeNames
    PROVE  Observed(n) \in Loops /\ Observed(n).pc = "eval"
BY IdleTypes, Zenon DEF Observed, NodesTypeOK

\* MonitorDirectives keeps the type invariant (failover.go:370).
LEMMA MonitorType ==
    ASSUME TypeInv, NEW n \in NodeNames,
           Monitor(n) \/ MonitorTimeout(n) \/ MonitorClear(n)
    PROVE  CoreInv'
<1>1. NodesTypeOK /\ FSMTypeOK(fsm) /\ loop[n] \in Loops
  BY Zenon DEF TypeInv, CoreInv, NodesTypeOK
<1>2. CASE Monitor(n)
  <2>1. loop' \in [NodeNames -> Loops] /\ LoopShape'
    <3> DEFINE S == {id \in active[n] \cap DOMAIN View(n).directives :
                       View(n).directives[id].status = "pending"}
               clear == [Idle EXCEPT !.pc = "clear", !.todo = S]
    <3>1. S \in SUBSET DirectiveIDs
      <4>1. FSMTypeOK(View(n))
        BY ViewType, Zenon
      <4> QED
        BY <4>1 DEF FSMTypeOK, IsMap
    <3>2. Goto(n, clear) \/ Goto(n, Observed(n))
      BY <1>2, Zenon DEF Monitor
    <3> HIDE DEF S
    <3>3. clear \in Loops /\ clear.pc = "clear"
      BY <3>1, IdleTypes, Zenon
    <3>4. Observed(n) \in Loops /\ Observed(n).pc = "eval"
      BY <1>1, ObservedType, Zenon
    <3> HIDE DEF clear
    <3>5. CASE Goto(n, clear)
      BY <3>3, <3>5, GotoType, Zenon DEF Goto
    <3>6. CASE Goto(n, Observed(n))
      BY <3>4, <3>6, GotoType, Zenon DEF Goto
    <3> QED
      BY <3>2, <3>5, <3>6, Zenon
  <2> QED
    BY <1>2, <2>1, Zenon
       DEF Monitor, TypeInv, CoreInv, NodesTypeOK, OpShape, raft, env, manager, controller, budget, log
<1>3. CASE MonitorTimeout(n)
  <2>1. TimedOut \in Errors /\ 1 \in Nat
    BY Zenon DEF Errors, TimedOut
  <2>2. PICK id \in loop[n].todo :
          /\ \/ fsm' \in Writes(n, fsm, CompleteDirective(fsm, id, TimedOut, 1))
             \/ UNCHANGED fsm
          /\ Goto(n, [loop[n] EXCEPT !.todo = @ \ {id}])
    BY <1>3, Zenon DEF MonitorTimeout
  <2>3. FSMTypeOK(CompleteDirective(fsm, id, TimedOut, 1))
    BY <1>1, <2>1, CompleteDirectiveType, Zenon
  <2>4. FSMTypeOK(fsm')
    BY <1>1, <2>2, <2>3, WritesEither, Zenon
  <2> DEFINE l == [loop[n] EXCEPT !.todo = @ \ {id}]
  <2>5. l \in Loops /\ l.pc = loop[n].pc
    BY <1>1, Zenon DEF Loops
  <2>6. loop' = [loop EXCEPT ![n] = l] /\ loop[n].pc = "clear"
    BY <1>3, <2>2, Zenon DEF Goto, MonitorTimeout
  <2> HIDE DEF l
  <2>7. loop' \in [NodeNames -> Loops] /\ LoopShape'
    BY <2>5, <2>6, GotoType, Zenon
  <2> QED
    BY <1>3, <2>4, <2>7, Zenon
       DEF MonitorTimeout, TypeInv, CoreInv, NodesTypeOK, OpShape, raft, env, manager, controller, budget, log
<1>4. CASE MonitorClear(n)
  <2>1. loop' \in [NodeNames -> Loops] /\ LoopShape'
    BY <1>1, <1>4, ObservedType, GotoType, Zenon DEF MonitorClear, Goto
  <2> QED
    BY <1>1, <1>4, <2>1, ControllerType, Zenon
       DEF MonitorClear, TypeInv, CoreInv, NodesTypeOK, OpShape, raft, env, manager, budget, log
<1> QED
  BY <1>2, <1>3, <1>4, Zenon

\* An evaluation that moves to a state, or stays in the one it has, is typed.
LEMMA MoveType ==
    ASSUME TypeInv, NEW n \in NodeNames, NEW s, FSMTypeOK(s), NEW new \in States,
           Move(n, s, new) \/ Stay(n, s)
    PROVE  /\ state' \in [NodeNames -> States]
           /\ FSMTypeOK(fsm')
           /\ fsm'.directives = s.directives
           /\ loop' \in [NodeNames -> Loops] /\ LoopShape'
<1>1. NodesTypeOK /\ state \in [NodeNames -> States]
  BY Zenon DEF TypeInv, CoreInv, NodesTypeOK
<1>2. /\ state' \in [NodeNames -> States]
      /\ FSMTypeOK(fsm')
      /\ fsm'.directives = s.directives
  BY <1>1, SetStateType, Zenon DEF Move, Stay
<1>3. loop' = [loop EXCEPT ![n] = Idle]
  BY Zenon DEF Move, Stay, Goto
<1> QED
  BY <1>2, <1>3, ConstantTypes, GotoType, Zenon

\* checkQuorumAndSelfFence keeps the types (manager.go:653).
LEMMA CheckQuorumType ==
    ASSUME TypeInv, NEW n \in NodeNames, NEW s, FSMTypeOK(s), CheckQuorum(n, s)
    PROVE  /\ state' \in [NodeNames -> States]
           /\ FSMTypeOK(fsm') /\ fsm'.directives = s.directives
           /\ loop' \in [NodeNames -> Loops] /\ LoopShape'
           /\ server' \in [NodeNames -> Servers]
           /\ quorumLost' \in [NodeNames -> Timers]
<1>1. /\ NodesTypeOK /\ server \in [NodeNames -> Servers] /\ server[n] \in Servers
      /\ quorumLost \in [NodeNames -> Timers]
  BY Zenon DEF TypeInv, CoreInv, NodesTypeOK
<1>2. "FENCED" \in States /\ "none" \in Timers /\ "running" \in Timers
  BY Zenon DEF States, Timers
<1>3. Move(n, s, "FENCED") \/ Stay(n, s)
  BY Zenon DEF CheckQuorum
<1>4. server' \in [NodeNames -> Servers]
  <2>1. CASE server' = server
    BY <1>1, <2>1, Zenon
  <2>2. ASSUME NEW r \in PgStop(server[n]), server' = [server EXCEPT ![n] = r.server]
        PROVE  server' \in [NodeNames -> Servers]
    BY <1>1, <2>2, CommandResults, Zenon
  <2> QED
    BY <2>1, <2>2, Zenon DEF CheckQuorum
<1>5. quorumLost' \in [NodeNames -> Timers]
  <2>1. \/ quorumLost' = quorumLost
        \/ quorumLost' = [quorumLost EXCEPT ![n] = "none"]
        \/ quorumLost' = [quorumLost EXCEPT ![n] = "running"]
    BY Zenon DEF CheckQuorum
  <2> QED
    BY <1>1, <1>2, <2>1, Zenon
<1> QED
  BY <1>2, <1>3, <1>4, <1>5, MoveType, Zenon

\* The replica's evaluation keeps the types; it hands the primary it suspects
\* to the failover that follows (manager.go:281, 580).
LEMMA EvalStandbyType ==
    ASSUME TypeInv, NEW n \in NodeNames, NEW s, FSMTypeOK(s), EvalStandby(n, s)
    PROVE  /\ state' \in [NodeNames -> States]
           /\ FSMTypeOK(fsm') /\ fsm'.directives = s.directives
           /\ loop' \in [NodeNames -> Loops] /\ LoopShape'
           /\ confirm' \in [NodeNames -> Timers]
<1>1. /\ NodesTypeOK /\ state \in [NodeNames -> States] /\ state[n] \in States
      /\ confirm \in [NodeNames -> Timers]
  BY Zenon DEF TypeInv, CoreInv, NodesTypeOK
<1> DEFINE new == IF Lagging(health[n]) THEN "REPLICA_LAGGING" ELSE state[n]
<1>2. new \in States
  BY <1>1, Zenon DEF States
<1>0. PICK t \in StateWrites(n, new, s) : \E v \in Reads(n, t) :
        /\ fsm' = t
        /\ state' = [state EXCEPT ![n] = new]
        /\ IF Suspects(n, v) /\ ~inFlight[n]
           THEN /\ confirm' = [confirm EXCEPT ![n] = IF @ = "none" THEN "running" ELSE @]
                /\ Goto(n, IF confirm[n] # "expired" THEN Idle
                           ELSE [Idle EXCEPT !.pc = "start", !.from = GetPrimary(v)])
           ELSE Goto(n, Idle) /\ UNCHANGED confirm
  BY Zenon DEF EvalStandby
<1>3. PICK v \in Reads(n, t) :
        /\ fsm' = t
        /\ state' = [state EXCEPT ![n] = new]
        /\ IF Suspects(n, v) /\ ~inFlight[n]
           THEN /\ confirm' = [confirm EXCEPT ![n] = IF @ = "none" THEN "running" ELSE @]
                /\ Goto(n, IF confirm[n] # "expired" THEN Idle
                           ELSE [Idle EXCEPT !.pc = "start", !.from = GetPrimary(v)])
           ELSE Goto(n, Idle) /\ UNCHANGED confirm
  BY <1>0, Zenon
<1> HIDE DEF new
<1>4. FSMTypeOK(t) /\ t.directives = s.directives
  BY <1>1, <1>2, <1>3, SetStateType, Zenon
<1>8. FSMTypeOK(v)
  BY <1>4, ReadsType, Zenon
<1>5. state' \in [NodeNames -> States]
  BY <1>1, <1>2, <1>3, Zenon
<1>6. confirm' \in [NodeNames -> Timers]
  <2>1. CASE confirm' = confirm
    BY <1>1, <2>1, Zenon
  <2>2. CASE confirm' = [confirm EXCEPT ![n] = IF @ = "none" THEN "running" ELSE @]
    BY <1>1, <2>2, Zenon DEF Timers
  <2> QED
    BY <1>3, <2>1, <2>2, Zenon
<1>7. loop' \in [NodeNames -> Loops] /\ LoopShape'
  <2>1. CASE Goto(n, Idle)
    BY <2>1, ConstantTypes, GotoType, Zenon DEF Goto
  <2>2. CASE /\ Suspects(n, v)
             /\ Goto(n, [Idle EXCEPT !.pc = "start", !.from = GetPrimary(v)])
    <3>1. GetPrimary(v) \in NodeNames
      BY <1>8, <2>2, GetPrimaryType, Zenon DEF Suspects
    <3> DEFINE l == [Idle EXCEPT !.pc = "start", !.from = GetPrimary(v)]
    <3>2. l \in Loops /\ l.pc = "start" /\ l.from \in NodeNames
      BY <3>1, IdleTypes, Zenon
    <3>3. loop' = [loop EXCEPT ![n] = l]
      BY <2>2, Zenon DEF Goto
    <3> HIDE DEF l
    <3> QED
      BY <3>2, <3>3, GotoType, Zenon
  <2> QED
    BY <1>3, <2>1, <2>2, Zenon
<1> QED
  BY <1>3, <1>4, <1>5, <1>6, <1>7, Zenon

\* Every case of evaluate's switch keeps the types (manager.go:234).
LEMMA EvaluateType ==
    ASSUME TypeInv, NEW n \in NodeNames, Evaluate(n)
    PROVE  CoreInv' /\ fsm'.directives = fsm.directives
<1>1. /\ NodesTypeOK /\ FSMTypeOK(fsm) /\ server \in [NodeNames -> Servers]
      /\ quorumLost \in [NodeNames -> Timers]
      /\ inFlight \in [NodeNames -> BOOLEAN]
      /\ active \in [NodeNames -> SUBSET DirectiveIDs]
      /\ started \in [NodeNames -> Timers]
      /\ confirm \in [NodeNames -> Timers]
      /\ health[n] \in HealthStatus
  BY Zenon DEF TypeInv, CoreInv, NodesTypeOK
<1>2. PICK s \in Writes(n, fsm, Refresh(fsm, n, health[n].lag)) :
        \/ EvalStarting(n, s)
        \/ EvalPrimary(n, s)
        \/ EvalReplica(n, s)
        \/ EvalLagging(n, s)
        \/ EvalParked(n, s)
  BY Zenon DEF Evaluate
<1>3. FSMTypeOK(s) /\ s.directives = fsm.directives
  <2>1. health[n].lag \in Nat
    BY <1>1, Zenon DEF HealthStatus
  <2>2. /\ FSMTypeOK(Refresh(fsm, n, health[n].lag))
        /\ Refresh(fsm, n, health[n].lag).directives = fsm.directives
    BY <1>1, <2>1, UpdateNodeHealthType DEF Refresh
  <2> QED
    BY <1>1, <1>2, <2>2, WritesEither, Zenon
<1>4. \A h : RoleState(h) \in States
  BY Zenon DEF RoleState, States
<1>5. /\ "RECOVERING" \in States
      /\ "RUNNING_REPLICA" \in States
      /\ "RUNNING_PRIMARY" \in States
  BY Zenon DEF States
<1> DEFINE Typed == /\ state' \in [NodeNames -> States]
                    /\ FSMTypeOK(fsm')
                    /\ fsm'.directives = s.directives
                    /\ loop' \in [NodeNames -> Loops]
                    /\ LoopShape'
<1>6. ASSUME NEW new \in States, Move(n, s, new) \/ Stay(n, s)
      PROVE  Typed
  BY <1>3, <1>6, MoveType, Zenon
<1> DEFINE Others == /\ server' \in [NodeNames -> Servers]
                     /\ quorumLost' \in [NodeNames -> Timers]
                     /\ inFlight' \in [NodeNames -> BOOLEAN]
                     /\ active' \in [NodeNames -> SUBSET DirectiveIDs]
                     /\ started' \in [NodeNames -> Timers]
                     /\ confirm' \in [NodeNames -> Timers]
<1>7. Typed /\ Others
  <2>1. CASE EvalStarting(n, s)
    <3>1. Typed
      BY <1>4, <1>6, <2>1, Zenon DEF EvalStarting
    <3>2. Others
      BY <1>1, <2>1, Zenon DEF EvalStarting, controller
    <3> QED
      BY <3>1, <3>2, Zenon
  <2>2. CASE EvalPrimary(n, s)
    <3>1. CASE CheckQuorum(n, s)
      BY <1>1, <1>3, <2>2, <3>1, CheckQuorumType, Zenon DEF EvalPrimary, controller
    <3>2. CASE /\ Move(n, s, "RECOVERING") \/ Move(n, s, "RUNNING_REPLICA")
               /\ UNCHANGED <<server, quorumLost>>
      <4>1. Typed
        BY <1>5, <1>6, <3>2, Zenon
      <4>2. Others
        BY <1>1, <2>2, <3>2, Zenon DEF EvalPrimary, controller
      <4> QED
        BY <4>1, <4>2, Zenon
    <3> QED
      BY <2>2, <3>1, <3>2, Zenon DEF EvalPrimary
  <2>3. CASE EvalReplica(n, s)
    <3>1. CASE EvalStandby(n, s)
      BY <1>1, <1>3, <2>3, <3>1, EvalStandbyType, Zenon DEF EvalReplica
    <3>2. CASE /\ Move(n, s, "RECOVERING") \/ Move(n, s, "RUNNING_PRIMARY")
               /\ UNCHANGED confirm
      <4>1. Typed
        BY <1>5, <1>6, <3>2, Zenon
      <4>2. Others
        BY <1>1, <2>3, <3>2, Zenon DEF EvalReplica
      <4> QED
        BY <4>1, <4>2, Zenon
    <3> QED
      BY <2>3, <3>1, <3>2, Zenon DEF EvalReplica
  <2>4. CASE EvalLagging(n, s)
    <3>1. Typed
      BY <1>5, <1>6, <2>4, Zenon DEF EvalLagging
    <3>2. Others
      BY <1>1, <2>4, Zenon DEF EvalLagging, controller
    <3> QED
      BY <3>1, <3>2, Zenon
  <2>5. CASE EvalParked(n, s)
    <3>1. Typed
      BY <1>5, <1>6, <2>5, Zenon DEF EvalParked
    <3>2. Others
      BY <1>1, <2>5, Zenon DEF EvalParked, controller
    <3> QED
      BY <3>1, <3>2, Zenon
  <2> QED
    BY <1>2, <2>1, <2>2, <2>3, <2>4, <2>5, Zenon
<1>8. fsm'.directives = fsm.directives
  BY <1>3, <1>7, Zenon
<1>9. UNCHANGED <<raft, health, paused, backoff, op, budget>>
  BY Zenon DEF Evaluate
<1> QED
  BY <1>7, <1>8, <1>9, Zenon DEF TypeInv, CoreInv, NodesTypeOK, OpShape, raft, budget, log

-----------------------------------------------------------------------------
\* The replicas selectBestReplica chooses from are nodes (failover.go:526).
LEMMA BestReplicasType ==
    ASSUME NEW s, FSMTypeOK(s), NEW m
    PROVE  BestReplicas(s, m) \subseteq NodeNames
BY DEF FSMTypeOK, IsMap, BestReplicas, GetReplicas

\* Starting an automatic failover keeps the types (manager.go:580).
LEMMA StartFailoverType ==
    ASSUME TypeInv, NEW n \in NodeNames, StartFailover(n)
    PROVE  CoreInv' /\ fsm'.directives = fsm.directives
<1>1. NodesTypeOK /\ OpShape /\ LoopShape /\ FSMTypeOK(fsm) /\ state \in [NodeNames -> States]
  BY Zenon DEF TypeInv, CoreInv, NodesTypeOK
<1>2. "FAILOVER_IN_PROGRESS" \in States /\ "RUNNING_REPLICA" \in States
  BY Zenon DEF States
<1>3. loop[n].from \in NodeNames
  BY <1>1, Zenon DEF StartFailover, LoopShape
<1>4. UNCHANGED <<raft, env, paused, backoff, quorumLost, elections, faults, crashes>>
  BY Zenon DEF StartFailover
<1>5. PICK t \in StateWrites(n, "FAILOVER_IN_PROGRESS", fsm) : \E v \in Reads(n, t) :
         \/ /\ BestReplicas(v, loop[n].from) = {}
            /\ ClearFailover(n)
            /\ state' = [state EXCEPT ![n] = "RUNNING_REPLICA"]
            /\ fsm' \in Writes(n, t, Refresh(t, n, 0))
            /\ loop' = [loop EXCEPT ![n] = Idle]
            /\ UNCHANGED <<op, ops>>
         \/ \E r \in BestReplicas(v, loop[n].from) :
            /\ ops < MaxOps
            /\ Begin(n)
            /\ state' = [state EXCEPT ![n] = "FAILOVER_IN_PROGRESS"]
            /\ fsm' = t
            /\ SetOp(n, "loop", FailoverFrom(loop[n].from, r))
            /\ ops' = ops + 1
            /\ UNCHANGED loop
  BY Zenon DEF StartFailover
<1>6. FSMTypeOK(t) /\ t.directives = fsm.directives
  BY <1>1, <1>2, <1>5, SetStateType
<1>7. CASE /\ ClearFailover(n)
           /\ state' = [state EXCEPT ![n] = "RUNNING_REPLICA"]
           /\ fsm' \in Writes(n, t, Refresh(t, n, 0))
           /\ loop' = [loop EXCEPT ![n] = Idle]
           /\ UNCHANGED <<op, ops>>
  <2>1. FSMTypeOK(Refresh(t, n, 0)) /\ Refresh(t, n, 0).directives = t.directives
    BY <1>6, UpdateNodeHealthType DEF Refresh
  <2>2. FSMTypeOK(fsm') /\ fsm'.directives = fsm.directives
    BY <1>6, <1>7, <2>1, WritesEither, Zenon
  <2>3. state' \in [NodeNames -> States]
    BY <1>1, <1>2, <1>7, Zenon
  <2>4. loop' \in [NodeNames -> Loops] /\ LoopShape'
    BY <1>7, ConstantTypes, GotoType, Zenon
  <2> QED
    BY <1>1, <1>4, <1>7, <2>2, <2>3, <2>4, ControllerType, Zenon
       DEF TypeInv, CoreInv, NodesTypeOK, OpShape, raft, env, log
<1>8. ASSUME NEW v \in Reads(n, t), NEW r \in BestReplicas(v, loop[n].from),
             ops < MaxOps,
             Begin(n),
             state' = [state EXCEPT ![n] = "FAILOVER_IN_PROGRESS"],
             fsm' = t,
             SetOp(n, "loop", FailoverFrom(loop[n].from, r)),
             ops' = ops + 1,
             UNCHANGED loop
      PROVE  CoreInv' /\ fsm'.directives = fsm.directives
  <2>1. r \in NodeNames /\ "loop" \in Workers
    BY <1>6, ReadsType, BestReplicasType, Zenon DEF Workers
  <2> DEFINE o == FailoverFrom(loop[n].from, r)
  <2>2. o \in Operations /\ o.from \in NodeNames /\ o.to \in NodeNames /\ o.now \in 1 .. MaxOps
    <3>1. NodesTypeOK /\ ops < MaxOps
      BY <1>1, <1>8, Zenon
    <3>2. o = FailoverFrom(loop[n].from, r)
      BY Zenon
    <3> HIDE DEF o
    <3> QED
      BY <1>3, <2>1, <3>1, <3>2, FailoverFromType, Zenon
  <2>3. SetOp(n, "loop", o)
    BY <1>8, Zenon
  <2> HIDE DEF o
  <2>4. op' \in [NodeNames -> [Workers -> Operations]] /\ OpShape'
    BY <2>1, <2>2, <2>3, OpType, Zenon
  <2>5. ops' \in 0 .. MaxOps
    BY <1>1, <1>8, NextStamp, Zenon
  <2>6. state' \in [NodeNames -> States]
    BY <1>1, <1>2, <1>8, Zenon
  <2> QED
    BY <1>1, <1>4, <1>6, <1>8, <2>4, <2>5, <2>6, ControllerType, Zenon
       DEF TypeInv, CoreInv, NodesTypeOK, LoopShape, raft, env, log
<1> QED
  BY <1>5, <1>7, <1>8, Zenon

-----------------------------------------------------------------------------
(* Health checks, Raft, faults, restarts and the passage of time.          *)

\* The counters of the bounds stay natural numbers.
LEMMA CountersType ==
    ASSUME NodesTypeOK
    PROVE  elections + 1 \in Nat /\ faults + 1 \in Nat /\ crashes + 1 \in Nat
<1>1. elections \in Nat /\ faults \in Nat /\ crashes \in Nat
  BY Zenon DEF NodesTypeOK
<1> QED
  BY <1>1

\* A health check keeps the types (health.go:385).
LEMMA CheckType ==
    ASSUME TypeInv, NEW n \in NodeNames, Check(n)
    PROVE  CoreInv'
<1>1. /\ server[n] \in Servers /\ health \in [NodeNames -> HealthStatus]
      /\ faults \in Nat /\ Unknown \in HealthStatus
  BY ConstantTypes, Zenon DEF TypeInv, CoreInv, NodesTypeOK
<1>2. UNCHANGED <<raft, fsm, server, manager, controller, op, loop, ops, elections, crashes>>
  BY Zenon DEF Check, log
<1>3. health' \in [NodeNames -> HealthStatus] /\ faults' \in Nat
  <2>1. CASE health' = [health EXCEPT ![n] = Unknown] /\ (faults' = faults \/ faults' = faults + 1)
    BY <1>1, <2>1
  <2>2. ASSUME NEW l \in IF server[n].standby THEN Lags ELSE {0},
               health' = [health EXCEPT ![n] =
                   [healthy |-> TRUE, inRecovery |-> server[n].standby, lag |-> l]],
               faults' = faults
        PROVE  health' \in [NodeNames -> HealthStatus] /\ faults' \in Nat
    <3>1. l \in Nat
      BY ClusterAssumption, Zenon
    <3>2. server[n].standby \in BOOLEAN
      BY <1>1, Zenon DEF Servers
    <3>3. [healthy |-> TRUE, inRecovery |-> server[n].standby, lag |-> l] \in HealthStatus
      BY <3>1, <3>2, Zenon DEF HealthStatus
    <3> QED
      BY <1>1, <2>2, <3>3, Zenon
  <2> QED
    BY <2>1, <2>2, Zenon DEF Check
<1> QED
  BY <1>2, <1>3, Zenon
     DEF TypeInv, CoreInv, NodesTypeOK, OpShape, LoopShape, raft, manager, controller, log

\* A restart of the daemon leaves every variable well typed.
LEMMA RestartType ==
    ASSUME TypeInv, NEW n \in NodeNames, Restart(n)
    PROVE  CoreInv'
<1>1. NodesTypeOK /\ OpShape /\ LoopShape /\ FSMTypeOK(fsm)
  BY Zenon DEF TypeInv, CoreInv, NodesTypeOK
<1>2. loop' \in [NodeNames -> Loops] /\ LoopShape'
  BY ConstantTypes, GotoType, Zenon DEF Restart
<1>3. op' \in [NodeNames -> [Workers -> Operations]] /\ OpShape'
  <2> DEFINE none == [w \in Workers |-> NoOp]
  <2>1. none \in [Workers -> Operations] /\ \A w \in Workers : none[w].step = "none"
    BY ConstantTypes, Zenon
  <2>2. op' = [op EXCEPT ![n] = none]
    BY Zenon DEF Restart
  <2> HIDE DEF none
  <2>3. op' \in [NodeNames -> [Workers -> Operations]]
    BY <1>1, <2>1, <2>2, Zenon DEF NodesTypeOK
  <2>4. \A m \in NodeNames : op'[m] = IF m = n THEN none ELSE op[m]
    BY <1>1, <2>2, Zenon DEF NodesTypeOK
  <2>5. OpShape'
    BY <1>1, <2>1, <2>4, Zenon DEF OpShape
  <2> QED
    BY <2>3, <2>5, Zenon
<1>4. /\ leader' \in NodeNames \cup {""}
      /\ isLeader' \in [NodeNames -> BOOLEAN]
      /\ paused' \in [NodeNames -> BOOLEAN]
      /\ backoff' \in [NodeNames -> BOOLEAN]
  BY <1>1, Zenon DEF Restart, NodesTypeOK
<1>5. /\ health' \in [NodeNames -> HealthStatus]
      /\ crashes' \in Nat
  <2>1. crashes' \in Nat
    BY <1>1, CountersType, Zenon DEF Restart
  <2> QED
    BY <1>1, <2>1, ConstantTypes, Zenon DEF Restart, NodesTypeOK
<1>6. /\ state' \in [NodeNames -> States]
      /\ quorumLost' \in [NodeNames -> Timers]
  BY <1>1, Zenon DEF Restart, NodesTypeOK, States, Timers
<1>7. ClearFailover(n) /\ UNCHANGED <<contact, fsm, server, ops, elections, faults>>
  BY Zenon DEF Restart
<1> QED
  BY <1>1, <1>2, <1>3, <1>4, <1>5, <1>6, <1>7, ControllerType, Zenon DEF TypeInv, CoreInv, NodesTypeOK

\* So does everything Raft and the machines do.
LEMMA WorldType ==
    ASSUME TypeInv, NEW n \in NodeNames, World(n)
    PROVE  CoreInv'
<1>1. NodesTypeOK
  BY Zenon DEF TypeInv, CoreInv
<1>2. CASE Elect(n)
  <2>1. /\ leader' \in NodeNames \cup {""} /\ isLeader' \in [NodeNames -> BOOLEAN]
    BY <1>1, <1>2, Zenon DEF Elect, NodesTypeOK
  <2>2. elections' \in Nat
    BY <1>1, <1>2, CountersType, Zenon DEF Elect
  <2> QED
    BY <1>2, <2>1, <2>2, Zenon
       DEF Elect, TypeInv, CoreInv, NodesTypeOK, OpShape, LoopShape, env, manager, controller, log
<1>3. CASE LoseQuorum(n)
  <2>1. leader' \in NodeNames \cup {""} /\ faults' \in Nat
    BY <1>1, <1>3, CountersType, Zenon DEF LoseQuorum
  <2> QED
    BY <1>3, <2>1, Zenon
       DEF LoseQuorum, TypeInv, CoreInv, NodesTypeOK, OpShape, LoopShape, env, manager, controller, log
<1>4. CASE StepDown(n)
  <2>1. leader' \in NodeNames \cup {""} /\ isLeader' \in [NodeNames -> BOOLEAN]
    BY <1>1, <1>4, Zenon DEF StepDown, NodesTypeOK
  <2> QED
    BY <1>4, <2>1, Zenon
       DEF StepDown, TypeInv, CoreInv, NodesTypeOK, OpShape, LoopShape, env, manager, controller, budget, log
<1>5. CASE LoseContact(n)
  <2>1. contact' \in [NodeNames -> BOOLEAN]
    BY <1>1, <1>5, Zenon DEF LoseContact, NodesTypeOK
  <2>2. faults' \in Nat
    BY <1>1, <1>5, CountersType, Zenon DEF LoseContact
  <2> QED
    BY <1>5, <2>1, <2>2, Zenon
       DEF LoseContact, TypeInv, CoreInv, NodesTypeOK, OpShape, LoopShape, env, manager, controller, log
<1>6. CASE RegainContact(n)
  <2>1. contact' \in [NodeNames -> BOOLEAN]
    BY <1>1, <1>6, Zenon DEF RegainContact, NodesTypeOK
  <2> QED
    BY <1>6, <2>1, Zenon
       DEF RegainContact, TypeInv, CoreInv, NodesTypeOK, OpShape, LoopShape, env, manager, controller, budget, log
<1>7. CASE ServerFault(n)
  <2>1. server' \in [NodeNames -> Servers]
    BY <1>1, <1>7, Zenon DEF ServerFault, NodesTypeOK, Servers
  <2>2. faults' \in Nat
    BY <1>1, <1>7, CountersType, Zenon DEF ServerFault
  <2> QED
    BY <1>7, <2>1, <2>2, Zenon
       DEF ServerFault, TypeInv, CoreInv, NodesTypeOK, OpShape, LoopShape, raft, manager, controller, log
<1>8. CASE CatchUp(n)
  BY <1>8, Zenon
     DEF CatchUp, TypeInv, CoreInv, NodesTypeOK, OpShape, LoopShape, raft, env, manager,
         controller, budget
<1> QED
  BY <1>2, <1>3, <1>4, <1>5, <1>6, <1>7, <1>8, CheckType, RestartType, Zenon DEF World

\* Timers and ages run out without leaving their types.
LEMMA TimeStepType ==
    ASSUME TypeInv, NEW n \in NodeNames, TimeStep(n)
    PROVE  CoreInv'
<1>1. NodesTypeOK /\ FSMTypeOK(fsm)
  BY Zenon DEF TypeInv, CoreInv, NodesTypeOK
<1>2. CASE ConfirmationElapses(n)
  <2>1. confirm' \in [NodeNames -> Timers]
    BY <1>1, <1>2, Zenon DEF ConfirmationElapses, Expire, NodesTypeOK, Timers
  <2> QED
    BY <1>2, <2>1, Zenon
       DEF ConfirmationElapses, TypeInv, CoreInv, NodesTypeOK, OpShape, LoopShape, raft, env, manager, budget, log
<1>3. CASE DirectiveTimeout(n)
  <2>1. started' \in [NodeNames -> Timers]
    BY <1>1, <1>3, Zenon DEF DirectiveTimeout, Expire, NodesTypeOK, Timers
  <2> QED
    BY <1>3, <2>1, Zenon
       DEF DirectiveTimeout, TypeInv, CoreInv, NodesTypeOK, OpShape, LoopShape, raft, env, manager, budget, log
<1>4. CASE QuorumTimeout(n)
  <2>1. quorumLost' \in [NodeNames -> Timers]
    BY <1>1, <1>4, Zenon DEF QuorumTimeout, Expire, NodesTypeOK, Timers
  <2> QED
    BY <1>4, <2>1, Zenon
       DEF QuorumTimeout, TypeInv, CoreInv, NodesTypeOK, OpShape, LoopShape, raft, env, controller, budget, log
<1>5. CASE BackoffEnds(n)
  <2>1. backoff' \in [NodeNames -> BOOLEAN]
    BY <1>1, <1>5, Zenon DEF BackoffEnds, NodesTypeOK
  <2> QED
    BY <1>5, <2>1, Zenon
       DEF BackoffEnds, TypeInv, CoreInv, NodesTypeOK, OpShape, LoopShape, raft, env, controller, budget, log
<1> QED
  BY <1>2, <1>3, <1>4, <1>5, Zenon DEF TimeStep

\* Health data that age leave the state well typed and the directives alone.
LEMMA AgedType ==
    ASSUME NEW s, FSMTypeOK(s), NEW n \in NodeNames
    PROVE  FSMTypeOK(Aged(s, n)) /\ Aged(s, n).directives = s.directives
<1>1. CASE n \in DOMAIN s.nodes
  <2>1. s.nodes[n] \in NodeInfo
    BY <1>1 DEF FSMTypeOK, IsMap
  <2>2. s.nodes[n].lag \in Nat /\ 0 \in Nat
    BY <2>1, Zenon DEF NodeInfo
  <2> QED
    BY <2>2, UpdateNodeHealthType, Zenon DEF Aged
<1>2. CASE n \notin DOMAIN s.nodes
  BY <1>2, Zenon DEF Aged, UpdateNodeHealth
<1> QED
  BY <1>1, <1>2, Zenon

\* The ageing of health data keeps the types.
LEMMA StaleType ==
    ASSUME TypeInv, NEW n \in NodeNames, HealthGoesStale(n)
    PROVE  CoreInv' /\ fsm'.directives = fsm.directives
<1>1. FSMTypeOK(fsm)
  BY Zenon DEF TypeInv, CoreInv, NodesTypeOK
<1>2. FSMTypeOK(fsm') /\ fsm'.directives = fsm.directives
  BY <1>1, AgedType, Zenon DEF HealthGoesStale
<1> QED
  BY <1>2, Zenon
     DEF HealthGoesStale, TypeInv, CoreInv, NodesTypeOK, OpShape, LoopShape, raft, env,
         manager, controller, budget

\* The ways in which a step changes the log and how far the replicas are in it.
HistoryMove ==
    \/ \E n \in NodeNames : Replicate(n)
    \/ UNCHANGED log
    \/ \E n \in NodeNames : HealthGoesStale(n)
    \/ /\ UNCHANGED <<fsm, older, succeeded>>
       /\ \E n \in NodeNames : CatchUp(n) \/ Restart(n)

\* Every step is one of them.
LEMMA HistoryMoves ==
    ASSUME [Next]_vars
    PROVE  HistoryMove
<1>1. Daemons \subseteq NodeNames
  BY ClusterAssumption, Zenon
<1>2. ASSUME NEW n \in NodeNames, LoopStep(n) PROVE HistoryMove
  BY <1>2, Zenon
     DEF HistoryMove, LoopStep, Tick, NextDirective, RunFence, RunPromote, RunDemote,
         RunCheckpoint, Complete, Monitor, MonitorTimeout, MonitorClear, Evaluate,
         StartFailover
<1>3. ASSUME NEW n \in NodeNames, NEW w \in Workers, OpStep(n, w) PROVE HistoryMove
  BY <1>3, Zenon
     DEF HistoryMove, OpStep, PublishFence, PublishPromote, PublishCheckpoint,
         PublishDemote, Publish, AwaitCheckpoint, AwaitSync, WaitTimeout
<1>4. ASSUME NEW n \in NodeNames, ApiCall(n) \/ TimeStep(n) PROVE HistoryMove
  BY <1>4, Zenon
     DEF HistoryMove, ApiCall, ManualFailover, ManualSwitchover, StartManual, Pause,
         Resume, TimeStep, ConfirmationElapses, DirectiveTimeout, QuorumTimeout,
         BackoffEnds
<1>5. ASSUME NEW n \in NodeNames, World(n) PROVE HistoryMove
  BY <1>5, Zenon
     DEF HistoryMove, World, Check, Elect, LoseQuorum, StepDown, LoseContact,
         RegainContact, ServerFault, CatchUp, Restart
<1>6. CASE UNCHANGED vars
  BY <1>6, Zenon DEF HistoryMove, vars
<1> QED
  BY <1>1, <1>2, <1>3, <1>4, <1>5, <1>6, Zenon DEF Next, HistoryMove

\* A replica is never further behind than the bound.
LEMMA BehindType ==
    ASSUME TypeInv, NEW n \in NodeNames, Replicate(n) \/ CatchUp(n) \/ Restart(n)
    PROVE  behind' \in [NodeNames -> 0 .. MaxBehind]
<1>1. /\ behind \in [NodeNames -> 0 .. MaxBehind]
      /\ \A m \in NodeNames : behind[m] \in 0 .. MaxBehind
  BY Zenon DEF TypeInv, HistoryTypeOK
<1>2. MaxBehind \in Nat
  BY ClusterAssumption, Zenon
<1>3. ASSUME NEW b \in 0 .. MaxBehind, behind' = [behind EXCEPT ![n] = b]
      PROVE  behind' \in [NodeNames -> 0 .. MaxBehind]
  BY <1>1, <1>3, Zenon
<1>4. CASE CatchUp(n)
  <2>1. behind[n] - 1 \in 0 .. MaxBehind
    BY <1>1, <1>2, <1>4 DEF CatchUp
  <2> QED
    BY <1>3, <1>4, <2>1, Zenon DEF CatchUp
<1>5. CASE Restart(n)
  <2>1. \A b \in behind[n] .. MaxBehind : b \in 0 .. MaxBehind
    BY <1>1, <1>2
  <2> QED
    BY <1>3, <1>5, <2>1, Zenon DEF Restart
<1>6. CASE Replicate(n)
  <2>1. ASSUME NEW m \in NodeNames
        PROVE  /\ 0 \in 0 .. MaxBehind /\ MaxBehind \in 0 .. MaxBehind
               /\ behind[m] < MaxBehind => behind[m] + 1 \in 0 .. MaxBehind
    BY <1>1, <1>2
  <2> QED
    BY <1>1, <1>6, <2>1, Zenon DEF Replicate
<1> QED
  BY <1>4, <1>5, <1>6, Zenon

\* The states a replica may still be in are typed like the newest one.
LEMMA HistoryType ==
    ASSUME TypeInv, CoreInv', [Next]_vars
    PROVE  HistoryTypeOK'
<1>1. FSMTypeOK(fsm) /\ FSMTypeOK(fsm') /\ HistoryTypeOK
  BY Zenon DEF TypeInv, CoreInv, NodesTypeOK
<1>2. ASSUME NEW n \in NodeNames, Replicate(n) PROVE HistoryTypeOK'
  <2>1. succeeded' \subseteq DirectiveIDs
    <3>1. DOMAIN fsm'.directives \subseteq DirectiveIDs
      BY <1>1 DEF FSMTypeOK, IsMap
    <3> QED
      BY <1>1, <1>2, <3>1, Zenon DEF Replicate, HistoryTypeOK
  <2>2. /\ DOMAIN older' = 1 .. MaxBehind
        /\ \A i \in 1 .. MaxBehind : FSMTypeOK(older'[i])
    <3>1. CASE UNCHANGED older
      BY <1>1, <3>1, Zenon DEF HistoryTypeOK
    <3>2. CASE older' = [i \in 1 .. MaxBehind |-> IF i = 1 THEN fsm ELSE older[i - 1]]
      <4>1. \A i \in 1 .. MaxBehind : i # 1 => i - 1 \in 1 .. MaxBehind
        BY ClusterAssumption
      <4> QED
        BY <1>1, <3>2, <4>1, Zenon DEF HistoryTypeOK
    <3> QED
      BY <1>2, <3>1, <3>2, Zenon DEF Replicate
  <2> QED
    BY <1>2, <2>1, <2>2, BehindType, Zenon DEF HistoryTypeOK
<1>3. ASSUME NEW n \in NodeNames, HealthGoesStale(n) PROVE HistoryTypeOK'
  BY <1>1, <1>3, AgedType, Zenon DEF HealthGoesStale, HistoryTypeOK
<1>4. ASSUME NEW n \in NodeNames, CatchUp(n) \/ Restart(n), UNCHANGED <<older, succeeded>>
      PROVE  HistoryTypeOK'
  BY <1>1, <1>4, BehindType, Zenon DEF HistoryTypeOK
<1>5. CASE UNCHANGED log
  BY <1>1, <1>5, Zenon DEF log, HistoryTypeOK
<1> QED
  BY <1>2, <1>3, <1>4, <1>5, HistoryMoves, Zenon DEF HistoryMove

\* Every step of the cluster preserves the inductive type invariant.
LEMMA NextType == TypeInv /\ [Next]_vars => TypeInv'
<1> SUFFICES ASSUME TypeInv, [Next]_vars PROVE TypeInv'
  BY Zenon
<1>0. Daemons \subseteq NodeNames
  BY ClusterAssumption, Zenon
<1>1. CASE UNCHANGED vars
  BY <1>1, Zenon DEF vars, log, TypeInv, CoreInv, NodesTypeOK, HistoryTypeOK, OpShape,
                     LoopShape, raft, env, manager, controller, budget
<1>2. ASSUME NEW n \in NodeNames, LoopStep(n) PROVE CoreInv'
  BY <1>2, TickType, NextDirectiveType, RunType, CompleteType, MonitorType, EvaluateType,
     StartFailoverType, Zenon DEF LoopStep
<1>3. ASSUME NEW n \in NodeNames, NEW w \in Workers, OpStep(n, w) PROVE CoreInv'
  BY <1>3, OpStepType, Zenon
<1>4. ASSUME NEW n \in NodeNames, ApiCall(n) PROVE CoreInv'
  BY <1>4, ApiCallType, Zenon
<1>5. ASSUME NEW n \in NodeNames, TimeStep(n) PROVE CoreInv'
  BY <1>5, TimeStepType, Zenon
<1>6. ASSUME NEW n \in NodeNames, World(n) PROVE CoreInv'
  BY <1>6, WorldType, Zenon
<1>7. ASSUME NEW n \in NodeNames, HealthGoesStale(n) PROVE CoreInv'
  BY <1>7, StaleType, Zenon
<1>8. CASE Next
  <2>1. CoreInv'
    BY <1>0, <1>2, <1>3, <1>4, <1>5, <1>6, <1>7, <1>8, Zenon DEF Next
  <2> QED
    BY <2>1, HistoryType, Zenon DEF TypeInv
<1> QED
  BY <1>1, <1>8, Zenon

\* The inductive type invariant holds throughout.
THEOREM TypeInvariant == Spec => []TypeInv
BY InitType, NextType, PTL DEF Spec

\* Type correctness, with the bound of completeDirectiveWithRetry on the number
\* of attempts (manager.go:358).
THEOREM TypeCorrect == Spec => []TypeOK
<1>1. TypeInv => TypeOK
  BY Zenon DEF TypeInv, CoreInv, TypeOK
<1> QED
  BY <1>1, TypeInvariant, PTL

-----------------------------------------------------------------------------
Clock(n) == TimeStep(n) \/ HealthGoesStale(n)

NodeStep(n) ==
    \/ LoopStep(n)
    \/ \E w \in Workers : OpStep(n, w)
    \/ ApiCall(n)
    \/ Clock(n)
    \/ World(n)

\* Every step belongs to a node: its loop, an operation, an API call, its clocks
\* or what happens to it.
LEMMA NextCases ==
    ASSUME Next
    PROVE  \E n \in NodeNames : NodeStep(n)
<1>1. Daemons \subseteq NodeNames
  BY ClusterAssumption, Zenon
<1>2. ASSUME NEW n \in Daemons, \/ LoopStep(n)
                                \/ \E w \in Workers : OpStep(n, w)
                                \/ ApiCall(n)
                                \/ TimeStep(n)
                                \/ World(n)
      PROVE  n \in NodeNames /\ NodeStep(n)
  BY <1>1, <1>2, Zenon DEF Clock, NodeStep
<1>3. ASSUME NEW n \in NodeNames, HealthGoesStale(n)
      PROVE  NodeStep(n)
  BY <1>3, Zenon DEF Clock, NodeStep
<1> QED
  BY <1>2, <1>3, Zenon DEF Next

-----------------------------------------------------------------------------
(* What one step may do to the operations and to the directives.           *)

\* SetOp changes one operation.
LEMMA OpSet ==
    ASSUME NodesTypeOK, NEW n \in NodeNames, NEW w \in Workers, NEW o, SetOp(n, w, o)
    PROVE  /\ op'[n][w] = o
           /\ \A m \in NodeNames, v \in Workers : m # n \/ v # w => op'[m][v] = op[m][v]
BY Zenon DEF NodesTypeOK, SetOp

-----------------------------------------------------------------------------
(* InFlightCanEnd is inductive given the types.                            *)

\* A controller that has been cleared is not in flight.
LEMMA ClearedCanEnd ==
    ASSUME NodesTypeOK, InFlightCanEnd, NEW n \in NodeNames, ClearFailover(n),
           \A m \in NodeNames, v \in Workers : m # n => op'[m][v] = op[m][v]
    PROVE  InFlightCanEnd'
<1>1. /\ ~inFlight'[n]
      /\ \A m \in NodeNames : m # n => /\ inFlight'[m] = inFlight[m]
                                       /\ active'[m] = active[m]
                                       /\ started'[m] = started[m]
  BY Zenon DEF ClearFailover, NodesTypeOK
<1> QED
  BY <1>1 DEF InFlightCanEnd

\* A controller that has begun has its clock running and an operation at work.
LEMMA BegunCanEnd ==
    ASSUME NodesTypeOK, InFlightCanEnd, NEW n \in NodeNames, NEW w \in Workers, Begin(n),
           op'[n][w] # NoOp,
           \A m \in NodeNames, v \in Workers : m # n \/ v # w => op'[m][v] = op[m][v]
    PROVE  InFlightCanEnd'
<1>1. /\ started'[n] = "running"
      /\ \A m \in NodeNames : m # n => /\ inFlight'[m] = inFlight[m]
                                       /\ active'[m] = active[m]
                                       /\ started'[m] = started[m]
  BY Zenon DEF Begin, NodesTypeOK
<1> QED
  BY <1>1 DEF InFlightCanEnd

\* An operation's steps end it only after its directives are tracked.
LEMMA OpStepCanEnd ==
    ASSUME TypeInv, InFlightCanEnd, NEW n \in NodeNames, NEW w \in Workers, OpStep(n, w)
    PROVE  InFlightCanEnd'
<1>1. NodesTypeOK /\ NoOp.step = "none"
  BY ConstantTypes, Zenon DEF TypeInv, CoreInv
<1>2. ASSUME NEW s, Abort(n, w, s)
      PROVE  InFlightCanEnd'
  <2>1. SetOp(n, w, NoOp) /\ ClearFailover(n)
    BY <1>2, Zenon DEF Abort
  <2>2. \A m \in NodeNames, v \in Workers : m # n \/ v # w => op'[m][v] = op[m][v]
    BY <1>1, <2>1, OpSet, Zenon
  <2> QED
    BY <1>1, <2>1, <2>2, ClearedCanEnd, Zenon
<1>3. ASSUME NEW o, o.step # "none", UNCHANGED controller, SetOp(n, w, o)
      PROVE  InFlightCanEnd'
  <2>1. /\ op'[n][w] # NoOp
        /\ \A m \in NodeNames, v \in Workers : m # n \/ v # w => op'[m][v] = op[m][v]
    BY <1>1, <1>3, OpSet
  <2> QED
    BY <1>3, <2>1 DEF InFlightCanEnd, controller
<1>4. op[n][w] \in Operations
  BY <1>1, Zenon DEF NodesTypeOK
<1>5. ASSUME NEW type, NEW target, NEW next, Publish(n, w, type, target, next)
      PROVE  InFlightCanEnd'
  <2> DEFINE id == <<op[n][w].now, type>>
             p == [op[n][w] EXCEPT !.step = next, !.ids = @ \cup {id}]
  <2>1. CASE \E s : Abort(n, w, s)
    BY <1>2, <2>1, Zenon
  <2>2. CASE /\ active' = [active EXCEPT ![n] = op[n][w].ids \cup {id}]
             /\ UNCHANGED <<inFlight, started, confirm>>
             /\ SetOp(n, w, NoOp)
    <3>1. \A m \in NodeNames, v \in Workers : m # n \/ v # w => op'[m][v] = op[m][v]
      BY <1>1, <2>2, OpSet
    <3>2. /\ active'[n] # {}
          /\ \A m \in NodeNames : m # n => active'[m] = active[m]
      BY <1>1, <2>2, Zenon DEF NodesTypeOK
    <3> QED
      BY <2>2, <3>1, <3>2 DEF InFlightCanEnd
  <2>3. CASE next # "none" /\ SetOp(n, w, p) /\ UNCHANGED controller
    <3>1. p.step = next
      BY <1>4, Zenon DEF Operations
    <3> HIDE DEF p
    <3> QED
      BY <1>3, <2>3, <3>1, Zenon
  <2> QED
    BY <1>5, <2>1, <2>2, <2>3, Zenon DEF Publish
<1>6. ASSUME NEW next, next # "none", SetOp(n, w, [op[n][w] EXCEPT !.step = next]),
             UNCHANGED controller
      PROVE  InFlightCanEnd'
  <2> DEFINE p == [op[n][w] EXCEPT !.step = next]
  <2>1. p.step = next /\ SetOp(n, w, p)
    BY <1>4, <1>6, Zenon DEF Operations
  <2> HIDE DEF p
  <2> QED
    BY <1>3, <1>6, <2>1, Zenon
<1> QED
  BY <1>2, <1>5, <1>6, Zenon
     DEF OpStep, PublishFence, PublishPromote, PublishCheckpoint, PublishDemote,
         AwaitCheckpoint, AwaitSync, WaitTimeout

\* No step leaves a controller in flight without a way back.
LEMMA NextCanEnd == TypeInv /\ InFlightCanEnd /\ [Next]_vars => InFlightCanEnd'
<1> SUFFICES ASSUME TypeInv, InFlightCanEnd, [Next]_vars PROVE InFlightCanEnd'
  BY Zenon
<1>1. NodesTypeOK /\ FSMTypeOK(fsm)
  BY Zenon DEF TypeInv, CoreInv, NodesTypeOK
<1>2. ASSUME UNCHANGED <<inFlight, active, started, op>>
      PROVE  InFlightCanEnd'
  BY <1>2, Zenon DEF InFlightCanEnd
<1>3. ASSUME NEW n \in NodeNames, LoopStep(n) PROVE InFlightCanEnd'
  <2>1. CASE MonitorClear(n)
    BY <1>1, <2>1, ClearedCanEnd, Zenon DEF MonitorClear
  <2>2. CASE StartFailover(n)
    <3>1. \/ ClearFailover(n) /\ UNCHANGED op
          \/ \E r : /\ ops < MaxOps
                    /\ Begin(n)
                    /\ SetOp(n, "loop", FailoverFrom(loop[n].from, r))
      BY <2>2, Zenon DEF StartFailover
    <3>2. CASE ClearFailover(n) /\ UNCHANGED op
      BY <1>1, <3>2, ClearedCanEnd, Zenon
    <3>3. ASSUME NEW r, ops < MaxOps, Begin(n),
                 SetOp(n, "loop", FailoverFrom(loop[n].from, r))
          PROVE  InFlightCanEnd'
      <4> DEFINE o == FailoverFrom(loop[n].from, r)
      <4>1. o # NoOp
        BY Zenon DEF FailoverFrom, Operation, NoOp
      <4>2. "loop" \in Workers
        BY Zenon DEF Workers
      <4>3. SetOp(n, "loop", o)
        BY <3>3, Zenon
      <4> HIDE DEF o
      <4>4. /\ op'[n]["loop"] # NoOp
            /\ \A m \in NodeNames, v \in Workers :
                 m # n \/ v # "loop" => op'[m][v] = op[m][v]
        BY <1>1, <4>1, <4>2, <4>3, OpSet, Zenon
      <4> QED
        BY <1>1, <3>3, <4>2, <4>4, BegunCanEnd, Zenon
    <3> QED
      BY <3>1, <3>2, <3>3, Zenon
  <2>3. CASE Evaluate(n)
    <3>1. UNCHANGED <<inFlight, active, started, op>>
      BY <2>3, Zenon DEF Evaluate, EvalStarting, EvalPrimary, EvalReplica, EvalLagging, EvalParked,
                  controller
    <3> QED
      BY <1>2, <3>1, Zenon
  <2> QED
    BY <1>2, <1>3, <2>1, <2>2, <2>3, Zenon
       DEF LoopStep, Tick, NextDirective, RunFence, RunPromote, RunDemote, RunCheckpoint,
           Ran, Complete, Monitor, MonitorTimeout, controller
<1>4. ASSUME NEW n \in NodeNames, NEW w \in Workers, OpStep(n, w) PROVE InFlightCanEnd'
  BY <1>4, OpStepCanEnd, Zenon
<1>5. ASSUME NEW n \in NodeNames, ApiCall(n) PROVE InFlightCanEnd'
  <2>1. CASE Pause(n) \/ Resume(n)
    BY <1>2, <2>1, Zenon DEF Pause, Resume, controller
  <2>2. ASSUME NEW w \in ApiWorkers, NEW o, o # NoOp, StartManual(n, w, o)
        PROVE  InFlightCanEnd'
    <3>1. w \in Workers
      BY Zenon DEF Workers
    <3>2. Begin(n) /\ SetOp(n, w, o)
      BY <2>2, Zenon DEF StartManual
    <3>3. /\ op'[n][w] # NoOp
          /\ \A m \in NodeNames, v \in Workers : m # n \/ v # w => op'[m][v] = op[m][v]
      BY <1>1, <2>2, <3>1, <3>2, OpSet, Zenon
    <3> QED
      BY <1>1, <3>1, <3>2, <3>3, BegunCanEnd, Zenon
  <2>3. \A from, to : /\ FailoverFrom(from, to) # NoOp
                      /\ Operation("switchover", "checkpoint", from, to) # NoOp
    BY Zenon DEF FailoverFrom, Operation, NoOp
  <2> QED
    BY <1>5, <2>1, <2>2, <2>3, Zenon DEF ApiCall, ManualFailover, ManualSwitchover
<1>6. ASSUME NEW n \in NodeNames, Clock(n) PROVE InFlightCanEnd'
  <2>1. CASE DirectiveTimeout(n)
    <3>1. \A m \in NodeNames : started[m] # "none" => started'[m] # "none"
      BY <1>1, <2>1, Zenon DEF DirectiveTimeout, Expire, NodesTypeOK
    <3> QED
      BY <2>1, <3>1, Zenon DEF DirectiveTimeout, InFlightCanEnd
  <2> QED
    BY <1>2, <1>6, <2>1, Zenon
       DEF Clock, TimeStep, ConfirmationElapses, QuorumTimeout, BackoffEnds, HealthGoesStale,
           controller
<1>7. ASSUME NEW n \in NodeNames, World(n) PROVE InFlightCanEnd'
  <2>1. CASE Restart(n)
    <3>1. \A m \in NodeNames, v \in Workers : m # n => op'[m][v] = op[m][v]
      BY <1>1, <2>1, Zenon DEF Restart, NodesTypeOK
    <3> QED
      BY <1>1, <2>1, <3>1, ClearedCanEnd, Zenon DEF Restart
  <2> QED
    BY <1>2, <1>7, <2>1, Zenon
       DEF World, Check, Elect, LoseQuorum, StepDown, LoseContact, RegainContact,
           ServerFault, CatchUp, controller
<1>8. CASE UNCHANGED vars
  BY <1>2, <1>8, Zenon DEF vars, controller
<1> QED
  BY <1>3, <1>4, <1>5, <1>6, <1>7, <1>8, NextCases, Zenon DEF NodeStep

\* A controller in flight can always end, for any number of nodes, operations
\* that overlap on a node, leader changes and restarts (failover.go:368).
THEOREM InFlightSafe == Spec => []InFlightCanEnd
<1>1. Init => InFlightCanEnd
  BY Zenon DEF Init, InFlightCanEnd
<1> QED
  BY <1>1, NextCanEnd, TypeInvariant, PTL DEF Spec

-----------------------------------------------------------------------------
(* Which directives are committed, in which order, and who carries them    *)
(* out.  The many actions of FailoverCluster are first reduced to the few  *)
(* ways in which a step can touch operations and committed directives      *)
(* (StepKinds); the invariants are then proved against those.              *)

\* No directive comes or goes or changes its type or target.
Kept ==
    /\ DOMAIN fsm'.directives = DOMAIN fsm.directives
    /\ \A x \in DOMAIN fsm.directives :
          /\ fsm'.directives[x].type = fsm.directives[x].type
          /\ fsm'.directives[x].target = fsm.directives[x].target

OthersKept(n, w) ==
    \A m \in NodeNames, v \in Workers : m # n \/ v # w => op'[m][v] = op[m][v]

\* Operations stay as they are or end, and directives are at most resolved.
Calm ==
    /\ ops' = ops
    /\ \A m \in NodeNames, v \in Workers : op'[m][v] = op[m][v] \/ op'[m][v] = NoOp
    /\ Kept
    /\ \/ fsm'.directives = fsm.directives
       \/ \E n \in NodeNames : Complete(n) \/ MonitorTimeout(n)

\* An operation begins with the next time stamp.
Opened(n, w) ==
    /\ ops' = ops + 1
    /\ op'[n][w].now = ops + 1 /\ op'[n][w].ids = {}
    /\ op'[n][w].step \in {"fence", "promote", "checkpoint"}
    /\ op'[n][w].step = "promote" => ~FencingEnabled
    /\ OthersKept(n, w)
    /\ fsm'.directives = fsm.directives

\* The directive an operation commits in each of its steps, and the step that
\* comes next.
Scheduled(step, type, next) ==
    \/ step = "fence" /\ type = "FENCE" /\ next = "promote"
    \/ step = "promote" /\ type = "PROMOTE" /\ next = "none"
    \/ step = "checkpoint" /\ type = "CHECKPOINT" /\ next = "await"
    \/ step = "demote" /\ type = "DEMOTE" /\ next = "promote"

Committed(n, w, type, next, target) ==
    /\ ops' = ops
    /\ Scheduled(op[n][w].step, type, next)
    /\ target \in NodeNames
    /\ fsm'.directives = Put(fsm.directives, <<op[n][w].now, type>>,
                             NewDirective(type, target))
    /\ OthersKept(n, w)
    /\ \/ op'[n][w] = NoOp
       \/ /\ next # "none"
          /\ op'[n][w].step = next
          /\ op'[n][w].now = op[n][w].now
          /\ op'[n][w].ids = op[n][w].ids \cup {<<op[n][w].now, type>>}

\* A wait of a switchover ends well.
Waited(n, w) ==
    /\ ops' = ops
    /\ fsm'.directives = fsm.directives
    /\ OthersKept(n, w)
    /\ op'[n][w].now = op[n][w].now /\ op'[n][w].ids = op[n][w].ids
    /\ \/ /\ op[n][w].step = "await" /\ op'[n][w].step = "sync"
          /\ <<op[n][w].now, "CHECKPOINT">> \in DOMAIN View(n).directives
          /\ View(n).directives[<<op[n][w].now, "CHECKPOINT">>].status = "completed"
       \/ op[n][w].step = "sync" /\ op'[n][w].step = "demote"

\* An aborted operation has ended; its FSM has the directives it was given.
LEMMA AbortKinds ==
    ASSUME TypeInv, NEW n \in NodeNames, NEW w \in Workers, NEW s, FSMTypeOK(s),
           Abort(n, w, s)
    PROVE  /\ op'[n][w] = NoOp /\ OthersKept(n, w)
           /\ fsm'.directives = s.directives
<1>1. NodesTypeOK /\ SetOp(n, w, NoOp)
  BY Zenon DEF TypeInv, CoreInv, Abort
<1>2. op'[n][w] = NoOp /\ OthersKept(n, w)
  BY <1>1, OpSet, Zenon DEF OthersKept
<1> QED
  BY <1>2, AbortType, Zenon

\* A publication commits its directive or nothing (failover.go:193, 270).
LEMMA PublishKinds ==
    ASSUME TypeInv, NEW n \in NodeNames, NEW w \in Workers,
           NEW type \in DirectiveTypes, NEW target \in NodeNames, NEW next,
           Scheduled(op[n][w].step, type, next),
           Publish(n, w, type, target, next)
    PROVE  Calm \/ Committed(n, w, type, next, target)
<1> DEFINE o == op[n][w]
           id == <<o.now, type>>
           s == PublishDirective(fsm, id, NewDirective(type, target))
           p == [o EXCEPT !.step = next, !.ids = @ \cup {id}]
<1>1. NodesTypeOK /\ OpShape /\ FSMTypeOK(fsm) /\ o \in Operations
  BY Zenon DEF TypeInv, CoreInv, NodesTypeOK
<1>2. id \in DirectiveIDs /\ NewDirective(type, target) \in Directive
  <2>1. o.step # "none"
    BY Zenon DEF Scheduled
  <2>2. o.now \in 1 .. MaxOps
    BY <1>1, <2>1, Zenon DEF OpShape
  <2> QED
    BY <2>2, NewDirectiveType, Zenon
<1>3. /\ FSMTypeOK(s)
      /\ s.directives = Put(fsm.directives, id, NewDirective(type, target))
  <2>1. FSMTypeOK(s)
    BY <1>1, <1>2, PublishDirectiveType, Zenon
  <2>2. s.directives = Put(fsm.directives, id, NewDirective(type, target))
    BY <1>1 DEF PublishDirective, FSMTypeOK
  <2> QED
    BY <2>1, <2>2, Zenon
<1>4. ops' = ops
  BY Zenon DEF Publish, budget
<1>5. CASE \E t \in Writes(n, fsm, s) : Abort(n, w, t)
  <2>1. PICK t \in Writes(n, fsm, s) : Abort(n, w, t)
    BY <1>5, Zenon
  <2> HIDE DEF s, id
  <2>2. t = fsm \/ t = s
    BY <2>1, WritesEither, Zenon
  <2>3. FSMTypeOK(t)
    BY <1>1, <1>3, <2>2, Zenon
  <2>4. op'[n][w] = NoOp /\ OthersKept(n, w) /\ fsm'.directives = t.directives
    BY <2>1, <2>3, AbortKinds, Zenon
  <2>5. CASE t = fsm
    BY <1>4, <2>4, <2>5, Zenon DEF Calm, Kept, OthersKept
  <2>6. CASE t = s
    BY <1>3, <1>4, <2>4, <2>6, Zenon DEF Committed, id
  <2> QED
    BY <2>2, <2>5, <2>6, Zenon
<1>6. CASE fsm' = s /\ SetOp(n, w, NoOp)
  <2>1. op'[n][w] = NoOp /\ OthersKept(n, w)
    BY <1>1, <1>6, OpSet, Zenon DEF OthersKept
  <2> QED
    BY <1>3, <1>4, <1>6, <2>1, Zenon DEF Committed
<1>7. CASE fsm' = s /\ next # "none" /\ SetOp(n, w, p)
  <2>1. p.step = next /\ p.now = o.now /\ p.ids = o.ids \cup {id}
    BY <1>1, Zenon DEF Operations
  <2> HIDE DEF p
  <2>2. op'[n][w] = p /\ OthersKept(n, w)
    BY <1>1, <1>7, OpSet, Zenon DEF OthersKept
  <2> QED
    BY <1>3, <1>4, <1>7, <2>1, <2>2, Zenon DEF Committed
<1> QED
  BY <1>5, <1>6, <1>7, Zenon DEF Publish

\* Every step of an operation is of one of the kinds.
LEMMA OpStepKinds ==
    ASSUME TypeInv, NEW n \in NodeNames, NEW w \in Workers, OpStep(n, w)
    PROVE  \/ Calm
           \/ \E type, next, target : Committed(n, w, type, next, target)
           \/ Waited(n, w)
<1> DEFINE o == op[n][w]
<1>1. NodesTypeOK /\ OpShape /\ FSMTypeOK(fsm) /\ o \in Operations
  BY Zenon DEF TypeInv, CoreInv, NodesTypeOK
<1>2. o.step # "none" => o.from \in NodeNames /\ o.to \in NodeNames
  BY <1>1, Zenon DEF OpShape
<1>3. CASE PublishFence(n, w)
  <2>1. o.step = "fence" /\ Publish(n, w, "FENCE", o.from, "promote")
    BY <1>3, Zenon DEF PublishFence
  <2>2. o.from \in NodeNames /\ "FENCE" \in DirectiveTypes
    BY <1>2, <2>1, Zenon DEF DirectiveTypes
  <2>3. Scheduled(o.step, "FENCE", "promote")
    BY <2>1, Zenon DEF Scheduled
  <2> QED
    BY <2>1, <2>2, <2>3, PublishKinds, Zenon
<1>4. CASE PublishPromote(n, w)
  <2>1. o.step = "promote" /\ Publish(n, w, "PROMOTE", o.to, "none")
    BY <1>4, Zenon DEF PublishPromote
  <2>2. o.to \in NodeNames /\ "PROMOTE" \in DirectiveTypes
    BY <1>2, <2>1, Zenon DEF DirectiveTypes
  <2>3. Scheduled(o.step, "PROMOTE", "none")
    BY <2>1, Zenon DEF Scheduled
  <2> QED
    BY <2>1, <2>2, <2>3, PublishKinds, Zenon
<1>5. CASE PublishCheckpoint(n, w)
  <2>1. o.step = "checkpoint" /\ Publish(n, w, "CHECKPOINT", o.from, "await")
    BY <1>5, Zenon DEF PublishCheckpoint
  <2>2. o.from \in NodeNames /\ "CHECKPOINT" \in DirectiveTypes
    BY <1>2, <2>1, Zenon DEF DirectiveTypes
  <2>3. Scheduled(o.step, "CHECKPOINT", "await")
    BY <2>1, Zenon DEF Scheduled
  <2> QED
    BY <2>1, <2>2, <2>3, PublishKinds, Zenon
<1>6. CASE PublishDemote(n, w)
  <2>1. o.step = "demote" /\ Publish(n, w, "DEMOTE", o.from, "promote")
    BY <1>6, Zenon DEF PublishDemote
  <2>2. o.from \in NodeNames /\ "DEMOTE" \in DirectiveTypes
    BY <1>2, <2>1, Zenon DEF DirectiveTypes
  <2>3. Scheduled(o.step, "DEMOTE", "promote")
    BY <2>1, Zenon DEF Scheduled
  <2> QED
    BY <2>1, <2>2, <2>3, PublishKinds, Zenon
<1>7. ASSUME Abort(n, w, fsm), UNCHANGED budget PROVE Calm
  <2>1. op'[n][w] = NoOp /\ OthersKept(n, w) /\ fsm'.directives = fsm.directives
    BY <1>1, <1>7, AbortKinds, Zenon
  <2> QED
    BY <1>7, <2>1, Zenon DEF Calm, Kept, OthersKept, budget
<1>8. ASSUME NEW next, SetOp(n, w, [o EXCEPT !.step = next])
      PROVE  /\ op'[n][w].step = next /\ op'[n][w].now = o.now /\ op'[n][w].ids = o.ids
             /\ OthersKept(n, w)
  <2> DEFINE p == [o EXCEPT !.step = next]
  <2>1. p.step = next /\ p.now = o.now /\ p.ids = o.ids
    BY <1>1, Zenon DEF Operations
  <2>2. SetOp(n, w, p)
    BY <1>8, Zenon
  <2> HIDE DEF p
  <2>3. op'[n][w] = p /\ OthersKept(n, w)
    BY <1>1, <2>2, OpSet, Zenon DEF OthersKept
  <2> QED
    BY <2>1, <2>3, Zenon
<1>9. CASE AwaitCheckpoint(n, w)
  <2>1. CASE Abort(n, w, fsm)
    BY <1>7, <1>9, <2>1, Zenon DEF AwaitCheckpoint
  <2>2. CASE /\ SetOp(n, w, [o EXCEPT !.step = "sync"])
             /\ <<o.now, "CHECKPOINT">> \in DOMAIN View(n).directives
             /\ View(n).directives[<<o.now, "CHECKPOINT">>].status = "completed"
             /\ UNCHANGED fsm
    <3>1. /\ op'[n][w].step = "sync" /\ op'[n][w].now = o.now /\ op'[n][w].ids = o.ids
          /\ OthersKept(n, w)
      BY <1>8, <2>2, Zenon
    <3> QED
      BY <1>9, <2>2, <3>1, Zenon DEF AwaitCheckpoint, Waited, budget
  <2> QED
    BY <1>9, <2>1, <2>2, Zenon DEF AwaitCheckpoint
<1>10. CASE AwaitSync(n, w)
  <2>1. /\ op'[n][w].step = "demote" /\ op'[n][w].now = o.now /\ op'[n][w].ids = o.ids
        /\ OthersKept(n, w)
    BY <1>8, <1>10, Zenon DEF AwaitSync
  <2> QED
    BY <1>10, <2>1, Zenon DEF AwaitSync, Waited, budget, log
<1>11. CASE WaitTimeout(n, w)
  BY <1>7, <1>11, Zenon DEF WaitTimeout
<1> QED
  BY <1>3, <1>4, <1>5, <1>6, <1>9, <1>10, <1>11, Zenon DEF OpStep

\* A step that leaves the operations and the directives alone is calm.
LEMMA QuietIsCalm ==
    ASSUME UNCHANGED <<op, ops>>, fsm'.directives = fsm.directives
    PROVE  Calm
BY Zenon DEF Calm, Kept

\* Running a directive changes no directive (manager.go:405).
LEMMA RunKinds ==
    ASSUME TypeInv, NEW n \in NodeNames,
           \/ NextDirective(n) \/ RunFence(n) \/ RunPromote(n) \/ RunDemote(n)
           \/ RunCheckpoint(n)
    PROVE  fsm'.directives = fsm.directives
<1>1. NodesTypeOK /\ FSMTypeOK(fsm) /\ loop[n] \in Loops
  BY Zenon DEF TypeInv, CoreInv, NodesTypeOK
<1>2. "RUNNING_PRIMARY" \in States /\ "RUNNING_REPLICA" \in States
  BY Zenon DEF States
<1>3. CASE NextDirective(n)
  <2>1. PICK id \in loop[n].todo :
          IF id[2] = "CHECKPOINT" THEN UNCHANGED <<state, fsm>>
          ELSE SetState(n, TransientState(id[2]), fsm)
    BY <1>3, Zenon DEF NextDirective
  <2>2. id \in DirectiveIDs
    BY <1>1, Zenon DEF Loops
  <2>3. CASE id[2] = "CHECKPOINT"
    BY <2>1, <2>3, Zenon
  <2>4. CASE id[2] # "CHECKPOINT"
    BY <1>1, <2>1, <2>2, <2>4, TransientType, SetStateType, Zenon
  <2> QED
    BY <2>3, <2>4, Zenon
<1>4. CASE RunPromote(n)
  <2> DEFINE i == [role |-> "", lag |-> 0, lastSeen |-> 1]
             q == SetPrimary(fsm, n, i)
  <2>1. i \in NodeInfo
    BY Zenon DEF NodeInfo, Roles
  <2>2. \/ UNCHANGED fsm
        \/ \E s \in Writes(n, fsm, q) : SetState(n, "RUNNING_PRIMARY", s)
    BY <1>4, Zenon DEF RunPromote
  <2> HIDE DEF i
  <2>3. FSMTypeOK(q) /\ q.directives = fsm.directives
    BY <1>1, <2>1, SetPrimaryType, Zenon
  <2> HIDE DEF q
  <2>4. \A s \in Writes(n, fsm, q) : FSMTypeOK(s) /\ s.directives = fsm.directives
    BY <1>1, <2>3, WritesEither, Zenon
  <2>5. ASSUME NEW s \in Writes(n, fsm, q), SetState(n, "RUNNING_PRIMARY", s)
        PROVE  fsm'.directives = fsm.directives
    BY <1>1, <1>2, <2>4, <2>5, SetStateType, Zenon
  <2> QED
    BY <2>2, <2>5, Zenon
<1>5. CASE RunDemote(n)
  <2>1. UNCHANGED fsm \/ SetState(n, "RUNNING_REPLICA", fsm)
    BY <1>5, Zenon DEF RunDemote
  <2> QED
    BY <1>1, <1>2, <2>1, SetStateType, Zenon
<1> QED
  BY <1>3, <1>4, <1>5, Zenon DEF RunFence, RunCheckpoint, log

\* Completing or timing out directives resolves some of them and nothing else
\* (fsm.go:204, failover.go:398).
LEMMA ResolveKinds ==
    ASSUME TypeInv, NEW n \in NodeNames, Complete(n) \/ MonitorTimeout(n)
    PROVE  Kept
<1>1. NodesTypeOK /\ FSMTypeOK(fsm) /\ loop[n] \in Loops
  BY Zenon DEF TypeInv, CoreInv, NodesTypeOK
<1>2. CASE Complete(n)
  <2> DEFINE id == loop[n].cur
             err == loop[n].err
             now == 1
             c == CompleteDirective(fsm, id, err, now)
  <2>1. err \in Errors /\ now \in Nat
    BY <1>1, Zenon DEF Loops
  <2>2. DOMAIN c.directives = DOMAIN fsm.directives
    BY <1>1, <2>1, CompleteDirectiveType
  <2>3. ASSUME NEW x \in DOMAIN fsm.directives
        PROVE  /\ c.directives[x].type = fsm.directives[x].type
               /\ c.directives[x].target = fsm.directives[x].target
    <3> HIDE DEF id, err, now
    <3> QED
      BY <1>1, <2>1, CompleteDirectiveKeeps
  <2>4. fsm' \in Writes(n, fsm, c)
    BY <1>2, Zenon DEF Complete
  <2> HIDE DEF c
  <2>5. fsm' = fsm \/ fsm' = c
    BY <2>4, WritesEither, Zenon
  <2> QED
    BY <2>2, <2>3, <2>5, Zenon DEF Kept
<1>3. CASE MonitorTimeout(n)
  <2>1. TimedOut \in Errors /\ 1 \in Nat
    BY Zenon DEF Errors, TimedOut
  <2>2. PICK id : \/ fsm' \in Writes(n, fsm, CompleteDirective(fsm, id, TimedOut, 1))
                  \/ UNCHANGED fsm
    BY <1>3, Zenon DEF MonitorTimeout
  <2> DEFINE c == CompleteDirective(fsm, id, TimedOut, 1)
  <2>3. DOMAIN c.directives = DOMAIN fsm.directives
    BY <1>1, <2>1, CompleteDirectiveType
  <2>4. ASSUME NEW x \in DOMAIN fsm.directives
        PROVE  /\ c.directives[x].type = fsm.directives[x].type
               /\ c.directives[x].target = fsm.directives[x].target
    BY <1>1, <2>1, CompleteDirectiveKeeps
  <2>5. fsm' = fsm \/ fsm' = c
    BY <2>2, WritesEither, Zenon
  <2> HIDE DEF c
  <2> QED
    BY <2>3, <2>4, <2>5, Zenon DEF Kept
<1> QED
  BY <1>2, <1>3, Zenon

\* Beginning an operation, by hand or automatically, takes a new time stamp
\* (failover.go:161, 270).
LEMMA OpenKinds ==
    ASSUME TypeInv, NEW n \in NodeNames, NEW w \in Workers, NEW o, SetOp(n, w, o),
           o.now = ops + 1, ops' = ops + 1, o.ids = {},
           o.step \in {"fence", "promote", "checkpoint"},
           o.step = "promote" => ~FencingEnabled,
           fsm'.directives = fsm.directives
    PROVE  Opened(n, w)
<1>1. NodesTypeOK
  BY Zenon DEF TypeInv, CoreInv
<1>2. op'[n][w] = o /\ OthersKept(n, w)
  BY <1>1, OpSet, Zenon DEF OthersKept
<1> QED
  BY <1>2, Zenon DEF Opened

\* The operations that begin start with their first directive.
LEMMA FirstSteps ==
    ASSUME NEW from, NEW to
    PROVE  /\ FailoverFrom(from, to).now = ops + 1
           /\ FailoverFrom(from, to).step \in {"fence", "promote", "checkpoint"}
           /\ FailoverFrom(from, to).step = "promote" => ~FencingEnabled
           /\ FailoverFrom(from, to).ids = {}
           /\ Operation("switchover", "checkpoint", from, to).now = ops + 1
           /\ Operation("switchover", "checkpoint", from, to).ids = {}
           /\ Operation("switchover", "checkpoint", from, to).step = "checkpoint"
BY Zenon DEF FailoverFrom, Operation

\* Every step of the cluster is of one of the kinds.
LEMMA StepKinds ==
    ASSUME TypeInv, [Next]_vars
    PROVE  \/ Calm
           \/ \E n \in NodeNames, w \in Workers :
                 \/ Opened(n, w)
                 \/ \E type, next, target : Committed(n, w, type, next, target)
                 \/ Waited(n, w)
<1>1. NodesTypeOK /\ FSMTypeOK(fsm)
  BY Zenon DEF TypeInv, CoreInv, NodesTypeOK
<1>2. "FAILOVER_IN_PROGRESS" \in States
  BY Zenon DEF States
<1> DEFINE Goal == \/ Calm
                   \/ \E n \in NodeNames, w \in Workers :
                         \/ Opened(n, w)
                         \/ \E type, next, target : Committed(n, w, type, next, target)
                         \/ Waited(n, w)
<1>3. ASSUME NEW n \in NodeNames, LoopStep(n) PROVE Goal
  <2>1. CASE \/ NextDirective(n) \/ RunFence(n) \/ RunPromote(n) \/ RunDemote(n)
             \/ RunCheckpoint(n)
    <3>1. UNCHANGED <<op, ops>>
      BY <2>1, Zenon DEF NextDirective, RunFence, RunPromote, RunDemote, RunCheckpoint, Ran, budget
    <3> QED
      BY <2>1, <3>1, RunKinds, QuietIsCalm, Zenon
  <2>2. CASE Complete(n) \/ MonitorTimeout(n)
    <3>1. UNCHANGED <<op, ops>>
      BY <2>2, Zenon DEF Complete, MonitorTimeout, budget
    <3> QED
      BY <2>2, <3>1, ResolveKinds, Zenon DEF Calm
  <2>3. CASE Tick(n) \/ Monitor(n) \/ MonitorClear(n)
    BY <2>3, QuietIsCalm, Zenon DEF Tick, Monitor, MonitorClear, budget, log
  <2>4. CASE Evaluate(n)
    <3>1. UNCHANGED <<op, ops>>
      BY <2>4, Zenon DEF Evaluate, budget
    <3> QED
      BY <2>4, <3>1, EvaluateType, QuietIsCalm, Zenon
  <2>5. CASE StartFailover(n)
    <3>1. fsm'.directives = fsm.directives
      BY <2>5, StartFailoverType, Zenon
    <3>2. \/ UNCHANGED <<op, ops>>
          \/ \E r : SetOp(n, "loop", FailoverFrom(loop[n].from, r)) /\ ops' = ops + 1
      BY <2>5, Zenon DEF StartFailover
    <3>3. CASE UNCHANGED <<op, ops>>
      BY <3>1, <3>3, QuietIsCalm, Zenon
    <3>4. ASSUME NEW r, SetOp(n, "loop", FailoverFrom(loop[n].from, r)), ops' = ops + 1
          PROVE  Goal
      <4>1. "loop" \in Workers
        BY Zenon DEF Workers
      <4>2. Opened(n, "loop")
        BY <3>1, <3>4, <4>1, FirstSteps, OpenKinds, Zenon
      <4> QED
        BY <4>1, <4>2, Zenon
    <3> QED
      BY <3>2, <3>3, <3>4, Zenon
  <2> QED
    BY <1>3, <2>1, <2>2, <2>3, <2>4, <2>5, Zenon DEF LoopStep
<1>4. ASSUME NEW n \in NodeNames, NEW w \in Workers, OpStep(n, w) PROVE Goal
  BY <1>4, OpStepKinds, Zenon
<1>5. ASSUME NEW n \in NodeNames, ApiCall(n) PROVE Goal
  <2>1. CASE Pause(n) \/ Resume(n)
    BY <2>1, QuietIsCalm, Zenon DEF Pause, Resume, budget, log
  <2>2. ASSUME NEW w \in ApiWorkers, NEW o, StartManual(n, w, o), o.now = ops + 1, o.ids = {},
               o.step \in {"fence", "promote", "checkpoint"},
               o.step = "promote" => ~FencingEnabled
        PROVE  Goal
    <3>1. w \in Workers
      BY Zenon DEF Workers
    <3>2. fsm'.directives = fsm.directives
      BY <1>1, <1>2, <2>2, SetStateType, Zenon DEF StartManual
    <3>3. SetOp(n, w, o) /\ ops' = ops + 1
      BY <2>2, Zenon DEF StartManual
    <3>4. Opened(n, w)
      BY <2>2, <3>1, <3>2, <3>3, OpenKinds, Zenon
    <3> QED
      BY <3>1, <3>4, Zenon
  <2>3. ASSUME NEW w \in ApiWorkers, NEW to, ManualFailover(n, w, to) PROVE Goal
    BY <2>2, <2>3, FirstSteps, Zenon DEF ManualFailover
  <2>4. ASSUME NEW w \in ApiWorkers, NEW to, ManualSwitchover(n, w, to) PROVE Goal
    <3> DEFINE o == Operation("switchover", "checkpoint", GetPrimary(View(n)), to)
    <3>1. o.now = ops + 1 /\ o.ids = {} /\ o.step = "checkpoint"
      BY FirstSteps, Zenon
    <3>2. StartManual(n, w, o)
      BY <2>4, Zenon DEF ManualSwitchover
    <3> HIDE DEF o
    <3> QED
      BY <2>2, <3>1, <3>2, Zenon
  <2> QED
    BY <1>5, <2>1, <2>3, <2>4, Zenon DEF ApiCall
<1>6. ASSUME NEW n \in NodeNames, Clock(n) PROVE Goal
  <2>1. CASE HealthGoesStale(n)
    <3>1. fsm'.directives = fsm.directives
      BY <2>1, StaleType, Zenon
    <3> QED
      BY <2>1, <3>1, QuietIsCalm, Zenon DEF HealthGoesStale, budget
  <2> QED
    BY <1>6, <2>1, QuietIsCalm, Zenon
       DEF Clock, TimeStep, ConfirmationElapses, DirectiveTimeout, QuorumTimeout, BackoffEnds, budget, log
<1>7. ASSUME NEW n \in NodeNames, World(n) PROVE Goal
  <2>1. CASE Restart(n)
    <3>1. \A m \in NodeNames, v \in Workers : op'[m][v] = op[m][v] \/ op'[m][v] = NoOp
      BY <1>1, <2>1, Zenon DEF Restart, NodesTypeOK
    <3> QED
      BY <2>1, <3>1, Zenon DEF Restart, Calm, Kept
  <2> QED
    BY <1>7, <2>1, QuietIsCalm, Zenon
       DEF World, Check, Elect, LoseQuorum, StepDown, LoseContact, RegainContact,
           ServerFault, CatchUp, budget, log
<1>8. CASE UNCHANGED vars
  BY <1>8, QuietIsCalm, Zenon DEF vars, budget, log
<1> QED
  BY <1>3, <1>4, <1>5, <1>6, <1>7, <1>8, NextCases, Zenon DEF NodeStep

-----------------------------------------------------------------------------
(* Fencing comes first.  OldPrimaryHandledFirst needs to know of an        *)
(* operation about to commit its PROMOTE what it has committed before.     *)

HandledBefore(s, k) ==
    \/ <<k, "FENCE">> \in DOMAIN s.directives
    \/ <<k, "DEMOTE">> \in DOMAIN s.directives

PromotesHandled ==
    FencingEnabled => \A n \in NodeNames, w \in Workers :
        op[n][w].step = "promote" => HandledBefore(fsm, op[n][w].now)

HandledInv == PromotesHandled /\ OldPrimaryHandledFirst

\* Every step preserves it.
LEMMA NextHandled == TypeInv /\ HandledInv /\ [Next]_vars => HandledInv'
<1> SUFFICES ASSUME TypeInv, HandledInv, [Next]_vars PROVE HandledInv'
  BY Zenon
<1>1. NoOp.step = "none"
  BY ConstantTypes, Zenon
<1>2. CASE Calm
  BY <1>1, <1>2, Zenon DEF Calm, Kept, HandledInv, PromotesHandled, HandledBefore,
                    OldPrimaryHandledFirst
<1>3. ASSUME NEW n \in NodeNames, NEW w \in Workers, Opened(n, w) PROVE HandledInv'
  BY <1>3, Zenon DEF Opened, OthersKept, HandledInv, PromotesHandled, HandledBefore,
              OldPrimaryHandledFirst
<1>4. ASSUME NEW n \in NodeNames, NEW w \in Workers, NEW type, NEW next, NEW target,
             Committed(n, w, type, next, target)
      PROVE  HandledInv'
  <2> DEFINE k == op[n][w].now
             id == <<k, type>>
  <2>1. /\ DOMAIN fsm'.directives = DOMAIN fsm.directives \cup {id}
        /\ Scheduled(op[n][w].step, type, next)
    BY <1>4, Zenon DEF Committed, Put
  <2>2. /\ id[1] = k /\ id[2] = type
        /\ type = "FENCE" => id = <<k, "FENCE">>
        /\ type = "DEMOTE" => id = <<k, "DEMOTE">>
    BY Zenon
  <2> HIDE DEF id
  <2>3. \A j : HandledBefore(fsm, j) => HandledBefore(fsm', j)
    BY <2>1, Zenon DEF HandledBefore
  <2>4. type = "FENCE" \/ type = "DEMOTE" => HandledBefore(fsm', k)
    BY <2>1, <2>2, Zenon DEF HandledBefore
  <2>5. PromotesHandled'
    <3> SUFFICES ASSUME FencingEnabled, NEW m \in NodeNames, NEW v \in Workers,
                        op'[m][v].step = "promote"
                 PROVE  HandledBefore(fsm', op'[m][v].now)
      BY Zenon DEF PromotesHandled, HandledBefore
    <3>1. CASE m # n \/ v # w
      <4>1. op'[m][v] = op[m][v]
        BY <1>4, <3>1, Zenon DEF Committed, OthersKept
      <4>2. HandledBefore(fsm, op[m][v].now)
        BY <4>1, Zenon DEF HandledInv, PromotesHandled
      <4> QED
        BY <2>3, <4>1, <4>2, Zenon
    <3>2. CASE m = n /\ v = w
      <4>1. next = "promote" /\ op'[m][v].now = k
        BY <1>1, <1>4, <3>2, Zenon DEF Committed
      <4>2. type = "FENCE" \/ type = "DEMOTE"
        BY <2>1, <4>1, Zenon DEF Scheduled
      <4> QED
        BY <2>4, <4>1, <4>2, Zenon
    <3> QED
      BY <3>1, <3>2, Zenon
  <2>6. OldPrimaryHandledFirst'
    <3> SUFFICES ASSUME FencingEnabled, NEW x \in DOMAIN fsm'.directives, x[2] = "PROMOTE"
                 PROVE  HandledBefore(fsm', x[1])
      BY Zenon DEF OldPrimaryHandledFirst, HandledBefore
    <3>1. CASE x = id
      <4>1. op[n][w].step = "promote" /\ x[1] = k
        BY <2>1, <2>2, <3>1, Zenon DEF Scheduled
      <4>2. HandledBefore(fsm, k)
        BY <4>1, Zenon DEF HandledInv, PromotesHandled
      <4> QED
        BY <2>3, <4>1, <4>2, Zenon
    <3>2. CASE x \in DOMAIN fsm.directives
      <4>1. HandledBefore(fsm, x[1])
        BY <3>2, Zenon DEF HandledInv, OldPrimaryHandledFirst, HandledBefore
      <4> QED
        BY <2>3, <4>1, Zenon
    <3> QED
      BY <2>1, <3>1, <3>2, Zenon
  <2> QED
    BY <2>5, <2>6, Zenon DEF HandledInv
<1>5. ASSUME NEW n \in NodeNames, NEW w \in Workers, Waited(n, w) PROVE HandledInv'
  BY <1>5, Zenon DEF Waited, OthersKept, HandledInv, PromotesHandled, HandledBefore,
              OldPrimaryHandledFirst
<1> QED
  BY <1>2, <1>3, <1>4, <1>5, StepKinds, Zenon

\* The invariant FencingFirst rests on.
LEMMA HandledInvariant == Spec => []HandledInv
<1>1. Init => HandledInv
  <2> SUFFICES ASSUME Init PROVE HandledInv
    BY Zenon
  <2>1. DOMAIN fsm.directives = {}
    BY Zenon DEF Init, NewClusterFSM, EmptyMap
  <2>2. \A n \in NodeNames, w \in Workers : op[n][w].step = "none"
    BY ConstantTypes, Zenon DEF Init
  <2> QED
    BY <2>1, <2>2, Zenon DEF HandledInv, PromotesHandled, OldPrimaryHandledFirst
<1> QED
  BY <1>1, NextHandled, TypeInvariant, PTL DEF Spec

\* With fencing enabled, no PROMOTE is committed before the FENCE or the DEMOTE
\* of its operation, whatever leaders, crashes and overlapping operations do
\* (failover.go:193).
THEOREM FencingFirst == Spec => []OldPrimaryHandledFirst
<1>1. HandledInv => OldPrimaryHandledFirst
  BY Zenon DEF HandledInv
<1> QED
  BY <1>1, HandledInvariant, PTL

-----------------------------------------------------------------------------
(* No directive is committed twice: operations have different time stamps, *)
(* and what an operation has still to commit is not there yet.             *)

StampsUsed ==
    /\ \A n \in NodeNames, w \in Workers : op[n][w].step # "none" => op[n][w].now <= ops
    /\ \A x \in DOMAIN fsm.directives : x[1] <= ops

StampsDiffer ==
    \A m, n \in NodeNames, v, w \in Workers :
        /\ op[m][v].step # "none" /\ op[n][w].step # "none"
        /\ op[m][v].now = op[n][w].now
        => m = n /\ v = w

ToCommit(step) ==
    CASE step = "fence" -> {"FENCE", "PROMOTE"}
      [] step = "promote" -> {"PROMOTE"}
      [] step = "checkpoint" -> {"CHECKPOINT", "DEMOTE", "PROMOTE"}
      [] step \in {"await", "sync", "demote"} -> {"DEMOTE", "PROMOTE"}
      [] OTHER -> {}

NotYetCommitted ==
    \A n \in NodeNames, w \in Workers : \A type \in ToCommit(op[n][w].step) :
        <<op[n][w].now, type>> \notin DOMAIN fsm.directives

OnceInv == StampsUsed /\ StampsDiffer /\ NotYetCommitted

\* What is left to commit shrinks with the schedule of an operation.
LEMMA ToCommitShrinks ==
    ASSUME NEW step, NEW type, NEW next, Scheduled(step, type, next)
    PROVE  /\ type \in ToCommit(step)
           /\ ToCommit(next) \subseteq ToCommit(step)
           /\ type \notin ToCommit(next)
           /\ step # "none"
BY Zenon DEF Scheduled, ToCommit

\* Waiting commits nothing, and an operation that has ended has nothing left.
LEMMA ToCommitNone ==
    /\ ToCommit("none") = {}
    /\ ToCommit("sync") = ToCommit("await")
    /\ ToCommit("demote") = ToCommit("sync")
BY Zenon DEF ToCommit

\* The time stamps in use are numbers.
LEMMA StampTypes ==
    ASSUME NodesTypeOK
    PROVE  /\ ops \in Nat
           /\ \A n \in NodeNames, w \in Workers : op[n][w].now \in Nat
           /\ \A x \in DOMAIN fsm.directives : x[1] \in Nat /\ x = <<x[1], x[2]>>
<1>1. ops \in Nat
  <2>1. ops \in 0 .. MaxOps
    BY Zenon DEF NodesTypeOK
  <2> QED
    BY <2>1
<1>2. ASSUME NEW n \in NodeNames, NEW w \in Workers PROVE op[n][w].now \in Nat
  <2>1. op[n][w] \in Operations
    BY Zenon DEF NodesTypeOK
  <2> QED
    BY <2>1, Zenon DEF Operations
<1>3. ASSUME NEW x \in DOMAIN fsm.directives PROVE x[1] \in Nat /\ x = <<x[1], x[2]>>
  <2>1. x \in DirectiveIDs
    BY DEF NodesTypeOK, FSMTypeOK, IsMap
  <2>2. x \in (1 .. MaxOps) \X DirectiveTypes
    BY <2>1, ClusterAssumption, Zenon
  <2>3. MaxOps \in Nat
    BY ClusterAssumption, Zenon
  <2> QED
    BY <2>2, <2>3
<1> QED
  BY <1>1, <1>2, <1>3, Zenon

\* A step that commits a directive commits a new one.
LEMMA CommitsNew ==
    ASSUME OnceInv, NEW n \in NodeNames, NEW w \in Workers, NEW type, NEW next, NEW target,
           Committed(n, w, type, next, target)
    PROVE  <<op[n][w].now, type>> \notin DOMAIN fsm.directives
<1>1. type \in ToCommit(op[n][w].step)
  BY ToCommitShrinks, Zenon DEF Committed
<1> QED
  BY <1>1, Zenon DEF OnceInv, NotYetCommitted

\* Every step keeps directives from being committed twice.
LEMMA NextOnce == TypeInv /\ OnceInv /\ [Next]_vars => OnceInv'
<1> SUFFICES ASSUME TypeInv, OnceInv, [Next]_vars PROVE OnceInv'
  BY Zenon
<1>1. NoOp.step = "none" /\ NodesTypeOK
  BY ConstantTypes, Zenon DEF TypeInv, CoreInv
<1>2. /\ ops \in Nat
      /\ \A n \in NodeNames, w \in Workers : op[n][w].now \in Nat
      /\ \A x \in DOMAIN fsm.directives : x[1] \in Nat /\ x = <<x[1], x[2]>>
  BY <1>1, StampTypes, Zenon
<1>3. CASE Calm
  <2>1. StampsUsed' /\ StampsDiffer'
    BY <1>1, <1>3 DEF Calm, Kept, OnceInv, StampsUsed, StampsDiffer
  <2>2. NotYetCommitted'
    BY <1>1, <1>3, ToCommitNone, Zenon DEF Calm, Kept, OnceInv, NotYetCommitted
  <2> QED
    BY <2>1, <2>2, Zenon DEF OnceInv
<1>4. ASSUME NEW n \in NodeNames, NEW w \in Workers, Opened(n, w) PROVE OnceInv'
  <2>1. /\ ops' = ops + 1 /\ op'[n][w].now = ops + 1 /\ OthersKept(n, w)
        /\ fsm'.directives = fsm.directives
    BY <1>4, Zenon DEF Opened
  <2>2. \A m \in NodeNames, v \in Workers : op[m][v].step # "none" => op[m][v].now # ops + 1
    BY <1>2 DEF OnceInv, StampsUsed
  <2>3. \A type : <<ops + 1, type>> \notin DOMAIN fsm.directives
    <3> SUFFICES ASSUME NEW type, <<ops + 1, type>> \in DOMAIN fsm.directives PROVE FALSE
      BY Zenon
    <3>1. <<ops + 1, type>>[1] = ops + 1
      BY Zenon
    <3>2. <<ops + 1, type>>[1] <= ops
      BY Zenon DEF OnceInv, StampsUsed
    <3> QED
      BY <1>2, <3>1, <3>2
  <2>4. StampsUsed'
    BY <1>2, <2>1 DEF OnceInv, StampsUsed, OthersKept
  <2>5. StampsDiffer'
    BY <2>1, <2>2 DEF OnceInv, StampsDiffer, OthersKept
  <2>6. NotYetCommitted'
    BY <2>1, <2>3, Zenon DEF OnceInv, NotYetCommitted, OthersKept
  <2> QED
    BY <2>4, <2>5, <2>6, Zenon DEF OnceInv
<1>5. ASSUME NEW n \in NodeNames, NEW w \in Workers, NEW type, NEW next, NEW target,
             Committed(n, w, type, next, target)
      PROVE  OnceInv'
  <2> DEFINE k == op[n][w].now
             id == <<k, type>>
  <2>1. /\ DOMAIN fsm'.directives = DOMAIN fsm.directives \cup {id}
        /\ Scheduled(op[n][w].step, type, next)
        /\ ops' = ops
        /\ OthersKept(n, w)
        /\ \/ op'[n][w] = NoOp
           \/ op'[n][w].step = next /\ op'[n][w].now = k
    BY <1>5, Zenon DEF Committed, Put
  <2>2. id[1] = k /\ \A j, ty : <<j, ty>> = id => j = k /\ ty = type
    BY Zenon
  <2>3. op[n][w].step # "none" /\ k <= ops
    BY <2>1, ToCommitShrinks DEF OnceInv, StampsUsed
  <2> HIDE DEF id
  <2>4. StampsUsed'
    BY <1>1, <2>1, <2>2, <2>3 DEF OnceInv, StampsUsed, OthersKept
  <2>5. StampsDiffer'
    BY <1>1, <2>1, <2>3 DEF OnceInv, StampsDiffer, OthersKept
  <2>6. NotYetCommitted'
    <3> SUFFICES ASSUME NEW m \in NodeNames, NEW v \in Workers,
                        NEW ty \in ToCommit(op'[m][v].step)
                 PROVE  <<op'[m][v].now, ty>> \notin DOMAIN fsm'.directives
      BY Zenon DEF NotYetCommitted
    <3>1. CASE m # n \/ v # w
      <4>1. op'[m][v] = op[m][v]
        BY <2>1, <3>1, Zenon DEF OthersKept
      <4>2. op[m][v].step # "none"
        BY <4>1, ToCommitNone, Zenon
      <4>3. op[m][v].now # k
        BY <2>3, <3>1, <4>2, Zenon DEF OnceInv, StampsDiffer
      <4>4. <<op[m][v].now, ty>> \notin DOMAIN fsm.directives
        BY <4>1, Zenon DEF OnceInv, NotYetCommitted
      <4> QED
        BY <2>1, <2>2, <4>1, <4>3, <4>4, Zenon
    <3>2. CASE m = n /\ v = w
      <4>1. op'[n][w].step = next /\ op'[n][w].now = k
        BY <1>1, <2>1, <3>2, ToCommitNone, Zenon
      <4>2. ty \in ToCommit(op[n][w].step) /\ ty # type
        BY <2>1, <3>2, <4>1, ToCommitShrinks
      <4>3. <<k, ty>> \notin DOMAIN fsm.directives
        BY <4>2, Zenon DEF OnceInv, NotYetCommitted
      <4> QED
        BY <2>1, <2>2, <3>2, <4>1, <4>2, <4>3, Zenon
    <3> QED
      BY <3>1, <3>2, Zenon
  <2> QED
    BY <2>4, <2>5, <2>6, Zenon DEF OnceInv
<1>6. ASSUME NEW n \in NodeNames, NEW w \in Workers, Waited(n, w) PROVE OnceInv'
  <2>1. StampsUsed' /\ StampsDiffer'
    BY <1>6 DEF Waited, OthersKept, OnceInv, StampsUsed, StampsDiffer
  <2>2. NotYetCommitted'
    BY <1>6, ToCommitNone DEF Waited, OthersKept, OnceInv, NotYetCommitted
  <2> QED
    BY <2>1, <2>2, Zenon DEF OnceInv
<1> QED
  BY <1>3, <1>4, <1>5, <1>6, StepKinds, Zenon

\* Once committed, a directive stays with its type and its target.
LEMMA DirectivesStay ==
    ASSUME TypeInv, OnceInv, [Next]_vars, NEW x \in DOMAIN fsm.directives
    PROVE  /\ x \in DOMAIN fsm'.directives
           /\ fsm'.directives[x].type = fsm.directives[x].type
           /\ fsm'.directives[x].target = fsm.directives[x].target
<1>1. ASSUME NEW n \in NodeNames, NEW w \in Workers, NEW type, NEW next, NEW target,
             Committed(n, w, type, next, target)
      PROVE  x \in DOMAIN fsm'.directives /\ fsm'.directives[x] = fsm.directives[x]
  <2>1. x # <<op[n][w].now, type>>
    BY <1>1, CommitsNew, Zenon
  <2> QED
    BY <1>1, <2>1, Zenon DEF Committed, Put
<1> QED
  BY <1>1, StepKinds, Zenon DEF Calm, Kept, Opened, Waited

-----------------------------------------------------------------------------
(* What a replica that is behind still shows: directives that have been    *)
(* committed, with their type and target, and no success that has not      *)
(* been recorded.                                                          *)

Since(s, t) ==
    \A x \in DOMAIN s.directives :
        /\ x \in DOMAIN t.directives
        /\ t.directives[x].type = s.directives[x].type
        /\ t.directives[x].target = s.directives[x].target

Successes(s) == {x \in DOMAIN s.directives : s.directives[x].status = "completed"}

HistoryInv ==
    /\ Successes(fsm) \subseteq succeeded
    /\ \A i \in 1 .. MaxBehind :
          Since(older[i], fsm) /\ Successes(older[i]) \subseteq succeeded

\* The same holds of what a node reads.
LEMMA ViewSince ==
    ASSUME TypeInv, HistoryInv, NEW n \in NodeNames
    PROVE  Since(View(n), fsm) /\ Successes(View(n)) \subseteq succeeded
<1>1. behind[n] \in 0 .. MaxBehind
  BY Zenon DEF TypeInv, HistoryTypeOK
<1>2. behind[n] = 0 \/ behind[n] \in 1 .. MaxBehind
  BY <1>1, ClusterAssumption
<1>3. Since(fsm, fsm)
  BY Zenon DEF Since
<1> QED
  BY <1>2, <1>3, Zenon DEF HistoryInv, View

\* The recorded successes grow by those that the newest state shows, whoever
\* commits them (store.go:93).
LEMMA SuccessGrows ==
    ASSUME TypeInv, HistoryInv, [Next]_vars
    PROVE  succeeded' = succeeded \cup Successes(fsm')
<1>1. Successes(fsm) \subseteq succeeded
  BY Zenon DEF HistoryInv
<1>2. ASSUME NEW n \in NodeNames, Replicate(n) PROVE succeeded' = succeeded \cup Successes(fsm')
  BY <1>2, Zenon DEF Replicate, Successes
<1>3. ASSUME NEW n \in NodeNames, HealthGoesStale(n)
      PROVE  succeeded' = succeeded \cup Successes(fsm')
  <2>1. fsm'.directives = fsm.directives /\ succeeded' = succeeded
    BY <1>3, StaleType, Zenon DEF HealthGoesStale
  <2>2. Successes(fsm') = Successes(fsm)
    BY <2>1, Zenon DEF Successes
  <2> QED
    BY <1>1, <2>1, <2>2, Zenon
<1>4. CASE UNCHANGED <<fsm, succeeded>>
  BY <1>1, <1>4, Zenon
<1> QED
  BY <1>2, <1>3, <1>4, HistoryMoves, Zenon DEF HistoryMove, log

\* Every step keeps what the replicas show behind the newest state.
LEMMA NextHistory ==
    ASSUME TypeInv, OnceInv, HistoryInv, [Next]_vars
    PROVE  HistoryInv'
<1>1. Since(fsm, fsm')
  BY DirectivesStay, Zenon DEF Since
<1>2. succeeded' = succeeded \cup Successes(fsm')
  BY SuccessGrows, Zenon
<1>3. ASSUME NEW s, Since(s, fsm), Successes(s) \subseteq succeeded
      PROVE  Since(s, fsm') /\ Successes(s) \subseteq succeeded'
  BY <1>1, <1>2, <1>3, Zenon DEF Since
<1>4. /\ Since(fsm, fsm) /\ Successes(fsm) \subseteq succeeded
      /\ \A i \in 1 .. MaxBehind :
            Since(older[i], fsm) /\ Successes(older[i]) \subseteq succeeded
  BY Zenon DEF HistoryInv, Since
<1>5. ASSUME NEW i \in 1 .. MaxBehind
      PROVE  Since(older'[i], fsm') /\ Successes(older'[i]) \subseteq succeeded'
  <2>1. CASE UNCHANGED older
    BY <1>3, <1>4, <2>1, Zenon
  <2>2. CASE older' = [j \in 1 .. MaxBehind |-> IF j = 1 THEN fsm ELSE older[j - 1]]
    <3>1. i # 1 => i - 1 \in 1 .. MaxBehind
      BY ClusterAssumption
    <3> QED
      BY <1>3, <1>4, <2>2, <3>1, Zenon
  <2>3. ASSUME NEW n \in NodeNames, HealthGoesStale(n)
        PROVE  Since(older'[i], fsm') /\ Successes(older'[i]) \subseteq succeeded'
    <3>1. FSMTypeOK(older[i])
      BY Zenon DEF TypeInv, HistoryTypeOK
    <3>2. older'[i].directives = older[i].directives
      BY <2>3, <3>1, AgedType, Zenon DEF HealthGoesStale
    <3>3. Since(older'[i], fsm) /\ Successes(older'[i]) \subseteq succeeded
      BY <1>4, <3>2, Zenon DEF Since, Successes
    <3> QED
      BY <1>3, <3>3, Zenon
  <2> QED
    BY <2>1, <2>2, <2>3, HistoryMoves, Zenon DEF HistoryMove, Replicate, log
<1> QED
  BY <1>2, <1>5, Zenon DEF HistoryInv

-----------------------------------------------------------------------------
(* What one step may do to a manager loop.                                 *)

LoopMove(m) ==
    \/ loop'[m] = loop[m]
    \/ loop'[m].pc \notin {"run", "complete"} /\ loop'[m].todo = {}
    \/ /\ loop[m].pc = "complete" /\ loop'[m].pc = "dirs"
       /\ loop'[m].todo = loop[m].todo \ {loop[m].cur}
    \/ loop'[m].pc = "clear"
    \/ /\ loop[m].pc = "idle" /\ loop'[m].pc = "dirs"
       /\ loop'[m].todo = GetDirectivesForNode(View(m), m)
    \/ /\ loop[m].pc = "dirs" /\ loop'[m].pc = "run"
       /\ loop'[m].cur \in loop[m].todo
       /\ loop'[m].todo = loop[m].todo
    \/ /\ loop[m].pc \in {"run", "complete"} /\ loop'[m].pc = "complete"
       /\ loop'[m].cur = loop[m].cur
       /\ loop'[m].todo = loop[m].todo
       /\ loop[m].pc = "complete" => loop'[m].err = loop[m].err

\* A loop that goes to l moves as l says; the other loops stay.
LEMMA GotoMoves ==
    ASSUME NodesTypeOK, NEW n \in NodeNames, NEW l, Goto(n, l)
    PROVE  loop'[n] = l /\ \A m \in NodeNames : m # n => loop'[m] = loop[m]
BY Zenon DEF NodesTypeOK, Goto

\* The records a loop rests in have nothing left to do.
LEMMA RestingLoops ==
    ASSUME NEW st, NEW m
    PROVE  /\ Idle.pc = "idle" /\ Idle.todo = {}
           /\ [Idle EXCEPT !.pc = "eval", !.st = st].pc = "eval"
           /\ [Idle EXCEPT !.pc = "eval", !.st = st].todo = {}
           /\ [Idle EXCEPT !.pc = "start", !.from = m].pc = "start"
           /\ [Idle EXCEPT !.pc = "start", !.from = m].todo = {}
BY Zenon DEF Idle

\* A loop that comes to rest, and the others, move as LoopMove says.
LEMMA RestMoves ==
    ASSUME NodesTypeOK, NEW n \in NodeNames, NEW l, Goto(n, l),
           l.pc \notin {"run", "complete"}, l.todo = {}
    PROVE  \A m \in NodeNames : LoopMove(m)
BY GotoMoves, Zenon DEF LoopMove

\* Loops move as LoopMove says when a directive is run and reported
\* (manager.go:337-403).
LEMMA RunMoves ==
    ASSUME TypeInv, NEW n \in NodeNames,
           \/ Tick(n) \/ NextDirective(n) \/ RunFence(n) \/ RunPromote(n) \/ RunDemote(n)
           \/ RunCheckpoint(n) \/ Complete(n)
    PROVE  \A m \in NodeNames : LoopMove(m)
<1>1. NodesTypeOK /\ loop[n] \in Loops
  BY Zenon DEF TypeInv, CoreInv, NodesTypeOK
<1>2. CASE Tick(n)
  <2> DEFINE l == [Idle EXCEPT !.pc = "dirs", !.todo = GetDirectivesForNode(View(n), n)]
  <2>1. l.pc = "dirs" /\ l.todo = GetDirectivesForNode(View(n), n)
    BY Zenon DEF Idle
  <2>2. Goto(n, l) /\ loop[n].pc = "idle"
    BY <1>2, Zenon DEF Tick
  <2> HIDE DEF l
  <2> QED
    BY <1>1, <2>1, <2>2, GotoMoves DEF LoopMove
<1>3. CASE NextDirective(n)
  <2>1. PICK id \in loop[n].todo : Goto(n, [loop[n] EXCEPT !.pc = "run", !.cur = id])
    BY <1>3, Zenon DEF NextDirective
  <2> DEFINE l == [loop[n] EXCEPT !.pc = "run", !.cur = id]
  <2>2. l.pc = "run" /\ l.cur = id /\ l.todo = loop[n].todo
    BY <1>1, Zenon DEF Loops
  <2>3. Goto(n, l) /\ loop[n].pc = "dirs"
    BY <1>3, <2>1, Zenon DEF NextDirective
  <2> HIDE DEF l
  <2> QED
    BY <1>1, <2>2, <2>3, GotoMoves DEF LoopMove
<1>4. CASE RunFence(n) \/ RunPromote(n) \/ RunDemote(n) \/ RunCheckpoint(n)
  <2>1. PICK r : Ran(n, r)
    BY <1>4, Zenon DEF RunFence, RunPromote, RunDemote, RunCheckpoint
  <2> DEFINE l == [loop[n] EXCEPT !.pc = "complete", !.err = r.err, !.tries = 1]
  <2>2. l.pc = "complete" /\ l.cur = loop[n].cur /\ l.todo = loop[n].todo
    BY <1>1, Zenon DEF Loops
  <2>3. Goto(n, l) /\ loop[n].pc = "run"
    BY <1>4, <2>1, Zenon DEF Ran, RunFence, RunPromote, RunDemote, RunCheckpoint, Running
  <2> HIDE DEF l
  <2> QED
    BY <1>1, <2>2, <2>3, GotoMoves DEF LoopMove
<1>5. CASE Complete(n)
  <2>1. CASE Done(n)
    <3> DEFINE S == loop[n].todo \ {loop[n].cur}
               l == [Idle EXCEPT !.pc = "dirs", !.todo = S]
    <3>1. l.pc = "dirs" /\ l.todo = S
      BY Zenon DEF Idle
    <3>2. Goto(n, l) /\ loop[n].pc = "complete"
      BY <1>5, <2>1, Zenon DEF Done, Complete
    <3> HIDE DEF l
    <3> QED
      BY <1>1, <3>1, <3>2, GotoMoves, Zenon DEF LoopMove
  <2>2. CASE Goto(n, [loop[n] EXCEPT !.tries = @ + 1])
    <3> DEFINE l == [loop[n] EXCEPT !.tries = @ + 1]
    <3>1. /\ l.pc = loop[n].pc /\ l.cur = loop[n].cur /\ l.todo = loop[n].todo
          /\ l.err = loop[n].err
      BY <1>1, Zenon DEF Loops
    <3>2. Goto(n, l) /\ loop[n].pc = "complete"
      BY <1>5, <2>2, Zenon DEF Complete
    <3> HIDE DEF l
    <3> QED
      BY <1>1, <3>1, <3>2, GotoMoves DEF LoopMove
  <2> QED
    BY <1>5, <2>1, <2>2, Zenon DEF Complete
<1> QED
  BY <1>2, <1>3, <1>4, <1>5, Zenon

\* Every step moves every loop as LoopMove says.
LEMMA LoopMoves ==
    ASSUME TypeInv, [Next]_vars
    PROVE  \A m \in NodeNames : LoopMove(m)
<1>1. NodesTypeOK
  BY Zenon DEF TypeInv, CoreInv
<1> DEFINE Goal == \A m \in NodeNames : LoopMove(m)
<1>2. UNCHANGED loop => Goal
  BY Zenon DEF LoopMove
<1>3. Idle.pc \notin {"run", "complete"} /\ Idle.todo = {}
  BY RestingLoops, Zenon
<1>4. ASSUME NEW n \in NodeNames, LoopStep(n) PROVE Goal
  <2>1. \A st : LET l == [Idle EXCEPT !.pc = "eval", !.st = st]
                IN  l.pc \notin {"run", "complete"} /\ l.todo = {}
    BY RestingLoops, Zenon
  <2>2. CASE Goto(n, Observed(n))
    <3>1. Observed(n).pc \notin {"run", "complete"} /\ Observed(n).todo = {}
      BY <2>1, Zenon DEF Observed
    <3> QED
      BY <1>1, <2>2, <3>1, RestMoves, Zenon
  <2>7. CASE Monitor(n)
    <3>1. PICK S : Goto(n, [Idle EXCEPT !.pc = "clear", !.todo = S]) \/ Goto(n, Observed(n))
      BY <2>7, Zenon DEF Monitor
    <3> DEFINE l == [Idle EXCEPT !.pc = "clear", !.todo = S]
    <3>2. l.pc = "clear"
      BY Zenon DEF Idle
    <3>3. Goto(n, l) \/ Goto(n, Observed(n))
      BY <3>1, Zenon
    <3> HIDE DEF l
    <3>4. CASE Goto(n, l)
      BY <1>1, <3>2, <3>4, GotoMoves, Zenon DEF LoopMove
    <3> QED
      BY <2>2, <3>3, <3>4, Zenon
  <2>8. CASE MonitorTimeout(n)
    <3>1. PICK id : Goto(n, [loop[n] EXCEPT !.todo = @ \ {id}])
      BY <2>8, Zenon DEF MonitorTimeout
    <3> DEFINE l == [loop[n] EXCEPT !.todo = @ \ {id}]
    <3>2. loop[n] \in Loops
      BY <1>1, Zenon DEF NodesTypeOK
    <3>3. l.pc = loop[n].pc
      BY <3>2, Zenon DEF Loops
    <3>4. Goto(n, l) /\ loop[n].pc = "clear"
      BY <2>8, <3>1, Zenon DEF MonitorTimeout
    <3> HIDE DEF l
    <3> QED
      BY <1>1, <3>3, <3>4, GotoMoves, Zenon DEF LoopMove
  <2>9. CASE MonitorClear(n)
    BY <2>2, <2>9, Zenon DEF MonitorClear
  <2>3. CASE Goto(n, Idle)
    BY <1>1, <1>3, <2>3, RestMoves, Zenon
  <2>4. ASSUME NEW m, Goto(n, [Idle EXCEPT !.pc = "start", !.from = m]) PROVE Goal
    <3> DEFINE l == [Idle EXCEPT !.pc = "start", !.from = m]
    <3>1. l.pc \notin {"run", "complete"} /\ l.todo = {}
      BY RestingLoops, Zenon
    <3>2. Goto(n, l)
      BY <2>4, Zenon
    <3> HIDE DEF l
    <3> QED
      BY <1>1, <3>1, <3>2, RestMoves, Zenon
  <2>5. CASE Evaluate(n)
    <3>1. PICK s : \/ EvalStarting(n, s)
                   \/ EvalPrimary(n, s)
                   \/ EvalReplica(n, s)
                   \/ EvalLagging(n, s)
                   \/ EvalParked(n, s)
      BY <2>5, Zenon DEF Evaluate
    <3>2. CASE EvalStandby(n, s)
      BY <2>3, <2>4, <3>2, Zenon DEF EvalStandby
    <3>3. CASE CheckQuorum(n, s)
      BY <2>3, <3>3, Zenon DEF CheckQuorum, Move, Stay
    <3> QED
      BY <2>3, <3>1, <3>2, <3>3, Zenon
         DEF EvalStarting, EvalPrimary, EvalReplica, EvalLagging, EvalParked, Move, Stay
  <2>6. CASE StartFailover(n)
    BY <1>2, <2>3, <2>6, Zenon DEF StartFailover, Goto
  <2> QED
    BY <1>4, <2>5, <2>6, <2>7, <2>8, <2>9, RunMoves, Zenon DEF LoopStep
<1>5. ASSUME NEW n \in NodeNames, NEW w \in Workers, OpStep(n, w) PROVE Goal
  <2>1. Return(n, w) => Goal
    BY <1>1, <1>2, <1>3, RestMoves, Zenon DEF Return, Goto
  <2>2. CASE PublishFence(n, w) \/ PublishPromote(n, w)
    BY <1>2, <2>1, <2>2, Zenon DEF PublishFence, PublishPromote, Publish, Abort
  <2>3. CASE PublishCheckpoint(n, w) \/ PublishDemote(n, w)
    BY <1>2, <2>1, <2>3, Zenon DEF PublishCheckpoint, PublishDemote, Publish, Abort
  <2>4. CASE AwaitCheckpoint(n, w) \/ AwaitSync(n, w) \/ WaitTimeout(n, w)
    BY <1>2, <2>1, <2>4, Zenon DEF AwaitCheckpoint, AwaitSync, WaitTimeout, Abort
  <2> QED
    BY <1>5, <2>1, <2>2, <2>3, <2>4, Zenon DEF OpStep
<1>6. ASSUME NEW n \in NodeNames, ApiCall(n) PROVE Goal
  BY <1>2, <1>6, Zenon DEF ApiCall, ManualFailover, ManualSwitchover, StartManual, Pause, Resume
<1>7. ASSUME NEW n \in NodeNames, Clock(n) PROVE Goal
  BY <1>2, <1>7, Zenon
     DEF Clock, TimeStep, ConfirmationElapses, DirectiveTimeout, QuorumTimeout, BackoffEnds,
         HealthGoesStale
<1>8. ASSUME NEW n \in NodeNames, World(n) PROVE Goal
  <2>1. CASE Restart(n)
    BY <1>1, <1>3, <2>1, RestMoves, Zenon DEF Restart, Goto
  <2> QED
    BY <1>2, <1>8, <2>1, Zenon
       DEF World, Check, Elect, LoseQuorum, StepDown, LoseContact, RegainContact, ServerFault,
           CatchUp
<1>9. CASE UNCHANGED vars
  BY <1>2, <1>9, Zenon DEF vars
<1> QED
  BY <1>4, <1>5, <1>6, <1>7, <1>8, <1>9, NextCases, Zenon DEF NodeStep

-----------------------------------------------------------------------------
(* Who carries out what.                                                   *)

TypesMatch ==
    \A x \in DOMAIN fsm.directives : fsm.directives[x].type = x[2]

Owns(n) ==
    /\ loop[n].pc # "clear" => \A x \in loop[n].todo :
          x \in DOMAIN fsm.directives /\ fsm.directives[x].target = n
    /\ loop[n].pc \in {"run", "complete"} => loop[n].cur \in loop[n].todo

LoopsOwn == \A n \in NodeNames : Owns(n)

OwnInv == OnceInv /\ HistoryInv /\ TypesMatch /\ LoopsOwn

\* Only committed directives are ever carried out, and only by their target.
LEMMA NextOwn == TypeInv /\ OwnInv /\ [Next]_vars => OwnInv'
<1> SUFFICES ASSUME TypeInv, OwnInv, [Next]_vars PROVE OwnInv'
  BY Zenon
<1>1. OnceInv /\ HistoryInv /\ TypesMatch /\ LoopsOwn
  BY Zenon DEF OwnInv
<1>2. OnceInv' /\ HistoryInv'
  BY <1>1, NextOnce, NextHistory, Zenon
<1>3. \A x \in DOMAIN fsm.directives :
        /\ x \in DOMAIN fsm'.directives
        /\ fsm'.directives[x].type = fsm.directives[x].type
        /\ fsm'.directives[x].target = fsm.directives[x].target
  BY <1>1, DirectivesStay, Zenon
<1>4. TypesMatch'
  <2>1. ASSUME NEW n \in NodeNames, NEW w \in Workers, NEW type, NEW next, NEW target,
               Committed(n, w, type, next, target)
        PROVE  TypesMatch'
    <3> DEFINE id == <<op[n][w].now, type>>
               d == NewDirective(type, target)
    <3>1. id[2] = type /\ d.type = type
      BY Zenon DEF NewDirective
    <3>2. fsm'.directives = Put(fsm.directives, id, d)
      BY <2>1, Zenon DEF Committed
    <3> HIDE DEF id, d
    <3>3. /\ DOMAIN fsm'.directives = DOMAIN fsm.directives \cup {id}
          /\ fsm'.directives[id] = d
      BY <3>2, Zenon DEF Put
    <3> QED
      BY <1>1, <1>3, <3>1, <3>3, Zenon DEF TypesMatch
  <2>2. DOMAIN fsm'.directives = DOMAIN fsm.directives => TypesMatch'
    BY <1>1, <1>3, Zenon DEF TypesMatch
  <2> QED
    BY <2>1, <2>2, StepKinds, Zenon DEF Calm, Kept, Opened, Waited
<1>5. ASSUME NEW m \in NodeNames PROVE Owns(m)'
  <2>1. Owns(m) /\ LoopMove(m)
    BY <1>1, LoopMoves, Zenon DEF LoopsOwn
  <2>2. \A x \in GetDirectivesForNode(View(m), m) :
          x \in DOMAIN fsm.directives /\ fsm.directives[x].target = m
    BY <1>1, ViewSince, Zenon DEF GetDirectivesForNode, Since
  <2>3. \/ loop'[m].pc = "clear"
        \/ loop'[m].todo = {}
        \/ loop[m].pc # "clear" /\ loop'[m].todo \subseteq loop[m].todo
        \/ loop'[m].todo = GetDirectivesForNode(View(m), m)
    BY <2>1, Zenon DEF LoopMove
  <2>4. loop'[m].pc # "clear" => \A x \in loop'[m].todo :
          x \in DOMAIN fsm'.directives /\ fsm'.directives[x].target = m
    BY <1>3, <2>1, <2>2, <2>3, Zenon DEF Owns
  <2>5. loop'[m].pc \in {"run", "complete"} => loop'[m].cur \in loop'[m].todo
    BY <2>1, Zenon DEF Owns, LoopMove
  <2> QED
    BY <2>4, <2>5, Zenon DEF Owns
<1> QED
  BY <1>2, <1>4, <1>5, Zenon DEF OwnInv, LoopsOwn

\* It holds at the start: nothing has been committed or read.
LEMMA InitOwn == Init => OwnInv
<1> SUFFICES ASSUME Init PROVE OwnInv
  BY Zenon
<1>1. DOMAIN fsm.directives = {}
  BY Zenon DEF Init, NewClusterFSM, EmptyMap
<1>2. \A n \in NodeNames, w \in Workers : op[n][w].step = "none"
  BY ConstantTypes, Zenon DEF Init
<1>3. \A n \in NodeNames : loop[n].pc = "idle" /\ loop[n].todo = {}
  BY RestingLoops, Zenon DEF Init
<1>4. HistoryInv
  <2>1. /\ \A i \in 1 .. MaxBehind : DOMAIN older[i].directives = {}
        /\ succeeded = {}
    BY Zenon DEF Init, NewClusterFSM, EmptyMap
  <2> QED
    BY <1>1, <2>1, Zenon DEF HistoryInv, Since, Successes
<1> QED
  BY <1>1, <1>2, <1>3, <1>4, ToCommitNone, Zenon
     DEF OwnInv, OnceInv, StampsUsed, StampsDiffer, NotYetCommitted, TypesMatch, LoopsOwn,
         Owns

\* Operations, API calls and clocks leave the servers alone.
LEMMA OnlyLoopsTouchServers ==
    ASSUME NEW n \in NodeNames, \/ \E w \in Workers : OpStep(n, w)
                               \/ ApiCall(n)
                               \/ Clock(n)
    PROVE  UNCHANGED server
<1>1. ASSUME NEW w \in Workers, OpStep(n, w) PROVE UNCHANGED server
  BY <1>1, Zenon DEF OpStep, PublishFence, PublishPromote, PublishCheckpoint, PublishDemote,
              Publish, AwaitCheckpoint, AwaitSync, WaitTimeout, env
<1>2. CASE ApiCall(n)
  BY <1>2, Zenon DEF ApiCall, ManualFailover, ManualSwitchover, StartManual, Pause, Resume, env
<1>3. CASE Clock(n)
  BY <1>3, Zenon DEF Clock, TimeStep, ConfirmationElapses, DirectiveTimeout, QuorumTimeout, BackoffEnds,
              HealthGoesStale, env
<1> QED
  BY <1>1, <1>2, <1>3, Zenon

\* Only a PROMOTE takes a server out of recovery (manager.go:417).
LEMMA OnlyPromotes ==
    ASSUME TypeInv, [Next]_vars, NEW m \in NodeNames, server[m].standby
    PROVE  server'[m].standby \/ Running(m, "PROMOTE")
<1>1. /\ server \in [NodeNames -> Servers]
      /\ \A n \in NodeNames : server[n] \in Servers
  BY Zenon DEF TypeInv, CoreInv, NodesTypeOK
<1>2. ASSUME NEW n \in NodeNames, NEW r, server' = [server EXCEPT ![n] = r.server],
             server[n].standby => r.server.standby
      PROVE  server'[m].standby
  BY <1>1, <1>2, Zenon
<1>3. UNCHANGED server => server'[m].standby
  BY Zenon
<1>4. ASSUME NEW n \in NodeNames, LoopStep(n)
      PROVE  server'[m].standby \/ Running(m, "PROMOTE")
  <2>1. CASE RunFence(n)
    BY <1>1, <1>2, <2>1, CommandResults, Zenon DEF RunFence, Ran
  <2>2. CASE RunCheckpoint(n)
    BY <1>1, <1>2, <2>2, CommandResults, Zenon DEF RunCheckpoint, Ran
  <2>3. CASE RunPromote(n)
    <3>1. Running(n, "PROMOTE") /\ \E r : server' = [server EXCEPT ![n] = r.server]
      BY <2>3, Zenon DEF RunPromote, Ran
    <3>2. m # n => server'[m] = server[m]
      BY <1>1, <3>1, Zenon
    <3> QED
      BY <3>1, <3>2, Zenon
  <2>4. CASE RunDemote(n)
    <3>1. PICK stop \in PgStop(server[n]) :
          \E touch \in Then(stop, TouchSignal(stop.server)) :
          \E start \in Then(touch, PgStart(touch.server)) : Ran(n, start)
      BY <2>4, Zenon DEF RunDemote
    <3>2. PICK touch \in Then(stop, TouchSignal(stop.server)) :
          \E start \in Then(touch, PgStart(touch.server)) : Ran(n, start)
      BY <3>1, Zenon
    <3>3. PICK start \in Then(touch, PgStart(touch.server)) : Ran(n, start)
      BY <3>2, Zenon
    <3>4. stop.server \in Servers /\ (server[n].standby => stop.server.standby)
      BY <1>1, CommandResults, Zenon
    <3>5. touch.server \in Servers /\ (stop.server.standby => touch.server.standby)
      BY <3>4, CommandResults, Zenon DEF Then
    <3>6. touch.server.standby => start.server.standby
      BY <3>5, CommandResults, Zenon DEF Then
    <3> QED
      BY <1>2, <3>3, <3>4, <3>5, <3>6, Zenon DEF Ran
  <2>5. CASE Evaluate(n)
    <3>1. UNCHANGED server \/ \E r \in PgStop(server[n]) : server' = [server EXCEPT ![n] = r.server]
      BY <2>5, Zenon DEF Evaluate, EvalStarting, EvalPrimary, EvalReplica, EvalLagging, EvalParked,
                  CheckQuorum
    <3> QED
      BY <1>1, <1>2, <1>3, <3>1, CommandResults, Zenon
  <2> QED
    BY <1>3, <1>4, <2>1, <2>2, <2>3, <2>4, <2>5, Zenon
       DEF LoopStep, Tick, NextDirective, Complete, Monitor, MonitorTimeout,
           MonitorClear, StartFailover, env
<1>5. ASSUME NEW n \in NodeNames, World(n) PROVE server'[m].standby
  <2>1. CASE ServerFault(n)
    <3>1. server' = [server EXCEPT ![n].up = ~@]
      BY <2>1, Zenon DEF ServerFault
    <3> QED
      BY <1>1, <3>1, Zenon DEF Servers
  <2> QED
    BY <1>3, <1>5, <2>1, Zenon
       DEF World, Check, Elect, LoseQuorum, StepDown, LoseContact, RegainContact, CatchUp, Restart,
           env
<1>6. ASSUME NEW n \in NodeNames, \/ \E w \in Workers : OpStep(n, w)
                                  \/ ApiCall(n)
                                  \/ Clock(n)
      PROVE  UNCHANGED server
  BY <1>6, OnlyLoopsTouchServers, Zenon
<1>7. CASE UNCHANGED vars
  BY <1>3, <1>7, Zenon DEF vars, env
<1> QED
  BY <1>3, <1>4, <1>5, <1>6, <1>7, NextCases, Zenon DEF NodeStep

\* No step makes a primary that no directive justifies.
LEMMA NextJustified ==
    TypeInv /\ OwnInv /\ PrimariesJustified /\ [Next]_vars => PrimariesJustified'
<1> SUFFICES ASSUME TypeInv, OwnInv, PrimariesJustified, [Next]_vars,
                    NEW n \in NodeNames, ~server'[n].standby, n # InitialPrimary
             PROVE  \E x \in DOMAIN fsm'.directives :
                       /\ fsm'.directives[x].type = "PROMOTE"
                       /\ fsm'.directives[x].target = n
  BY Zenon DEF PrimariesJustified
<1>1. \E x \in DOMAIN fsm.directives :
         fsm.directives[x].type = "PROMOTE" /\ fsm.directives[x].target = n
  <2>1. CASE ~server[n].standby
    BY <2>1, Zenon DEF PrimariesJustified
  <2>2. CASE server[n].standby
    <3>1. loop[n].pc = "run" /\ loop[n].cur[2] = "PROMOTE"
      BY <2>2, OnlyPromotes, Zenon DEF Running
    <3>2. Owns(n) /\ TypesMatch
      BY Zenon DEF OwnInv, LoopsOwn
    <3>3. /\ loop[n].cur \in DOMAIN fsm.directives
          /\ fsm.directives[loop[n].cur].target = n
      BY <3>1, <3>2, Zenon DEF Owns
    <3> QED
      BY <3>1, <3>2, <3>3, Zenon DEF TypesMatch
  <2> QED
    BY <2>1, <2>2, Zenon
<1>2. OnceInv
  BY Zenon DEF OwnInv
<1> QED
  BY <1>1, <1>2, DirectivesStay, Zenon

\* A server leaves recovery only on a node for which a PROMOTE has been
\* committed (manager.go:417, fsm.go:364).
THEOREM PromotedByDirective == Spec => []PrimariesJustified
<1>1. Init => PrimariesJustified
  <2> SUFFICES ASSUME Init, NEW n \in NodeNames, n # InitialPrimary
               PROVE  server[n].standby
    BY Zenon DEF PrimariesJustified
  <2>1. server[n] = [up |-> TRUE, standby |-> n # InitialPrimary]
    BY Zenon DEF Init
  <2>2. (n # InitialPrimary) = TRUE
    BY Zenon
  <2>3. server[n] = [up |-> TRUE, standby |-> TRUE]
    BY <2>1, <2>2, Zenon
  <2> QED
    BY <2>3
<1> QED
  BY <1>1, InitOwn, NextOwn, NextJustified, TypeInvariant, PTL DEF Spec

-----------------------------------------------------------------------------
(* The CHECKPOINT a switchover has waited for did succeed.  Its result may *)
(* be replaced later, by a node that read the directive as pending from a  *)
(* replica that was behind and ran it again; that it succeeded stays       *)
(* recorded, and a node reads no success that is not.                      *)

WaitsOver ==
    \A n \in NodeNames, w \in Workers : op[n][w].step \in {"sync", "demote"} =>
        <<op[n][w].now, "CHECKPOINT">> \in succeeded

CheckpointInv == OwnInv /\ WaitsOver /\ DemoteAfterCheckpoint

\* Every step preserves it.
LEMMA NextCheckpoint == TypeInv /\ CheckpointInv /\ [Next]_vars => CheckpointInv'
<1> SUFFICES ASSUME TypeInv, CheckpointInv, [Next]_vars PROVE CheckpointInv'
  BY Zenon
<1>1. OwnInv /\ HistoryInv /\ OwnInv' /\ NoOp.step = "none"
  BY NextOwn, ConstantTypes, Zenon DEF CheckpointInv, OwnInv
<1>2. succeeded \subseteq succeeded'
  BY <1>1, SuccessGrows, Zenon
<1>3. ASSUME NEW m \in NodeNames, NEW v \in Workers, op'[m][v] = op[m][v],
             op[m][v].step \in {"sync", "demote"}
      PROVE  <<op'[m][v].now, "CHECKPOINT">> \in succeeded'
  BY <1>2, <1>3, Zenon DEF CheckpointInv, WaitsOver
<1>4. ASSUME DOMAIN fsm'.directives = DOMAIN fsm.directives PROVE DemoteAfterCheckpoint'
  BY <1>2, <1>4, Zenon DEF CheckpointInv, DemoteAfterCheckpoint
<1>5. CASE Calm
  BY <1>1, <1>3, <1>4, <1>5, Zenon DEF CheckpointInv, WaitsOver, Calm, Kept
<1>6. ASSUME NEW n \in NodeNames, NEW w \in Workers, Opened(n, w) PROVE CheckpointInv'
  BY <1>1, <1>3, <1>4, <1>6, Zenon DEF CheckpointInv, WaitsOver, Opened, OthersKept
<1>7. ASSUME NEW n \in NodeNames, NEW w \in Workers, NEW type, NEW next, NEW target,
             Committed(n, w, type, next, target)
      PROVE  CheckpointInv'
  <2> DEFINE k == op[n][w].now
             id == <<k, type>>
  <2>1. /\ DOMAIN fsm'.directives = DOMAIN fsm.directives \cup {id}
        /\ Scheduled(op[n][w].step, type, next)
        /\ OthersKept(n, w)
        /\ op'[n][w] = NoOp \/ op'[n][w].step = next
    BY <1>7, Zenon DEF Committed, Put
  <2>2. id[1] = k /\ id[2] = type
    BY Zenon
  <2>3. type = "DEMOTE" => <<k, "CHECKPOINT">> \in succeeded
    BY <2>1, Zenon DEF CheckpointInv, WaitsOver, Scheduled
  <2> HIDE DEF id
  <2>4. WaitsOver'
    BY <1>1, <1>3, <2>1, Zenon DEF WaitsOver, Scheduled, OthersKept
  <2>5. DemoteAfterCheckpoint'
    BY <1>2, <2>1, <2>2, <2>3, Zenon DEF CheckpointInv, DemoteAfterCheckpoint
  <2> QED
    BY <1>1, <2>4, <2>5, Zenon DEF CheckpointInv
<1>8. ASSUME NEW n \in NodeNames, NEW w \in Workers, Waited(n, w) PROVE CheckpointInv'
  <2>1. PICK cp : cp = <<op[n][w].now, "CHECKPOINT">>
    BY Zenon
  <2>2. cp \in succeeded
    <3>1. CASE op[n][w].step = "sync"
      BY <2>1, <3>1, Zenon DEF CheckpointInv, WaitsOver
    <3>2. CASE op[n][w].step = "await"
      <4>1. cp \in Successes(View(n))
        BY <1>8, <2>1, <3>2, Zenon DEF Waited, Successes
      <4> QED
        BY <1>1, <4>1, ViewSince, Zenon
    <3> QED
      BY <1>8, <3>1, <3>2, Zenon DEF Waited
  <2>3. cp = <<op'[n][w].now, "CHECKPOINT">> /\ cp \in succeeded'
    BY <1>2, <1>8, <2>1, <2>2, Zenon DEF Waited
  <2>4. WaitsOver'
    BY <1>3, <1>8, <2>3, Zenon DEF WaitsOver, Waited, OthersKept
  <2> QED
    BY <1>1, <1>4, <1>8, <2>4, Zenon DEF CheckpointInv, Waited
<1> QED
  BY <1>5, <1>6, <1>7, <1>8, StepKinds, Zenon

\* The invariant CheckpointBeforeDemote rests on.
LEMMA CheckpointInvariant == Spec => []CheckpointInv
<1>1. Init => CheckpointInv
  <2> SUFFICES ASSUME Init PROVE CheckpointInv
    BY Zenon
  <2>1. OwnInv /\ DOMAIN fsm.directives = {}
    BY InitOwn, Zenon DEF Init, NewClusterFSM, EmptyMap
  <2>2. \A n \in NodeNames, w \in Workers : op[n][w].step = "none"
    BY ConstantTypes, Zenon DEF Init
  <2> QED
    BY <2>1, <2>2, Zenon DEF CheckpointInv, WaitsOver, DemoteAfterCheckpoint
<1> QED
  BY <1>1, NextCheckpoint, TypeInvariant, PTL DEF Spec

\* A switchover's DEMOTE is committed only after a success of its CHECKPOINT has
\* been, however far the replica is behind from which the leader reads it
\* (failover.go:306, fsm.go:363).
THEOREM CheckpointBeforeDemote == Spec => []DemoteAfterCheckpoint
<1>1. CheckpointInv => DemoteAfterCheckpoint
  BY Zenon DEF CheckpointInv
<1> QED
  BY <1>1, CheckpointInvariant, PTL

-----------------------------------------------------------------------------
(* FailoverCluster implements DirectiveBoard.  A step either changes       *)
(* servers or directives; a change of servers is the execution of a        *)
(* directive by its target (OwnInv), a change of directives is a           *)
(* publication in order (HandledInv, CheckpointInv) or a completion.       *)

\* Which steps change whether a server is a standby.

SameRole(m) == server'[m].standby <=> server[m].standby
SameRoles == \A m \in NodeNames : SameRole(m)

\* What the commands do to a server's role (external, pg_ctl and touch).
LEMMA RolesAfterCommands ==
    ASSUME NEW u \in Servers
    PROVE  /\ \A r \in PgStop(u) \cup PgStart(u) \cup Command(u, u.up, u) :
                 r.server \in Servers /\ (r.server.standby <=> u.standby)
           /\ \A r \in TouchSignal(u) :
                 r.server \in Servers /\ ((r.server.standby <=> u.standby) \/ r.server.standby)
           /\ \A r \in PgPromote(u) :
                 r.server \in Servers /\ ((r.server.standby <=> u.standby) \/ ~r.server.standby)
<1>1. /\ [u EXCEPT !.up = FALSE] \in Servers
      /\ [u EXCEPT !.up = TRUE] \in Servers
      /\ [u EXCEPT !.standby = TRUE] \in Servers
      /\ [u EXCEPT !.standby = FALSE] \in Servers
      /\ [u EXCEPT !.up = FALSE].standby = u.standby
      /\ [u EXCEPT !.up = TRUE].standby = u.standby
      /\ [u EXCEPT !.standby = TRUE].standby
      /\ ~[u EXCEPT !.standby = FALSE].standby
  BY Zenon DEF Servers
<1>2. ASSUME NEW b, NEW v \in Servers, NEW r \in Command(u, b, v)
      PROVE  r.server = u \/ r.server = v
  <2>1. \/ r = [server |-> u, err |-> "exec"]
        \/ r = [server |-> v, err |-> ""]
        \/ r = [server |-> v, err |-> "exec"]
    BY <1>2, Zenon DEF Command, Outcome
  <2> QED
    BY <2>1, OutcomeFields, Zenon
<1>3. \A r \in PgStop(u) : r.server = u \/ r.server = [u EXCEPT !.up = FALSE]
  BY <1>1, <1>2, Zenon DEF PgStop
<1>4. \A r \in PgStart(u) : r.server = u \/ r.server = [u EXCEPT !.up = TRUE]
  BY <1>1, <1>2, Zenon DEF PgStart
<1>5. \A r \in Command(u, u.up, u) : r.server = u
  BY <1>2, Zenon
<1>6. \A r \in TouchSignal(u) : r.server = u \/ r.server = [u EXCEPT !.standby = TRUE]
  BY <1>1, <1>2, Zenon DEF TouchSignal
<1>7. \A r \in PgPromote(u) : r.server = u \/ r.server = [u EXCEPT !.standby = FALSE]
  BY <1>1, <1>2, Zenon DEF PgPromote
<1>8. \A r \in PgStop(u) \cup PgStart(u) \cup Command(u, u.up, u) :
         r.server \in Servers /\ (r.server.standby <=> u.standby)
  BY <1>1, <1>3, <1>4, <1>5, Zenon
<1>9. \A r \in TouchSignal(u) :
         r.server \in Servers /\ ((r.server.standby <=> u.standby) \/ r.server.standby)
  BY <1>1, <1>6, Zenon
<1>10. \A r \in PgPromote(u) :
         r.server \in Servers /\ ((r.server.standby <=> u.standby) \/ ~r.server.standby)
  BY <1>1, <1>7, Zenon
<1> QED
  BY <1>8, <1>9, <1>10, Zenon

\* A server that is replaced leaves the others alone.
LEMMA OneServer ==
    ASSUME NodesTypeOK, NEW n \in NodeNames, NEW v, server' = [server EXCEPT ![n] = v]
    PROVE  server'[n] = v /\ \A m \in NodeNames : m # n => SameRole(m)
BY Zenon DEF NodesTypeOK, SameRole

\* Roles change when a PROMOTE or a DEMOTE is run, and only on the node that
\* runs it (manager.go:417, 437).
LEMMA RoleChanges ==
    ASSUME TypeInv, [Next]_vars
    PROVE  \/ SameRoles
           \/ \E n \in NodeNames :
                 /\ \A m \in NodeNames : m # n => SameRole(m)
                 /\ \/ RunPromote(n) /\ ~server'[n].standby
                    \/ RunDemote(n) /\ server'[n].standby
<1> DEFINE Goal == \/ SameRoles
                   \/ \E n \in NodeNames :
                         /\ \A m \in NodeNames : m # n => SameRole(m)
                         /\ \/ RunPromote(n) /\ ~server'[n].standby
                            \/ RunDemote(n) /\ server'[n].standby
<1>1. NodesTypeOK /\ \A n \in NodeNames : server[n] \in Servers
  BY Zenon DEF TypeInv, CoreInv, NodesTypeOK
<1>2. UNCHANGED server => Goal
  BY Zenon DEF SameRoles, SameRole
<1>3. ASSUME NEW n \in NodeNames, NEW r, server' = [server EXCEPT ![n] = r.server],
             r.server.standby <=> server[n].standby
      PROVE  Goal
  <2>1. server'[n] = r.server /\ \A m \in NodeNames : m # n => SameRole(m)
    BY <1>1, <1>3, OneServer, Zenon
  <2>2. SameRole(n)
    BY <1>3, <2>1, Zenon DEF SameRole
  <2> QED
    BY <2>1, <2>2, Zenon DEF SameRoles
<1>4. ASSUME NEW n \in NodeNames, LoopStep(n) PROVE Goal
  <2>1. CASE RunFence(n)
    BY <1>1, <1>3, <2>1, RolesAfterCommands, Zenon DEF RunFence, Ran
  <2>2. CASE RunCheckpoint(n)
    BY <1>1, <1>3, <2>2, RolesAfterCommands, Zenon DEF RunCheckpoint, Ran
  <2>3. CASE RunPromote(n)
    <3>1. PICK r \in PgPromote(server[n]) : server' = [server EXCEPT ![n] = r.server]
      BY <2>3, Zenon DEF RunPromote, Ran
    <3>2. (r.server.standby <=> server[n].standby) \/ ~r.server.standby
      BY <1>1, <3>1, RolesAfterCommands, Zenon
    <3>3. server'[n] = r.server /\ \A m \in NodeNames : m # n => SameRole(m)
      BY <1>1, <3>1, OneServer, Zenon
    <3> QED
      BY <1>3, <2>3, <3>1, <3>2, <3>3, Zenon
  <2>4. CASE RunDemote(n)
    <3>1. PICK stop \in PgStop(server[n]) :
          \E touch \in Then(stop, TouchSignal(stop.server)) :
          \E start \in Then(touch, PgStart(touch.server)) : Ran(n, start)
      BY <2>4, Zenon DEF RunDemote
    <3>2. PICK touch \in Then(stop, TouchSignal(stop.server)) :
          \E start \in Then(touch, PgStart(touch.server)) : Ran(n, start)
      BY <3>1, Zenon
    <3>3. PICK start \in Then(touch, PgStart(touch.server)) : Ran(n, start)
      BY <3>2, Zenon
    <3>4. stop.server \in Servers /\ (stop.server.standby <=> server[n].standby)
      BY <1>1, RolesAfterCommands, Zenon
    <3>5. /\ touch.server \in Servers
          /\ (touch.server.standby <=> stop.server.standby) \/ touch.server.standby
      BY <3>4, RolesAfterCommands, Zenon DEF Then
    <3>6. start.server.standby <=> touch.server.standby
      BY <3>5, RolesAfterCommands, Zenon DEF Then
    <3>7. server' = [server EXCEPT ![n] = start.server]
      BY <3>3, Zenon DEF Ran
    <3>8. server'[n] = start.server /\ \A m \in NodeNames : m # n => SameRole(m)
      BY <1>1, <3>7, OneServer, Zenon
    <3> QED
      BY <1>3, <2>4, <3>4, <3>5, <3>6, <3>7, <3>8, Zenon
  <2>5. CASE Evaluate(n)
    <3>1. UNCHANGED server \/ \E r \in PgStop(server[n]) : server' = [server EXCEPT ![n] = r.server]
      BY <2>5, Zenon DEF Evaluate, EvalStarting, EvalPrimary, EvalReplica, EvalLagging, EvalParked,
                  CheckQuorum
    <3> QED
      BY <1>1, <1>2, <1>3, <3>1, RolesAfterCommands, Zenon
  <2> QED
    BY <1>2, <1>4, <2>1, <2>2, <2>3, <2>4, <2>5, Zenon
       DEF LoopStep, Tick, NextDirective, Complete, Monitor, MonitorTimeout,
           MonitorClear, StartFailover, env
<1>5. ASSUME NEW n \in NodeNames, World(n) PROVE Goal
  <2>1. CASE ServerFault(n)
    <3>1. server' = [server EXCEPT ![n].up = ~@]
      BY <2>1, Zenon DEF ServerFault
    <3>2. \A m \in NodeNames : server'[m].standby = server[m].standby
      BY <1>1, <3>1, Zenon DEF NodesTypeOK, Servers
    <3> QED
      BY <3>2, Zenon DEF SameRoles, SameRole
  <2> QED
    BY <1>2, <1>5, <2>1, Zenon
       DEF World, Check, Elect, LoseQuorum, StepDown, LoseContact, RegainContact, CatchUp, Restart,
           env
<1>6. ASSUME NEW n \in NodeNames, \/ \E w \in Workers : OpStep(n, w)
                                  \/ ApiCall(n)
                                  \/ Clock(n)
      PROVE  UNCHANGED server
  BY <1>6, OnlyLoopsTouchServers, Zenon
<1>7. CASE UNCHANGED vars
  BY <1>2, <1>7, Zenon DEF vars, env
<1> QED
  BY <1>2, <1>4, <1>5, <1>6, <1>7, NextCases, Zenon DEF NodeStep

-----------------------------------------------------------------------------
(* Which steps change the board.                                           *)

Resolution(err) == IF err = "" THEN "completed" ELSE "failed"

\* Completing a directive resolves it (fsm.go:204).
LEMMA CompleteStatus ==
    ASSUME NEW s, FSMTypeOK(s), NEW id \in DOMAIN s.directives, NEW err \in Errors
    PROVE  CompleteDirective(s, id, err, 1).directives[id].status = Resolution(err)
<1> DEFINE j == IF err # ""
                THEN [s.directives[id] EXCEPT !.status = "failed",
                                              !.completedAt = 1, !.error = err]
                ELSE [s.directives[id] EXCEPT !.status = "completed",
                                              !.completedAt = 1]
           p == Put(s.directives, id, j)
<1>1. s.directives[id] \in Directive
  BY DEF FSMTypeOK, IsMap
<1>2. j.status = Resolution(err)
  BY <1>1, Zenon DEF Directive, Resolution
<1> HIDE DEF j
<1>3. p[id] = j
  BY Zenon DEF Put
<1>4. CompleteDirective(s, id, err, 1) = [s EXCEPT !.directives = p]
  BY Zenon DEF CompleteDirective, j
<1> HIDE DEF p
<1>5. CompleteDirective(s, id, err, 1).directives = p
  BY <1>4 DEF FSMTypeOK
<1> QED
  BY <1>2, <1>3, <1>5, Zenon

\* A completion or a time-out resolves at most one directive and leaves its
\* target (fsm.go:204).
LEMMA ResolvesOne ==
    ASSUME TypeInv, NEW n \in NodeNames, Complete(n) \/ MonitorTimeout(n)
    PROVE  \/ fsm'.directives = fsm.directives
           \/ \E x \in DOMAIN fsm.directives :
                 /\ fsm'.directives[x].status \in {"completed", "failed"}
                 /\ \A y \in DOMAIN fsm.directives : y # x => fsm'.directives[y] = fsm.directives[y]
<1>1. NodesTypeOK /\ FSMTypeOK(fsm) /\ loop[n] \in Loops
  BY Zenon DEF TypeInv, CoreInv, NodesTypeOK
<1>2. ASSUME NEW id, NEW err \in Errors, fsm' \in Writes(n, fsm, CompleteDirective(fsm, id, err, 1))
      PROVE  \/ fsm'.directives = fsm.directives
             \/ \E x \in DOMAIN fsm.directives :
                   /\ fsm'.directives[x].status \in {"completed", "failed"}
                   /\ \A y \in DOMAIN fsm.directives :
                         y # x => fsm'.directives[y] = fsm.directives[y]
  <2> DEFINE c == CompleteDirective(fsm, id, err, 1)
  <2>1. 1 \in Nat /\ Resolution(err) \in {"completed", "failed"}
    BY Zenon DEF Resolution
  <2>2. \A y \in DOMAIN fsm.directives : y # id => c.directives[y] = fsm.directives[y]
    BY <1>1, <2>1, CompleteDirectiveKeeps
  <2>3. id \in DOMAIN fsm.directives => c.directives[id].status = Resolution(err)
    BY <1>1, <2>1, CompleteStatus, Zenon
  <2>4. id \notin DOMAIN fsm.directives => c = fsm
    BY Zenon DEF CompleteDirective
  <2> HIDE DEF c
  <2>5. fsm' = fsm \/ fsm' = c
    BY <1>2, WritesEither, Zenon DEF c
  <2> QED
    BY <2>1, <2>2, <2>3, <2>4, <2>5, Zenon
<1>3. CASE Complete(n)
  <2>1. loop[n].err \in Errors /\ fsm' \in Writes(n, fsm, CompleteDirective(fsm, loop[n].cur, loop[n].err, 1))
    BY <1>1, <1>3, Zenon DEF Loops, Complete
  <2> QED
    BY <1>2, <2>1, Zenon
<1>4. CASE MonitorTimeout(n)
  <2>1. TimedOut \in Errors
    BY Zenon DEF Errors, TimedOut
  <2>2. \/ \E id : fsm' \in Writes(n, fsm, CompleteDirective(fsm, id, TimedOut, 1))
        \/ UNCHANGED fsm
    BY <1>4, Zenon DEF MonitorTimeout
  <2> QED
    BY <1>2, <2>1, <2>2, Zenon
<1> QED
  BY <1>3, <1>4, Zenon

\* What is read from the log.
BoardOf(s) ==
    [x \in DOMAIN s.directives |-> [target |-> s.directives[x].target,
                                   status |-> s.directives[x].status]]

PrimariesOf(v) == {n \in NodeNames : ~v[n].standby}

BoardInv == TypeInv /\ HandledInv /\ CheckpointInv

\* A committed publication is a step of the board.
LEMMA CommitPins ==
    ASSUME BoardInv, BoardInv', [Next]_vars, PrimariesOf(server') = PrimariesOf(server),
           NEW n \in NodeNames, NEW w \in Workers, NEW type, NEW next, NEW target,
           Committed(n, w, type, next, target)
    PROVE  Board!Next
<1> DEFINE k == op[n][w].now
           x == <<k, type>>
<1>1. /\ x \notin DOMAIN fsm.directives
      /\ DOMAIN fsm'.directives = DOMAIN fsm.directives \cup {x}
  <2>1. OnceInv
    BY Zenon DEF BoardInv, CheckpointInv, OwnInv
  <2>2. x \notin DOMAIN fsm.directives
    BY <2>1, CommitsNew, Zenon
  <2> QED
    BY <2>2, Zenon DEF Committed, Put
<1>2. k \in 1 .. MaxOps /\ type \in {"FENCE", "PROMOTE", "DEMOTE", "CHECKPOINT"}
  <2>1. FSMTypeOK(fsm')
    BY Zenon DEF BoardInv, TypeInv, CoreInv, NodesTypeOK
  <2>2. x \in DirectiveIDs
    BY <1>1, <2>1, Zenon DEF FSMTypeOK, IsMap
  <2> QED
    BY <2>2, ClusterAssumption, Zenon DEF DirectiveTypes
<1>3. type = "PROMOTE" /\ FencingEnabled => HandledBefore(fsm, k)
  BY Zenon DEF BoardInv, HandledInv, PromotesHandled, Committed, Scheduled
<1>4. type = "DEMOTE" => <<k, "CHECKPOINT">> \in succeeded
  BY Zenon DEF BoardInv, CheckpointInv, WaitsOver, Committed, Scheduled
<1>5. /\ target \in NodeNames
      /\ fsm'.directives[x].target = target /\ fsm'.directives[x].status = "pending"
      /\ \A y \in DOMAIN fsm.directives : fsm'.directives[y] = fsm.directives[y]
  <2> DEFINE d == NewDirective(type, target)
  <2>1. d.target = target /\ d.status = "pending"
    BY Zenon DEF NewDirective
  <2>2. target \in NodeNames /\ fsm'.directives = Put(fsm.directives, x, d)
    BY Zenon DEF Committed
  <2> HIDE DEF d, x
  <2> QED
    BY <1>1, <2>1, <2>2, Zenon DEF Put
<1>6. BoardOf(fsm') = [y \in DOMAIN BoardOf(fsm) \cup {x} |->
                          IF y = x THEN [target |-> target, status |-> "pending"]
                          ELSE BoardOf(fsm)[y]]
  BY <1>1, <1>5, Zenon DEF BoardOf
<1>8. succeeded' = succeeded
  <2>1. Successes(fsm') \subseteq Successes(fsm)
    BY <1>1, <1>5 DEF Successes
  <2>2. TypeInv /\ HistoryInv
    BY Zenon DEF BoardInv, CheckpointInv, OwnInv
  <2>3. Successes(fsm) \subseteq succeeded
    BY <2>2, Zenon DEF HistoryInv
  <2> QED
    BY <2>1, <2>2, <2>3, SuccessGrows, Zenon
<1>7. Board!Pin(k, type, target)
  BY <1>1, <1>3, <1>4, <1>6, <1>8, Zenon
     DEF Board!Pin, BoardOf, PrimariesOf, HandledBefore
<1> HIDE DEF k, x
<1> QED
  BY <1>2, <1>5, <1>7, Zenon DEF Board!Next

\* So is a completion, which may replace an earlier one.
LEMMA ResolutionOnBoard ==
    ASSUME BoardInv, [Next]_vars, PrimariesOf(server') = PrimariesOf(server), Kept,
           NEW x \in DOMAIN fsm.directives,
           fsm'.directives[x].status \in {"completed", "failed"},
           \A y \in DOMAIN fsm.directives : y # x => fsm'.directives[y] = fsm.directives[y]
    PROVE  Board!Next
<1>0. PICK st \in {"completed", "failed"} : st = fsm'.directives[x].status
  BY Zenon
<1>1. BoardOf(fsm') = [BoardOf(fsm) EXCEPT ![x].status = st]
  <2>1. /\ DOMAIN fsm'.directives = DOMAIN fsm.directives
        /\ fsm'.directives[x].target = fsm.directives[x].target
    BY Zenon DEF Kept
  <2> QED
    BY <1>0, <2>1, Zenon DEF BoardOf
<1>2. succeeded' = IF st = "completed" THEN succeeded \cup {x} ELSE succeeded
  <2>1. TypeInv /\ HistoryInv
    BY Zenon DEF BoardInv, CheckpointInv, OwnInv
  <2>2. Successes(fsm) \subseteq succeeded
    BY <2>1, Zenon DEF HistoryInv
  <2>3. succeeded' = succeeded \cup Successes(fsm')
    BY <2>1, SuccessGrows, Zenon
  <2>4. \A y : y # x /\ y \in Successes(fsm') => y \in succeeded
    BY <2>2, Zenon DEF Kept, Successes
  <2>5. x \in Successes(fsm') <=> st = "completed"
    BY <1>0, Zenon DEF Kept, Successes
  <2> QED
    BY <2>3, <2>4, <2>5, Zenon
<1>3. Board!Resolve(x, st)
  BY <1>1, <1>2, Zenon DEF Board!Resolve, BoardOf, PrimariesOf
<1>4. x \in DOMAIN BoardOf(fsm)
  BY Zenon DEF BoardOf
<1> QED
  BY <1>3, <1>4, Zenon DEF Board!Next, BoardOf

\* A step that changes no directive records no success.
LEMMA NothingResolved ==
    ASSUME BoardInv, [Next]_vars, fsm'.directives = fsm.directives
    PROVE  BoardOf(fsm') = BoardOf(fsm) /\ succeeded' = succeeded
<1>1. TypeInv /\ HistoryInv
  BY Zenon DEF BoardInv, CheckpointInv, OwnInv
<1>2. Successes(fsm') = Successes(fsm) /\ Successes(fsm) \subseteq succeeded
  BY <1>1, Zenon DEF HistoryInv, Successes
<1>3. succeeded' = succeeded \cup Successes(fsm')
  BY <1>1, SuccessGrows, Zenon
<1> QED
  BY <1>2, <1>3, Zenon DEF BoardOf

\* A step that changes a role carries out a directive that its node was told.
LEMMA RoleOnBoard ==
    ASSUME BoardInv, [Next]_vars, NEW n \in NodeNames,
           \A m \in NodeNames : m # n => SameRole(m),
           \/ RunPromote(n) /\ ~server'[n].standby
           \/ RunDemote(n) /\ server'[n].standby
    PROVE  Board!Next
<1> DEFINE x == loop[n].cur
<1>1. fsm'.directives = fsm.directives
  BY RunKinds, Zenon DEF BoardInv
<1>2. BoardOf(fsm') = BoardOf(fsm) /\ succeeded' = succeeded
  BY <1>1, NothingResolved, Zenon
<1>3. x \in DOMAIN fsm.directives /\ fsm.directives[x].target = n
  <2>1. loop[n].pc = "run" /\ Owns(n)
    BY Zenon DEF RunPromote, RunDemote, Running, BoardInv, CheckpointInv, OwnInv, LoopsOwn
  <2> QED
    BY <2>1, Zenon DEF Owns
<1>4. CASE RunPromote(n) /\ ~server'[n].standby
  <2>1. x[2] = "PROMOTE"
    BY <1>4, Zenon DEF RunPromote, Running
  <2>2. PrimariesOf(server') = PrimariesOf(server) \cup {n}
    BY <1>4, Zenon DEF PrimariesOf, SameRole
  <2>3. Board!Promote(n)
    BY <1>2, <1>3, <2>1, <2>2, Zenon DEF Board!Promote, Board!Told, BoardOf, PrimariesOf
  <2> QED
    BY <2>3, Zenon DEF Board!Next
<1>5. CASE RunDemote(n) /\ server'[n].standby
  <2>1. x[2] = "DEMOTE"
    BY <1>5, Zenon DEF RunDemote, Running
  <2>2. PrimariesOf(server') = PrimariesOf(server) \ {n}
    BY <1>5, Zenon DEF PrimariesOf, SameRole
  <2>3. Board!Demote(n)
    BY <1>2, <1>3, <2>1, <2>2, Zenon DEF Board!Demote, Board!Told, BoardOf, PrimariesOf
  <2> QED
    BY <2>3, Zenon DEF Board!Next
<1> QED
  BY <1>4, <1>5, Zenon

\* Every step of the cluster is a step of the board.
LEMMA StepOnBoard ==
    ASSUME BoardInv, BoardInv', [Next]_vars
    PROVE  Board!Next
<1>1. TypeInv
  BY Zenon DEF BoardInv
<1>2. CASE SameRoles
  <2>1. PrimariesOf(server') = PrimariesOf(server)
    BY <1>2, Zenon DEF SameRoles, SameRole, PrimariesOf
  <2>2. ASSUME fsm'.directives = fsm.directives PROVE Board!Next
    <3>1. BoardOf(fsm') = BoardOf(fsm) /\ succeeded' = succeeded
      BY <2>2, NothingResolved, Zenon
    <3> QED
      BY <2>1, <3>1, Zenon DEF Board!Next, Board!Elsewhere, Board!vars, BoardOf, PrimariesOf
  <2>3. CASE Calm
    <3>1. \/ fsm'.directives = fsm.directives
          \/ \E x \in DOMAIN fsm.directives :
                /\ fsm'.directives[x].status \in {"completed", "failed"}
                /\ \A y \in DOMAIN fsm.directives : y # x => fsm'.directives[y] = fsm.directives[y]
      BY <1>1, <2>3, ResolvesOne, Zenon DEF Calm
    <3>2. Kept
      BY <2>3, Zenon DEF Calm
    <3> QED
      BY <2>1, <2>2, <3>1, <3>2, ResolutionOnBoard, Zenon
  <2>4. ASSUME NEW n \in NodeNames, NEW w \in Workers, NEW type, NEW next, NEW target,
               Committed(n, w, type, next, target)
        PROVE  Board!Next
    BY <2>1, <2>4, CommitPins, Zenon
  <2> QED
    BY <1>1, <2>2, <2>3, <2>4, StepKinds, Zenon DEF Opened, Waited
<1>3. ASSUME NEW n \in NodeNames,
             \A m \in NodeNames : m # n => SameRole(m),
             \/ RunPromote(n) /\ ~server'[n].standby
             \/ RunDemote(n) /\ server'[n].standby
      PROVE  Board!Next
  BY <1>3, RoleOnBoard, Zenon
<1> QED
  BY <1>1, <1>2, <1>3, RoleChanges, Zenon

\* FailoverCluster implements DirectiveBoard (failover.go:193-420, fsm.go:204,
\* manager.go:405-452): for any nodes, workers, elections, crashes and faults,
\* the committed directives and the roles of the servers only ever change as
\* the board allows.
THEOREM ClusterImplementsBoard == Spec => ImplementsBoard
<1>1. Init => Board!Init
  <2> SUFFICES ASSUME Init PROVE Board!Init
    BY Zenon
  <2>1. BoardOf(fsm) = [x \in {} |-> 0]
    BY Zenon DEF Init, NewClusterFSM, EmptyMap, BoardOf
  <2>2. PrimariesOf(server) = {InitialPrimary}
    BY ClusterAssumption, Zenon DEF Init, PrimariesOf
  <2>3. succeeded = {}
    BY Zenon DEF Init
  <2> QED
    BY <2>1, <2>2, <2>3, Zenon DEF Board!Init, BoardOf, PrimariesOf
<1>2. BoardInv /\ BoardInv' /\ [Next]_vars => [Board!Next]_(Board!vars)
  BY StepOnBoard, Zenon
<1>3. Spec => []BoardInv
  BY TypeInvariant, HandledInvariant, CheckpointInvariant, PTL DEF BoardInv
<1> QED
  BY <1>1, <1>2, <1>3, PTL DEF Spec, ImplementsBoard, Board!Spec

-----------------------------------------------------------------------------
(* A node stays FENCED until it is told otherwise.  The loop evaluates the *)
(* state it read at an earlier step, and sets the state after a directive  *)
(* that it began earlier; neither can be from before the fencing, because  *)
(* only the loop itself fences.                                            *)

FencedFits(s, l) ==
    s = "FENCED" => /\ l.pc = "eval" => l.st = "FENCED"
                    /\ l.pc = "run" => l.cur[2] \notin {"PROMOTE", "DEMOTE"}

FencedInv == \A n \in NodeNames : FencedFits(state[n], loop[n])

Commanded(n) ==
    \/ loop[n].pc = "dirs" /\ loop'[n].pc = "run"
    \/ \E w \in Workers : op'[n][w] # op[n][w]
    \/ loop[n].pc = "start"
    \/ crashes' # crashes

FencedStep ==
    \A n \in NodeNames : state[n] = "FENCED" /\ state'[n] # "FENCED" => Commanded(n)

\* A step of node n that is sound for n and does not touch the others.
SoundAt(n) ==
    /\ \A m \in NodeNames \ {n} : state'[m] = state[m] /\ loop'[m] = loop[m]
    /\ FencedFits(state'[n], loop'[n])
    /\ state[n] = "FENCED" => state'[n] = "FENCED" \/ Commanded(n)

LEMMA SoundStep ==
    ASSUME FencedInv, NEW n \in NodeNames, SoundAt(n)
    PROVE  FencedInv' /\ FencedStep
<1>1. ASSUME NEW m \in NodeNames
      PROVE  /\ FencedFits(state'[m], loop'[m])
             /\ state[m] = "FENCED" /\ state'[m] # "FENCED" => Commanded(m)
  <2>1. CASE m = n
    BY <2>1, Zenon DEF SoundAt
  <2>2. CASE m # n
    <3>1. state'[m] = state[m] /\ loop'[m] = loop[m]
      BY <2>2, Zenon DEF SoundAt
    <3>2. FencedFits(state'[m], loop'[m])
      BY <3>1, Zenon DEF FencedInv
    <3> QED
      BY <3>1, <3>2, Zenon
  <2> QED
    BY <2>1, <2>2, Zenon
<1> QED
  BY <1>1, Zenon DEF FencedInv, FencedFits, FencedStep

\* The state stays, and the loop goes where nothing can go wrong.
LEMMA SoundLoop ==
    ASSUME TypeInv, NEW n \in NodeNames, NEW l, loop' = [loop EXCEPT ![n] = l],
           UNCHANGED state, FencedFits(state[n], l)
    PROVE  SoundAt(n)
<1>1. loop \in [NodeNames -> Loops]
  BY Zenon DEF TypeInv, CoreInv, NodesTypeOK
<1>2. loop'[n] = l /\ \A m \in NodeNames \ {n} : loop'[m] = loop[m]
  BY <1>1, Zenon
<1> QED
  BY <1>2, Zenon DEF SoundAt

\* The loop is idle afterwards, and a fenced node stays fenced or was told.
LEMMA SoundMove ==
    ASSUME TypeInv, NEW n \in NodeNames, NEW s, NEW l,
           state' = [state EXCEPT ![n] = s], loop' = [loop EXCEPT ![n] = l],
           FencedFits(s, l), state[n] = "FENCED" => s = "FENCED" \/ Commanded(n)
    PROVE  SoundAt(n)
<1>1. loop \in [NodeNames -> Loops] /\ state \in [NodeNames -> States]
  BY Zenon DEF TypeInv, CoreInv, NodesTypeOK
<1>2. /\ loop'[n] = l /\ \A m \in NodeNames \ {n} : loop'[m] = loop[m]
      /\ state'[n] = s /\ \A m \in NodeNames \ {n} : state'[m] = state[m]
  BY <1>1, Zenon
<1> QED
  BY <1>2, Zenon DEF SoundAt

\* Neither the state nor the loop changes.
LEMMA SoundStill ==
    ASSUME FencedInv, NEW n \in NodeNames, UNCHANGED state, UNCHANGED loop
    PROVE  SoundAt(n)
  BY Zenon DEF FencedInv, SoundAt

LEMMA IdleFits == \A s : FencedFits(s, Idle)
  BY Zenon DEF FencedFits, Idle

\* Operations.  A step of one either leaves the state alone or changes the
\* operation too.
LEMMA ReturnFits ==
    ASSUME TypeInv, FencedInv, NEW n \in NodeNames, NEW w \in Workers, Return(n, w)
    PROVE  /\ \A m \in NodeNames \ {n} : loop'[m] = loop[m]
           /\ loop'[n] = Idle \/ loop'[n] = loop[n]
           /\ FencedFits(state[n], loop'[n])
<1>1. loop \in [NodeNames -> Loops]
  BY Zenon DEF TypeInv, CoreInv, NodesTypeOK
<1>2. /\ \A m \in NodeNames \ {n} : loop'[m] = loop[m]
      /\ loop'[n] = Idle \/ loop'[n] = loop[n]
  BY <1>1, Zenon DEF Return
<1>3. FencedFits(state[n], loop[n])
  BY Zenon DEF FencedInv
<1> QED
  BY <1>2, <1>3, IdleFits, Zenon

LEMMA AbortSound ==
    ASSUME TypeInv, FencedInv, NEW n \in NodeNames, NEW w \in Workers,
           op[n][w].step # "none", NEW s, Abort(n, w, s)
    PROVE  SoundAt(n)
<1>1. state \in [NodeNames -> States] /\ op \in [NodeNames -> [Workers -> Operations]]
  BY Zenon DEF TypeInv, CoreInv, NodesTypeOK
<1>2. op'[n][w] = NoOp
  BY <1>1, Zenon DEF Abort, SetOp
<1>3. Commanded(n)
  <2>1. NoOp.step = "none"
    BY Zenon DEF NoOp
  <2> QED
    BY <1>2, <2>1, Zenon DEF Commanded
<1>4. /\ \A m \in NodeNames \ {n} : loop'[m] = loop[m]
      /\ FencedFits(state[n], loop'[n])
  BY ReturnFits, Zenon DEF Abort
<1>5. CASE UNCHANGED state
  BY <1>3, <1>4, <1>5, Zenon DEF SoundAt
<1>6. CASE state' = [state EXCEPT ![n] = "RUNNING_REPLICA"]
  <2>1. /\ state'[n] = "RUNNING_REPLICA"
        /\ \A m \in NodeNames \ {n} : state'[m] = state[m]
    BY <1>1, <1>6, Zenon
  <2>2. "RUNNING_REPLICA" # "FENCED"
    BY Zenon
  <2>3. FencedFits(state'[n], loop'[n])
    BY <2>1, <2>2, Zenon DEF FencedFits
  <2> QED
    BY <1>3, <1>4, <2>1, <2>3, Zenon DEF SoundAt
<1> QED
  BY <1>5, <1>6, Zenon DEF Abort, SetState

LEMMA PublishSound ==
    ASSUME TypeInv, FencedInv, NEW n \in NodeNames, NEW w \in Workers,
           op[n][w].step # "none", NEW type, NEW target, NEW next,
           Publish(n, w, type, target, next)
    PROVE  SoundAt(n)
<1>1. CASE UNCHANGED state /\ Return(n, w)
  <2>1. /\ \A m \in NodeNames \ {n} : loop'[m] = loop[m]
        /\ FencedFits(state[n], loop'[n])
    BY <1>1, ReturnFits, Zenon
  <2> QED
    BY <1>1, <2>1, Zenon DEF SoundAt
<1>2. CASE UNCHANGED state /\ UNCHANGED loop
  BY <1>2, SoundStill, Zenon
<1>3. CASE \E t : Abort(n, w, t)
  BY <1>3, AbortSound, Zenon
<1> QED
  BY <1>1, <1>2, <1>3, Zenon DEF Publish

LEMMA OpSound ==
    ASSUME TypeInv, FencedInv, NEW n \in NodeNames, NEW w \in Workers, OpStep(n, w)
    PROVE  SoundAt(n)
<1>1. CASE PublishFence(n, w)
  BY <1>1, PublishSound, Zenon DEF PublishFence
<1>2. CASE PublishPromote(n, w)
  BY <1>2, PublishSound, Zenon DEF PublishPromote
<1>3. CASE PublishCheckpoint(n, w)
  BY <1>3, PublishSound, Zenon DEF PublishCheckpoint
<1>4. CASE PublishDemote(n, w)
  BY <1>4, PublishSound, Zenon DEF PublishDemote
<1>5. CASE AwaitCheckpoint(n, w)
  <2>1. op[n][w].step # "none"
    BY <1>5, Zenon DEF AwaitCheckpoint
  <2>2. (UNCHANGED state /\ UNCHANGED loop) \/ Abort(n, w, fsm)
    BY <1>5, Zenon DEF AwaitCheckpoint
  <2> QED
    BY <2>1, <2>2, SoundStill, AbortSound, Zenon
<1>6. CASE AwaitSync(n, w)
  BY <1>6, SoundStill, Zenon DEF AwaitSync, manager
<1>7. CASE WaitTimeout(n, w)
  <2>1. op[n][w].step # "none" /\ Abort(n, w, fsm)
    BY <1>7, Zenon DEF WaitTimeout
  <2> QED
    BY <2>1, AbortSound, Zenon
<1> QED
  BY <1>1, <1>2, <1>3, <1>4, <1>5, <1>6, <1>7, Zenon DEF OpStep

LEMMA StartManualSound ==
    ASSUME TypeInv, FencedInv, NEW n \in NodeNames, NEW w \in Workers, NEW o,
           o.kind # "none", StartManual(n, w, o)
    PROVE  SoundAt(n)
<1>1. state \in [NodeNames -> States] /\ op \in [NodeNames -> [Workers -> Operations]]
  BY Zenon DEF TypeInv, CoreInv, NodesTypeOK
<1>2. op'[n][w] = o /\ op[n][w] = NoOp
  BY <1>1, Zenon DEF StartManual, SetOp
<1>3. NoOp.kind = "none"
  BY Zenon DEF NoOp
<1>4. Commanded(n)
  BY <1>2, <1>3, Zenon DEF Commanded
<1>5. /\ state'[n] = "FAILOVER_IN_PROGRESS" /\ UNCHANGED loop
      /\ \A m \in NodeNames \ {n} : state'[m] = state[m]
  BY <1>1, Zenon DEF StartManual, SetState
<1>6. FencedFits("FAILOVER_IN_PROGRESS", loop[n])
  BY Zenon DEF FencedFits
<1> QED
  BY <1>4, <1>5, <1>6, Zenon DEF SoundAt

LEMMA ApiSound ==
    ASSUME TypeInv, FencedInv, NEW n \in NodeNames, ApiCall(n)
    PROVE  SoundAt(n)
<1>1. ASSUME NEW w \in ApiWorkers, NEW to \in NodeNames, ManualFailover(n, w, to)
      PROVE  SoundAt(n)
  <2>1. FailoverFrom(GetPrimary(View(n)), to).kind # "none" /\ w \in Workers
    BY Zenon DEF FailoverFrom, Operation, Workers
  <2> QED
    BY <1>1, <2>1, StartManualSound, Zenon DEF ManualFailover
<1>2. ASSUME NEW w \in ApiWorkers, NEW to \in NodeNames, ManualSwitchover(n, w, to)
      PROVE  SoundAt(n)
  <2>1. Operation("switchover", "checkpoint", GetPrimary(View(n)), to).kind # "none" /\ w \in Workers
    BY Zenon DEF Operation, Workers
  <2> QED
    BY <1>2, <2>1, StartManualSound, Zenon DEF ManualSwitchover
<1>3. CASE Pause(n)
  BY <1>3, SoundStill, Zenon DEF Pause
<1>4. CASE Resume(n)
  BY <1>4, SoundStill, Zenon DEF Resume
<1> QED
  BY <1>1, <1>2, <1>3, <1>4, Zenon DEF ApiCall

\* The loop: directives.
LEMMA NextDirectiveSound ==
    ASSUME TypeInv, FencedInv, NEW n \in NodeNames, NextDirective(n)
    PROVE  SoundAt(n)
<1>1. PICK id \in loop[n].todo :
        /\ Goto(n, [loop[n] EXCEPT !.pc = "run", !.cur = id])
        /\ IF id[2] = "CHECKPOINT" THEN UNCHANGED <<state, fsm>>
           ELSE SetState(n, TransientState(id[2]), fsm)
  BY Zenon DEF NextDirective
<1> DEFINE l == [loop[n] EXCEPT !.pc = "run", !.cur = id]
<1>2. state \in [NodeNames -> States] /\ loop \in [NodeNames -> Loops] /\ loop[n] \in Loops
  BY Zenon DEF TypeInv, CoreInv, NodesTypeOK
<1>3. l.pc = "run" /\ l.cur = id
  BY <1>2, Zenon DEF Loops
<1>4. loop' = [loop EXCEPT ![n] = l] /\ loop'[n] = l
  BY <1>1, <1>2, Zenon DEF Goto
<1> HIDE DEF l
<1>5. Commanded(n)
  BY <1>3, <1>4, Zenon DEF Commanded, NextDirective
<1>6. \A m \in NodeNames \ {n} : loop'[m] = loop[m]
  BY <1>2, <1>4, Zenon
<1>7. CASE id[2] = "CHECKPOINT"
  <2>1. UNCHANGED state
    BY <1>1, <1>7, Zenon
  <2>2. FencedFits(state[n], l)
    BY <1>3, <1>7, Zenon DEF FencedFits
  <2> QED
    BY <1>4, <2>1, <2>2, SoundLoop, Zenon
<1>8. CASE id[2] # "CHECKPOINT"
  <2>1. state' = [state EXCEPT ![n] = TransientState(id[2])]
    BY <1>1, <1>8, Zenon DEF SetState
  <2>2. /\ state'[n] = TransientState(id[2])
        /\ \A m \in NodeNames \ {n} : state'[m] = state[m]
    BY <1>2, <2>1, Zenon
  <2>3. id[2] \in {"PROMOTE", "DEMOTE"} => TransientState(id[2]) # "FENCED"
    BY Zenon DEF TransientState
  <2>4. FencedFits(TransientState(id[2]), l)
    BY <1>3, <2>3, Zenon DEF FencedFits
  <2> QED
    BY <1>4, <1>5, <1>6, <2>2, <2>4, Zenon DEF SoundAt
<1> QED
  BY <1>7, <1>8, Zenon

\* A run that sets the state was not begun on a fenced node.
LEMMA RunSound ==
    ASSUME TypeInv, FencedInv, NEW n \in NodeNames,
           RunFence(n) \/ RunPromote(n) \/ RunDemote(n) \/ RunCheckpoint(n)
    PROVE  SoundAt(n)
<1>1. PICK r : Ran(n, r)
  BY Zenon DEF RunFence, RunPromote, RunDemote, RunCheckpoint
<1> DEFINE l == [loop[n] EXCEPT !.pc = "complete", !.err = r.err, !.tries = 1]
<1>2. state \in [NodeNames -> States] /\ loop \in [NodeNames -> Loops] /\ loop[n] \in Loops
  BY Zenon DEF TypeInv, CoreInv, NodesTypeOK
<1>3. l.pc = "complete"
  BY <1>2, Zenon DEF Loops
<1>4. loop' = [loop EXCEPT ![n] = l]
  BY <1>1, Zenon DEF Ran, Goto
<1> HIDE DEF l
<1>5. \A s : FencedFits(s, l)
  BY <1>3, Zenon DEF FencedFits
<1>6. CASE UNCHANGED state
  BY <1>4, <1>5, <1>6, SoundLoop, Zenon
<1>7. ASSUME NEW s, state' = [state EXCEPT ![n] = s], RunPromote(n) \/ RunDemote(n)
      PROVE  SoundAt(n)
  <2>1. loop[n].pc = "run" /\ loop[n].cur[2] \in {"PROMOTE", "DEMOTE"}
    BY <1>7, Zenon DEF RunPromote, RunDemote, Running
  <2>2. state[n] # "FENCED"
    BY <2>1, Zenon DEF FencedInv, FencedFits
  <2> QED
    BY <1>4, <1>5, <1>7, <2>2, SoundMove, Zenon
<1>8. \/ UNCHANGED state
      \/ /\ RunPromote(n) \/ RunDemote(n)
         /\ \E s : state' = [state EXCEPT ![n] = s]
  <2>1. CASE RunFence(n) \/ RunCheckpoint(n)
    <3>1. UNCHANGED state
      BY <2>1, Zenon DEF RunFence, RunCheckpoint, log
    <3> QED
      BY <3>1, Zenon
  <2>2. CASE RunPromote(n)
    <3>1. UNCHANGED <<fsm, state>> \/ \E s, t : SetState(n, s, t)
      BY <2>2, Zenon DEF RunPromote
    <3>2. CASE UNCHANGED <<fsm, state>>
      <4>1. UNCHANGED state
        BY <3>2, Zenon
      <4> QED
        BY <4>1, Zenon
    <3>3. CASE \E s, t : SetState(n, s, t)
      BY <2>2, <3>3, Zenon DEF SetState
    <3> QED
      BY <3>1, <3>2, <3>3, Zenon
  <2>3. CASE RunDemote(n)
    <3>1. UNCHANGED <<fsm, state>> \/ \E s, t : SetState(n, s, t)
      BY <2>3, Zenon DEF RunDemote
    <3>2. CASE UNCHANGED <<fsm, state>>
      <4>1. UNCHANGED state
        BY <3>2, Zenon
      <4> QED
        BY <4>1, Zenon
    <3>3. CASE \E s, t : SetState(n, s, t)
      BY <2>3, <3>3, Zenon DEF SetState
    <3> QED
      BY <3>1, <3>2, <3>3, Zenon
  <2> QED
    BY <2>1, <2>2, <2>3, Zenon
<1> QED
  BY <1>6, <1>7, <1>8, Zenon

\* The loop: reading directives, completing them, monitoring.
LEMMA LoopOnlySound ==
    ASSUME TypeInv, FencedInv, NEW n \in NodeNames,
           Tick(n) \/ Complete(n) \/ Monitor(n) \/ MonitorTimeout(n) \/ MonitorClear(n)
    PROVE  SoundAt(n)
<1>1. loop[n] \in Loops
  BY Zenon DEF TypeInv, CoreInv, NodesTypeOK
<1>2. UNCHANGED state
  BY Zenon DEF Tick, Complete, Monitor, MonitorTimeout, MonitorClear, manager
<1>3. FencedFits(state[n], Observed(n))
  <2>1. Observed(n).pc = "eval" /\ Observed(n).st = state[n]
    BY Zenon DEF Observed, Idle
  <2> QED
    BY <2>1, Zenon DEF FencedFits
<1>4. ASSUME NEW l, Goto(n, l), l = Observed(n) \/ l.pc \in {"idle", "dirs", "complete", "clear"}
      PROVE  SoundAt(n)
  <2>1. FencedFits(state[n], l)
    <3>1. CASE l = Observed(n)
      BY <1>3, <3>1, Zenon
    <3>2. CASE l.pc \in {"idle", "dirs", "complete", "clear"}
      BY <3>2, Zenon DEF FencedFits
    <3> QED
      BY <1>4, <3>1, <3>2, Zenon
  <2>2. loop' = [loop EXCEPT ![n] = l]
    BY <1>4, Zenon DEF Goto
  <2> QED
    BY <1>2, <2>1, <2>2, SoundLoop, Zenon
<1>6. CASE Tick(n)
  <2> DEFINE l == [Idle EXCEPT !.pc = "dirs", !.todo = GetDirectivesForNode(View(n), n)]
  <2>1. l.pc = "dirs"
    BY Zenon DEF Idle
  <2>2. Goto(n, l)
    BY <1>6, Zenon DEF Tick
  <2> QED
    BY <1>4, <2>1, <2>2, Zenon
<1>7. CASE Complete(n)
  <2> DEFINE d == [Idle EXCEPT !.pc = "dirs", !.todo = loop[n].todo \ {loop[n].cur}]
             r == [loop[n] EXCEPT !.tries = @ + 1]
  <2>1. d.pc = "dirs"
    BY Zenon DEF Idle
  <2>2. r.pc = "complete"
    BY <1>1, <1>7, Zenon DEF Loops, Complete
  <2>3. Goto(n, d) \/ Goto(n, r)
    BY <1>7, Zenon DEF Complete, Done
  <2> HIDE DEF d, r
  <2> QED
    BY <1>4, <2>1, <2>2, <2>3, Zenon
<1>8. CASE Monitor(n)
  <2>1. \A T : [Idle EXCEPT !.pc = "clear", !.todo = T].pc = "clear"
    BY Zenon DEF Idle
  <2>2. Goto(n, Observed(n)) \/ \E T : Goto(n, [Idle EXCEPT !.pc = "clear", !.todo = T])
    BY <1>8, Zenon DEF Monitor
  <2> QED
    BY <1>4, <2>1, <2>2, Zenon
<1>9. CASE MonitorTimeout(n)
  <2>1. PICK id \in loop[n].todo : Goto(n, [loop[n] EXCEPT !.todo = @ \ {id}])
    BY <1>9, Zenon DEF MonitorTimeout
  <2>2. [loop[n] EXCEPT !.todo = @ \ {id}].pc = "clear"
    BY <1>1, <1>9, Zenon DEF MonitorTimeout, Loops
  <2> QED
    BY <1>4, <2>1, <2>2, Zenon
<1>10. CASE MonitorClear(n)
  BY <1>4, <1>10, Zenon DEF MonitorClear
<1> QED
  BY <1>6, <1>7, <1>8, <1>9, <1>10, Zenon

\* The loop: a fenced node evaluates FENCED, and does nothing.
LEMMA EvaluateSound ==
    ASSUME TypeInv, FencedInv, NEW n \in NodeNames, Evaluate(n)
    PROVE  SoundAt(n)
<1>1. PICK s : \/ EvalStarting(n, s) \/ EvalPrimary(n, s) \/ EvalReplica(n, s)
               \/ EvalLagging(n, s) \/ EvalParked(n, s)
  BY Zenon DEF Evaluate
<1>2. state \in [NodeNames -> States] /\ loop[n].pc = "eval"
  BY Zenon DEF TypeInv, CoreInv, NodesTypeOK, Evaluate
<1>3. state[n] = "FENCED" => loop[n].st = "FENCED"
  BY <1>2, Zenon DEF FencedInv, FencedFits
<1>4. ASSUME NEW t, Stay(n, t) PROVE SoundAt(n)
  BY <1>4, IdleFits, SoundLoop, Zenon DEF Stay, Goto
<1>5. ASSUME NEW t, NEW new, Move(n, t, new), loop[n].st # "FENCED" PROVE SoundAt(n)
  <2>1. state' = [state EXCEPT ![n] = new] /\ loop' = [loop EXCEPT ![n] = Idle]
    BY <1>5, Zenon DEF Move, SetState, Goto
  <2>2. state[n] # "FENCED"
    BY <1>3, <1>5, Zenon
  <2> QED
    BY <2>1, <2>2, IdleFits, SoundMove, Zenon
<1>6. CASE EvalStarting(n, s)
  <2>1. loop[n].st # "FENCED"
    BY <1>6, Zenon DEF EvalStarting
  <2> QED
    BY <1>4, <1>5, <1>6, <2>1, Zenon DEF EvalStarting
<1>7. CASE EvalPrimary(n, s)
  <2>1. loop[n].st # "FENCED"
    BY <1>7, Zenon DEF EvalPrimary
  <2> QED
    BY <1>4, <1>5, <1>7, <2>1, Zenon DEF EvalPrimary, CheckQuorum
<1>8. CASE EvalReplica(n, s)
  <2>1. loop[n].st # "FENCED"
    BY <1>8, Zenon DEF EvalReplica
  <2>2. CASE EvalStandby(n, s)
    <3> DEFINE new == IF Lagging(health[n]) THEN "REPLICA_LAGGING" ELSE state[n]
    <3>1. state' = [state EXCEPT ![n] = new]
      BY <2>2, Zenon DEF EvalStandby
    <3>2. PICK l : Goto(n, l) /\ (l = Idle \/ \E p : l = [Idle EXCEPT !.pc = "start", !.from = p])
      BY <2>2, Zenon DEF EvalStandby
    <3>3. \A p : [Idle EXCEPT !.pc = "start", !.from = p].pc = "start"
      BY Zenon DEF Idle
    <3>4. FencedFits(new, l)
      <4>1. CASE l = Idle
        BY <4>1, IdleFits, Zenon
      <4>2. CASE \E p : l = [Idle EXCEPT !.pc = "start", !.from = p]
        <5>1. l.pc = "start"
          BY <3>3, <4>2, Zenon
        <5> QED
          BY <5>1, Zenon DEF FencedFits
      <4> QED
        BY <3>2, <4>1, <4>2, Zenon
    <3>5. state[n] # "FENCED" /\ loop' = [loop EXCEPT ![n] = l]
      BY <1>3, <2>1, <3>2, Zenon DEF Goto
    <3> HIDE DEF new
    <3> QED
      BY <3>1, <3>4, <3>5, SoundMove, Zenon
  <2> QED
    BY <1>4, <1>5, <1>8, <2>1, <2>2, Zenon DEF EvalReplica
<1>9. CASE EvalLagging(n, s)
  <2>1. loop[n].st # "FENCED"
    BY <1>9, Zenon DEF EvalLagging
  <2> QED
    BY <1>4, <1>5, <1>9, <2>1, Zenon DEF EvalLagging
<1>10. CASE EvalParked(n, s)
  BY <1>4, <1>10, Zenon DEF EvalParked
<1> QED
  BY <1>1, <1>6, <1>7, <1>8, <1>9, <1>10, Zenon

\* The loop: an automatic failover starts.
LEMMA StartFailoverSound ==
    ASSUME TypeInv, FencedInv, NEW n \in NodeNames, StartFailover(n)
    PROVE  SoundAt(n)
<1>1. loop[n].pc = "start" /\ Commanded(n)
  BY Zenon DEF StartFailover, Commanded
<1>2. state \in [NodeNames -> States] /\ loop \in [NodeNames -> Loops]
  BY Zenon DEF TypeInv, CoreInv, NodesTypeOK
<1>3. \A m \in NodeNames \ {n} : state'[m] = state[m] /\ loop'[m] = loop[m]
  BY <1>2, Zenon DEF StartFailover
<1>4. state'[n] \in {"RUNNING_REPLICA", "FAILOVER_IN_PROGRESS"}
  BY <1>2, Zenon DEF StartFailover
<1>5. FencedFits(state'[n], loop'[n])
  BY <1>4, Zenon DEF FencedFits
<1> QED
  BY <1>1, <1>3, <1>5, Zenon DEF SoundAt

\* The world; a restart is counted.
LEMMA WorldSound ==
    ASSUME TypeInv, FencedInv, NEW n \in NodeNames, Clock(n) \/ World(n)
    PROVE  SoundAt(n)
<1>1. CASE Restart(n)
  <2>1. state' = [state EXCEPT ![n] = "INITIALIZING"] /\ loop' = [loop EXCEPT ![n] = Idle]
    BY <1>1, Zenon DEF Restart
  <2>2. crashes \in Nat /\ crashes' = crashes + 1
    BY <1>1, Zenon DEF Restart, TypeInv, CoreInv, NodesTypeOK
  <2>3. crashes' # crashes
    BY <2>2
  <2>4. Commanded(n)
    BY <2>3, Zenon DEF Commanded
  <2> QED
    BY <2>1, <2>4, IdleFits, SoundMove, Zenon
<1>2. CASE Clock(n)
  <2>1. UNCHANGED state /\ UNCHANGED loop
    BY <1>2, Zenon DEF Clock, TimeStep, ConfirmationElapses, DirectiveTimeout, QuorumTimeout, BackoffEnds,
                HealthGoesStale, manager
  <2> QED
    BY <2>1, SoundStill, Zenon
<1>3. CASE World(n) /\ ~Restart(n)
  <2>1. UNCHANGED state /\ UNCHANGED loop
    BY <1>3, Zenon DEF World, Check, Elect, LoseQuorum, StepDown, LoseContact, RegainContact,
                ServerFault, CatchUp, manager
  <2> QED
    BY <2>1, SoundStill, Zenon
<1> QED
  BY <1>1, <1>2, <1>3, Zenon

LEMMA FencedNext ==
    ASSUME TypeInv, FencedInv, [Next]_vars PROVE FencedInv' /\ [FencedStep]_vars
<1>1. CASE UNCHANGED vars
  BY <1>1, Zenon DEF vars, manager, FencedInv
<1>2. CASE Next
  <2>1. PICK n \in NodeNames :
          LoopStep(n) \/ (\E w \in Workers : OpStep(n, w)) \/ ApiCall(n) \/ Clock(n) \/ World(n)
    BY <1>2, NextCases, Zenon DEF NodeStep
  <2>2. LoopStep(n) => SoundAt(n)
    BY NextDirectiveSound, RunSound, LoopOnlySound, EvaluateSound, StartFailoverSound, Zenon DEF LoopStep
  <2>3. SoundAt(n)
    BY <2>1, <2>2, OpSound, ApiSound, WorldSound, Zenon
  <2> QED
    BY <2>3, SoundStep, Zenon
<1> QED
  BY <1>1, <1>2, Zenon

\* A fenced node stays fenced until it is told otherwise, for any number of
\* nodes, API calls and elections: evaluate (manager.go:326) never takes it out
\* of FENCED, although it acts on a state it read before.
THEOREM FencedStays == Spec => FencedUntilCommanded
<1>1. Init => FencedInv
  BY Zenon DEF Init, FencedInv, FencedFits
<1>2. TypeInv /\ FencedInv /\ [Next]_vars => FencedInv' /\ [FencedStep]_vars
  BY FencedNext, Zenon
<1>3. FencedUntilCommanded <=> [][FencedStep]_vars
  BY Zenon DEF FencedUntilCommanded, FencedStep, Commanded
<1> QED
  BY <1>1, <1>2, <1>3, TypeInvariant, PTL DEF Spec
=============================================================================
