-------------------------- MODULE FailoverCluster --------------------------
(***************************************************************************)
(* The cluster managers of all nodes (internal/cluster/manager.go), their  *)
(* failover controllers (internal/cluster/failover.go) and the store they  *)
(* write through (internal/consensus/store.go), around the replicated      *)
(* cluster state (ClusterFSM).                                             *)
(*                                                                         *)
(* Every node runs the manager loop: a tick executes the directives that   *)
(* are pending for the node, reports each result with retries, monitors    *)
(* the failover it started itself, refreshes its health in the FSM and     *)
(* evaluates its state machine.  API goroutines start manual operations    *)
(* concurrently with it.  The steps below are the pieces between which     *)
(* another goroutine, another node, a change of leadership, a crash or the *)
(* clock can intervene.                                                    *)
(*                                                                         *)
(* Timers are abstracted to "running" and "expired"; a running timer may   *)
(* expire at any step.  LastSeen is 1 when it is younger than the          *)
(* confirmation period and 0 when it is older.                             *)
(*                                                                         *)
(* The log is kept as the state it stands for (fsm) and the states it went *)
(* through before (older).  A command is computed on fsm; a node reads the *)
(* state its own replica has reached (View), which may be an earlier one,  *)
(* and after a restart is earlier than what the node had seen.  How        *)
(* replicas apply the log is the subject of ReplicatedFSM.                 *)
(***************************************************************************)
EXTENDS ClusterFSM

CONSTANTS Daemons,         \* the nodes whose daemon runs; the others are down
          InitialPrimary,  \* the node whose server starts as primary
          InitialRole,     \* the role the other nodes were registered with
          ApiWorkers,      \* goroutines serving manual operations on a node
          ApiOps,          \* subset of {"failover", "switchover", "pause"}
          FencingEnabled,  \* failover.fencing_enabled
          Protection,      \* failover.split_brain_protection
          Ageing,          \* do health data outlast failover.confirmation_period
          Lags,            \* replication lags a health check may report
          MaxLagThreshold, \* failover.max_lag_threshold
          MaxRetries,      \* attempts of completeDirectiveWithRetry (5)
          MaxBehind,       \* bound: changes of the FSM a replica is behind
          MaxOps,          \* bound: operations that publish directives
          MaxElections,    \* bound: changes of leadership
          MaxFaults,       \* bound: server crashes and restarts, partitions, failing checks
          MaxCrashes       \* bound: daemon restarts

ASSUME ClusterAssumption ==
    /\ Daemons \subseteq NodeNames
    /\ InitialPrimary \in NodeNames
    /\ InitialRole \in Roles
    /\ "loop" \notin ApiWorkers
    /\ ApiOps \subseteq {"failover", "switchover", "pause"}
    /\ FencingEnabled \in BOOLEAN
    /\ Protection \in BOOLEAN
    /\ Ageing \in BOOLEAN
    /\ Lags \subseteq Nat /\ 0 \in Lags
    /\ MaxLagThreshold \in Nat
    /\ MaxRetries \in Nat \ {0}
    /\ MaxBehind \in Nat
    /\ MaxOps \in Nat
    /\ MaxElections \in Nat
    /\ MaxFaults \in Nat
    /\ MaxCrashes \in Nat
    /\ DirectiveIDs = (1 .. MaxOps) \X DirectiveTypes

VARIABLES
    leader,     \* the node whose Raft writes commit, or ""
    isLeader,   \* isLeader[n]: n's Raft instance reports Leader
    contact,    \* contact[n]: n heard from a leader within QuorumLossTimeout
    fsm,        \* the cluster state after the whole log
    older,      \* older[i]: the cluster state i changes ago
    behind,     \* behind[n]: how many changes n's replica has yet to apply
    succeeded,  \* history: the directives a success was ever committed for
    server,     \* server[n]: PostgreSQL on n: [up, standby]
    health,     \* health[n]: last HealthStatus: [healthy, inRecovery, lag]
    state,      \* Manager.state
    paused,     \* Manager.paused
    backoff,    \* Manager.isRaftBackoff()
    quorumLost, \* Manager.quorumLostAt: "none", "running" or "expired"
    inFlight,   \* FailoverController.failoverInFlight
    active,     \* FailoverController.activeDirectiveIDs
    started,    \* FailoverController.failoverStartTime, as a timer
    confirm,    \* FailoverController.confirmationStart, as a timer
    op,         \* op[n][w]: the operation worker w of n is carrying out
    loop,       \* loop[n]: where the manager loop of n is
    ops,        \* operations that took their time stamp so far
    elections, faults, crashes \* used up so far

raft == <<leader, isLeader, contact>>
log == <<fsm, older, behind, succeeded>>
manager == <<state, paused, backoff, quorumLost>>
controller == <<inFlight, active, started, confirm>>
env == <<server, health>>
budget == <<ops, elections, faults, crashes>>
vars == <<raft, log, env, manager, controller, op, loop, budget>>

-----------------------------------------------------------------------------
States == {"INITIALIZING", "RUNNING_PRIMARY", "RUNNING_REPLICA",
           "REPLICA_LAGGING", "RECOVERING", "FENCED",
           "FAILOVER_IN_PROGRESS", "DEMOTING", "PROMOTING"}
Timers == {"none", "running", "expired"}
Workers == ApiWorkers \cup {"loop"}
Servers == [up : BOOLEAN, standby : BOOLEAN]
HealthStatus == [healthy : BOOLEAN, inRecovery : BOOLEAN, lag : Nat]
Steps == {"none", "fence", "promote", "checkpoint", "await", "sync", "demote"}
Operations == [kind : {"none", "failover", "switchover"}, step : Steps,
               from : NodeNames \cup {""}, to : NodeNames \cup {""},
               now : Nat, ids : SUBSET DirectiveIDs]
Loops == [pc : {"idle", "dirs", "run", "complete", "clear", "eval", "start"},
          todo : SUBSET DirectiveIDs, cur : DirectiveIDs \cup {<<>>},
          err : Errors, tries : 0 .. MaxRetries, st : States, from : NodeNames \cup {""}]

Unknown == [healthy |-> FALSE, inRecovery |-> FALSE, lag |-> 0]
NoOp == [kind |-> "none", step |-> "none", from |-> "", to |-> "",
         now |-> 0, ids |-> {}]
Idle == [pc |-> "idle", todo |-> {}, cur |-> <<>>, err |-> "", tries |-> 0,
         st |-> "INITIALIZING", from |-> ""]

-----------------------------------------------------------------------------
(* External: pg_ctl as executeDirective uses it.  Each yields the set of   *)
(* possible outcomes: the server afterwards and an error.  stop needs a    *)
(* running server, promote a running standby, start a stopped server; a    *)
(* command may also fail, with or without having taken effect (pg_ctl      *)
(* gives up waiting).                                                      *)

Outcome(after, err) == [server |-> after, err |-> err]

Command(before, possible, after) ==
    {Outcome(before, "exec")} \cup
    (IF possible THEN {Outcome(after, ""), Outcome(after, "exec")} ELSE {})

PgStop(v) == Command(v, v.up, [v EXCEPT !.up = FALSE])
PgPromote(v) == Command(v, v.up /\ v.standby, [v EXCEPT !.standby = FALSE])
PgStart(v) == Command(v, ~v.up, [v EXCEPT !.up = TRUE])
TouchSignal(v) == Command(v, TRUE, [v EXCEPT !.standby = TRUE])

\* The next command of a sequence runs only if the one before succeeded.
Then(r, outcomes) == IF r.err = "" THEN outcomes ELSE {r}

-----------------------------------------------------------------------------
(* Writes through the store.                                               *)

\* The FSM states after n tried to turn s into t: a follower's write is
\* refused, the leader's commits, and a deposed leader that has not noticed
\* gets an error although its entry may still be committed.
Writes(n, s, t) ==
    IF leader = n THEN {t} ELSE IF isLeader[n] THEN {s, t} ELSE {s}

\* The state n's replica has reached, and what n may read after it tried to
\* turn the FSM into t: its own successful write has been applied, another
\* one may have been.
View(n) == IF behind[n] = 0 THEN fsm ELSE older[behind[n]]
Reads(n, t) == IF leader = n THEN {t} ELSE {View(n), t}

\* What the writes of n did to the log: its earlier states move on, and every
\* replica is further behind except that of a leader, which applied them.
Replicate(n) ==
    /\ succeeded' = succeeded \cup
           {id \in DOMAIN fsm'.directives : fsm'.directives[id].status = "completed"}
    /\ \/ fsm' = fsm /\ UNCHANGED <<older, behind>>
       \/ /\ fsm' # fsm
          /\ older' = [i \in 1 .. MaxBehind |-> IF i = 1 THEN fsm ELSE older[i - 1]]
          /\ behind' = [m \in NodeNames |->
                 IF m = n /\ leader = n THEN 0
                 ELSE IF behind[m] < MaxBehind THEN behind[m] + 1 ELSE MaxBehind]

\* UpdateNodeHealth by n about itself, stamped with the current time.
Refresh(s, n, lag) == UpdateNodeHealth(s, n, lag, 1)

\* setState: on a change the new state is also written to the FSM, by a
\* record that carries no lag.
StateWrites(n, new, s) ==
    IF state[n] = new THEN {s} ELSE Writes(n, s, Refresh(s, n, 0))

SetState(n, new, s) ==
    /\ state' = [state EXCEPT ![n] = new]
    /\ fsm' \in StateWrites(n, new, s)

HasQuorum(n) == isLeader[n] \/ contact[n]

-----------------------------------------------------------------------------
(* The failover controller.                                                *)

Begin(n) ==
    /\ inFlight' = [inFlight EXCEPT ![n] = TRUE]
    /\ active' = [active EXCEPT ![n] = {}]
    /\ started' = [started EXCEPT ![n] = "running"]
    /\ UNCHANGED confirm

ClearFailover(n) ==
    /\ inFlight' = [inFlight EXCEPT ![n] = FALSE]
    /\ active' = [active EXCEPT ![n] = {}]
    /\ started' = [started EXCEPT ![n] = "none"]
    /\ confirm' = [confirm EXCEPT ![n] = "none"]

\* The automatic failover runs inside the manager loop.
Return(n, w) == loop' = IF w = "loop" THEN [loop EXCEPT ![n] = Idle] ELSE loop

SetOp(n, w, o) == op' = [op EXCEPT ![n][w] = o]

\* Faulty variant of Abort: the failed operation stays in flight.
AbortStaysInFlight(n, w, s) ==
    /\ UNCHANGED controller
    /\ IF op[n][w].kind = "failover" THEN SetState(n, "RUNNING_REPLICA", s)
       ELSE fsm' = s /\ UNCHANGED state
    /\ SetOp(n, w, NoOp)
    /\ Return(n, w)

\* The operation fails with the FSM in state s.  A failed failover puts the
\* manager back to RUNNING_REPLICA; a failed switchover leaves its state.
Abort(n, w, s) ==
    /\ ClearFailover(n)
    /\ IF op[n][w].kind = "failover" THEN SetState(n, "RUNNING_REPLICA", s)
       ELSE fsm' = s /\ UNCHANGED state
    /\ SetOp(n, w, NoOp)
    /\ Return(n, w)

\* One PublishDirective call of an operation; next is the step after it, and
\* after the last one the published directives become the tracked ones.
Publish(n, w, type, target, next) ==
    LET o == op[n][w]
        id == <<o.now, type>>
        s == PublishDirective(fsm, id, NewDirective(type, target))
    IN  /\ \/ /\ leader = n
              /\ fsm' = s
              /\ IF next = "none"
                 THEN /\ active' = [active EXCEPT ![n] = o.ids \cup {id}]
                      /\ UNCHANGED <<inFlight, started, confirm>>
                      /\ SetOp(n, w, NoOp)
                      /\ Return(n, w)
                 ELSE /\ SetOp(n, w, [o EXCEPT !.step = next, !.ids = @ \cup {id}])
                      /\ UNCHANGED <<controller, loop>>
              /\ UNCHANGED state
           \/ /\ leader # n
              /\ \E t \in Writes(n, fsm, s) : Abort(n, w, t)
        /\ Replicate(n)
        /\ UNCHANGED <<raft, env, paused, backoff, quorumLost, budget>>

PublishFence(n, w) ==
    op[n][w].step = "fence" /\ Publish(n, w, "FENCE", op[n][w].from, "promote")

PublishPromote(n, w) ==
    op[n][w].step = "promote" /\ Publish(n, w, "PROMOTE", op[n][w].to, "none")

PublishCheckpoint(n, w) ==
    /\ op[n][w].step = "checkpoint"
    /\ Publish(n, w, "CHECKPOINT", op[n][w].from, "await")

PublishDemote(n, w) ==
    op[n][w].step = "demote" /\ Publish(n, w, "DEMOTE", op[n][w].from, "promote")

\* Faulty variant of AwaitCheckpoint: a failed CHECKPOINT counts as done.
AwaitAnyCheckpoint(n, w) ==
    LET id == <<op[n][w].now, "CHECKPOINT">>
    IN  /\ op[n][w].step = "await"
        /\ id \in DOMAIN View(n).directives
        /\ View(n).directives[id].status # "pending"
        /\ SetOp(n, w, [op[n][w] EXCEPT !.step = "sync"])
        /\ UNCHANGED <<raft, log, env, manager, controller, loop, budget>>

\* waitForDirective polls the CHECKPOINT; a failed or missing one ends the
\* switchover.
AwaitCheckpoint(n, w) ==
    LET id == <<op[n][w].now, "CHECKPOINT">>
        known == id \in DOMAIN View(n).directives
    IN  /\ op[n][w].step = "await"
        /\ known => View(n).directives[id].status # "pending"
        /\ IF known /\ View(n).directives[id].status = "completed"
           THEN /\ SetOp(n, w, [op[n][w] EXCEPT !.step = "sync"])
                /\ UNCHANGED <<fsm, controller, state, loop>>
           ELSE Abort(n, w, fsm)
        /\ Replicate(n)
        /\ UNCHANGED <<raft, env, paused, backoff, quorumLost, budget>>

\* waitForReplicaSync polls the lag the replica holds for the target.
AwaitSync(n, w) ==
    /\ op[n][w].step = "sync"
    /\ op[n][w].to \in DOMAIN View(n).nodes
    /\ View(n).nodes[op[n][w].to].lag <= 0
    /\ SetOp(n, w, [op[n][w] EXCEPT !.step = "demote"])
    /\ UNCHANGED <<raft, log, env, manager, controller, loop, budget>>

\* Either wait runs into its timeout, or the request is cancelled.
WaitTimeout(n, w) ==
    /\ op[n][w].step \in {"await", "sync"}
    /\ Abort(n, w, fsm)
    /\ Replicate(n)
    /\ UNCHANGED <<raft, env, paused, backoff, quorumLost, budget>>

Operation(kind, step, from, to) ==
    [kind |-> kind, step |-> step, from |-> from, to |-> to,
     now |-> ops + 1, ids |-> {}]

\* Faulty variant of FailoverFrom: fencing is forgotten.
FailoverUnfenced(from, to) == Operation("failover", "promote", from, to)

FailoverFrom(from, to) ==
    Operation("failover", IF FencingEnabled THEN "fence" ELSE "promote",
              from, to)

\* ManualFailover and ManualSwitchover up to their first publication.  There
\* is no check for an operation that is already in flight.
StartManual(n, w, o) ==
    /\ op[n][w] = NoOp
    /\ isLeader[n]
    /\ GetPrimary(View(n)) # ""
    /\ ops < MaxOps
    /\ SetState(n, "FAILOVER_IN_PROGRESS", fsm)
    /\ Replicate(n)
    /\ Begin(n)
    /\ SetOp(n, w, o)
    /\ ops' = ops + 1
    /\ UNCHANGED <<raft, env, paused, backoff, quorumLost, loop,
                   elections, faults, crashes>>

ManualFailover(n, w, to) ==
    "failover" \in ApiOps /\ StartManual(n, w, FailoverFrom(GetPrimary(View(n)), to))

ManualSwitchover(n, w, to) ==
    /\ "switchover" \in ApiOps
    /\ StartManual(n, w, Operation("switchover", "checkpoint",
                                   GetPrimary(View(n)), to))

\* selectBestReplica: any replica of least lag other than the failed primary.
BestReplicas(s, exclude) ==
    LET rs == GetReplicas(s) \ {exclude}
    IN  {r \in rs : \A q \in rs : s.nodes[r].lag <= s.nodes[q].lag}

\* The rest of checkPrimaryHealth once ShouldFailover has said yes.
StartFailover(n) ==
    /\ loop[n].pc = "start"
    /\ op[n]["loop"] = NoOp
    /\ \E t \in StateWrites(n, "FAILOVER_IN_PROGRESS", fsm) :
       \E v \in Reads(n, t) :
         \/ /\ BestReplicas(v, loop[n].from) = {}
            /\ ClearFailover(n)
            /\ state' = [state EXCEPT ![n] = "RUNNING_REPLICA"]
            /\ fsm' \in Writes(n, t, Refresh(t, n, 0))
            /\ loop' = [loop EXCEPT ![n] = Idle]
            /\ UNCHANGED <<op, ops>>
         \/ \E r \in BestReplicas(v, loop[n].from) :
            /\ ops < MaxOps
            /\ Begin(n)
            /\ state' = [state EXCEPT ![n] = "FAILOVER_IN_PROGRESS"]
            /\ fsm' = t
            /\ SetOp(n, "loop", FailoverFrom(loop[n].from, r))
            /\ ops' = ops + 1
            /\ UNCHANGED loop
    /\ Replicate(n)
    /\ UNCHANGED <<raft, env, paused, backoff, quorumLost,
                   elections, faults, crashes>>

-----------------------------------------------------------------------------
(* The manager loop: processDirectives.                                    *)

Goto(n, l) == loop' = [loop EXCEPT ![n] = l]

\* A tick reads the directives that are pending for n in its own replica.
Tick(n) ==
    /\ loop[n].pc = "idle"
    /\ Goto(n, [Idle EXCEPT !.pc = "dirs", !.todo = GetDirectivesForNode(View(n), n)])
    /\ UNCHANGED <<raft, log, env, manager, controller, op, budget>>

TransientState(type) ==
    CASE type = "FENCE" -> "FENCED"
      [] type = "PROMOTE" -> "PROMOTING"
      [] type = "DEMOTE" -> "DEMOTING"

\* Start on one of the directives read, in any order.
NextDirective(n) ==
    /\ loop[n].pc = "dirs"
    /\ \E id \in loop[n].todo :
         /\ Goto(n, [loop[n] EXCEPT !.pc = "run", !.cur = id])
         /\ IF id[2] = "CHECKPOINT" THEN UNCHANGED <<state, fsm>>
            ELSE SetState(n, TransientState(id[2]), fsm)
    /\ Replicate(n)
    /\ UNCHANGED <<raft, env, paused, backoff, quorumLost, controller, op, budget>>

Ran(n, r) ==
    /\ server' = [server EXCEPT ![n] = r.server]
    /\ Goto(n, [loop[n] EXCEPT !.pc = "complete", !.err = r.err, !.tries = 1])
    /\ UNCHANGED <<raft, health, paused, backoff, quorumLost, controller, op, budget>>

Running(n, type) == loop[n].pc = "run" /\ loop[n].cur[2] = type

\* Faulty variant of RunFence: the stopped primary is made a standby.
RunFenceToStandby(n) ==
    /\ Running(n, "FENCE")
    /\ \E stop \in PgStop(server[n]) :
       \E r \in Then(stop, TouchSignal(stop.server)) : Ran(n, r)
    /\ UNCHANGED <<log, state>>

RunFence(n) ==
    /\ Running(n, "FENCE")
    /\ \E r \in PgStop(server[n]) : Ran(n, r)
    /\ UNCHANGED <<log, state>>

\* A promoted node records itself as primary, which only the leader can; an
\* error leaves it PROMOTING.
RunPromote(n) ==
    /\ Running(n, "PROMOTE")
    /\ \E r \in PgPromote(server[n]) :
         /\ Ran(n, r)
         /\ IF r.err # "" THEN UNCHANGED <<fsm, state>>
            ELSE \E s \in Writes(n, fsm, SetPrimary(fsm, n,
                              [role |-> "", lag |-> 0, lastSeen |-> 1])) :
                    SetState(n, "RUNNING_PRIMARY", s)
    /\ Replicate(n)

\* stop, touch standby.signal, start: the first failure ends it.
RunDemote(n) ==
    /\ Running(n, "DEMOTE")
    /\ \E stop \in PgStop(server[n]) :
       \E touch \in Then(stop, TouchSignal(stop.server)) :
       \E start \in Then(touch, PgStart(touch.server)) :
         /\ Ran(n, start)
         /\ IF start.err # "" THEN UNCHANGED <<fsm, state>>
            ELSE SetState(n, "RUNNING_REPLICA", fsm)
    /\ Replicate(n)

RunCheckpoint(n) ==
    /\ Running(n, "CHECKPOINT")
    /\ \E r \in Command(server[n], server[n].up, server[n]) : Ran(n, r)
    /\ UNCHANGED <<log, state>>

Done(n) == Goto(n, [Idle EXCEPT !.pc = "dirs", !.todo = loop[n].todo \ {loop[n].cur}])

\* One attempt of completeDirectiveWithRetry.
Complete(n) ==
    LET s == CompleteDirective(fsm, loop[n].cur, loop[n].err, 1)
    IN  /\ loop[n].pc = "complete"
        /\ fsm' \in Writes(n, fsm, s)
        /\ IF leader = n THEN Done(n) /\ backoff' = [backoff EXCEPT ![n] = FALSE]
           ELSE /\ backoff' = [backoff EXCEPT ![n] = @ \/ ~isLeader[n]]
                /\ IF loop[n].tries = MaxRetries THEN Done(n)
                   ELSE Goto(n, [loop[n] EXCEPT !.tries = @ + 1])
        /\ Replicate(n)
        /\ UNCHANGED <<raft, env, state, paused, quorumLost, controller, op, budget>>

-----------------------------------------------------------------------------
(* The manager loop: MonitorDirectives and the state machine.              *)

TimedOut == "timeout"

\* The evaluation goes on from the state it reads now.  (The health status it
\* also reads now is only written by Check, which can as well come later.)
Observed(n) == [Idle EXCEPT !.pc = "eval", !.st = state[n]]

\* Faulty variant of Monitor: no timeout.
MonitorPatiently(n) ==
    LET pending == {id \in active[n] \cap DOMAIN View(n).directives :
                       View(n).directives[id].status = "pending"}
        watching == isLeader[n] /\ inFlight[n] /\ active[n] # {}
    IN  /\ loop[n].pc = "dirs"
        /\ loop[n].todo = {}
        /\ Goto(n, IF watching /\ pending = {}
                   THEN [Idle EXCEPT !.pc = "clear"] ELSE Observed(n))
        /\ UNCHANGED <<raft, log, env, manager, controller, op, budget>>

\* MonitorDirectives on the leader: it looks at the tracked directives and
\* finds the overdue ones.
Monitor(n) ==
    LET pending == {id \in active[n] \cap DOMAIN View(n).directives :
                       View(n).directives[id].status = "pending"}
        watching == isLeader[n] /\ inFlight[n] /\ active[n] # {}
        timedOut == started[n] = "expired"
    IN  /\ loop[n].pc = "dirs"
        /\ loop[n].todo = {}
        /\ Goto(n, IF watching /\ (timedOut \/ pending = {})
                   THEN [Idle EXCEPT !.pc = "clear", !.todo = pending] ELSE Observed(n))
        /\ UNCHANGED <<raft, log, env, manager, controller, op, budget>>

\* It marks one of them as failed, by the status it read before.  (It reads
\* them one after the other, and leaves one that was resolved by then.)
MonitorTimeout(n) ==
    /\ loop[n].pc = "clear"
    /\ \E id \in loop[n].todo :
         /\ \/ fsm' \in Writes(n, fsm, CompleteDirective(fsm, id, TimedOut, 1))
            \/ View(n).directives[id].status # "pending" /\ UNCHANGED fsm
         /\ Goto(n, [loop[n] EXCEPT !.todo = @ \ {id}])
    /\ Replicate(n)
    /\ UNCHANGED <<raft, env, manager, controller, op, budget>>

\* Its clearFailover, which takes the lock anew.
MonitorClear(n) ==
    /\ loop[n].pc = "clear"
    /\ loop[n].todo = {}
    /\ ClearFailover(n)
    /\ Goto(n, Observed(n))
    /\ UNCHANGED <<raft, log, env, manager, op, budget>>

\* The evaluation ends in state new, or where it was.
Move(n, s, new) == SetState(n, new, s) /\ Goto(n, Idle)
Stay(n, s) == fsm' = s /\ UNCHANGED state /\ Goto(n, Idle)

RoleState(hs) == IF hs.inRecovery THEN "RUNNING_REPLICA" ELSE "RUNNING_PRIMARY"

\* Faulty variant of EvalStarting: a healthy fenced node rejoins by itself.
EvalStartingUnfences(n, s) ==
    /\ loop[n].st \in {"INITIALIZING", "RECOVERING", "FENCED"}
    /\ IF health[n].healthy THEN Move(n, s, RoleState(health[n])) ELSE Stay(n, s)
    /\ UNCHANGED <<server, quorumLost, controller>>

EvalStarting(n, s) ==
    /\ loop[n].st \in {"INITIALIZING", "RECOVERING"}
    /\ IF health[n].healthy THEN Move(n, s, RoleState(health[n])) ELSE Stay(n, s)
    /\ UNCHANGED <<server, quorumLost, controller>>

\* Faulty variant of CheckQuorum: every tick without quorum restarts the clock.
CheckQuorumAnew(n, s) ==
    /\ Protection
    /\ quorumLost' = [quorumLost EXCEPT ![n] = IF HasQuorum(n) THEN "none"
                                               ELSE "running"]
    /\ Stay(n, s)
    /\ UNCHANGED server

\* checkQuorumAndSelfFence
CheckQuorum(n, s) ==
    \/ /\ ~Protection
       /\ Stay(n, s)
       /\ UNCHANGED <<server, quorumLost>>
    \/ /\ Protection /\ HasQuorum(n)
       /\ quorumLost' = [quorumLost EXCEPT ![n] = "none"]
       /\ Stay(n, s)
       /\ UNCHANGED server
    \/ /\ Protection /\ ~HasQuorum(n) /\ quorumLost[n] # "expired"
       /\ quorumLost' = [quorumLost EXCEPT ![n] = "running"]
       /\ Stay(n, s)
       /\ UNCHANGED server
    \/ /\ Protection /\ ~HasQuorum(n) /\ quorumLost[n] = "expired"
       /\ Move(n, s, "FENCED")
       /\ \E r \in PgStop(server[n]) : server' = [server EXCEPT ![n] = r.server]
       /\ UNCHANGED quorumLost

EvalPrimary(n, s) ==
    /\ loop[n].st = "RUNNING_PRIMARY"
    /\ IF ~health[n].healthy
       THEN Move(n, s, "RECOVERING") /\ UNCHANGED <<server, quorumLost>>
       ELSE IF health[n].inRecovery
       THEN Move(n, s, "RUNNING_REPLICA") /\ UNCHANGED <<server, quorumLost>>
       ELSE CheckQuorum(n, s)
    /\ UNCHANGED controller

\* checkPrimaryHealth up to ShouldFailover: the primary the FSM names is not
\* this node and its health data are older than the confirmation period.
Suspects(n, s) ==
    LET p == GetPrimary(s)
    IN  /\ isLeader[n] /\ ~paused[n] /\ ~backoff[n]
        /\ p # "" /\ p # n
        /\ s.nodes[p].lastSeen = 0

Lagging(hs) == MaxLagThreshold > 0 /\ hs.lag > MaxLagThreshold

EvalStandby(n, s) ==
    LET new == IF Lagging(health[n]) THEN "REPLICA_LAGGING" ELSE state[n]
    IN  \E t \in StateWrites(n, new, s) :
        \E v \in Reads(n, t) :
          /\ fsm' = t
          /\ state' = [state EXCEPT ![n] = new]
          /\ IF Suspects(n, v) /\ ~inFlight[n]
             THEN /\ confirm' = [confirm EXCEPT ![n] = IF @ = "none" THEN "running" ELSE @]
                  /\ Goto(n, IF confirm[n] # "expired" THEN Idle
                             ELSE [Idle EXCEPT !.pc = "start", !.from = GetPrimary(v)])
             ELSE Goto(n, Idle) /\ UNCHANGED confirm

EvalReplica(n, s) ==
    /\ loop[n].st = "RUNNING_REPLICA"
    /\ IF ~health[n].healthy THEN Move(n, s, "RECOVERING") /\ UNCHANGED confirm
       ELSE IF ~health[n].inRecovery
       THEN Move(n, s, "RUNNING_PRIMARY") /\ UNCHANGED confirm
       ELSE EvalStandby(n, s)
    /\ UNCHANGED <<server, quorumLost, inFlight, active, started>>

EvalLagging(n, s) ==
    /\ loop[n].st = "REPLICA_LAGGING"
    /\ IF ~health[n].healthy THEN Move(n, s, "RECOVERING")
       ELSE IF Lagging(health[n]) THEN Stay(n, s)
       ELSE Move(n, s, "RUNNING_REPLICA")
    /\ UNCHANGED <<server, quorumLost, controller>>

EvalParked(n, s) ==
    /\ loop[n].st \in {"FENCED", "FAILOVER_IN_PROGRESS", "DEMOTING", "PROMOTING"}
    /\ Stay(n, s)
    /\ UNCHANGED <<server, quorumLost, controller>>

\* updateNodeHealthInFSM, then one case of evaluate's switch.
Evaluate(n) ==
    /\ loop[n].pc = "eval"
    /\ \E s \in Writes(n, fsm, Refresh(fsm, n, health[n].lag)) :
         \/ EvalStarting(n, s)
         \/ EvalPrimary(n, s)
         \/ EvalReplica(n, s)
         \/ EvalLagging(n, s)
         \/ EvalParked(n, s)
    /\ Replicate(n)
    /\ UNCHANGED <<raft, health, paused, backoff, op, budget>>

-----------------------------------------------------------------------------
(* API switches, health checks, and the world around the daemons.          *)

Pause(n) ==
    /\ "pause" \in ApiOps /\ ~paused[n]
    /\ paused' = [paused EXCEPT ![n] = TRUE]
    /\ UNCHANGED <<raft, log, env, state, backoff, quorumLost, controller, op,
                   loop, budget>>

Resume(n) ==
    /\ "pause" \in ApiOps /\ paused[n]
    /\ paused' = [paused EXCEPT ![n] = FALSE]
    /\ UNCHANGED <<raft, log, env, state, backoff, quorumLost, controller, op,
                   loop, budget>>

\* HealthChecker.check: a failed check reports neither health nor recovery,
\* a primary reports no lag.
Check(n) ==
    /\ \/ /\ server[n].up
          /\ \E l \in IF server[n].standby THEN Lags ELSE {0} :
               health' = [health EXCEPT ![n] =
                   [healthy |-> TRUE, inRecovery |-> server[n].standby, lag |-> l]]
          /\ UNCHANGED faults
       \/ /\ ~server[n].up
          /\ health' = [health EXCEPT ![n] = Unknown]
          /\ UNCHANGED faults
       \/ /\ server[n].up /\ faults < MaxFaults  \* the check itself fails
          /\ health' = [health EXCEPT ![n] = Unknown]
          /\ faults' = faults + 1
    /\ UNCHANGED <<raft, log, server, manager, controller, op, loop,
                   ops, elections, crashes>>

\* External: Raft elects n; a deposed leader notices later.
Elect(n) ==
    /\ elections < MaxElections
    /\ leader # n /\ contact[n]
    /\ leader' = n
    /\ isLeader' = [isLeader EXCEPT ![n] = TRUE]
    /\ elections' = elections + 1
    /\ UNCHANGED <<contact, log, env, manager, controller, op, loop,
                   ops, faults, crashes>>

\* External: the leader can no longer commit, and does not know it.
LoseQuorum(n) ==
    /\ faults < MaxFaults
    /\ leader = n
    /\ leader' = ""
    /\ faults' = faults + 1
    /\ UNCHANGED <<isLeader, contact, log, env, manager, controller, op, loop,
                   ops, elections, crashes>>

\* External: n's Raft instance leaves the leader state.
StepDown(n) ==
    /\ isLeader[n]
    /\ isLeader' = [isLeader EXCEPT ![n] = FALSE]
    /\ leader' = IF leader = n THEN "" ELSE leader
    /\ UNCHANGED <<contact, log, env, manager, controller, op, loop, budget>>

\* External: n has not heard from a leader for QuorumLossTimeout, or does so
\* again.
LoseContact(n) ==
    /\ faults < MaxFaults
    /\ contact[n] /\ ~isLeader[n]
    /\ contact' = [contact EXCEPT ![n] = FALSE]
    /\ faults' = faults + 1
    /\ UNCHANGED <<leader, isLeader, log, env, manager, controller, op, loop,
                   ops, elections, crashes>>

RegainContact(n) ==
    /\ ~contact[n]
    /\ contact' = [contact EXCEPT ![n] = TRUE]
    /\ UNCHANGED <<leader, isLeader, log, env, manager, controller, op, loop,
                   budget>>

\* External: the server dies, or is started again outside the daemon.
ServerFault(n) ==
    /\ faults < MaxFaults
    /\ server' = [server EXCEPT ![n].up = ~@]
    /\ faults' = faults + 1
    /\ UNCHANGED <<raft, log, health, manager, controller, op, loop,
                   ops, elections, crashes>>

\* External: n's replica applies the next entry that changes something.
CatchUp(n) ==
    /\ behind[n] > 0
    /\ behind' = [behind EXCEPT ![n] = @ - 1]
    /\ UNCHANGED <<raft, fsm, older, succeeded, env, manager, controller, op, loop,
                   budget>>

\* The daemon restarts: all it kept in memory is gone.  Its replica starts
\* from a snapshot and applies what follows anew.
Restart(n) ==
    /\ crashes < MaxCrashes
    /\ crashes' = crashes + 1
    /\ leader' = IF leader = n THEN "" ELSE leader
    /\ isLeader' = [isLeader EXCEPT ![n] = FALSE]
    /\ health' = [health EXCEPT ![n] = Unknown]
    /\ state' = [state EXCEPT ![n] = "INITIALIZING"]
    /\ paused' = [paused EXCEPT ![n] = FALSE]
    /\ backoff' = [backoff EXCEPT ![n] = FALSE]
    /\ quorumLost' = [quorumLost EXCEPT ![n] = "none"]
    /\ ClearFailover(n)
    /\ op' = [op EXCEPT ![n] = [w \in Workers |-> NoOp]]
    /\ loop' = [loop EXCEPT ![n] = Idle]
    /\ \E b \in behind[n] .. MaxBehind : behind' = [behind EXCEPT ![n] = b]
    /\ UNCHANGED <<contact, fsm, older, succeeded, server, ops, elections, faults>>

\* Time passes.
Expire(timer, n) == timer[n] = "running" /\ timer' = [timer EXCEPT ![n] = "expired"]

ConfirmationElapses(n) ==
    /\ Expire(confirm, n)
    /\ UNCHANGED <<raft, log, env, manager, inFlight, active, started, op, loop,
                   budget>>

DirectiveTimeout(n) ==
    /\ Expire(started, n)
    /\ UNCHANGED <<raft, log, env, manager, inFlight, active, confirm, op, loop,
                   budget>>

QuorumTimeout(n) ==
    /\ Expire(quorumLost, n)
    /\ UNCHANGED <<raft, log, env, state, paused, backoff, controller, op, loop,
                   budget>>

BackoffEnds(n) ==
    /\ backoff[n]
    /\ backoff' = [backoff EXCEPT ![n] = FALSE]
    /\ UNCHANGED <<raft, log, env, state, paused, quorumLost, controller, op,
                   loop, budget>>

Aged(s, n) == UpdateNodeHealth(s, n, s.nodes[n].lag, 0)

\* Only the age of the primary's entry is ever looked at.  What an earlier
\* state holds was written no later.
HealthGoesStale(n) ==
    /\ Ageing
    /\ \E m \in NodeNames :
          n = GetPrimary(View(m)) /\ View(m).nodes[n].lastSeen = 1
    /\ fsm' = Aged(fsm, n)
    /\ older' = [i \in 1 .. MaxBehind |-> Aged(older[i], n)]
    /\ UNCHANGED <<raft, behind, succeeded, env, manager, controller, op, loop, budget>>

-----------------------------------------------------------------------------
\* A cluster whose nodes have been registered, with its first leader.
Init ==
    /\ leader \in Daemons
    /\ isLeader = [n \in NodeNames |-> n = leader]
    /\ contact = [n \in NodeNames |-> TRUE]
    /\ fsm = [NewClusterFSM EXCEPT
                !.primaryName = InitialPrimary,
                !.nodes = [n \in NodeNames |->
                    [role |-> IF n = InitialPrimary THEN "primary" ELSE InitialRole,
                     lag |-> 0, lastSeen |-> 1]]]
    /\ older = [i \in 1 .. MaxBehind |-> NewClusterFSM]
    /\ behind = [n \in NodeNames |-> 0]
    /\ succeeded = {}
    /\ server = [n \in NodeNames |-> [up |-> TRUE, standby |-> n # InitialPrimary]]
    /\ health = [n \in NodeNames |-> Unknown]
    /\ state = [n \in NodeNames |-> "INITIALIZING"]
    /\ paused = [n \in NodeNames |-> FALSE]
    /\ backoff = [n \in NodeNames |-> FALSE]
    /\ quorumLost = [n \in NodeNames |-> "none"]
    /\ inFlight = [n \in NodeNames |-> FALSE]
    /\ active = [n \in NodeNames |-> {}]
    /\ started = [n \in NodeNames |-> "none"]
    /\ confirm = [n \in NodeNames |-> "none"]
    /\ op = [n \in NodeNames |-> [w \in Workers |-> NoOp]]
    /\ loop = [n \in NodeNames |-> Idle]
    /\ ops = 0 /\ elections = 0 /\ faults = 0 /\ crashes = 0

LoopStep(n) ==
    \/ Tick(n)
    \/ NextDirective(n)
    \/ RunFence(n)
    \/ RunPromote(n)
    \/ RunDemote(n)
    \/ RunCheckpoint(n)
    \/ Complete(n)
    \/ Monitor(n)
    \/ MonitorTimeout(n)
    \/ MonitorClear(n)
    \/ Evaluate(n)
    \/ StartFailover(n)

OpStep(n, w) ==
    \/ PublishFence(n, w)
    \/ PublishPromote(n, w)
    \/ PublishCheckpoint(n, w)
    \/ AwaitCheckpoint(n, w)
    \/ AwaitSync(n, w)
    \/ WaitTimeout(n, w)
    \/ PublishDemote(n, w)

ApiCall(n) ==
    \/ \E w \in ApiWorkers, to \in NodeNames :
          ManualFailover(n, w, to) \/ ManualSwitchover(n, w, to)
    \/ Pause(n)
    \/ Resume(n)

TimeStep(n) ==
    \/ ConfirmationElapses(n)
    \/ DirectiveTimeout(n)
    \/ QuorumTimeout(n)
    \/ BackoffEnds(n)

World(n) ==
    \/ Check(n)
    \/ Elect(n)
    \/ LoseQuorum(n)
    \/ StepDown(n)
    \/ LoseContact(n)
    \/ RegainContact(n)
    \/ ServerFault(n)
    \/ CatchUp(n)
    \/ Restart(n)

Next ==
    \/ \E n \in Daemons :
          \/ LoopStep(n)
          \/ \E w \in Workers : OpStep(n, w)
          \/ ApiCall(n)
          \/ TimeStep(n)
          \/ World(n)
    \/ \E n \in NodeNames : HealthGoesStale(n)

Spec == Init /\ [][Next]_vars

\* Loops and operations are goroutines that always go on, and time passes.
Fairness ==
    \A n \in Daemons :
        /\ WF_vars(LoopStep(n))
        /\ \A w \in Workers : WF_vars(OpStep(n, w))
        /\ WF_vars(DirectiveTimeout(n))
        /\ WF_vars(QuorumTimeout(n))
        /\ WF_vars(ConfirmationElapses(n))
        /\ WF_vars(BackoffEnds(n))
        /\ WF_vars(Check(n))

FairSpec == Spec /\ Fairness

-----------------------------------------------------------------------------
(* Properties.                                                             *)

\* Every variable has its type; a completion is tried at most MaxRetries times.
NodesTypeOK ==
    /\ leader \in NodeNames \cup {""}
    /\ isLeader \in [NodeNames -> BOOLEAN]
    /\ contact \in [NodeNames -> BOOLEAN]
    /\ FSMTypeOK(fsm)
    /\ server \in [NodeNames -> Servers]
    /\ health \in [NodeNames -> HealthStatus]
    /\ state \in [NodeNames -> States]
    /\ paused \in [NodeNames -> BOOLEAN]
    /\ backoff \in [NodeNames -> BOOLEAN]
    /\ quorumLost \in [NodeNames -> Timers]
    /\ inFlight \in [NodeNames -> BOOLEAN]
    /\ active \in [NodeNames -> SUBSET DirectiveIDs]
    /\ started \in [NodeNames -> Timers]
    /\ confirm \in [NodeNames -> Timers]
    /\ op \in [NodeNames -> [Workers -> Operations]]
    /\ loop \in [NodeNames -> Loops]
    /\ ops \in 0 .. MaxOps
    /\ elections \in Nat /\ faults \in Nat /\ crashes \in Nat

HistoryTypeOK ==
    /\ DOMAIN older = 1 .. MaxBehind /\ \A i \in 1 .. MaxBehind : FSMTypeOK(older[i])
    /\ behind \in [NodeNames -> 0 .. MaxBehind]
    /\ succeeded \subseteq DirectiveIDs

TypeOK == NodesTypeOK /\ HistoryTypeOK

\* A controller that blocks automatic failover (failoverInFlight) always has a
\* way back: its timeout clock runs, and if it tracks no directives yet, some
\* operation on the node is still at work and will set or clear them.
\* MonitorDirectives skips a controller without directives, so a violation
\* would switch off automatic failover on the node for good.
InFlightCanEnd ==
    \A n \in NodeNames : inFlight[n] =>
        /\ started[n] # "none"
        /\ active[n] = {} => \E w \in Workers : op[n][w] # NoOp

\* A server is out of recovery only because it was the first primary or
\* because a PROMOTE directive for its node was committed: no node executes a
\* directive meant for another one, whatever leaders, retries and restarts do.
PrimariesJustified ==
    \A n \in NodeNames : ~server[n].standby =>
        \/ n = InitialPrimary
        \/ \E id \in DOMAIN fsm.directives :
              /\ fsm.directives[id].type = "PROMOTE"
              /\ fsm.directives[id].target = n

\* With fencing enabled no PROMOTE is ever committed unless the same operation
\* has committed the FENCE or the DEMOTE that takes the old primary out
\* (publishFailoverDirectives stops at the first directive it cannot publish).
OldPrimaryHandledFirst ==
    FencingEnabled =>
        \A id \in DOMAIN fsm.directives : id[2] = "PROMOTE" =>
            \/ <<id[1], "FENCE">> \in DOMAIN fsm.directives
            \/ <<id[1], "DEMOTE">> \in DOMAIN fsm.directives

\* A DEMOTE is committed only after a success of the CHECKPOINT of the same
\* operation has been committed (waitForDirective in ExecuteSwitchover), also
\* when the leader changes or reads a replica that is behind.  The success
\* need not last: a node that has not yet applied its own report runs the
\* CHECKPOINT again, and may then report a failure.
DemoteAfterCheckpoint ==
    \A id \in DOMAIN fsm.directives :
        id[2] = "DEMOTE" => <<id[1], "CHECKPOINT">> \in succeeded

\* The cluster implements DirectiveBoard: what is read there from the log and
\* from the servers is the whole effect of managers, controllers and stores.
\* Operations commit their directives in order and each at most once, a DEMOTE
\* after a success of its CHECKPOINT, and a server changes between primary and
\* standby only where a committed directive says so.
Board ==
    INSTANCE DirectiveBoard WITH
        Nodes <- NodeNames,
        Stamps <- 1 .. MaxOps,
        FirstPrimary <- InitialPrimary,
        Fencing <- FencingEnabled,
        board <- [x \in DOMAIN fsm.directives |->
                     [target |-> fsm.directives[x].target,
                      status |-> fsm.directives[x].status]],
        succeeded <- succeeded,
        primaries <- {n \in NodeNames : ~server[n].standby}

ImplementsBoard == Board!Spec

\* Only a directive, an operation that starts or fails on the node, or a
\* restart of the daemon takes a node out of FENCED; the state machine of
\* evaluate never does, however healthy the server looks.
FencedUntilCommanded ==
    [][\A n \in NodeNames : state[n] = "FENCED" /\ state'[n] # "FENCED" =>
          \/ loop[n].pc = "dirs" /\ loop'[n].pc = "run"
          \/ \E w \in Workers : op'[n][w] # op[n][w]
          \/ loop[n].pc = "start"
          \/ crashes' # crashes]_vars

\* On a node that stays leader every operation in flight ends: all its
\* directives are resolved, or MonitorDirectives times them out.
InFlightEnds ==
    \A n \in NodeNames : inFlight[n] ~> (~inFlight[n] \/ ~isLeader[n])

\* Split-brain protection: a node whose server keeps passing its checks as a
\* primary while the quorum stays lost gets fenced, unless a directive or an
\* operation holds its state machine.
SelfFences ==
    \A n \in NodeNames :
        <>[](~HasQuorum(n) /\ health[n].healthy /\ ~health[n].inRecovery) =>
            <>(state[n] \in {"FENCED", "FAILOVER_IN_PROGRESS", "DEMOTING", "PROMOTING"})

-----------------------------------------------------------------------------
(* Statements of comments and documents that the code does not meet.       *)

\* manager.go:550, "updates this node's health data in the FSM for
\* cluster-wide visibility": while a leader exists, the running daemon of the
\* primary keeps its entry fresh.
PrimaryHealthVisible ==
    <>[](leader # "") => []<>(fsm.nodes[InitialPrimary].lastSeen = 1)

\* manager.go:241, "Failover completed -- state will be updated by health
\* checks": a manager does not stay in FAILOVER_IN_PROGRESS once the
\* controller has finished.
FailoverStateUpdated ==
    \A n \in NodeNames :
        (state[n] = "FAILOVER_IN_PROGRESS" /\ ~inFlight[n])
            ~> (state[n] # "FAILOVER_IN_PROGRESS" \/ inFlight[n])

\* OPERATIONS.md:153, a switchover "Ensures clean primary transition": no two
\* servers accept writes at the same time.
OneWritablePrimary ==
    \A m, n \in NodeNames :
        server[m].up /\ ~server[m].standby /\ server[n].up /\ ~server[n].standby
            => m = n

\* manager.go:423, "Update FSM with new primary info": once a node has carried
\* out a PROMOTE, the FSM names it.
PromotionRecorded ==
    \A n \in NodeNames :
        loop[n].pc = "complete" /\ loop[n].cur[2] = "PROMOTE" /\ loop[n].err = ""
            => fsm.primaryName = n

\* failover.go:119, IsFailoverInFlight "returns true if a failover is currently
\* in progress".
InFlightWhileWorking ==
    \A n \in NodeNames, w \in Workers : op[n][w] # NoOp => inFlight[n]

\* OPERATIONS.md:173, pausing is there "to prevent unwanted failovers": no
\* automatic failover begins while it is paused.
PausePreventsFailover ==
    [][\A m, n \in NodeNames : paused[m] =>
          ~(loop[n].pc = "start" /\ op[n]["loop"] = NoOp /\ op'[n]["loop"] # NoOp)]_vars
=============================================================================
