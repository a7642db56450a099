# Verification of PGBastion

TLA+ specifications of PGBastion, the TLC models that check them on small
instances, and TLAPS proofs of the properties that matter most. Every
definition follows the Go code under `src/`; `PROJECT.json` maps definitions to
lines and lists components, runs, hazards, findings and theorems.

## The system

A PGBastion daemon runs beside each PostgreSQL server.

| Part | Code | Module |
|---|---|---|
| replicated cluster state | `consensus/fsm.go` | `ClusterFSM`, `ReplicatedFSM` |
| life of the process: Raft set-up, start, signals, reload, exit | `cmd/pgbastion/main.go`, `consensus/raft.go`, `config/config.go` | `Daemon` |
| leader-only writes, quorum | `consensus/store.go` | `FailoverCluster` (`Writes`, `HasQuorum`) |
| manager loop, directives, self-fencing | `cluster/manager.go` | `FailoverCluster` |
| failover and switchover | `cluster/failover.go` | `FailoverCluster`; its promise is `DirectiveBoard` |
| health checks and their history | `cluster/health.go` | `HealthChecker` with `HealthHistory`; its promise is `RecentChecks` |
| PostgreSQL parameters | `cluster/pgconfig.go`, `api/handlers.go` | `ConfigRollout` |
| virtual IP | `vip/manager_linux.go`, `vip/raft_leadership.go` | `VipManager` |
| connection pool | `proxy/pool.go` | `BackendPool` |
| proxy, tracker, router, end of the daemon | `proxy/proxy.go`, `connection.go`, `router.go`, `cmd/pgbastion/main.go` | `ClientProxy` |
| API reads and request plumbing, CLI, parsing of configuration files, replication tools, progress, ARP, UI | see `components` | not modelled |

The daemons share the FSM through hashicorp/raft (external). The Raft leader
decides on failovers and publishes *directives* (CHECKPOINT, FENCE, DEMOTE,
PROMOTE) in the FSM; every manager executes those addressed to it and reports
the result through the store, which accepts writes on the leader only. The
router and the virtual IP follow the local FSM and the local Raft state.

`FailoverCluster` and `ConfigRollout` extend `ClusterFSM` and use its operators
for each command; `ReplicatedFSM` replicates the same operators over a log. The
other modules stand alone, with what they see of their neighbours as external
actions: `FailoverCluster` has a health check as one step (`Check`), and
`HealthChecker` is that step in detail, with the manager that waits for it.
`MC*` modules hold the instances; `*Proofs` modules hold the theorems.

## Modules

**ClusterFSM** is pure: one operator per case of `Apply`, and the reads. A Go
map is a function over the keys present. Host, port, timeline and state of a
node decide nothing and are left out.

**ReplicatedFSM** is `Apply`, `Snapshot` and `Restore` over a committed log that
every replica is handed in order, late, and again after a restart. `Apply` reads
the clock of the replica; `agreed` is a history variable with the state each
prefix of the log stands for.

**FailoverCluster** has one manager loop and several API goroutines per node. An
action is what runs between two points where something else can intervene: a
tick, the execution of one directive, one attempt to complete it, monitoring,
evaluation, and each publication of an operation. Raft gives a leader whose
writes commit (`leader`) and, apart from it, nodes that believe they lead
(`isLeader`); a write is refused, commits, or fails without telling whether it
committed. Timers are running or expired; a running timer may expire at any
step. Simplifications:
- the log is kept as the state it stands for (`fsm`) and a few earlier ones
  (`older`): commands are computed on `fsm`, and a node reads what its own replica
  has reached (`View`). A leader has applied its own write when the write returns;
  any other replica falls behind by it, catches up at any time, and after a restart
  starts from further back. Entries that change nothing are not counted;
- a write of a deposed leader commits at once or never, before or after anything
  else; an entry Raft commits late precedes all later ones, so this only adds
  behaviours;
- `succeeded` is a history variable: the directives whose success was ever
  committed. A node that has not yet applied its own report reads the directive as
  pending, runs it again, and may then report a failure;
- `MonitorDirectives` reads all statuses in one step, then times the overdue
  directives out one by one, each possibly after its status has changed;
- `clearFailover` and the state set with it are one step, and so are the start of
  an operation and its in-flight flag;
- directives are not removed: `CleanupDirectives` has no caller in the daemon;
- the slot clean-up in `evaluate` touches only PostgreSQL and its own time stamp
  and is left out; REWIND and BASEBACKUP are never published;
- a switchover's second time stamp is the same operation number; targets are
  registered nodes; registration (done through the `Store` API, which has only
  tests as callers) has happened;
- a standby whose lag query fails reports lag 0, as the code does.

**DirectiveBoard** is what the failover protocol promises, without managers,
leaders, replicas or clocks: operations pin directives in a fixed order and each
once, a DEMOTE only after its CHECKPOINT was resolved with success, a result may be
replaced by another, and a server changes its role only on a node that was told to.
`ImplementsBoard` maps the directives of the FSM, the successes committed and the
roles of the servers to it.

**HealthHistory** has the ring buffer's operations as operators (`Add`, `GetAll`,
`GetRecent`, `Stats`), **RecentChecks** the list its readers believe in, and
**HealthChecker** the goroutine: ping or dial, the query for recovery, the details,
`setStatus` and the ring under their own locks, back-off, wait. `Manager.Run`
waits for `readyCh` or a time-out; a history request reads entries and statistics
in two steps. The server stops, starts and changes its role at any step. The
lists of replicas and slots a primary reports are left out. The wait is the interval
times the multiplier times the number of failures in a row, up to the maximum; the
counter is capped at `FailureCap`, from which on the wait is the maximum.

**Daemon** is `runDaemon` step by step with the error path of each, `NewRaftNode`
with its own, the signal goroutine, the deferred functions in reverse order, and a
Raft disk and a configuration file that survive. `BootstrapCluster` (external) stores
a term and then the first entry of the log, so a kill in between leaves a disk with a
term and no log; so does another node that has made contact. Components are counted
by what can end them, and get whichever logger `runDaemon` has when they are built
(the signal goroutine replaces it without a lock). A reload reads the file and swaps
the configuration in two steps. It acts on nothing but the level of `runDaemon`'s own
logger: no listener is registered with `OnChange` and `SetAuthToken` has no caller.

**BackendPool**: one action per hold of the pool's mutex or atomic update outside
it, with dialling in between; clients, two goroutines that keep idle
connections, and Close. A panic from the write to a nil map ends the process.

**VipManager**: `Campaign`, the `watchLeadership` goroutines it leaves behind and
the manager's loop on their two channels. The address is on the interface before the
manager owns it: the gratuitous ARP lies in between (`AssignVIP`, `OwnVIP`). Nodes without a configured VIP are not
modelled. An observation of a loss that Raft has yet to send merges with the next
one if the node is elected again. `Observers` bounds the observers registered.

**ConfigRollout**: patches, replication, and `ApplyConfig` parameter by parameter.
A run uses one connection. `applyParameter` and `reloadConfig` neither read nor close
the rows of their `Query` (pgconfig.go:171 and 182), so the connection is busy from the
first ALTER SYSTEM on: the server carries that one out, how it ended is never read, and
every later statement of the run fails in pgx, the reload included. The version counts
as applied all the same. Names that `isValidParameterName` refuses send nothing, and a
run of such names only does reload. A failing read of `pg_settings` leaves any part of
the contexts.

**ClientProxy**: listeners, a handler per client, both copies, tracker, drain and
the end of `runDaemon`. A node's name is its address; a round robin over a Go
map is any replica; the router's reads are separate steps, so the cluster may
change between them. The split-brain flag has no writer but the `Store` API, so it
changes as the environment likes. An accept error that is retried changes nothing;
closing both sockets of a connection is one step. `forceCloseAll` (connection.go:127)
closes the sockets of all tracked connections, also of one that belongs to the pool and
is in use. `BackendPool` does not have this: "open" means there that the pool itself has
not closed it. The handler of such a connection discards it and never gives it back.

## Inventory of what can go wrong

The `hazards` of `PROJECT.json` list, at the line where each bites, what tests
would hardly reach. In short:
- *failover*: operations that overlap on one in-flight flag; leadership lost
  between two publications; directives of one operation executed by different
  nodes at their own pace; a status read from a replica that is behind, or before it
  is overwritten; restarts that
  forget an operation whose directives live on; a clock that must lead to fencing;
- *replicated state*: commands that read the local clock, replayed later;
  snapshots and restarts between any two commands;
- *pool*: limits checked before a dial and counted after it; waiters that time out
  while they are handed a connection; Close during a dial;
- *virtual IP*: observations dropped at a full channel, watchers left behind, a
  restart that forgets the address;
- *parameters*: a version that changes while it is written; a connection left busy
  by the first statement of several; restarts from an older snapshot;
- *proxy*: connections accepted, routed or closing while the daemon drains;
- *health checks*: a ring that wraps while it is read twice; a connection to an
  earlier incarnation of the server; a counter moved before or after the check it
  counts; a manager that starts before the first result;
- *process*: any step of the start fails or is cut off by a kill, the bootstrap
  included; signals that arrive while another one is handled; a reload of a broken
  file, or of one that changes meanwhile; goroutines that
  send to a channel nobody reads.

## Runs

Run with `tlc -config <cfg> <module>`; `PROJECT.json` has the pairs. All
passing runs end in less than three minutes on two workers. Type invariants are
checked by `pool` and `daemon` only; all of them are theorems.

### What holds

| Run | Checks | Distinct states |
|---|---|---|
| `failover` | `OldPrimaryHandledFirst`: with fencing no PROMOTE is committed before the FENCE or DEMOTE of its operation; `FencedUntilCommanded`: evaluation alone never takes a node out of FENCED | 1.1 M |
| `manual` | `ImplementsBoard`: the protocol implements the directive board, with replicas that are behind; `InFlightCanEnd`: a controller in flight has a running clock and either directives to monitor or an operation at work; `PrimariesJustified`: a server leaves recovery only where a PROMOTE was committed | 2.2 M |
| `partition` | `SelfFences`: a primary that stays without quorum fences itself; `DemoteAfterCheckpoint`: a DEMOTE is committed only after a success of its CHECKPOINT was, also by a leader that was deposed and elected again and reads a replica that is behind | 0.6 M |
| `failover_live` | `InFlightEnds`: on a lasting leader every failover in flight ends | 0.06 M |
| `replicated` | `PrimaryRegistered`: a replica knows the primary it names; `ReplicasAgree`: replicas that applied the same entries agree on all that does not depend on clocks | 2.2 M |
| `pool` | `TypeOK`; `OneHolder`, `TotalCounts`, `SendNeverBlocks`, `OvershootBounded` (at most two connections above the limit), `ClosedForGood` | 0.3 M |
| `vip` | `LossIsNoticed`: no dropped observation hides a loss; `AddressOwned`: an address on the interface is one that `removeVIP` would remove, or about to be; `LeaderGetsAddress` and `FollowerGivesUp` as long as no netlink call failed and the daemon was not stopped | 0.3 M |
| `config` | `AppliedLeavesMark`: the version a node says it applied has a parameter in the file, with that version's value; `RestartFlagged`: a restart is pending whenever something the daemon wrote waits for one; `LastVersionReached`: every node goes through the last version in the end. The first two as long as statements fail only because the connection is busy | 0.3 M |
| `proxy` | `DrainLeavesNothing`, `ShutdownEndsAll`, `GoneClientEnds` | 0.6 M |
| `health` | `RingIsRecent`: the ring implements the list of the latest checks; `ReadersAgree`: its readers describe the same checks; `BackoffMatchesHistory`: counter and wait are those the history calls for; `StartsInformed`: a manager that `readyCh` started never sees the zero status; `AnswerAddsUp`: an answer read in two steps does not contradict itself; `ServerNoticed`: a server that stays as it is gets reported so; `StopsClean` | 0.4 M |
| `daemon` | `TypeOK`; `NothingLeftOpen` and `RaftHasItsStores` on every path; `ExitExplained`: an error only if something failed or the disk holds what is not the cluster to bootstrap, so a daemon whose bootstrap was complete starts again; `SighupTakesEffect`: no edit of the file is lost with a dropped SIGHUP; `ReceivedTermEnds`, `FailureEnds` | 0.8 M |

### Where the code and its documentation disagree

The run `switchover_clean` ends with a counterexample to `OneWritablePrimary`:
PROMOTE is executed although DEMOTE has not been, and two servers accept writes.
`findings` quotes the sentence that is contradicted. The modules state further sentences of comments and documents that the code does
not meet. Each has a configuration with which TLC finds a counterexample:

| Configuration, module | Property | What happens |
|---|---|---|
| `PromotionRecorded`, `MCFailover` | `PromotionRecorded` | a promoted follower cannot record it, and the directive completes without error |
| `HealthVisible`, `MCFailover` | `PrimaryHealthVisible` | a primary that is not the Raft leader never gets its health into the FSM |
| `FailoverState`, `MCFailover` | `FailoverStateUpdated` | after a failed switchover the manager stays in FAILOVER_IN_PROGRESS |
| `InFlight`, `MCFailover` | `InFlightWhileWorking` | one operation clears the in-flight flag of another |
| `PauseHolds`, `MCFailover` | `PausePreventsFailover` | a pause after the last check, or on another node, holds nothing back |
| `ReplicasIdentical`, `MCReplicated` | `ReplicasIdentical` | a cleanup removes a directive on one replica only |
| `PoolLost`, `MCPool` | `NoneLost` | a connection handed to a waiter that has just timed out is lost and stays counted |
| `PoolClose`, `MCPool` | `CloseIsGraceful` | Close during a dial makes Acquire write to a nil map |
| `VipStarved`, `VipManager` | `LeaderHasAddress` | a leftover watcher takes the observation Campaign waits for |
| `VipStale`, `VipManager` | `OnlyLeaderHasAddress` | a restarted daemon keeps an address it does not know of |
| `ConfigArrives`, `MCConfig` | `ConfigArrives` | with nothing failing, one parameter of a version is written, the others fail on a busy connection and are never tried again, and the reload fails too ("applies them via ALTER SYSTEM", pgconfig.go:84; "Reload configuration for non-restart parameters", :137) |
| `ConfigDelete`, `MCConfig` | `DeletedGoes` | a deleted parameter stays in `postgresql.auto.conf` |
| `ConfigContexts`, `MCConfig` | `UnknownContextsPend` | unreadable contexts are taken as "no restart" |
| `ProxyFailover`, `ClientProxy` | `FailoverDrains` | connections stay with the old primary |
| `ProxyPipe`, `ClientProxy` | `PipeReturnsOnEither` | Pipe waits for both directions |
| `ProxyExit`, `ClientProxy` | `ExitAfterDrain` | the process ends before Run has drained |
| `HealthRole`, `MCHealth` | `MasterWasSeen` | a standby whose check fails reports itself as master |
| `HealthBackoff`, `MCHealth` | `BackoffExponential` | "exponential backoff" (health.go:527) is linear in the number of failures |
| `DaemonTorn`, `Daemon` | `KilledStartsAgain` | a daemon killed between the two writes of its bootstrap finds the log empty, bootstraps again ("only if ... the log is empty", raft.go:196), is refused, and so at every later start |
| `DaemonLevel`, `Daemon` | `LevelUpdated` | "Update logger level if changed" (main.go:126): the components keep the logger they were built with, and a reload back to the level of the start changes nothing |
| `DaemonTerm`, `Daemon` | `TermEnds` | a SIGTERM that arrives while a SIGHUP waits in the channel is dropped |

Four passing properties say how far the code departs from a comment:
- `OvershootBounded`, from the limit of the pool: a keeper dials after the check and
  counts after the dial;
- `FencedUntilCommanded`, from "Fenced nodes stay fenced until manually unfenced"
  (manager.go:327): a directive, a restart of the daemon (which forgets the state) and
  a manual failover or switchover end it too, the latter also when it fails
  (manager.go:646);
- `AppliedLeavesMark`, from "applied PostgreSQL config" with the number of parameters
  (pgconfig.go:150): one parameter at least is written, and often no more;
- `RestartFlagged`, from "returns parameters that require a restart" (pgconfig.go:70):
  there is one in the list, not each of them, and none after the daemon restarted. That
  the list is emptied when PostgreSQL has restarted is not so either:
  `ClearPendingRestart` has no caller.

Two more, seen while reading and not modelled: `/events` always answers 500,
because the `statusWriter` of `requestLogger` is no `http.Flusher`; and
`CleanupOrphanedSlots` issues its drop on the connection whose rows are still
open.

## Bounds

Every bound is a constant used in a guard.
- Two nodes (a primary that is lost, and the one that takes over) are all that an
  operation involves; the theorems hold for any number.
- `MaxOps` is 1, so operations that overlap on a controller are left to the theorem
  about `InFlightCanEnd` (and to `InFlight`, with two API goroutines).
- `MaxBehind` is 1, or 0 (one copy) in `failover`, whose questions do not turn on what a
  replica shows: a node reads the present state or the one before the last change.
  `Ageing` is off where no automatic failover starts. `Daemons` is one node in the runs
  with liveness, the node the property is about; the other one's server is there.
  `MaxElections`, `MaxFaults`, `MaxCrashes` and `MaxRestarts` allow the event at any
  one step; a leader may step down at any time. No run has all of them at once:
  `failover` has an election, `partition` an election and a fault, `manual` a
  crash. The theorems hold for any combination.
- `MaxRetries` is at most 2 where the code has 5: first attempt and repetition.
- The log has 3 entries and clocks 4 values: publish, resolve and clean up, before
  and after the maximal age, mixed with any other command.
- The pool has a limit of 2 and five connections, enough for the overshoot of two
  and one dial more; three clients make one wait while another holds and a third
  releases.
- The VIP's channel holds 2 observations where the code has room for 16: it fills
  up within the elections allowed.
- Three parameters, one of which takes a restart and one with a name that is refused,
  and three patches make a version overtake another while it is written.
- One handler: handlers share nothing but the tracker, from which each removes
  itself, and the drain, which may find a connection or come too early for it.
  `Pooled` is off, so that nothing but the handlers closes backends.

- The ring has 3 slots where the code has 100: it is empty, partly filled, full and
  wraps, with limits below, at and above its size; the back-off reaches its maximum
  (8 intervals, in steps of 2) after four failures, so that the third one tells linear
  from exponential growth. Two changes of the server or failing statements suffice to
  stop it, start it again in another role, or fail in the middle of a check.
- Three events (failures, kills, signals, edits of the file) and two starts of the
  process: a signal or a kill at any step of a start that follows a failed one.

Symmetry is used only in runs without liveness properties.

## Fairness

- `FailoverCluster`: weak fairness of the manager loop (a ticker that is never
  stopped), of every step of an operation (straight-line code whose waits have a
  deadline), of timers and back-off (time passes) and of health checks (a ticker).
  Nothing is asked of elections, faults or API callers.
- `VipManager`: weak fairness of the manager and its watchers (goroutines) and of
  the observation of a loss: Raft reports each.
- `ConfigRollout`: weak fairness of replication and of the ConfigWatcher's ticker.
- `ClientProxy`: weak fairness of the drain, of shutdown once `Run` returned, of
  listeners and handlers, of a copy whose source has ended, and of a backend that
  closes after it was half-closed, as PostgreSQL does. Nothing is asked of clients.
- `HealthChecker`: weak fairness of the steps of a check (every statement has a
  time-out, timers fire) and strong fairness of its end: once `ctx` is done, a
  `select` that finds it done and its timer just started takes it.
- `Daemon`: weak fairness of the main goroutine, of the signal goroutine, and of
  Raft's shutdown. Nothing is asked of components: they may run for ever.

## Proofs

`tlapm` checks eight modules. The theorems hold for all values of the constants
that meet the assumptions stated with them, which TLC evaluates in the runs:
`NamesAssumption` (no node is named "" and no stored parameter is empty),
`ClusterAssumption` (the bounds are numbers, operations have identifiers),
`CommandsAssumption` and `RolloutAssumption` (commands and patches are well formed),
`CapacityAssumption` and `HealthAssumption` (a ring has a slot, intervals are
positive, `FailureCap` failures reach the longest wait), `PoolAssumption` (the
limits are numbers, clients are finitely many), `DaemonAssumption`, `VipAssumption`
and `ProxyAssumption` (types and names).

- `ReplicatedProofs`: `ReplicatedTypes`, `ReplicasAlwaysAgree`,
  `PrimaryAlwaysRegistered`. The lemmas it begins with say of every command of
  `ClusterFSM` that it keeps a state well typed, and what it leaves of the directives. That two replicas agree is not inductive. `LogInv`
  compares each replica and each snapshot with the state the log stands for at its
  index (`Stands`): the same cluster, a part of the directives with the same
  resolution, and all the pending ones; `HistoryInv` says how that state grows.
- `FailoverProofs`: `TypeCorrect`, `InFlightSafe`, `FencingFirst`. `TypeInv` adds to
  `TypeOK` what the program counters of operations (`OpShape`) and loops
  (`LoopShape`) say of the fields that are read next; without it a publication to an
  unset target could not be excluded. `InFlightCanEnd` is inductive once types are
  known: flag and clock are written together, and an operation ends only by
  clearing them or by leaving directives to monitor. For the order of directives,
  `StepKinds` reduces all actions to four kinds of step: an operation begins, commits
  a directive, finishes a wait, or nothing but resolutions happens. `HandledInv` then
  says that an operation about to promote has its FENCE or DEMOTE committed, and that
  directives never go away.
- `FailoverProofs`, second half: `PromotedByDirective`, `CheckpointBeforeDemote`,
  `ClusterImplementsBoard`, `FencedStays`. `OnceInv` shows that no directive is
  committed twice (time stamps differ), `OwnInv` that loops execute only their own.
  `HistoryInv` is about replicas: an earlier state shows only directives that have been
  committed, with the same type and target, and no success that was not recorded, so
  neither does what a node reads (`ViewSince`). A result is not stable: a time-out may
  mark a directive failed that was completed after its status was read, and a node may
  run one again. What lasts is that it once succeeded; `CheckpointInv` (`WaitsOver`)
  says so for the CHECKPOINT of a switchover that went on. With these invariants every
  step of the protocol is a step of `DirectiveBoard` or a stutter. `FencedInv` says that a loop of a fenced node that is
  about to evaluate has read FENCED, and that none is in the middle of a PROMOTE or
  DEMOTE: only the loop itself fences, so what it read earlier is not stale.
- `HealthProofs`: `HealthTypes`, `HistoryImplementsRecent`, `ReadersAgreement`,
  `ManagerInformed`, `AnswersAddUp`, `BackoffFollowsHistory`, for any capacity.
  `HealthInv` relates head and size of the ring (`Filled`) and what `readyCh` tells
  (`ReadyMeans`); adding to the ring is shown to append to the list, position by
  position. `Covers` follows a request from its first read to the second: until the
  ring is full a check only adds a slot. `BackoffInv` states for every step of a
  check which history the counter fits, since it moves at different times after a
  good and a failed one.
- `VipProofs`: `VipTypes`, `LossAlwaysNoticed`, `AddressAlwaysOwned`. `VipInv` adds
  who holds which observer (`Registered`, `Watched`), and where the knowledge of a
  loss is (`Noticed`): with Raft, in a channel, or with the manager. `AddressOwned`
  allows for the moment between adding the address and owning it, in which
  `removeVIP` is never called.
- `ProxyProofs`: `ProxyTypes`, `DrainComplete`. `DrainInv` ties the sockets and the
  tracker's entry of a connection to where its handler is (`SocketsFollow`,
  `TrackedFollow`), and what the drain found to both (`FoundFollow`).
- `RolloutProofs`: `RolloutTypes`, `MarkLeft`, `RestartsFlagged`. `Fits` compares the file
  with the version that is being written: until the connection is busy no parameter
  that can be sent was passed over, and once it is, one of them is in the file and, if
  it takes a restart, noted. The committed configurations only grow (`LogGrows`), so a
  version that was copied stays what it is.
- `PoolProofs`: `PoolTypes`, `OneHolderAlways`, `SendNeverBlocksAlways`,
  `ClosedForGoodAlways`, `OvershootBoundedAlways`, `TotalCountsAlways`. `PoolInv` says
  for every connection that it is in at most one place (`Once`), for every place
  what it means for the socket (`Sockets`), and for every client and keeper what it
  has in hand at each program counter (`Shapes`); a step takes one connection from
  one place to another or none (`OneMoves`, `NoneMoves`). `OneHolder` alone is not
  inductive: a channel that is read after a time-out must be known to hold the only
  reference. For the bound on the pool, `DialsFit` counts a keeper that dials as
  a connection to come: the limit itself says nothing of a dial begun below it and
  counted above it. For the counter, `TotalCounts` is a sum
  of cardinalities, and each action is shown to move one unit between two of them or
  to change the counter with one of them (`Exchange`, the `*Counts` lemmas).
- `DaemonProofs`: `DaemonTypes`, `NothingLeftOpenAlways`, `RaftHasItsStoresAlways`,
  `ExitExplainedAlways`. It begins with who writes what.
  `NothingLeftOpen` speaks of the end only; `HoldingsInv` relates at every step what
  is open to the deferred functions that have not run (`Balance`), with the exception
  of `NewRaftNode`, which defers nothing before it has succeeded and must close what
  it opened. No function is deferred twice (`Order`), so one that has run has nothing
  left to release. `ReasonsInv` says why there can be a result in `errCh`, that until the
  select is left only the handler of SIGTERM cancels the context, and that a disk with a
  completed bootstrap is bootstrapped again only if its log could not be read.

Only model-checked: the twelve liveness properties (`SelfFences`, `InFlightEnds`,
`LeaderGetsAddress`, `FollowerGivesUp`, `LastVersionReached`, `ShutdownEndsAll`,
`GoneClientEnds`, `ServerNoticed`, `StopsClean`, `ReceivedTermEnds`, `FailureEnds`,
`SighupTakesEffect`), which TLAPS cannot express proofs about. Every invariant, action property and
refinement that a passing run checks is also a theorem.

## Not modelled

`components` lists every part with its reason. The Raft library, PostgreSQL and
netlink are external. What is left of the code is of four kinds:
- reads: most API handlers, the CLI client, metrics, tracing, the UI;
- text: parsing and validation of configuration files and flags, ARP packets;
- calls of external programs without a state of their own: the replication manager.
  Only the slot clean-up of `evaluate` and the reinitialisation of the API reach it;
  `WritePGHBA`, `ReloadPostgreSQL` and `CreateReplicationSlot` have no caller, and
  neither has `RunPgRewindWithProgress`, so the progress tracker always says idle;
- state that nothing else depends on: the token bucket of the API's rate limiter,
  and byte counts. Membership changes go to the Raft library as they are.

## Plan

Built in this order: the replicated state and its commands; the failover protocol
with its composition of managers, controllers and store; pool, virtual IP,
parameters and proxy; the first proofs; the health checker, the process, the two
abstract specifications, and the proofs of the remaining protocols, last those of
the pool and of the process. Next:
1. an abstract specification of one FSM that applies each command once, and
   `ReplicatedFSM` shown to implement it;
2. membership changes of the store;
3. more of what documentation promises: time-outs that a late completion overturns,
   how long a primary without quorum stays writable, split-brain detection.
