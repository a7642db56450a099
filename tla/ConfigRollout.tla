---------------------------- MODULE ConfigRollout ----------------------------
(***************************************************************************)
(* Cluster-wide PostgreSQL parameters: the API patches the configuration   *)
(* in the FSM (handlers.go), every node's ConfigWatcher has its            *)
(* ConfigApplier write the local replica's version into                    *)
(* postgresql.auto.conf (pgconfig.go), and PostgreSQL takes values over at *)
(* a reload or, for postmaster parameters, at a restart.                   *)
(*                                                                         *)
(* A run of ApplyConfig uses one connection.  applyParameter and           *)
(* reloadConfig drop the rows of their Query unread, so the connection is  *)
(* busy from the first ALTER SYSTEM on: every later statement of the run   *)
(* fails, and how the first one ended is never read.                       *)
(*                                                                         *)
(* The configurations that committed patches lead to are kept in order;    *)
(* replicas see longer and longer prefixes, and shorter ones again when a  *)
(* daemon restarts from a snapshot.  PostgreSQL is external.               *)
(***************************************************************************)
EXTENDS ClusterFSM, Sequences, FiniteSets

CONSTANTS ValidNames,   \* the names isValidParameterName accepts
          Postmaster,   \* parameters that take a restart of PostgreSQL
          Patches,      \* the bodies of API calls
          MaxVersion,   \* bound: patches
          MaxFaults,    \* bound: failing statements and connections
          MaxRestarts   \* bound: restarts of daemons

ASSUME RolloutAssumption ==
    /\ ValidNames \subseteq ParamNames /\ Postmaster \subseteq ValidNames
    /\ \A p \in Patches : p # EmptyMap /\ IsMap(p, ParamNames, ParamValues \cup {""})
    /\ MaxVersion \in Nat /\ MaxFaults \in Nat /\ MaxRestarts \in Nat

VARIABLES configs,  \* the committed configurations, oldest first
          seen,     \* seen[n]: how many of them n's replica has applied
          applier,  \* applier[n]: the ConfigApplier of n
          auto,     \* auto[n]: postgresql.auto.conf
          running,  \* running[n]: what PostgreSQL on n works with
          used      \* faults and restarts so far

vars == <<configs, seen, applier, auto, running, used>>

NoConfig == [params |-> EmptyMap, version |-> 0]
Config(n) == configs[seen[n]]

NewConfigApplier == [pc |-> "asleep", cfg |-> NoConfig, todo |-> {}, contexts |-> {},
                     conn |-> "ready", restart |-> {}, lastApplied |-> 0, pending |-> {}]

Init ==
    /\ configs = <<NoConfig>>
    /\ seen = [n \in NodeNames |-> 1]
    /\ applier = [n \in NodeNames |-> NewConfigApplier]
    /\ auto = [n \in NodeNames |-> EmptyMap]
    /\ running = [n \in NodeNames |-> EmptyMap]
    /\ used = [faults |-> 0, restarts |-> 0]

Fault == used.faults < MaxFaults /\ used' = [used EXCEPT !.faults = @ + 1]

\* postgresqlConfigUpdate and postgresqlConfigDelete on the leader.
Patch(p) ==
    /\ Len(configs) <= MaxVersion
    /\ configs' = Append(configs, PatchPostgreSQLConfig(configs[Len(configs)], p))
    /\ UNCHANGED <<seen, applier, auto, running, used>>

Replicate(n) ==
    /\ seen[n] < Len(configs)
    /\ seen' = [seen EXCEPT ![n] = @ + 1]
    /\ UNCHANGED <<configs, applier, auto, running, used>>

-----------------------------------------------------------------------------
(* ApplyConfig.                                                            *)

\* Faulty variant of IsNew: the version after the last one is passed over.
IsNewer(n) == Config(n).version > applier[n].lastApplied + 1

IsNew(n) == Config(n).version > applier[n].lastApplied

SkipEmpty(n) ==
    /\ applier[n].pc = "asleep" /\ IsNew(n)
    /\ DOMAIN Config(n).params = {}
    /\ applier' = [applier EXCEPT ![n].lastApplied = Config(n).version]
    /\ UNCHANGED <<configs, seen, auto, running, used>>

\* The connection is made and pg_settings is read, whose rows are closed; a
\* failing read leaves the parameters that came before the failure.
Begin(n) ==
    /\ applier[n].pc = "asleep" /\ IsNew(n)
    /\ DOMAIN Config(n).params # {}
    /\ \E known \in SUBSET ParamNames, left \in {"ready", "busy"} :
          /\ \/ known = ParamNames /\ left = "ready" /\ UNCHANGED used
             \/ Fault
          /\ applier' = [applier EXCEPT ![n].pc = "applying", ![n].cfg = Config(n),
                                        ![n].todo = DOMAIN Config(n).params,
                                        ![n].contexts = known, ![n].conn = left,
                                        ![n].restart = {}]
    /\ UNCHANGED <<configs, seen, auto, running>>

\* Faulty variant of Altered: the value the replica has by now is written.
AlteredNow(n, p) ==
    Put(auto[n], p, IF p \in DOMAIN Config(n).params THEN Config(n).params[p]
                    ELSE applier[n].cfg.params[p])

\* ALTER SYSTEM SET p.
Altered(n, p) == Put(auto[n], p, applier[n].cfg.params[p])

\* ContextPostmaster, as far as pg_settings could be read.
NeedsRestart(n, p) == {p} \cap Postmaster \cap applier[n].contexts

\* A connection takes one statement whose rows are not read.
CanSend(n, p) == p \in ValidNames /\ applier[n].conn = "ready"

\* The statement is sent and Query returns without an error, also when the server
\* refuses the value or the connection breaks before the answer.
ApplyParameter(n, p) ==
    /\ applier[n].pc = "applying" /\ p \in applier[n].todo
    /\ CanSend(n, p)
    /\ \/ auto' = [auto EXCEPT ![n] = Altered(n, p)] /\ UNCHANGED used
       \/ Fault /\ UNCHANGED auto
    /\ applier' = [applier EXCEPT ![n].todo = @ \ {p}, ![n].conn = "busy",
                                  ![n].restart = @ \cup NeedsRestart(n, p)]
    /\ UNCHANGED <<configs, seen, running>>

\* applyParameter returns an error and the loop goes on: the name is not valid,
\* the connection is busy, or preparing the statement fails.
ParameterFails(n, p) ==
    /\ applier[n].pc = "applying" /\ p \in applier[n].todo
    /\ \E left \in {"ready", "busy"} :
          /\ \/ ~CanSend(n, p) /\ left = applier[n].conn /\ UNCHANGED used
             \/ CanSend(n, p) /\ Fault
          /\ applier' = [applier EXCEPT ![n].todo = @ \ {p}, ![n].conn = left]
    /\ UNCHANGED <<configs, seen, auto, running>>

\* pg_reload_conf: PostgreSQL takes over what needs no restart.
Reloaded(n) ==
    [p \in DOMAIN running[n] \cup (DOMAIN auto[n] \ Postmaster) |->
        IF p \in Postmaster THEN running[n][p] ELSE auto[n][p]]

\* Faulty variant of PendingAfter: a run that needs no restart clears the list.
PendingReplaced(n) == applier[n].restart

PendingAfter(n) == IF applier[n].restart = {} THEN applier[n].pending ELSE applier[n].restart

\* The reload, on a connection that no parameter used, and the bookkeeping.
Finish(n) ==
    /\ applier[n].pc = "applying" /\ applier[n].todo = {}
    /\ \/ /\ applier[n].conn = "ready"
          /\ running' = [running EXCEPT ![n] = Reloaded(n)]
          /\ UNCHANGED used
       \/ applier[n].conn = "busy" /\ UNCHANGED <<running, used>>
       \/ applier[n].conn = "ready" /\ Fault /\ UNCHANGED running
    /\ applier' = [applier EXCEPT ![n].pc = "asleep", ![n].cfg = NoConfig,
                                  ![n].lastApplied = applier[n].cfg.version,
                                  ![n].pending = PendingAfter(n), ![n].restart = {},
                                  ![n].contexts = {}, ![n].conn = "ready"]
    /\ UNCHANGED <<configs, seen, auto>>

-----------------------------------------------------------------------------
(* Around it.  (A connection that fails leaves everything as it was.)      *)

PgRestart(n) ==
    /\ running[n] # auto[n]
    /\ running' = [running EXCEPT ![n] = auto[n]]
    /\ UNCHANGED <<configs, seen, applier, auto, used>>

\* The daemon restarts from a snapshot of some earlier configuration.
DaemonRestart(n) ==
    /\ used.restarts < MaxRestarts
    /\ used' = [used EXCEPT !.restarts = @ + 1]
    /\ \E i \in 1 .. seen[n] : seen' = [seen EXCEPT ![n] = i]
    /\ applier' = [applier EXCEPT ![n] = NewConfigApplier]
    /\ UNCHANGED <<configs, auto, running>>

Apply(n) ==
    \/ SkipEmpty(n) \/ Begin(n) \/ Finish(n)
    \/ \E p \in ParamNames : ApplyParameter(n, p) \/ ParameterFails(n, p)

Next ==
    \/ \E p \in Patches : Patch(p)
    \/ \E n \in NodeNames :
          Replicate(n) \/ Apply(n) \/ PgRestart(n) \/ DaemonRestart(n)

Spec == Init /\ [][Next]_vars

\* Raft delivers every entry, and the ConfigWatcher runs on a ticker.
FairSpec ==
    Spec /\ \A n \in NodeNames : WF_vars(Replicate(n)) /\ WF_vars(Apply(n))

-----------------------------------------------------------------------------
(* Properties.                                                             *)

IsConfig(c) ==
    /\ IsMap(c.params, ParamNames, ParamValues)
    /\ c.version \in Nat

\* The types of the state; in particular a patch stores no empty value and
\* versions count the patches (PATCH_POSTGRESQL_CONFIG, fsm.go:252).
TypeOK ==
    /\ \A i \in DOMAIN configs : IsConfig(configs[i]) /\ configs[i].version = i - 1
    /\ seen \in [NodeNames -> DOMAIN configs]
    /\ \A n \in NodeNames :
          /\ applier[n].pc \in {"asleep", "applying"}
          /\ IsConfig(applier[n].cfg)
          /\ applier[n].todo \subseteq DOMAIN applier[n].cfg.params
          /\ applier[n].conn \in {"ready", "busy"}
          /\ applier[n].restart \subseteq Postmaster /\ applier[n].pending \subseteq Postmaster
          /\ applier[n].lastApplied \in 0 .. Len(configs) - 1
          /\ IsMap(auto[n], ParamNames, ParamValues)
          /\ IsMap(running[n], ParamNames, ParamValues)

\* The parameters of version v that ApplyConfig may send.
Sendable(v) == DOMAIN configs[v + 1].params \cap ValidNames

\* A version that a node says it applied has left its mark: when no statement
\* failed for another reason than a busy connection, one of its parameters at
\* least is in the file with that version's value, also when the replica moved on
\* between copying the configuration and sending the statement, and after a
\* restart from an older snapshot (pgconfig.go:90 and 143).
AppliedLeavesMark ==
    \A n \in NodeNames :
        LET v == applier[n].lastApplied
        IN  applier[n].pc = "asleep" /\ used.faults = 0 /\ Sendable(v) # {} =>
            \E p \in Sendable(v) :
                p \in DOMAIN auto[n] /\ auto[n][p] = configs[v + 1].params[p]

\* Parameter p of the file waits for a restart of PostgreSQL.
Waiting(n, p) ==
    /\ p \in Postmaster \cap DOMAIN auto[n]
    /\ p \notin DOMAIN running[n] \/ running[n][p] # auto[n][p]

\* IsPendingRestart (pgconfig.go:63) is true between two runs whenever something
\* this daemon wrote waits for a restart, whatever was patched later, and the
\* pending parameters (pgconfig.go:146) are in the file, as long as pg_settings
\* could be read and no statement was refused.  (The daemon forgets it when it
\* restarts.)
RestartFlagged ==
    used.faults = 0 => \A n \in NodeNames :
        /\ applier[n].pending \subseteq DOMAIN auto[n]
        /\ used.restarts = 0 /\ applier[n].pc = "asleep" /\ (\E p \in Postmaster : Waiting(n, p))
              => applier[n].pending # {}

\* In the end every node has gone through the last version, also when statements
\* failed and after a daemon restarted from a snapshot and applied an old one
\* first (ConfigWatcher.Run, pgconfig.go:343).
LastVersionReached ==
    <>[](\A n \in NodeNames : applier[n].lastApplied = configs[Len(configs)].version)

-----------------------------------------------------------------------------
(* Statements of comments that the code does not meet.                     *)

\* PostgreSQL on every node works with the last configuration, as far as that
\* takes no restart.
LastConfigRuns ==
    \A n \in NodeNames :
        \A p \in (DOMAIN configs[Len(configs)].params \cap ValidNames) \ Postmaster :
            /\ p \in DOMAIN running[n]
            /\ running[n][p] = configs[Len(configs)].params[p]

\* "ApplyConfig checks for config updates and applies them via ALTER SYSTEM."
\* (pgconfig.go:84), "Reload configuration for non-restart parameters."
\* (pgconfig.go:137): with nothing failing the last configuration runs in the end.
ConfigArrives == <>[]LastConfigRuns

\* "postgresqlConfigDelete removes parameters from the cluster-wide
\* configuration." (handlers.go:1070): no node keeps one for ever.
DeletedGoes ==
    <>[](\A n \in NodeNames : DOMAIN auto[n] \subseteq DOMAIN configs[Len(configs)].params)

\* "failed to get parameter contexts, assuming all need restart" (pgconfig.go:117).
UnknownContextsPend ==
    \A n \in NodeNames : \A p \in Postmaster :
        applier[n].pc = "asleep" /\ Waiting(n, p) => p \in applier[n].pending
=============================================================================
