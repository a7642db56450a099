---------------------------- MODULE ReplicatedFSM ----------------------------
(***************************************************************************)
(* ClusterFSM replicated over the Raft log (internal/consensus/fsm.go as   *)
(* raft.FSM: Apply, Snapshot, Restore).  The log is external: hashicorp/   *)
(* raft commits entries in one order and hands each replica every entry in *)
(* that order, whenever it likes.  A replica takes snapshots, and after a  *)
(* restart goes on from its last one and is handed the later entries again.*)
(*                                                                         *)
(* Apply reads the clock of the machine it runs on (COMPLETE_DIRECTIVE,    *)
(* CLEANUP_DIRECTIVES), so replicas that applied the same entries need not *)
(* be equal.  The history variable agreed holds, for every prefix of the   *)
(* log, the state it stands for; no action reads it.                       *)
(***************************************************************************)
EXTENDS ClusterFSM, Sequences

CONSTANTS Commands,    \* the commands clients submit
          MaxLog,      \* bound: entries of the log
          MaxTime,     \* bound: the clock
          MaxRestarts  \* bound: restarts of replicas

VARIABLES log,      \* the committed entries
          now,      \* the time
          fsm,      \* fsm[n]: the state of n's replica
          applied,  \* applied[n]: entries it stands for
          snapshot, \* snapshot[n]: its last snapshot
          agreed,   \* agreed[i]: what the first i entries stand for
          restarts  \* used up so far

vars == <<log, now, fsm, applied, snapshot, agreed, restarts>>

-----------------------------------------------------------------------------
(* Commands, and what Apply makes of them at time t.                       *)

IsCommand(c) ==
    \/ c \in [type : {"SET_PRIMARY", "SET_REPLICA", "ADD_NODE", "UPDATE_NODE_HEALTH"},
              node : NodeNames, info : NodeInfo]
    \/ c \in [type : {"REMOVE_NODE"}, node : NodeNames]
    \/ c \in [type : {"SET_CLUSTER_CONFIG"}, splitBrain : BOOLEAN]
    \/ c \in [type : {"PUBLISH_DIRECTIVE"}, id : DirectiveIDs,
              kind : DirectiveTypes, target : NodeNames]
    \/ c \in [type : {"COMPLETE_DIRECTIVE"}, id : DirectiveIDs, err : Errors]
    \/ c \in [type : {"CLEANUP_DIRECTIVES"}, maxAge : Nat]
    \/ /\ c.type = "SET_POSTGRESQL_CONFIG"
       /\ IsMap(c.params, ParamNames, ParamValues)
       /\ c.version \in Nat
    \/ /\ c.type = "PATCH_POSTGRESQL_CONFIG"
       /\ IsMap(c.patch, ParamNames, ParamValues \cup {""})

ASSUME CommandsAssumption ==
    /\ \A c \in Commands : IsCommand(c)
    /\ DirectiveMaxAge \in Nat
    /\ MaxLog \in Nat /\ MaxTime \in Nat /\ MaxRestarts \in Nat

Apply(s, c, t) ==
    CASE c.type = "SET_PRIMARY" -> SetPrimary(s, c.node, c.info)
      [] c.type = "SET_REPLICA" -> SetReplica(s, c.node, c.info)
      [] c.type = "ADD_NODE" -> AddNode(s, c.node, c.info)
      [] c.type = "REMOVE_NODE" -> RemoveNode(s, c.node)
      [] c.type = "UPDATE_NODE_HEALTH" ->
            UpdateNodeHealth(s, c.node, c.info.lag, c.info.lastSeen)
      [] c.type = "SET_CLUSTER_CONFIG" -> SetClusterConfig(s, c.splitBrain)
      [] c.type = "PUBLISH_DIRECTIVE" ->
            PublishDirective(s, c.id, NewDirective(c.kind, c.target))
      [] c.type = "COMPLETE_DIRECTIVE" -> CompleteDirective(s, c.id, c.err, t)
      [] c.type = "CLEANUP_DIRECTIVES" -> CleanupDirectives(s, c.maxAge, t)
      [] c.type = "SET_POSTGRESQL_CONFIG" -> SetPostgreSQLConfig(s, c.params, c.version)
      [] c.type = "PATCH_POSTGRESQL_CONFIG" -> PatchPostgreSQLConfig(s, c.patch)

\* Snapshot encodes the state as JSON, which leaves out an empty directive map;
\* Restore makes an empty one for a missing one.
Snapshot(s) == [state |-> s, omitted |-> DOMAIN s.directives = {}]
Restore(data) ==
    IF data.omitted THEN [data.state EXCEPT !.directives = EmptyMap] ELSE data.state

-----------------------------------------------------------------------------
Init ==
    /\ log = <<>>
    /\ now = 1
    /\ fsm = [n \in NodeNames |-> NewClusterFSM]
    /\ applied = [n \in NodeNames |-> 0]
    /\ snapshot = [n \in NodeNames |-> [index |-> 0, data |-> Snapshot(NewClusterFSM)]]
    /\ agreed = [i \in {0} |-> NewClusterFSM]
    /\ restarts = 0

\* The leader's Store submits c and Raft commits it.
Commit(c) ==
    /\ Len(log) < MaxLog
    /\ log' = Append(log, c)
    /\ agreed' = Put(agreed, Len(log) + 1,
                     IF c.type = "CLEANUP_DIRECTIVES" THEN agreed[Len(log)]
                     ELSE Apply(agreed[Len(log)], c, 1))
    /\ UNCHANGED <<now, fsm, applied, snapshot, restarts>>

ApplyNext(n) ==
    /\ applied[n] < Len(log)
    /\ fsm' = [fsm EXCEPT ![n] = Apply(@, log[applied[n] + 1], now)]
    /\ applied' = [applied EXCEPT ![n] = @ + 1]
    /\ UNCHANGED <<log, now, snapshot, agreed, restarts>>

TakeSnapshot(n) ==
    /\ snapshot[n].index < applied[n]
    /\ snapshot' = [snapshot EXCEPT ![n] = [index |-> applied[n], data |-> Snapshot(fsm[n])]]
    /\ UNCHANGED <<log, now, fsm, applied, agreed, restarts>>

Restart(n) ==
    /\ restarts < MaxRestarts
    /\ fsm' = [fsm EXCEPT ![n] = Restore(snapshot[n].data)]
    /\ applied' = [applied EXCEPT ![n] = snapshot[n].index]
    /\ restarts' = restarts + 1
    /\ UNCHANGED <<log, now, snapshot, agreed>>

\* The leader m sends its snapshot to a replica that is too far behind.
InstallSnapshot(m, n) ==
    /\ applied[n] < snapshot[m].index
    /\ fsm' = [fsm EXCEPT ![n] = Restore(snapshot[m].data)]
    /\ applied' = [applied EXCEPT ![n] = snapshot[m].index]
    /\ snapshot' = [snapshot EXCEPT ![n] = snapshot[m]]
    /\ UNCHANGED <<log, now, agreed, restarts>>

Tick ==
    /\ now < MaxTime
    /\ now' = now + 1
    /\ UNCHANGED <<log, fsm, applied, snapshot, agreed, restarts>>

Next ==
    \/ \E c \in Commands : Commit(c)
    \/ \E n \in NodeNames : ApplyNext(n) \/ TakeSnapshot(n) \/ Restart(n)
    \/ \E m, n \in NodeNames : InstallSnapshot(m, n)
    \/ Tick

Spec == Init /\ [][Next]_vars

-----------------------------------------------------------------------------
(* Properties.                                                             *)

\* Every replica, every snapshot and every agreed state is a state of the FSM,
\* in particular no parameter is stored with an empty value.
TypeOK ==
    /\ log \in Seq(Commands)
    /\ now \in Nat \ {0}
    /\ \A n \in NodeNames : FSMTypeOK(fsm[n])
    /\ fsm = [n \in NodeNames |-> fsm[n]]
    /\ applied \in [NodeNames -> 0 .. Len(log)]
    /\ snapshot = [n \in NodeNames |->
                      [index |-> snapshot[n].index, data |-> snapshot[n].data]]
    /\ \A n \in NodeNames : /\ snapshot[n].index \in 0 .. Len(log)
                            /\ FSMTypeOK(snapshot[n].data.state)
                            /\ snapshot[n].data = Snapshot(snapshot[n].data.state)
    /\ DOMAIN agreed = 0 .. Len(log)
    /\ \A i \in 0 .. Len(log) : FSMTypeOK(agreed[i])

\* The parts of two states no clock has a say in are equal.
SameCluster(s, t) ==
    /\ s.nodes = t.nodes
    /\ s.primaryName = t.primaryName
    /\ s.splitBrain = t.splitBrain
    /\ s.params = t.params
    /\ s.version = t.version

SameDirective(d, e) ==
    d.type = e.type /\ d.target = e.target /\ d.status = e.status /\ d.error = e.error

\* Replicas that applied the same entries, live, late, or again after a restart
\* from any snapshot, agree on nodes, primary and configuration, hand out the
\* same pending directives to every node, and tell the same about every
\* directive they both still have.  Only completion times and the directives a
\* cleanup has removed may differ (Apply reads the local clock for those).
ReplicasAgree ==
    \A m, n \in NodeNames : applied[m] = applied[n] =>
        /\ SameCluster(fsm[m], fsm[n])
        /\ \A k \in NodeNames :
              GetDirectivesForNode(fsm[m], k) = GetDirectivesForNode(fsm[n], k)
        /\ \A id \in DOMAIN fsm[m].directives \cap DOMAIN fsm[n].directives :
              SameDirective(fsm[m].directives[id], fsm[n].directives[id])

\* The primary every replica names is one of the nodes it knows, whatever nodes
\* are added, replaced and removed: GetPrimary never runs into a missing node.
PrimaryRegistered ==
    \A n \in NodeNames : fsm[n].primaryName # "" => GetPrimary(fsm[n]) = fsm[n].primaryName

\* OPERATIONS.md:202, the state "is automatically replicated across all cluster
\* nodes": replicas that applied the same entries hold the same directives.
ReplicasIdentical ==
    \A m, n \in NodeNames : applied[m] = applied[n] =>
        DOMAIN fsm[m].directives = DOMAIN fsm[n].directives
=============================================================================
