----------------------------- MODULE ClusterFSM -----------------------------
(***************************************************************************)
(* The replicated cluster state of internal/consensus/fsm.go: the state    *)
(* kept by ClusterFSM and, for every command type, the operator that       *)
(* Apply runs on it.  Everything here is a pure function of a state        *)
(* record; ReplicatedFSM replicates such states over a Raft log and        *)
(* FailoverCluster drives one from the cluster managers.                   *)
(*                                                                         *)
(* Abstractions.  NodeInfo keeps Role, Lag and LastSeen: Host, Port,       *)
(* Timeline and State are carried but never decide anything.  Go maps are  *)
(* functions whose DOMAIN is the set of keys present.  A time is a         *)
(* natural number, 0 standing for the zero time.Time.                      *)
(***************************************************************************)
EXTENDS Integers

CONSTANTS NodeNames,     \* node.name of every node
          DirectiveIDs,  \* identifiers of directives
          ParamNames,    \* PostgreSQL parameter names
          ParamValues,   \* their non-empty values
          DirectiveMaxAge \* age used by a cleanup that names none

\* config.Validate rejects a node without a name, so "" can mean "no primary";
\* an empty parameter value means "delete" and is never stored by a patch.
ASSUME NamesAssumption == "" \notin NodeNames /\ "" \notin ParamValues

-----------------------------------------------------------------------------
\* Maps.
Put(f, k, v) == [x \in DOMAIN f \cup {k} |-> IF x = k THEN v ELSE f[x]]
Without(f, S) == [x \in DOMAIN f \ S |-> f[x]]
EmptyMap == [x \in {} |-> 0]

IsMap(f, K, V) ==
    /\ f = [x \in DOMAIN f |-> f[x]]
    /\ DOMAIN f \subseteq K
    /\ \A x \in DOMAIN f : f[x] \in V

-----------------------------------------------------------------------------
Roles == {"primary", "replica", "unknown", ""}
NodeInfo == [role : Roles, lag : Nat, lastSeen : Nat]

DirectiveTypes == {"FENCE", "PROMOTE", "DEMOTE", "CHECKPOINT"}
Statuses == {"pending", "completed", "failed"}
Errors == {"", "exec", "timeout"}
Directive == [type : DirectiveTypes, target : NodeNames, status : Statuses,
              completedAt : Nat, error : Errors]

NewDirective(type, target) ==
    [type |-> type, target |-> target, status |-> "pending",
     completedAt |-> 0, error |-> ""]

FSMTypeOK(s) ==
    /\ s = [nodes |-> s.nodes, primaryName |-> s.primaryName,
            splitBrain |-> s.splitBrain, params |-> s.params,
            version |-> s.version, directives |-> s.directives]
    /\ IsMap(s.nodes, NodeNames, NodeInfo)
    /\ s.primaryName \in NodeNames \cup {""}
    /\ s.splitBrain \in BOOLEAN
    /\ IsMap(s.params, ParamNames, ParamValues)
    /\ s.version \in Nat
    /\ IsMap(s.directives, DirectiveIDs, Directive)

NewClusterFSM ==
    [nodes |-> EmptyMap, primaryName |-> "", splitBrain |-> FALSE,
     params |-> EmptyMap, version |-> 0, directives |-> EmptyMap]

-----------------------------------------------------------------------------
(* One operator per command type of Apply.                                 *)

SetPrimary(s, name, info) ==
    [s EXCEPT !.nodes = Put(s.nodes, name, [info EXCEPT !.role = "primary"]),
              !.primaryName = name]

SetReplica(s, name, info) ==
    [s EXCEPT !.nodes = Put(s.nodes, name, [info EXCEPT !.role = "replica"])]

AddNode(s, name, info) == [s EXCEPT !.nodes = Put(s.nodes, name, info)]

\* Faulty variant of RemoveNode: the removed node stays the primary.
RemoveNodeOnly(s, name) == [s EXCEPT !.nodes = Without(s.nodes, {name})]

RemoveNode(s, name) ==
    [s EXCEPT !.nodes = Without(s.nodes, {name}),
              !.primaryName = IF @ = name THEN "" ELSE @]

\* Role is not touched; an unknown node is ignored.
UpdateNodeHealth(s, name, lag, lastSeen) ==
    IF name \in DOMAIN s.nodes
    THEN [s EXCEPT !.nodes = Put(s.nodes, name,
              [s.nodes[name] EXCEPT !.lag = lag, !.lastSeen = lastSeen])]
    ELSE s

SetClusterConfig(s, splitBrain) == [s EXCEPT !.splitBrain = splitBrain]

PublishDirective(s, id, d) ==
    [s EXCEPT !.directives = Put(s.directives, id, d)]

\* now is the clock of the replica that applies the command.  An unknown id
\* is ignored; a resolved directive is resolved again, and a success leaves
\* the Error of an earlier failure in place.
CompleteDirective(s, id, err, now) ==
    IF id \in DOMAIN s.directives
    THEN [s EXCEPT !.directives = Put(s.directives, id,
              IF err # ""
              THEN [s.directives[id] EXCEPT !.status = "failed",
                                            !.completedAt = now, !.error = err]
              ELSE [s.directives[id] EXCEPT !.status = "completed",
                                            !.completedAt = now])]
    ELSE s

\* Faulty variant of StaleDirectiveIDs: only the age counts.
StaleByAge(s, maxAge, now) ==
    {id \in DOMAIN s.directives : s.directives[id].completedAt < now - maxAge}

\* Resolved directives whose CompletedAt lies before now - maxAge; also what
\* GetStaleDirectiveIDs lists.
StaleDirectiveIDs(s, maxAge, now) ==
    {id \in DOMAIN s.directives :
        /\ s.directives[id].status # "pending"
        /\ s.directives[id].completedAt # 0
        /\ s.directives[id].completedAt < now - maxAge}

CleanupDirectives(s, maxAge, now) ==
    LET age == IF maxAge = 0 THEN DirectiveMaxAge ELSE maxAge
    IN  [s EXCEPT !.directives = Without(s.directives,
                                         StaleDirectiveIDs(s, age, now))]

\* A full replace takes the version it is given.
SetPostgreSQLConfig(s, params, version) ==
    [s EXCEPT !.params = params, !.version = version]

\* A patch merges; an empty value deletes its parameter.
PatchPostgreSQLConfig(s, patch) ==
    LET deleted == {k \in DOMAIN patch : patch[k] = ""}
        kept == (DOMAIN s.params \cup DOMAIN patch) \ deleted
    IN  [s EXCEPT !.params = [k \in kept |-> IF k \in DOMAIN patch
                                             THEN patch[k] ELSE s.params[k]],
                  !.version = s.version + 1]

-----------------------------------------------------------------------------
(* Reads of the local replica.                                             *)

\* The name of the primary, "" standing for a nil result.
GetPrimary(s) == IF s.primaryName \in DOMAIN s.nodes THEN s.primaryName ELSE ""

GetReplicas(s) == {n \in DOMAIN s.nodes : s.nodes[n].role = "replica"}

\* Faulty variant of GetDirectivesForNode: the target is not looked at.
GetPendingDirectives(s, n) ==
    {id \in DOMAIN s.directives : s.directives[id].status = "pending"}

GetDirectivesForNode(s, n) ==
    {id \in DOMAIN s.directives : /\ s.directives[id].target = n
                                  /\ s.directives[id].status = "pending"}
=============================================================================
