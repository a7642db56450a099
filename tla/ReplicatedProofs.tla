-------------------------- MODULE ReplicatedProofs --------------------------
(***************************************************************************)
(* Proofs about ReplicatedFSM: replicas that applied the same entries      *)
(* agree, and each of them knows the primary it names.                     *)
(*                                                                         *)
(* The agreement of two replicas is not inductive.  The invariant compares *)
(* every replica and every snapshot with the state the log stands for at   *)
(* its index: a replica has the same cluster, a part of the directives     *)
(* with the same resolution, and all of the pending ones.                  *)
(***************************************************************************)
EXTENDS ReplicatedFSM, TLAPS

-----------------------------------------------------------------------------
(* The commands of ClusterFSM keep a state well typed.                     *)

\* An assignment to one key of a Go map keeps the map well typed.
LEMMA PutIsMap ==
    ASSUME NEW f, NEW K, NEW V, NEW k \in K, NEW v \in V, IsMap(f, K, V)
    PROVE  /\ IsMap(Put(f, k, v), K, V)
           /\ DOMAIN Put(f, k, v) = DOMAIN f \cup {k}
           /\ Put(f, k, v)[k] = v
           /\ \A x \in DOMAIN f : x # k => Put(f, k, v)[x] = f[x]
BY Zenon DEF IsMap, Put

\* SET_PRIMARY keeps the FSM well typed (fsm.go:133).
LEMMA SetPrimaryType ==
    ASSUME NEW s, FSMTypeOK(s), NEW n \in NodeNames, NEW i \in NodeInfo
    PROVE  /\ FSMTypeOK(SetPrimary(s, n, i))
           /\ SetPrimary(s, n, i).directives = s.directives
<1> DEFINE j == [i EXCEPT !.role = "primary"]
<1>1. j \in NodeInfo
  BY Zenon DEF NodeInfo, Roles
<1>2. IsMap(Put(s.nodes, n, j), NodeNames, NodeInfo)
  BY <1>1, PutIsMap DEF FSMTypeOK
<1>3. SetPrimary(s, n, i) = [s EXCEPT !.nodes = Put(s.nodes, n, j), !.primaryName = n]
  BY Zenon DEF SetPrimary
<1> HIDE DEF j
<1> QED
  BY <1>2, <1>3 DEF FSMTypeOK

\* UPDATE_NODE_HEALTH keeps the FSM well typed (fsm.go:173).
LEMMA UpdateNodeHealthType ==
    ASSUME NEW s, FSMTypeOK(s), NEW n \in NodeNames, NEW lag \in Nat, NEW seen \in Nat
    PROVE  /\ FSMTypeOK(UpdateNodeHealth(s, n, lag, seen))
           /\ UpdateNodeHealth(s, n, lag, seen).directives = s.directives
<1>1. CASE n \in DOMAIN s.nodes
  <2> DEFINE j == [s.nodes[n] EXCEPT !.lag = lag, !.lastSeen = seen]
  <2>1. j \in NodeInfo
    BY <1>1 DEF FSMTypeOK, IsMap, NodeInfo
  <2>2. IsMap(Put(s.nodes, n, j), NodeNames, NodeInfo)
    BY <2>1, PutIsMap DEF FSMTypeOK
  <2>3. UpdateNodeHealth(s, n, lag, seen) = [s EXCEPT !.nodes = Put(s.nodes, n, j)]
    BY <1>1, Zenon DEF UpdateNodeHealth
  <2> HIDE DEF j
  <2> QED
    BY <2>2, <2>3 DEF FSMTypeOK
<1>2. CASE n \notin DOMAIN s.nodes
  BY <1>2, Zenon DEF UpdateNodeHealth
<1> QED
  BY <1>1, <1>2, Zenon

\* PUBLISH_DIRECTIVE keeps the FSM well typed, adds the directive and leaves
\* the others alone (fsm.go:193).
LEMMA PublishDirectiveType ==
    ASSUME NEW s, FSMTypeOK(s), NEW id \in DirectiveIDs, NEW d \in Directive
    PROVE  /\ FSMTypeOK(PublishDirective(s, id, d))
           /\ DOMAIN PublishDirective(s, id, d).directives = DOMAIN s.directives \cup {id}
           /\ PublishDirective(s, id, d).directives[id] = d
           /\ \A x \in DOMAIN s.directives : x # id =>
                 PublishDirective(s, id, d).directives[x] = s.directives[x]
<1> DEFINE p == Put(s.directives, id, d)
<1>0. IsMap(s.directives, DirectiveIDs, Directive)
  BY DEF FSMTypeOK
<1>1. /\ IsMap(p, DirectiveIDs, Directive)
      /\ DOMAIN p = DOMAIN s.directives \cup {id}
      /\ p[id] = d
      /\ \A x \in DOMAIN s.directives : x # id => p[x] = s.directives[x]
  BY <1>0, Zenon DEF IsMap, Put
<1>2. PublishDirective(s, id, d) = [s EXCEPT !.directives = p]
  BY Zenon DEF PublishDirective
<1> HIDE DEF p
<1> QED
  BY <1>1, <1>2 DEF FSMTypeOK

\* COMPLETE_DIRECTIVE keeps the FSM well typed and neither adds nor removes a
\* directive (fsm.go:204).
LEMMA CompleteDirectiveType ==
    ASSUME NEW s, FSMTypeOK(s), NEW id, NEW err \in Errors, NEW at \in Nat
    PROVE  /\ FSMTypeOK(CompleteDirective(s, id, err, at))
           /\ DOMAIN CompleteDirective(s, id, err, at).directives = DOMAIN s.directives
<1>1. CASE id \in DOMAIN s.directives
  <2> DEFINE j == IF err # ""
                  THEN [s.directives[id] EXCEPT !.status = "failed",
                                                !.completedAt = at, !.error = err]
                  ELSE [s.directives[id] EXCEPT !.status = "completed",
                                                !.completedAt = at]
             p == Put(s.directives, id, j)
  <2>1. /\ id \in DirectiveIDs
        /\ s.directives[id] \in Directive
        /\ IsMap(s.directives, DirectiveIDs, Directive)
    BY <1>1 DEF FSMTypeOK, IsMap
  <2>2. j \in Directive
    BY <2>1, Zenon DEF Directive, Statuses, Errors
  <2> HIDE DEF j
  <2>3. /\ IsMap(p, DirectiveIDs, Directive)
        /\ DOMAIN p = DOMAIN s.directives
    BY <1>1, <2>1, <2>2, Zenon DEF IsMap, Put
  <2>4. CompleteDirective(s, id, err, at) = [s EXCEPT !.directives = p]
    BY <1>1, Zenon DEF CompleteDirective, j
  <2> HIDE DEF p
  <2> QED
    BY <2>3, <2>4 DEF FSMTypeOK
<1>2. CASE id \notin DOMAIN s.directives
  BY <1>2, Zenon DEF CompleteDirective
<1> QED
  BY <1>1, <1>2, Zenon

\* COMPLETE_DIRECTIVE changes neither a directive it does not name nor the type
\* and the target of the one it names (fsm.go:204).
LEMMA CompleteDirectiveKeeps ==
    ASSUME NEW s, FSMTypeOK(s), NEW id, NEW err \in Errors, NEW at \in Nat,
           NEW x \in DOMAIN s.directives
    PROVE  /\ CompleteDirective(s, id, err, at).directives[x].type = s.directives[x].type
           /\ CompleteDirective(s, id, err, at).directives[x].target = s.directives[x].target
           /\ x # id => CompleteDirective(s, id, err, at).directives[x] = s.directives[x]
<1> DEFINE d == CompleteDirective(s, id, err, at).directives[x]
<1>1. CASE id \in DOMAIN s.directives
  <2> DEFINE j == IF err # ""
                  THEN [s.directives[id] EXCEPT !.status = "failed",
                                                !.completedAt = at, !.error = err]
                  ELSE [s.directives[id] EXCEPT !.status = "completed",
                                                !.completedAt = at]
             p == Put(s.directives, id, j)
  <2>1. s.directives[id] \in Directive
    BY <1>1 DEF FSMTypeOK, IsMap
  <2>2. /\ j.type = s.directives[id].type
        /\ j.target = s.directives[id].target
    BY <2>1, Zenon DEF Directive
  <2> HIDE DEF j
  <2>3. p[x] = IF x = id THEN j ELSE s.directives[x]
    BY Zenon DEF Put
  <2>4. CompleteDirective(s, id, err, at) = [s EXCEPT !.directives = p]
    BY <1>1, Zenon DEF CompleteDirective, j
  <2> HIDE DEF p
  <2>5. d = p[x]
    BY <2>4 DEF FSMTypeOK
  <2> QED
    BY <2>2, <2>3, <2>5, Zenon
<1>2. CASE id \notin DOMAIN s.directives
  BY <1>2, Zenon DEF CompleteDirective
<1> QED
  BY <1>1, <1>2, Zenon

\* A Go map delete keeps the map well typed.
LEMMA WithoutIsMap ==
    ASSUME NEW f, NEW K, NEW V, NEW S, IsMap(f, K, V)
    PROVE  /\ IsMap(Without(f, S), K, V)
           /\ DOMAIN Without(f, S) = DOMAIN f \ S
           /\ \A x \in DOMAIN f \ S : Without(f, S)[x] = f[x]
BY Zenon DEF IsMap, Without

\* SET_REPLICA, ADD_NODE and REMOVE_NODE keep the FSM well typed (fsm.go:143).
LEMMA NodeCommandTypes ==
    ASSUME NEW s, FSMTypeOK(s), NEW n \in NodeNames, NEW i \in NodeInfo
    PROVE  /\ FSMTypeOK(SetReplica(s, n, i))
           /\ FSMTypeOK(AddNode(s, n, i))
           /\ FSMTypeOK(RemoveNode(s, n))
<1> DEFINE j == [i EXCEPT !.role = "replica"]
           p == Put(s.nodes, n, j)
           q == Put(s.nodes, n, i)
           r == Without(s.nodes, {n})
           name == IF s.primaryName = n THEN "" ELSE s.primaryName
<1>0. IsMap(s.nodes, NodeNames, NodeInfo)
  BY DEF FSMTypeOK
<1>1. j \in NodeInfo
  BY Zenon DEF NodeInfo, Roles
<1>2. /\ IsMap(p, NodeNames, NodeInfo)
      /\ IsMap(q, NodeNames, NodeInfo)
      /\ IsMap(r, NodeNames, NodeInfo)
  BY <1>0, <1>1, PutIsMap, WithoutIsMap, Zenon
<1>3. name \in NodeNames \cup {""}
  BY DEF FSMTypeOK
<1>4. /\ SetReplica(s, n, i) = [s EXCEPT !.nodes = p]
      /\ AddNode(s, n, i) = [s EXCEPT !.nodes = q]
      /\ RemoveNode(s, n) = [s EXCEPT !.nodes = r, !.primaryName = name]
  BY DEF SetReplica, AddNode, RemoveNode, FSMTypeOK
<1> HIDE DEF p, q, r, name
<1>5. FSMTypeOK(SetReplica(s, n, i))
  BY <1>2, <1>4 DEF FSMTypeOK
<1>6. FSMTypeOK(AddNode(s, n, i))
  BY <1>2, <1>4 DEF FSMTypeOK
<1>7. FSMTypeOK(RemoveNode(s, n))
  BY <1>2, <1>3, <1>4 DEF FSMTypeOK
<1> QED
  BY <1>5, <1>6, <1>7, Zenon

\* SET_CLUSTER_CONFIG and the configuration commands keep the FSM well typed; a
\* patch stores no empty value (fsm.go:185, fsm.go:243, fsm.go:252).
LEMMA ConfigCommandTypes ==
    ASSUME NEW s, FSMTypeOK(s)
    PROVE  /\ \A b \in BOOLEAN : FSMTypeOK(SetClusterConfig(s, b))
           /\ \A f, v : IsMap(f, ParamNames, ParamValues) /\ v \in Nat =>
                 FSMTypeOK(SetPostgreSQLConfig(s, f, v))
           /\ \A f : IsMap(f, ParamNames, ParamValues \cup {""}) =>
                 FSMTypeOK(PatchPostgreSQLConfig(s, f))
<1>1. ASSUME NEW b \in BOOLEAN PROVE FSMTypeOK(SetClusterConfig(s, b))
  <2>1. SetClusterConfig(s, b) = [s EXCEPT !.splitBrain = b]
    BY Zenon DEF SetClusterConfig
  <2> QED
    BY <2>1 DEF FSMTypeOK
<1>2. ASSUME NEW f, NEW v \in Nat, IsMap(f, ParamNames, ParamValues)
      PROVE  FSMTypeOK(SetPostgreSQLConfig(s, f, v))
  <2>1. SetPostgreSQLConfig(s, f, v) = [s EXCEPT !.params = f, !.version = v]
    BY Zenon DEF SetPostgreSQLConfig
  <2> QED
    BY <1>2, <2>1 DEF FSMTypeOK
<1>3. ASSUME NEW f, IsMap(f, ParamNames, ParamValues \cup {""})
      PROVE  FSMTypeOK(PatchPostgreSQLConfig(s, f))
  <2> DEFINE deleted == {k \in DOMAIN f : f[k] = ""}
             kept == (DOMAIN s.params \cup DOMAIN f) \ deleted
             p == [k \in kept |-> IF k \in DOMAIN f THEN f[k] ELSE s.params[k]]
             v == s.version + 1
  <2>1. IsMap(p, ParamNames, ParamValues)
    BY <1>3 DEF FSMTypeOK, IsMap
  <2>2. v \in Nat
    <3>1. s.version \in Nat
      BY DEF FSMTypeOK
    <3> QED
      BY <3>1
  <2>3. PatchPostgreSQLConfig(s, f) = [s EXCEPT !.params = p, !.version = v]
    BY Zenon DEF PatchPostgreSQLConfig
  <2> HIDE DEF p, v
  <2> QED
    BY <2>1, <2>2, <2>3 DEF FSMTypeOK
<1> QED
  BY <1>1, <1>2, <1>3, Zenon

\* CLEANUP_DIRECTIVES keeps the FSM well typed and removes resolved directives
\* only; the others stay as they are (fsm.go:223).
LEMMA CleanupDirectivesType ==
    ASSUME NEW s, FSMTypeOK(s), NEW age, NEW at
    PROVE  /\ FSMTypeOK(CleanupDirectives(s, age, at))
           /\ DOMAIN CleanupDirectives(s, age, at).directives \subseteq DOMAIN s.directives
           /\ \A x \in DOMAIN CleanupDirectives(s, age, at).directives :
                 CleanupDirectives(s, age, at).directives[x] = s.directives[x]
           /\ \A x \in DOMAIN s.directives : s.directives[x].status = "pending" =>
                 x \in DOMAIN CleanupDirectives(s, age, at).directives
<1>1. PICK a : CleanupDirectives(s, age, at) =
               [s EXCEPT !.directives = Without(s.directives, StaleDirectiveIDs(s, a, at))]
  BY Zenon DEF CleanupDirectives
<1> DEFINE S == StaleDirectiveIDs(s, a, at)
           w == Without(s.directives, S)
<1>2. \A x \in S : s.directives[x].status # "pending"
  BY Zenon DEF StaleDirectiveIDs
<1> HIDE DEF S
<1>3. /\ IsMap(w, DirectiveIDs, Directive)
      /\ DOMAIN w = DOMAIN s.directives \ S
      /\ \A x \in DOMAIN w : w[x] = s.directives[x]
  <2>1. IsMap(s.directives, DirectiveIDs, Directive)
    BY DEF FSMTypeOK
  <2> QED
    BY <2>1, Zenon DEF IsMap, Without
<1>4. CleanupDirectives(s, age, at) = [s EXCEPT !.directives = w]
  BY <1>1, Zenon DEF S
<1> HIDE DEF w
<1>5. FSMTypeOK(CleanupDirectives(s, age, at)) /\ CleanupDirectives(s, age, at).directives = w
  BY <1>3, <1>4 DEF FSMTypeOK
<1> QED
  BY <1>2, <1>3, <1>5, Zenon

-----------------------------------------------------------------------------
(* The state a log stands for.                                             *)

Stands(s, a) ==
    /\ SameCluster(s, a)
    /\ DOMAIN s.directives \subseteq DOMAIN a.directives
    /\ \A x \in DOMAIN s.directives : SameDirective(s.directives[x], a.directives[x])
    /\ \A x \in DOMAIN a.directives :
          a.directives[x].status = "pending" => x \in DOMAIN s.directives

\* The state a log stands for after one more command.
Meaning(a, c) == IF c.type = "CLEANUP_DIRECTIVES" THEN a ELSE Apply(a, c, 1)

\* Every command keeps a state well typed (ClusterFSM.Apply, fsm.go:123).
LEMMA ApplyType ==
    ASSUME NEW s, FSMTypeOK(s), NEW c, IsCommand(c), NEW t \in Nat
    PROVE  FSMTypeOK(Apply(s, c, t))
<1>1. CASE c \in [type : {"SET_PRIMARY", "SET_REPLICA", "ADD_NODE", "UPDATE_NODE_HEALTH"},
                  node : NodeNames, info : NodeInfo]
  <2>1. c.node \in NodeNames /\ c.info \in NodeInfo
    BY <1>1, Zenon
  <2>2. c.info.lag \in Nat /\ c.info.lastSeen \in Nat
    BY <2>1, Zenon DEF NodeInfo
  <2> QED
    BY <1>1, <2>1, <2>2, SetPrimaryType, NodeCommandTypes, UpdateNodeHealthType, Zenon DEF Apply
<1>2. CASE c \in [type : {"REMOVE_NODE"}, node : NodeNames]
  <2>1. [role |-> "", lag |-> 0, lastSeen |-> 0] \in NodeInfo
    BY Zenon DEF NodeInfo, Roles
  <2> QED
    BY <1>2, <2>1, NodeCommandTypes, Zenon DEF Apply
<1>3. CASE c \in [type : {"SET_CLUSTER_CONFIG"}, splitBrain : BOOLEAN]
  BY <1>3, ConfigCommandTypes, Zenon DEF Apply
<1>4. CASE c \in [type : {"PUBLISH_DIRECTIVE"}, id : DirectiveIDs,
                  kind : DirectiveTypes, target : NodeNames]
  <2>1. NewDirective(c.kind, c.target) \in Directive
    BY <1>4, Zenon DEF NewDirective, Directive, Statuses, Errors
  <2> QED
    BY <1>4, <2>1, PublishDirectiveType, Zenon DEF Apply
<1>5. CASE c \in [type : {"COMPLETE_DIRECTIVE"}, id : DirectiveIDs, err : Errors]
  BY <1>5, CompleteDirectiveType, Zenon DEF Apply
<1>6. CASE c \in [type : {"CLEANUP_DIRECTIVES"}, maxAge : Nat]
  BY <1>6, CleanupDirectivesType, Zenon DEF Apply
<1>7. CASE /\ c.type = "SET_POSTGRESQL_CONFIG"
           /\ IsMap(c.params, ParamNames, ParamValues)
           /\ c.version \in Nat
  BY <1>7, ConfigCommandTypes, Zenon DEF Apply
<1>8. CASE /\ c.type = "PATCH_POSTGRESQL_CONFIG"
           /\ IsMap(c.patch, ParamNames, ParamValues \cup {""})
  BY <1>8, ConfigCommandTypes, Zenon DEF Apply
<1> QED
  BY <1>1, <1>2, <1>3, <1>4, <1>5, <1>6, <1>7, <1>8, Zenon DEF IsCommand

\* Commands about nodes and configuration do the same to two states with the
\* same cluster, and leave directives alone (fsm.go:133).
LEMMA ClusterCommands ==
    ASSUME NEW s, NEW a, FSMTypeOK(s), FSMTypeOK(a), SameCluster(s, a), NEW c, NEW t,
           IsCommand(c), NEW u,
           c.type \notin {"PUBLISH_DIRECTIVE", "COMPLETE_DIRECTIVE", "CLEANUP_DIRECTIVES"}
    PROVE  /\ SameCluster(Apply(s, c, t), Apply(a, c, u))
           /\ Apply(s, c, t).directives = s.directives
<1>0. /\ s = [nodes |-> s.nodes, primaryName |-> s.primaryName,
              splitBrain |-> s.splitBrain, params |-> s.params,
              version |-> s.version, directives |-> s.directives]
      /\ a = [nodes |-> s.nodes, primaryName |-> s.primaryName,
              splitBrain |-> s.splitBrain, params |-> s.params,
              version |-> s.version, directives |-> a.directives]
  BY DEF FSMTypeOK, SameCluster
<1>1. CASE c.type = "SET_PRIMARY"
  BY <1>0, <1>1, Zenon DEF Apply, SetPrimary, SameCluster
<1>2. CASE c.type = "SET_REPLICA"
  BY <1>0, <1>2, Zenon DEF Apply, SetReplica, SameCluster
<1>3. CASE c.type = "ADD_NODE"
  BY <1>0, <1>3, Zenon DEF Apply, AddNode, SameCluster
<1>4. CASE c.type = "REMOVE_NODE"
  BY <1>0, <1>4, Zenon DEF Apply, RemoveNode, SameCluster
<1>5. CASE c.type = "UPDATE_NODE_HEALTH"
  BY <1>0, <1>5, Zenon DEF Apply, UpdateNodeHealth, SameCluster
<1>6. CASE c.type = "SET_CLUSTER_CONFIG"
  BY <1>0, <1>6, Zenon DEF Apply, SetClusterConfig, SameCluster
<1>7. CASE c.type = "SET_POSTGRESQL_CONFIG"
  BY <1>0, <1>7, Zenon DEF Apply, SetPostgreSQLConfig, SameCluster
<1>8. CASE c.type = "PATCH_POSTGRESQL_CONFIG"
  BY <1>0, <1>8, Zenon DEF Apply, PatchPostgreSQLConfig, SameCluster
<1> QED
  BY <1>1, <1>2, <1>3, <1>4, <1>5, <1>6, <1>7, <1>8, Zenon DEF IsCommand

\* Commands about directives leave the cluster alone (fsm.go:193).
LEMMA DirectiveCommands ==
    ASSUME NEW s, FSMTypeOK(s), NEW c, NEW t,
           c.type \in {"PUBLISH_DIRECTIVE", "COMPLETE_DIRECTIVE", "CLEANUP_DIRECTIVES"}
    PROVE  SameCluster(Apply(s, c, t), s)
<1>1. CASE c.type = "PUBLISH_DIRECTIVE"
  BY <1>1 DEF Apply, PublishDirective, SameCluster, FSMTypeOK
<1>2. CASE c.type = "COMPLETE_DIRECTIVE"
  BY <1>2 DEF Apply, CompleteDirective, SameCluster, FSMTypeOK
<1>3. CASE c.type = "CLEANUP_DIRECTIVES"
  BY <1>3 DEF Apply, CleanupDirectives, SameCluster, FSMTypeOK
<1> QED
  BY <1>1, <1>2, <1>3, Zenon

\* What COMPLETE_DIRECTIVE makes of a directive it names depends on no clock
\* but in the completion time (fsm.go:212).
LEMMA CompleteSame ==
    ASSUME NEW s, NEW a, FSMTypeOK(s), FSMTypeOK(a), NEW id, NEW err \in Errors,
           NEW t \in Nat, NEW u \in Nat, NEW x,
           x \in DOMAIN s.directives, x \in DOMAIN a.directives,
           SameDirective(s.directives[x], a.directives[x])
    PROVE  /\ SameDirective(CompleteDirective(s, id, err, t).directives[x],
                            CompleteDirective(a, id, err, u).directives[x])
           /\ x = id => CompleteDirective(a, id, err, u).directives[x].status # "pending"
<1> DEFINE J(z, v) == IF err # ""
                      THEN [z.directives[id] EXCEPT !.status = "failed",
                                                    !.completedAt = v, !.error = err]
                      ELSE [z.directives[id] EXCEPT !.status = "completed",
                                                    !.completedAt = v]
<1>1. CASE x # id
  BY <1>1, CompleteDirectiveKeeps
<1>2. CASE x = id
  <2>1. s.directives[id] \in Directive /\ a.directives[id] \in Directive
    BY <1>2 DEF FSMTypeOK, IsMap
  <2>2. SameDirective(J(s, t), J(a, u)) /\ J(a, u).status # "pending"
    BY <1>2, <2>1, Zenon DEF SameDirective, Directive
  <2>3. ASSUME NEW z, NEW v \in Nat, FSMTypeOK(z), id \in DOMAIN z.directives
        PROVE  CompleteDirective(z, id, err, v).directives[id] = J(z, v)
    <3> DEFINE p == Put(z.directives, id, J(z, v))
    <3>1. CompleteDirective(z, id, err, v) = [z EXCEPT !.directives = p]
      BY <2>3, Zenon DEF CompleteDirective
    <3>2. p[id] = J(z, v)
      BY Zenon DEF Put
    <3> HIDE DEF p
    <3>3. CompleteDirective(z, id, err, v).directives = p
      BY <2>3, <3>1 DEF FSMTypeOK
    <3> QED
      BY <3>2, <3>3, Zenon
  <2> HIDE DEF J
  <2> QED
    BY <1>2, <2>2, <2>3, Zenon
<1> QED
  BY <1>1, <1>2, Zenon

\* One more entry keeps a replica with what the log stands for, whatever its
\* clock says when it applies the entry (fsm.go:123).
LEMMA ApplyStands ==
    ASSUME NEW s, NEW a, FSMTypeOK(s), FSMTypeOK(a), Stands(s, a), NEW c, IsCommand(c),
           NEW t \in Nat
    PROVE  Stands(Apply(s, c, t), Meaning(a, c))
<1>0. SameCluster(s, a)
  BY Zenon DEF Stands
<1>1. CASE c.type \notin {"PUBLISH_DIRECTIVE", "COMPLETE_DIRECTIVE", "CLEANUP_DIRECTIVES"}
  <2>1. /\ SameCluster(Apply(s, c, t), Apply(a, c, 1))
        /\ Apply(s, c, t).directives = s.directives
    BY <1>0, <1>1, ClusterCommands, Zenon
  <2>2. Apply(a, c, 1).directives = a.directives
    <3>1. SameCluster(a, a)
      BY Zenon DEF SameCluster
    <3> QED
      BY <1>1, <3>1, ClusterCommands, Zenon
  <2>3. Meaning(a, c) = Apply(a, c, 1)
    BY <1>1, Zenon DEF Meaning
  <2> QED
    BY <2>1, <2>2, <2>3, Zenon DEF Stands
<1>2. CASE c.type = "PUBLISH_DIRECTIVE"
  <2>1. c.id \in DirectiveIDs /\ c.kind \in DirectiveTypes /\ c.target \in NodeNames
    BY <1>2, Zenon DEF IsCommand
  <2> DEFINE d == NewDirective(c.kind, c.target)
  <2>2. d \in Directive
    BY <2>1, Zenon DEF NewDirective, Directive, Statuses, Errors
  <2> HIDE DEF d
  <2>3. /\ Apply(s, c, t) = PublishDirective(s, c.id, d)
        /\ Apply(a, c, 1) = PublishDirective(a, c.id, d)
        /\ Meaning(a, c) = Apply(a, c, 1)
    BY <1>2, Zenon DEF Apply, Meaning, d
  <2>4. ASSUME NEW z, FSMTypeOK(z)
        PROVE  /\ DOMAIN PublishDirective(z, c.id, d).directives = DOMAIN z.directives \cup {c.id}
               /\ PublishDirective(z, c.id, d).directives[c.id] = d
               /\ \A x \in DOMAIN z.directives : x # c.id =>
                    PublishDirective(z, c.id, d).directives[x] = z.directives[x]
    BY <2>1, <2>2, <2>4, PublishDirectiveType
  <2>5. SameCluster(Apply(s, c, t), Apply(a, c, 1))
    <3>1. SameCluster(Apply(s, c, t), s) /\ SameCluster(Apply(a, c, 1), a)
      BY <1>2, DirectiveCommands
    <3> QED
      BY <1>0, <3>1, Zenon DEF SameCluster
  <2>6. SameDirective(d, d)
    BY Zenon DEF SameDirective
  <2> QED
    BY <2>3, <2>4, <2>5, <2>6 DEF Stands
<1>3. CASE c.type = "COMPLETE_DIRECTIVE"
  <2>1. c.err \in Errors
    BY <1>3, Zenon DEF IsCommand
  <2> DEFINE sc == CompleteDirective(s, c.id, c.err, t)
             ac == CompleteDirective(a, c.id, c.err, 1)
  <2>2. /\ Apply(s, c, t) = sc
        /\ Apply(a, c, 1) = ac
        /\ Meaning(a, c) = ac
    BY <1>3, Zenon DEF Apply, Meaning
  <2>3. DOMAIN sc.directives = DOMAIN s.directives /\ DOMAIN ac.directives = DOMAIN a.directives
    BY <2>1, CompleteDirectiveType
  <2>4. SameCluster(sc, ac)
    <3>1. SameCluster(Apply(s, c, t), s) /\ SameCluster(Apply(a, c, 1), a)
      BY <1>3, DirectiveCommands
    <3> QED
      BY <1>0, <2>2, <3>1, Zenon DEF SameCluster
  <2>5. \A x \in DOMAIN s.directives : SameDirective(sc.directives[x], ac.directives[x])
    <3> SUFFICES ASSUME NEW x \in DOMAIN s.directives
                 PROVE  SameDirective(sc.directives[x], ac.directives[x])
      BY Zenon
    <3>1. x \in DOMAIN a.directives /\ SameDirective(s.directives[x], a.directives[x])
      BY Zenon DEF Stands
    <3> QED
      BY <2>1, <3>1, CompleteSame, Zenon
  <2>6. ASSUME NEW x \in DOMAIN a.directives, ac.directives[x].status = "pending"
        PROVE  x \in DOMAIN s.directives
    <3>1. SameDirective(a.directives[x], a.directives[x])
      BY Zenon DEF SameDirective
    <3>2. x # c.id
      BY <2>1, <2>6, <3>1, CompleteSame, Zenon
    <3>3. ac.directives[x] = a.directives[x]
      BY <2>1, <3>2, CompleteDirectiveKeeps
    <3> QED
      BY <2>6, <3>3, Zenon DEF Stands
  <2> HIDE DEF sc, ac
  <2> QED
    BY <2>2, <2>3, <2>4, <2>5, <2>6, Zenon DEF Stands
<1>4. CASE c.type = "CLEANUP_DIRECTIVES"
  <2> DEFINE sc == CleanupDirectives(s, c.maxAge, t)
  <2>1. Apply(s, c, t) = sc /\ Meaning(a, c) = a
    BY <1>4, Zenon DEF Apply, Meaning
  <2>2. /\ DOMAIN sc.directives \subseteq DOMAIN s.directives
        /\ \A x \in DOMAIN sc.directives : sc.directives[x] = s.directives[x]
        /\ \A x \in DOMAIN s.directives : s.directives[x].status = "pending" =>
              x \in DOMAIN sc.directives
    BY CleanupDirectivesType
  <2>3. SameCluster(sc, a)
    <3>1. SameCluster(Apply(s, c, t), s)
      BY <1>4, DirectiveCommands
    <3> QED
      BY <1>0, <2>1, <3>1, Zenon DEF SameCluster
  <2> HIDE DEF sc
  <2> QED
    BY <2>1, <2>2, <2>3 DEF Stands, SameDirective
<1> QED
  BY <1>1, <1>2, <1>3, <1>4, Zenon

-----------------------------------------------------------------------------
\* Restore gives back the state Snapshot encoded, also when the empty directive
\* map was left out (fsm.go:283, fsm.go:305).
LEMMA RestoreSnapshot ==
    ASSUME NEW s, FSMTypeOK(s)
    PROVE  Restore(Snapshot(s)) = s /\ Snapshot(s).state = s
<1>0. Snapshot(s).state = s /\ (Snapshot(s).omitted <=> DOMAIN s.directives = {})
  BY Zenon DEF Snapshot
<1>1. CASE DOMAIN s.directives = {}
  <2>1. s.directives = EmptyMap
    BY <1>1 DEF FSMTypeOK, IsMap, EmptyMap
  <2>2. [s EXCEPT !.directives = EmptyMap] = s
    BY <2>1 DEF FSMTypeOK
  <2> QED
    BY <1>0, <1>1, <2>2, Zenon DEF Restore
<1>2. CASE DOMAIN s.directives # {}
  BY <1>0, <1>2, Zenon DEF Restore
<1> QED
  BY <1>0, <1>1, <1>2, Zenon

\* The empty FSM is well typed (fsm.go:113).
LEMMA NewType == FSMTypeOK(NewClusterFSM) /\ DOMAIN NewClusterFSM.directives = {}
<1>1. \A K, V : IsMap(EmptyMap, K, V)
  BY Zenon DEF IsMap, EmptyMap
<1>2. DOMAIN EmptyMap = {}
  BY Zenon DEF EmptyMap
<1> QED
  BY <1>1, <1>2 DEF FSMTypeOK, NewClusterFSM

\* What Commit adds to the history.
LEMMA CommitMeaning ==
    ASSUME NEW c, Commit(c)
    PROVE  agreed' = Put(agreed, Len(log) + 1, Meaning(agreed[Len(log)], c))
BY Zenon DEF Commit, Meaning

\* Every step keeps every replica, snapshot and agreed state well typed.
LEMMA NextTypeOK == TypeOK /\ [Next]_vars => TypeOK'
<1> SUFFICES ASSUME TypeOK, [Next]_vars PROVE TypeOK'
  BY Zenon
<1> USE DEF TypeOK
<1>0. Len(log) \in Nat /\ 1 \in Nat /\ now \in Nat
  OBVIOUS
<1>1. ASSUME NEW c \in Commands, Commit(c) PROVE TypeOK'
  <2> DEFINE i == Len(log)
             a == Meaning(agreed[i], c)
  <2>1. log' \in Seq(Commands) /\ Len(log') = i + 1 /\ i \in Nat
    BY <1>1 DEF Commit
  <2>2. IsCommand(c) /\ FSMTypeOK(agreed[i])
    BY CommandsAssumption, <1>0
  <2>3. FSMTypeOK(a)
    BY <1>0, <2>2, ApplyType, Zenon DEF Meaning
  <2>4. agreed' = Put(agreed, i + 1, a)
    BY <1>1, CommitMeaning, Zenon
  <2> HIDE DEF a
  <2>5. DOMAIN agreed' = 0 .. Len(log') /\ \A j \in 0 .. Len(log') : FSMTypeOK(agreed'[j])
    BY <2>1, <2>3, <2>4 DEF Put
  <2>6. applied' \in [NodeNames -> 0 .. Len(log')]
    BY <1>1, <2>1 DEF Commit
  <2>7. \A n \in NodeNames : snapshot'[n].index \in 0 .. Len(log')
    BY <1>1, <2>1 DEF Commit
  <2> HIDE DEF i
  <2> QED
    BY <1>1, <2>1, <2>5, <2>6, <2>7, Zenon DEF Commit
<1>2. ASSUME NEW n \in NodeNames, ApplyNext(n) PROVE TypeOK'
  <2> DEFINE c == log[applied[n] + 1]
             s == Apply(fsm[n], c, now)
  <2>1. c \in Commands /\ applied[n] + 1 \in 0 .. Len(log)
    BY <1>2 DEF ApplyNext
  <2>2. FSMTypeOK(s)
    BY <1>0, <2>1, CommandsAssumption, ApplyType, Zenon
  <2>3. fsm' = [fsm EXCEPT ![n] = s] /\ applied' = [applied EXCEPT ![n] = applied[n] + 1]
    BY <1>2, Zenon DEF ApplyNext
  <2> HIDE DEF c, s
  <2>4. applied' \in [NodeNames -> 0 .. Len(log)]
    BY <2>1, <2>3, Zenon
  <2>5. fsm' = [m \in NodeNames |-> fsm'[m]] /\ \A m \in NodeNames : FSMTypeOK(fsm'[m])
    BY <2>2, <2>3, Zenon
  <2> QED
    BY <1>2, <2>4, <2>5, Zenon DEF ApplyNext
<1>3. ASSUME NEW n \in NodeNames, TakeSnapshot(n) PROVE TypeOK'
  <2> DEFINE r == [index |-> applied[n], data |-> Snapshot(fsm[n])]
  <2>1. /\ r.index \in 0 .. Len(log)
        /\ FSMTypeOK(r.data.state)
        /\ r.data = Snapshot(r.data.state)
        /\ r = [index |-> r.index, data |-> r.data]
    BY RestoreSnapshot, Zenon
  <2>2. snapshot' = [snapshot EXCEPT ![n] = r]
    BY <1>3, Zenon DEF TakeSnapshot
  <2> HIDE DEF r
  <2>3. /\ snapshot' = [m \in NodeNames |->
                          [index |-> snapshot'[m].index, data |-> snapshot'[m].data]]
        /\ \A m \in NodeNames : /\ snapshot'[m].index \in 0 .. Len(log)
                                /\ FSMTypeOK(snapshot'[m].data.state)
                                /\ snapshot'[m].data = Snapshot(snapshot'[m].data.state)
    BY <2>1, <2>2, Zenon
  <2> QED
    BY <1>3, <2>3, Zenon DEF TakeSnapshot
<1>4. ASSUME NEW m \in NodeNames, NEW n \in NodeNames,
             fsm' = [fsm EXCEPT ![n] = Restore(snapshot[m].data)],
             applied' = [applied EXCEPT ![n] = snapshot[m].index],
             snapshot' = snapshot \/ snapshot' = [snapshot EXCEPT ![n] = snapshot[m]],
             UNCHANGED <<log, now, agreed>>
      PROVE  TypeOK'
  <2> DEFINE s == Restore(snapshot[m].data)
  <2>1. FSMTypeOK(s)
    BY RestoreSnapshot
  <2> HIDE DEF s
  <2>2. fsm' = [k \in NodeNames |-> fsm'[k]] /\ \A k \in NodeNames : FSMTypeOK(fsm'[k])
    BY <1>4, <2>1, Zenon DEF s
  <2>3. applied' \in [NodeNames -> 0 .. Len(log)]
    BY <1>4, Zenon
  <2>4. /\ snapshot' = [k \in NodeNames |->
                          [index |-> snapshot'[k].index, data |-> snapshot'[k].data]]
        /\ \A k \in NodeNames : /\ snapshot'[k].index \in 0 .. Len(log)
                                /\ FSMTypeOK(snapshot'[k].data.state)
                                /\ snapshot'[k].data = Snapshot(snapshot'[k].data.state)
    <3>1. CASE snapshot' = snapshot
      BY <3>1, Zenon
    <3>2. CASE snapshot' = [snapshot EXCEPT ![n] = snapshot[m]]
      <4>1. PICK r : r = snapshot[m]
        BY Zenon
      <4>2. /\ r.index \in 0 .. Len(log)
            /\ FSMTypeOK(r.data.state)
            /\ r.data = Snapshot(r.data.state)
            /\ r = [index |-> r.index, data |-> r.data]
        BY <4>1, Zenon
      <4>3. snapshot' = [snapshot EXCEPT ![n] = r]
        BY <3>2, <4>1, Zenon
      <4> QED
        BY <4>2, <4>3, Zenon
    <3> QED
      BY <1>4, <3>1, <3>2, Zenon
  <2> QED
    BY <1>4, <2>2, <2>3, <2>4, Zenon
<1>5. CASE Tick
  BY <1>5 DEF Tick
<1>6. CASE UNCHANGED vars
  BY <1>6, Zenon DEF vars
<1> QED
  BY <1>1, <1>2, <1>3, <1>4, <1>5, <1>6, Zenon DEF Next, Restart, InstallSnapshot

\* In the beginning everything is well typed.
LEMMA InitTypeOK == Init => TypeOK
<1> SUFFICES ASSUME Init PROVE TypeOK
  BY Zenon
<1>1. /\ FSMTypeOK(NewClusterFSM)
      /\ Snapshot(NewClusterFSM).state = NewClusterFSM
  BY NewType, RestoreSnapshot, Zenon
<1> DEFINE r == [index |-> 0, data |-> Snapshot(NewClusterFSM)]
<1>2. /\ r = [index |-> r.index, data |-> r.data]
      /\ r.index = 0
      /\ r.data.state = NewClusterFSM /\ r.data = Snapshot(NewClusterFSM)
  BY <1>1, Zenon
<1>3. snapshot = [n \in NodeNames |-> r]
  BY Zenon DEF Init
<1> HIDE DEF r
<1>4. Len(log) = 0 /\ log \in Seq(Commands) /\ 0 .. 0 = {0}
  BY DEF Init
<1>5. /\ snapshot = [n \in NodeNames |->
                        [index |-> snapshot[n].index, data |-> snapshot[n].data]]
      /\ \A n \in NodeNames : /\ snapshot[n].index \in 0 .. Len(log)
                              /\ FSMTypeOK(snapshot[n].data.state)
                              /\ snapshot[n].data = Snapshot(snapshot[n].data.state)
  BY <1>1, <1>2, <1>3, <1>4, Zenon
<1> QED
  BY <1>1, <1>4, <1>5 DEF Init, TypeOK

\* Every replica, snapshot and agreed state is well typed (fsm.go:123).
THEOREM ReplicatedTypes == Spec => []TypeOK
BY InitTypeOK, NextTypeOK, PTL DEF Spec

-----------------------------------------------------------------------------
\* agreed is what the log means, entry by entry.
HistoryInv ==
    \A i \in 0 .. Len(log) - 1 : agreed[i + 1] = Meaning(agreed[i], log[i + 1])

\* Replicas and snapshots stand for the entries they cover.
LogInv ==
    \A n \in NodeNames :
        /\ Stands(fsm[n], agreed[applied[n]])
        /\ Stands(snapshot[n].data.state, agreed[snapshot[n].index])

\* Every step keeps the history in line with the log.
LEMMA NextHistory == TypeOK /\ HistoryInv /\ [Next]_vars => HistoryInv'
<1> SUFFICES ASSUME TypeOK, HistoryInv, [Next]_vars PROVE HistoryInv'
  BY Zenon
<1>1. CASE UNCHANGED <<log, agreed>>
  BY <1>1, Zenon DEF HistoryInv
<1>2. ASSUME NEW c \in Commands, Commit(c) PROVE HistoryInv'
  <2> DEFINE k == Len(log)
             a == Meaning(agreed[k], c)
  <2>1. /\ k \in Nat /\ Len(log') = k + 1 /\ log'[k + 1] = c
        /\ \A i \in 1 .. k : log'[i] = log[i]
    BY <1>2 DEF Commit, TypeOK
  <2>2. agreed' = Put(agreed, k + 1, a) /\ DOMAIN agreed = 0 .. k
    BY <1>2, CommitMeaning, Zenon DEF TypeOK
  <2> HIDE DEF a
  <2>3. agreed'[k + 1] = a /\ \A i \in 0 .. k : agreed'[i] = agreed[i]
    BY <2>1, <2>2 DEF Put
  <2> SUFFICES ASSUME NEW i \in 0 .. k PROVE agreed'[i + 1] = Meaning(agreed'[i], log'[i + 1])
    BY <2>1 DEF HistoryInv
  <2>4. CASE i = k
    BY <2>1, <2>3, <2>4, Zenon DEF a
  <2>5. CASE i # k
    <3>1. i \in 0 .. k - 1 /\ i + 1 \in 1 .. k /\ i + 1 \in 0 .. k
      BY <2>1, <2>5
    <3>2. agreed[i + 1] = Meaning(agreed[i], log[i + 1])
      BY <3>1, Zenon DEF HistoryInv
    <3>3. agreed'[i + 1] = agreed[i + 1] /\ agreed'[i] = agreed[i] /\ log'[i + 1] = log[i + 1]
      BY <2>1, <2>3, <3>1, Zenon
    <3> QED
      BY <3>2, <3>3, Zenon
  <2> QED
    BY <2>4, <2>5, Zenon
<1> QED
  BY <1>1, <1>2, Zenon DEF Next, ApplyNext, TakeSnapshot, Restart, InstallSnapshot, Tick, vars

\* Every step keeps replicas and snapshots with what their entries stand for.
LEMMA NextLog == TypeOK /\ HistoryInv /\ LogInv /\ [Next]_vars => LogInv'
<1> SUFFICES ASSUME TypeOK, HistoryInv, LogInv, [Next]_vars PROVE LogInv'
  BY Zenon
<1>0. /\ \A n \in NodeNames : /\ FSMTypeOK(fsm[n]) /\ applied[n] \in 0 .. Len(log)
                              /\ snapshot[n].index \in 0 .. Len(log)
                              /\ FSMTypeOK(snapshot[n].data.state)
                              /\ snapshot[n].data = Snapshot(snapshot[n].data.state)
      /\ DOMAIN agreed = 0 .. Len(log) /\ Len(log) \in Nat
      /\ DOMAIN fsm = NodeNames /\ DOMAIN applied = NodeNames /\ DOMAIN snapshot = NodeNames
  BY DEF TypeOK
<1>1. ASSUME NEW c \in Commands, Commit(c) PROVE LogInv'
  <2>1. \A i \in 0 .. Len(log) : agreed'[i] = agreed[i]
    BY <1>0, <1>1 DEF Commit, Put
  <2>2. fsm' = fsm /\ applied' = applied /\ snapshot' = snapshot
    BY <1>1, Zenon DEF Commit
  <2> QED
    BY <1>0, <2>1, <2>2, Zenon DEF LogInv
<1>2. ASSUME NEW n \in NodeNames, ApplyNext(n) PROVE LogInv'
  <2> DEFINE i == applied[n]
             c == log[i + 1]
             s == Apply(fsm[n], c, now)
  <2>1. /\ IsCommand(c) /\ now \in Nat /\ i \in 0 .. Len(log) - 1
        /\ FSMTypeOK(agreed[i])
    BY <1>2, CommandsAssumption DEF ApplyNext, TypeOK
  <2>2. Stands(s, Meaning(agreed[i], c))
    BY <1>0, <2>1, ApplyStands, Zenon DEF LogInv
  <2>3. agreed[i + 1] = Meaning(agreed[i], c)
    BY <2>1, Zenon DEF HistoryInv
  <2>4. /\ fsm' = [fsm EXCEPT ![n] = s]
        /\ applied' = [applied EXCEPT ![n] = i + 1]
        /\ snapshot' = snapshot /\ agreed' = agreed
    BY <1>2, Zenon DEF ApplyNext
  <2> HIDE DEF i, c, s
  <2> QED
    BY <1>0, <2>2, <2>3, <2>4, Zenon DEF LogInv
<1>3. ASSUME NEW n \in NodeNames, TakeSnapshot(n) PROVE LogInv'
  <2> DEFINE r == [index |-> applied[n], data |-> Snapshot(fsm[n])]
  <2>1. r.index = applied[n] /\ r.data.state = fsm[n]
    BY <1>0, RestoreSnapshot, Zenon
  <2>2. /\ snapshot' = [snapshot EXCEPT ![n] = r]
        /\ fsm' = fsm /\ applied' = applied /\ agreed' = agreed
    BY <1>3, Zenon DEF TakeSnapshot
  <2> HIDE DEF r
  <2> QED
    BY <1>0, <2>1, <2>2, Zenon DEF LogInv
<1>4. ASSUME NEW m \in NodeNames, NEW n \in NodeNames,
             fsm' = [fsm EXCEPT ![n] = Restore(snapshot[m].data)],
             applied' = [applied EXCEPT ![n] = snapshot[m].index],
             snapshot' = snapshot \/ snapshot' = [snapshot EXCEPT ![n] = snapshot[m]],
             agreed' = agreed
      PROVE  LogInv'
  <2>1. Restore(snapshot[m].data) = snapshot[m].data.state
    BY <1>0, RestoreSnapshot, Zenon
  <2>2. \A k \in NodeNames : Stands(fsm'[k], agreed'[applied'[k]])
    BY <1>0, <1>4, <2>1, Zenon DEF LogInv
  <2>3. \A k \in NodeNames : snapshot'[k] = snapshot[k] \/ snapshot'[k] = snapshot[m]
    BY <1>0, <1>4, Zenon
  <2> QED
    BY <1>4, <2>2, <2>3, Zenon DEF LogInv
<1>5. CASE UNCHANGED <<fsm, applied, snapshot, agreed>>
  BY <1>5, Zenon DEF LogInv
<1> QED
  BY <1>1, <1>2, <1>3, <1>4, <1>5, Zenon DEF Next, Restart, InstallSnapshot, Tick, vars

\* Two states that stand for the same agree.
LEMMA StandsAgree ==
    ASSUME NEW s, NEW t, NEW a, Stands(s, a), Stands(t, a)
    PROVE  /\ SameCluster(s, t)
           /\ \A k \in NodeNames : GetDirectivesForNode(s, k) = GetDirectivesForNode(t, k)
           /\ \A x \in DOMAIN s.directives \cap DOMAIN t.directives :
                 SameDirective(s.directives[x], t.directives[x])
<1>1. SameCluster(s, t)
  BY Zenon DEF Stands, SameCluster
<1>2. ASSUME NEW x, NEW k \in NodeNames, NEW y, NEW z, Stands(y, a), Stands(z, a),
             x \in GetDirectivesForNode(y, k)
      PROVE  x \in GetDirectivesForNode(z, k)
  <2>1. /\ x \in DOMAIN y.directives
        /\ y.directives[x].target = k /\ y.directives[x].status = "pending"
    BY <1>2, Zenon DEF GetDirectivesForNode
  <2>2. x \in DOMAIN a.directives /\ SameDirective(y.directives[x], a.directives[x])
    BY <1>2, <2>1, Zenon DEF Stands
  <2>3. a.directives[x].target = k /\ a.directives[x].status = "pending"
    BY <2>1, <2>2, Zenon DEF SameDirective
  <2>4. x \in DOMAIN z.directives /\ SameDirective(z.directives[x], a.directives[x])
    BY <1>2, <2>2, <2>3, Zenon DEF Stands
  <2> QED
    BY <2>3, <2>4, Zenon DEF SameDirective, GetDirectivesForNode
<1>3. \A k \in NodeNames : GetDirectivesForNode(s, k) = GetDirectivesForNode(t, k)
  BY <1>2
<1> QED
  BY <1>1, <1>3, Zenon DEF Stands, SameDirective

\* Replicas that applied the same entries agree, whenever they applied them and
\* however often they restarted in between (fsm.go:123, fsm.go:295).
THEOREM ReplicasAlwaysAgree == Spec => []ReplicasAgree
<1>1. Init => HistoryInv /\ LogInv
  <2> SUFFICES ASSUME Init PROVE HistoryInv /\ LogInv
    BY Zenon
  <2>1. HistoryInv
    BY DEF Init, HistoryInv
  <2>2. Stands(NewClusterFSM, NewClusterFSM)
    BY NewType, Zenon DEF Stands, SameCluster
  <2>3. Snapshot(NewClusterFSM).state = NewClusterFSM
    BY NewType, RestoreSnapshot, Zenon
  <2>4. \A n \in NodeNames : /\ fsm[n] = NewClusterFSM /\ applied[n] = 0
                             /\ snapshot[n].data.state = NewClusterFSM
                             /\ snapshot[n].index = 0
    BY <2>3, Zenon DEF Init
  <2>5. agreed[0] = NewClusterFSM
    BY Zenon DEF Init
  <2> QED
    BY <2>1, <2>2, <2>4, <2>5, Zenon DEF LogInv
<1>2. LogInv => ReplicasAgree
  <2> SUFFICES ASSUME LogInv, NEW m \in NodeNames, NEW n \in NodeNames,
                      applied[m] = applied[n]
               PROVE  /\ SameCluster(fsm[m], fsm[n])
                      /\ \A k \in NodeNames :
                            GetDirectivesForNode(fsm[m], k) = GetDirectivesForNode(fsm[n], k)
                      /\ \A id \in DOMAIN fsm[m].directives \cap DOMAIN fsm[n].directives :
                            SameDirective(fsm[m].directives[id], fsm[n].directives[id])
    BY Zenon DEF ReplicasAgree
  <2>1. Stands(fsm[m], agreed[applied[m]]) /\ Stands(fsm[n], agreed[applied[m]])
    BY Zenon DEF LogInv
  <2> QED
    BY <2>1, StandsAgree, Zenon
<1> QED
  BY <1>1, <1>2, NextHistory, NextLog, ReplicatedTypes, PTL DEF Spec

-----------------------------------------------------------------------------
\* The primary a state names is one of its nodes.
Known(s) == s.primaryName = "" \/ s.primaryName \in DOMAIN s.nodes

RegisteredInv ==
    \A n \in NodeNames : Known(fsm[n]) /\ Known(snapshot[n].data.state)

\* No command makes a state name a primary it does not know (fsm.go:123): the
\* one that removes a node clears the name, no other shrinks the nodes.
LEMMA ApplyKnown ==
    ASSUME NEW s, FSMTypeOK(s), Known(s), NEW c, IsCommand(c), NEW t
    PROVE  Known(Apply(s, c, t))
<1>0. s = [nodes |-> s.nodes, primaryName |-> s.primaryName,
           splitBrain |-> s.splitBrain, params |-> s.params,
           version |-> s.version, directives |-> s.directives]
  BY DEF FSMTypeOK
<1>1. CASE c.type = "SET_PRIMARY"
  BY <1>0, <1>1, Zenon DEF Apply, SetPrimary, Known, Put
<1>2. CASE c.type = "SET_REPLICA"
  BY <1>0, <1>2, Zenon DEF Apply, SetReplica, Known, Put
<1>3. CASE c.type = "ADD_NODE"
  BY <1>0, <1>3, Zenon DEF Apply, AddNode, Known, Put
<1>4. CASE c.type = "REMOVE_NODE"
  BY <1>0, <1>4, Zenon DEF Apply, RemoveNode, Known, Without
<1>5. CASE c.type = "UPDATE_NODE_HEALTH"
  BY <1>0, <1>5, Zenon DEF Apply, UpdateNodeHealth, Known, Put
<1>6. CASE c.type = "SET_CLUSTER_CONFIG"
  BY <1>0, <1>6, Zenon DEF Apply, SetClusterConfig, Known
<1>7. CASE c.type = "SET_POSTGRESQL_CONFIG"
  BY <1>0, <1>7, Zenon DEF Apply, SetPostgreSQLConfig, Known
<1>8. CASE c.type = "PATCH_POSTGRESQL_CONFIG"
  BY <1>0, <1>8, Zenon DEF Apply, PatchPostgreSQLConfig, Known
<1>9. CASE c.type \in {"PUBLISH_DIRECTIVE", "COMPLETE_DIRECTIVE", "CLEANUP_DIRECTIVES"}
  <2>1. SameCluster(Apply(s, c, t), s)
    BY <1>9, DirectiveCommands
  <2> QED
    BY <2>1, Zenon DEF SameCluster, Known
<1> QED
  BY <1>1, <1>2, <1>3, <1>4, <1>5, <1>6, <1>7, <1>8, <1>9, Zenon DEF IsCommand

\* Every step keeps replicas and snapshots from naming an unknown primary.
LEMMA NextRegistered == TypeOK /\ RegisteredInv /\ [Next]_vars => RegisteredInv'
<1> SUFFICES ASSUME TypeOK, RegisteredInv, [Next]_vars PROVE RegisteredInv'
  BY Zenon
<1>0. /\ \A n \in NodeNames : /\ FSMTypeOK(fsm[n])
                              /\ FSMTypeOK(snapshot[n].data.state)
                              /\ snapshot[n].data = Snapshot(snapshot[n].data.state)
      /\ DOMAIN fsm = NodeNames /\ DOMAIN snapshot = NodeNames
  BY Zenon DEF TypeOK
<1>1. ASSUME NEW n \in NodeNames, ApplyNext(n) PROVE RegisteredInv'
  <2> DEFINE c == log[applied[n] + 1]
             s == Apply(fsm[n], c, now)
  <2>1. IsCommand(c)
    BY <1>1, CommandsAssumption DEF ApplyNext, TypeOK
  <2>2. Known(s)
    BY <1>0, <2>1, ApplyKnown, Zenon DEF RegisteredInv
  <2>3. fsm' = [fsm EXCEPT ![n] = s] /\ snapshot' = snapshot
    BY <1>1, Zenon DEF ApplyNext
  <2> HIDE DEF s
  <2> QED
    BY <1>0, <2>2, <2>3, Zenon DEF RegisteredInv
<1>2. ASSUME NEW n \in NodeNames, TakeSnapshot(n) PROVE RegisteredInv'
  <2> DEFINE r == [index |-> applied[n], data |-> Snapshot(fsm[n])]
  <2>1. r.data.state = fsm[n]
    BY <1>0, RestoreSnapshot, Zenon
  <2>2. snapshot' = [snapshot EXCEPT ![n] = r] /\ fsm' = fsm
    BY <1>2, Zenon DEF TakeSnapshot
  <2> HIDE DEF r
  <2> QED
    BY <1>0, <2>1, <2>2, Zenon DEF RegisteredInv
<1>3. ASSUME NEW m \in NodeNames, NEW n \in NodeNames,
             fsm' = [fsm EXCEPT ![n] = Restore(snapshot[m].data)],
             snapshot' = snapshot \/ snapshot' = [snapshot EXCEPT ![n] = snapshot[m]]
      PROVE  RegisteredInv'
  <2>1. Restore(snapshot[m].data) = snapshot[m].data.state
    BY <1>0, RestoreSnapshot, Zenon
  <2>2. \A k \in NodeNames : /\ fsm'[k] = fsm[k] \/ fsm'[k] = snapshot[m].data.state
                             /\ snapshot'[k] = snapshot[k] \/ snapshot'[k] = snapshot[m]
    BY <1>0, <1>3, <2>1, Zenon
  <2> QED
    BY <2>2, Zenon DEF RegisteredInv
<1>4. CASE UNCHANGED <<fsm, snapshot>>
  BY <1>4, Zenon DEF RegisteredInv
<1> QED
  BY <1>1, <1>2, <1>3, <1>4, Zenon DEF Next, Commit, Restart, InstallSnapshot, Tick, vars

\* Whatever is added, replaced and removed, and whatever is restored, a replica
\* knows the primary it names (fsm.go:160, fsm.go:315).
THEOREM PrimaryAlwaysRegistered == Spec => []PrimaryRegistered
<1>1. Init => RegisteredInv
  <2> SUFFICES ASSUME Init PROVE RegisteredInv
    BY Zenon
  <2>1. Known(NewClusterFSM)
    BY Zenon DEF Known, NewClusterFSM
  <2>2. Snapshot(NewClusterFSM).state = NewClusterFSM
    BY NewType, RestoreSnapshot, Zenon
  <2> QED
    BY <2>1, <2>2, Zenon DEF Init, RegisteredInv
<1>2. RegisteredInv => PrimaryRegistered
  BY Zenon DEF RegisteredInv, PrimaryRegistered, Known, GetPrimary
<1> QED
  BY <1>1, <1>2, NextRegistered, ReplicatedTypes, PTL DEF Spec
=============================================================================
