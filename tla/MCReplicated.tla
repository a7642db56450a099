---------------------------- MODULE MCReplicated ----------------------------
(***************************************************************************)
(* Instances of ReplicatedFSM: the commands that touch nodes and           *)
(* configuration, and those that touch directives.                         *)
(***************************************************************************)
EXTENDS ReplicatedFSM, TLC

MCInfo == [role |-> "unknown", lag |-> 1, lastSeen |-> 1]

MCClusterCommands ==
    [type : {"SET_PRIMARY", "SET_REPLICA", "ADD_NODE", "UPDATE_NODE_HEALTH"},
     node : NodeNames, info : {MCInfo}]
    \cup [type : {"REMOVE_NODE"}, node : NodeNames]
    \cup [type : {"SET_CLUSTER_CONFIG"}, splitBrain : {TRUE}]
    \cup [type : {"SET_POSTGRESQL_CONFIG"}, params : {EmptyMap}, version : {5}]
    \cup [type : {"PATCH_POSTGRESQL_CONFIG"}, patch : [ParamNames -> ParamValues \cup {""}]]

MCDirectiveCommands ==
    [type : {"PUBLISH_DIRECTIVE"}, id : DirectiveIDs, kind : {"PROMOTE"}, target : NodeNames]
    \cup [type : {"COMPLETE_DIRECTIVE"}, id : DirectiveIDs, err : {"", "exec"}]
    \cup [type : {"CLEANUP_DIRECTIVES"}, maxAge : {0}]

MCCommands == MCClusterCommands \cup MCDirectiveCommands

Symmetric == Permutations(NodeNames)
=============================================================================
