----------------------------- MODULE MCFailover -----------------------------
(***************************************************************************)
(* Instances of FailoverCluster for TLC.  A directive is identified by the *)
(* operation that published it and its type; failover.go:205 builds the    *)
(* identifier from the type, the target and the operation's time stamp.    *)
(***************************************************************************)
EXTENDS FailoverCluster

MCDirectiveIDs == (1 .. MaxOps) \X DirectiveTypes
=============================================================================
