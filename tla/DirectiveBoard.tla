--------------------------- MODULE DirectiveBoard ---------------------------
(***************************************************************************)
(* What the cluster promises about its directives, without managers,       *)
(* controllers, leaders or clocks.  Operations pin directives to a board,  *)
(* in a fixed order and each at most once; a directive may be resolved, and *)
(* resolved again; a server enters and leaves recovery only on a node that *)
(* has been told so.  FailoverCluster implements it.                       *)
(***************************************************************************)
CONSTANTS Nodes,        \* the nodes of the cluster
          Stamps,       \* the time stamps that tell operations apart
          FirstPrimary, \* the node whose server is out of recovery at first
          Fencing       \* is the old primary taken out before a promotion

VARIABLES board,     \* from <<operation, type>> to [target, status]
          succeeded, \* the directives that were ever resolved with success
          primaries  \* the nodes whose servers are out of recovery

vars == <<board, succeeded, primaries>>

Told(n, type) == \E x \in DOMAIN board : x[2] = type /\ board[x].target = n

\* Operation k pins a directive.  A PROMOTE comes after the FENCE or the
\* DEMOTE of its operation, a DEMOTE after a success of its CHECKPOINT.
Pin(k, type, target) ==
    LET x == <<k, type>>
    IN  /\ x \notin DOMAIN board
        /\ type = "PROMOTE" /\ Fencing =>
              <<k, "FENCE">> \in DOMAIN board \/ <<k, "DEMOTE">> \in DOMAIN board
        /\ type = "DEMOTE" => <<k, "CHECKPOINT">> \in succeeded
        /\ board' = [y \in DOMAIN board \cup {x} |->
                        IF y = x THEN [target |-> target, status |-> "pending"]
                        ELSE board[y]]
        /\ UNCHANGED <<succeeded, primaries>>

\* A directive gets its result, which may be replaced by a later one.
Resolve(x, status) ==
    /\ x \in DOMAIN board
    /\ board' = [board EXCEPT ![x].status = status]
    /\ succeeded' = IF status = "completed" THEN succeeded \cup {x} ELSE succeeded
    /\ UNCHANGED primaries

Promote(n) ==
    /\ Told(n, "PROMOTE")
    /\ primaries' = primaries \cup {n}
    /\ UNCHANGED <<board, succeeded>>

Demote(n) ==
    /\ Told(n, "DEMOTE")
    /\ primaries' = primaries \ {n}
    /\ UNCHANGED <<board, succeeded>>

Init ==
    /\ board = [x \in {} |-> 0]
    /\ succeeded = {}
    /\ primaries = {FirstPrimary}

\* Whatever else managers, controllers and servers do.
Elsewhere == UNCHANGED vars

Next ==
    \/ Elsewhere
    \/ \E k \in Stamps, type \in {"FENCE", "PROMOTE", "DEMOTE", "CHECKPOINT"}, n \in Nodes :
          Pin(k, type, n)
    \/ \E x \in DOMAIN board, status \in {"completed", "failed"} : Resolve(x, status)
    \/ \E n \in Nodes : Promote(n) \/ Demote(n)

Spec == Init /\ [][Next]_vars
=============================================================================
