----------------------------- MODULE RecentChecks -----------------------------
(***************************************************************************)
(* What HealthHistory promises to its readers: the latest Capacity checks, *)
(* oldest first.  A check is added at the end; when there are Capacity of  *)
(* them, the oldest one goes.                                              *)
(***************************************************************************)
EXTENDS Naturals, Sequences

CONSTANTS Capacity, Checks
VARIABLE recent

Record(c) == recent' = Append(IF Len(recent) < Capacity THEN recent ELSE Tail(recent), c)

Init == recent = <<>>
Next == \E c \in Checks : Record(c)
Spec == Init /\ [][Next]_recent
=============================================================================
