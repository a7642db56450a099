------------------------------- MODULE MCPool -------------------------------
(* Small pools for TLC: clients are interchangeable, and so are connections. *)
EXTENDS BackendPool, TLC

Symmetric == Permutations(Clients) \cup Permutations(Conns)
=============================================================================
