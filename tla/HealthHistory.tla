---------------------------- MODULE HealthHistory ----------------------------
(***************************************************************************)
(* The ring buffer that keeps the latest health checks (HealthHistory in   *)
(* health.go).  Every method holds the mutex from start to end, so each    *)
(* operator is one atomic step of its caller.                              *)
(***************************************************************************)
EXTENDS Integers, Sequences, FiniteSets

CONSTANTS Capacity,  \* slots of the ring (DefaultHistorySize)
          ZeroEntry  \* what an unused slot holds

ASSUME CapacityAssumption == Capacity \in Nat \ {0}

Slots == 0 .. Capacity - 1
Rings(E) == [entries : [Slots -> E], head : Slots, size : 0 .. Capacity]

NewHealthHistory == [entries |-> [i \in Slots |-> ZeroEntry], head |-> 0, size |-> 0]

\* Faulty variant of Add: a full ring stays where it is.
AddInPlace(h, entry) ==
    [entries |-> [h.entries EXCEPT ![h.head] = entry],
     head |-> IF h.size < Capacity THEN (h.head + 1) % Capacity ELSE h.head,
     size |-> IF h.size < Capacity THEN h.size + 1 ELSE h.size]

Add(h, entry) ==
    [entries |-> [h.entries EXCEPT ![h.head] = entry],
     head |-> (h.head + 1) % Capacity,
     size |-> IF h.size < Capacity THEN h.size + 1 ELSE h.size]

\* Oldest first; a full ring has its oldest entry at head.
Start(h) == IF h.size = Capacity THEN h.head ELSE 0
GetAll(h) == [i \in 1 .. h.size |-> h.entries[(Start(h) + i - 1) % Capacity]]

\* Faulty variant of GetRecent: it starts at head, not before it.
GetRecentFromHead(h, n) ==
    [i \in 1 .. IF n > h.size THEN h.size ELSE n |->
        h.entries[(h.head + 1 - i + Capacity) % Capacity]]

\* Newest first, at most n.
GetRecent(h, n) ==
    [i \in 1 .. IF n > h.size THEN h.size ELSE n |->
        h.entries[(h.head - i + Capacity) % Capacity]]

\* Counts over the first size slots, whatever their order.
Stats(h) ==
    LET ok == Cardinality({i \in 0 .. h.size - 1 : h.entries[i].healthy})
    IN  [total |-> h.size, success |-> ok, failure |-> h.size - ok]
=============================================================================
