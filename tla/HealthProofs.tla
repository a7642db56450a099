---------------------------- MODULE HealthProofs ----------------------------
(***************************************************************************)
(* The ring buffer of the health checker is a list of the latest checks,   *)
(* whatever its capacity, and its readers agree.                           *)
(***************************************************************************)
EXTENDS HealthChecker, FiniteSetTheorems, SequenceTheorems, TLAPS

-----------------------------------------------------------------------------
(* The ring.                                                               *)

\* Until it is full, the ring is filled from slot 0 on.
Filled(h) == h.size < Capacity => h.head = h.size

Ring(h) == h \in Rings(HealthStatus) /\ Filled(h)

\* Slots come round once.
LEMMA Wrap ==
    /\ \A a \in Slots : a % Capacity = a
    /\ \A a \in Capacity .. 2 * Capacity - 1 : a % Capacity = a - Capacity
BY CapacityAssumption DEF Slots

\* The fields of a ring, and where its head goes (health.go:146).
LEMMA RingFields ==
    ASSUME NEW h, Ring(h), NEW e \in HealthStatus
    PROVE  /\ h.entries \in [Slots -> HealthStatus] /\ h.head \in Slots
           /\ h.size \in 0 .. Capacity
           /\ h.size < Capacity => h.head = h.size
           /\ Add(h, e).entries = [h.entries EXCEPT ![h.head] = e]
           /\ Add(h, e).size = IF h.size < Capacity THEN h.size + 1 ELSE Capacity
           /\ Add(h, e).head = IF h.head = Capacity - 1 THEN 0 ELSE h.head + 1
<1>1. /\ h.entries \in [Slots -> HealthStatus] /\ h.head \in Slots
      /\ h.size \in 0 .. Capacity
      /\ h.size < Capacity => h.head = h.size
  BY Zenon DEF Ring, Rings, Filled
<1>2. (h.head + 1) % Capacity = IF h.head = Capacity - 1 THEN 0 ELSE h.head + 1
  <2>1. CASE h.head = Capacity - 1
    BY <1>1, <2>1, Wrap, CapacityAssumption DEF Slots
  <2>2. CASE h.head # Capacity - 1
    BY <1>1, <2>2, Wrap, CapacityAssumption DEF Slots
  <2> QED
    BY <2>1, <2>2, Zenon
<1> QED
  BY <1>1, <1>2, CapacityAssumption DEF Add

\* Adding a check keeps a ring a ring.
LEMMA AddKeepsRing ==
    ASSUME NEW h, Ring(h), NEW e \in HealthStatus
    PROVE  Ring(Add(h, e))
<1> DEFINE g == Add(h, e)
<1>1. /\ h.entries \in [Slots -> HealthStatus] /\ h.head \in Slots
      /\ h.size \in 0 .. Capacity
      /\ h.size < Capacity => h.head = h.size
      /\ g.entries = [h.entries EXCEPT ![h.head] = e]
      /\ g.size = IF h.size < Capacity THEN h.size + 1 ELSE Capacity
      /\ g.head = IF h.head = Capacity - 1 THEN 0 ELSE h.head + 1
  BY RingFields, Zenon
<1>2. g = [entries |-> g.entries, head |-> g.head, size |-> g.size]
  BY Zenon DEF Add
<1> HIDE DEF g
<1>3. g.entries \in [Slots -> HealthStatus]
  BY <1>1, Zenon
<1>4. g.head \in Slots /\ g.size \in 0 .. Capacity
  BY <1>1, CapacityAssumption DEF Slots
<1>5. g.size < Capacity => g.head = g.size
  BY <1>1, CapacityAssumption DEF Slots
<1>6. Ring(g)
  BY <1>2, <1>3, <1>4, <1>5, Zenon DEF Ring, Rings, Filled
<1> QED
  BY <1>6, Zenon DEF g

\* GetAll without remainders (health.go:151).
Slot(h, i) ==
    IF h.size < Capacity \/ h.head + i - 1 < Capacity
    THEN IF h.size < Capacity THEN i - 1 ELSE h.head + i - 1
    ELSE h.head + i - 1 - Capacity

LEMMA AllSlots ==
    ASSUME NEW h, Ring(h)
    PROVE  /\ GetAll(h) = [i \in 1 .. h.size |-> h.entries[Slot(h, i)]]
           /\ \A i \in 1 .. h.size : Slot(h, i) \in Slots
<1>1. /\ h.head \in Slots /\ h.size \in 0 .. Capacity
  BY Zenon DEF Ring, Rings
<1>2. ASSUME NEW i \in 1 .. h.size
      PROVE  (Start(h) + i - 1) % Capacity = Slot(h, i) /\ Slot(h, i) \in Slots
  <2>1. CASE h.size < Capacity
    BY <1>1, <1>2, <2>1, Wrap, CapacityAssumption DEF Start, Slot, Slots
  <2>2. CASE h.size = Capacity /\ h.head + i - 1 < Capacity
    BY <1>1, <1>2, <2>2, Wrap, CapacityAssumption DEF Start, Slot, Slots
  <2>3. CASE h.size = Capacity /\ h.head + i - 1 >= Capacity
    BY <1>1, <1>2, <2>3, Wrap, CapacityAssumption DEF Start, Slot, Slots
  <2> QED
    BY <1>1, <2>1, <2>2, <2>3, CapacityAssumption DEF Slots
<1> QED
  BY <1>2, Zenon DEF GetAll

\* Adding a check appends it, and drops the oldest one when the ring is full
\* (health.go:140, 151).
LEMMA AddAppends ==
    ASSUME NEW h, Ring(h), NEW e \in HealthStatus
    PROVE  GetAll(Add(h, e)) =
              Append(IF Len(GetAll(h)) < Capacity THEN GetAll(h) ELSE Tail(GetAll(h)), e)
<1> DEFINE g == Add(h, e)
<1>1. /\ h.entries \in [Slots -> HealthStatus] /\ h.head \in Slots
      /\ h.size \in 0 .. Capacity
      /\ h.size < Capacity => h.head = h.size
      /\ g.entries = [h.entries EXCEPT ![h.head] = e]
      /\ g.size = IF h.size < Capacity THEN h.size + 1 ELSE Capacity
      /\ g.head = IF h.head = Capacity - 1 THEN 0 ELSE h.head + 1
  BY RingFields, Zenon
<1>2. Ring(g)
  BY AddKeepsRing, Zenon
<1> HIDE DEF g
<1> DEFINE a == [i \in 1 .. h.size |-> h.entries[Slot(h, i)]]
           b == [i \in 1 .. g.size |-> g.entries[Slot(g, i)]]
<1>3. /\ GetAll(h) = a /\ GetAll(g) = b
      /\ \A i \in 1 .. h.size : Slot(h, i) \in Slots
      /\ \A i \in 1 .. g.size : Slot(g, i) \in Slots
  BY <1>2, AllSlots, Zenon
<1>4. /\ a \in Seq(HealthStatus) /\ Len(a) = h.size
      /\ b \in Seq(HealthStatus) /\ Len(b) = g.size
  <2>1. g.entries \in [Slots -> HealthStatus] /\ g.size \in 0 .. Capacity
    BY <1>2, Zenon DEF Ring, Rings
  <2>2. a \in Seq(HealthStatus) /\ Len(a) = h.size
    BY <1>1, <1>3
  <2>3. b \in Seq(HealthStatus) /\ Len(b) = g.size
    BY <1>3, <2>1
  <2> QED
    BY <2>2, <2>3, Zenon
<1>5. CASE h.size < Capacity
  <2>1. g.size = h.size + 1 /\ Slot(g, h.size + 1) = h.head
    BY <1>1, <1>5, CapacityAssumption DEF Slot, Slots
  <2>2. \A i \in 1 .. h.size : Slot(g, i) = Slot(h, i) /\ Slot(h, i) # h.head
    BY <1>1, <1>5, CapacityAssumption DEF Slot, Slots
  <2>3. \A i \in 1 .. g.size : b[i] = IF i = h.size + 1 THEN e ELSE a[i]
    BY <1>1, <1>3, <2>1, <2>2
  <2> HIDE DEF a, b
  <2>4. /\ Append(a, e) \in Seq(HealthStatus) /\ Len(Append(a, e)) = g.size
        /\ \A i \in 1 .. h.size : Append(a, e)[i] = a[i]
        /\ Append(a, e)[h.size + 1] = e
    BY <1>4, <2>1, AppendProperties
  <2>5. \A i \in 1 .. Len(b) : b[i] = Append(a, e)[i]
    BY <1>1, <1>4, <2>1, <2>3, <2>4
  <2>6. b = Append(a, e)
    BY <1>4, <2>4, <2>5, SeqEqual, Zenon
  <2> QED
    BY <1>3, <1>4, <1>5, <2>6, Zenon DEF g
<1>6. CASE h.size = Capacity
  <2>1. g.size = Capacity /\ Slot(g, Capacity) = h.head
    BY <1>1, <1>6, CapacityAssumption DEF Slot, Slots
  <2>2. \A i \in 1 .. Capacity - 1 : Slot(g, i) = Slot(h, i + 1) /\ Slot(g, i) # h.head
    BY <1>1, <1>6, CapacityAssumption DEF Slot, Slots
  <2>3. b[Capacity] = e
    BY <1>1, <2>1, CapacityAssumption
  <2>4. ASSUME NEW i \in 1 .. Capacity - 1 PROVE b[i] = a[i + 1]
    <3>1. Slot(g, i) = Slot(h, i + 1) /\ Slot(g, i) # h.head /\ Slot(g, i) \in Slots
      BY <1>3, <2>1, <2>2, CapacityAssumption
    <3>2. b[i] = g.entries[Slot(g, i)] /\ a[i + 1] = h.entries[Slot(h, i + 1)]
      BY <1>6, <2>1, CapacityAssumption
    <3> HIDE DEF a, b
    <3> QED
      BY <1>1, <3>1, <3>2, Zenon
  <2> HIDE DEF a, b
  <2>5. a # <<>>
    BY <1>4, <1>6, CapacityAssumption, Zenon
  <2>6. /\ Tail(a) \in Seq(HealthStatus) /\ Len(Tail(a)) = Capacity - 1
        /\ \A i \in 1 .. Capacity - 1 : Tail(a)[i] = a[i + 1]
    BY <1>4, <1>6, <2>5, HeadTailProperties
  <2> DEFINE c == Append(Tail(a), e)
  <2>7. /\ c \in Seq(HealthStatus) /\ Len(c) = Len(Tail(a)) + 1
        /\ \A i \in 1 .. Len(Tail(a)) : c[i] = Tail(a)[i]
        /\ c[Len(Tail(a)) + 1] = e
    BY <2>6, AppendProperties
  <2> HIDE DEF c
  <2>8. Len(c) = Capacity /\ \A i \in 1 .. Capacity : b[i] = c[i]
    BY <2>3, <2>4, <2>6, <2>7, CapacityAssumption
  <2>9. b = c
    BY <1>4, <2>1, <2>7, <2>8, SeqEqual, Zenon
  <2> QED
    BY <1>3, <1>4, <1>6, <2>9 DEF g, c
<1> QED
  BY <1>1, <1>5, <1>6, CapacityAssumption

\* GetRecent lists what GetAll lists, newest first (health.go:173).
LEMMA RecentIsReverse ==
    ASSUME NEW h, Ring(h), NEW n \in Nat
    PROVE  /\ GetRecent(h, n) \in [1 .. Smaller(n, h.size) -> HealthStatus]
           /\ \A i \in 1 .. Smaller(n, h.size) :
                /\ h.size - i + 1 \in 1 .. h.size
                /\ GetRecent(h, n)[i] = GetAll(h)[h.size - i + 1]
<1> DEFINE m == Smaller(n, h.size)
           Pos(i) == (h.head - i + Capacity) % Capacity
<1>1. /\ h.entries \in [Slots -> HealthStatus] /\ h.head \in Slots
      /\ h.size \in 0 .. Capacity
      /\ h.size < Capacity => h.head = h.size
  BY Zenon DEF Ring, Rings, Filled
<1>2. GetRecent(h, n) = [i \in 1 .. m |-> h.entries[Pos(i)]] /\ m \in 0 .. h.size
  <2>1. m = IF n > h.size THEN h.size ELSE n
    BY <1>1 DEF Smaller
  <2> QED
    BY <1>1, <2>1 DEF GetRecent
<1>3. ASSUME NEW i \in 1 .. h.size
      PROVE  /\ h.size - i + 1 \in 1 .. h.size
             /\ Pos(i) = Slot(h, h.size - i + 1) /\ Pos(i) \in Slots
  <2> DEFINE p == h.head - i + Capacity
             j == h.size - i + 1
  <2>1. j \in 1 .. h.size /\ p \in 0 .. 2 * Capacity - 1
    BY <1>1, <1>3, CapacityAssumption DEF Slots
  <2>2. Pos(i) = IF p < Capacity THEN p ELSE p - Capacity
    <3> HIDE DEF p
    <3>1. CASE p < Capacity
      BY <2>1, <3>1, Wrap, CapacityAssumption DEF Slots, p
    <3>2. CASE p >= Capacity
      BY <2>1, <3>2, Wrap, CapacityAssumption DEF Slots, p
    <3> QED
      BY <2>1, <3>1, <3>2, CapacityAssumption
  <2>3. Slot(h, j) = IF p < Capacity THEN p ELSE p - Capacity
    BY <1>1, CapacityAssumption DEF Slot, Slots
  <2>4. Slot(h, j) \in Slots
    BY <2>1, AllSlots, Zenon
  <2> QED
    BY <2>1, <2>2, <2>3, <2>4
<1>4. ASSUME NEW i \in 1 .. m
      PROVE  /\ h.entries[Pos(i)] \in HealthStatus
             /\ h.size - i + 1 \in 1 .. h.size
             /\ h.entries[Pos(i)] = GetAll(h)[h.size - i + 1]
  <2> HIDE DEF m, Pos
  <2>1. i \in 1 .. h.size
    BY <1>1, <1>2, <1>4
  <2> QED
    BY <1>1, <1>3, <2>1, AllSlots
<1> HIDE DEF m, Pos
<1>5. \A i \in 1 .. m : GetRecent(h, n)[i] = h.entries[Pos(i)]
  BY <1>2, Zenon
<1>6. GetRecent(h, n) \in [1 .. m -> HealthStatus]
  BY <1>2, <1>4, Zenon
<1> QED
  BY <1>4, <1>5, <1>6, Zenon DEF m

\* The slots of the checks in a ring: each of the first size slots holds one.
GoodSlots(h) == {s \in 0 .. h.size - 1 : h.entries[s].healthy}
GoodChecks(h) == {i \in 1 .. h.size : GetAll(h)[i].healthy}

LEMMA SlotsAreChecks ==
    ASSUME NEW h, Ring(h)
    PROVE  /\ IsFiniteSet(GoodSlots(h)) /\ IsFiniteSet(GoodChecks(h))
           /\ Cardinality(GoodSlots(h)) = Cardinality(GoodChecks(h))
<1>1. h.head \in Slots /\ h.size \in 0 .. Capacity
      /\ (h.size < Capacity => h.head = h.size)
  BY Zenon DEF Ring, Rings, Filled
<1>2. \A i \in 1 .. h.size : GetAll(h)[i] = h.entries[Slot(h, i)]
  BY AllSlots, Zenon
<1>3. \A i \in 1 .. h.size : Slot(h, i) \in 0 .. h.size - 1
  BY <1>1, CapacityAssumption DEF Slot, Slots
<1>4. \A i, j \in 1 .. h.size : Slot(h, i) = Slot(h, j) => i = j
  BY <1>1, CapacityAssumption DEF Slot, Slots
<1>5. ASSUME NEW s \in 0 .. h.size - 1 PROVE \E i \in 1 .. h.size : Slot(h, i) = s
  <2>1. CASE h.size < Capacity
    <3>1. s + 1 \in 1 .. h.size /\ Slot(h, s + 1) = s
      BY <1>1, <1>5, <2>1, CapacityAssumption DEF Slot, Slots
    <3> QED
      BY <3>1, Zenon
  <2>2. CASE h.size = Capacity /\ s >= h.head
    <3>1. s - h.head + 1 \in 1 .. h.size /\ Slot(h, s - h.head + 1) = s
      BY <1>1, <1>5, <2>2, CapacityAssumption DEF Slot, Slots
    <3> QED
      BY <3>1, Zenon
  <2>3. CASE h.size = Capacity /\ s < h.head
    <3>1. /\ s - h.head + 1 + Capacity \in 1 .. h.size
          /\ Slot(h, s - h.head + 1 + Capacity) = s
      BY <1>1, <1>5, <2>3, CapacityAssumption DEF Slot, Slots
    <3> QED
      BY <3>1, Zenon
  <2> QED
    BY <1>1, <1>5, <2>1, <2>2, <2>3, CapacityAssumption DEF Slots
<1> DEFINE f == [i \in GoodChecks(h) |-> Slot(h, i)]
<1>6. f \in Bijection(GoodChecks(h), GoodSlots(h))
  <2>1. f \in [GoodChecks(h) -> GoodSlots(h)]
    BY <1>2, <1>3, Zenon DEF GoodChecks, GoodSlots
  <2>2. \A i, j \in GoodChecks(h) : f[i] = f[j] => i = j
    BY <1>4, Zenon DEF GoodChecks
  <2>3. \A s \in GoodSlots(h) : \E i \in GoodChecks(h) : f[i] = s
    BY <1>2, <1>5, Zenon DEF GoodChecks, GoodSlots
  <2> HIDE DEF f
  <2> QED
    BY <2>1, <2>2, <2>3, Zenon DEF Bijection, Injection, Surjection, IsInjective
<1>7. IsFiniteSet(GoodChecks(h))
  <2>1. IsFiniteSet(1 .. h.size)
    BY <1>1, FS_Interval
  <2> QED
    BY <2>1, FS_Subset, Zenon DEF GoodChecks
<1>8. ExistsBijection(GoodChecks(h), GoodSlots(h))
  BY <1>6, Zenon DEF ExistsBijection
<1> QED
  BY <1>7, <1>8, FS_Bijection, Zenon

\* Positions of a list that embed into another, good to good and bad to bad,
\* leave it at least as many of each.
LEMMA Embed ==
    ASSUME NEW m \in Nat, NEW k \in Nat, NEW A \in SUBSET (1 .. m), NEW B \in SUBSET (1 .. k),
           NEW f \in [1 .. m -> 1 .. k],
           \A i, j \in 1 .. m : f[i] = f[j] => i = j,
           \A i \in 1 .. m : i \in A <=> f[i] \in B
    PROVE  /\ Cardinality(A) \in 0 .. m
           /\ Cardinality(A) <= Cardinality(B)
           /\ m - Cardinality(A) <= k - Cardinality(B)
<1> DEFINE C == (1 .. m) \ A
           D == (1 .. k) \ B
<1>1. /\ IsFiniteSet(1 .. m) /\ Cardinality(1 .. m) = m
      /\ IsFiniteSet(1 .. k) /\ Cardinality(1 .. k) = k
  BY FS_Interval
<1>2. /\ IsFiniteSet(A) /\ IsFiniteSet(B) /\ Cardinality(A) <= m
      /\ Cardinality(A) \in Nat /\ Cardinality(B) \in Nat
  <2>1. /\ IsFiniteSet(A) /\ Cardinality(A) <= Cardinality(1 .. m)
        /\ IsFiniteSet(B)
    BY <1>1, FS_Subset, Zenon
  <2>2. Cardinality(A) \in Nat /\ Cardinality(B) \in Nat
    BY <2>1, FS_CardinalityType, Zenon
  <2> QED
    BY <1>1, <2>1, <2>2, Zenon
<1>3. (1 .. m) \cap A = A /\ (1 .. k) \cap B = B
  BY Zenon
<1>4. /\ IsFiniteSet(C) /\ Cardinality(C) = m - Cardinality(A)
      /\ IsFiniteSet(D) /\ Cardinality(D) = k - Cardinality(B)
  <2>1. IsFiniteSet(C) /\ Cardinality(C) = Cardinality(1 .. m) - Cardinality((1 .. m) \cap A)
    BY <1>1, FS_Difference, Zenon
  <2>2. IsFiniteSet(D) /\ Cardinality(D) = Cardinality(1 .. k) - Cardinality((1 .. k) \cap B)
    BY <1>1, FS_Difference, Zenon
  <2> HIDE DEF C, D
  <2> QED
    BY <1>1, <1>3, <2>1, <2>2, Zenon
<1>5. Cardinality(A) <= Cardinality(B)
  <2> DEFINE g == [i \in A |-> f[i]]
  <2>1. g \in [A -> B] /\ \A i, j \in A : g[i] = g[j] => i = j
    BY Zenon
  <2> HIDE DEF g
  <2>2. g \in Injection(A, B)
    BY <2>1, Zenon DEF Injection, IsInjective
  <2> QED
    BY <1>2, <2>2, FS_Injection, Zenon
<1>6. Cardinality(C) <= Cardinality(D)
  <2> DEFINE g == [i \in C |-> f[i]]
  <2>1. g \in [C -> D] /\ \A i, j \in C : g[i] = g[j] => i = j
    BY Zenon
  <2> HIDE DEF g, C, D
  <2>2. g \in Injection(C, D)
    BY <2>1, Zenon DEF Injection, IsInjective
  <2> QED
    BY <1>4, <2>2, FS_Injection, Zenon
<1> HIDE DEF C, D
<1> QED
  BY <1>2, <1>4, <1>5, <1>6

\* What a request reads is part of what the ring holds (handlers.go:363).
LEMMA RecentCounts ==
    ASSUME NEW h, Ring(h), NEW n \in Nat
    PROVE  LET es == GetRecent(h, n)
               ok == Cardinality({i \in DOMAIN es : es[i].healthy})
           IN  /\ Len(es) \in 0 .. h.size /\ Len(es) = Smaller(n, h.size)
               /\ DOMAIN es = 1 .. Len(es)
               /\ ok \in 0 .. Len(es)
               /\ ok <= Cardinality(GoodSlots(h))
               /\ Len(es) - ok <= h.size - Cardinality(GoodSlots(h))
<1> DEFINE es == GetRecent(h, n)
           m == Smaller(n, h.size)
           A == {i \in 1 .. m : es[i].healthy}
           f == [i \in 1 .. m |-> h.size - i + 1]
<1>1. h.size \in Nat /\ m \in 0 .. h.size
  BY DEF Ring, Rings, Smaller
<1>2. /\ es \in [1 .. m -> HealthStatus]
      /\ \A i \in 1 .. m : h.size - i + 1 \in 1 .. h.size
                           /\ es[i] = GetAll(h)[h.size - i + 1]
  BY RecentIsReverse, Zenon
<1> HIDE DEF es, m
<1>3. Len(es) = m /\ DOMAIN es = 1 .. m
  BY <1>1, <1>2
<1>4. f \in [1 .. m -> 1 .. h.size] /\ \A i, j \in 1 .. m : f[i] = f[j] => i = j
  BY <1>1, <1>2
<1>5. \A i \in 1 .. m : i \in A <=> f[i] \in GoodChecks(h)
  BY <1>2, Zenon DEF GoodChecks
<1>6. A \in SUBSET (1 .. m) /\ GoodChecks(h) \in SUBSET (1 .. h.size)
  BY Zenon DEF GoodChecks
<1> HIDE DEF f, A
<1>7. /\ Cardinality(A) \in 0 .. m
      /\ Cardinality(A) <= Cardinality(GoodChecks(h))
      /\ m - Cardinality(A) <= h.size - Cardinality(GoodChecks(h))
  <2>1. m \in Nat /\ h.size \in Nat
    BY <1>1
  <2> QED
    BY <1>4, <1>5, <1>6, <2>1, Embed, Zenon
<1>8. Cardinality(GoodSlots(h)) = Cardinality(GoodChecks(h))
  BY SlotsAreChecks, Zenon
<1>9. {i \in DOMAIN es : es[i].healthy} = A
  BY <1>3, Zenon DEF A
<1> QED
  BY <1>1, <1>3, <1>7, <1>8, <1>9, Zenon DEF es, m

\* A new ring is one (health.go:131).
LEMMA NewRing == Ring(NewHealthHistory) /\ GetAll(NewHealthHistory) = <<>>
<1>1. ZeroStatus \in HealthStatus
  BY HealthAssumption, Zenon DEF ZeroStatus, HealthStatus
<1>2. NewHealthHistory \in Rings(HealthStatus)
  BY <1>1, ZeroAssumption, CapacityAssumption DEF NewHealthHistory, Rings, Slots
<1> QED
  BY <1>2, CapacityAssumption DEF NewHealthHistory, Ring, Filled, GetAll

-----------------------------------------------------------------------------
(* The checker: one connection at most, and the state of a check.          *)

Checking == {"ping", "dial", "recovery", "details", "publish", "add"}

\* The sockets are those of h.conn, and getConn dials only without one.
OneSocket ==
    /\ sockets = IF conn = "none" THEN 0 ELSE 1
    /\ pc \in {"ping", "recovery", "details"} => conn # "none"
    /\ pc = "dial" => conn = "none"
    /\ pc = "done" => conn = "none"

\* Whoever waits for readyCh finds the status and the history written.
ReadyMeans ==
    /\ pc \in Checking => result.checked
    /\ pc = "add" => status.checked
    /\ history.size > 0 => status.checked
    /\ ready => history.size > 0
    /\ manager = "informed" => ready

HealthInv == TypeOK /\ Filled(history) /\ OneSocket /\ ReadyMeans

\* The types of the constants, without the relation of FailureCap to the rest.
LEMMA ConstantTypes ==
    /\ Lags \subseteq Nat /\ 0 \in Lags /\ Limits \subseteq Nat
    /\ Interval \in Nat /\ Multiplier \in Nat /\ MaxBackoff \in Nat
    /\ FailureCap \in Nat \ {0} /\ MaxFaults \in Nat
    /\ DefaultLimit \in Nat \ {0} /\ Capacity \in Nat \ {0}
BY HealthAssumption, CapacityAssumption, Zenon

LEMMA HealthInit == Init => HealthInv
<1> SUFFICES ASSUME Init PROVE HealthInv
  BY Zenon
<1>1. ZeroStatus \in HealthStatus /\ Ring(NewHealthHistory)
  BY NewRing, HealthAssumption, Zenon DEF ZeroStatus, HealthStatus
<1>2. NoRequest \in [open : BOOLEAN, shown : 0 .. Capacity, good : 0 .. Capacity]
  BY CapacityAssumption DEF NoRequest
<1>3. TypeOK
  <2>1. history \in Rings(HealthStatus) /\ result \in HealthStatus /\ status \in HealthStatus
    BY <1>1, Zenon DEF Init, Ring
  <2>2. sockets \in Nat /\ failures \in 0 .. FailureCap /\ currentInterval \in Nat
        /\ faults \in 0 .. MaxFaults
    BY ConstantTypes DEF Init
  <2>3. request \in [open : BOOLEAN, shown : 0 .. Capacity, good : 0 .. Capacity]
    BY <1>2, Zenon DEF Init
  <2> QED
    BY <2>1, <2>2, <2>3, Zenon DEF Init, TypeOK
<1>4. Filled(history)
  BY <1>1, Zenon DEF Init, Ring
<1>5. OneSocket /\ ReadyMeans
  BY CapacityAssumption DEF Init, OneSocket, ReadyMeans, Checking, NewHealthHistory
<1> QED
  BY <1>3, <1>4, <1>5, Zenon DEF HealthInv

\* Each field of a status is of its type, whichever way it is written.
LEMMA StatusFields ==
    /\ ZeroStatus \in HealthStatus
    /\ \A c \in BOOLEAN : [ZeroStatus EXCEPT !.checked = c] \in HealthStatus
    /\ \A r \in HealthStatus, b \in BOOLEAN :
         LET q == [r EXCEPT !.healthy = TRUE, !.inRecovery = b]
         IN  q \in HealthStatus /\ q.checked = r.checked
    /\ \A r \in HealthStatus, l \in Lags :
         LET q == [r EXCEPT !.lag = l]
         IN  q \in HealthStatus /\ q.checked = r.checked
BY ConstantTypes, Zenon DEF HealthStatus, ZeroStatus

\* The interval stays a number.
LEMMA IntervalNat ==
    ASSUME NEW f \in Nat
    PROVE  Smaller(Interval * Multiplier * f, MaxBackoff) \in Nat
<1>1. Interval * Multiplier \in Nat
  BY ConstantTypes
<1>2. Interval * Multiplier * f \in Nat
  BY <1>1
<1> QED
  BY <1>2, ConstantTypes, Zenon DEF Smaller

\* A step of the checker that leaves the history alone keeps the invariant.
LEMMA CheckKeeps ==
    ASSUME HealthInv, CheckStep \/ Stop, UNCHANGED Rest, pc # "add"
    PROVE  HealthInv'
<1> USE DEF HealthInv, TypeOK, OneSocket, ReadyMeans, Filled, Checking, Rest
<1>1. CASE Begin
  <2>1. result' \in HealthStatus
    BY <1>1, StatusFields, Zenon DEF Begin
  <2>2. ~cancelled => result'.checked
    BY <1>1, Zenon DEF Begin, ZeroStatus
  <2> QED
    BY <1>1, <2>1, <2>2 DEF Begin
<1>2. CASE Ping
  BY <1>2, ConstantTypes DEF Ping, Succeeds, Fails, Fault, Answers
<1>3. CASE Dial
  BY <1>3, ConstantTypes DEF Dial, Fault
<1>4. CASE AskRecovery
  <2>1. result' \in HealthStatus /\ result'.checked
    BY <1>4, StatusFields, Zenon DEF AskRecovery
  <2>2. failures' \in 0 .. FailureCap /\ currentInterval' \in Nat
    BY <1>4, ConstantTypes DEF AskRecovery
  <2>3. faults' \in 0 .. MaxFaults
    BY <1>4, ConstantTypes DEF AskRecovery, Succeeds, Fails, Fault
  <2>4. conn # "none" /\ conn' \in {"live", "dead"}
    BY <1>4, Zenon DEF AskRecovery, MayBreak
  <2> QED
    BY <1>4, <2>1, <2>2, <2>3, <2>4 DEF AskRecovery
<1>5. CASE AskDetails
  <2>1. result' \in HealthStatus /\ result'.checked
    <3>1. CASE UNCHANGED result
      BY <1>5, <3>1, Zenon DEF AskDetails
    <3>2. ASSUME NEW l \in Lags, result' = [result EXCEPT !.lag = l]
          PROVE  result' \in HealthStatus /\ result'.checked
      BY <1>5, <3>2, StatusFields, Zenon DEF AskDetails
    <3>3. UNCHANGED result \/ \E l \in Lags : result' = [result EXCEPT !.lag = l]
      BY <1>5, ConstantTypes, Zenon DEF AskDetails
    <3> QED
      BY <3>1, <3>2, <3>3, Zenon
  <2>2. faults' \in 0 .. MaxFaults
    BY <1>5, ConstantTypes DEF AskDetails, Succeeds, Fails, Fault
  <2>3. conn # "none" /\ conn' \in {"live", "dead"}
    BY <1>5, Zenon DEF AskDetails, MayBreak
  <2> QED
    BY <1>5, <2>1, <2>2, <2>3, Zenon DEF AskDetails
<1>6. CASE Publish
  BY <1>6 DEF Publish
<1>7. CASE RecordFailure
  BY <1>7, ConstantTypes, IntervalNat DEF RecordFailure, Smaller
<1>8. CASE TimerFires
  BY <1>8 DEF TimerFires
<1>9. CASE Stop
  BY <1>9 DEF Stop
<1> QED
  BY <1>1, <1>2, <1>3, <1>4, <1>5, <1>6, <1>7, <1>8, <1>9, Zenon DEF CheckStep, AddHistory

\* The step that adds to the history keeps it too.
LEMMA AddKeeps ==
    ASSUME HealthInv, AddHistory, UNCHANGED Rest
    PROVE  HealthInv'
<1> USE DEF HealthInv
<1>1. Ring(history) /\ result \in HealthStatus /\ result.checked /\ status.checked
  BY Zenon DEF TypeOK, Ring, ReadyMeans, Checking, AddHistory
<1>2. Ring(history')
  BY <1>1, AddKeepsRing, Zenon DEF AddHistory
<1>3. history'.size > 0
  <2>1. history.size \in 0 .. Capacity
        /\ history'.size = IF history.size < Capacity THEN history.size + 1 ELSE Capacity
    BY <1>1, RingFields, Zenon DEF AddHistory
  <2> QED
    BY <2>1, CapacityAssumption
<1>4. pc' \in {"wait", "backoff"} /\ ready' = TRUE
  BY Zenon DEF AddHistory
<1>5. UNCHANGED <<conn, sockets, result, status, failures, currentInterval, faults,
                  server, manager, request, cancelled>>
  BY Zenon DEF AddHistory, Rest
<1>6. TypeOK'
  BY <1>2, <1>4, <1>5, Zenon DEF TypeOK, Ring
<1>7. OneSocket'
  BY <1>4, <1>5, Zenon DEF OneSocket
<1>8. ReadyMeans'
  BY <1>1, <1>3, <1>4, <1>5, Zenon DEF ReadyMeans, Checking
<1> QED
  BY <1>2, <1>6, <1>7, <1>8, Zenon DEF Ring

\* So do the steps of the others.
LEMMA OthersKeep ==
    ASSUME HealthInv,
           \/ Starts \/ ManagerStops \/ ReadEntries \/ ReadStats
           \/ ServerChanges \/ Cancel
    PROVE  HealthInv'
<1> USE DEF HealthInv
<1>1. CASE Starts \/ ManagerStops \/ Cancel
  <2>1. UNCHANGED <<server, checker, request, faults>>
    BY <1>1, Zenon DEF Starts, ManagerStops, Cancel
  <2>2. /\ manager' \in {"waiting", "informed", "late", "stopped"}
        /\ cancelled' \in BOOLEAN
        /\ manager' = "informed" => ready
    BY <1>1, Zenon DEF Starts, ManagerStops, Cancel, TypeOK, ReadyMeans
  <2>3. TypeOK'
    BY <2>1, <2>2, Zenon DEF checker, TypeOK
  <2> QED
    BY <2>1, <2>2, <2>3, Zenon DEF checker, OneSocket, ReadyMeans, Filled
<1>2. CASE ServerChanges
  <2>1. faults' \in 0 .. MaxFaults
    BY <1>2, ConstantTypes DEF ServerChanges, Fault, TypeOK
  <2> QED
    BY <1>2, <2>1 DEF ServerChanges, TypeOK, OneSocket, ReadyMeans, Filled
<1>3. CASE ReadEntries \/ ReadStats
  <2>1. UNCHANGED <<server, checker, manager, cancelled, faults>>
    BY <1>3, Zenon DEF ReadEntries, ReadStats
  <2>2. request' \in [open : BOOLEAN, shown : 0 .. Capacity, good : 0 .. Capacity]
    <3>1. CASE ReadStats
      BY <3>1, CapacityAssumption DEF ReadStats, NoRequest
    <3>2. CASE ReadEntries
      <4>1. Ring(history) /\ history.size \in 0 .. Capacity
        BY Zenon DEF TypeOK, Ring, Rings
      <4>2. PICK n \in Nat :
              LET es == GetRecent(history, n)
              IN  request' = [open |-> TRUE, shown |-> Len(es),
                              good |-> Cardinality({i \in DOMAIN es : es[i].healthy})]
        BY <3>2, ConstantTypes, Zenon DEF ReadEntries
      <4> DEFINE es == GetRecent(history, n)
                 ok == Cardinality({i \in DOMAIN es : es[i].healthy})
      <4>3. Len(es) \in 0 .. history.size /\ ok \in 0 .. Len(es)
        BY <4>1, RecentCounts, Zenon
      <4>4. request' = [open |-> TRUE, shown |-> Len(es), good |-> ok]
        BY <4>2, Zenon
      <4> HIDE DEF es, ok
      <4> QED
        BY <4>1, <4>3, <4>4, CapacityAssumption
    <3> QED
      BY <1>3, <3>1, <3>2, Zenon
  <2> QED
    BY <2>1, <2>2 DEF checker, TypeOK, OneSocket, ReadyMeans, Filled
<1> QED
  BY <1>1, <1>2, <1>3, Zenon

LEMMA HealthStep == HealthInv /\ [Next]_vars => HealthInv'
<1> SUFFICES ASSUME HealthInv, [Next]_vars PROVE HealthInv'
  BY Zenon
<1>1. CASE CheckerStep \/ CheckerStops
  <2>1. (CheckStep \/ Stop) /\ UNCHANGED Rest
    BY <1>1, Zenon DEF CheckerStep, CheckerStops
  <2>2. CASE pc # "add"
    BY <2>1, <2>2, CheckKeeps, Zenon
  <2>3. CASE pc = "add"
    <3>1. AddHistory
      BY <2>1, <2>3, Zenon DEF CheckStep, Begin, Ping, Dial, AskRecovery, AskDetails, Publish,
                        RecordFailure, TimerFires, Stop
    <3> QED
      BY <2>1, <3>1, AddKeeps, Zenon
  <2> QED
    BY <2>2, <2>3, Zenon
<1>2. CASE UNCHANGED vars
  BY <1>2 DEF vars, checker, HealthInv, TypeOK, OneSocket, ReadyMeans, Filled
<1> QED
  BY <1>1, <1>2, OthersKeep, Zenon DEF Next

LEMMA HealthInvariant == Spec => []HealthInv
  BY HealthInit, HealthStep, PTL DEF Spec

-----------------------------------------------------------------------------
(* Theorems.                                                               *)

\* Every variable keeps its type; in particular no write to the history is out
\* of bounds (health.go:140).
THEOREM HealthTypes == Spec => []TypeOK
<1>1. HealthInv => TypeOK
  BY Zenon DEF HealthInv
<1> QED
  BY <1>1, HealthInvariant, PTL

\* Manager.Run, once readyCh let it go on, evaluates the result of a check
\* (manager.go:203, health.go:503).
THEOREM ManagerInformed == Spec => []StartsInformed
<1>1. HealthInv => StartsInformed
  BY Zenon DEF HealthInv, TypeOK, ReadyMeans, StartsInformed
<1> QED
  BY <1>1, HealthInvariant, PTL

\* GetAll, GetRecent and Stats agree in every reachable state, for every
\* capacity (health.go:151-228).
THEOREM ReadersAgreement == Spec => []ReadersAgree
<1>1. HealthInv => ReadersAgree
  <2> SUFFICES ASSUME HealthInv PROVE ReadersAgree
    BY Zenon
  <2> DEFINE h == history
             all == GetAll(h)
             ok == Cardinality({i \in DOMAIN all : all[i].healthy})
  <2>1. Ring(h) /\ h.size \in Nat
    BY CapacityAssumption DEF HealthInv, TypeOK, Ring, Rings
  <2>2. all = [i \in 1 .. h.size |-> h.entries[(Start(h) + i - 1) % Capacity]]
    BY Zenon DEF GetAll
  <2>3. Len(all) = h.size /\ DOMAIN all = 1 .. h.size
    BY <2>1, <2>2
  <2>4. ok = Cardinality(GoodSlots(h))
    <3>1. {i \in DOMAIN all : all[i].healthy} = GoodChecks(h)
      BY <2>3, Zenon DEF GoodChecks
    <3> QED
      BY <2>1, <3>1, SlotsAreChecks, Zenon
  <2>5. Stats(h) = [total |-> h.size, success |-> Cardinality(GoodSlots(h)),
                    failure |-> h.size - Cardinality(GoodSlots(h))]
    BY Zenon DEF Stats, GoodSlots
  <2>6. ASSUME NEW n \in 0 .. Capacity + 1
        PROVE  /\ Len(GetRecent(h, n)) = Smaller(n, h.size)
               /\ \A i \in DOMAIN GetRecent(h, n) :
                    GetRecent(h, n)[i] = all[h.size - i + 1]
    <3>1. n \in Nat
      BY <2>6, CapacityAssumption
    <3>2. Len(GetRecent(h, n)) = Smaller(n, h.size)
          /\ DOMAIN GetRecent(h, n) = 1 .. Len(GetRecent(h, n))
      BY <2>1, <3>1, RecentCounts, Zenon
    <3> QED
      BY <2>1, <3>1, <3>2, RecentIsReverse, Zenon
  <2> HIDE DEF all, ok
  <2> QED
    BY <2>3, <2>4, <2>5, <2>6, Zenon DEF ReadersAgree, all, ok
<1> QED
  BY <1>1, HealthInvariant, PTL

\* The ring buffer implements a list of the latest checks: HealthHistory.Add
\* appends to it and nothing else changes it (health.go:140).
THEOREM HistoryImplementsRecent == Spec => RingIsRecent
<1>1. Init => Recent!Init
  BY NewRing, Zenon DEF Init, Recent!Init
<1>2. HealthInv /\ [Next]_vars => [Recent!Next]_(GetAll(history))
  <2> SUFFICES ASSUME HealthInv, [Next]_vars
               PROVE  Recent!Next \/ UNCHANGED GetAll(history)
    BY Zenon
  <2>1. CASE CheckerStep /\ AddHistory
    <3>1. Ring(history) /\ result \in HealthStatus /\ history' = Add(history, result)
      BY <2>1, Zenon DEF HealthInv, TypeOK, Ring, AddHistory
    <3>2. GetAll(history') = Append(IF Len(GetAll(history)) < Capacity
                                    THEN GetAll(history) ELSE Tail(GetAll(history)), result)
      BY <3>1, AddAppends, Zenon
    <3>3. GetAll(history)' = GetAll(history')
      BY Zenon DEF GetAll, Start
    <3> QED
      BY <3>1, <3>2, <3>3, Zenon DEF Recent!Next, Recent!Record
  <2>2. CASE UNCHANGED history
    BY <2>2, Zenon DEF GetAll, Start
  <2>3. (CheckerStep /\ AddHistory) \/ UNCHANGED history
    BY Zenon DEF Next, vars, CheckerStep, CheckStep, Begin, Ping, Dial, AskRecovery, AskDetails,
           Publish, RecordFailure, TimerFires, CheckerStops, Stop, Starts, ManagerStops,
           ReadEntries, ReadStats, ServerChanges, Cancel, checker
  <2> QED
    BY <2>1, <2>2, <2>3, Zenon
<1> QED
  BY <1>1, <1>2, HealthInvariant, PTL DEF Spec, RingIsRecent, Recent!Spec

-----------------------------------------------------------------------------
(* A history request reads twice.                                          *)

\* AnswerAddsUp for a ring and a request.
Covers(h, r) ==
    r.open =>
      /\ r.shown <= h.size
      /\ h.size < Capacity =>
           /\ r.good <= Cardinality(GoodSlots(h))
           /\ r.shown - r.good <= h.size - Cardinality(GoodSlots(h))

LEMMA AnswerIsCovers == AnswerAddsUp <=> Covers(history, request)
BY Zenon DEF AnswerAddsUp, Covers, Stats, GoodSlots

\* Until the ring is full a check adds one slot, good or not.
LEMMA AddCovers ==
    ASSUME NEW h, Ring(h), NEW e \in HealthStatus,
           NEW r \in [open : BOOLEAN, shown : 0 .. Capacity, good : 0 .. Capacity],
           Covers(h, r)
    PROVE  Covers(Add(h, e), r)
<1> DEFINE g == Add(h, e)
           good == Cardinality(GoodSlots(h))
<1>1. /\ h.entries \in [Slots -> HealthStatus] /\ h.head \in Slots
      /\ h.size \in 0 .. Capacity
      /\ h.size < Capacity => h.head = h.size
      /\ g.entries = [h.entries EXCEPT ![h.head] = e]
      /\ g.size = IF h.size < Capacity THEN h.size + 1 ELSE Capacity
  BY RingFields, Zenon
<1>2. IsFiniteSet(GoodSlots(h)) /\ good \in Nat
  BY SlotsAreChecks, FS_CardinalityType, Zenon
<1> HIDE DEF g
<1>3. ASSUME g.size < Capacity
      PROVE  /\ g.size = h.size + 1
             /\ Cardinality(GoodSlots(g)) = IF e.healthy THEN good + 1 ELSE good
  <2>1. g.size = h.size + 1 /\ h.size < Capacity /\ h.head = h.size
    BY <1>1, <1>3, CapacityAssumption
  <2>2. GoodSlots(g) = IF e.healthy THEN GoodSlots(h) \cup {h.size} ELSE GoodSlots(h)
    <3>1. 0 .. g.size - 1 = (0 .. h.size - 1) \cup {h.size} /\ h.size \notin 0 .. h.size - 1
      BY <1>1, <2>1, CapacityAssumption
    <3>2. g.entries[h.size] = e
      BY <1>1, <2>1, Zenon
    <3>3. \A s \in 0 .. h.size - 1 : g.entries[s] = h.entries[s]
      BY <1>1, <2>1 DEF Slots
    <3> QED
      BY <3>1, <3>2, <3>3, Zenon DEF GoodSlots
  <2>3. h.size \notin GoodSlots(h)
    BY <1>1 DEF GoodSlots
  <2>4. Cardinality(GoodSlots(h) \cup {h.size}) = good + 1
    BY <1>2, <2>3, FS_AddElement, Zenon
  <2> QED
    BY <2>1, <2>2, <2>4, Zenon
<1> HIDE DEF good
<1>4. Covers(g, r)
  <2>1. r.shown \in Nat /\ r.good \in Nat
    BY CapacityAssumption
  <2>2. e.healthy \in BOOLEAN
    BY Zenon DEF HealthStatus
  <2>3. g.size >= h.size
    BY <1>1, CapacityAssumption
  <2>4. CASE g.size < Capacity
    BY <1>1, <1>2, <1>3, <2>1, <2>2, <2>4, CapacityAssumption DEF Covers, good
  <2>5. CASE ~(g.size < Capacity)
    BY <1>1, <2>1, <2>3, <2>5, CapacityAssumption DEF Covers
  <2> QED
    BY <2>4, <2>5, Zenon
<1> QED
  BY <1>4, Zenon DEF g

\* The answer of healthHistory adds up, whatever happens between its two reads
\* (handlers.go:363, 394).
THEOREM AnswersAddUp == Spec => []AnswerAddsUp
<1>1. Init => AnswerAddsUp
  BY AnswerIsCovers DEF Init, Covers, NoRequest
<1>2. HealthInv /\ AnswerAddsUp /\ [Next]_vars => AnswerAddsUp'
  <2> SUFFICES ASSUME HealthInv, AnswerAddsUp, [Next]_vars PROVE AnswerAddsUp'
    BY Zenon
  <2>1. AnswerAddsUp' <=> Covers(history', request')
    BY Zenon DEF AnswerAddsUp, Covers, Stats, GoodSlots
  <2>2. /\ Ring(history) /\ result \in HealthStatus
        /\ request \in [open : BOOLEAN, shown : 0 .. Capacity, good : 0 .. Capacity]
        /\ Covers(history, request)
    BY AnswerIsCovers, Zenon DEF HealthInv, TypeOK, Ring
  <2>3. CASE AddHistory /\ UNCHANGED request
    BY <2>1, <2>2, <2>3, AddCovers, Zenon DEF AddHistory
  <2>4. CASE UNCHANGED <<history, request>>
    BY <2>1, <2>2, <2>4, Zenon
  <2>5. CASE ReadEntries
    <3>1. PICK n \in Nat :
            LET es == GetRecent(history, n)
            IN  request' = [open |-> TRUE, shown |-> Len(es),
                            good |-> Cardinality({i \in DOMAIN es : es[i].healthy})]
      BY <2>5, ConstantTypes, Zenon DEF ReadEntries
    <3> DEFINE es == GetRecent(history, n)
               ok == Cardinality({i \in DOMAIN es : es[i].healthy})
    <3>2. /\ Len(es) \in 0 .. history.size
          /\ ok <= Cardinality(GoodSlots(history))
          /\ Len(es) - ok <= history.size - Cardinality(GoodSlots(history))
      BY <2>2, RecentCounts, Zenon
    <3>3. request' = [open |-> TRUE, shown |-> Len(es), good |-> ok]
      BY <3>1, Zenon
    <3>4. history' = history /\ history.size \in Nat
      BY <2>2, <2>5, CapacityAssumption DEF ReadEntries, checker, Ring, Rings
    <3> HIDE DEF es, ok
    <3> QED
      BY <2>1, <3>2, <3>3, <3>4 DEF Covers
  <2>6. CASE ReadStats
    BY <2>1, <2>6, Zenon DEF ReadStats, NoRequest, Covers
  <2> QED
    BY <2>3, <2>4, <2>5, <2>6, Zenon
       DEF Next, vars, CheckerStep, CheckStep, Begin, Ping, Dial, AskRecovery, AskDetails,
           Publish, RecordFailure, TimerFires, CheckerStops, Stop, Starts, ManagerStops,
           ServerChanges, Cancel, checker, Rest
<1> QED
  BY <1>1, <1>2, HealthInvariant, PTL DEF Spec

-----------------------------------------------------------------------------
(* The back-off.                                                           *)

\* The last k checks of a failed, and failures is what that calls for.
Fits(a, k, f) ==
    /\ k \in 0 .. Len(a)
    /\ \A i \in 1 .. Len(a) : i > Len(a) - k => ~a[i].healthy
    /\ k < Len(a) => a[Len(a) - k].healthy /\ f = Smaller(k, FailureCap)
    /\ k = Len(a) => f >= Smaller(k, FailureCap)

FitsSome(a, f) == \E k \in Nat : Fits(a, k, f)

\* b is a with e added and perhaps its first element dropped.
Follows(b, a, e) ==
    \E d \in {0, 1} :
        /\ Len(b) = Len(a) + 1 - d
        /\ Len(b) > 0 /\ b[Len(b)] = e
        /\ \A i \in 1 .. Len(b) - 1 : b[i] = a[i + d]

LEMMA AddFollows ==
    ASSUME NEW h, Ring(h), NEW e \in HealthStatus
    PROVE  /\ GetAll(h) \in Seq(HealthStatus) /\ GetAll(Add(h, e)) \in Seq(HealthStatus)
           /\ Follows(GetAll(Add(h, e)), GetAll(h), e)
<1> DEFINE a == GetAll(h)
           c == IF Len(a) < Capacity THEN a ELSE Tail(a)
           b == GetAll(Add(h, e))
<1>1. a \in Seq(HealthStatus) /\ Len(a) = h.size /\ h.size \in 0 .. Capacity
  <2>1. /\ h.entries \in [Slots -> HealthStatus] /\ h.size \in 0 .. Capacity
    BY Zenon DEF Ring, Rings
  <2>2. a = [i \in 1 .. h.size |-> h.entries[Slot(h, i)]]
        /\ \A i \in 1 .. h.size : Slot(h, i) \in Slots
    BY AllSlots, Zenon
  <2> HIDE DEF a
  <2> QED
    BY <2>1, <2>2, CapacityAssumption
<1>2. b = Append(c, e)
  BY AddAppends, Zenon
<1> HIDE DEF a, b
<1>3. CASE Len(a) < Capacity
  <2>1. /\ b \in Seq(HealthStatus) /\ Len(b) = Len(a) + 1 /\ b[Len(a) + 1] = e
        /\ \A i \in 1 .. Len(a) : b[i] = a[i]
    <3>1. b = Append(a, e)
      BY <1>2, <1>3, Zenon
    <3>2. /\ Append(a, e) \in Seq(HealthStatus) /\ Len(Append(a, e)) = Len(a) + 1
          /\ Append(a, e)[Len(a) + 1] = e
          /\ \A i \in 1 .. Len(a) : Append(a, e)[i] = a[i]
      BY <1>1, AppendProperties
    <3> QED
      BY <3>1, <3>2, Zenon
  <2> HIDE DEF c
  <2>2. Follows(b, a, e)
    <3>1. /\ Len(b) = Len(a) + 1 - 0 /\ Len(b) > 0 /\ b[Len(b)] = e
          /\ \A i \in 1 .. Len(b) - 1 : b[i] = a[i + 0]
      BY <1>1, <2>1
    <3> QED
      BY <3>1, Zenon DEF Follows
  <2> QED
    BY <1>1, <2>1, <2>2, Zenon DEF a, b
<1>4. CASE ~(Len(a) < Capacity)
  <2>1. a # <<>> /\ Len(a) = Capacity
    BY <1>1, <1>4, CapacityAssumption
  <2>2. /\ c = Tail(a) /\ c \in Seq(HealthStatus) /\ Len(c) = Len(a) - 1
        /\ \A i \in 1 .. Len(c) : c[i] = a[i + 1]
    BY <1>1, <1>4, <2>1, HeadTailProperties, Zenon
  <2> HIDE DEF c
  <2>3. /\ b \in Seq(HealthStatus) /\ Len(b) = Len(c) + 1 /\ b[Len(c) + 1] = e
        /\ \A i \in 1 .. Len(c) : b[i] = c[i]
    <3>1. /\ Append(c, e) \in Seq(HealthStatus) /\ Len(Append(c, e)) = Len(c) + 1
          /\ Append(c, e)[Len(c) + 1] = e
          /\ \A i \in 1 .. Len(c) : Append(c, e)[i] = c[i]
      BY <2>2, AppendProperties
    <3> QED
      BY <1>2, <3>1, Zenon
  <2>4. Follows(b, a, e)
    <3>1. /\ Len(b) = Len(a) + 1 - 1 /\ Len(b) > 0 /\ b[Len(b)] = e
          /\ \A i \in 1 .. Len(b) - 1 : b[i] = a[i + 1]
      BY <1>1, <2>1, <2>2, <2>3, CapacityAssumption
    <3> QED
      BY <3>1, Zenon DEF Follows
  <2> QED
    BY <1>1, <2>3, <2>4, Zenon DEF a, b
<1> QED
  BY <1>3, <1>4, Zenon

\* A good check calls for no back-off, a failed one for one more step.
LEMMA GoodFits ==
    ASSUME NEW a, NEW b \in Seq(HealthStatus), NEW e, Follows(b, a, e), e.healthy
    PROVE  FitsSome(b, 0)
<1>1. Len(b) \in Nat /\ Len(b) > 0 /\ b[Len(b)] = e
  BY DEF Follows
<1>2. Fits(b, 0, 0)
  BY <1>1, ConstantTypes DEF Fits, Smaller
<1> QED
  BY <1>2, Zenon DEF FitsSome

LEMMA BadFits ==
    ASSUME NEW a \in Seq(HealthStatus), NEW b \in Seq(HealthStatus), NEW e,
           Follows(b, a, e), ~e.healthy, NEW f \in 0 .. FailureCap, FitsSome(a, f)
    PROVE  FitsSome(b, Smaller(f + 1, FailureCap))
<1>1. PICK k \in Nat : Fits(a, k, f)
  BY Zenon DEF FitsSome
<1>2. PICK d \in {0, 1} :
        /\ Len(b) = Len(a) + 1 - d
        /\ Len(b) > 0 /\ b[Len(b)] = e
        /\ \A i \in 1 .. Len(b) - 1 : b[i] = a[i + d]
  BY Zenon DEF Follows
<1>3. Len(a) \in Nat /\ Len(b) \in Nat /\ Len(b) = Len(a) + 1 - d /\ Len(b) > 0
  BY <1>2
<1> DEFINE m == Smaller(k + 1, Len(b))
<1>4. m \in 1 .. Len(b) /\ m <= k + 1 /\ k <= Len(a) /\ (m < Len(b) => m = k + 1)
  BY <1>1, <1>3 DEF Smaller, Fits
<1> HIDE DEF m
<1>5. ASSUME NEW i \in 1 .. Len(b), i > Len(b) - m PROVE ~b[i].healthy
  <2>1. CASE i = Len(b)
    BY <1>2, <2>1, Zenon
  <2>2. CASE i # Len(b)
    <3>1. i \in 1 .. Len(b) - 1 /\ i + d \in 1 .. Len(a) /\ i + d > Len(a) - k
      BY <1>3, <1>4, <1>5, <2>2
    <3>2. b[i] = a[i + d] /\ ~a[i + d].healthy
      BY <1>1, <1>2, <3>1, Zenon DEF Fits
    <3> QED
      BY <3>2, Zenon
  <2> QED
    BY <2>1, <2>2, Zenon
<1>6. ASSUME m < Len(b)
      PROVE  b[Len(b) - m].healthy /\ Smaller(f + 1, FailureCap) = Smaller(m, FailureCap)
  <2>1. m = k + 1 /\ k < Len(a) /\ Len(b) - m \in 1 .. Len(b) - 1
        /\ Len(b) - m + d = Len(a) - k
    BY <1>3, <1>4, <1>6
  <2>2. a[Len(a) - k].healthy /\ f = Smaller(k, FailureCap)
    BY <1>1, <2>1, Zenon DEF Fits
  <2>3. b[Len(b) - m] = a[Len(a) - k]
    BY <1>2, <2>1, Zenon
  <2>4. Smaller(f + 1, FailureCap) = Smaller(k + 1, FailureCap)
    BY <2>2, ConstantTypes DEF Smaller
  <2> QED
    BY <2>1, <2>2, <2>3, <2>4, Zenon
<1>7. Smaller(f + 1, FailureCap) >= Smaller(m, FailureCap)
  <2>1. f >= Smaller(k, FailureCap)
    BY <1>1, ConstantTypes DEF Fits, Smaller
  <2> QED
    BY <1>4, <2>1, ConstantTypes DEF Smaller
<1>8. Fits(b, m, Smaller(f + 1, FailureCap))
  BY <1>3, <1>4, <1>5, <1>6, <1>7 DEF Fits
<1> QED
  BY <1>3, <1>4, <1>8 DEF FitsSome

\* The counter fits the history in every step of a check: recordSuccess runs
\* before the check is in the history, recordFailure after it.
Fitting == FitsSome(GetAll(history), failures)

BackoffInv ==
    /\ pc \in {"ping", "dial", "recovery"} => ~result.healthy
    /\ pc \in {"check", "wait", "done", "ping", "dial", "recovery"} => Fitting
    /\ pc \in {"details", "publish", "add"} => IF result.healthy THEN failures = 0 ELSE Fitting
    /\ pc = "details" => result.healthy
    /\ pc = "backoff" => FitsSome(GetAll(history), Smaller(failures + 1, FailureCap))
    /\ currentInterval = IF failures = 0 THEN Interval
                         ELSE Smaller(Interval * Multiplier * failures, MaxBackoff)

LEMMA FitsMeans ==
    ASSUME NEW a \in Seq(HealthStatus), NEW f, FitsSome(a, f)
    PROVE  LET good == {i \in DOMAIN a : a[i].healthy}
               since == Len(a) - (CHOOSE i \in good : \A j \in good : j <= i)
           IN  /\ good # {} => f = Smaller(since, FailureCap)
               /\ good = {} => f >= Smaller(Len(a), FailureCap)
<1> DEFINE good == {i \in DOMAIN a : a[i].healthy}
           n == Len(a)
<1>1. PICK k \in Nat : Fits(a, k, f)
  BY Zenon DEF FitsSome
<1>2. n \in Nat /\ DOMAIN a = 1 .. n /\ k \in 0 .. n
  <2>1. n \in Nat /\ DOMAIN a = 1 .. n
    OBVIOUS
  <2> QED
    BY <1>1, <2>1, Zenon DEF Fits
<1>3. ASSUME NEW i \in good PROVE i \in 1 .. n /\ i <= n - k
  <2>1. i \in 1 .. n /\ a[i].healthy
    BY <1>2, <1>3, Zenon
  <2>2. ~(i > n - k)
    BY <1>1, <2>1, Zenon DEF Fits
  <2> QED
    BY <1>2, <2>1, <2>2
<1>4. CASE k < n
  <2>1. n - k \in good /\ f = Smaller(k, FailureCap)
    <3>1. n - k \in 1 .. n
      BY <1>2, <1>4
    <3>2. a[n - k].healthy /\ f = Smaller(k, FailureCap)
      BY <1>1, <1>4, Zenon DEF Fits
    <3> QED
      BY <1>2, <3>1, <3>2, Zenon
  <2> HIDE DEF good
  <2>2. \A i \in good : (\A j \in good : j <= i) => i = n - k
    BY <1>2, <1>3, <2>1
  <2>3. (CHOOSE i \in good : \A j \in good : j <= i) = n - k
    BY <1>3, <2>1, <2>2, Zenon
  <2>4. n - (n - k) = k
    BY <1>2
  <2> QED
    BY <2>1, <2>3, <2>4, Zenon DEF good, n
<1>5. CASE k = n
  <2>1. good = {}
    BY <1>2, <1>3, <1>5
  <2> HIDE DEF good
  <2> QED
    BY <1>1, <1>5, <2>1, Zenon DEF Fits, good, n
<1>6. k < n \/ k = n
  <2> HIDE DEF n, good
  <2> QED
    BY <1>2
<1> QED
  BY <1>4, <1>5, <1>6, Zenon

LEMMA BackoffInit == Init => BackoffInv
<1> SUFFICES ASSUME Init PROVE BackoffInv
  BY Zenon
<1>1. GetAll(history) = <<>>
  BY NewRing, Zenon DEF Init
<1>2. Fits(<<>>, 0, 0)
  <2>1. Len(<<>>) = 0
    BY Zenon
  <2>3. 0 \in 0 .. 0 /\ 0 >= 0 /\ ~(0 < 0) /\ \A i \in 1 .. 0 : FALSE
    OBVIOUS
  <2>2. Smaller(0, FailureCap) = 0
    BY ConstantTypes DEF Smaller
  <2> QED
    BY <2>1, <2>2, <2>3, Zenon DEF Fits
<1>3. Fitting
  BY <1>1, <1>2, Zenon DEF Init, Fitting, FitsSome
<1> QED
  BY <1>3, Zenon DEF Init, BackoffInv

\* Steps that change neither the history nor the counter.
LEMMA FittingKept ==
    ASSUME UNCHANGED <<history, failures>>
    PROVE  /\ Fitting' <=> Fitting
           /\ FitsSome(GetAll(history), Smaller(failures + 1, FailureCap))'
                <=> FitsSome(GetAll(history), Smaller(failures + 1, FailureCap))
BY DEF Fitting, GetAll, Start, FitsSome, Fits, Smaller

LEMMA BackoffStep == HealthInv /\ BackoffInv /\ [Next]_vars => BackoffInv'
<1> SUFFICES ASSUME HealthInv, BackoffInv, [Next]_vars PROVE BackoffInv'
  OBVIOUS
<1>1. CASE UNCHANGED <<pc, result, history, failures, currentInterval>>
  BY <1>1, FittingKept, Zenon DEF BackoffInv
<1>2. CASE Begin
  BY <1>2, FittingKept, Zenon DEF Begin, BackoffInv, ZeroStatus
<1>3. CASE Ping
  BY <1>3, FittingKept, Zenon DEF Ping, BackoffInv
<1>4. CASE Dial
  BY <1>4, FittingKept, Zenon DEF Dial, BackoffInv
<1>5. CASE AskRecovery
  <2>1. CASE pc' = "details"
    <3>1. /\ result' = [result EXCEPT !.healthy = TRUE, !.inRecovery = server = "standby"]
          /\ failures' = 0
          /\ currentInterval' = IF failures > 0 THEN Interval ELSE currentInterval
      BY <1>5, <2>1, Zenon DEF AskRecovery
    <3>2. result'.healthy
      BY <3>1, Zenon DEF HealthInv, TypeOK, HealthStatus
    <3>3. currentInterval' = Interval
      BY <3>1 DEF BackoffInv, HealthInv, TypeOK
    <3> QED
      BY <2>1, <3>1, <3>2, <3>3, Zenon DEF BackoffInv
  <2>2. CASE pc' # "details"
    <3>1. pc' = "publish" /\ UNCHANGED <<result, history, failures, currentInterval>>
      BY <1>5, <2>2, Zenon DEF AskRecovery
    <3>2. ~result.healthy /\ Fitting
      BY <1>5, Zenon DEF AskRecovery, BackoffInv
    <3> QED
      BY <3>1, <3>2, FittingKept, Zenon DEF BackoffInv
  <2> QED
    BY <2>1, <2>2, Zenon
<1>6. CASE AskDetails
  BY <1>6, FittingKept, Zenon DEF AskDetails, BackoffInv, HealthInv, TypeOK, HealthStatus
<1>7. CASE Publish
  BY <1>7, FittingKept, Zenon DEF Publish, BackoffInv
<1>8. CASE AddHistory
  <2>1. /\ Ring(history) /\ result \in HealthStatus /\ failures \in 0 .. FailureCap
        /\ history' = Add(history, result) /\ UNCHANGED <<result, failures, currentInterval>>
    BY <1>8, Zenon DEF HealthInv, TypeOK, Ring, AddHistory
  <2> DEFINE a == GetAll(history)
             b == GetAll(history')
  <2>2. a \in Seq(HealthStatus) /\ b \in Seq(HealthStatus) /\ Follows(b, a, result)
    BY <2>1, AddFollows, Zenon
  <2>3. GetAll(history)' = b
    BY Zenon DEF GetAll, Start
  <2>4. CASE result.healthy
    <3>1. pc' = "wait" /\ failures = 0
      BY <1>8, <2>4, Zenon DEF AddHistory, BackoffInv
    <3>2. FitsSome(b, 0)
      BY <2>2, <2>4, GoodFits, Zenon
    <3>3. Fitting'
      BY <2>1, <2>3, <3>1, <3>2, Zenon DEF Fitting
    <3> QED
      BY <2>1, <3>1, <3>3, Zenon DEF BackoffInv
  <2>5. CASE ~result.healthy
    <3>1. pc' = "backoff" /\ FitsSome(a, failures)
      BY <1>8, <2>5, Zenon DEF AddHistory, BackoffInv, Fitting
    <3>2. FitsSome(b, Smaller(failures + 1, FailureCap))
      BY <2>1, <2>2, <2>5, <3>1, BadFits, Zenon
    <3>3. FitsSome(GetAll(history), Smaller(failures + 1, FailureCap))'
      BY <2>1, <2>3, <3>2, Zenon
    <3> QED
      BY <2>1, <3>1, <3>3, Zenon DEF BackoffInv
  <2> QED
    BY <2>4, <2>5, Zenon
<1>9. CASE RecordFailure
  <2>1. /\ FitsSome(GetAll(history), failures') /\ pc' = "wait" /\ UNCHANGED history
        /\ currentInterval' = Smaller(Interval * Multiplier * failures', MaxBackoff)
    BY <1>9, Zenon DEF RecordFailure, BackoffInv
  <2>2. failures' # 0
    BY <1>9, ConstantTypes DEF RecordFailure, Smaller, HealthInv, TypeOK
  <2>3. Fitting'
    BY <2>1, Zenon DEF Fitting, GetAll, Start
  <2> QED
    BY <2>1, <2>2, <2>3, Zenon DEF BackoffInv
<1>10. CASE TimerFires
  BY <1>10, FittingKept, Zenon DEF TimerFires, BackoffInv
<1>11. CASE Stop
  BY <1>11, FittingKept, Zenon DEF Stop, BackoffInv
<1> QED
  BY <1>1, <1>2, <1>3, <1>4, <1>5, <1>6, <1>7, <1>8, <1>9, <1>10, <1>11, Zenon
     DEF Next, vars, checker, CheckerStep, CheckStep, CheckerStops, Starts, ManagerStops,
         ReadEntries, ReadStats, ServerChanges, Cancel

\* Between two checks the back-off is what the history calls for, for every
\* capacity and every setting of the back-off (health.go:521-555).
THEOREM BackoffFollowsHistory == Spec => []BackoffMatchesHistory
<1>1. HealthInv /\ BackoffInv => BackoffMatchesHistory
  <2> SUFFICES ASSUME HealthInv, BackoffInv, pc = "wait" PROVE BackoffMatchesHistory
    BY Zenon DEF BackoffMatchesHistory
  <2> DEFINE a == GetAll(history)
  <2>1. a \in Seq(HealthStatus) /\ FitsSome(a, failures)
    <3>1. Ring(history) /\ result \in HealthStatus
      BY Zenon DEF HealthInv, TypeOK, Ring
    <3> QED
      BY <3>1, AddFollows, Zenon DEF BackoffInv, Fitting
  <2>2. currentInterval = IF failures = 0 THEN Interval
                          ELSE Smaller(Interval * Multiplier * failures, MaxBackoff)
    BY Zenon DEF BackoffInv
  <2> QED
    BY <2>1, <2>2, FitsMeans, Zenon DEF BackoffMatchesHistory
<1> QED
  BY <1>1, HealthInvariant, BackoffInit, BackoffStep, PTL DEF Spec
=============================================================================
