---------------------------- MODULE RolloutProofs ----------------------------
(***************************************************************************)
(* Safety of the rollout of PostgreSQL parameters.  What a node has        *)
(* written is compared with the version it writes (Fits): a version is     *)
(* copied out of the replica when ApplyConfig begins, so what the replica  *)
(* does meanwhile does not matter, and a connection that is busy has taken *)
(* a parameter of that version, after which the run writes nothing more.   *)
(***************************************************************************)
EXTENDS ConfigRollout, TLAPS

Maps == UNION {[S -> ParamValues] : S \in SUBSET ParamNames}
Configurations == [params : Maps, version : Nat]
Appliers == [pc : {"asleep", "applying"}, cfg : Configurations, todo : SUBSET ParamNames,
             contexts : SUBSET ParamNames, conn : {"ready", "busy"},
             restart : SUBSET Postmaster, lastApplied : Nat, pending : SUBSET Postmaster]
Uses == [faults : Nat, restarts : Nat]

\* The committed configurations.
Log(cs) ==
    /\ cs \in Seq(Configurations) /\ Len(cs) > 0
    /\ cs[1] = NoConfig
    /\ \A i \in 1 .. Len(cs) : cs[i].version = i - 1

\* Some parameter of configuration c that can be sent is in the file m.
Marked(m, c) ==
    \E p \in DOMAIN c.params \cap ValidNames : p \in DOMAIN m /\ m[p] = c.params[p]

\* In the file m something waits for a restart of a server that runs with r.
Waits(m, r) ==
    \E p \in Postmaster \cap DOMAIN m : p \notin DOMAIN r \/ r[p] # m[p]

\* An applier a that works on the configurations cs, after u's failures and
\* restarts, with the file m and the server's parameters r.  Between two runs the
\* last version has left its mark; during a run it has as soon as the connection
\* is busy, and until then no parameter that can be sent was passed over.
Fits(cs, u, a, m, r) ==
    /\ a \in Appliers /\ m \in Maps /\ r \in Maps /\ DOMAIN r \subseteq DOMAIN m
    /\ a.lastApplied < Len(cs)
    /\ a.pc = "asleep" =>
         /\ a.todo = {} /\ a.restart = {}
         /\ u.faults = 0 => \/ DOMAIN cs[a.lastApplied + 1].params \cap ValidNames = {}
                            \/ Marked(m, cs[a.lastApplied + 1])
    /\ a.pc = "applying" =>
         /\ a.cfg.version < Len(cs) /\ a.cfg = cs[a.cfg.version + 1]
         /\ a.todo \subseteq DOMAIN a.cfg.params
         /\ u.faults = 0 =>
              /\ a.contexts = ParamNames
              /\ a.conn = "ready" => DOMAIN a.cfg.params \cap ValidNames \subseteq a.todo
              /\ a.conn = "busy" => Marked(m, a.cfg)
    /\ u.faults = 0 =>
         /\ a.pending \subseteq DOMAIN m /\ a.restart \subseteq DOMAIN m
         /\ u.restarts = 0 /\ Waits(m, r) => a.pending # {} \/ a.restart # {}

\* Failures and restarts are only ever added.
Later(u, v) ==
    /\ u \in Uses /\ v \in Uses
    /\ v.faults = 0 => u.faults = 0
    /\ v.restarts = 0 => u.restarts = 0

RolloutInv ==
    /\ Log(configs)
    /\ seen \in [NodeNames -> 1 .. Len(configs)]
    /\ used \in Uses
    /\ applier \in [NodeNames -> Appliers]
    /\ auto \in [NodeNames -> Maps]
    /\ running \in [NodeNames -> Maps]
    /\ \A n \in NodeNames : Fits(configs, used, applier[n], auto[n], running[n])

-----------------------------------------------------------------------------
(* Maps and configurations.                                                *)

\* A map in the sense of ClusterFSM.
LEMMA MapsAre ==
    ASSUME NEW f PROVE f \in Maps <=> IsMap(f, ParamNames, ParamValues)
<1>1. ASSUME f \in Maps PROVE IsMap(f, ParamNames, ParamValues)
  BY <1>1, Zenon DEF Maps, IsMap
<1>2. ASSUME IsMap(f, ParamNames, ParamValues) PROVE f \in Maps
  <2>1. f \in [DOMAIN f -> ParamValues] /\ DOMAIN f \in SUBSET ParamNames
    BY <1>2, Zenon DEF IsMap
  <2> QED
    BY <2>1, Zenon DEF Maps
<1> QED
  BY <1>1, <1>2, Zenon

LEMMA EmptyIsMap == EmptyMap \in Maps /\ DOMAIN EmptyMap = {}
<1>1. DOMAIN EmptyMap = {} /\ EmptyMap = [x \in DOMAIN EmptyMap |-> EmptyMap[x]]
  BY Zenon DEF EmptyMap
<1> QED
  BY <1>1, MapsAre, Zenon DEF IsMap

LEMMA NoConfigType ==
    /\ NoConfig \in Configurations
    /\ DOMAIN NoConfig.params = {} /\ NoConfig.version = 0
  BY EmptyIsMap, Zenon DEF NoConfig, Configurations

\* A patch leads from a configuration to the next version
\* (PATCH_POSTGRESQL_CONFIG, fsm.go:252).
LEMMA PatchedType ==
    ASSUME NEW c \in Configurations, NEW f \in Patches
    PROVE  /\ PatchPostgreSQLConfig(c, f) \in Configurations
           /\ PatchPostgreSQLConfig(c, f).version = c.version + 1
<1> DEFINE kept == (DOMAIN c.params \cup DOMAIN f) \ {k \in DOMAIN f : f[k] = ""}
           m == [k \in kept |-> IF k \in DOMAIN f THEN f[k] ELSE c.params[k]]
<1>1. IsMap(f, ParamNames, ParamValues \cup {""})
  BY RolloutAssumption, Zenon
<1>2. IsMap(c.params, ParamNames, ParamValues) /\ c.version \in Nat
  BY MapsAre, Zenon DEF Configurations
<1>3. m \in [kept -> ParamValues] /\ kept \subseteq ParamNames
  BY <1>1, <1>2, Zenon DEF IsMap
<1>4. m \in Maps
  BY <1>3, Zenon DEF Maps
<1>5. PatchPostgreSQLConfig(c, f) = [c EXCEPT !.params = m, !.version = c.version + 1]
  BY Zenon DEF PatchPostgreSQLConfig
<1>6. c.version + 1 \in Nat
  BY <1>2
<1> HIDE DEF m, kept
<1>7. PatchPostgreSQLConfig(c, f) = [params |-> m, version |-> c.version + 1]
  BY <1>5, Zenon DEF Configurations
<1> QED
  BY <1>4, <1>6, <1>7 DEF Configurations

\* The log grows by a patch (postgresqlConfigUpdate, handlers.go:1019).
LEMMA LogGrows ==
    ASSUME NEW cs, Log(cs), NEW f \in Patches
    PROVE  LET ds == Append(cs, PatchPostgreSQLConfig(cs[Len(cs)], f))
           IN  /\ Log(ds) /\ Len(ds) = Len(cs) + 1
               /\ \A i \in 1 .. Len(cs) : ds[i] = cs[i]
<1> DEFINE d == PatchPostgreSQLConfig(cs[Len(cs)], f)
           ds == Append(cs, d)
<1>1. /\ cs \in Seq(Configurations) /\ Len(cs) \in Nat /\ Len(cs) > 0
      /\ cs[Len(cs)] \in Configurations /\ cs[Len(cs)].version = Len(cs) - 1
  BY DEF Log
<1>2. d \in Configurations /\ d.version = Len(cs)
  BY <1>1, PatchedType
<1> HIDE DEF d
<1>3. /\ ds \in Seq(Configurations) /\ Len(ds) = Len(cs) + 1
      /\ \A i \in 1 .. Len(cs) : ds[i] = cs[i]
      /\ ds[Len(cs) + 1] = d
  BY <1>1, <1>2
<1> HIDE DEF ds
<1>4. \A i \in 1 .. Len(ds) : ds[i].version = i - 1
  <2> SUFFICES ASSUME NEW i \in 1 .. Len(ds) PROVE ds[i].version = i - 1
    BY Zenon
  <2>1. CASE i = Len(cs) + 1
    BY <1>1, <1>2, <1>3, <2>1
  <2>2. CASE i # Len(cs) + 1
    <3>1. i \in 1 .. Len(cs)
      BY <1>1, <1>3, <2>2
    <3> QED
      BY <1>3, <3>1, Zenon DEF Log
  <2> QED
    BY <2>1, <2>2, Zenon
<1>5. Log(ds)
  BY <1>1, <1>3, <1>4 DEF Log
<1> QED
  BY <1>3, <1>5, Zenon DEF ds, d

-----------------------------------------------------------------------------
(* Initially, and from step to step.                                       *)

\* An applier that fits goes on fitting when the log grows and more statements
\* have failed.
LEMMA FitsLater ==
    ASSUME NEW cs, NEW ds, NEW u, NEW v, NEW a, NEW m, NEW r,
           Log(cs), Log(ds), Len(cs) <= Len(ds), Later(u, v),
           \A i \in 1 .. Len(cs) : ds[i] = cs[i],
           Fits(cs, u, a, m, r)
    PROVE  Fits(ds, v, a, m, r)
<1>1. /\ Len(cs) \in Nat /\ Len(ds) \in Nat
      /\ a \in Appliers /\ m \in Maps /\ r \in Maps /\ DOMAIN r \subseteq DOMAIN m
      /\ a.lastApplied \in Nat /\ a.cfg.version \in Nat
  BY DEF Log, Fits, Appliers, Configurations
<1>2. a.lastApplied < Len(cs) /\ a.lastApplied < Len(ds)
  BY <1>1 DEF Fits
<1>3. ds[a.lastApplied + 1] = cs[a.lastApplied + 1]
  BY <1>1, <1>2
<1>4. ASSUME a.cfg.version < Len(cs)
      PROVE  a.cfg.version < Len(ds) /\ ds[a.cfg.version + 1] = cs[a.cfg.version + 1]
  BY <1>1, <1>4
<1>5. /\ v.faults = 0 => u.faults = 0
      /\ v.restarts = 0 => u.restarts = 0
  BY Zenon DEF Later
<1> QED
  BY <1>1, <1>2, <1>3, <1>4, <1>5, Zenon DEF Fits

\* NewConfigApplier (pgconfig.go:55) has written nothing of an empty version.
LEMMA NewFits ==
    ASSUME NEW cs, Log(cs), NEW u, NEW m \in Maps, NEW r \in Maps, DOMAIN r \subseteq DOMAIN m,
           u.restarts = 0 => ~Waits(m, r)
    PROVE  Fits(cs, u, NewConfigApplier, m, r)
<1>1. NewConfigApplier \in Appliers
  BY NoConfigType, Zenon DEF NewConfigApplier, Appliers
<1>2. /\ NewConfigApplier.lastApplied = 0 /\ NewConfigApplier.pc = "asleep"
      /\ NewConfigApplier.todo = {} /\ NewConfigApplier.restart = {}
      /\ NewConfigApplier.pending = {}
  BY Zenon DEF NewConfigApplier
<1>3. 0 < Len(cs) /\ cs[0 + 1] = NoConfig
  BY DEF Log
<1>4. DOMAIN cs[0 + 1].params \cap ValidNames = {}
  BY <1>3, NoConfigType, Zenon
<1>5. NewConfigApplier.pc # "applying"
  BY <1>2, Zenon
<1> QED
  BY <1>1, <1>2, <1>3, <1>4, <1>5, Zenon DEF Fits

LEMMA RolloutInit == Init => RolloutInv
<1> SUFFICES ASSUME Init PROVE RolloutInv
  BY Zenon
<1>1. Log(configs) /\ Len(configs) = 1
  <2>1. configs = <<NoConfig>> /\ NoConfig \in Configurations /\ NoConfig.version = 0
    BY NoConfigType, Zenon DEF Init
  <2> HIDE DEF NoConfig
  <2> QED
    BY <2>1 DEF Log
<1>2. seen \in [NodeNames -> 1 .. Len(configs)]
  BY <1>1 DEF Init
<1>3. used \in Uses
  BY Zenon DEF Init, Uses
<1>4. \A n \in NodeNames : Fits(configs, used, applier[n], auto[n], running[n])
  <2> SUFFICES ASSUME NEW n \in NodeNames
               PROVE  Fits(configs, used, applier[n], auto[n], running[n])
    BY Zenon
  <2>1. applier[n] = NewConfigApplier /\ auto[n] = EmptyMap /\ running[n] = EmptyMap
    BY Zenon DEF Init
  <2>2. ~Waits(EmptyMap, EmptyMap)
    BY EmptyIsMap, Zenon DEF Waits
  <2> QED
    BY <1>1, <2>1, <2>2, EmptyIsMap, NewFits, Zenon
<1>5. /\ applier \in [NodeNames -> Appliers]
      /\ auto \in [NodeNames -> Maps]
      /\ running \in [NodeNames -> Maps]
  <2>1. NewConfigApplier \in Appliers
    BY NoConfigType, Zenon DEF NewConfigApplier, Appliers
  <2> QED
    BY <2>1, EmptyIsMap, Zenon DEF Init
<1> QED
  BY <1>1, <1>2, <1>3, <1>4, <1>5, Zenon DEF RolloutInv

\* A step of one node that leaves the log alone keeps the invariant if that node
\* fits afterwards.
LEMMA NodeStep ==
    ASSUME RolloutInv, NEW n \in NodeNames, UNCHANGED configs,
           seen' \in [NodeNames -> 1 .. Len(configs)],
           Later(used, used'),
           NEW a, NEW m, NEW r, Fits(configs, used', a, m, r),
           applier' = [applier EXCEPT ![n] = a],
           auto' = [auto EXCEPT ![n] = m],
           running' = [running EXCEPT ![n] = r]
    PROVE  RolloutInv'
<1>1. a \in Appliers /\ m \in Maps /\ r \in Maps
  BY Zenon DEF Fits
<1>2. /\ applier' \in [NodeNames -> Appliers]
      /\ auto' \in [NodeNames -> Maps]
      /\ running' \in [NodeNames -> Maps]
  BY <1>1, Zenon DEF RolloutInv
<1>3. used' \in Uses
  BY Zenon DEF Later
<1>4. Log(configs) /\ Len(configs) \in Nat
  BY DEF RolloutInv, Log
<1>5. ASSUME NEW x \in NodeNames
      PROVE  Fits(configs, used', applier'[x], auto'[x], running'[x])
  <2>1. CASE x = n
    <3>1. applier'[x] = a /\ auto'[x] = m /\ running'[x] = r
      BY <2>1, Zenon DEF RolloutInv
    <3> QED
      BY <3>1, Zenon
  <2>2. CASE x # n
    <3>1. applier'[x] = applier[x] /\ auto'[x] = auto[x] /\ running'[x] = running[x]
      BY <2>2, Zenon DEF RolloutInv
    <3>2. Fits(configs, used, applier[x], auto[x], running[x])
      BY Zenon DEF RolloutInv
    <3>3. Len(configs) <= Len(configs)
      BY <1>4
    <3>4. Fits(configs, used', applier[x], auto[x], running[x])
      BY <1>4, <3>2, <3>3, FitsLater, Zenon
    <3> QED
      BY <3>1, <3>4, Zenon
  <2> QED
    BY <2>1, <2>2, Zenon
<1> QED
  BY <1>2, <1>3, <1>4, <1>5, Zenon DEF RolloutInv, Log

\* Nothing failed and nothing restarted in a step that leaves used alone.
LEMMA UsedStays ==
    ASSUME RolloutInv, UNCHANGED used
    PROVE  Later(used, used')
  BY Zenon DEF RolloutInv, Later

\* The same for a step that leaves the file and the server alone.
LEMMA ApplierStep ==
    ASSUME RolloutInv, NEW n \in NodeNames,
           UNCHANGED configs, UNCHANGED auto, UNCHANGED running,
           seen' \in [NodeNames -> 1 .. Len(configs)],
           Later(used, used'),
           NEW a, Fits(configs, used', a, auto[n], running[n]),
           applier' = [applier EXCEPT ![n] = a]
    PROVE  RolloutInv'
<1> DEFINE m == auto[n]
           r == running[n]
<1>1. auto' = [auto EXCEPT ![n] = m] /\ running' = [running EXCEPT ![n] = r]
  BY Zenon DEF RolloutInv
<1>2. Fits(configs, used', a, m, r)
  BY Zenon
<1> HIDE DEF m, r
<1> QED
  BY <1>1, <1>2, NodeStep, Zenon

\* What the invariant says of node n.
LEMMA NodeFacts ==
    ASSUME RolloutInv, NEW n \in NodeNames
    PROVE  /\ Log(configs) /\ Len(configs) \in Nat
           /\ seen[n] \in 1 .. Len(configs)
           /\ Config(n) \in Configurations /\ Config(n).version = seen[n] - 1
           /\ Config(n).version < Len(configs) /\ Config(n) = configs[Config(n).version + 1]
           /\ used \in Uses
           /\ applier[n] \in Appliers /\ auto[n] \in Maps /\ running[n] \in Maps
           /\ DOMAIN running[n] \subseteq DOMAIN auto[n]
           /\ Fits(configs, used, applier[n], auto[n], running[n])
<1>1. /\ Log(configs) /\ Len(configs) \in Nat
      /\ seen[n] \in 1 .. Len(configs)
  BY DEF RolloutInv, Log
<1>2. Config(n) \in Configurations /\ Config(n).version = seen[n] - 1
  BY <1>1 DEF Log, Config
<1>3. seen[n] - 1 < Len(configs) /\ (seen[n] - 1) + 1 = seen[n]
  BY <1>1
<1>4. Config(n).version < Len(configs) /\ Config(n) = configs[Config(n).version + 1]
  BY <1>2, <1>3, Zenon DEF Config
<1>5. Fits(configs, used, applier[n], auto[n], running[n])
  BY Zenon DEF RolloutInv
<1>6. DOMAIN running[n] \subseteq DOMAIN auto[n]
  BY <1>5, Zenon DEF Fits
<1>7. applier[n] \in Appliers /\ auto[n] \in Maps /\ running[n] \in Maps
  BY Zenon DEF RolloutInv
<1>8. used \in Uses
  BY Zenon DEF RolloutInv
<1> QED
  BY <1>1, <1>2, <1>4, <1>5, <1>6, <1>7, <1>8, Zenon

\* A failure is counted.
LEMMA FaultCounts ==
    ASSUME used \in Uses, Fault
    PROVE  Later(used, used') /\ used'.faults # 0 /\ used'.restarts = used.restarts
<1>1. /\ used' \in Uses /\ used'.faults = used.faults + 1 /\ used'.restarts = used.restarts
      /\ used.faults \in Nat
  BY DEF Fault, Uses
<1> QED
  BY <1>1 DEF Later

\* A patch at the leader.
LEMMA PatchKeeps ==
    ASSUME RolloutInv, NEW f \in Patches, Patch(f)
    PROVE  RolloutInv'
<1>1. Log(configs) /\ Len(configs) \in Nat
  BY DEF RolloutInv, Log
<1>2. /\ Log(configs') /\ Len(configs') = Len(configs) + 1
      /\ \A i \in 1 .. Len(configs) : configs'[i] = configs[i]
  BY <1>1, LogGrows, Zenon DEF Patch
<1>3. Len(configs) <= Len(configs') /\ seen' \in [NodeNames -> 1 .. Len(configs')]
  BY <1>1, <1>2 DEF RolloutInv, Patch
<1>4. UNCHANGED <<applier, auto, running, used>>
  BY Zenon DEF Patch
<1>5. Later(used, used)
  BY Zenon DEF RolloutInv, Later
<1>6. \A n \in NodeNames : Fits(configs', used, applier[n], auto[n], running[n])
  <2> SUFFICES ASSUME NEW n \in NodeNames
               PROVE  Fits(configs', used, applier[n], auto[n], running[n])
    BY Zenon
  <2>1. Fits(configs, used, applier[n], auto[n], running[n])
    BY Zenon DEF RolloutInv
  <2> QED
    BY <1>1, <1>2, <1>3, <1>5, <2>1, FitsLater, Zenon
<1> QED
  BY <1>2, <1>3, <1>4, <1>6, Zenon DEF RolloutInv

\* A replica applies one more patch.
LEMMA ReplicateKeeps ==
    ASSUME RolloutInv, NEW n \in NodeNames, Replicate(n)
    PROVE  RolloutInv'
<1>1. seen' \in [NodeNames -> 1 .. Len(configs)]
  BY DEF RolloutInv, Replicate, Log
<1> QED
  BY <1>1, Zenon DEF RolloutInv, Replicate

\* A version with no parameters is done at once (pgconfig.go:101).
LEMMA SkipEmptyKeeps ==
    ASSUME RolloutInv, NEW n \in NodeNames, SkipEmpty(n)
    PROVE  RolloutInv'
<1> DEFINE a == [applier[n] EXCEPT !.lastApplied = Config(n).version]
<1>1. Config(n) \in Configurations /\ applier[n] \in Appliers /\ applier[n].pc = "asleep"
  BY NodeFacts, Zenon DEF SkipEmpty
<1>2. /\ a \in Appliers /\ a.pc = "asleep" /\ a.lastApplied = Config(n).version
      /\ a.todo = applier[n].todo /\ a.restart = applier[n].restart
      /\ a.pending = applier[n].pending
  BY <1>1, Zenon DEF Appliers, Configurations
<1>3. /\ applier' = [applier EXCEPT ![n] = a]
      /\ UNCHANGED configs /\ UNCHANGED seen /\ UNCHANGED auto /\ UNCHANGED running
      /\ UNCHANGED used
  BY Zenon DEF SkipEmpty, RolloutInv
<1> HIDE DEF a
<1>4. Fits(configs, used, a, auto[n], running[n])
  <2>1. /\ DOMAIN configs[a.lastApplied + 1].params \cap ValidNames = {}
        /\ a.lastApplied < Len(configs)
    <3>1. DOMAIN Config(n).params = {}
      BY Zenon DEF SkipEmpty
    <3> QED
      BY <1>2, <3>1, NodeFacts, Zenon
  <2>2. /\ applier[n].todo = {} /\ applier[n].restart = {}
        /\ used.faults = 0 =>
             /\ applier[n].pending \subseteq DOMAIN auto[n]
             /\ used.restarts = 0 /\ Waits(auto[n], running[n]) =>
                   applier[n].pending # {} \/ applier[n].restart # {}
    BY <1>1, NodeFacts, Zenon DEF Fits
  <2>3. auto[n] \in Maps /\ running[n] \in Maps /\ DOMAIN running[n] \subseteq DOMAIN auto[n]
    BY NodeFacts, Zenon
  <2>4. a.pc # "applying"
    BY <1>2, Zenon
  <2> QED
    BY <1>2, <2>1, <2>2, <2>3, <2>4, Zenon DEF Fits
<1>5. Later(used, used')
  BY <1>3, UsedStays, Zenon
<1>6. Fits(configs, used', a, auto[n], running[n])
  BY <1>3, <1>4, Zenon
<1>7. seen' \in [NodeNames -> 1 .. Len(configs)]
  BY <1>3, Zenon DEF RolloutInv
<1> QED
  BY <1>3, <1>5, <1>6, <1>7, ApplierStep, Zenon

\* ApplyConfig copies the replica's version and has all of it to do.
LEMMA BeginKeeps ==
    ASSUME RolloutInv, NEW n \in NodeNames, Begin(n)
    PROVE  RolloutInv'
<1>1. PICK known \in SUBSET ParamNames, left \in {"ready", "busy"} :
        /\ (known = ParamNames /\ left = "ready" /\ UNCHANGED used) \/ Fault
        /\ applier' = [applier EXCEPT ![n].pc = "applying", ![n].cfg = Config(n),
                                      ![n].todo = DOMAIN Config(n).params,
                                      ![n].contexts = known, ![n].conn = left,
                                      ![n].restart = {}]
  BY Zenon DEF Begin
<1> DEFINE b == applier[n]
           a == [b EXCEPT !.pc = "applying", !.cfg = Config(n),
                          !.todo = DOMAIN Config(n).params,
                          !.contexts = known, !.conn = left, !.restart = {}]
<1>2. Config(n) \in Configurations /\ b \in Appliers /\ b.pc = "asleep"
  BY NodeFacts, Zenon DEF Begin
<1>3. DOMAIN Config(n).params \subseteq ParamNames
  BY <1>2, MapsAre, Zenon DEF Configurations, IsMap
<1>4. /\ a \in Appliers /\ a.pc = "applying" /\ a.cfg = Config(n)
      /\ a.todo = DOMAIN Config(n).params /\ a.contexts = known /\ a.conn = left
      /\ a.lastApplied = b.lastApplied /\ a.restart = {} /\ a.pending = b.pending
  BY <1>2, <1>3, Zenon DEF Appliers
<1>5. applier' = [applier EXCEPT ![n] = a]
  BY <1>1, Zenon DEF RolloutInv
<1> HIDE DEF a
<1>6. UNCHANGED configs /\ UNCHANGED seen /\ UNCHANGED auto /\ UNCHANGED running
  BY Zenon DEF Begin
<1>7. Later(used, used') /\ (used'.faults = 0 => known = ParamNames /\ left = "ready")
  <2>1. used \in Uses
    BY Zenon DEF RolloutInv
  <2> QED
    BY <1>1, <2>1, FaultCounts, UsedStays, Zenon
<1>8. used'.faults = 0 =>
        /\ a.pending \subseteq DOMAIN auto[n]
        /\ used'.restarts = 0 /\ Waits(auto[n], running[n]) => a.pending # {} \/ a.restart # {}
  <2>1. /\ b.restart = {}
        /\ used.faults = 0 =>
             /\ b.pending \subseteq DOMAIN auto[n]
             /\ used.restarts = 0 /\ Waits(auto[n], running[n]) => b.pending # {} \/ b.restart # {}
    BY <1>2, NodeFacts, Zenon DEF Fits
  <2>2. /\ used'.faults = 0 => used.faults = 0
        /\ used'.restarts = 0 => used.restarts = 0
    BY <1>7, Zenon DEF Later
  <2> QED
    BY <1>4, <2>1, <2>2, Zenon
<1>9. Fits(configs, used', a, auto[n], running[n])
  <2>1. /\ auto[n] \in Maps /\ running[n] \in Maps /\ DOMAIN running[n] \subseteq DOMAIN auto[n]
        /\ Config(n).version < Len(configs) /\ Config(n) = configs[Config(n).version + 1]
    BY NodeFacts, Zenon
  <2>2. b.lastApplied < Len(configs)
    BY NodeFacts, Zenon DEF Fits
  <2>3. a.pc # "asleep" /\ "ready" # "busy"
    BY <1>4, Zenon
  <2> QED
    BY <1>4, <1>7, <1>8, <2>1, <2>2, <2>3, Zenon DEF Fits
<1>10. seen' \in [NodeNames -> 1 .. Len(configs)]
  BY <1>6, Zenon DEF RolloutInv
<1> QED
  BY <1>5, <1>6, <1>7, <1>9, <1>10, ApplierStep, Zenon

\* What the invariant says of a run.
LEMMA RunFacts ==
    ASSUME RolloutInv, NEW n \in NodeNames, applier[n].pc = "applying"
    PROVE  LET b == applier[n]
           IN  /\ b \in Appliers /\ b.lastApplied < Len(configs)
               /\ auto[n] \in Maps /\ running[n] \in Maps
               /\ DOMAIN running[n] \subseteq DOMAIN auto[n]
               /\ b.cfg.version < Len(configs) /\ b.cfg = configs[b.cfg.version + 1]
               /\ b.todo \subseteq DOMAIN b.cfg.params
               /\ used.faults = 0 =>
                    /\ b.contexts = ParamNames
                    /\ b.conn = "ready" => DOMAIN b.cfg.params \cap ValidNames \subseteq b.todo
                    /\ b.conn = "busy" => Marked(auto[n], b.cfg)
                    /\ b.pending \subseteq DOMAIN auto[n] /\ b.restart \subseteq DOMAIN auto[n]
                    /\ used.restarts = 0 /\ Waits(auto[n], running[n]) =>
                          b.pending # {} \/ b.restart # {}
  BY NodeFacts, Zenon DEF Fits

\* ALTER SYSTEM SET of one parameter: the file has the value of the copied
\* version then, which is the mark, and the connection is busy.
LEMMA ApplyParameterKeeps ==
    ASSUME RolloutInv, NEW n \in NodeNames, NEW p \in ParamNames, ApplyParameter(n, p)
    PROVE  RolloutInv'
<1> DEFINE b == applier[n]
           a == [b EXCEPT !.todo = @ \ {p}, !.conn = "busy",
                          !.restart = @ \cup NeedsRestart(n, p)]
           m == auto'[n]
<1>1. b.pc = "applying" /\ p \in b.todo /\ p \in ValidNames
  BY Zenon DEF ApplyParameter, CanSend
<1>2. /\ b \in Appliers /\ b.lastApplied < Len(configs)
      /\ auto[n] \in Maps /\ running[n] \in Maps /\ DOMAIN running[n] \subseteq DOMAIN auto[n]
      /\ b.cfg.version < Len(configs) /\ b.cfg = configs[b.cfg.version + 1]
      /\ b.todo \subseteq DOMAIN b.cfg.params
      /\ used.faults = 0 =>
           /\ b.contexts = ParamNames
           /\ b.pending \subseteq DOMAIN auto[n] /\ b.restart \subseteq DOMAIN auto[n]
           /\ used.restarts = 0 /\ Waits(auto[n], running[n]) => b.pending # {} \/ b.restart # {}
  BY <1>1, RunFacts, Zenon
<1>3. /\ a \in Appliers /\ a.pc = "applying" /\ a.cfg = b.cfg /\ a.todo = b.todo \ {p}
      /\ a.contexts = b.contexts /\ a.lastApplied = b.lastApplied /\ a.conn = "busy"
      /\ a.restart = b.restart \cup NeedsRestart(n, p) /\ a.pending = b.pending
  BY <1>1, <1>2, Zenon DEF Appliers, NeedsRestart
<1>4. p \in DOMAIN b.cfg.params /\ b.cfg.params[p] \in ParamValues
  <2>1. b.cfg.params \in Maps
    BY <1>2, Zenon DEF Appliers, Configurations
  <2> QED
    BY <1>1, <1>2, <2>1, MapsAre, Zenon DEF IsMap
<1>5. /\ applier' = [applier EXCEPT ![n] = a]
      /\ UNCHANGED configs /\ UNCHANGED seen /\ UNCHANGED running
  BY Zenon DEF ApplyParameter, RolloutInv
<1>6. /\ Later(used, used') /\ auto' = [auto EXCEPT ![n] = m]
      /\ m = Altered(n, p) \/ (m = auto[n] /\ used'.faults # 0)
  <2>1. used \in Uses /\ auto \in [NodeNames -> Maps]
    BY Zenon DEF RolloutInv
  <2>2. CASE auto' = [auto EXCEPT ![n] = Altered(n, p)] /\ UNCHANGED used
    BY <2>1, <2>2, UsedStays, Zenon
  <2>3. CASE Fault /\ UNCHANGED auto
    BY <2>1, <2>3, FaultCounts, Zenon
  <2> QED
    BY <2>2, <2>3, Zenon DEF ApplyParameter
<1> HIDE DEF a, m
<1>7. /\ DOMAIN Altered(n, p) = DOMAIN auto[n] \cup {p} /\ Altered(n, p) \in Maps
      /\ Altered(n, p)[p] = b.cfg.params[p]
      /\ \A q \in DOMAIN auto[n] \ {p} : Altered(n, p)[q] = auto[n][q]
  <2>1. IsMap(auto[n], ParamNames, ParamValues)
    BY <1>2, MapsAre, Zenon
  <2>2. IsMap(Altered(n, p), ParamNames, ParamValues)
    BY <1>4, <2>1, Zenon DEF Altered, IsMap, Put
  <2>3. /\ DOMAIN Altered(n, p) = DOMAIN auto[n] \cup {p}
        /\ Altered(n, p)[p] = b.cfg.params[p]
        /\ \A q \in DOMAIN auto[n] \ {p} : Altered(n, p)[q] = auto[n][q]
    BY Zenon DEF Altered, Put
  <2> QED
    BY <2>2, <2>3, MapsAre, Zenon
<1>8. m \in Maps /\ DOMAIN running[n] \subseteq DOMAIN m /\ DOMAIN auto[n] \subseteq DOMAIN m
  BY <1>2, <1>6, <1>7, Zenon
<1>9. ASSUME used'.faults = 0
      PROVE  /\ a.contexts = ParamNames /\ Marked(m, a.cfg)
             /\ a.pending \subseteq DOMAIN m /\ a.restart \subseteq DOMAIN m
             /\ used'.restarts = 0 /\ Waits(m, running[n]) => a.pending # {} \/ a.restart # {}
  <2>1. m = Altered(n, p) /\ used.faults = 0 /\ (used'.restarts = 0 => used.restarts = 0)
    BY <1>6, <1>9, Zenon DEF Later
  <2>2. Marked(m, a.cfg)
    BY <1>1, <1>3, <1>4, <1>7, <2>1, Zenon DEF Marked
  <2>3. a.contexts = ParamNames /\ a.pending \subseteq DOMAIN m /\ a.restart \subseteq DOMAIN m
    BY <1>2, <1>3, <1>7, <2>1, Zenon DEF NeedsRestart
  <2>4. ASSUME used'.restarts = 0, Waits(m, running[n])
        PROVE  a.pending # {} \/ a.restart # {}
    <3>1. CASE p \in Postmaster
      <4>1. p \in a.restart
        BY <1>2, <1>3, <2>1, <3>1, Zenon DEF NeedsRestart
      <4> QED
        BY <4>1, Zenon
    <3>2. CASE p \notin Postmaster
      <4>1. Waits(auto[n], running[n])
        BY <1>7, <2>1, <2>4, <3>2, Zenon DEF Waits
      <4>2. b.pending # {} \/ b.restart # {}
        BY <1>2, <2>1, <2>4, <4>1, Zenon
      <4> QED
        BY <1>3, <4>2, Zenon
    <3> QED
      BY <3>1, <3>2, Zenon
  <2> QED
    BY <2>2, <2>3, <2>4, Zenon
<1>10. Fits(configs, used', a, m, running[n])
  <2>1. a.pc # "asleep" /\ a.todo \subseteq DOMAIN a.cfg.params /\ a.conn # "ready"
    BY <1>2, <1>3, Zenon
  <2> QED
    BY <1>2, <1>3, <1>8, <1>9, <2>1, Zenon DEF Fits
<1>11. /\ running' = [running EXCEPT ![n] = running[n]]
       /\ seen' \in [NodeNames -> 1 .. Len(configs)]
  BY <1>5, Zenon DEF RolloutInv
<1> QED
  BY <1>5, <1>6, <1>10, <1>11, NodeStep, Zenon

\* A parameter that cannot be sent is passed over.
LEMMA ParameterFailsKeeps ==
    ASSUME RolloutInv, NEW n \in NodeNames, NEW p \in ParamNames, ParameterFails(n, p)
    PROVE  RolloutInv'
<1>1. PICK left \in {"ready", "busy"} :
        /\ \/ ~CanSend(n, p) /\ left = applier[n].conn /\ UNCHANGED used
           \/ CanSend(n, p) /\ Fault
        /\ applier' = [applier EXCEPT ![n].todo = @ \ {p}, ![n].conn = left]
  BY Zenon DEF ParameterFails
<1> DEFINE b == applier[n]
           a == [b EXCEPT !.todo = @ \ {p}, !.conn = left]
<1>2. b.pc = "applying"
  BY Zenon DEF ParameterFails
<1>3. /\ b \in Appliers /\ b.lastApplied < Len(configs)
      /\ auto[n] \in Maps /\ running[n] \in Maps /\ DOMAIN running[n] \subseteq DOMAIN auto[n]
      /\ b.cfg.version < Len(configs) /\ b.cfg = configs[b.cfg.version + 1]
      /\ b.todo \subseteq DOMAIN b.cfg.params
      /\ used.faults = 0 =>
           /\ b.contexts = ParamNames
           /\ b.conn = "ready" => DOMAIN b.cfg.params \cap ValidNames \subseteq b.todo
           /\ b.conn = "busy" => Marked(auto[n], b.cfg)
           /\ b.pending \subseteq DOMAIN auto[n] /\ b.restart \subseteq DOMAIN auto[n]
           /\ used.restarts = 0 /\ Waits(auto[n], running[n]) => b.pending # {} \/ b.restart # {}
  BY <1>2, RunFacts, Zenon
<1>4. /\ a \in Appliers /\ a.pc = "applying" /\ a.cfg = b.cfg /\ a.todo = b.todo \ {p}
      /\ a.contexts = b.contexts /\ a.lastApplied = b.lastApplied /\ a.conn = left
      /\ a.restart = b.restart /\ a.pending = b.pending
  BY <1>2, <1>3, Zenon DEF Appliers
<1>5. /\ applier' = [applier EXCEPT ![n] = a]
      /\ UNCHANGED configs /\ UNCHANGED seen /\ UNCHANGED auto /\ UNCHANGED running
  BY <1>1, Zenon DEF ParameterFails, RolloutInv
<1>6. /\ Later(used, used')
      /\ used'.faults = 0 => ~CanSend(n, p) /\ left = b.conn
  <2>1. used \in Uses
    BY Zenon DEF RolloutInv
  <2> QED
    BY <1>1, <2>1, FaultCounts, UsedStays, Zenon
<1> HIDE DEF a
<1>7. ASSUME used'.faults = 0
      PROVE  /\ a.contexts = ParamNames
             /\ a.conn = "ready" => DOMAIN a.cfg.params \cap ValidNames \subseteq a.todo
             /\ a.conn = "busy" => Marked(auto[n], a.cfg)
             /\ a.pending \subseteq DOMAIN auto[n] /\ a.restart \subseteq DOMAIN auto[n]
             /\ used'.restarts = 0 /\ Waits(auto[n], running[n]) =>
                   a.pending # {} \/ a.restart # {}
  <2>1. /\ used.faults = 0 /\ (used'.restarts = 0 => used.restarts = 0)
        /\ a.conn = b.conn
    BY <1>4, <1>6, <1>7, Zenon DEF Later
  <2>2. a.conn = "ready" => p \notin ValidNames
    BY <1>6, <1>7, <2>1, Zenon DEF CanSend
  <2> QED
    BY <1>3, <1>4, <2>1, <2>2, Zenon
<1>8. Fits(configs, used', a, auto[n], running[n])
  <2>1. a.pc # "asleep" /\ a.todo \subseteq DOMAIN a.cfg.params
    BY <1>3, <1>4, Zenon
  <2> QED
    BY <1>3, <1>4, <1>7, <2>1, Zenon DEF Fits
<1>9. seen' \in [NodeNames -> 1 .. Len(configs)]
  BY <1>5, Zenon DEF RolloutInv
<1> QED
  BY <1>5, <1>6, <1>8, <1>9, ApplierStep, Zenon

\* pg_reload_conf gives the server parameters of the file only.
LEMMA ReloadedIsMap ==
    ASSUME RolloutInv, NEW n \in NodeNames
    PROVE  /\ Reloaded(n) \in Maps /\ DOMAIN Reloaded(n) \subseteq DOMAIN auto[n]
           /\ Waits(auto[n], Reloaded(n)) => Waits(auto[n], running[n])
<1>1. /\ IsMap(auto[n], ParamNames, ParamValues) /\ IsMap(running[n], ParamNames, ParamValues)
      /\ DOMAIN running[n] \subseteq DOMAIN auto[n]
  BY NodeFacts, MapsAre, Zenon
<1> DEFINE D == DOMAIN running[n] \cup (DOMAIN auto[n] \ Postmaster)
<1>2. D \subseteq DOMAIN auto[n] /\ D \subseteq ParamNames
  BY <1>1, Zenon DEF IsMap
<1>3. DOMAIN Reloaded(n) = D
  BY Zenon DEF Reloaded
<1>4. \A p \in D : Reloaded(n)[p] \in ParamValues
  BY <1>1, Zenon DEF Reloaded, IsMap
<1>5. Reloaded(n) = [p \in DOMAIN Reloaded(n) |-> Reloaded(n)[p]]
  BY Zenon DEF Reloaded
<1> HIDE DEF D
<1>6. IsMap(Reloaded(n), ParamNames, ParamValues)
  BY <1>2, <1>3, <1>4, <1>5, Zenon DEF IsMap
<1>7. Waits(auto[n], Reloaded(n)) => Waits(auto[n], running[n])
  <2> SUFFICES ASSUME NEW p \in Postmaster \cap DOMAIN auto[n],
                      p \notin DOMAIN Reloaded(n) \/ Reloaded(n)[p] # auto[n][p]
               PROVE  p \notin DOMAIN running[n] \/ running[n][p] # auto[n][p]
    BY Zenon DEF Waits
  <2>1. p \in DOMAIN running[n] => p \in DOMAIN Reloaded(n) /\ Reloaded(n)[p] = running[n][p]
    BY Zenon DEF Reloaded
  <2> QED
    BY <2>1, Zenon
<1> QED
  BY <1>2, <1>3, <1>6, <1>7, MapsAre, Zenon

\* The run ends: a connection that is still ready means that nothing of the
\* version could be sent; if anything sent takes a restart, it is pending.
LEMMA FinishKeeps ==
    ASSUME RolloutInv, NEW n \in NodeNames, Finish(n)
    PROVE  RolloutInv'
<1> DEFINE b == applier[n]
           a == [b EXCEPT !.pc = "asleep", !.cfg = NoConfig, !.lastApplied = b.cfg.version,
                          !.pending = PendingAfter(n), !.restart = {}, !.contexts = {},
                          !.conn = "ready"]
           m == auto[n]
           r == running'[n]
<1>1. b.pc = "applying" /\ b.todo = {}
  BY Zenon DEF Finish
<1>2. /\ b \in Appliers
      /\ m \in Maps /\ running[n] \in Maps /\ DOMAIN running[n] \subseteq DOMAIN m
      /\ b.cfg.version < Len(configs) /\ b.cfg = configs[b.cfg.version + 1]
      /\ used.faults = 0 =>
           /\ b.conn = "ready" => DOMAIN b.cfg.params \cap ValidNames \subseteq b.todo
           /\ b.conn = "busy" => Marked(m, b.cfg)
           /\ b.pending \subseteq DOMAIN m /\ b.restart \subseteq DOMAIN m
           /\ used.restarts = 0 /\ Waits(m, running[n]) => b.pending # {} \/ b.restart # {}
  BY <1>1, RunFacts, Zenon
<1>3. /\ PendingAfter(n) \in SUBSET Postmaster /\ b.cfg.version \in Nat
      /\ b.conn = "ready" \/ b.conn = "busy"
  BY <1>2, Zenon DEF PendingAfter, Appliers, Configurations
<1>4. /\ a \in Appliers /\ a.pc = "asleep" /\ a.todo = {} /\ a.restart = {}
      /\ a.lastApplied = b.cfg.version /\ a.pending = PendingAfter(n)
  BY <1>1, <1>2, <1>3, NoConfigType, Zenon DEF Appliers
<1>5. /\ applier' = [applier EXCEPT ![n] = a]
      /\ UNCHANGED configs /\ UNCHANGED seen /\ auto' = [auto EXCEPT ![n] = m]
  BY Zenon DEF Finish, RolloutInv
<1>6. Later(used, used')
  <2>1. used \in Uses
    BY Zenon DEF RolloutInv
  <2> QED
    BY <2>1, FaultCounts, UsedStays, Zenon DEF Finish
<1>7. /\ running' = [running EXCEPT ![n] = r]
      /\ r \in Maps /\ DOMAIN r \subseteq DOMAIN m
      /\ Waits(m, r) => Waits(m, running[n])
  <2>1. CASE UNCHANGED running
    BY <1>2, <2>1, Zenon DEF RolloutInv
  <2>2. CASE running' = [running EXCEPT ![n] = Reloaded(n)]
    <3>1. r = Reloaded(n)
      BY <2>2, Zenon DEF RolloutInv
    <3> QED
      BY <2>2, <3>1, ReloadedIsMap, Zenon
  <2> QED
    BY <2>1, <2>2, Zenon DEF Finish
<1> HIDE DEF a, m, r
<1>8. ASSUME used'.faults = 0
      PROVE  /\ DOMAIN b.cfg.params \cap ValidNames = {} \/ Marked(m, b.cfg)
             /\ a.pending \subseteq DOMAIN m
             /\ used'.restarts = 0 /\ Waits(m, r) => a.pending # {}
  <2>1. used.faults = 0 /\ (used'.restarts = 0 => used.restarts = 0)
    BY <1>6, <1>8, Zenon DEF Later
  <2>2. DOMAIN b.cfg.params \cap ValidNames = {} \/ Marked(m, b.cfg)
    BY <1>1, <1>2, <1>3, <2>1, Zenon
  <2>3. /\ a.pending \subseteq DOMAIN m
        /\ b.pending # {} \/ b.restart # {} => a.pending # {}
    BY <1>2, <1>4, <2>1, Zenon DEF PendingAfter
  <2> QED
    BY <1>2, <1>7, <2>1, <2>2, <2>3, Zenon
<1>9. Fits(configs, used', a, m, r)
  <2>1. a.pc # "applying" /\ configs[a.lastApplied + 1] = b.cfg /\ a.lastApplied < Len(configs)
    BY <1>2, <1>4, Zenon
  <2> QED
    BY <1>2, <1>4, <1>7, <1>8, <2>1, Zenon DEF Fits
<1>10. seen' \in [NodeNames -> 1 .. Len(configs)]
  BY <1>5, Zenon DEF RolloutInv
<1> QED
  BY <1>5, <1>6, <1>7, <1>9, <1>10, NodeStep, Zenon

\* A restart of PostgreSQL takes the whole file over.
LEMMA PgRestartKeeps ==
    ASSUME RolloutInv, NEW n \in NodeNames, PgRestart(n)
    PROVE  RolloutInv'
<1> DEFINE a == applier[n]
           m == auto[n]
           r == auto[n]
<1>1. Fits(configs, used, a, m, running[n])
  BY NodeFacts, Zenon
<1>2. Fits(configs, used, a, m, r)
  <2>1. ~Waits(m, r)
    BY Zenon DEF Waits
  <2> QED
    BY <1>1, <2>1, Zenon DEF Fits
<1>3. /\ applier' = [applier EXCEPT ![n] = a] /\ auto' = [auto EXCEPT ![n] = m]
      /\ running' = [running EXCEPT ![n] = r]
      /\ UNCHANGED configs /\ UNCHANGED seen /\ UNCHANGED used
  BY Zenon DEF PgRestart, RolloutInv
<1>4. Later(used, used')
  BY <1>3, UsedStays, Zenon
<1>5. seen' \in [NodeNames -> 1 .. Len(configs)]
  BY <1>3, Zenon DEF RolloutInv
<1>6. Fits(configs, used', a, m, r)
  BY <1>2, <1>3, Zenon
<1> HIDE DEF a, m, r
<1> QED
  BY <1>3, <1>4, <1>5, <1>6, NodeStep, Zenon

\* A daemon that restarts begins again with the empty version 0, of which there
\* is nothing to write.
LEMMA DaemonRestartKeeps ==
    ASSUME RolloutInv, NEW n \in NodeNames, DaemonRestart(n)
    PROVE  RolloutInv'
<1>1. /\ UNCHANGED configs /\ UNCHANGED auto /\ UNCHANGED running
      /\ applier' = [applier EXCEPT ![n] = NewConfigApplier]
  BY Zenon DEF DaemonRestart
<1>2. Later(used, used') /\ used'.restarts # 0
  <2>1. used \in Uses /\ used' = [used EXCEPT !.restarts = @ + 1]
    BY Zenon DEF DaemonRestart, RolloutInv
  <2>2. /\ used' \in Uses /\ used'.faults = used.faults /\ used'.restarts = used.restarts + 1
        /\ used.restarts \in Nat
    BY <2>1 DEF Uses
  <2> QED
    BY <2>1, <2>2 DEF Later
<1>3. PICK i \in 1 .. seen[n] : seen' = [seen EXCEPT ![n] = i]
  BY Zenon DEF DaemonRestart
<1>4. i \in 1 .. Len(configs)
  BY <1>3, NodeFacts
<1>5. seen' \in [NodeNames -> 1 .. Len(configs)]
  BY <1>3, <1>4, Zenon DEF RolloutInv
<1>6. Fits(configs, used', NewConfigApplier, auto[n], running[n])
  BY <1>2, NodeFacts, NewFits, Zenon
<1> QED
  BY <1>1, <1>2, <1>5, <1>6, ApplierStep, Zenon

LEMMA RolloutStep == RolloutInv /\ [Next]_vars => RolloutInv'
<1> SUFFICES ASSUME RolloutInv, [Next]_vars PROVE RolloutInv'
  BY Zenon
<1>1. CASE UNCHANGED vars
  BY <1>1, Zenon DEF vars, RolloutInv
<1>2. CASE Next
  BY <1>2, PatchKeeps, ReplicateKeeps, SkipEmptyKeeps, BeginKeeps, ApplyParameterKeeps,
     ParameterFailsKeeps, FinishKeeps, PgRestartKeeps, DaemonRestartKeeps, Zenon
     DEF Next, Apply
<1> QED
  BY <1>1, <1>2, Zenon

-----------------------------------------------------------------------------
(* The theorems.                                                           *)

\* The invariant holds in every behaviour of the rollout.
THEOREM RolloutInvariant == Spec => []RolloutInv
<1> QED
  BY RolloutInit, RolloutStep, PTL DEF Spec

\* Types of the rollout: versions count the patches, no empty value is stored
\* or written, and no node says it applied a version nobody committed
\* (PATCH_POSTGRESQL_CONFIG, fsm.go:252, and ApplyConfig, pgconfig.go:85).
THEOREM RolloutTypes == Spec => []TypeOK
<1>1. RolloutInv => TypeOK
  <2> SUFFICES ASSUME RolloutInv PROVE TypeOK
    BY Zenon
  <2>1. \A c \in Configurations : IsConfig(c)
    BY MapsAre, Zenon DEF Configurations, IsConfig
  <2>2. /\ configs \in Seq(Configurations) /\ Len(configs) \in Nat
        /\ DOMAIN configs = 1 .. Len(configs)
        /\ \A i \in 1 .. Len(configs) : configs[i].version = i - 1
    BY DEF RolloutInv, Log
  <2>3. \A i \in DOMAIN configs : IsConfig(configs[i]) /\ configs[i].version = i - 1
    BY <2>1, <2>2
  <2>4. seen \in [NodeNames -> DOMAIN configs]
    BY <2>2, Zenon DEF RolloutInv
  <2>5. ASSUME NEW n \in NodeNames
        PROVE  /\ applier[n].pc \in {"asleep", "applying"}
               /\ IsConfig(applier[n].cfg)
               /\ applier[n].todo \subseteq DOMAIN applier[n].cfg.params
               /\ applier[n].conn \in {"ready", "busy"}
               /\ applier[n].restart \subseteq Postmaster /\ applier[n].pending \subseteq Postmaster
               /\ applier[n].lastApplied \in 0 .. Len(configs) - 1
               /\ IsMap(auto[n], ParamNames, ParamValues)
               /\ IsMap(running[n], ParamNames, ParamValues)
    <3>1. /\ applier[n] \in Appliers /\ auto[n] \in Maps /\ running[n] \in Maps
          /\ Fits(configs, used, applier[n], auto[n], running[n])
      BY <2>5, NodeFacts, Zenon
    <3>2. /\ applier[n].pc \in {"asleep", "applying"} /\ applier[n].cfg \in Configurations
          /\ applier[n].conn \in {"ready", "busy"}
          /\ applier[n].restart \subseteq Postmaster /\ applier[n].pending \subseteq Postmaster
          /\ applier[n].lastApplied \in Nat
      BY <3>1, Zenon DEF Appliers
    <3>3. applier[n].todo \subseteq DOMAIN applier[n].cfg.params
      BY <3>1, <3>2, Zenon DEF Fits
    <3>4. applier[n].lastApplied < Len(configs)
      BY <3>1, Zenon DEF Fits
    <3>5. applier[n].lastApplied \in 0 .. Len(configs) - 1
      BY <2>2, <3>2, <3>4
    <3> QED
      BY <2>1, <3>1, <3>2, <3>3, <3>5, MapsAre, Zenon
  <2> QED
    BY <2>3, <2>4, <2>5, Zenon DEF TypeOK
<1> QED
  BY <1>1, RolloutInvariant, PTL

\* The version a node says it applied has left its mark (ApplyConfig,
\* pgconfig.go:90 and 143): for any parameters, patches and nodes, however far the
\* replica moves while the run goes on, one parameter of the version at least is in
\* the file with that version's value, unless none has a valid name or a statement
\* failed for another reason than the busy connection.
THEOREM MarkLeft == Spec => []AppliedLeavesMark
<1>1. RolloutInv => AppliedLeavesMark
  <2> SUFFICES ASSUME RolloutInv, NEW n \in NodeNames,
                      applier[n].pc = "asleep", used.faults = 0,
                      Sendable(applier[n].lastApplied) # {}
               PROVE  \E p \in Sendable(applier[n].lastApplied) :
                         /\ p \in DOMAIN auto[n]
                         /\ auto[n][p] = configs[applier[n].lastApplied + 1].params[p]
    BY Zenon DEF AppliedLeavesMark
  <2>1. Marked(auto[n], configs[applier[n].lastApplied + 1])
    BY NodeFacts, Zenon DEF Fits, Sendable
  <2> QED
    BY <2>1, Zenon DEF Marked, Sendable
<1> QED
  BY <1>1, RolloutInvariant, PTL

\* Something this daemon wrote that waits for a restart of PostgreSQL keeps
\* IsPendingRestart true whatever is patched and applied later, and only
\* parameters of the file are pending (pgconfig.go:144-147).
THEOREM RestartsFlagged == Spec => []RestartFlagged
<1>1. RolloutInv => RestartFlagged
  <2> SUFFICES ASSUME RolloutInv, used.faults = 0, NEW n \in NodeNames
               PROVE  /\ applier[n].pending \subseteq DOMAIN auto[n]
                      /\ /\ used.restarts = 0 /\ applier[n].pc = "asleep"
                         /\ \E p \in Postmaster : Waiting(n, p)
                         => applier[n].pending # {}
    BY Zenon DEF RestartFlagged
  <2>1. /\ applier[n].pending \subseteq DOMAIN auto[n]
        /\ applier[n].pc = "asleep" => applier[n].restart = {}
        /\ used.restarts = 0 /\ Waits(auto[n], running[n]) =>
              applier[n].pending # {} \/ applier[n].restart # {}
    BY NodeFacts, Zenon DEF Fits
  <2>2. (\E p \in Postmaster : Waiting(n, p)) => Waits(auto[n], running[n])
    BY Zenon DEF Waiting, Waits
  <2> QED
    BY <2>1, <2>2, Zenon
<1> QED
  BY <1>1, RolloutInvariant, PTL
=============================================================================
