----------------------------- MODULE VipProofs -----------------------------
(***************************************************************************)
(* Proofs about VipManager, for any number of observers, any capacity of   *)
(* obsCh and any bounds on elections, faults and restarts.                 *)
(***************************************************************************)
EXTENDS VipManager, FiniteSetTheorems, SequenceTheorems, TLAPS

-----------------------------------------------------------------------------
(* Telling the observers.                                                  *)

\* The channel takes observations up to its capacity, and holds one afterwards
\* if anybody is registered.
LEMMA EmitFills ==
    ASSUME TypeOK, NEW o \in Observations, Emit(o)
    PROVE  /\ obsCh' \in Seq(Observations) /\ Len(obsCh') <= ObsCap
           /\ registered # {} => obsCh' # <<>>
<1> DEFINE room == ObsCap - Len(obsCh)
           copies == IF Cardinality(registered) < room THEN Cardinality(registered) ELSE room
           tail == [i \in 1 .. copies |-> o]
<1>1. obsCh \in Seq(Observations) /\ Len(obsCh) \in Nat /\ Len(obsCh) <= ObsCap
  BY DEF TypeOK
<1>2. /\ IsFiniteSet(registered) /\ Cardinality(registered) \in Nat
      /\ registered # {} => Cardinality(registered) # 0
  BY VipAssumption, FS_Subset, FS_CardinalityType, FS_EmptySet, Zenon DEF TypeOK
<1>3. /\ copies \in Nat /\ copies <= room
      /\ registered # {} => Len(obsCh) + copies # 0
  BY <1>1, <1>2, VipAssumption
<1> HIDE DEF copies
<1>4. tail \in Seq(Observations) /\ Len(tail) = copies
  BY <1>3
<1> HIDE DEF tail
<1>5. obsCh' = obsCh \o tail
  BY Zenon DEF Emit, tail, copies
<1>6. obsCh' \in Seq(Observations) /\ Len(obsCh') = Len(obsCh) + copies
  BY <1>1, <1>4, <1>5, ConcatProperties, Zenon
<1>7. registered # {} => obsCh' # <<>>
  BY <1>1, <1>3, <1>6, EmptySeq, Zenon
<1> QED
  BY <1>1, <1>3, <1>6, <1>7, VipAssumption

\* What is left after an observation was read.
LEMMA TailFits ==
    ASSUME TypeOK, obsCh # <<>>
    PROVE  /\ Head(obsCh) \in Observations
           /\ Tail(obsCh) \in Seq(Observations) /\ Len(Tail(obsCh)) <= ObsCap
<1>1. obsCh \in Seq(Observations) /\ Len(obsCh) \in Nat /\ Len(obsCh) <= ObsCap
  BY DEF TypeOK
<1>2. /\ Head(obsCh) \in Observations /\ Tail(obsCh) \in Seq(Observations)
      /\ Len(Tail(obsCh)) = Len(obsCh) - 1
  BY <1>1, HeadTailProperties, Zenon
<1> QED
  BY <1>1, <1>2, VipAssumption

-----------------------------------------------------------------------------
(* The invariant.  A campaign that was won has a watcher, until a watcher  *)
(* has signalled the loss: Campaign starts it before it returns, and every *)
(* watcher that ends fills lostCh.                                         *)

Watched == mgr.pc \in {"assign", "announce", "hold"} => lostCh \/ watchers # {}

\* LossIsNoticed from the moment the campaign is won.
Noticed ==
    mgr.pc \in {"assign", "announce", "hold"} /\ role # "leader" =>
        due \/ lostCh \/ (watchers # {} /\ obsCh # <<>>)

\* A campaign that waits has an observer registered that no watcher has.
Registered == mgr.pc \in {"check", "wait"} => mgr.obs \in registered \ watchers

VipInv == TypeOK /\ Registered /\ Watched /\ Noticed /\ AddressOwned

LEMMA VipInit == Init => VipInv
<1> SUFFICES ASSUME Init PROVE VipInv
  BY Zenon
<1>1. <<>> \in Seq(Observations) /\ Len(<<>>) = 0
  BY EmptySeq, Zenon
<1>2. TypeOK
  <2>1. obsCh \in Seq(Observations) /\ Len(obsCh) <= ObsCap
    BY <1>1, VipAssumption DEF Init, NewProcess
  <2>2. mgr = [pc |-> "campaign", obs |-> "none"] /\ registered = {} /\ watchers = {}
    BY Zenon DEF Init, NewProcess
  <2>3. used \in [elections : Nat, faults : Nat, restarts : Nat]
    BY Zenon DEF Init
  <2>4. lostCh = FALSE /\ isOwner = FALSE /\ cancelled = FALSE
    BY Zenon DEF Init, NewProcess
  <2>5. mgr \in [pc : {"campaign", "check", "wait", "assign", "announce", "hold", "failed",
                     "sleep", "stopping", "stopped"}, obs : Observers \cup {"none"}]
    BY <2>2, Zenon
  <2> QED
    BY <2>1, <2>2, <2>3, <2>4, <2>5, Zenon DEF Init, TypeOK
<1> QED
  BY <1>2, Zenon DEF Init, NewProcess, VipInv, Registered, Watched, Noticed, AddressOwned

Used == [elections : Nat, faults : Nat, restarts : Nat]

LEMMA UsedGrows ==
    \A u \in Used :
        /\ [u EXCEPT !.elections = @ + 1] \in Used
        /\ [u EXCEPT !.elections = @ + 1].restarts = u.restarts
        /\ [u EXCEPT !.faults = @ + 1] \in Used
        /\ [u EXCEPT !.faults = @ + 1].restarts = u.restarts
        /\ [u EXCEPT !.restarts = @ + 1] \in Used
        /\ [u EXCEPT !.restarts = @ + 1].restarts # 0
BY DEF Used

-----------------------------------------------------------------------------
(* Steps, by what they touch.                                              *)

\* Raft.
LEMMA RaftKeeps ==
    ASSUME VipInv, WinElection \/ StepDown \/ TellLoss
    PROVE  VipInv'
<1> USE DEF VipInv
<1>1. UNCHANGED <<lostCh, registered, watchers, mgr, isOwner, address, cancelled>>
  BY Zenon DEF WinElection, StepDown, TellLoss
<1>2. /\ obsCh' \in Seq(Observations) /\ Len(obsCh') <= ObsCap
      /\ obsCh' = obsCh \/ (registered # {} => obsCh' # <<>>)
  <2>1. CASE UNCHANGED obsCh
    BY <2>1, Zenon DEF TypeOK
  <2>2. CASE \E o \in Observations : Emit(o)
    BY <2>2, EmitFills, Zenon
  <2> QED
    BY <2>1, <2>2, Zenon DEF WinElection, StepDown, TellLoss, Observations
<1>3. used' \in Used /\ used'.restarts = used.restarts
  <2>1. used' = used \/ used' = [used EXCEPT !.elections = @ + 1]
    BY Zenon DEF WinElection, StepDown, TellLoss
  <2> QED
    BY <2>1, UsedGrows, Zenon DEF TypeOK, Used
<1>4. role' \in {"leader", "follower"} /\ due' \in BOOLEAN
  BY Zenon DEF WinElection, StepDown, TellLoss, TypeOK
<1>5. TypeOK'
  BY <1>1, <1>2, <1>3, <1>4, Zenon DEF TypeOK, Used
<1>6. Registered' /\ Watched' /\ AddressOwned'
  BY <1>1, <1>3, Zenon DEF Registered, Watched, AddressOwned
<1>7. Noticed'
  <2>1. CASE WinElection
    BY <2>1, Zenon DEF WinElection, Noticed
  <2>2. CASE StepDown
    BY <2>2, Zenon DEF StepDown, Noticed
  <2>3. CASE TellLoss
    <3>1. registered # {} => obsCh' # <<>>
      BY <2>3, EmitFills, Zenon DEF TellLoss, Observations
    <3> QED
      BY <1>1, <3>1, Zenon DEF Noticed, Watched, TypeOK
  <2> QED
    BY <2>1, <2>2, <2>3, Zenon
<1> QED
  BY <1>5, <1>6, <1>7, Zenon

\* Campaign and its watchers.
LEMMA CampaignKeeps ==
    ASSUME VipInv,
           RegisterObserver \/ CheckState \/ Observe \/ CampaignCancelled
    PROVE  VipInv'
<1> USE DEF VipInv
<1>1. UNCHANGED <<role, due, lostCh, isOwner, address, cancelled, used>>
  BY Zenon DEF RegisterObserver, CheckState, Observe, CampaignCancelled
<1>2. mgr.pc # "announce"
  BY Zenon DEF RegisterObserver, CheckState, Observe, CampaignCancelled
<1>3. AddressOwned'
  BY <1>1, <1>2, Zenon DEF AddressOwned
<1>4. CASE RegisterObserver
  BY <1>1, <1>3, <1>4 DEF RegisterObserver, TypeOK, Registered, Watched, Noticed
<1>5. CASE CheckState
  BY <1>1, <1>3, <1>5 DEF CheckState, Goto, TypeOK, Registered, Watched, Noticed
<1>6. CASE Observe
  BY <1>1, <1>3, <1>6, TailFits, Zenon DEF Observe, Goto, TypeOK, Registered, Watched, Noticed
<1>7. CASE CampaignCancelled
  BY <1>1, <1>3, <1>7, Zenon DEF CampaignCancelled, Goto, TypeOK, Registered, Watched, Noticed
<1> QED
  BY <1>4, <1>5, <1>6, <1>7, Zenon

LEMMA WatchKeeps ==
    ASSUME VipInv, NEW x \in Observers, Watch(x)
    PROVE  VipInv'
<1> USE DEF VipInv
<1>1. UNCHANGED <<role, due, mgr, isOwner, address, cancelled, used>>
  BY Zenon DEF Watch
<1>2. /\ x \in watchers /\ Head(obsCh) \in Observations
      /\ obsCh' \in Seq(Observations) /\ Len(obsCh') <= ObsCap
  BY TailFits, Zenon DEF Watch
<1>3. CASE MeansLoss(Head(obsCh))
  BY <1>1, <1>2, <1>3 DEF Watch, TypeOK, Registered, Watched, Noticed, AddressOwned
<1>4. CASE ~MeansLoss(Head(obsCh))
  <2>1. role = "leader" /\ UNCHANGED <<lostCh, registered, watchers>>
    BY <1>4, Zenon DEF Watch, MeansLoss
  <2> QED
    BY <1>1, <1>2, <2>1 DEF TypeOK, Registered, Watched, Noticed, AddressOwned
<1> QED
  BY <1>3, <1>4, Zenon

\* removeVIP, from the point of view of isOwner and of the address.
LEMMA RemoveKeeps ==
    ASSUME VipInv, RemoveVIP, mgr.pc # "announce"
    PROVE  isOwner' \in BOOLEAN /\ address' \in BOOLEAN /\ used' \in Used /\ AddressOwned'
<1>1. used \in Used /\ isOwner \in BOOLEAN /\ address \in BOOLEAN
  BY Zenon DEF VipInv, TypeOK, Used
<1>2. used' = used \/ used' = [used EXCEPT !.faults = @ + 1]
  BY Zenon DEF RemoveVIP, NetFault
<1>3. used' \in Used /\ used'.restarts = used.restarts
  BY <1>1, <1>2, UsedGrows, Zenon
<1>4. isOwner' \in BOOLEAN /\ address' \in BOOLEAN
  BY <1>1, Zenon DEF RemoveVIP
<1>5. AddressOwned'
  BY <1>3, Zenon DEF VipInv, RemoveVIP, AddressOwned
<1> QED
  BY <1>3, <1>4, <1>5, Zenon

\* The manager outside a campaign.
LEMMA ManagerKeeps ==
    ASSUME VipInv,
           \/ AssignVIP \/ OwnVIP \/ AssignFails \/ LeadershipLost \/ Retry \/ Wake
           \/ HoldCancelled \/ Stop
    PROVE  VipInv'
<1> USE DEF VipInv
<1>1. UNCHANGED <<obsCh, registered, watchers, cancelled>>
  BY Zenon DEF AssignVIP, OwnVIP, AssignFails, LeadershipLost, Retry, Wake, HoldCancelled, Stop
<1>2. CASE AssignVIP \/ OwnVIP
  BY <1>1, <1>2, Zenon DEF AssignVIP, OwnVIP, Goto, TypeOK, Registered, Watched, Noticed, AddressOwned
<1>3. CASE AssignFails
  <2>1. used' \in Used /\ used'.restarts = used.restarts
    BY <1>3, UsedGrows, Zenon DEF AssignFails, NetFault, TypeOK, Used
  <2>2. role' \in {"leader", "follower"} /\ due' \in BOOLEAN
    BY <1>3, Zenon DEF AssignFails, TypeOK
  <2>3. /\ UNCHANGED <<lostCh, isOwner, address>>
        /\ mgr.pc = "assign" /\ mgr' = [mgr EXCEPT !.pc = "failed"]
    BY <1>3, Zenon DEF AssignFails, Goto
  <2>4. mgr.pc # "announce"
    BY <2>3
  <2>5. AddressOwned'
    BY <2>1, <2>3, <2>4, Zenon DEF AddressOwned
  <2> QED
    BY <1>1, <2>1, <2>2, <2>3, <2>5, Zenon DEF TypeOK, Used, Registered, Watched, Noticed
<1>4. CASE LeadershipLost
  <2>1. isOwner' \in BOOLEAN /\ address' \in BOOLEAN /\ used' \in Used /\ AddressOwned'
    BY <1>4, RemoveKeeps, Zenon DEF LeadershipLost
  <2>2. UNCHANGED <<role, due>> /\ lostCh' = FALSE /\ mgr' = [mgr EXCEPT !.pc = "failed"]
    BY <1>4, Zenon DEF LeadershipLost, Goto
  <2> QED
    BY <1>1, <2>1, <2>2, Zenon DEF TypeOK, Used, Registered, Watched, Noticed
<1>5. CASE Retry
  BY <1>1, <1>5, RemoveKeeps, Zenon DEF Retry, Goto, TypeOK, Used, Registered, Watched, Noticed
<1>6. CASE Wake
  BY <1>1, <1>6, Zenon DEF Wake, Goto, TypeOK, Registered, Watched, Noticed, AddressOwned
<1>7. CASE HoldCancelled
  <2>1. isOwner' \in BOOLEAN /\ address' \in BOOLEAN /\ used' \in Used /\ AddressOwned'
    BY <1>7, RemoveKeeps, Zenon DEF HoldCancelled
  <2>2. role' \in {"leader", "follower"} /\ due' \in BOOLEAN
    BY <1>7, Zenon DEF HoldCancelled, TypeOK
  <2>3. lostCh' = lostCh /\ mgr' = [mgr EXCEPT !.pc = "stopping"]
    BY <1>7, Zenon DEF HoldCancelled, Goto
  <2> QED
    BY <1>1, <2>1, <2>2, <2>3, Zenon DEF TypeOK, Used, Registered, Watched, Noticed
<1>8. CASE Stop
  BY <1>1, <1>8, RemoveKeeps, Zenon DEF Stop, Goto, TypeOK, Used, Registered, Watched, Noticed
<1> QED
  BY <1>2, <1>3, <1>4, <1>5, <1>6, <1>7, <1>8, Zenon

\* A restart keeps nothing but the address, which is then nobody's.
LEMMA ExitKeeps ==
    ASSUME VipInv, Cancel \/ Restart
    PROVE  VipInv'
<1>1. CASE Cancel
  BY <1>1, Zenon DEF Cancel, VipInv, TypeOK, Registered, Watched, Noticed, AddressOwned
<1>2. CASE Restart
  <2>1. <<>> \in Seq(Observations) /\ Len(<<>>) = 0
    BY EmptySeq, Zenon
  <2>2. /\ obsCh' = <<>> /\ registered' = {} /\ watchers' = {} /\ UNCHANGED address
        /\ lostCh' = FALSE /\ isOwner' = FALSE /\ cancelled' = FALSE /\ due' = FALSE
        /\ role' = "follower" /\ mgr' = [pc |-> "campaign", obs |-> "none"]
    BY <1>2, Zenon DEF Restart, NewProcess
  <2>3. used' \in Used /\ used'.restarts # 0
    BY <1>2, UsedGrows, Zenon DEF VipInv, TypeOK, Used, Restart
  <2>4. obsCh' \in Seq(Observations) /\ Len(obsCh') <= ObsCap
    BY <2>1, <2>2, VipAssumption
  <2>5. mgr' \in [pc : {"campaign", "check", "wait", "assign", "announce", "hold", "failed",
                      "sleep", "stopping", "stopped"}, obs : Observers \cup {"none"}]
    BY <2>2, Zenon
  <2>6. TypeOK'
    BY <2>2, <2>3, <2>4, <2>5, Zenon DEF VipInv, TypeOK, Used
  <2>7. mgr'.pc = "campaign"
    BY <2>2, Zenon
  <2> QED
    BY <2>3, <2>6, <2>7, Zenon DEF VipInv, Registered, Watched, Noticed, AddressOwned
<1> QED
  BY <1>1, <1>2, Zenon

LEMMA VipStep == VipInv /\ [Next]_vars => VipInv'
<1>1. ASSUME VipInv, UNCHANGED vars PROVE VipInv'
  BY <1>1 DEF vars, VipInv, TypeOK, Registered, Watched, Noticed, AddressOwned
<1> QED
  BY <1>1, RaftKeeps, CampaignKeeps, WatchKeeps, ManagerKeeps, ExitKeeps, Zenon
     DEF Next, Manage

LEMMA VipInvariant == Spec => []VipInv
  BY VipInit, VipStep, PTL DEF Spec

-----------------------------------------------------------------------------
(* Theorems.                                                               *)

\* Every variable keeps its type: watchers stay registered, and no observer
\* overfills obsCh (raft_leadership.go:20).
THEOREM VipTypes == Spec => []TypeOK
<1>1. VipInv => TypeOK
  BY Zenon DEF VipInv
<1> QED
  BY <1>1, VipInvariant, PTL

\* A loss of leadership reaches whoever holds the address, for any number of
\* observers, left-over watchers and dropped observations
\* (raft_leadership.go:25-63).
THEOREM LossAlwaysNoticed == Spec => []LossIsNoticed
<1>1. VipInv => LossIsNoticed
  BY Zenon DEF VipInv, Noticed, LossIsNoticed
<1> QED
  BY <1>1, VipInvariant, PTL

\* Until the daemon restarts the address is there only while isOwner says so, or
\* is about to, whichever netlink calls fail (manager_linux.go:145-199).
THEOREM AddressAlwaysOwned == Spec => []AddressOwned
<1>1. VipInv => AddressOwned
  BY Zenon DEF VipInv
<1> QED
  BY <1>1, VipInvariant, PTL
=============================================================================
