----------------------------- MODULE VipManager -----------------------------
(***************************************************************************)
(* Ownership of the virtual IP on one node: vip.Manager (manager_linux.go) *)
(* on top of raftLeadership (raft_leadership.go).  Three kinds of          *)
(* goroutine read two channels: Campaign waits on obsCh for a reason to    *)
(* look at the Raft state again, every watchLeadership started by an       *)
(* earlier Campaign reads the same obsCh until it sees leadership lost,    *)
(* and campaignForVIP waits on lostCh.                                     *)
(*                                                                         *)
(* Raft is external.  It tells the observers of a won election at once; of *)
(* a lost one some time later (due), with the new leader's address or "".  *)
(* Observers are told without blocking: a full obsCh drops.  The address   *)
(* on the interface belongs to the kernel and outlives the process.        *)
(***************************************************************************)
EXTENDS Naturals, Sequences, FiniteSets

CONSTANTS Observers,      \* identities of registered observers
          ObsCap,         \* capacity of obsCh
          MaxElections,   \* bound: elections won
          MaxNetFaults,   \* bound: failing netlink calls
          MaxRestarts     \* bound: exits of the daemon

ASSUME VipAssumption ==
    /\ "none" \notin Observers /\ IsFiniteSet(Observers)
    /\ ObsCap \in Nat \ {0}
    /\ MaxElections \in Nat /\ MaxNetFaults \in Nat /\ MaxRestarts \in Nat

VARIABLES role,       \* raft.State() of this node
          due,        \* Raft has yet to tell that it is no longer the leader
          obsCh, lostCh,
          registered, \* observers Raft knows
          watchers,   \* observers whose watchLeadership is running
          mgr,        \* where Run is, and the observer of its Campaign
          isOwner,
          address,    \* the interface has the address
          cancelled,  \* ctx is done
          used        \* elections, netlink faults and exits so far

vars == <<role, due, obsCh, lostCh, registered, watchers, mgr, isOwner, address,
          cancelled, used>>

Observations == {"", "self", "other"}

\* One copy for each observer, as many as there is room for.
Emit(o) ==
    LET room == ObsCap - Len(obsCh)
        copies == IF Cardinality(registered) < room THEN Cardinality(registered) ELSE room
    IN  obsCh' = obsCh \o [i \in 1 .. copies |-> o]

Goto(pc) == mgr' = [mgr EXCEPT !.pc = pc]

NewProcess == [obsCh |-> <<>>, lostCh |-> FALSE, registered |-> {}, watchers |-> {},
               mgr |-> [pc |-> "campaign", obs |-> "none"],
               isOwner |-> FALSE, cancelled |-> FALSE]

Init ==
    /\ role = "follower" /\ due = FALSE
    /\ address = FALSE
    /\ used = [elections |-> 0, faults |-> 0, restarts |-> 0]
    /\ obsCh = NewProcess.obsCh /\ lostCh = NewProcess.lostCh
    /\ registered = NewProcess.registered /\ watchers = NewProcess.watchers
    /\ mgr = NewProcess.mgr
    /\ isOwner = NewProcess.isOwner /\ cancelled = NewProcess.cancelled

-----------------------------------------------------------------------------
(* Raft.                                                                   *)

WinElection ==
    /\ role = "follower" /\ used.elections < MaxElections
    /\ role' = "leader" /\ due' = FALSE
    /\ Emit("self")
    /\ used' = [used EXCEPT !.elections = @ + 1]
    /\ UNCHANGED <<lostCh, registered, watchers, mgr, isOwner, address, cancelled>>

StepDown ==
    /\ role = "leader"
    /\ role' = "follower" /\ due' = TRUE
    /\ UNCHANGED <<obsCh, lostCh, registered, watchers, mgr, isOwner, address, cancelled, used>>

TellLoss ==
    /\ due
    /\ due' = FALSE
    /\ \E o \in {"", "other"} : Emit(o)
    /\ UNCHANGED <<role, lostCh, registered, watchers, mgr, isOwner, address, cancelled, used>>

-----------------------------------------------------------------------------
(* Campaign and watchLeadership.                                           *)

RegisterObserver ==
    /\ mgr.pc = "campaign"
    /\ \E x \in Observers \ (registered \cup watchers) :
          /\ registered' = registered \cup {x}
          /\ mgr' = [pc |-> "check", obs |-> x]
    /\ UNCHANGED <<role, due, obsCh, lostCh, watchers, isOwner, address, cancelled, used>>

CheckState ==
    /\ mgr.pc = "check"
    /\ IF role = "leader"
       THEN watchers' = watchers \cup {mgr.obs} /\ Goto("assign")
       ELSE UNCHANGED watchers /\ Goto("wait")
    /\ UNCHANGED <<role, due, obsCh, lostCh, registered, isOwner, address, cancelled, used>>

\* Faulty variant of Observe: the state is not looked at again.
ObserveOnly ==
    /\ mgr.pc = "wait" /\ obsCh # <<>>
    /\ obsCh' = Tail(obsCh)
    /\ UNCHANGED <<role, due, lostCh, registered, watchers, mgr, isOwner, address, cancelled, used>>

Observe ==
    /\ mgr.pc = "wait" /\ obsCh # <<>>
    /\ obsCh' = Tail(obsCh)
    /\ Goto("check")
    /\ UNCHANGED <<role, due, lostCh, registered, watchers, isOwner, address, cancelled, used>>

CampaignCancelled ==
    /\ mgr.pc = "wait" /\ cancelled
    /\ registered' = registered \ {mgr.obs}
    /\ Goto("stopping")
    /\ UNCHANGED <<role, due, obsCh, lostCh, watchers, isOwner, address, cancelled, used>>

\* Faulty variant of MeansLoss: the state of this node is not asked for.
MeansNoLeader(o) == o = ""

MeansLoss(o) == o = "" \/ role # "leader"

Watch(x) ==
    /\ x \in watchers /\ obsCh # <<>>
    /\ obsCh' = Tail(obsCh)
    /\ IF MeansLoss(Head(obsCh))
       THEN /\ lostCh' = TRUE
            /\ registered' = registered \ {x}
            /\ watchers' = watchers \ {x}
       ELSE UNCHANGED <<lostCh, registered, watchers>>
    /\ UNCHANGED <<role, due, mgr, isOwner, address, cancelled, used>>

-----------------------------------------------------------------------------
(* The manager.  removeVIP keeps isOwner when a netlink call fails.        *)

NetFault == used.faults < MaxNetFaults /\ used' = [used EXCEPT !.faults = @ + 1]

\* Faulty variant of RemoveVIP: the flag is cleared, the address is kept.
ForgetVIP == isOwner' = FALSE /\ UNCHANGED <<address, used>>

\* Faulty variant of RemoveVIP: the test of isOwner is inverted.
RemoveUnowned == address' = (address /\ isOwner) /\ UNCHANGED <<isOwner, used>>

RemoveVIP ==
    \/ isOwner /\ isOwner' = FALSE /\ address' = FALSE /\ UNCHANGED used
    \/ isOwner /\ NetFault /\ UNCHANGED <<isOwner, address>>
    \/ ~isOwner /\ UNCHANGED <<isOwner, address, used>>

\* The address is added and announced by a gratuitous ARP; only then is it owned.
AssignVIP ==
    /\ mgr.pc = "assign"
    /\ address' = TRUE
    /\ Goto("announce")
    /\ UNCHANGED <<role, due, obsCh, lostCh, registered, watchers, isOwner, cancelled, used>>

OwnVIP ==
    /\ mgr.pc = "announce"
    /\ isOwner' = TRUE
    /\ Goto("hold")
    /\ UNCHANGED <<role, due, obsCh, lostCh, registered, watchers, address, cancelled, used>>

\* The address cannot be added: Resign hands leadership over if it can.
AssignFails ==
    /\ mgr.pc = "assign"
    /\ NetFault
    /\ \/ role = "leader" /\ role' = "follower" /\ due' = TRUE
       \/ UNCHANGED <<role, due>>
    /\ Goto("failed")
    /\ UNCHANGED <<obsCh, lostCh, registered, watchers, isOwner, address, cancelled>>

LeadershipLost ==
    /\ mgr.pc = "hold" /\ lostCh
    /\ lostCh' = FALSE
    /\ RemoveVIP
    /\ Goto("failed")
    /\ UNCHANGED <<role, due, obsCh, registered, watchers, cancelled>>

\* Run: remove again, and campaign again after renewInterval.
Retry ==
    /\ mgr.pc = "failed"
    /\ RemoveVIP
    /\ Goto(IF cancelled THEN "stopped" ELSE "sleep")
    /\ UNCHANGED <<role, due, obsCh, lostCh, registered, watchers, cancelled>>

Wake ==
    /\ mgr.pc = "sleep"
    /\ Goto("campaign") \/ (cancelled /\ Goto("stopped"))
    /\ UNCHANGED <<role, due, obsCh, lostCh, registered, watchers, isOwner, address, cancelled, used>>

HoldCancelled ==
    /\ mgr.pc = "hold" /\ cancelled
    /\ RemoveVIP
    /\ \/ role = "leader" /\ role' = "follower" /\ due' = TRUE
       \/ UNCHANGED <<role, due>>
    /\ Goto("stopping")
    /\ UNCHANGED <<obsCh, lostCh, registered, watchers, cancelled>>

Stop ==
    /\ mgr.pc = "stopping"
    /\ RemoveVIP
    /\ Goto("stopped")
    /\ UNCHANGED <<role, due, obsCh, lostCh, registered, watchers, cancelled>>

\* SIGTERM cancels ctx.
Cancel ==
    /\ ~cancelled /\ used.restarts < MaxRestarts
    /\ cancelled' = TRUE
    /\ UNCHANGED <<role, due, obsCh, lostCh, registered, watchers, mgr, isOwner, address, used>>

\* runDaemon returns on ctx.Done without waiting for the managers (or the
\* daemon is killed); it is started again and keeps what the kernel has.
Restart ==
    /\ used.restarts < MaxRestarts
    /\ used' = [used EXCEPT !.restarts = @ + 1]
    /\ role' = "follower" /\ due' = FALSE
    /\ obsCh' = NewProcess.obsCh /\ lostCh' = NewProcess.lostCh
    /\ registered' = NewProcess.registered /\ watchers' = NewProcess.watchers
    /\ mgr' = NewProcess.mgr
    /\ isOwner' = NewProcess.isOwner /\ cancelled' = NewProcess.cancelled
    /\ UNCHANGED address

Manage ==
    \/ RegisterObserver \/ CheckState \/ Observe \/ AssignVIP \/ OwnVIP
    \/ LeadershipLost \/ Retry \/ Wake \/ CampaignCancelled \/ HoldCancelled \/ Stop

Next ==
    \/ WinElection \/ StepDown \/ TellLoss
    \/ Manage \/ AssignFails
    \/ \E x \in Observers : Watch(x)
    \/ Cancel \/ Restart

Spec == Init /\ [][Next]_vars

\* Goroutines are scheduled, and Raft tells of a loss once a new leader is known.
FairSpec ==
    /\ Spec
    /\ WF_vars(TellLoss) /\ WF_vars(Manage)
    /\ \A x \in Observers : WF_vars(Watch(x))

-----------------------------------------------------------------------------
(* Properties.                                                             *)

\* The types of the manager's and the channels' state; a running watchLeadership
\* is always one of Raft's registered observers, and obsCh keeps its capacity.
TypeOK ==
    /\ role \in {"leader", "follower"}
    /\ due \in BOOLEAN /\ lostCh \in BOOLEAN
    /\ obsCh \in Seq(Observations) /\ Len(obsCh) <= ObsCap
    /\ registered \subseteq Observers /\ watchers \subseteq registered
    /\ mgr \in [pc : {"campaign", "check", "wait", "assign", "announce", "hold", "failed",
                      "sleep", "stopping", "stopped"},
                obs : Observers \cup {"none"}]
    /\ isOwner \in BOOLEAN /\ address \in BOOLEAN /\ cancelled \in BOOLEAN
    /\ used \in [elections : Nat, faults : Nat, restarts : Nat]

\* A node that holds the address without being the leader is about to hear of
\* it: Raft has it to tell, a watcher has an observation to read, or the loss is
\* signalled.  A full obsCh, a leader lost between the check and the start of
\* the watcher, and watchers left over from earlier campaigns hide no loss.
LossIsNoticed ==
    mgr.pc = "hold" /\ role # "leader" =>
        due \/ lostCh \/ (watchers # {} /\ obsCh # <<>>)

\* A netlink call failed, or the daemon was stopped.
Disturbed == used.faults > 0 \/ used.restarts > 0 \/ cancelled

\* removeVIP only trusts isOwner (manager_linux.go:175): as long as the daemon
\* is not restarted, the address is on the interface only while it is TRUE, or
\* about to be.
AddressOwned == used.restarts = 0 /\ address => isOwner \/ mgr.pc = "announce"

\* A leader that stays leader gets the address, however often leadership came
\* and went before (Campaign, raft_leadership.go:25), if nothing else fails.
LeaderGetsAddress == role = "leader" ~> (isOwner \/ role # "leader" \/ Disturbed)

\* A node that is not the leader any more, and stays so, gives the address up
\* (watchLeadership, raft_leadership.go:49), if nothing else fails.
FollowerGivesUp ==
    address /\ role # "leader" ~> (~address \/ role = "leader" \/ Disturbed)

-----------------------------------------------------------------------------
(* What the README says, and the code does not do.                         *)

\* "VIP management assigns a virtual IP to the Raft leader" (README.md:20): also
\* after an assignment that failed once.
LeaderHasAddress == role = "leader" ~> (isOwner \/ role # "leader")

\* The same of a node that is not the leader: also after a restart it gives the
\* address up.
OnlyLeaderHasAddress == address /\ role # "leader" ~> (~address \/ role = "leader")
=============================================================================
