---------------------------- MODULE DaemonProofs ----------------------------
(***************************************************************************)
(* Proofs about Daemon, for any levels and any number of faults, signals   *)
(* and starts: the types, that every way out of runDaemon releases what it *)
(* has opened and never takes the stores from a running Raft, and that the *)
(* exit tells what happened.                                               *)
(***************************************************************************)
EXTENDS Daemon, TLAPS

Signals == \E s \in {"HUP", "TERM"} : Signal(s)
Returns == \E k \in DOMAIN comp : Return(k)

-----------------------------------------------------------------------------
(* Who writes what.                                                        *)

\* The levels change when the configuration is read or the file is edited
\* (main.go:72, main.go:121).
LEMMA LevelWriters ==
    [Next]_vars => UNCHANGED reload \/ LoadConfig \/ Load \/ Reload \/ EditFile \/ StartComponents
BY Zenon DEF Next, Main, InitTracing, NotifySignals, InitMemberlist, OpenBolt, OpenTransport,
     StartRaft, Bootstrap, BootstrapTerm, BootstrapLog, StartMetrics, SelectError, SelectDone,
     RunDeferred, StopRaft, CloseStores, Exit, Return, Signal, Receive, RaftStops, Joins,
     Crash, StartAgain, Killed, Rest, vars, reload

\* Signals are written by the runtime and by the goroutine that receives them.
LEMMA SignalWriters ==
    [Next]_vars => \/ UNCHANGED <<sigCh, handler>>
                   \/ NotifySignals \/ Signals \/ Receive \/ Load \/ Reload \/ StartAgain
BY Zenon DEF Next, Main, LoadConfig, InitTracing, InitMemberlist, OpenBolt, OpenTransport,
     StartRaft, Bootstrap, BootstrapTerm, BootstrapLog, StartMetrics, StartComponents,
     SelectError, SelectDone, RunDeferred, StopRaft, CloseStores, Exit, Return, RaftStops,
     Joins, EditFile, Crash, Killed, Rest, vars, signal, Signals

\* The components and their results are written where they start and return
\* and where the first result is taken.
LEMMA ResultWriters ==
    [Next]_vars => \/ UNCHANGED <<comp, errCh>>
                   \/ StartComponents \/ SelectError \/ Returns \/ StartAgain
BY Zenon DEF Next, Main, LoadConfig, InitTracing, NotifySignals, InitMemberlist, OpenBolt,
     OpenTransport, StartRaft, Bootstrap, BootstrapTerm, BootstrapLog, StartMetrics,
     SelectDone, RunDeferred, StopRaft, CloseStores, Exit, Signal, Receive, Load, Reload,
     RaftStops, Joins, EditFile, Crash, Killed, Rest, vars, Returns

\* The deferred functions change where one is deferred and where one is run.
LEMMA DeferWriters ==
    [Next]_vars => \/ UNCHANGED deferred
                   \/ LoadConfig \/ InitTracing \/ InitMemberlist
                   \/ Bootstrap \/ BootstrapTerm \/ BootstrapLog \/ StartMetrics
                   \/ RunDeferred \/ CloseStores \/ StartAgain
BY Zenon DEF Next, Main, NotifySignals, OpenBolt, OpenTransport, CreateTransport, Opening,
     Fail, StartRaft, StartComponents, SelectError, SelectDone, StopRaft, Exit, Return,
     Signal, Receive, Load, Reload, RaftStops, Joins, EditFile, Crash, Killed, Rest, vars, main

\* The settings are read once.
LEMMA SettingsStay == [Next]_vars => UNCHANGED settings
BY Zenon DEF Next, Main, LoadConfig, InitTracing, NotifySignals, InitMemberlist, OpenBolt,
     OpenTransport, StartRaft, Bootstrap, BootstrapTerm, BootstrapLog, StartMetrics,
     StartComponents, SelectError, SelectDone, RunDeferred, StopRaft, CloseStores, Exit,
     Return, Signal, Receive, Load, Reload, RaftStops, Joins, EditFile, Crash, Killed,
     StartAgain, Rest, vars

-----------------------------------------------------------------------------
(* Types.                                                                  *)

Functions == {"cancel", "tracing", "memberlist", "raft", "metrics"}

Flags == cancelled \in BOOLEAN /\ broken \in BOOLEAN /\ asked \in BOOLEAN /\ hup \in BOOLEAN

Position ==
    /\ pc \in {"config", "tracing", "notify", "memberlist", "bolt", "transport", "raft",
               "bootstrap", "bootstrapTerm", "bootstrapLog", "metrics", "start", "select",
               "unwind", "exited"}
    /\ open \subseteq {"tracing", "memberlist", "bolt", "transport", "metrics"}
    /\ raft \in {"none", "running", "stopping", "stopped"}
    /\ result \in {"none", "nil", "error", "killed"}
    /\ disk \in {"empty", "term", "bootstrapped", "joined"}

Queues ==
    /\ deferred \in Seq(Functions)
    /\ sigCh \in Seq({"HUP", "TERM"}) /\ Len(sigCh) <= 1

Configuration ==
    /\ handler \in {"off", "receive", "reload", "swap", "returned"}
    /\ file \in Levels \cup {"invalid"}
    /\ loaded \in Levels /\ config \in Levels /\ startLevel \in Levels
    /\ logger \in Levels /\ built \in Levels

Results ==
    /\ settings \in [peers : BOOLEAN, managed : BOOLEAN, bootstrap : BOOLEAN]
    /\ comp \in [listening : 0 .. 2, others : 0 .. 3]
    /\ errCh \in 0 .. ErrCap

\* Where runDaemon is, what it holds and what it returned keep their types, and
\* so do the flags.
LEMMA PositionStep == Flags /\ Position /\ [Next]_vars => Flags' /\ Position'
<1> SUFFICES ASSUME Flags, Position, [Next]_vars
             PROVE  Flags' /\ Position'
  BY Zenon
<1> USE DEF Next, Main, LoadConfig, InitTracing, NotifySignals, InitMemberlist, OpenBolt,
     OpenTransport, StartRaft, Bootstrap, BootstrapTerm, BootstrapLog, StartMetrics,
     StartComponents, SelectError, SelectDone, RunDeferred, StopRaft, CloseStores, Exit,
     Return, Signal, Receive, Load, Reload, RaftStops, Joins, EditFile, Crash, Killed,
     StartAgain, Rest, vars
<1>1. pc' \in {"config", "tracing", "notify", "memberlist", "bolt", "transport", "raft",
               "bootstrap", "bootstrapTerm", "bootstrapLog", "metrics", "start", "select",
               "unwind", "exited"}
  BY Zenon DEF Position, main, Fail, Holding, Opening, CreateTransport, RaftReady,
     BootstrapFails
<1>2. open' \subseteq {"tracing", "memberlist", "bolt", "transport", "metrics"}
  BY Zenon DEF Position, main, Fail, Holding, Opening, CreateTransport, RaftReady,
     BootstrapFails
<1>3. raft' \in {"none", "running", "stopping", "stopped"}
  BY Zenon DEF Position, main, RaftReady, BootstrapFails
<1>4. result' \in {"none", "nil", "error", "killed"}
  BY Zenon DEF Position, main, Fail, Holding, Opening, CreateTransport, RaftReady,
     BootstrapFails
<1>5. disk' \in {"empty", "term", "bootstrapped", "joined"}
  BY Zenon DEF Position, main
<1>6. cancelled' \in BOOLEAN
  BY Zenon DEF Flags
<1>7. broken' \in BOOLEAN
  BY Zenon DEF Flags, NoFault, Fault, CreateTransport
<1>8. asked' \in BOOLEAN /\ hup' \in BOOLEAN
  BY Zenon DEF Flags, signal
<1> QED
  BY <1>1, <1>2, <1>3, <1>4, <1>5, <1>6, <1>7, <1>8, Zenon DEF Flags, Position

\* The deferred functions and the signals in the channel keep their types.
LEMMA QueuesStep == Queues /\ [Next]_vars => Queues'
<1> SUFFICES ASSUME Queues, [Next]_vars
             PROVE  Queues'
  BY Zenon
<1>1. deferred' \in Seq(Functions)
  <2> SUFFICES ASSUME deferred \in Seq(Functions)
               PROVE  deferred' \in Seq(Functions)
    BY Zenon DEF Queues
  <2>1. CASE deferred' = deferred
    BY <2>1, Zenon
  <2>2. CASE deferred' = <<>>
    BY <2>2
  <2>3. CASE deferred' = <<"cancel">>
    BY <2>3 DEF Functions
  <2>4. CASE \E d \in Functions : deferred' = Append(deferred, d)
    BY <2>4
  <2>5. CASE deferred # <<>> /\ Pop
    BY <2>5 DEF Pop
  <2> QED
    BY DeferWriters, <2>1, <2>2, <2>3, <2>4, <2>5, Zenon
       DEF LoadConfig, InitTracing, InitMemberlist, Bootstrap, BootstrapTerm, BootstrapLog,
           StartMetrics, RunDeferred, CloseStores, StartAgain, Holding, Fail, RaftReady,
           BootstrapFails, Functions
<1>2. sigCh' \in Seq({"HUP", "TERM"}) /\ Len(sigCh') <= 1
  <2>1. CASE sigCh' = sigCh
    BY <2>1, Zenon DEF Queues
  <2>2. CASE sigCh' = <<>>
    BY <2>2
  <2>3. CASE \E s \in {"HUP", "TERM"} : Len(sigCh) < 1 /\ sigCh' = Append(sigCh, s)
    BY <2>3 DEF Queues
  <2>4. CASE sigCh # <<>> /\ sigCh' = Tail(sigCh)
    BY <2>4 DEF Queues
  <2> QED
    BY SignalWriters, <2>1, <2>2, <2>3, <2>4, Zenon
       DEF NotifySignals, Signals, Signal, Killed, Receive, Load, Reload, StartAgain
<1> QED
  BY <1>1, <1>2, Zenon DEF Queues

\* The levels in use are valid levels whatever is in the file (config.go:48).
LEMMA ConfigurationStep == Configuration /\ [Next]_vars => Configuration'
<1> SUFFICES ASSUME Configuration, [Next]_vars
             PROVE  Configuration'
  BY Zenon
<1>1. handler' \in {"off", "receive", "reload", "swap", "returned"}
  BY SignalWriters, Zenon DEF Configuration, NotifySignals, Signals, Signal, Killed, Receive,
     Load, Reload, StartAgain
<1>2. /\ file' \in Levels \cup {"invalid"}
      /\ loaded' \in Levels /\ config' \in Levels /\ startLevel' \in Levels
      /\ logger' \in Levels /\ built' \in Levels
  BY LevelWriters, Zenon DEF Configuration, LoadConfig, Load, Reload, DetectChanges, EditFile,
     StartComponents, reload
<1> QED
  BY <1>1, <1>2, Zenon DEF Configuration

\* The numbers of components and of results keep their bounds.
LEMMA ResultsStep == Results /\ [Next]_vars => Results'
<1> SUFFICES ASSUME Results, [Next]_vars
             PROVE  Results'
  BY Zenon
<1>1. settings' = settings
  BY SettingsStay, Zenon
<1>2. CASE comp' = comp /\ errCh' = errCh
  BY <1>1, <1>2, Zenon DEF Results, ErrCap
<1>3. CASE StartComponents
  BY <1>3 DEF Results, ErrCap, StartComponents, Listening, Others
<1>4. CASE SelectError
  BY <1>4 DEF Results, ErrCap, SelectError
<1>5. CASE Returns
  <2>1. PICK k \in DOMAIN comp : Return(k)
    BY <1>5, Zenon DEF Returns
  <2> QED
    BY <1>1, <2>1 DEF Results, ErrCap, Return
<1>6. CASE StartAgain
  BY <1>6 DEF Results, ErrCap, StartAgain
<1> QED
  BY <1>2, <1>3, <1>4, <1>5, <1>6, ResultWriters, Zenon

\* TypeOK: every variable of Daemon always has its type; the signal channel
\* holds at most one signal, and errCh no more results than it has room for.
THEOREM DaemonTypes == Spec => []TypeOK
<1>1. Init => Flags /\ Position /\ Configuration
  BY Zenon DEF Init, Flags, Position, Configuration
<1>2. Init => Queues /\ Results
  BY DEF Init, Queues, Results, ErrCap
<1>3. Flags /\ Position /\ Queues /\ Configuration /\ Results => TypeOK
  BY Zenon DEF TypeOK, Flags, Position, Queues, Configuration, Results, Functions
<1> QED
  BY <1>1, <1>2, <1>3, PositionStep, QueuesStep, ConfigurationStep, ResultsStep, PTL DEF Spec

-----------------------------------------------------------------------------
(* The exit.  A result is in errCh only because a component failed or ctx  *)
(* is done, until runDaemon leaves the select only the handler cancels     *)
(* ctx, and a disk that was bootstrapped is never asked to be again.       *)

Early == {"config", "tracing", "notify"}
Ended == {"unwind", "exited"}

Reasons ==
    /\ pc \in Early => handler = "off"
    /\ pc \notin Ended => result = "none"
    /\ pc \notin Ended /\ cancelled => handler = "returned"
    /\ errCh > 0 => broken \/ cancelled
    /\ pc = "bootstrapTerm" => settings.bootstrap /\ (broken \/ disk # "bootstrapped")

ReasonsInv == Reasons /\ ExitExplained

\* Every step keeps the reasons.
LEMMA ReasonsStep == Position /\ ReasonsInv /\ [Next]_vars => ReasonsInv'
<1> SUFFICES ASSUME Position, ReasonsInv, [Next]_vars
             PROVE  ReasonsInv'
  BY Zenon
<1> USE DEF ReasonsInv, Reasons, Ended, Early, Next, Main, LoadConfig, InitTracing,
     NotifySignals, InitMemberlist, OpenBolt, OpenTransport, StartRaft, Bootstrap,
     BootstrapTerm, BootstrapLog, StartMetrics, StartComponents, SelectError, SelectDone,
     RunDeferred, StopRaft, CloseStores, Exit, Return, Signal, Receive, Load, Reload,
     RaftStops, Joins, EditFile, Crash, Killed, StartAgain, Rest, vars, CreateTransport,
     BootstrapFails
<1>1. (pc' \in Early => handler' = "off")
  BY Zenon DEF main, signal, Fail, Holding, Opening, RaftReady
<1>2. (pc' \notin Ended => result' = "none")
  BY Zenon DEF main, Fail, Holding, Opening, RaftReady
<1>3. (pc' \notin Ended /\ cancelled' => handler' = "returned")
  BY Zenon DEF main, signal, Fail, Holding, Opening, RaftReady
<1>4. (errCh' > 0 => broken' \/ cancelled')
  <2>1. CASE StartAgain
    BY <2>1
  <2>2. CASE ~StartAgain
    <3>1. broken => broken'
      BY <2>2, Zenon DEF NoFault, Fault
    <3>2. cancelled => cancelled'
      BY <2>2, Zenon
    <3>3. UNCHANGED errCh \/ broken' \/ cancelled'
      BY <2>2, ResultWriters, Zenon DEF Returns, Fault
    <3> HIDE DEF Next, StartAgain
    <3> QED
      BY <3>1, <3>2, <3>3, Zenon
  <2> HIDE DEF Next, StartAgain
  <2> QED
    BY <2>1, <2>2, Zenon
<1>5. pc' = "bootstrapTerm" => settings'.bootstrap /\ (broken' \/ disk' # "bootstrapped")
  BY Zenon DEF LogEmpty, main, Fail, Holding, Opening, RaftReady, Fault, NoFault
<1>6. result' = "nil" => handler' = "returned"
  BY Zenon DEF ExitExplained, main, signal, Fail, Holding, Opening, RaftReady
<1>7. result' = "error" => broken' \/ (settings'.bootstrap /\ disk' \in {"term", "joined"})
  BY Zenon DEF ExitExplained, Position, main, Fail, Holding, Opening, RaftReady, Fault, NoFault
<1> QED
  BY <1>1, <1>2, <1>3, <1>4, <1>5, <1>6, <1>7, Zenon DEF ReasonsInv, Reasons, ExitExplained

\* At the start nothing has failed and nothing was returned.
LEMMA ReasonsInit == Init => ReasonsInv
BY DEF Init, ReasonsInv, Reasons, ExitExplained, Early, Ended

\* ExitExplained: runDaemon returns without an error only after a handled
\* SIGTERM (main.go:309), and with one only if something failed or the disk of a
\* daemon that is to bootstrap holds another node's log or a term without a log
\* (raft.go:209); a cluster that was bootstrapped is never bootstrapped again.
THEOREM ExitExplainedAlways == Spec => []ExitExplained
<1>1. ReasonsInv => ExitExplained
  BY Zenon DEF ReasonsInv
<1>2. TypeOK => Position
  BY Zenon DEF TypeOK, Position
<1> QED
  BY <1>1, <1>2, ReasonsInit, ReasonsStep, DaemonTypes, PTL DEF Spec

-----------------------------------------------------------------------------
(* What runDaemon holds.  Every open resource belongs to one deferred      *)
(* function that is still to run, except in NewRaftNode, which defers      *)
(* nothing before it has succeeded.  That each function is deferred once   *)
(* makes what is released by it the right resource.  A killed process      *)
(* keeps what it held, until the next start.                               *)

Elements(s) == {s[i] : i \in 1 .. Len(s)}
Distinct(s) == \A i, j \in 1 .. Len(s) : s[i] = s[j] => i = j

Pending == Elements(deferred)
Bootstrapping == {"bootstrap", "bootstrapTerm", "bootstrapLog"}
Building == {"transport", "raft"} \cup Bootstrapping
BeforeRaft == Early \cup Building \cup {"memberlist", "bolt"}
Dead == pc = "exited" /\ result = "killed"

Order ==
    /\ Distinct(deferred)
    /\ pc = "config" => Pending = {}
    /\ pc = "tracing" => "tracing" \notin Pending
    /\ pc \in Early \cup {"memberlist"} => "memberlist" \notin Pending
    /\ pc \in BeforeRaft => "raft" \notin Pending
    /\ pc \in BeforeRaft \cup {"metrics"} => "metrics" \notin Pending
    /\ pc = "exited" /\ ~Dead => Pending = {}

Balance ==
    ~Dead =>
        /\ \A r \in {"tracing", "memberlist", "metrics"} : r \in open <=> r \in Pending
        /\ "bolt" \in open <=> "raft" \in Pending \/ pc \in Building
        /\ "transport" \in open <=> "raft" \in Pending \/ pc \in {"raft"} \cup Bootstrapping

RaftOwned ==
    /\ raft = "running" /\ ~Dead => pc \in Bootstrapping \/ "raft" \in Pending
    /\ RaftHasItsStores

HoldingsInv == Order /\ Balance /\ RaftOwned

\* append adds one element.
LEMMA AppendElements ==
    ASSUME NEW s \in Seq(Functions), NEW d \in Functions, Distinct(s), d \notin Elements(s)
    PROVE  Elements(Append(s, d)) = Elements(s) \cup {d} /\ Distinct(Append(s, d))
<1>1. /\ Len(s) \in Nat /\ Len(Append(s, d)) = Len(s) + 1
      /\ \A i \in 1 .. Len(s) : Append(s, d)[i] = s[i]
      /\ Append(s, d)[Len(s) + 1] = d
  OBVIOUS
<1>2. 1 .. Len(s) + 1 = (1 .. Len(s)) \cup {Len(s) + 1}
  BY <1>1
<1>3. Elements(Append(s, d)) = Elements(s) \cup {d}
  BY <1>1, <1>2, Zenon DEF Elements
<1>4. Distinct(Append(s, d))
  BY <1>1, <1>2, Zenon DEF Distinct, Elements
<1> QED
  BY <1>3, <1>4, Zenon

\* The deferred function that runs is the last one, and it is gone then.
LEMMA PopElements ==
    ASSUME NEW s \in Seq(Functions), s # <<>>, Distinct(s)
    PROVE  /\ Elements(SubSeq(s, 1, Len(s) - 1)) = Elements(s) \ {s[Len(s)]}
           /\ Distinct(SubSeq(s, 1, Len(s) - 1))
<1> DEFINE n == Len(s)
           t == SubSeq(s, 1, n - 1)
<1>1. n \in Nat /\ n > 0
  OBVIOUS
<1>2. Len(t) = n - 1 /\ \A i \in 1 .. n - 1 : t[i] = s[i]
  <2>1. ASSUME NEW k \in 1 .. Len(s)
        PROVE  /\ Len(SubSeq(s, 1, k - 1)) = k - 1
               /\ \A i \in 1 .. k - 1 : SubSeq(s, 1, k - 1)[i] = s[i]
    OBVIOUS
  <2>2. n \in 1 .. Len(s)
    BY <1>1
  <2> QED
    BY <2>1, <2>2, Zenon
<1>3. 1 .. n = (1 .. n - 1) \cup {n} /\ n \notin 1 .. n - 1
  BY <1>1
<1> HIDE DEF n, t
<1>4. Elements(t) = Elements(s) \ {s[n]}
  <2>1. Elements(s) = {s[i] : i \in 1 .. n - 1} \cup {s[n]}
    BY <1>3, Zenon DEF Elements, n
  <2>2. s[n] \notin {s[i] : i \in 1 .. n - 1}
    BY <1>3, Zenon DEF Distinct, n
  <2>3. Elements(t) = {s[i] : i \in 1 .. n - 1}
    BY <1>2, Zenon DEF Elements
  <2> QED
    BY <2>1, <2>2, <2>3, Zenon
<1>5. Distinct(t)
  BY <1>2, <1>3, Zenon DEF Distinct, n
<1> QED
  BY <1>4, <1>5, Zenon DEF n, t

\* No function is deferred, and one is.
LEMMA FewElements ==
    /\ Elements(<<>>) = {} /\ Distinct(<<>>)
    /\ Elements(<<"cancel">>) = {"cancel"} /\ Distinct(<<"cancel">>)
BY DEF Elements, Distinct

\* The steps of runDaemon outside NewRaftNode that open a resource defer its
\* release (main.go:87, main.go:103, main.go:155, main.go:193).
LEMMA OpeningKeeps ==
    ASSUME TypeOK, HoldingsInv,
           LoadConfig \/ InitTracing \/ NotifySignals \/ InitMemberlist \/ StartMetrics
    PROVE  HoldingsInv'
<1> USE DEF Early, Ended, Building, Bootstrapping, BeforeRaft, Dead, HoldingsInv, Order,
            Balance, RaftOwned, RaftHasItsStores
<1>1. ASSUME NEW d \in Functions, d \notin Pending, deferred' = Append(deferred, d)
      PROVE  Pending' = Pending \cup {d} /\ Distinct(deferred')
  BY <1>1, AppendElements, Zenon DEF Pending, TypeOK, Functions
<1>2. CASE LoadConfig
  <2>1. CASE deferred' = deferred
    BY <1>2, <2>1, Zenon DEF LoadConfig, Fail, Pending
  <2>2. CASE deferred' = <<"cancel">>
    BY <1>2, <2>2, FewElements, Zenon DEF LoadConfig, Fail, Pending
  <2> QED
    BY <1>2, <2>1, <2>2, Zenon DEF LoadConfig, Fail
<1>3. CASE InitTracing
  <2>1. CASE pc' = "notify" /\ UNCHANGED <<open, deferred, result>>
    BY <1>3, <2>1, Zenon DEF InitTracing, Pending
  <2>2. CASE Holding("tracing", "notify")
    <3>1. Pending' = Pending \cup {"tracing"} /\ Distinct(deferred')
      BY <1>1, <1>3, <2>2, Zenon DEF InitTracing, Holding, Functions
    <3> QED
      BY <1>3, <2>2, <3>1, Zenon DEF InitTracing, Holding
  <2> QED
    BY <1>3, <2>1, <2>2, Zenon DEF InitTracing
<1>4. CASE NotifySignals
  BY <1>4, Zenon DEF NotifySignals, Pending
<1>5. CASE InitMemberlist
  <2>1. CASE Fail({})
    BY <1>5, <2>1, Zenon DEF InitMemberlist, Fail, Pending
  <2>2. CASE Holding("memberlist", "bolt")
    <3>1. Pending' = Pending \cup {"memberlist"} /\ Distinct(deferred')
      BY <1>1, <1>5, <2>2, Zenon DEF InitMemberlist, Holding, Functions
    <3> QED
      BY <1>5, <2>2, <3>1, Zenon DEF InitMemberlist, Holding
  <2> QED
    BY <1>5, <2>1, <2>2, Zenon DEF InitMemberlist
<1>6. CASE StartMetrics
  <2>1. Pending' = Pending \cup {"metrics"} /\ Distinct(deferred')
    BY <1>1, <1>6, Zenon DEF StartMetrics, Holding, Functions
  <2> QED
    BY <1>6, <2>1, Zenon DEF StartMetrics, Holding
<1> QED
  BY <1>2, <1>3, <1>4, <1>5, <1>6, Zenon

\* NewRaftNode closes on every error path what it has opened by then, and once
\* it has succeeded its teardown is deferred (raft.go:131, main.go:185).
LEMMA RaftNodeKeeps ==
    ASSUME TypeOK, HoldingsInv,
           OpenBolt \/ OpenTransport \/ StartRaft \/ Bootstrap \/ BootstrapTerm \/ BootstrapLog
    PROVE  HoldingsInv'
<1> USE DEF Early, Ended, Building, Bootstrapping, BeforeRaft, Dead, HoldingsInv, Order,
            Balance, RaftOwned, RaftHasItsStores
<1>1. CASE OpenBolt
  BY <1>1, Zenon DEF OpenBolt, Opening, Fail, Pending
<1>2. CASE OpenTransport
  BY <1>2, Zenon DEF OpenTransport, CreateTransport, Opening, Fail, Pending
<1>3. CASE StartRaft
  BY <1>3, Zenon DEF StartRaft, Fail, Pending
<1>4. CASE Bootstrap \/ BootstrapTerm \/ BootstrapLog
  <2>1. CASE RaftReady /\ pc \in Bootstrapping
    <3>1. Pending' = Pending \cup {"raft"} /\ Distinct(deferred')
      BY <2>1, AppendElements, Zenon DEF RaftReady, Pending, TypeOK, Functions
    <3> QED
      BY <2>1, <3>1, Zenon DEF RaftReady
  <2>2. CASE BootstrapFails /\ pc \in Bootstrapping
    BY <2>2, Zenon DEF BootstrapFails, Fail, Pending
  <2>3. CASE /\ pc \in Bootstrapping /\ pc' \in Bootstrapping
             /\ UNCHANGED <<open, raft, deferred, result>>
    BY <2>3, Zenon DEF Pending
  <2> QED
    BY <1>4, <2>1, <2>2, <2>3, Zenon DEF Bootstrap, BootstrapTerm, BootstrapLog
<1> QED
  BY <1>1, <1>2, <1>3, <1>4, Zenon

\* The deferred functions release what they stand for, and teardown closes the
\* stores of a Raft that has stopped (main.go:185, raft.go:221).
LEMMA UnwindKeeps ==
    ASSUME TypeOK, HoldingsInv, RunDeferred \/ StopRaft \/ CloseStores \/ Exit
    PROVE  HoldingsInv'
<1> USE DEF Early, Ended, Building, Bootstrapping, BeforeRaft, Dead, HoldingsInv, Order,
            Balance, RaftOwned, RaftHasItsStores
<1>1. ASSUME deferred # <<>>, Pop
      PROVE  Pending' = Pending \ {LastDeferred} /\ Distinct(deferred')
  BY <1>1, PopElements, Zenon DEF Pop, LastDeferred, Pending, TypeOK, Functions
<1>2. CASE RunDeferred
  <2>1. PICK d \in Functions \ {"raft"} : d = LastDeferred
    BY <1>2 DEF RunDeferred, LastDeferred, TypeOK, Functions
  <2>2. d \notin {"bolt", "transport"}
    BY <2>1, Zenon DEF Functions
  <2>3. /\ pc = "unwind" /\ open' = open \ {d} /\ UNCHANGED <<pc, raft, result>>
        /\ Pending' = Pending \ {d} /\ Distinct(deferred')
    BY <1>1, <1>2, <2>1, Zenon DEF RunDeferred
  <2> QED
    BY <2>1, <2>2, <2>3, Zenon
<1>3. CASE StopRaft
  BY <1>3, Zenon DEF StopRaft, Pending
<1>4. CASE CloseStores
  BY <1>1, <1>4, Zenon DEF CloseStores
<1>5. CASE Exit
  BY <1>5, FewElements, Zenon DEF Exit, Pending
<1> QED
  BY <1>2, <1>3, <1>4, <1>5, Zenon

\* Every step keeps the balance of what is open and what will be released.
LEMMA HoldingsStep == TypeOK /\ HoldingsInv /\ [Next]_vars => HoldingsInv'
<1> SUFFICES ASSUME TypeOK, HoldingsInv, [Next]_vars
             PROVE  HoldingsInv'
  BY Zenon
<1> USE DEF Early, Ended, Building, Bootstrapping, BeforeRaft, Dead, HoldingsInv, Order,
            Balance, RaftOwned, RaftHasItsStores
<1>1. CASE /\ UNCHANGED <<open, raft, deferred>>
           /\ \/ UNCHANGED <<pc, result>>
              \/ pc' = "exited" /\ result' = "killed"
              \/ pc = "start" /\ pc' = "select" /\ UNCHANGED result
              \/ pc = "select" /\ pc' = "unwind"
  BY <1>1, Zenon DEF Pending
<1>2. CASE RaftStops
  BY <1>2, Zenon DEF RaftStops, Pending
<1>3. CASE StartAgain
  BY <1>3, FewElements, Zenon DEF StartAgain, Pending
<1> QED
  BY <1>1, <1>2, <1>3, OpeningKeeps, RaftNodeKeeps, UnwindKeeps, Zenon
     DEF Next, Main, StartComponents, SelectError, SelectDone, Return, Signal, Receive,
         Load, Reload, Joins, EditFile, Crash, Killed, vars, main

\* In every reachable state what is open is what the deferred functions, or
\* NewRaftNode itself, will still release.
THEOREM HoldingsInvariant == Spec => []HoldingsInv
<1>1. Init => HoldingsInv
  BY FewElements, Zenon DEF Init, HoldingsInv, Order, Balance, RaftOwned, RaftHasItsStores,
     Pending, Building, Bootstrapping, BeforeRaft, Early, Dead
<1> QED
  BY <1>1, HoldingsStep, DaemonTypes, PTL DEF Spec

\* NothingLeftOpen: a process that returns from runDaemon has released all it
\* opened, by whichever of the error paths it left.
THEOREM NothingLeftOpenAlways == Spec => []NothingLeftOpen
<1>1. ASSUME TypeOK, HoldingsInv
      PROVE  NothingLeftOpen
  <2> SUFFICES ASSUME pc = "exited", result # "killed"
               PROVE  open = {} /\ raft # "running"
    BY Zenon DEF NothingLeftOpen
  <2>1. Pending = {}
    BY <1>1, Zenon DEF HoldingsInv, Order, Dead
  <2>2. "bolt" \notin open /\ "transport" \notin open
    BY <1>1, <2>1, Zenon DEF HoldingsInv, Balance, Dead, Building, Bootstrapping
  <2>3. \A r \in {"tracing", "memberlist", "metrics"} : r \notin open
    BY <1>1, <2>1, Zenon DEF HoldingsInv, Balance, Dead
  <2>4. open \subseteq {"tracing", "memberlist", "bolt", "transport", "metrics"}
    BY <1>1, Zenon DEF TypeOK
  <2>5. raft # "running"
    BY <1>1, <2>1, Zenon DEF HoldingsInv, RaftOwned, Dead, Bootstrapping
  <2> QED
    BY <2>2, <2>3, <2>4, <2>5, Zenon
<1> QED
  BY <1>1, HoldingsInvariant, DaemonTypes, PTL

\* RaftHasItsStores: Raft never runs without its log store and its transport.
THEOREM RaftHasItsStoresAlways == Spec => []RaftHasItsStores
<1>1. HoldingsInv => RaftHasItsStores
  BY Zenon DEF HoldingsInv, RaftOwned
<1> QED
  BY <1>1, HoldingsInvariant, PTL
=============================================================================
