------------------------------- MODULE Daemon -------------------------------
(***************************************************************************)
(* The life of the pgbastion process (main.go, with NewRaftNode in raft.go *)
(* and ReloadableConfig in config.go): runDaemon opens one resource after  *)
(* the other, starts the components, waits for the first of them to return *)
(* or for a signal, and runs its deferred functions.  A goroutine of its   *)
(* own handles the signals.  The process may be killed, and is started     *)
(* again; what stays is the Raft log on disk and the configuration file.   *)
(*                                                                         *)
(* External: the file system, the network and the Raft library.  Opening   *)
(* may fail.  A node's term and its log are stored one after the other,    *)
(* and BootstrapCluster refuses a disk that holds either.  The Go runtime  *)
(* drops a signal when the channel for it is full, and a signal nobody has *)
(* asked for ends the process.                                             *)
(***************************************************************************)
EXTENDS Naturals, Sequences

CONSTANTS Levels,      \* log levels
          MaxEvents,   \* bound: failing calls and components, kills, signals
                       \* and changes of the configuration file
          MaxStarts    \* bound: starts of the process

ASSUME DaemonAssumption ==
    /\ Levels # {} /\ "invalid" \notin Levels
    /\ MaxEvents \in Nat /\ MaxStarts \in Nat \ {0}

VARIABLES settings,   \* parts of the configuration that only count at start
          pc,         \* where runDaemon is
          open,       \* resources it holds
          raft,       \* the goroutines of the Raft library
          deferred,   \* its deferred functions, in the order they were deferred
          cancelled,  \* ctx is done
          result,     \* what it returned
          sigCh, handler,
          file,       \* the level in the configuration file, or "invalid"
          loaded,     \* the level Load read from it last
          config,     \* the level in reloadableCfg
          startLevel, \* the level in cfg, read once
          logger,     \* the level of runDaemon's own logger
          built,      \* the level of the logger the components were built with
          comp,       \* how many components run, by what can end them
          errCh,      \* number of results in errCh
          disk,       \* "empty", "term" (and no log), "bootstrapped" or "joined"
          broken,     \* history: a call or component failed since the start
          asked,      \* history: SIGTERM was sent since the start
          hup,        \* history: SIGHUP was sent since the file last changed
          events, starts

reload == <<file, loaded, config, startLevel, logger, built>>
signal == <<sigCh, handler, asked, hup>>
main == <<pc, open, raft, deferred, result, disk>>
vars == <<settings, main, cancelled, signal, reload, comp, errCh, broken, events, starts>>

\* The proxy and the API server listen; the VIP manager does not, nor do the
\* cluster manager and the configuration watcher of a managed node.
Listening == 2
Others == IF settings.managed THEN 3 ELSE 1

ErrCap == IF settings.managed THEN 5 ELSE 3

Init ==
    /\ settings \in [peers : BOOLEAN, managed : BOOLEAN, bootstrap : BOOLEAN]
    /\ pc = "config" /\ open = {} /\ raft = "none" /\ deferred = <<>>
    /\ cancelled = FALSE /\ result = "none"
    /\ sigCh = <<>> /\ handler = "off" /\ asked = FALSE /\ hup = FALSE
    /\ file \in Levels
    /\ loaded = file /\ config = file /\ startLevel = file /\ logger = file /\ built = file
    /\ comp = [listening |-> 0, others |-> 0] /\ errCh = 0
    /\ disk = "empty"
    /\ broken = FALSE
    /\ events = 0 /\ starts = 1

Event == events < MaxEvents /\ events' = events + 1 /\ UNCHANGED starts
Fault == Event /\ broken' = TRUE
NoFault == UNCHANGED <<events, starts, broken>>

-----------------------------------------------------------------------------
(* runDaemon up to the select.                                             *)

\* The next step, with r open and its release deferred.
Holding(r, next) ==
    /\ open' = open \cup {r}
    /\ deferred' = Append(deferred, r)
    /\ pc' = next
    /\ UNCHANGED result

\* runDaemon returns an error; closed is what the failing call closed itself.
Fail(closed) ==
    /\ open' = open \ closed
    /\ pc' = "unwind"
    /\ result' = "error"
    /\ UNCHANGED deferred

LoadConfig ==
    /\ pc = "config"
    /\ \/ /\ file # "invalid"
          /\ loaded' = file /\ config' = file /\ startLevel' = file /\ logger' = file
          /\ deferred' = <<"cancel">>
          /\ pc' = "tracing"
          /\ UNCHANGED <<open, result, broken>>
       \/ /\ file = "invalid"
          /\ Fail({})
          /\ broken' = TRUE
          /\ UNCHANGED <<loaded, config, startLevel, logger>>
    /\ UNCHANGED <<settings, raft, disk, cancelled, signal, file, built, comp, errCh, events,
                   starts>>

\* The daemon does without tracing if it cannot have it.
InitTracing ==
    /\ pc = "tracing"
    /\ \/ Holding("tracing", "notify") /\ NoFault
       \/ /\ Fault /\ pc' = "notify"
          /\ UNCHANGED <<open, deferred, result>>
    /\ UNCHANGED <<settings, raft, disk, cancelled, signal, reload, comp, errCh>>

NotifySignals ==
    /\ pc = "notify"
    /\ handler' = "receive"
    /\ pc' = IF settings.peers THEN "memberlist" ELSE "bolt"
    /\ UNCHANGED <<settings, open, raft, deferred, result, disk, cancelled, sigCh, asked,
                   hup, reload, comp, errCh, broken, events, starts>>

Rest == <<settings, cancelled, signal, reload, comp, errCh>>

InitMemberlist ==
    /\ pc = "memberlist"
    /\ \/ Holding("memberlist", "bolt") /\ NoFault
       \/ Fail({}) /\ Fault
    /\ UNCHANGED <<Rest, raft, disk>>

-----------------------------------------------------------------------------
(* NewRaftNode: no release is deferred before it has succeeded, so every   *)
(* error path closes what is open by then.                                 *)

Opening(r, next) ==
    /\ open' = open \cup {r}
    /\ pc' = next
    /\ UNCHANGED <<deferred, result>>

OpenBolt ==
    /\ pc = "bolt"
    /\ \/ Opening("bolt", "transport") /\ NoFault
       \/ Fail({}) /\ Fault
    /\ UNCHANGED <<Rest, raft, disk>>

\* createTLSTransport, or the TCP transport: it holds a listener or nothing.
CreateTransport == Opening("transport", "raft") /\ NoFault

\* Faulty variant of OpenTransport: the log store stays open.
OpenTransportLeaks ==
    /\ pc = "transport"
    /\ \/ CreateTransport
       \/ Fail({}) /\ Fault
    /\ UNCHANGED <<Rest, raft, disk>>

\* The snapshot store, the address, and the TCP or TLS transport; all three
\* fail alike.
OpenTransport ==
    /\ pc = "transport"
    /\ \/ CreateTransport
       \/ Fail({"bolt"}) /\ Fault
    /\ UNCHANGED <<Rest, raft, disk>>

StartRaft ==
    /\ pc = "raft"
    /\ \/ /\ raft' = "running"
          /\ pc' = "bootstrap"
          /\ NoFault
          /\ UNCHANGED <<open, deferred, result>>
       \/ Fail({"bolt", "transport"}) /\ Fault /\ UNCHANGED raft
    /\ UNCHANGED <<Rest, disk>>

\* What teardown will close is open already; what is deferred is teardown.
RaftReady == /\ deferred' = Append(deferred, "raft")
             /\ pc' = "metrics"
             /\ UNCHANGED <<open, raft, result>>

\* The failing bootstrap asks Raft to stop and does not wait for it.
BootstrapFails ==
    /\ raft' = "stopping"
    /\ Fail({"bolt", "transport"})

\* lastIndex == 0; an error of LastIndex counts as 0.
LogEmpty(failing) == disk \in {"empty", "term"} \/ failing

\* Faulty variant of Bootstrap: the log is not looked at.
BootstrapAlways ==
    /\ pc = "bootstrap"
    /\ \/ ~settings.bootstrap /\ RaftReady
       \/ settings.bootstrap /\ pc' = "bootstrapTerm" /\ UNCHANGED <<open, raft, deferred, result>>
    /\ NoFault
    /\ UNCHANGED <<Rest, disk>>

\* Only a log that is empty is bootstrapped.
Bootstrap ==
    /\ pc = "bootstrap"
    /\ \E failing \in BOOLEAN :
          /\ IF failing THEN Fault ELSE NoFault
          /\ \/ ~settings.bootstrap /\ ~failing /\ RaftReady
             \/ settings.bootstrap /\ ~LogEmpty(failing) /\ RaftReady
             \/ /\ settings.bootstrap /\ LogEmpty(failing)
                /\ pc' = "bootstrapTerm"
                /\ UNCHANGED <<open, raft, deferred, result>>
    /\ UNCHANGED <<Rest, disk>>

\* BootstrapCluster stores the term of a disk that holds nothing, ...
BootstrapTerm ==
    /\ pc = "bootstrapTerm"
    /\ \/ /\ disk = "empty" /\ disk' = "term"
          /\ pc' = "bootstrapLog"
          /\ UNCHANGED <<open, raft, deferred, result>>
          /\ NoFault
       \/ disk # "empty" /\ BootstrapFails /\ UNCHANGED disk /\ NoFault
       \/ BootstrapFails /\ UNCHANGED disk /\ Fault
    /\ UNCHANGED Rest

\* ... and then the first entry of the log, which makes it a cluster.
BootstrapLog ==
    /\ pc = "bootstrapLog"
    /\ \/ disk' = "bootstrapped" /\ RaftReady /\ NoFault
       \/ BootstrapFails /\ UNCHANGED disk /\ Fault
    /\ UNCHANGED Rest

StartMetrics ==
    /\ pc = "metrics"
    /\ Holding("metrics", "start")
    /\ NoFault
    /\ UNCHANGED <<Rest, raft, disk>>

\* The components are built with the logger the handler of signals may be
\* replacing meanwhile, without a lock: this is the one of the start, or the new
\* one.
StartComponents ==
    /\ pc = "start"
    /\ built' \in {startLevel, logger}
    /\ comp' = [listening |-> Listening, others |-> Others]
    /\ pc' = "select"
    /\ UNCHANGED <<settings, open, raft, deferred, result, disk, cancelled, signal, file, loaded,
                   config, startLevel, logger, errCh, broken, events, starts>>

-----------------------------------------------------------------------------
(* The components: each returns when ctx is done; the proxy and the API    *)
(* server also when they cannot listen.  The result goes to errCh.         *)

Return(k) ==
    /\ pc # "exited" /\ comp[k] > 0
    /\ \/ cancelled /\ NoFault
       \/ k = "listening" /\ Fault
    /\ errCh < ErrCap
    /\ errCh' = errCh + 1
    /\ comp' = [comp EXCEPT ![k] = @ - 1]
    /\ UNCHANGED <<settings, main, cancelled, signal, reload>>

\* Faulty variant of SelectError: a component that fails is not missed.
SelectErrorLate ==
    /\ pc = "select" /\ errCh > 0 /\ cancelled
    /\ errCh' = errCh - 1
    /\ result' = "nil"
    /\ pc' = "unwind"
    /\ UNCHANGED <<settings, open, raft, deferred, disk, cancelled, signal, reload, comp,
                   broken, events, starts>>

\* The first result is an error unless the shutdown had begun by then.
SelectError ==
    /\ pc = "select" /\ errCh > 0
    /\ errCh' = errCh - 1
    /\ result' = IF cancelled THEN "nil" ELSE "error"
    /\ cancelled' = TRUE
    /\ pc' = "unwind"
    /\ UNCHANGED <<settings, open, raft, deferred, disk, signal, reload, comp, broken, events, starts>>

SelectDone ==
    /\ pc = "select" /\ cancelled
    /\ result' = "nil"
    /\ pc' = "unwind"
    /\ UNCHANGED <<settings, open, raft, deferred, disk, cancelled, signal, reload, comp,
                   errCh, broken, events, starts>>

-----------------------------------------------------------------------------
(* The deferred functions, last one first.  Nobody waits for components.   *)

LastDeferred == deferred[Len(deferred)]
Pop == deferred' = SubSeq(deferred, 1, Len(deferred) - 1)

RunDeferred ==
    /\ pc = "unwind" /\ deferred # <<>> /\ LastDeferred # "raft"
    /\ Pop
    /\ open' = open \ {LastDeferred}
    /\ cancelled' = (cancelled \/ LastDeferred = "cancel")
    /\ UNCHANGED <<settings, pc, raft, result, disk, signal, reload, comp, errCh, broken, events, starts>>

\* teardown: stop Raft and wait for it, then close its stores.
StopRaft ==
    /\ pc = "unwind" /\ deferred # <<>> /\ LastDeferred = "raft" /\ raft = "running"
    /\ raft' = "stopping"
    /\ UNCHANGED <<Rest, pc, open, deferred, result, disk, broken, events, starts>>

\* Faulty variant of CloseStores: Raft is not waited for, nor told to stop.
CloseStoresEarly ==
    /\ pc = "unwind" /\ deferred # <<>> /\ LastDeferred = "raft"
    /\ Pop
    /\ open' = open \ {"transport", "bolt"}
    /\ UNCHANGED <<Rest, pc, raft, result, disk, broken, events, starts>>

CloseStores ==
    /\ pc = "unwind" /\ deferred # <<>> /\ LastDeferred = "raft" /\ raft = "stopped"
    /\ Pop
    /\ open' = open \ {"transport", "bolt"}
    /\ UNCHANGED <<Rest, pc, raft, result, disk, broken, events, starts>>

Exit ==
    /\ pc = "unwind" /\ deferred = <<>>
    /\ pc' = "exited"
    /\ UNCHANGED <<Rest, open, raft, deferred, result, disk, broken, events, starts>>

-----------------------------------------------------------------------------
(* Signals and reload.                                                     *)

Killed == /\ pc' = "exited" /\ result' = "killed"
          /\ UNCHANGED <<settings, open, raft, deferred, disk, cancelled, sigCh, handler,
                         reload, comp, errCh, broken>>

Signal(s) ==
    /\ pc # "exited"
    /\ Event
    /\ asked' = (asked \/ s = "TERM")
    /\ hup' = (hup \/ (s = "HUP" /\ handler # "off"))
    /\ \/ handler = "off" /\ Killed
       \/ /\ handler # "off"
          /\ sigCh' = IF Len(sigCh) < 1 THEN Append(sigCh, s) ELSE sigCh
          /\ UNCHANGED <<settings, main, cancelled, handler, reload, comp, errCh, broken>>

\* Faulty variant of Receive: ctx is not cancelled.
ReceiveOnly ==
    /\ pc # "exited" /\ handler = "receive" /\ sigCh # <<>>
    /\ sigCh' = Tail(sigCh)
    /\ handler' = IF Head(sigCh) = "HUP" THEN "reload" ELSE "returned"
    /\ UNCHANGED <<settings, main, cancelled, asked, hup, reload, comp, errCh, broken, events,
                   starts>>

Receive ==
    /\ pc # "exited" /\ handler = "receive" /\ sigCh # <<>>
    /\ sigCh' = Tail(sigCh)
    /\ \/ Head(sigCh) = "HUP" /\ handler' = "reload" /\ UNCHANGED cancelled
       \/ Head(sigCh) = "TERM" /\ handler' = "returned" /\ cancelled' = TRUE
    /\ UNCHANGED <<settings, main, asked, hup, reload, comp, errCh, broken, events, starts>>

\* Faulty variant of Load: an invalid file is not noticed.
LoadBlindly ==
    /\ pc # "exited" /\ handler = "reload"
    /\ loaded' = file /\ handler' = "swap"
    /\ UNCHANGED <<settings, main, cancelled, sigCh, asked, hup, file, config, startLevel, logger,
                   built, comp, errCh, broken, events, starts>>

\* ReloadableConfig.Reload: a file that cannot be loaded changes nothing, ...
Load ==
    /\ pc # "exited" /\ handler = "reload"
    /\ \/ file # "invalid" /\ loaded' = file /\ handler' = "swap"
       \/ file = "invalid" /\ UNCHANGED loaded /\ handler' = "receive"
    /\ UNCHANGED <<settings, main, cancelled, sigCh, asked, hup, file, config, startLevel, logger,
                   built, comp, errCh, broken, events, starts>>

\* detectChanges, as far as the level goes.
DetectChanges == loaded # config

\* Faulty variant of Reload: signals that came meanwhile are taken for handled.
ReloadDrains ==
    /\ pc # "exited" /\ handler = "swap"
    /\ config' = loaded /\ sigCh' = <<>>
    /\ handler' = "receive"
    /\ UNCHANGED <<settings, main, cancelled, asked, hup, file, loaded, startLevel, logger, built,
                   comp, errCh, broken, events, starts>>

\* ... any other becomes the configuration.  The new level is compared with the
\* one of the start, and only runDaemon's own logger is replaced.
Reload ==
    /\ pc # "exited" /\ handler = "swap"
    /\ config' = loaded
    /\ logger' = IF DetectChanges /\ loaded # startLevel THEN loaded ELSE logger
    /\ handler' = "receive"
    /\ UNCHANGED <<settings, main, cancelled, sigCh, asked, hup, file, loaded, startLevel, built,
                   comp, errCh, broken, events, starts>>

-----------------------------------------------------------------------------
(* The world.                                                              *)

RaftStops ==
    /\ pc # "exited" /\ raft = "stopping"
    /\ raft' = "stopped"
    /\ UNCHANGED <<Rest, pc, open, deferred, result, disk, broken, events, starts>>

\* Another node makes itself known: the term is stored, and later its log.  The
\* goroutine of Raft does this, which is also the one that bootstraps.
Joins ==
    /\ pc \notin {"exited", "bootstrapLog"} /\ raft = "running"
    /\ \/ disk = "empty" /\ disk' = "term"
       \/ disk = "term" /\ disk' = "joined"
    /\ UNCHANGED <<Rest, pc, open, raft, deferred, result, broken, events, starts>>

EditFile ==
    /\ Event
    /\ file' \in (Levels \cup {"invalid"}) \ {file}
    /\ hup' = FALSE
    /\ UNCHANGED <<settings, main, cancelled, sigCh, handler, asked, loaded, config, startLevel,
                   logger, built, comp, errCh, broken>>

Crash ==
    /\ pc # "exited"
    /\ Event
    /\ UNCHANGED <<asked, hup>>
    /\ Killed

StartAgain ==
    /\ pc = "exited"
    /\ starts < MaxStarts /\ starts' = starts + 1
    /\ pc' = "config" /\ open' = {} /\ raft' = "none" /\ deferred' = <<>>
    /\ cancelled' = FALSE /\ result' = "none"
    /\ sigCh' = <<>> /\ handler' = "off" /\ asked' = FALSE /\ hup' = FALSE
    /\ comp' = [listening |-> 0, others |-> 0] /\ errCh' = 0
    /\ broken' = FALSE
    /\ UNCHANGED <<settings, disk, reload, events>>

Main == \/ LoadConfig \/ InitTracing \/ NotifySignals \/ InitMemberlist
        \/ OpenBolt \/ OpenTransport \/ StartRaft \/ Bootstrap \/ BootstrapTerm \/ BootstrapLog
        \/ StartMetrics \/ StartComponents \/ SelectError \/ SelectDone
        \/ RunDeferred \/ StopRaft \/ CloseStores \/ Exit

Next ==
    \/ Main
    \/ \E k \in DOMAIN comp : Return(k)
    \/ \E s \in {"HUP", "TERM"} : Signal(s)
    \/ Receive \/ Load \/ Reload
    \/ RaftStops \/ Joins \/ EditFile \/ Crash \/ StartAgain

Spec == Init /\ [][Next]_vars

\* The goroutines of the process go on, and Raft stops when it is told to.
FairSpec == Spec /\ WF_vars(Main) /\ WF_vars(Receive \/ Load \/ Reload) /\ WF_vars(RaftStops)

-----------------------------------------------------------------------------
(* Properties.                                                             *)

\* Every variable has its type.
TypeOK ==
    /\ settings \in [peers : BOOLEAN, managed : BOOLEAN, bootstrap : BOOLEAN]
    /\ pc \in {"config", "tracing", "notify", "memberlist", "bolt", "transport", "raft",
               "bootstrap", "bootstrapTerm", "bootstrapLog", "metrics", "start", "select", "unwind",
               "exited"}
    /\ open \subseteq {"tracing", "memberlist", "bolt", "transport", "metrics"}
    /\ raft \in {"none", "running", "stopping", "stopped"}
    /\ deferred \in Seq({"cancel", "tracing", "memberlist", "raft", "metrics"})
    /\ cancelled \in BOOLEAN /\ broken \in BOOLEAN /\ asked \in BOOLEAN /\ hup \in BOOLEAN
    /\ result \in {"none", "nil", "error", "killed"}
    /\ sigCh \in Seq({"HUP", "TERM"}) /\ Len(sigCh) <= 1
    /\ handler \in {"off", "receive", "reload", "swap", "returned"}
    /\ file \in Levels \cup {"invalid"}
    /\ loaded \in Levels /\ config \in Levels /\ startLevel \in Levels
    /\ logger \in Levels /\ built \in Levels
    /\ comp \in [listening : 0 .. 2, others : 0 .. 3]
    /\ errCh \in 0 .. ErrCap
    /\ disk \in {"empty", "term", "bootstrapped", "joined"}

\* A process that returns from runDaemon has released all it opened, by
\* whichever of the error paths it left.
NothingLeftOpen == pc = "exited" /\ result # "killed" => open = {} /\ raft # "running"

\* Raft never runs without its log store and its transport: they are open
\* before it starts and closed only after it has been told to stop.
RaftHasItsStores == raft = "running" => {"bolt", "transport"} \subseteq open

\* The exit tells what happened: without an error only after a handled SIGTERM,
\* with one only if something failed, or if the disk of a daemon that is to
\* bootstrap holds what is not its own cluster: another node's log, or a term
\* without a log.  So a daemon whose bootstrap was completed starts again however
\* it was killed.
ExitExplained ==
    /\ result = "nil" => handler = "returned"
    /\ result = "error" => broken \/ (settings.bootstrap /\ disk \in {"term", "joined"})

\* A SIGHUP takes effect: the configuration becomes that of the file if it is
\* valid and not changed again, although the channel holds one signal and drops
\* the others, and although the file may change while it is loaded; unless the
\* process ends.
SighupTakesEffect ==
    (hup /\ file # "invalid") ~> (config = file \/ ~hup \/ pc = "exited")

\* A SIGTERM that has reached the channel ends the process, whether it is
\* starting, serving or reloading, and whether or not a component fails.
ReceivedTermEnds ==
    (pc # "exited" /\ sigCh = <<"TERM">>) ~> (pc = "exited")

\* A component that fails ends the process.
FailureEnds == (pc # "exited" /\ errCh > 0) ~> (pc = "exited")

-----------------------------------------------------------------------------
(* Statements of comments and files that the code does not meet.           *)

\* systemd/pgbastion.service:17, "Graceful shutdown: send SIGTERM": the daemon
\* that is sent SIGTERM ends.
TermEnds == asked ~> (pc = "exited")

\* "Bootstrap only if requested AND the log is empty (first-time startup)."
\* (raft.go:196): a daemon that is started again with a log that is empty still
\* fails only when something fails then.
KilledStartsAgain == result = "error" => broken

\* "Update logger level if changed." (main.go:126): the components log at the
\* level of the configuration.
LevelUpdated == pc = "select" /\ handler = "receive" => logger = config /\ built = config
=============================================================================
