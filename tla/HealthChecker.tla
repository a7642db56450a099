---------------------------- MODULE HealthChecker ----------------------------
(***************************************************************************)
(* The local health checker (health.go) with the goroutines that read it:  *)
(* Manager.Run, which waits for the first result before it starts to       *)
(* evaluate, and a request for /cluster/health/history.  The checker keeps *)
(* one connection, looks at the server through it, publishes a status,     *)
(* adds it to the history, and waits longer after every failure.           *)
(*                                                                         *)
(* The server is external: it stops, starts, and leaves or enters recovery *)
(* at any time.  A stop breaks the connections to it.  A statement sent to *)
(* a running server may still fail (checkCtx runs out), and all of them    *)
(* fail once ctx is cancelled.                                             *)
(***************************************************************************)
EXTENDS HealthHistory

CONSTANTS Lags,          \* lags a standby may report
          Interval,      \* postgresql.health_interval
          Multiplier,    \* postgresql.health_backoff_multiplier
          MaxBackoff,    \* postgresql.health_max_backoff
          FailureCap,    \* failures that reach MaxBackoff: more change nothing
          Limits,        \* limit parameters of history requests, 0 if unusable
          DefaultLimit,  \* entries returned without a limit (20)
          MaxFaults      \* bound: changes of the server, and statements that
                         \* fail although it runs

ASSUME HealthAssumption ==
    /\ Lags \subseteq Nat /\ 0 \in Lags
    /\ Interval \in Nat \ {0} /\ Multiplier \in Nat \ {0} /\ MaxBackoff \in Nat
    /\ FailureCap \in Nat \ {0} /\ Interval * Multiplier * FailureCap >= MaxBackoff
    /\ Limits \subseteq Nat /\ DefaultLimit \in Nat \ {0}
    /\ MaxFaults \in Nat

VARIABLES server,     \* external: "down", "primary" or "standby"
          conn,       \* h.conn: "none", or a connection that is "live" or "dead"
          sockets,    \* connections that were opened and not closed
          pc, result, \* the check under way and the status it is building
          status,     \* h.status
          history,    \* h.history
          ready,      \* readyCh is closed
          failures, currentInterval,
          manager,    \* Manager.Run, and how its wait ended
          request,    \* a history request between its two reads
          cancelled,  \* ctx is done
          faults      \* of those in MaxFaults, so far

checker == <<pc, result, status, history, ready, failures, currentInterval, conn, sockets>>
vars == <<server, checker, manager, request, cancelled, faults>>

HealthStatus == [checked : BOOLEAN, healthy : BOOLEAN, inRecovery : BOOLEAN, lag : Lags]
ZeroStatus == [checked |-> FALSE, healthy |-> FALSE, inRecovery |-> FALSE, lag |-> 0]

\* An entry nobody has written holds the zero status.
ASSUME ZeroAssumption == ZeroEntry = ZeroStatus

\* What a history request has got so far: the number of entries it will show,
\* and how many of them are good.
NoRequest == [open |-> FALSE, shown |-> 0, good |-> 0]

Init ==
    /\ server \in {"down", "primary", "standby"}
    /\ conn = "none" /\ sockets = 0
    /\ pc = "check" /\ result = ZeroStatus
    /\ status = ZeroStatus
    /\ history = NewHealthHistory
    /\ ready = FALSE
    /\ failures = 0 /\ currentInterval = Interval
    /\ manager = "waiting"
    /\ request = NoRequest
    /\ cancelled = FALSE
    /\ faults = 0

-----------------------------------------------------------------------------
(* Statements on the connection.                                           *)

Answers == conn = "live" /\ ~cancelled

Fault == faults < MaxFaults /\ faults' = faults + 1

\* A statement succeeds, or fails for its connection, ctx or time.
Succeeds == Answers /\ UNCHANGED faults
Fails == (~Answers /\ UNCHANGED faults) \/ (Answers /\ Fault)

\* The driver may give up a connection on which a statement ran out of time.
MayBreak == conn' \in {conn, "dead"}

-----------------------------------------------------------------------------
(* check                                                                   *)

\* A cancelled ctx ends the check before it has begun.
Begin ==
    /\ pc = "check"
    /\ result' = [ZeroStatus EXCEPT !.checked = ~cancelled]
    /\ pc' = IF cancelled THEN "wait" ELSE IF conn = "none" THEN "dial" ELSE "ping"
    /\ UNCHANGED <<conn, sockets, status, history, ready, failures, currentInterval, faults>>

\* Faulty variant of Ping: the connection that failed is kept.
PingKeeps ==
    /\ pc = "ping"
    /\ \/ Succeeds /\ pc' = "recovery"
       \/ Fails /\ pc' = "publish"
    /\ UNCHANGED <<conn, sockets, result, status, history, ready, failures, currentInterval>>

\* Faulty variant of Ping: the connection that failed is not closed.
PingForgets ==
    /\ pc = "ping"
    /\ \/ Succeeds /\ pc' = "recovery" /\ UNCHANGED conn
       \/ Fails /\ pc' = "dial" /\ conn' = "none"
    /\ UNCHANGED <<sockets, result, status, history, ready, failures, currentInterval>>

\* getConn tests the connection it has and drops one that fails.
Ping ==
    /\ pc = "ping"
    /\ \/ Succeeds /\ pc' = "recovery" /\ UNCHANGED <<conn, sockets>>
       \/ Fails /\ pc' = "dial" /\ conn' = "none" /\ sockets' = sockets - 1
    /\ UNCHANGED <<result, status, history, ready, failures, currentInterval>>

\* Then it connects.
Dial ==
    /\ pc = "dial"
    /\ \/ /\ server # "down" /\ ~cancelled
          /\ conn' = "live" /\ sockets' = sockets + 1
          /\ pc' = "recovery"
          /\ UNCHANGED faults
       \/ /\ \/ (server = "down" \/ cancelled) /\ UNCHANGED faults
             \/ server # "down" /\ ~cancelled /\ Fault
          /\ pc' = "publish"
          /\ UNCHANGED <<conn, sockets>>
    /\ UNCHANGED <<result, status, history, ready, failures, currentInterval>>

\* pg_is_in_recovery; the answer makes the node healthy and ends the back-off.
AskRecovery ==
    /\ pc = "recovery"
    /\ \/ /\ Succeeds
          /\ result' = [result EXCEPT !.healthy = TRUE,
                                      !.inRecovery = server = "standby"]
          /\ failures' = 0
          /\ currentInterval' = IF failures > 0 THEN Interval ELSE currentInterval
          /\ pc' = "details"
          /\ UNCHANGED conn
       \/ /\ Fails /\ MayBreak
          /\ pc' = "publish"
          /\ UNCHANGED <<result, failures, currentInterval>>
    /\ UNCHANGED <<sockets, status, history, ready>>

\* The lag of a standby; a failing query, or a server that has meanwhile left
\* recovery, reports none.  (The lists a primary reports, and the number of
\* active sessions, are left out.)
AskDetails ==
    /\ pc = "details"
    /\ \/ /\ Succeeds
          /\ \E l \in IF result.inRecovery /\ server = "standby" THEN Lags ELSE {0} :
                result' = [result EXCEPT !.lag = l]
          /\ UNCHANGED conn
       \/ Fails /\ MayBreak /\ UNCHANGED result
    /\ pc' = "publish"
    /\ UNCHANGED <<sockets, status, history, ready, failures, currentInterval>>

\* Faulty variant of Publish: readyCh is closed at once.
PublishReady ==
    /\ pc = "publish"
    /\ status' = result
    /\ ready' = TRUE
    /\ pc' = "add"
    /\ UNCHANGED <<conn, sockets, result, history, failures, currentInterval, faults>>

\* setStatus: the status first ...
Publish ==
    /\ pc = "publish"
    /\ status' = result
    /\ pc' = "add"
    /\ UNCHANGED <<conn, sockets, result, history, ready, failures, currentInterval, faults>>

\* ... then, under another lock, the history, and the first time readyCh.
AddHistory ==
    /\ pc = "add"
    /\ history' = Add(history, result)
    /\ ready' = TRUE
    /\ pc' = IF result.healthy THEN "wait" ELSE "backoff"
    /\ UNCHANGED <<conn, sockets, result, status, failures, currentInterval, faults>>

Smaller(a, b) == IF a < b THEN a ELSE b

\* Faulty variant of RecordFailure: the interval is computed before counting.
RecordFailureLate ==
    /\ pc = "backoff"
    /\ failures' = Smaller(failures + 1, FailureCap)
    /\ currentInterval' = Smaller(Interval * Multiplier * failures, MaxBackoff)
    /\ pc' = "wait"
    /\ UNCHANGED <<conn, sockets, result, status, history, ready, faults>>

\* The counter stops at FailureCap, where the interval no longer depends on it.
RecordFailure ==
    /\ pc = "backoff"
    /\ failures' = Smaller(failures + 1, FailureCap)
    /\ currentInterval' = Smaller(Interval * Multiplier * failures', MaxBackoff)
    /\ pc' = "wait"
    /\ UNCHANGED <<conn, sockets, result, status, history, ready, faults>>

-----------------------------------------------------------------------------
(* Run: the timer, or ctx.  With both ready the select may take either.    *)

TimerFires ==
    /\ pc = "wait"
    /\ pc' = "check"
    /\ UNCHANGED <<conn, sockets, result, status, history, ready, failures,
                   currentInterval, faults>>

Stop ==
    /\ pc = "wait" /\ cancelled
    /\ conn' = "none"
    /\ sockets' = IF conn = "none" THEN sockets ELSE sockets - 1
    /\ pc' = "done"
    /\ UNCHANGED <<result, status, history, ready, failures, currentInterval, faults>>

CheckStep == Begin \/ Ping \/ Dial \/ AskRecovery \/ AskDetails \/ Publish
                \/ AddHistory \/ RecordFailure \/ TimerFires

Rest == <<server, manager, request, cancelled>>
CheckerStep == CheckStep /\ UNCHANGED Rest
CheckerStops == Stop /\ UNCHANGED Rest

-----------------------------------------------------------------------------
(* Manager.Run: the wait for readyCh, its timeout, and ctx.                *)

Starts ==
    /\ manager = "waiting"
    /\ \/ ready /\ manager' = "informed"
       \/ manager' = "late"
    /\ UNCHANGED <<server, checker, request, cancelled, faults>>

ManagerStops ==
    /\ manager # "stopped" /\ cancelled
    /\ manager' = "stopped"
    /\ UNCHANGED <<server, checker, request, cancelled, faults>>

-----------------------------------------------------------------------------
(* healthHistory: the entries and the statistics are read one after the    *)
(* other, each under the lock.                                             *)

\* Faulty variant of ReadEntries: unused slots are listed, up to the limit.
ReadEntriesUncut ==
    /\ ~request.open
    /\ \E limit \in Limits :
         LET n == IF limit > 0 THEN limit ELSE DefaultLimit
         IN  request' = [open |-> TRUE, shown |-> IF n > Capacity THEN Capacity ELSE n,
                         good |-> 0]
    /\ UNCHANGED <<server, checker, manager, cancelled, faults>>

ReadEntries ==
    /\ ~request.open
    /\ \E limit \in Limits :
         LET es == GetRecent(history, IF limit > 0 THEN limit ELSE DefaultLimit)
         IN  request' = [open |-> TRUE, shown |-> Len(es),
                         good |-> Cardinality({i \in DOMAIN es : es[i].healthy})]
    /\ UNCHANGED <<server, checker, manager, cancelled, faults>>

\* The statistics complete the answer (AnswerAddsUp).
ReadStats ==
    /\ request.open
    /\ request' = NoRequest
    /\ UNCHANGED <<server, checker, manager, cancelled, faults>>

-----------------------------------------------------------------------------
(* The world.                                                              *)

ServerChanges ==
    /\ Fault
    /\ \E v \in {"down", "primary", "standby"} \ {server} :
         /\ server' = v
         /\ conn' = IF v = "down" /\ conn = "live" THEN "dead" ELSE conn
    /\ UNCHANGED <<sockets, pc, result, status, history, ready, failures, currentInterval,
                   manager, request, cancelled>>

Cancel ==
    /\ ~cancelled
    /\ cancelled' = TRUE
    /\ UNCHANGED <<server, checker, manager, request, faults>>

Next ==
    \/ CheckerStep \/ CheckerStops
    \/ Starts \/ ManagerStops
    \/ ReadEntries \/ ReadStats
    \/ ServerChanges \/ Cancel

Spec == Init /\ [][Next]_vars

\* Every statement ends by its timeout and timers fire.  A wait that begins
\* after ctx is done finds it done and its timer just started, so a select
\* that keeps coming back to it takes ctx in the end.
FairSpec == Spec /\ WF_vars(CheckerStep) /\ SF_vars(CheckerStops)

-----------------------------------------------------------------------------
(* Properties.                                                             *)

\* Every variable has its type.
TypeOK ==
    /\ server \in {"down", "primary", "standby"}
    /\ conn \in {"none", "live", "dead"} /\ sockets \in Nat
    /\ pc \in {"check", "ping", "dial", "recovery", "details", "publish", "add",
               "backoff", "wait", "done"}
    /\ result \in HealthStatus /\ status \in HealthStatus
    /\ history \in Rings(HealthStatus)
    /\ ready \in BOOLEAN
    /\ failures \in 0 .. FailureCap /\ currentInterval \in Nat
    /\ manager \in {"waiting", "informed", "late", "stopped"}
    /\ request \in [open : BOOLEAN, shown : 0 .. Capacity, good : 0 .. Capacity]
    /\ cancelled \in BOOLEAN
    /\ faults \in 0 .. MaxFaults

\* The readers agree on what the ring holds: GetRecent lists the same checks
\* as GetAll the other way round, up to its limit, and Stats, which walks the
\* slots from the start although a full ring does not begin there, counts
\* exactly them.
ReadersAgree ==
    LET all == GetAll(history)
        ok == Cardinality({i \in DOMAIN all : all[i].healthy})
    IN  /\ \A n \in 0 .. Capacity + 1 :
             LET es == GetRecent(history, n)
             IN  /\ Len(es) = Smaller(n, Len(all))
                 /\ \A i \in DOMAIN es : es[i] = all[Len(all) - i + 1]
        /\ Stats(history) = [total |-> Len(all), success |-> ok, failure |-> Len(all) - ok]

\* Between checks the back-off is what the history calls for: with the last
\* check good there is none; otherwise the counter (which recordFailure moves
\* after setStatus, recordSuccess before it) stands at the number of failed
\* checks since the last good one, and the wait is its multiple up to the
\* maximum.
BackoffMatchesHistory ==
    LET all == GetAll(history)
        good == {i \in DOMAIN all : all[i].healthy}
        since == Len(all) - (CHOOSE i \in good : \A j \in good : j <= i)
    IN  pc = "wait" =>
          /\ good # {} => failures = Smaller(since, FailureCap)
          /\ good = {} => failures >= Smaller(Len(all), FailureCap)
          /\ currentInterval = IF failures = 0 THEN Interval
                               ELSE Smaller(Interval * Multiplier * failures, MaxBackoff)

\* health.go:527 calls it "exponential backoff": each failure would multiply the
\* wait.  The code multiplies by the number of failures, so the third one already
\* waits less.
BackoffExponential ==
    pc = "wait" /\ failures > 0 =>
        currentInterval = Smaller(Interval * Multiplier ^ failures, MaxBackoff)

\* What the manager evaluates after a wait that readyCh ended is the result of
\* a check that is also in the history, never the zero status.
StartsInformed ==
    manager = "informed" => status.checked /\ history.size > 0

\* The answer to a history request, put together from two reads with any
\* number of checks in between, never shows more checks than its statistics
\* count, nor, before the ring has wrapped, more good or more failed ones.
AnswerAddsUp ==
    LET st == Stats(history)
    IN  request.open =>
          /\ request.shown <= st.total
          /\ st.total < Capacity =>
               /\ request.good <= st.success
               /\ request.shown - request.good <= st.failure

\* The history as its readers see it is the list of the latest checks.
Recent == INSTANCE RecentChecks WITH recent <- GetAll(history), Checks <- HealthStatus
RingIsRecent == Recent!Spec

\* A server that stays as it is gets reported as it is, and stays so: no
\* connection to an earlier incarnation of it keeps the checker from
\* noticing, in whatever step of a check the change came.
Reports(v) == /\ status.checked
              /\ status.healthy = (v # "down")
              /\ status.inRecovery = (v = "standby")
ServerNoticed ==
    \A v \in {"down", "primary", "standby"} :
        <>[](server = v /\ ~cancelled) => <>[]Reports(v)

\* A cancelled checker ends, and leaves no connection behind, however many it
\* went through.
StopsClean == cancelled ~> (pc = "done" /\ sockets = 0)

-----------------------------------------------------------------------------
(* Statements of comments that the code does not meet.                     *)

\* The role that patroniRoot and patroniPatroni report ("basic node
\* information", handlers.go:695): a node reports itself as master only if it
\* has last been seen out of recovery.
RootRole == IF ~status.inRecovery THEN "master" ELSE "replica"
MasterWasSeen == status.checked /\ RootRole = "master" => status.healthy
=============================================================================
