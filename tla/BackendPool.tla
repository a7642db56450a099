----------------------------- MODULE BackendPool -----------------------------
(***************************************************************************)
(* The pool of connections to one PostgreSQL backend                       *)
(* (internal/proxy/pool.go).  Clients are goroutines that Acquire a        *)
(* connection and then Release or Discard it, again and again; two         *)
(* goroutines of the pool keep MinIdleConns idle connections (warmUp,      *)
(* once, and maintenance, on a ticker); Close may come at any time.        *)
(*                                                                         *)
(* One action is what runs under one hold of p.mu, or one atomic update of *)
(* totalConns outside of it.  Dialling lies between two actions.           *)
(*                                                                         *)
(* Abstractions.  A connection past IdleTimeout or MaxConnLifetime is in   *)
(* expired; which of the two it was only shows when a waiter stamps        *)
(* LastUsedAt anew.  Metrics and usage counts are left out.                *)
(***************************************************************************)
EXTENDS Integers, Sequences, FiniteSets, Functions

CONSTANTS Clients,      \* goroutines that use the pool
          Conns,        \* identities of connections
          MaxPoolSize,  \* config.MaxPoolSize
          MinIdleConns  \* config.MinIdleConns

\* NewBackendPool replaces a MaxPoolSize that is not positive.
ASSUME PoolAssumption ==
    /\ MaxPoolSize \in Nat \ {0} /\ MinIdleConns \in Nat
    /\ {"none", "empty", "closed"} \cap Conns = {}
    /\ IsFiniteSet(Clients)

VARIABLES idle,      \* the idle connections, last used last
          inUse,     \* the connections handed to clients
          waiters,   \* the clients queued for a connection
          total,     \* totalConns
          closed,    \* Close has run
          open,      \* connections whose socket is open
          expired,   \* connections isConnectionHealthy rejects
          chan,      \* chan[k]: what is in client k's waiter channel
          client,    \* client[k]: where client k is, and its connection
          keeper,    \* keeper[g]: where g is in ensureMinIdleConnections
          lost,      \* history: connections in channels nobody reads any more
          panicked   \* a write to the nil map inUse has killed the process

vars == <<idle, inUse, waiters, total, closed, open, expired, chan, client,
          keeper, lost, panicked>>

Keepers == {"maintenance", "warmUp"}

\* Identities no goroutine, list or channel refers to.
Fresh == Conns \ (open \cup {client[k].conn : k \in Clients})

-----------------------------------------------------------------------------
Init ==
    /\ idle = <<>> /\ inUse = {} /\ waiters = <<>>
    /\ total = 0
    /\ closed = FALSE
    /\ open = {} /\ expired = {} /\ lost = {}
    /\ chan = [k \in Clients |-> "empty"]
    /\ client = [k \in Clients |-> [pc |-> "out", conn |-> "none"]]
    /\ keeper = [g \in Keepers |->
                    [pc |-> IF g = "warmUp" THEN "count" ELSE "asleep",
                     need |-> 0, conn |-> "none"]]
    /\ panicked = FALSE

Enter(k, pc, c) == client' = [client EXCEPT ![k] = [pc |-> pc, conn |-> c]]

-----------------------------------------------------------------------------
(* Acquire.  On a closed pool it returns ErrPoolClosed and changes nothing.*)

Healthy == {i \in DOMAIN idle : idle[i] \notin expired}

\* Idle connections are taken from the end; expired ones met are closed.
AcquireIdle(k) ==
    /\ client[k].pc = "out" /\ ~closed
    /\ \E last \in Healthy :
          LET c == idle[last]
              bad == {idle[i] : i \in last + 1 .. Len(idle)}
          IN  /\ \A i \in Healthy : i <= last
              /\ idle' = SubSeq(idle, 1, last - 1)
              /\ inUse' = inUse \cup {c}
              /\ total' = total - (Len(idle) - last)
              /\ open' = open \ bad
              /\ expired' = expired \ bad
              /\ Enter(k, "using", c)
    /\ UNCHANGED <<waiters, closed, chan, keeper, lost, panicked>>

\* Faulty variant of HasRoom: one connection too many.
HasRoomAtLimit(n) == n <= MaxPoolSize

HasRoom(n) == n < MaxPoolSize

\* The room left once the idle connections, all expired, are closed.
AcquireNew(k) ==
    /\ client[k].pc = "out" /\ ~closed
    /\ Healthy = {}
    /\ idle' = <<>>
    /\ open' = open \ Range(idle)
    /\ expired' = expired \ Range(idle)
    /\ IF HasRoom(total - Len(idle))
       THEN /\ total' = total - Len(idle) + 1
            /\ Enter(k, "dialing", "none")
            /\ UNCHANGED <<waiters, chan>>
       ELSE /\ total' = total - Len(idle)
            /\ waiters' = Append(waiters, k)
            /\ chan' = [chan EXCEPT ![k] = "empty"]
            /\ Enter(k, "waiting", "none")
    /\ UNCHANGED <<inUse, closed, keeper, lost, panicked>>

DialFails(k) ==
    /\ client[k].pc = "dialing"
    /\ total' = total - 1
    /\ Enter(k, "out", "none")
    /\ UNCHANGED <<idle, inUse, waiters, closed, open, expired, chan, keeper, lost, panicked>>

\* Close has set inUse to nil, and writing to a nil map panics.
PutInUse(k, c) ==
    IF closed
    THEN /\ panicked' = TRUE
         /\ UNCHANGED <<inUse, client>>
    ELSE /\ inUse' = inUse \cup {c}
         /\ Enter(k, "using", c)
         /\ UNCHANGED panicked

DialSucceeds(k, c) ==
    /\ client[k].pc = "dialing"
    /\ c \in Fresh
    /\ open' = open \cup {c}
    /\ PutInUse(k, c)
    /\ UNCHANGED <<idle, waiters, total, closed, expired, chan, keeper, lost>>

\* The select takes what is in the channel; a closed channel yields nil.
Receive(k) ==
    /\ client[k].pc = "waiting"
    /\ chan[k] # "empty"
    /\ IF chan[k] = "closed"
       THEN Enter(k, "out", "none") /\ UNCHANGED expired
       ELSE Enter(k, "got", chan[k]) /\ expired' \in {expired, expired \ {chan[k]}}
    /\ chan' = [chan EXCEPT ![k] = "empty"]
    /\ UNCHANGED <<idle, inUse, waiters, total, closed, open, keeper, lost, panicked>>

Register(k) ==
    /\ client[k].pc = "got"
    /\ PutInUse(k, client[k].conn)
    /\ UNCHANGED <<idle, waiters, total, closed, open, expired, chan, keeper, lost>>

\* The timer or the context fires, whether or not the channel is filled too.
GiveUp(k) ==
    /\ client[k].pc = "waiting"
    /\ Enter(k, "leaving", "none")
    /\ UNCHANGED <<idle, inUse, waiters, total, closed, open, expired, chan, keeper, lost, panicked>>

\* Faulty variant of Dequeue: the client stays in the queue.
StayQueued(k) == waiters

\* A client that was given a connection is not in the queue any more.
Dequeue(k) ==
    LET places == {i \in DOMAIN waiters : waiters[i] = k}
        first == CHOOSE i \in places : \A j \in places : i <= j
    IN  IF places = {} THEN waiters
        ELSE SubSeq(waiters, 1, first - 1) \o SubSeq(waiters, first + 1, Len(waiters))

Leave(k) ==
    /\ client[k].pc = "leaving"
    /\ waiters' = Dequeue(k)
    /\ lost' = lost \cup ({chan[k]} \cap Conns)
    /\ chan' = [chan EXCEPT ![k] = "empty"]
    /\ Enter(k, "out", "none")
    /\ UNCHANGED <<idle, inUse, total, closed, open, expired, keeper, panicked>>

-----------------------------------------------------------------------------
(* Release and Discard.                                                    *)

\* Faulty variant of CloseConn: the connection stays counted.
CloseUncounted(c) ==
    /\ open' = open \ {c}
    /\ expired' = expired \ {c}
    /\ UNCHANGED total

CloseConn(c) ==
    /\ open' = open \ {c}
    /\ expired' = expired \ {c}
    /\ total' = total - 1

\* Close has taken the connection over.
ReturnUnknown(k) ==
    /\ client[k].pc = "using" /\ client[k].conn \notin inUse
    /\ open' = open \ {client[k].conn}
    /\ expired' = expired \ {client[k].conn}
    /\ Enter(k, "out", "none")
    /\ UNCHANGED <<idle, inUse, waiters, total, closed, chan, keeper, lost, panicked>>

\* Faulty variant of GiveBack: a waiter gets the connection and so does the pool.
GiveTwice(c) ==
    /\ chan' = IF waiters = <<>> THEN chan ELSE [chan EXCEPT ![Head(waiters)] = c]
    /\ waiters' = IF waiters = <<>> THEN waiters ELSE Tail(waiters)
    /\ idle' = Append(idle, c)

\* The first waiter comes before the idle list.
GiveBack(c) ==
    IF waiters # <<>>
    THEN /\ chan' = [chan EXCEPT ![Head(waiters)] = c]
         /\ waiters' = Tail(waiters)
         /\ UNCHANGED idle
    ELSE /\ idle' = Append(idle, c)
         /\ UNCHANGED <<chan, waiters>>

Release(k) ==
    LET c == client[k].conn
    IN  /\ client[k].pc = "using" /\ c \in inUse
        /\ inUse' = inUse \ {c}
        /\ \/ c \in expired /\ CloseConn(c) /\ UNCHANGED <<chan, waiters, idle>>
           \/ c \notin expired /\ GiveBack(c) /\ UNCHANGED <<open, expired, total>>
        /\ Enter(k, "out", "none")
        /\ UNCHANGED <<closed, keeper, lost, panicked>>

Discard(k) ==
    /\ client[k].pc = "using" /\ client[k].conn \in inUse
    /\ inUse' = inUse \ {client[k].conn}
    /\ CloseConn(client[k].conn)
    /\ Enter(k, "out", "none")
    /\ UNCHANGED <<idle, waiters, closed, chan, keeper, lost, panicked>>

Close ==
    /\ ~closed
    /\ closed' = TRUE
    /\ LET gone == Range(idle) \cup inUse
       IN  /\ open' = open \ gone
           /\ expired' = expired \ gone
           /\ total' = total - Len(idle) - Cardinality(inUse)
    /\ idle' = <<>> /\ inUse' = {} /\ waiters' = <<>>
    /\ chan' = [k \in Clients |-> IF k \in Range(waiters) THEN "closed" ELSE chan[k]]
    /\ UNCHANGED <<client, keeper, lost, panicked>>

-----------------------------------------------------------------------------
(* The pool's own goroutines.                                              *)

Advance(g, pc, need, c) ==
    keeper' = [keeper EXCEPT ![g] = [pc |-> pc, need |-> need, conn |-> c]]

\* ensureMinIdleConnections returns; warmUp is over, maintenance waits for its
\* ticker or finds done closed.
Rest(g) == Advance(g, IF g = "warmUp" \/ closed THEN "ended" ELSE "asleep", 0, "none")

\* newIdle, the one list of the healthy connections in which they keep their
\* order.
HealthyInOrder ==
    {[i \in DOMAIN f |-> idle[f[i]]] :
        f \in {b \in Bijection(1 .. Cardinality(Healthy), Healthy) :
                  \A i, j \in DOMAIN b : i < j => b[i] < b[j]}}

\* A tick: cleanupIdleConnections, then on to ensureMinIdleConnections.
CleanupIdle ==
    /\ keeper["maintenance"].pc = "asleep"
    /\ IF closed
       THEN UNCHANGED <<idle, open, expired, total>>
       ELSE LET bad == Range(idle) \cap expired
            IN  /\ idle' \in HealthyInOrder
                /\ open' = open \ bad
                /\ expired' = expired \ bad
                /\ total' = total - (Len(idle) - Cardinality(Healthy))
    /\ Advance("maintenance", "count", 0, "none")
    /\ UNCHANGED <<inUse, waiters, closed, chan, client, lost, panicked>>

CountIdle(g) ==
    /\ keeper[g].pc = "count"
    /\ LET needed == MinIdleConns - Len(idle)
           canCreate == MaxPoolSize - total
       IN  IF needed <= 0 \/ canCreate <= 0 THEN Rest(g)
           ELSE Advance(g, "check", IF needed > canCreate THEN canCreate ELSE needed, "none")
    /\ UNCHANGED <<idle, inUse, waiters, total, closed, open, expired, chan, client, lost, panicked>>

\* Faulty variant of Enough: connections are not counted down to zero.
EnoughLater(g) == closed \/ total >= MaxPoolSize

Enough(g) == keeper[g].need = 0 \/ closed \/ total >= MaxPoolSize

CheckRoom(g) ==
    /\ keeper[g].pc = "check"
    /\ IF Enough(g) THEN Rest(g)
       ELSE Advance(g, "dial", keeper[g].need, "none")
    /\ UNCHANGED <<idle, inUse, waiters, total, closed, open, expired, chan, client, lost, panicked>>

KeeperDialFails(g) ==
    /\ keeper[g].pc = "dial"
    /\ Advance(g, "check", keeper[g].need - 1, "none")
    /\ UNCHANGED <<idle, inUse, waiters, total, closed, open, expired, chan, client, lost, panicked>>

\* The connection is counted only now, outside the lock.
KeeperDialSucceeds(g, c) ==
    /\ keeper[g].pc = "dial"
    /\ c \in Fresh
    /\ open' = open \cup {c}
    /\ total' = total + 1
    /\ Advance(g, "append", keeper[g].need, c)
    /\ UNCHANGED <<idle, inUse, waiters, closed, expired, chan, client, lost, panicked>>

\* Faulty variant of AppendIdle: a closed pool is not noticed.
AppendAnyway(g) ==
    /\ keeper[g].pc = "append"
    /\ idle' = Append(idle, keeper[g].conn)
    /\ Advance(g, "check", keeper[g].need - 1, "none")
    /\ UNCHANGED <<open, expired, total, inUse, waiters, closed, chan, client, lost, panicked>>

AppendIdle(g) ==
    /\ keeper[g].pc = "append"
    /\ IF closed
       THEN CloseConn(keeper[g].conn) /\ Rest(g) /\ UNCHANGED idle
       ELSE /\ idle' = Append(idle, keeper[g].conn)
            /\ Advance(g, "check", keeper[g].need - 1, "none")
            /\ UNCHANGED <<open, expired, total>>
    /\ UNCHANGED <<inUse, waiters, closed, chan, client, lost, panicked>>

\* Time passes for a connection.
Expire(c) ==
    /\ c \in open \ (expired \cup lost)
    /\ expired' = expired \cup {c}
    /\ UNCHANGED <<idle, inUse, waiters, total, closed, open, chan, client, keeper, lost, panicked>>

Acquire(k) ==
    \/ AcquireIdle(k) \/ AcquireNew(k)
    \/ DialFails(k) \/ (\E c \in Conns : DialSucceeds(k, c))
    \/ Receive(k) \/ Register(k) \/ GiveUp(k) \/ Leave(k)

Keep(g) ==
    \/ CountIdle(g) \/ CheckRoom(g)
    \/ KeeperDialFails(g) \/ (\E c \in Conns : KeeperDialSucceeds(g, c))
    \/ AppendIdle(g)

Next ==
    /\ ~panicked
    /\ \/ \E k \in Clients : Acquire(k) \/ Release(k) \/ Discard(k) \/ ReturnUnknown(k)
       \/ \E g \in Keepers : Keep(g)
       \/ CleanupIdle
       \/ Close
       \/ \E c \in Conns : Expire(c)

Spec == Init /\ [][Next]_vars

-----------------------------------------------------------------------------
(* Properties.                                                             *)

ClientPCs == {"out", "dialing", "waiting", "leaving", "got", "using"}
KeeperPCs == {"asleep", "count", "check", "dial", "append", "ended"}

\* The types of the pool's state and of its goroutines.
TypeOK ==
    /\ idle \in Seq(Conns)
    /\ inUse \subseteq Conns
    /\ waiters \in Seq(Clients)
    /\ total \in Int
    /\ closed \in BOOLEAN /\ panicked \in BOOLEAN
    /\ open \subseteq Conns /\ expired \subseteq Conns /\ lost \subseteq Conns
    /\ chan \in [Clients -> Conns \cup {"empty", "closed"}]
    /\ client \in [Clients -> [pc : ClientPCs, conn : Conns \cup {"none"}]]
    /\ keeper \in [Keepers -> [pc : KeeperPCs, need : Nat, conn : Conns \cup {"none"}]]

Handed == {chan[k] : k \in Clients} \cap Conns
Held(pc) == {client[k].conn : k \in {j \in Clients : client[j].pc = pc}}
Appending == {keeper[g].conn : g \in {h \in Keepers : keeper[h].pc = "append"}}

\* totalConns counts what is there: connections idle, in use, on their way to a
\* waiter or to the idle list, forgotten in a channel, and the dials of Acquire
\* (Acquire counts before it dials, pool.go:182, a keeper after it, pool.go:514).
TotalCounts ==
    total = Len(idle) + Cardinality(inUse) + Cardinality(Handed) + Cardinality(Held("got"))
            + Cardinality(Appending) + Cardinality(lost)
            + Cardinality({k \in Clients : client[k].pc = "dialing"})

\* A connection is in one place at a time and its socket is open there: two
\* clients never share one, and none is handed out that is also idle.  (Open is
\* what the pool has not closed; a drain at its deadline, connection.go:127, may
\* close the socket of one in use.)
OneHolder ==
    /\ \A i, j \in DOMAIN idle : idle[i] = idle[j] => i = j
    /\ \A k, l \in Clients : client[k].conn = client[l].conn /\ client[k].conn # "none" => k = l
    /\ \A k, l \in Clients : chan[k] = chan[l] /\ chan[k] \in Conns => k = l
    /\ Range(idle) \cap (inUse \cup Handed \cup Held("got") \cup Held("using") \cup Appending) = {}
    /\ Handed \cap (inUse \cup Held("got") \cup Held("using")) = {}
    /\ inUse \subseteq Held("using")
    /\ Range(idle) \cup inUse \cup Handed \cup Held("got") \subseteq open

\* Release sends into a waiter's channel while it holds p.mu (pool.go:300). The
\* channel takes one connection; every queued channel is empty and has a reader,
\* so the send never blocks with the lock held.
SendNeverBlocks ==
    /\ \A i \in DOMAIN waiters : /\ chan[waiters[i]] = "empty"
                                 /\ client[waiters[i]].pc \in {"waiting", "leaving"}
    /\ \A i, j \in DOMAIN waiters : waiters[i] = waiters[j] => i = j

\* The pool exceeds MaxPoolSize by no more than one connection for each of its
\* two keepers (a keeper counts after dialling, pool.go:500-514).
OvershootBounded == total <= MaxPoolSize + Cardinality(Keepers)

\* After Close nothing is left open but what a goroutine still has in its hands
\* or a channel, and nobody is left waiting for a send (pool.go:325).
ClosedForGood ==
    closed => /\ idle = <<>> /\ waiters = <<>>
              /\ open \subseteq Handed \cup Held("got") \cup Appending \cup lost \cup
                                (IF panicked THEN Conns ELSE {})
              /\ \A k \in Clients : client[k].pc = "waiting" => chan[k] # "empty"

\* "Release returns a connection to the pool." (pool.go:270): a connection that
\* is released is not lost to it.
NoneLost == lost = {}

\* "DrainAll drains all pools gracefully." (pool_manager.go:139): closing a pool
\* crashes no goroutine that is still in Acquire.
CloseIsGraceful == ~panicked
=============================================================================
