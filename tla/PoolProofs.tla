----------------------------- MODULE PoolProofs -----------------------------
(***************************************************************************)
(* The connection pool: a connection is in one place at a time, sends to   *)
(* waiters never block, totalConns counts what is there and exceeds the    *)
(* limit by no more than two, and Close leaves nothing behind.             *)
(***************************************************************************)
EXTENDS BackendPool, TLAPS

-----------------------------------------------------------------------------
(* The inductive invariant.                                                *)

\* What the program counters say of the fields of a goroutine.
Shapes ==
    /\ \A k \in Clients : client[k].conn \in Conns <=> client[k].pc \in {"got", "using"}
    /\ \A g \in Keepers : /\ keeper[g].conn \in Conns <=> keeper[g].pc = "append"
                          /\ keeper[g].pc \in {"dial", "append"} => keeper[g].need > 0
    /\ panicked => closed

\* A client is in the queue exactly while it waits with nothing in its channel.
Queue ==
    /\ IsInjective(waiters)
    /\ \A k \in Clients : k \in Range(waiters) <=>
          client[k].pc \in {"waiting", "leaving"} /\ chan[k] = "empty"
    /\ \A k \in Clients : client[k].pc \notin {"waiting", "leaving"} => chan[k] = "empty"

\* Where a connection is not: in the hands of a client, in a channel, in the
\* hands of a keeper.
NoHand(c) == \A k \in Clients : client[k].conn # c
NoChan(c) == \A k \in Clients : chan[k] # c
NoKeeper(c) == \A g \in Keepers : keeper[g].conn # c

\* A connection is in one place at most.
Once(c) ==
    \/ /\ \E k \in Clients : \A l \in Clients : l # k => client[l].conn # c
       /\ NoChan(c) /\ NoKeeper(c) /\ c \notin Range(idle) /\ c \notin lost
    \/ /\ \E k \in Clients : \A l \in Clients : l # k => chan[l] # c
       /\ NoHand(c) /\ NoKeeper(c) /\ c \notin Range(idle) /\ c \notin lost
    \/ /\ \E g \in Keepers : \A h \in Keepers : h # g => keeper[h].conn # c
       /\ NoHand(c) /\ NoChan(c) /\ c \notin Range(idle) /\ c \notin lost
    \/ /\ NoHand(c) /\ NoChan(c) /\ NoKeeper(c)
       /\ c \notin Range(idle) \/ c \notin lost

Apart == IsInjective(idle) /\ \A c \in Conns : Once(c)

\* The places that hold c; the sockets of all of them are open.
Place(c) ==
    \/ c \in Range(idle) \cup inUse \cup lost
    \/ \E k \in Clients : chan[k] = c
    \/ \E k \in Clients : client[k].pc = "got" /\ client[k].conn = c
    \/ \E g \in Keepers : keeper[g].conn = c

Sockets ==
    /\ \A c \in Conns : Place(c) => c \in open
    /\ \A c \in open : Place(c) \/ panicked
    /\ \A c \in inUse : \E k \in Clients : client[k].pc = "using" /\ client[k].conn = c
    /\ closed => idle = <<>> /\ waiters = <<>> /\ inUse = {}

PoolInv == TypeOK /\ Shapes /\ Queue /\ Apart /\ Sockets

\* A step takes a connection to no new place.
Follows(c) ==
    /\ \A k \in Clients : /\ client'[k].conn = c => client[k].conn = c
                          /\ chan'[k] = c => chan[k] = c
    /\ \A g \in Keepers : keeper'[g].conn = c => keeper[g].conn = c
    /\ c \in Range(idle') => c \in Range(idle)
    /\ c \in lost' => c \in lost

-----------------------------------------------------------------------------
(* What the pool does to its two lists: who is in the list afterwards, and *)
(* that nobody is in it twice.                                             *)

\* An empty list, after Close or when every idle connection had expired.
LEMMA EmptyList ==
    <<>> \in Seq({}) /\ Len(<<>>) = 0 /\ Range(<<>>) = {} /\ IsInjective(<<>>)
BY DEF Range, IsInjective

\* Release and a keeper append to idle, Acquire to waiters.
LEMMA AppendList ==
    ASSUME NEW S, NEW s \in Seq(S), NEW e \in S
    PROVE  /\ Append(s, e) \in Seq(S)
           /\ Len(Append(s, e)) = Len(s) + 1
           /\ Range(Append(s, e)) = Range(s) \cup {e}
           /\ IsInjective(s) /\ e \notin Range(s) => IsInjective(Append(s, e))
<1> DEFINE t == Append(s, e)
<1>1. /\ t \in Seq(S) /\ Len(t) = Len(s) + 1 /\ DOMAIN t = 1 .. Len(s) + 1
      /\ DOMAIN s = 1 .. Len(s) /\ Len(s) \in Nat
      /\ \A i \in 1 .. Len(s) : t[i] = s[i]
      /\ t[Len(s) + 1] = e
  OBVIOUS
<1> HIDE DEF t
<1>2. Range(t) = Range(s) \cup {e}
  BY <1>1 DEF Range
<1>3. IsInjective(s) /\ e \notin Range(s) => IsInjective(t)
  BY <1>1 DEF IsInjective, Range
<1> QED
  BY <1>1, <1>2, <1>3, Zenon DEF t

\* Release takes the first waiter.
LEMMA TailList ==
    ASSUME NEW S, NEW s \in Seq(S), s # <<>>, IsInjective(s)
    PROVE  /\ Tail(s) \in Seq(S) /\ IsInjective(Tail(s))
           /\ Head(s) \in S /\ Head(s) \in Range(s)
           /\ Range(Tail(s)) = Range(s) \ {Head(s)}
<1> DEFINE t == Tail(s)
<1>1. /\ t \in Seq(S) /\ DOMAIN t = 1 .. Len(s) - 1 /\ DOMAIN s = 1 .. Len(s)
      /\ Len(s) \in Nat /\ Len(s) > 0 /\ Head(s) = s[1] /\ s[1] \in S
      /\ \A i \in 1 .. Len(s) - 1 : t[i] = s[i + 1]
  OBVIOUS
<1> HIDE DEF t
<1>2. ASSUME NEW i \in 1 .. Len(s) - 1
      PROVE  i + 1 \in DOMAIN s /\ 1 \in DOMAIN s /\ i + 1 # 1 /\ t[i] = s[i + 1] /\ t[i] # s[1]
  BY <1>1 DEF IsInjective
<1>3. IsInjective(t)
  <2> SUFFICES ASSUME NEW i \in DOMAIN t, NEW j \in DOMAIN t, t[i] = t[j] PROVE i = j
    BY Zenon DEF IsInjective
  <2>1. i + 1 = j + 1
    BY <1>1, <1>2 DEF IsInjective
  <2> QED
    BY <1>1, <2>1
<1>4. Range(t) \subseteq Range(s) \ {s[1]} /\ s[1] \in Range(s)
  BY <1>1, <1>2 DEF Range
<1>5. ASSUME NEW i \in 2 .. Len(s) PROVE s[i] \in Range(t)
  <2>1. i - 1 \in 1 .. Len(s) - 1 /\ t[i - 1] = s[i]
    BY <1>1
  <2> QED
    BY <1>1, <2>1, Zenon DEF Range
<1>6. Range(s) \subseteq Range(t) \cup {s[1]}
  BY <1>1, <1>5 DEF Range
<1> QED
  BY <1>1, <1>3, <1>4, <1>6, Zenon DEF t

\* Acquire cuts the idle list below the connection it takes.
LEMMA PrefixList ==
    ASSUME NEW S, NEW s \in Seq(S), NEW n \in 1 .. Len(s), IsInjective(s)
    PROVE  LET bad == {s[i] : i \in n + 1 .. Len(s)}
               t == SubSeq(s, 1, n - 1)
           IN  /\ t \in Seq(S) /\ IsInjective(t)
               /\ Len(t) = n - 1
               /\ Range(t) = Range(s) \ (bad \cup {s[n]})
               /\ s[n] \in Range(s) \ bad /\ bad \subseteq Range(s)
<1> DEFINE t == SubSeq(s, 1, n - 1)
           bad == {s[i] : i \in n + 1 .. Len(s)}
<1>1. /\ t \in Seq(S) /\ Len(t) = n - 1 /\ DOMAIN t = 1 .. n - 1
      /\ DOMAIN s = 1 .. Len(s) /\ Len(s) \in Nat
      /\ \A i \in 1 .. n - 1 : t[i] = s[i]
  OBVIOUS
<1> HIDE DEF t
<1>2. IsInjective(t) /\ s[n] \in Range(s) \ bad /\ bad \subseteq Range(s)
  BY <1>1 DEF IsInjective, Range
<1>3. Range(t) \subseteq Range(s) \ (bad \cup {s[n]})
  BY <1>1 DEF IsInjective, Range
<1>4. Range(s) \subseteq Range(t) \cup bad \cup {s[n]}
  BY <1>1 DEF Range
<1> QED
  BY <1>1, <1>2, <1>3, <1>4, Zenon DEF t

\* A waiter that gives up is taken out of the queue.
LEMMA DequeueList ==
    ASSUME TypeOK, IsInjective(waiters), NEW k \in Clients
    PROVE  /\ Dequeue(k) \in Seq(Clients) /\ IsInjective(Dequeue(k))
           /\ Range(Dequeue(k)) = Range(waiters) \ {k}
           /\ waiters = <<>> => Dequeue(k) = <<>>
<1> DEFINE w == waiters
           places == {i \in DOMAIN w : w[i] = k}
           first == CHOOSE i \in places : \A j \in places : i <= j
<1>1. w \in Seq(Clients) /\ Len(w) \in Nat /\ DOMAIN w = 1 .. Len(w)
  BY DEF TypeOK
<1>2. CASE places = {}
  BY <1>1, <1>2, Zenon DEF Dequeue, Range
<1>3. ASSUME NEW p \in DOMAIN w, w[p] = k
      PROVE  /\ Dequeue(k) \in Seq(Clients) /\ IsInjective(Dequeue(k)) /\ w # <<>>
             /\ Range(Dequeue(k)) = Range(waiters) \ {k}
  <2> DEFINE u == SubSeq(w, 1, p - 1) \o SubSeq(w, p + 1, Len(w))
  <2>1. \A j \in DOMAIN w : w[j] = k => j = p
    BY <1>3, Zenon DEF IsInjective
  <2>2. first = p /\ places # {}
    BY <1>1, <1>3, <2>1
  <2>3. Dequeue(k) = u
    BY <2>2, Zenon DEF Dequeue
  <2> HIDE DEF w
  <2> DEFINE a == SubSeq(w, 1, p - 1)
             b == SubSeq(w, p + 1, Len(w))
  <2>4. a \in Seq(Clients) /\ Len(a) = p - 1 /\ \A i \in 1 .. p - 1 : a[i] = w[i]
    BY <1>1, <1>3
  <2>5. b \in Seq(Clients) /\ Len(b) = Len(w) - p /\ \A i \in 1 .. Len(w) - p : b[i] = w[p + i]
    <3>1. p \in Nat /\ Len(w) \in Nat /\ 1 <= p /\ p <= Len(w) /\ w \in Seq(Clients)
      BY <1>1, <1>3
    <3>2. b \in Seq(Clients) /\ Len(b) = Len(w) - p
      BY <3>1
    <3>3. ASSUME NEW i \in 1 .. Len(w) - p PROVE b[i] = w[p + i]
      BY <3>1, <3>3
    <3> QED
      BY <3>2, <3>3, Zenon
  <2>6. a \in Seq(Clients) /\ b \in Seq(Clients) /\ u = a \o b
    BY <2>4, <2>5, Zenon
  <2> HIDE DEF a, b, u
  <2>7. /\ u \in Seq(Clients) /\ Len(u) = Len(a) + Len(b) /\ DOMAIN u = 1 .. Len(u)
         /\ \A i \in 1 .. Len(a) + Len(b) : u[i] = IF i <= Len(a) THEN a[i] ELSE b[i - Len(a)]
    BY <2>6
  <2>8. DOMAIN u = 1 .. Len(w) - 1
    BY <1>1, <1>3, <2>4, <2>5, <2>7
  <2>9. ASSUME NEW i \in 1 .. Len(w) - 1 PROVE u[i] = IF i < p THEN w[i] ELSE w[i + 1]
    <3>1. CASE i < p
      BY <1>1, <1>3, <2>4, <2>5, <2>7, <3>1
    <3>2. CASE ~(i < p)
      <4>1. /\ i - Len(a) \in 1 .. Len(w) - p /\ i \in 1 .. Len(a) + Len(b) /\ ~(i <= Len(a))
            /\ p + (i - Len(a)) = i + 1
        BY <1>1, <1>3, <2>4, <2>5, <3>2
      <4> QED
        BY <2>5, <2>7, <3>2, <4>1, Zenon
    <3> QED
      BY <3>1, <3>2, Zenon
  <2>10. IsInjective(u)
    <3> DEFINE at(n) == IF n < p THEN n ELSE n + 1
    <3> SUFFICES ASSUME NEW i \in DOMAIN u, NEW j \in DOMAIN u, u[i] = u[j] PROVE i = j
      BY Zenon DEF IsInjective
    <3>1. at(i) \in DOMAIN w /\ at(j) \in DOMAIN w /\ w[at(i)] = w[at(j)]
      BY <1>1, <1>3, <2>8, <2>9
    <3>2. at(i) = at(j)
      BY <3>1, Zenon DEF IsInjective, w
    <3> QED
      BY <1>1, <1>3, <2>8, <3>2
  <2>11. ASSUME NEW i \in DOMAIN u PROVE u[i] # k /\ u[i] \in Range(w)
    BY <1>1, <1>3, <2>1, <2>8, <2>9 DEF Range
  <2>12. Range(u) \subseteq Range(w) \ {k}
    BY <2>11, Zenon DEF Range
  <2>13. ASSUME NEW i \in DOMAIN w, i # p PROVE w[i] \in Range(u)
    <3>1. /\ i < p => i \in DOMAIN u /\ u[i] = w[i]
          /\ i > p => i - 1 \in DOMAIN u /\ u[i - 1] = w[i]
      BY <1>1, <1>3, <2>8, <2>9, <2>13
    <3> QED
      BY <1>1, <1>3, <2>13, <3>1 DEF Range
  <2>14. Range(w) \subseteq Range(u) \cup {k} /\ w # <<>>
    BY <1>1, <1>3, <2>13 DEF Range
  <2> QED
    BY <2>3, <2>7, <2>10, <2>12, <2>14, Zenon DEF w
<1> QED
  BY <1>2, <1>3, Zenon

-----------------------------------------------------------------------------
(* One place.                                                              *)

\* A connection that a client has is nowhere else.
LEMMA InHand ==
    ASSUME Apart, NEW k \in Clients, client[k].conn \in Conns
    PROVE  LET c == client[k].conn
           IN  /\ NoChan(c) /\ NoKeeper(c) /\ c \notin Range(idle) /\ c \notin lost
               /\ \A l \in Clients : l # k => client[l].conn # c
BY Zenon DEF Apart, Once, NoHand

\* Nor is one that a waiter finds in its channel.
LEMMA InChan ==
    ASSUME Apart, NEW k \in Clients, chan[k] \in Conns
    PROVE  LET c == chan[k]
           IN  /\ NoHand(c) /\ NoKeeper(c) /\ c \notin Range(idle) /\ c \notin lost
               /\ \A l \in Clients : l # k => chan[l] # c
BY Zenon DEF Apart, Once, NoChan

\* Nor is one that a keeper has dialled.
LEMMA InKeeper ==
    ASSUME Apart, NEW g \in Keepers, keeper[g].conn \in Conns
    PROVE  LET c == keeper[g].conn
           IN  /\ NoHand(c) /\ NoChan(c) /\ c \notin Range(idle) /\ c \notin lost
               /\ \A h \in Keepers : h # g => keeper[h].conn # c
BY Zenon DEF Apart, Once, NoKeeper

\* Nor is an idle one.
LEMMA InIdle ==
    ASSUME Apart, NEW c \in Conns, c \in Range(idle)
    PROVE  NoHand(c) /\ NoChan(c) /\ NoKeeper(c) /\ c \notin lost
BY Zenon DEF Apart, Once

\* A connection that is taken to no new place is in one place still.
LEMMA StaysOnce ==
    ASSUME NEW c, Once(c), Follows(c)
    PROVE  Once(c)'
<1>1. /\ NoHand(c) => NoHand(c)'
      /\ NoChan(c) => NoChan(c)'
      /\ NoKeeper(c) => NoKeeper(c)'
      /\ c \notin Range(idle) => c \notin Range(idle')
      /\ c \notin lost => c \notin lost'
  BY Zenon DEF Follows, NoHand, NoChan, NoKeeper
<1>2. ASSUME NEW k \in Clients
      PROVE  /\ client[k].conn # c => client'[k].conn # c
             /\ chan[k] # c => chan'[k] # c
  BY Zenon DEF Follows
<1>3. ASSUME NEW g \in Keepers PROVE keeper[g].conn # c => keeper'[g].conn # c
  BY Zenon DEF Follows
<1> QED
  BY <1>1, <1>2, <1>3, Zenon DEF Once

\* A step that moves no connection but c.
LEMMA OneMoves ==
    ASSUME Apart, IsInjective(idle'), NEW c \in Conns, Once(c)',
           \A d \in Conns : d # c => Follows(d)
    PROVE  Apart'
BY StaysOnce, Zenon DEF Apart

\* A step that moves none.
LEMMA NoneMoves ==
    ASSUME Apart, IsInjective(idle'), \A d \in Conns : Follows(d)
    PROVE  Apart'
BY StaysOnce, Zenon DEF Apart

-----------------------------------------------------------------------------
(* Lemmas that several actions share.                                      *)

\* What the invariant says of the lists and of the open sockets.
LEMMA Lists ==
    ASSUME PoolInv
    PROVE  /\ idle \in Seq(Conns) /\ Len(idle) \in Nat /\ IsInjective(idle)
           /\ Range(idle) \subseteq Conns
           /\ waiters \in Seq(Clients) /\ IsInjective(waiters)
           /\ open \subseteq Conns
BY DEF PoolInv, TypeOK, Queue, Apart, Range

\* A step that leaves every connection where it is.  A goroutine that panics in
\* a closed pool may leave one more socket open.
LEMMA NothingMoves ==
    ASSUME PoolInv, TypeOK',
           UNCHANGED <<idle, inUse, waiters, closed, chan, lost>>,
           panicked => panicked', panicked' => panicked \/ closed,
           open \subseteq open', panicked' \/ open' \subseteq open,
           \A k \in Clients : /\ client'[k].conn = client[k].conn
                              /\ client'[k].pc = "got" <=> client[k].pc = "got"
                              /\ client'[k].pc = "using" <=> client[k].pc = "using"
                              /\ client'[k].pc \in {"waiting", "leaving"} <=>
                                    client[k].pc \in {"waiting", "leaving"},
           \A g \in Keepers : /\ keeper'[g].conn = keeper[g].conn
                              /\ keeper'[g].pc = "append" <=> keeper[g].pc = "append"
                              /\ keeper'[g].pc \in {"dial", "append"} => keeper'[g].need > 0
    PROVE  PoolInv'
<1>1. Shapes' /\ Queue'
  BY DEF PoolInv, Shapes, Queue
<1>2. Apart'
  BY NoneMoves, Zenon DEF PoolInv, Apart, Follows
<1>3. Sockets'
  BY DEF PoolInv, Sockets, Place
<1> QED
  BY <1>1, <1>2, <1>3, Zenon DEF PoolInv

\* A client closes the connection it was using and is done with it.
LEMMA ConnectionCloses ==
    ASSUME PoolInv, NEW k \in Clients, client[k].pc = "using",
           inUse' = inUse \ {client[k].conn}, open' = open \ {client[k].conn},
           expired' = expired \ {client[k].conn}, total' \in Int,
           Enter(k, "out", "none"),
           UNCHANGED <<idle, waiters, closed, chan, keeper, lost, panicked>>
    PROVE  PoolInv'
<1> USE PoolAssumption DEF PoolInv
<1> DEFINE c == client[k].conn
<1>1. /\ c \in Conns /\ client'[k].pc = "out" /\ client'[k].conn = "none"
      /\ \A l \in Clients : l # k => client'[l] = client[l]
  BY Zenon DEF Enter, TypeOK, Shapes
<1>2. TypeOK'
  BY Zenon DEF Enter, TypeOK, ClientPCs
<1>3. Shapes' /\ Queue'
  BY <1>1, Zenon DEF Shapes, Queue
<1>4. Apart'
  BY <1>1, NoneMoves, Zenon DEF Apart, Follows
<1>5. /\ NoChan(c) /\ NoKeeper(c) /\ c \notin Range(idle) /\ c \notin lost
      /\ \A l \in Clients : l # k => client[l].conn # c
  BY <1>1, InHand, Zenon
<1>6. ASSUME NEW d \in Conns, Place(d)' PROVE d \in open'
  BY <1>1, <1>5, <1>6 DEF Sockets, Place, NoChan, NoKeeper
<1>7. ASSUME NEW d \in open' PROVE Place(d)' \/ panicked'
  BY <1>1, <1>7 DEF Sockets, Place
<1>8. Sockets'
  BY <1>1, <1>6, <1>7 DEF Sockets
<1> QED
  BY <1>2, <1>3, <1>4, <1>8, Zenon

\* A keeper goes on with no connection in its hands.
LEMMA KeeperMoves ==
    ASSUME PoolInv, NEW g \in Keepers, keeper[g].pc # "append",
           NEW pc \in KeeperPCs \ {"append"}, NEW need \in Nat, pc = "dial" => need > 0,
           Advance(g, pc, need, "none"),
           UNCHANGED <<idle, inUse, waiters, total, closed, open, expired, chan, client, lost, panicked>>
    PROVE  PoolInv'
<1>1. /\ TypeOK' /\ keeper[g].conn = "none"
      /\ keeper'[g] = [pc |-> pc, need |-> need, conn |-> "none"]
      /\ \A h \in Keepers : h # g => keeper'[h] = keeper[h]
  BY Zenon DEF PoolInv, TypeOK, Shapes, Advance
<1>2. \A h \in Keepers : /\ keeper'[h].conn = keeper[h].conn
                         /\ keeper'[h].pc = "append" <=> keeper[h].pc = "append"
                         /\ keeper'[h].pc \in {"dial", "append"} => keeper'[h].need > 0
  BY <1>1 DEF PoolInv, Shapes
<1> QED
  BY <1>1, <1>2, NothingMoves, Zenon


-----------------------------------------------------------------------------
(* Each action keeps the invariant.  The first step says what the action   *)
(* does to the lists, the channels and the goroutines, the others follow.  *)

\* A connection is taken from the idle list (pool.go:156).
LEMMA AcquireIdleKeeps ==
    ASSUME PoolInv, NEW k \in Clients, AcquireIdle(k)
    PROVE  PoolInv'
<1> USE PoolAssumption DEF PoolInv
<1>1. PICK last \in Healthy :
         /\ idle' = SubSeq(idle, 1, last - 1) /\ inUse' = inUse \cup {idle[last]}
         /\ open' = open \ {idle[i] : i \in last + 1 .. Len(idle)}
         /\ expired' = expired \ {idle[i] : i \in last + 1 .. Len(idle)}
         /\ total' = total - (Len(idle) - last)
         /\ Enter(k, "using", idle[last])
  BY Zenon DEF AcquireIdle
<1> DEFINE bad == {idle[i] : i \in last + 1 .. Len(idle)}
<1>2. /\ last \in 1 .. Len(idle) /\ idle \in Seq(Conns) /\ IsInjective(idle)
      /\ total' \in Int
  BY <1>1 DEF Healthy, TypeOK, Apart
<1>3. PICK c \in Conns : c = idle[last]
  BY <1>2
<1>4. /\ idle' \in Seq(Conns) /\ IsInjective(idle')
      /\ Range(idle') = Range(idle) \ (bad \cup {c})
      /\ c \in Range(idle) \ bad /\ bad \subseteq Range(idle)
  <2> DEFINE t == SubSeq(idle, 1, last - 1)
  <2>1. /\ t \in Seq(Conns) /\ IsInjective(t)
        /\ Range(t) = Range(idle) \ (bad \cup {idle[last]})
        /\ idle[last] \in Range(idle) \ bad /\ bad \subseteq Range(idle)
    BY <1>2, PrefixList
  <2> HIDE DEF bad
  <2> QED
    BY <1>1, <1>3, <2>1, Zenon
<1>5. /\ client[k].pc = "out" /\ ~closed
      /\ inUse' = inUse \cup {c} /\ open' = open \ bad /\ expired' = expired \ bad
      /\ UNCHANGED <<waiters, closed, chan, keeper, lost, panicked>>
      /\ client'[k].pc = "using" /\ client'[k].conn = c
      /\ \A l \in Clients : l # k => client'[l] = client[l]
      /\ TypeOK'
  BY <1>1, <1>2, <1>3, <1>4 DEF AcquireIdle, Enter, TypeOK, ClientPCs
<1> HIDE DEF bad
<1>6. Shapes' /\ Queue'
  BY <1>5 DEF Shapes, Queue
<1>7. \A d \in Range(idle) : NoHand(d) /\ NoChan(d) /\ NoKeeper(d) /\ d \notin lost
  BY InIdle, Lists, Zenon
<1>8. Once(c)'
  BY <1>4, <1>5, <1>7 DEF Once, NoHand, NoChan, NoKeeper
<1>9. Apart'
  <2>1. \A d \in Conns : d # c => Follows(d)
    BY <1>4, <1>5, Zenon DEF Follows
  <2> QED
    BY <1>4, <1>5, <1>8, <2>1, OneMoves, Zenon
<1>10. ASSUME NEW d \in Conns, Place(d)' PROVE d \in open'
  <2>1. d \notin bad
    BY <1>4, <1>5, <1>7, <1>10 DEF Place, NoHand, NoChan, NoKeeper, Sockets
  <2> QED
    BY <1>4, <1>5, <1>10, <2>1 DEF Sockets, Place
<1>11. ASSUME NEW d \in open' PROVE Place(d)' \/ panicked'
  BY <1>4, <1>5, <1>11 DEF Sockets, Place
<1>12. Sockets'
  BY <1>5, <1>10, <1>11 DEF Sockets
<1> QED
  BY <1>5, <1>6, <1>9, <1>12, Zenon

\* Nothing healthy is idle: a dial is begun or the client queues (pool.go:182).
LEMMA AcquireNewKeeps ==
    ASSUME PoolInv, NEW k \in Clients, AcquireNew(k)
    PROVE  PoolInv'
<1> USE PoolAssumption DEF PoolInv
<1>1. /\ client[k].pc = "out" /\ ~closed /\ total' \in Int
      /\ idle' = <<>> /\ open' = open \ Range(idle) /\ expired' = expired \ Range(idle)
      /\ UNCHANGED <<inUse, closed, keeper, lost, panicked>>
      /\ k \notin Range(waiters) /\ chan[k] = "empty" /\ client[k].conn \notin Conns
  BY DEF AcquireNew, TypeOK, Queue, Shapes
<1>2. PICK pc \in {"dialing", "waiting"} :
         /\ Enter(k, pc, "none")
         /\ \/ pc = "dialing" /\ UNCHANGED <<waiters, chan>>
            \/ pc = "waiting" /\ waiters' = Append(waiters, k) /\ chan' = [chan EXCEPT ![k] = "empty"]
  BY Zenon DEF AcquireNew
<1>3. /\ idle' \in Seq(Conns) /\ Range(idle') = {} /\ IsInjective(idle')
  BY <1>1, EmptyList
<1>4. /\ waiters' \in Seq(Clients) /\ IsInjective(waiters')
      /\ Range(waiters') = IF pc = "waiting" THEN Range(waiters) \cup {k} ELSE Range(waiters)
  <2>1. waiters \in Seq(Clients) /\ IsInjective(waiters)
    BY Zenon DEF TypeOK, Queue
  <2>2. LET t == Append(waiters, k)
        IN  t \in Seq(Clients) /\ IsInjective(t) /\ Range(t) = Range(waiters) \cup {k}
    BY <1>1, <2>1, AppendList
  <2> QED
    BY <1>2, <2>1, <2>2, Zenon
<1>5. /\ chan' = chan /\ client'[k].pc = pc /\ client'[k].conn = "none"
      /\ \A l \in Clients : l # k => client'[l] = client[l]
  BY <1>1, <1>2 DEF TypeOK, Enter
<1>6. TypeOK'
  BY <1>1, <1>2, <1>3, <1>4, <1>5, Zenon DEF TypeOK, Enter, ClientPCs
<1>7. Shapes' /\ Queue'
  BY <1>1, <1>4, <1>5 DEF Shapes, Queue
<1>8. Apart'
  BY <1>1, <1>3, <1>5, PoolAssumption, NoneMoves, Zenon DEF Follows
<1>9. \A d \in Range(idle) : NoHand(d) /\ NoChan(d) /\ NoKeeper(d) /\ d \notin lost
  BY InIdle, Lists, Zenon
<1>10. ASSUME NEW d \in Conns PROVE Place(d)' <=> Place(d) /\ d \notin Range(idle)
  BY <1>1, <1>3, <1>5, <1>9 DEF Place, NoHand, NoChan, NoKeeper, Sockets
<1>11. Sockets'
  BY <1>1, <1>5, <1>10, Lists DEF Sockets
<1> QED
  BY <1>6, <1>7, <1>8, <1>11, Zenon

\* The dial of Acquire fails, or a waiter's time is up.
LEMMA ClientMovesKeeps ==
    ASSUME PoolInv, NEW k \in Clients, DialFails(k) \/ GiveUp(k)
    PROVE  PoolInv'
<1>1. PICK pc \in {"out", "leaving"} :
         /\ Enter(k, pc, "none") /\ total' \in Int
         /\ pc = "out" => client[k].pc = "dialing"
         /\ pc = "leaving" => client[k].pc = "waiting"
         /\ UNCHANGED <<idle, inUse, waiters, closed, open, expired, chan, keeper, lost, panicked>>
  BY DEF DialFails, GiveUp, PoolInv, TypeOK
<1>2. /\ client'[k].pc = pc /\ client'[k].conn = "none" /\ client[k].conn = "none"
      /\ \A l \in Clients : l # k => client'[l] = client[l]
  BY <1>1, Zenon DEF Enter, PoolInv, TypeOK, Shapes
<1>3. TypeOK'
  BY <1>1, Zenon DEF Enter, PoolInv, TypeOK, ClientPCs
<1> QED
  BY <1>1, <1>2, <1>3, NothingMoves, Zenon DEF PoolInv, Shapes

\* The dial of Acquire succeeds.  On a closed pool the goroutine panics and the
\* socket stays open.
LEMMA DialSucceedsKeeps ==
    ASSUME PoolInv, NEW k \in Clients, NEW c \in Conns, DialSucceeds(k, c)
    PROVE  PoolInv'
<1> USE DEF PoolInv
<1>1. CASE closed
  <2>1. /\ TypeOK' /\ panicked' /\ open \subseteq open'
        /\ UNCHANGED <<idle, inUse, waiters, closed, chan, client, keeper, lost>>
    BY <1>1, Zenon DEF DialSucceeds, PutInUse, TypeOK
  <2> QED
    BY <1>1, <2>1, NothingMoves, Zenon DEF Shapes
<1>2. CASE ~closed
  <2>1. /\ client[k].pc = "dialing" /\ open' = open \cup {c} /\ inUse' = inUse \cup {c}
        /\ UNCHANGED <<idle, waiters, closed, expired, chan, keeper, lost, panicked>>
        /\ client'[k].pc = "using" /\ client'[k].conn = c
        /\ \A l \in Clients : l # k => client'[l] = client[l]
        /\ c \notin open /\ \A l \in Clients : client[l].conn # c
    BY <1>2 DEF DialSucceeds, PutInUse, Enter, Fresh, TypeOK
  <2>2. TypeOK' /\ ~Place(c)
    BY <1>2, <2>1 DEF DialSucceeds, PutInUse, Enter, TypeOK, ClientPCs, Sockets
  <2>3. Shapes' /\ Queue'
    BY <2>1, Zenon DEF Shapes, Queue
  <2>4. Apart'
    <3>1. Once(c)'
      BY <2>1, <2>2 DEF Once, Place, NoChan, NoKeeper
    <3>2. \A d \in Conns : d # c => Follows(d)
      BY <2>1, Zenon DEF Follows
    <3> QED
      BY <2>1, <3>1, <3>2, OneMoves, Zenon DEF Apart
  <2>5. ASSUME NEW d \in Conns, Place(d)' PROVE d \in open'
    BY <2>1, <2>5 DEF Sockets, Place
  <2>6. ASSUME NEW d \in open' PROVE Place(d)' \/ panicked'
    BY <2>1, <2>6 DEF Sockets, Place
  <2>7. Sockets'
    BY <1>2, <2>1, <2>5, <2>6 DEF Sockets
  <2> QED
    BY <2>2, <2>3, <2>4, <2>7, Zenon
<1> QED
  BY <1>1, <1>2, Zenon


\* A waiter takes what is in its channel.
LEMMA ReceiveKeeps ==
    ASSUME PoolInv, NEW k \in Clients, Receive(k)
    PROVE  PoolInv'
<1> USE PoolAssumption DEF PoolInv
<1>1. /\ client[k].pc = "waiting" /\ chan[k] # "empty" /\ expired' \subseteq Conns
      /\ chan' = [chan EXCEPT ![k] = "empty"]
      /\ UNCHANGED <<idle, inUse, waiters, total, closed, open, keeper, lost, panicked>>
  BY Zenon DEF Receive, TypeOK
<1>2. /\ chan'[k] = "empty" /\ \A l \in Clients : l # k => chan'[l] = chan[l]
      /\ k \notin Range(waiters) /\ client[k].conn \notin Conns
  BY <1>1, Zenon DEF TypeOK, Queue, Shapes
<1>3. PICK pc \in {"out", "got"}, c \in Conns \cup {"none"} :
         /\ client' = [client EXCEPT ![k] = [pc |-> pc, conn |-> c]]
         /\ pc = "got" <=> c \in Conns
         /\ IF c \in Conns THEN c = chan[k] ELSE chan[k] \notin Conns
  <2>1. CASE chan[k] = "closed"
    BY <2>1, Zenon DEF Receive, Enter
  <2>2. CASE chan[k] # "closed"
    BY <1>1, <2>2, Zenon DEF Receive, Enter, TypeOK
  <2> QED
    BY <2>1, <2>2, Zenon
<1>4. /\ client'[k].pc = pc /\ client'[k].conn = c
      /\ \A l \in Clients : l # k => client'[l] = client[l]
  BY <1>3, Zenon DEF TypeOK
<1>5. TypeOK'
  BY <1>1, <1>3, Zenon DEF TypeOK, ClientPCs
<1>6. Shapes' /\ Queue'
  BY <1>1, <1>2, <1>3, <1>4 DEF Shapes, Queue
<1>7. Apart'
  <2>1. CASE c = "none"
    BY <1>1, <1>2, <1>4, <2>1, NoneMoves, Zenon DEF Apart, Follows
  <2>2. CASE c # "none"
    <3>1. /\ c \in Conns /\ c = chan[k] /\ NoHand(c) /\ NoKeeper(c)
          /\ c \notin Range(idle) /\ c \notin lost
          /\ \A l \in Clients : l # k => chan[l] # c
      BY <1>3, <2>2, InChan, Zenon
    <3>2. Once(c)'
      BY <1>1, <1>2, <1>4, <3>1 DEF Once, NoHand, NoChan, NoKeeper
    <3>3. \A d \in Conns : d # c => Follows(d)
      BY <1>1, <1>2, <1>4, Zenon DEF Follows
    <3> QED
      BY <1>1, <3>1, <3>2, <3>3, OneMoves, Zenon DEF Apart
  <2> QED
    BY <2>1, <2>2, Zenon
<1>8. ASSUME NEW d \in Conns PROVE Place(d)' <=> Place(d)
  BY <1>1, <1>2, <1>3, <1>4 DEF Place
<1>9. Sockets'
  BY <1>1, <1>4, <1>8 DEF Sockets, TypeOK
<1> QED
  BY <1>5, <1>6, <1>7, <1>9, Zenon

\* The waiter puts the connection into inUse, or panics on a closed pool.
LEMMA RegisterKeeps ==
    ASSUME PoolInv, NEW k \in Clients, Register(k)
    PROVE  PoolInv'
<1> USE DEF PoolInv
<1>1. CASE closed
  <2>1. /\ TypeOK' /\ panicked'
        /\ UNCHANGED <<idle, inUse, waiters, closed, open, chan, client, keeper, lost>>
    BY <1>1, Zenon DEF Register, PutInUse, TypeOK
  <2> QED
    BY <1>1, <2>1, NothingMoves, Zenon DEF Shapes
<1>2. CASE ~closed
  <2> DEFINE c == client[k].conn
  <2>1. /\ client[k].pc = "got" /\ c \in Conns /\ inUse' = inUse \cup {c}
        /\ client' = [client EXCEPT ![k] = [pc |-> "using", conn |-> c]]
        /\ UNCHANGED <<idle, waiters, total, closed, open, expired, chan, keeper, lost, panicked>>
    BY <1>2, Zenon DEF Register, PutInUse, Enter, Shapes
  <2>2. /\ client'[k].pc = "using" /\ client'[k].conn = c
        /\ \A l \in Clients : l # k => client'[l] = client[l]
    BY <2>1, Zenon DEF TypeOK
  <2>3. TypeOK'
    BY <2>1, Zenon DEF TypeOK, ClientPCs
  <2>4. Shapes' /\ Queue'
    BY <2>1, <2>2, Zenon DEF Shapes, Queue
  <2>5. Apart'
    BY <2>1, <2>2, NoneMoves, Zenon DEF Apart, Follows
  <2>6. ASSUME NEW d \in Conns PROVE Place(d)' <=> Place(d)
    BY <2>1, <2>2 DEF Place
  <2>7. Sockets'
    BY <1>2, <2>1, <2>2, <2>6, Zenon DEF Sockets, TypeOK
  <2> QED
    BY <2>3, <2>4, <2>5, <2>7, Zenon
<1> QED
  BY <1>1, <1>2, Zenon

\* It leaves the queue; a connection sent to it meanwhile is lost in its channel.
LEMMA LeaveKeeps ==
    ASSUME PoolInv, NEW k \in Clients, Leave(k)
    PROVE  PoolInv'
<1> USE PoolAssumption DEF PoolInv
<1>1. /\ client[k].pc = "leaving" /\ client[k].conn \notin Conns
      /\ lost' = lost \cup ({chan[k]} \cap Conns)
      /\ chan' = [chan EXCEPT ![k] = "empty"]
      /\ client' = [client EXCEPT ![k] = [pc |-> "out", conn |-> "none"]]
      /\ UNCHANGED <<idle, inUse, total, closed, open, expired, keeper, panicked>>
  BY Zenon DEF Leave, Enter, Shapes
<1>2. /\ chan'[k] = "empty" /\ \A l \in Clients : l # k => chan'[l] = chan[l]
      /\ client'[k].pc = "out" /\ client'[k].conn = "none"
      /\ \A l \in Clients : l # k => client'[l] = client[l]
  BY <1>1, Zenon DEF TypeOK
<1>3. /\ waiters' \in Seq(Clients) /\ IsInjective(waiters')
      /\ Range(waiters') = Range(waiters) \ {k}
      /\ waiters = <<>> => waiters' = <<>>
  BY DequeueList, Zenon DEF Leave, Queue
<1>4. TypeOK'
  BY <1>1, <1>3, Zenon DEF TypeOK, ClientPCs
<1>5. Shapes' /\ Queue'
  BY <1>1, <1>2, <1>3 DEF Shapes, Queue
<1>6. Apart'
  <2>1. CASE chan[k] \notin Conns
    BY <1>1, <1>2, <2>1, NoneMoves, Zenon DEF Apart, Follows
  <2>2. CASE chan[k] \in Conns
    <3>1. PICK c \in Conns : c = chan[k]
      BY <2>2, Zenon
    <3>2. /\ NoHand(c) /\ NoKeeper(c) /\ c \notin Range(idle)
          /\ \A l \in Clients : l # k => chan[l] # c
      BY <3>1, InChan, Zenon
    <3>3. Once(c)'
      BY <1>1, <1>2, <3>1, <3>2, Zenon DEF Once, NoHand, NoChan, NoKeeper
    <3>4. \A d \in Conns : d # c => Follows(d)
      BY <1>1, <1>2, <3>1, Zenon DEF Follows
    <3> QED
      BY <1>1, <3>3, <3>4, OneMoves, Zenon DEF Apart
  <2> QED
    BY <2>1, <2>2, Zenon
<1>7. ASSUME NEW d \in Conns PROVE Place(d)' <=> Place(d)
  BY <1>1, <1>2, Zenon DEF Place
<1>8. Sockets'
  BY <1>1, <1>2, <1>3, <1>7, Zenon DEF Sockets, TypeOK
<1> QED
  BY <1>4, <1>5, <1>6, <1>8, Zenon


\* Release or Discard of a connection that Close has taken over, or Discard of one
\* that is in use.
LEMMA DiscardKeeps ==
    ASSUME PoolInv, NEW k \in Clients, Discard(k) \/ ReturnUnknown(k)
    PROVE  PoolInv'
<1>1. /\ client[k].pc = "using" /\ inUse' = inUse \ {client[k].conn} /\ total' \in Int
      /\ open' = open \ {client[k].conn} /\ expired' = expired \ {client[k].conn}
      /\ Enter(k, "out", "none")
      /\ UNCHANGED <<idle, waiters, closed, chan, keeper, lost, panicked>>
  BY DEF Discard, ReturnUnknown, CloseConn, PoolInv, TypeOK
<1> QED
  BY <1>1, ConnectionCloses, Zenon

\* What is known of the connection c that client k releases.
LEMMA Released ==
    ASSUME PoolInv, NEW k \in Clients, client[k].pc = "using", client[k].conn \in inUse
    PROVE  LET c == client[k].conn
           IN  /\ ~closed /\ c \in open /\ c \in Conns
               /\ NoChan(c) /\ NoKeeper(c) /\ c \notin Range(idle) /\ c \notin lost
               /\ \A l \in Clients : l # k => client[l].conn # c
<1>1. client[k].conn \in Conns
  BY Zenon DEF PoolInv, Shapes
<1>2. ~closed /\ client[k].conn \in open
  BY <1>1, Zenon DEF PoolInv, Sockets, Place
<1> QED
  BY <1>1, <1>2, InHand, Zenon DEF PoolInv

\* Where client k is after Release.
LEMMA Returned ==
    ASSUME PoolInv, NEW k \in Clients, Enter(k, "out", "none")
    PROVE  /\ client'[k].pc = "out" /\ client'[k].conn = "none"
           /\ \A l \in Clients : l # k => client'[l] = client[l]
           /\ client' \in [Clients -> [pc : ClientPCs, conn : Conns \cup {"none"}]]
BY Zenon DEF PoolInv, TypeOK, Enter, ClientPCs

\* Release hands the connection to the first waiter (pool.go:300).
LEMMA HandOver ==
    ASSUME PoolInv, NEW k \in Clients, client[k].pc = "using", client[k].conn \in inUse,
           waiters # <<>>, GiveBack(client[k].conn), inUse' = inUse \ {client[k].conn},
           Enter(k, "out", "none"), UNCHANGED <<open, expired, total, closed, keeper, lost, panicked>>
    PROVE  PoolInv'
<1> USE PoolAssumption DEF PoolInv
<1>1. PICK c \in Conns : c = client[k].conn
  BY Released, Zenon
<1>2. /\ ~closed /\ c \in open
      /\ NoChan(c) /\ NoKeeper(c) /\ c \notin Range(idle) /\ c \notin lost
      /\ \A l \in Clients : l # k => client[l].conn # c
  BY <1>1, Released, Zenon
<1>3. PICK w \in Clients : w = Head(waiters)
  BY Lists, TailList, Zenon
<1>4. chan' = [chan EXCEPT ![w] = c] /\ waiters' = Tail(waiters) /\ UNCHANGED idle
  BY <1>1, <1>3, Zenon DEF GiveBack
<1>5. /\ waiters' \in Seq(Clients) /\ IsInjective(waiters')
      /\ w \in Range(waiters) /\ Range(waiters') = Range(waiters) \ {w}
  BY <1>3, <1>4, Lists, TailList, Zenon
<1>6. /\ chan'[w] = c /\ \A l \in Clients : l # w => chan'[l] = chan[l]
      /\ chan[w] = "empty" /\ client[w].pc \in {"waiting", "leaving"} /\ w # k
  BY <1>4, <1>5, Zenon DEF TypeOK, Queue
<1>7. /\ client'[k].pc = "out" /\ client'[k].conn = "none"
       /\ \A l \in Clients : l # k => client'[l] = client[l]
  BY Returned, Zenon
<1>8. TypeOK'
  BY <1>4, <1>5, Returned, Zenon DEF TypeOK
<1>9. Shapes' /\ Queue'
  BY <1>5, <1>6, <1>7 DEF Shapes, Queue
<1>10. Apart'
  <2>1. Once(c)'
    BY <1>2, <1>4, <1>6, <1>7 DEF Once, NoHand, NoChan, NoKeeper
  <2>2. \A d \in Conns : d # c => Follows(d)
    BY <1>4, <1>6, <1>7, Zenon DEF Follows
  <2> QED
    BY <1>4, <2>1, <2>2, OneMoves, Zenon DEF Apart
<1>11. ASSUME NEW d \in Conns PROVE Place(d)' <=> Place(d)
  BY <1>1, <1>4, <1>6, <1>7 DEF Place
<1>12. Sockets'
  BY <1>1, <1>2, <1>7, <1>11, Lists DEF Sockets
<1> QED
  BY <1>8, <1>9, <1>10, <1>12, Zenon

\* Release puts the connection back to the idle list (pool.go:310).
LEMMA PutBack ==
    ASSUME PoolInv, NEW k \in Clients, client[k].pc = "using", client[k].conn \in inUse,
           waiters = <<>>, GiveBack(client[k].conn), inUse' = inUse \ {client[k].conn},
           Enter(k, "out", "none"), UNCHANGED <<open, expired, total, closed, keeper, lost, panicked>>
    PROVE  PoolInv'
<1> USE PoolAssumption DEF PoolInv
<1>1. PICK c \in Conns : c = client[k].conn
  BY Released, Zenon
<1>2. /\ ~closed /\ c \in open
      /\ NoChan(c) /\ NoKeeper(c) /\ c \notin Range(idle) /\ c \notin lost
      /\ \A l \in Clients : l # k => client[l].conn # c
  BY <1>1, Released, Zenon
<1>3. idle' = Append(idle, c) /\ UNCHANGED <<chan, waiters>>
  BY <1>1, Zenon DEF GiveBack
<1>4. idle' \in Seq(Conns) /\ IsInjective(idle') /\ Range(idle') = Range(idle) \cup {c}
  BY <1>2, <1>3, Lists, AppendList, Zenon
<1>5. /\ client'[k].pc = "out" /\ client'[k].conn = "none"
       /\ \A l \in Clients : l # k => client'[l] = client[l]
  BY Returned, Zenon
<1>6. TypeOK'
  BY <1>3, <1>4, Returned, Zenon DEF TypeOK
<1>7. Shapes' /\ Queue'
  BY <1>3, <1>5, Zenon DEF Shapes, Queue
<1>8. Apart'
  <2>1. Once(c)'
    BY <1>2, <1>3, <1>4, <1>5, Zenon DEF Once, NoHand, NoChan, NoKeeper
  <2>2. \A d \in Conns : d # c => Follows(d)
    BY <1>3, <1>4, <1>5, Zenon DEF Follows
  <2> QED
    BY <1>4, <2>1, <2>2, OneMoves, Zenon
<1>9. ASSUME NEW d \in Conns PROVE Place(d)' <=> Place(d)
  BY <1>1, <1>3, <1>4, <1>5, Zenon DEF Place
<1>10. Sockets'
  BY <1>1, <1>2, <1>5, <1>9, Lists DEF Sockets
<1> QED
  BY <1>6, <1>7, <1>8, <1>10, Zenon

\* Release: an expired connection is closed, another one goes to the first
\* waiter or back to the idle list (pool.go:270).
LEMMA ReleaseKeeps ==
    ASSUME PoolInv, NEW k \in Clients, Release(k)
    PROVE  PoolInv'
<1>1. /\ client[k].pc = "using" /\ client[k].conn \in inUse /\ inUse' = inUse \ {client[k].conn}
      /\ Enter(k, "out", "none") /\ UNCHANGED <<closed, keeper, lost, panicked>>
  BY Zenon DEF Release
<1>2. CASE CloseConn(client[k].conn) /\ UNCHANGED <<chan, waiters, idle>>
  <2>1. /\ open' = open \ {client[k].conn} /\ expired' = expired \ {client[k].conn}
        /\ total' \in Int
    BY <1>2 DEF CloseConn, PoolInv, TypeOK
  <2> QED
    BY <1>1, <1>2, <2>1, ConnectionCloses, Zenon
<1>3. CASE GiveBack(client[k].conn) /\ UNCHANGED <<open, expired, total>>
  BY <1>1, <1>3, HandOver, PutBack, Zenon
<1> QED
  BY <1>2, <1>3, Zenon DEF Release

-----------------------------------------------------------------------------
(* The pool's own goroutines.                                              *)

\* ensureMinIdleConnections counts, tests the head of its loop, or fails to dial
\* (pool.go:480).
LEMMA KeeperKeeps ==
    ASSUME PoolInv, NEW g \in Keepers, CountIdle(g) \/ CheckRoom(g) \/ KeeperDialFails(g)
    PROVE  PoolInv'
<1>1. /\ keeper[g].pc # "append"
      /\ UNCHANGED <<idle, inUse, waiters, total, closed, open, expired, chan, client, lost, panicked>>
      /\ Len(idle) \in Nat /\ total \in Int /\ keeper[g].need \in Nat
      /\ keeper[g].pc = "dial" => keeper[g].need > 0
  BY DEF CountIdle, CheckRoom, KeeperDialFails, PoolInv, TypeOK, Shapes
<1>2. PICK pc \in KeeperPCs \ {"append"}, need \in Nat :
         Advance(g, pc, need, "none") /\ (pc = "dial" => need > 0)
  <2>1. CASE Rest(g)
    BY <2>1 DEF Rest, KeeperPCs
  <2>2. CASE KeeperDialFails(g)
    BY <1>1, <2>2 DEF KeeperDialFails, KeeperPCs
  <2>3. CASE CheckRoom(g) /\ ~Rest(g)
    BY <1>1, <2>3 DEF CheckRoom, Enough, KeeperPCs
  <2>4. CASE CountIdle(g) /\ ~Rest(g)
    BY <1>1, <2>4, PoolAssumption DEF CountIdle, KeeperPCs
  <2> QED
    BY <2>1, <2>2, <2>3, <2>4, Zenon
<1> QED
  BY <1>1, <1>2, KeeperMoves, Zenon

\* Its dial succeeds.
LEMMA KeeperDialSucceedsKeeps ==
    ASSUME PoolInv, NEW g \in Keepers, NEW c \in Conns, KeeperDialSucceeds(g, c)
    PROVE  PoolInv'
<1> USE DEF PoolInv
<1>1. /\ keeper[g].pc = "dial" /\ open' = open \cup {c} /\ total' \in Int
      /\ UNCHANGED <<idle, inUse, waiters, closed, expired, chan, client, lost, panicked>>
      /\ keeper' = [keeper EXCEPT ![g] = [pc |-> "append", need |-> keeper[g].need, conn |-> c]]
      /\ c \notin open /\ \A l \in Clients : client[l].conn # c
  BY DEF KeeperDialSucceeds, Fresh, TypeOK, Advance
<1>2. /\ keeper'[g].pc = "append" /\ keeper'[g].need = keeper[g].need /\ keeper'[g].conn = c
      /\ \A h \in Keepers : h # g => keeper'[h] = keeper[h]
      /\ keeper[g].conn \notin Conns /\ ~Place(c)
  BY <1>1, Zenon DEF TypeOK, Shapes, Sockets
<1>3. TypeOK'
  BY <1>1, Zenon DEF TypeOK, KeeperPCs
<1>4. Shapes' /\ Queue'
  BY <1>1, <1>2 DEF Shapes, Queue
<1>5. Apart'
  <2>1. Once(c)'
    BY <1>1, <1>2 DEF Once, Place, NoHand, NoChan
  <2>2. \A d \in Conns : d # c => Follows(d)
    BY <1>1, <1>2, Zenon DEF Follows
  <2> QED
    BY <1>1, <2>1, <2>2, OneMoves, Zenon DEF Apart
<1>6. ASSUME NEW d \in Conns PROVE Place(d)' <=> Place(d) \/ d = c
  BY <1>1, <1>2 DEF Place
<1>7. Sockets'
  BY <1>1, <1>6, Zenon DEF Sockets, TypeOK
<1> QED
  BY <1>3, <1>4, <1>5, <1>7, Zenon

\* The connection it dialled is appended, or closed if the pool is closed.
LEMMA AppendIdleKeeps ==
    ASSUME PoolInv, NEW g \in Keepers, AppendIdle(g)
    PROVE  PoolInv'
<1> USE PoolAssumption DEF PoolInv
<1>1. PICK c \in Conns : c = keeper[g].conn
  BY Zenon DEF AppendIdle, Shapes
<1>2. /\ keeper[g].pc = "append" /\ keeper[g].need \in Nat /\ keeper[g].need > 0
      /\ UNCHANGED <<inUse, waiters, closed, chan, client, lost, panicked>>
  BY Zenon DEF AppendIdle, Shapes, TypeOK
<1>3. PICK pc \in KeeperPCs \ {"dial", "append"}, need \in Nat :
         keeper' = [keeper EXCEPT ![g] = [pc |-> pc, need |-> need, conn |-> "none"]]
  <2>1. CASE closed
    BY <2>1, Zenon DEF AppendIdle, Rest, Advance, KeeperPCs
  <2>2. CASE ~closed
    BY <1>2, <2>2 DEF AppendIdle, Advance, KeeperPCs
  <2> QED
    BY <2>1, <2>2, Zenon
<1>4. /\ keeper'[g].pc = pc /\ keeper'[g].conn = "none"
      /\ \A h \in Keepers : h # g => keeper'[h] = keeper[h]
  BY <1>3, Zenon DEF TypeOK
<1>5. /\ NoHand(c) /\ NoChan(c) /\ c \notin Range(idle) /\ c \notin lost
       /\ \A h \in Keepers : h # g => keeper[h].conn # c
  BY <1>1, InKeeper, Zenon
<1>6. c \in open /\ c \notin inUse
  BY <1>1, <1>5, Zenon DEF Sockets, Place, NoHand
<1>7. Shapes' /\ Queue'
  BY <1>2, <1>3, <1>4 DEF Shapes, Queue
<1>8. /\ idle' \in Seq(Conns) /\ IsInjective(idle') /\ total' \in Int
      /\ expired' \subseteq Conns /\ (closed => UNCHANGED idle)
      /\ open' = IF closed THEN open \ {c} ELSE open
      /\ Range(idle') = IF closed THEN Range(idle) ELSE Range(idle) \cup {c}
  <2>1. CASE closed
    BY <1>1, <2>1 DEF AppendIdle, CloseConn, TypeOK, Apart
  <2>2. CASE ~closed
    <3>1. idle' = Append(idle, c) /\ UNCHANGED <<open, expired, total>>
      BY <1>1, <2>2, Zenon DEF AppendIdle
    <3>2. idle' \in Seq(Conns) /\ IsInjective(idle') /\ Range(idle') = Range(idle) \cup {c}
      BY <1>5, <3>1, Lists, AppendList, Zenon
    <3> QED
      BY <2>2, <3>1, <3>2, Zenon DEF TypeOK
  <2> QED
    BY <2>1, <2>2, Zenon
<1>9. TypeOK'
  BY <1>2, <1>3, <1>8, Zenon DEF TypeOK
<1>10. Apart'
  <2>1. Once(c)'
    BY <1>2, <1>4, <1>5, <1>8, Zenon DEF Once, NoHand, NoChan, NoKeeper
  <2>2. \A d \in Conns : d # c => Follows(d)
    BY <1>2, <1>4, <1>8, Zenon DEF Follows
  <2> QED
    BY <1>8, <2>1, <2>2, OneMoves, Zenon
<1>11. ASSUME NEW d \in Conns PROVE Place(d)' <=> Place(d) /\ (closed => d # c)
  BY <1>1, <1>2, <1>4, <1>5, <1>6, <1>8, Zenon DEF Place, NoChan, NoHand
<1>12. Sockets'
  BY <1>2, <1>6, <1>8, <1>11, Lists, Zenon DEF Sockets
<1> QED
  BY <1>7, <1>9, <1>10, <1>12, Zenon

\* Time passes for a connection, or nothing happens.
LEMMA ExpireKeeps ==
    ASSUME PoolInv, (\E c \in Conns : Expire(c)) \/ UNCHANGED vars
    PROVE  PoolInv'
<1>1. /\ expired' \subseteq Conns
      /\ UNCHANGED <<idle, inUse, waiters, total, closed, open, chan, client, keeper, lost, panicked>>
  BY Zenon DEF Expire, vars, PoolInv, TypeOK
<1>2. TypeOK'
  BY <1>1, Zenon DEF PoolInv, TypeOK
<1> QED
  BY <1>1, <1>2, NothingMoves, Zenon DEF PoolInv, Shapes


-----------------------------------------------------------------------------
(* From here on sets are counted.                                          *)

INSTANCE FiniteSetTheorems

\* The healthy connections are some of the idle ones (pool.go:460).
LEMMA HealthyCount ==
    ASSUME PoolInv
    PROVE  Cardinality(Healthy) \in Nat /\ Cardinality(Healthy) <= Len(idle)
<1> DEFINE n == Len(idle)
<1>1. n \in Nat /\ Healthy \subseteq 1 .. n
  BY Lists DEF Healthy
<1> HIDE DEF n
<1>2. IsFiniteSet(1 .. n) /\ Cardinality(1 .. n) = IF 1 > n THEN 0 ELSE n - 1 + 1
  BY <1>1, FS_Interval
<1>3. Cardinality(1 .. n) = n
  BY <1>1, <1>2
<1> QED
  BY <1>1, <1>2, <1>3, FS_Subset, FS_CardinalityType, Zenon DEF n

\* cleanupIdleConnections keeps the healthy connections (pool.go:456).
LEMMA HealthyList ==
    ASSUME PoolInv, NEW t \in HealthyInOrder
    PROVE  /\ t \in Seq(Conns) /\ IsInjective(t)
           /\ Len(t) = Cardinality(Healthy) /\ Cardinality(Healthy) \in Nat
           /\ Range(t) = Range(idle) \ expired
<1> DEFINE n == Cardinality(Healthy)
<1>1. /\ idle \in Seq(Conns) /\ Len(idle) \in Nat /\ DOMAIN idle = 1 .. Len(idle)
      /\ IsInjective(idle) /\ Healthy \subseteq 1 .. Len(idle)
  BY Lists DEF Healthy
<1>2. n \in Nat
  BY HealthyCount, Zenon
<1>3. PICK b \in Bijection(1 .. n, Healthy) : t = [i \in DOMAIN b |-> idle[b[i]]]
  BY Zenon DEF HealthyInOrder
<1> HIDE DEF n
<1>4. /\ t = [i \in 1 .. n |-> idle[b[i]]]
      /\ \A i \in 1 .. n : b[i] \in DOMAIN idle /\ idle[b[i]] \notin expired
      /\ \A i, j \in 1 .. n : b[i] = b[j] => i = j
      /\ \A h \in Healthy : \E i \in 1 .. n : b[i] = h
  BY <1>3, Zenon DEF Bijection, Injection, Surjection, IsInjective, Healthy
<1>5. t \in Seq(Conns) /\ Len(t) = n /\ DOMAIN t = 1 .. n
  BY <1>1, <1>2, <1>4
<1>6. IsInjective(t)
  BY <1>1, <1>4, <1>5 DEF IsInjective
<1>7. Range(t) \subseteq Range(idle) \ expired
  BY <1>4, <1>5 DEF Range
<1>8. Range(idle) \ expired \subseteq Range(t)
  BY <1>4, <1>5 DEF Range, Healthy
<1> QED
  BY <1>2, <1>5, <1>6, <1>7, <1>8, Zenon DEF n

\* The connections in use are those of clients: Close can count them.
LEMMA InUseFinite ==
    ASSUME PoolInv
    PROVE  IsFiniteSet(inUse) /\ Cardinality(inUse) \in Nat
<1> DEFINE S == {client[k].conn : k \in Clients}
<1>1. [k \in Clients |-> client[k].conn] \in Surjection(Clients, S)
  BY Zenon DEF Surjection
<1>2. IsFiniteSet(S)
  BY <1>1, PoolAssumption, FS_Surjection, Zenon
<1>3. inUse \subseteq S
  BY Zenon DEF PoolInv, Sockets
<1> QED
  BY <1>2, <1>3, FS_Subset, FS_CardinalityType, Zenon

\* Close empties the pool and closes the channels of the queue (pool.go:325).
LEMMA CloseKeeps ==
    ASSUME PoolInv, Close
    PROVE  PoolInv'
<1> USE PoolAssumption DEF PoolInv
<1>1. /\ ~closed /\ closed' = TRUE /\ idle' = <<>> /\ inUse' = {} /\ waiters' = <<>>
      /\ open' = open \ (Range(idle) \cup inUse)
      /\ expired' = expired \ (Range(idle) \cup inUse)
      /\ UNCHANGED <<client, keeper, lost, panicked>>
      /\ \A k \in Clients : chan'[k] = IF k \in Range(waiters) THEN "closed" ELSE chan[k]
  BY Zenon DEF Close
<1>2. /\ idle' \in Seq(Conns) /\ Range(idle') = {} /\ IsInjective(idle')
      /\ waiters' \in Seq(Clients) /\ Range(waiters') = {} /\ IsInjective(waiters')
  BY <1>1, EmptyList
<1>3. \A k \in Clients : chan'[k] = IF chan[k] \in Conns THEN chan[k] ELSE chan'[k]
  BY <1>1, Zenon DEF Queue
<1>4. \A k \in Clients : chan'[k] \in Conns <=> chan[k] \in Conns
  BY <1>1, <1>3, Zenon DEF TypeOK
<1>5. TypeOK'
  BY <1>1, <1>2, InUseFinite DEF TypeOK, Close
<1>6. Shapes' /\ Queue'
  BY <1>1, <1>2, Zenon DEF Shapes, Queue
<1>7. Apart'
  BY <1>1, <1>2, <1>3, <1>4, NoneMoves, Zenon DEF Follows
<1>8. \A d \in Range(idle) : NoHand(d) /\ NoChan(d) /\ NoKeeper(d) /\ d \notin lost
  BY InIdle, Lists, Zenon
<1>9. ASSUME NEW d \in Conns PROVE Place(d)' <=> Place(d) /\ d \notin Range(idle) \cup inUse
  <2>1. ASSUME Place(d)' PROVE Place(d) /\ d \notin Range(idle) \cup inUse
    <3>1. Place(d)
      BY <1>1, <1>2, <1>3, <1>4, <2>1, Zenon DEF Place
    <3>2. d \notin Range(idle)
      BY <1>1, <1>2, <1>3, <1>4, <1>8, <2>1, Zenon DEF Place, NoHand, NoChan, NoKeeper
    <3>3. d \notin inUse
      <4>1. SUFFICES ASSUME d \in inUse PROVE FALSE
        BY Zenon
      <4>2. PICK k \in Clients : client[k].pc = "using" /\ client[k].conn = d
        BY <4>1, Zenon DEF Sockets
      <4>3. /\ NoChan(d) /\ NoKeeper(d) /\ d \notin lost
            /\ \A l \in Clients : l # k => client[l].conn # d
        BY <4>2, InHand
      <4> QED
        BY <1>1, <1>2, <1>3, <1>4, <2>1, <4>2, <4>3, Zenon DEF Place, NoChan, NoKeeper
    <3> QED
      BY <3>1, <3>2, <3>3, Zenon
  <2>2. ASSUME Place(d), d \notin Range(idle) \cup inUse PROVE Place(d)'
    BY <1>1, <1>3, <2>2, Zenon DEF Place
  <2> QED
    BY <2>1, <2>2, Zenon
<1>10. Sockets'
  BY <1>1, <1>9, Lists, Zenon DEF Sockets
<1> QED
  BY <1>5, <1>6, <1>7, <1>10, Zenon

\* A tick of the maintenance loop closes the expired idle connections.
LEMMA CleanupIdleKeeps ==
    ASSUME PoolInv, CleanupIdle
    PROVE  PoolInv'
<1> USE PoolAssumption DEF PoolInv
<1> DEFINE m == "maintenance"
<1>1. PICK bad \in SUBSET Range(idle) :
         /\ idle' \in Seq(Conns) /\ IsInjective(idle') /\ total' \in Int
         /\ Range(idle') = Range(idle) \ bad
         /\ open' = open \ bad /\ expired' = expired \ bad
         /\ closed => idle' = <<>>
  <2>1. CASE closed
    <3>1. idle' = idle /\ open' = open /\ expired' = expired /\ total' \in Int /\ idle = <<>>
      BY <2>1, Zenon DEF CleanupIdle, TypeOK, Sockets
    <3> QED
      BY <3>1, Lists, Zenon
  <2>2. CASE ~closed
    <3>1. /\ idle' \in HealthyInOrder /\ total' = total - (Len(idle) - Cardinality(Healthy))
          /\ open' = open \ (Range(idle) \cap expired)
          /\ expired' = expired \ (Range(idle) \cap expired)
      BY <2>2, Zenon DEF CleanupIdle
    <3>2. /\ idle' \in Seq(Conns) /\ IsInjective(idle') /\ Cardinality(Healthy) \in Nat
          /\ Range(idle') = Range(idle) \ (Range(idle) \cap expired)
      BY <3>1, HealthyList, Zenon
    <3>3. total' \in Int
      BY <3>1, <3>2, Lists DEF TypeOK
    <3> QED
      BY <2>2, <3>1, <3>2, <3>3, Zenon
  <2> QED
    BY <2>1, <2>2, Zenon
<1>2. /\ m \in Keepers /\ keeper[m].pc = "asleep"
      /\ UNCHANGED <<inUse, waiters, closed, chan, client, lost, panicked>>
      /\ keeper' = [keeper EXCEPT ![m] = [pc |-> "count", need |-> 0, conn |-> "none"]]
  BY Zenon DEF CleanupIdle, Keepers, Advance
<1>3. /\ keeper'[m].pc = "count" /\ keeper'[m].conn = "none" /\ keeper[m].conn = "none"
      /\ \A g \in Keepers : g # m => keeper'[g] = keeper[g]
  BY <1>2, Zenon DEF TypeOK, Shapes
<1>4. TypeOK'
  BY <1>1, <1>2, Lists, Zenon DEF TypeOK, KeeperPCs
<1>5. Shapes' /\ Queue'
  BY <1>2, <1>3 DEF Shapes, Queue
<1>6. Apart'
  BY <1>1, <1>2, <1>3, NoneMoves, Zenon DEF Follows
<1>7. \A d \in Range(idle) : NoHand(d) /\ NoChan(d) /\ NoKeeper(d) /\ d \notin lost
  BY InIdle, Lists, Zenon
<1>8. ASSUME NEW d \in Conns PROVE Place(d)' <=> Place(d) /\ d \notin bad
  BY <1>1, <1>2, <1>3, <1>7 DEF Place, Sockets, NoHand, NoChan, NoKeeper
<1>9. Sockets'
  BY <1>1, <1>2, <1>8, Lists, Zenon DEF Sockets
<1> QED
  BY <1>4, <1>5, <1>6, <1>9, Zenon

\* The pool of NewBackendPool.
LEMMA InitPool == Init => PoolInv
<1> SUFFICES ASSUME Init PROVE PoolInv
  BY Zenon
<1>1. /\ idle = <<>> /\ inUse = {} /\ waiters = <<>> /\ closed = FALSE
      /\ open = {} /\ expired = {} /\ lost = {} /\ panicked = FALSE /\ total = 0
      /\ \A k \in Clients : chan[k] = "empty" /\ client[k].pc = "out" /\ client[k].conn = "none"
      /\ \A g \in Keepers : /\ keeper[g].pc \in {"count", "asleep"} /\ keeper[g].need = 0
                            /\ keeper[g].conn = "none"
      /\ Range(<<>>) = {} /\ IsInjective(<<>>)
  BY EmptyList, Zenon DEF Init
<1>2. TypeOK
  <2>1. /\ chan \in [Clients -> Conns \cup {"empty", "closed"}]
        /\ client \in [Clients -> [pc : ClientPCs, conn : Conns \cup {"none"}]]
        /\ keeper \in [Keepers -> [pc : KeeperPCs, need : Nat, conn : Conns \cup {"none"}]]
    BY Zenon DEF Init, ClientPCs, KeeperPCs
  <2>2. closed \in BOOLEAN /\ panicked \in BOOLEAN
    BY <1>1, Zenon
  <2>3. idle \in Seq(Conns) /\ waiters \in Seq(Clients) /\ total \in Int
    BY <1>1
  <2>4. inUse \subseteq Conns /\ open \subseteq Conns /\ expired \subseteq Conns /\ lost \subseteq Conns
    BY <1>1, Zenon
  <2> QED
    BY <2>1, <2>2, <2>3, <2>4, Zenon DEF TypeOK
<1>3. Shapes /\ Queue /\ Apart /\ Sockets
  BY <1>1, PoolAssumption, Zenon DEF Shapes, Queue, Apart, Once, NoHand, NoChan, NoKeeper, Sockets, Place
<1> QED
  BY <1>2, <1>3, Zenon DEF PoolInv

\* Whatever the clients, the keepers, Close and time do, the invariant holds on.
LEMMA PoolStep == PoolInv /\ [Next]_vars => PoolInv'
<1> SUFFICES ASSUME PoolInv, [Next]_vars PROVE PoolInv'
  BY Zenon
<1>1. ASSUME NEW k \in Clients, Acquire(k) PROVE PoolInv'
  BY <1>1, AcquireIdleKeeps, AcquireNewKeeps, ClientMovesKeeps, DialSucceedsKeeps, ReceiveKeeps,
     RegisterKeeps, LeaveKeeps, Zenon DEF Acquire
<1>2. ASSUME NEW g \in Keepers, Keep(g) PROVE PoolInv'
  BY <1>2, KeeperKeeps, KeeperDialSucceedsKeeps, AppendIdleKeeps, Zenon DEF Keep
<1> QED
  BY <1>1, <1>2, ReleaseKeeps, DiscardKeeps, CleanupIdleKeeps, CloseKeeps, ExpireKeeps, Zenon DEF Next

\* The inductive invariant of the pool (pool.go:110-530).
THEOREM PoolInvariant == Spec => []PoolInv
BY InitPool, PoolStep, PTL DEF Spec

-----------------------------------------------------------------------------
(* What the invariant says of the pool.                                    *)

\* The types of the pool's state and of its goroutines.
THEOREM PoolTypes == Spec => []TypeOK
<1>1. PoolInv => TypeOK
  BY Zenon DEF PoolInv
<1> QED
  BY <1>1, PoolInvariant, PTL

\* Two clients never share a connection, and none that is handed out is idle or
\* closed (pool.go:156, 300, 505).
THEOREM OneHolderAlways == Spec => []OneHolder
<1>1. ASSUME PoolInv PROVE OneHolder
  <2> USE <1>1 DEF PoolInv
  <2>1. \A i, j \in DOMAIN idle : idle[i] = idle[j] => i = j
    BY Zenon DEF Apart, IsInjective
  <2>2. \A k, l \in Clients : client[k].conn = client[l].conn /\ client[k].conn # "none" => k = l
    BY InHand, Zenon DEF TypeOK
  <2>3. \A k, l \in Clients : chan[k] = chan[l] /\ chan[k] \in Conns => k = l
    BY InChan, Zenon
  <2>4. inUse \subseteq Held("using")
    BY Zenon DEF Sockets, Held
  <2>5. \A k \in Clients : client[k].pc \in {"got", "using"} => client[k].conn \in Conns
    BY Zenon DEF Shapes
  <2>6. \A d \in Range(idle) : d \in Conns
    BY DEF TypeOK, Range
  <2>7. ASSUME NEW d \in Range(idle)
        PROVE  d \notin Handed /\ d \notin Held("got") /\ d \notin Held("using") /\ d \notin Appending
    <3>1. NoHand(d) /\ NoChan(d) /\ NoKeeper(d)
      BY <2>6, <2>7, InIdle, Zenon
    <3> QED
      BY <3>1, Zenon DEF NoHand, NoChan, NoKeeper, Handed, Held, Appending
  <2>8. ASSUME NEW d \in Handed PROVE d \notin Held("got") /\ d \notin Held("using")
    <3>1. NoHand(d)
      BY <2>8, InChan, Zenon DEF Handed
    <3> QED
      BY <3>1, Zenon DEF NoHand, Held
  <2>9. ASSUME NEW d \in Range(idle) \cup inUse \cup Handed \cup Held("got") PROVE d \in open
    BY <2>5, <2>6, <2>9 DEF Sockets, Place, Handed, Held, TypeOK
  <2> QED
    BY <2>1, <2>2, <2>3, <2>4, <2>7, <2>8, <2>9, Zenon DEF OneHolder
<1> QED
  BY <1>1, PoolInvariant, PTL

\* Release never blocks on a waiter's channel while it holds p.mu (pool.go:300).
THEOREM SendNeverBlocksAlways == Spec => []SendNeverBlocks
<1>1. ASSUME PoolInv PROVE SendNeverBlocks
  <2>1. \A i \in DOMAIN waiters : waiters[i] \in Clients /\ waiters[i] \in Range(waiters)
    BY <1>1 DEF PoolInv, TypeOK, Range
  <2> QED
    BY <1>1, <2>1, Zenon DEF PoolInv, Queue, IsInjective, SendNeverBlocks
<1> QED
  BY <1>1, PoolInvariant, PTL

\* Close leaves nothing open but what is under way (pool.go:325).
THEOREM ClosedForGoodAlways == Spec => []ClosedForGood
<1>1. ASSUME PoolInv, closed PROVE ClosedForGood
  <2> USE <1>1 DEF PoolInv
  <2>1. idle = <<>> /\ waiters = <<>> /\ inUse = {} /\ Range(idle) = {} /\ Range(waiters) = {}
    BY EmptyList, Zenon DEF Sockets
  <2>2. ASSUME NEW k \in Clients, client[k].pc = "waiting" PROVE chan[k] # "empty"
    BY <2>1, <2>2, Zenon DEF Queue
  <2>3. ASSUME NEW d \in open, ~panicked PROVE d \in Handed \cup Held("got") \cup Appending \cup lost
    <3>1. Place(d) /\ d \in Conns
      BY <2>3, Zenon DEF Sockets, TypeOK
    <3>2. \A g \in Keepers : keeper[g].conn = d => keeper[g].pc = "append"
      BY <3>1, Zenon DEF Shapes
    <3> QED
      BY <2>1, <3>1, <3>2, Zenon DEF Place, Handed, Held, Appending
  <2>4. open \subseteq Conns
    BY Zenon DEF TypeOK
  <2> QED
    BY <2>1, <2>2, <2>3, <2>4, Zenon DEF ClosedForGood
<1>2. PoolInv => ClosedForGood
  BY <1>1, Zenon DEF ClosedForGood
<1> QED
  BY <1>2, PoolInvariant, PTL


-----------------------------------------------------------------------------
(* The limit.  A keeper that dials is a connection to come: it is counted  *)
(* with those that totalConns knows.                                       *)

KeeperDials == {g \in Keepers : keeper[g].pc = "dial"}

DialsFit == total + Cardinality(KeeperDials) <= MaxPoolSize + Cardinality(Keepers)

\* There are two keepers, so sets of them can be counted (pool.go:96-104).
LEMMA KeepersFinite ==
    ASSUME NEW S \in SUBSET Keepers
    PROVE  /\ IsFiniteSet(S) /\ Cardinality(S) \in Nat
           /\ Cardinality(Keepers) \in Nat /\ Cardinality(S) <= Cardinality(Keepers)
<1>1. IsFiniteSet({"maintenance"}) /\ IsFiniteSet({"warmUp"})
  BY FS_Singleton, Zenon
<1>2. Keepers = {"maintenance"} \cup {"warmUp"}
  BY Zenon DEF Keepers
<1>3. IsFiniteSet(Keepers)
  BY <1>1, <1>2, FS_Union, Zenon
<1> QED
  BY <1>3, FS_Subset, FS_CardinalityType, Zenon

\* Fewer connections and no further dial of a keeper.
LEMMA FewerFit ==
    ASSUME DialsFit, total \in Int, total' \in Int, total' <= total,
           KeeperDials' \subseteq KeeperDials
    PROVE  DialsFit'
<1>1. KeeperDials \subseteq Keepers
  BY Zenon DEF KeeperDials
<1>2. /\ IsFiniteSet(KeeperDials) /\ Cardinality(KeeperDials) \in Nat
      /\ Cardinality(KeeperDials') \in Nat /\ Cardinality(Keepers) \in Nat
  BY <1>1, KeepersFinite, Zenon
<1>3. Cardinality(KeeperDials') <= Cardinality(KeeperDials)
  BY <1>2, FS_Subset, Zenon
<1> QED
  BY <1>2, <1>3, PoolAssumption DEF DialsFit

\* Room for one: Acquire and a keeper go on only below the limit.
LEMMA RoomFits ==
    ASSUME total' \in Int, total' <= MaxPoolSize, KeeperDials' \subseteq Keepers
    PROVE  DialsFit'
<1>1. Cardinality(KeeperDials') \in Nat /\ Cardinality(Keepers) \in Nat
      /\ Cardinality(KeeperDials') <= Cardinality(Keepers)
  BY KeepersFinite, Zenon
<1> QED
  BY <1>1, PoolAssumption DEF DialsFit

\* A keeper that goes on from a dial is no longer one of the keepers that dial.
LEMMA KeeperLeavesDial ==
    ASSUME TypeOK, NEW g \in Keepers, NEW pc, pc # "dial", NEW need, NEW c, Advance(g, pc, need, c)
    PROVE  KeeperDials' = KeeperDials \ {g}
BY Zenon DEF TypeOK, Advance, KeeperDials

\* So is one whose ensureMinIdleConnections returns.
LEMMA RestLeavesDial ==
    ASSUME TypeOK, NEW g \in Keepers, Rest(g)
    PROVE  KeeperDials' \subseteq KeeperDials
<1> DEFINE pc == IF g = "warmUp" \/ closed THEN "ended" ELSE "asleep"
<1>1. pc # "dial" /\ Advance(g, pc, 0, "none")
  BY Zenon DEF Rest
<1> HIDE DEF pc
<1> QED
  BY <1>1, KeeperLeavesDial, Zenon

\* A connection is counted, or a keeper begins to dial, only below the limit.
LEMMA DialsFitStep ==
    ASSUME PoolInv, PoolInv', DialsFit, [Next]_vars
    PROVE  DialsFit'
<1>1. /\ TypeOK /\ total \in Int /\ total' \in Int /\ Len(idle) \in Nat
      /\ KeeperDials \subseteq Keepers /\ KeeperDials' \subseteq Keepers
  BY DEF PoolInv, TypeOK, KeeperDials
<1>2. ASSUME UNCHANGED keeper, total' <= total PROVE DialsFit'
  BY <1>1, <1>2, FewerFit, Zenon DEF KeeperDials
<1>3. ASSUME NEW k \in Clients, Acquire(k) PROVE DialsFit'
  <2>1. CASE AcquireIdle(k)
    <3>1. PICK last \in 1 .. Len(idle) : total' = total - (Len(idle) - last)
      BY <2>1 DEF AcquireIdle, Healthy, PoolInv, TypeOK
    <3>2. total' <= total
      BY <1>1, <3>1
    <3> QED
      BY <1>2, <2>1, <3>2, Zenon DEF AcquireIdle
  <2>2. CASE AcquireNew(k)
    <3>1. CASE HasRoom(total - Len(idle))
      <4>1. total' <= MaxPoolSize
        BY <1>1, <2>2, <3>1, PoolAssumption DEF AcquireNew, HasRoom
      <4> QED
        BY <1>1, <4>1, RoomFits, Zenon
    <3>2. CASE ~HasRoom(total - Len(idle))
      <4>1. UNCHANGED keeper /\ total' = total - Len(idle)
        BY <2>2, <3>2, Zenon DEF AcquireNew
      <4>2. total' <= total
        BY <1>1, <4>1
      <4> QED
        BY <1>2, <4>1, <4>2, Zenon
    <3> QED
      BY <3>1, <3>2, Zenon
  <2>3. CASE \/ DialFails(k) \/ Receive(k) \/ Register(k) \/ GiveUp(k) \/ Leave(k)
             \/ \E c \in Conns : DialSucceeds(k, c)
    <3>1. UNCHANGED keeper /\ (total' = total \/ total' = total - 1)
      BY <2>3, Zenon DEF DialFails, Receive, Register, GiveUp, Leave, DialSucceeds
    <3>2. total' <= total
      BY <1>1, <3>1
    <3> QED
      BY <1>2, <3>1, <3>2, Zenon
  <2> QED
    BY <1>3, <2>1, <2>2, <2>3, Zenon DEF Acquire
<1>4. ASSUME NEW k \in Clients, Release(k) \/ Discard(k) \/ ReturnUnknown(k) PROVE DialsFit'
  <2>1. UNCHANGED keeper /\ total' <= total
    BY <1>1, <1>4 DEF Release, Discard, ReturnUnknown, CloseConn
  <2> QED
    BY <1>2, <2>1, Zenon
<1>5. ASSUME NEW g \in Keepers, Keep(g) PROVE DialsFit'
  <2>1. CASE CountIdle(g)
    <3>1. UNCHANGED total
      BY <2>1, Zenon DEF CountIdle
    <3>2. KeeperDials' \subseteq KeeperDials
      BY <1>1, <2>1, RestLeavesDial, KeeperLeavesDial, Zenon DEF CountIdle
    <3> QED
      BY <1>1, <3>1, <3>2, FewerFit
  <2>2. CASE CheckRoom(g)
    <3>1. UNCHANGED total
      BY <2>2, Zenon DEF CheckRoom
    <3>2. CASE Enough(g)
      <4>1. KeeperDials' \subseteq KeeperDials
        BY <1>1, <2>2, <3>2, RestLeavesDial, Zenon DEF CheckRoom
      <4> QED
        BY <1>1, <3>1, <4>1, FewerFit
    <3>3. CASE ~Enough(g)
      <4>1. total' <= MaxPoolSize
        BY <1>1, <3>1, <3>3, PoolAssumption DEF Enough
      <4> QED
        BY <1>1, <4>1, RoomFits, Zenon
    <3> QED
      BY <3>2, <3>3, Zenon
  <2>3. CASE KeeperDialFails(g)
    <3>1. UNCHANGED total /\ KeeperDials' \subseteq KeeperDials
      BY <1>1, <2>3, KeeperLeavesDial, Zenon DEF KeeperDialFails
    <3> QED
      BY <1>1, <3>1, FewerFit
  <2>4. ASSUME NEW c \in Conns, KeeperDialSucceeds(g, c) PROVE DialsFit'
    <3>1. total' = total + 1 /\ g \in KeeperDials /\ KeeperDials' = KeeperDials \ {g}
      BY <1>1, <2>4, KeeperLeavesDial, Zenon DEF KeeperDialSucceeds, KeeperDials
    <3>2. IsFiniteSet(KeeperDials) /\ Cardinality(KeeperDials) \in Nat /\ Cardinality(Keepers) \in Nat
      BY <1>1, KeepersFinite, Zenon
    <3>3. Cardinality(KeeperDials') = Cardinality(KeeperDials) - 1
      BY <3>1, <3>2, FS_RemoveElement, Zenon
    <3> QED
      BY <1>1, <3>1, <3>2, <3>3, PoolAssumption DEF DialsFit
  <2>5. CASE AppendIdle(g)
    <3>1. total' <= total
      BY <1>1, <2>5 DEF AppendIdle, CloseConn
    <3>2. KeeperDials' \subseteq KeeperDials
      BY <1>1, <2>5, RestLeavesDial, KeeperLeavesDial, Zenon DEF AppendIdle
    <3> QED
      BY <1>1, <3>1, <3>2, FewerFit, Zenon
  <2> QED
    BY <1>5, <2>1, <2>2, <2>3, <2>4, <2>5, Zenon DEF Keep
<1>6. CASE CleanupIdle
  <2>1. KeeperDials' \subseteq KeeperDials
    BY <1>1, <1>6, KeeperLeavesDial, Zenon DEF CleanupIdle, Keepers
  <2>2. Cardinality(Healthy) \in Nat /\ Cardinality(Healthy) <= Len(idle)
    BY HealthyCount, Zenon
  <2>3. total' <= total
    <3>1. total' = total \/ total' = total - (Len(idle) - Cardinality(Healthy))
      BY <1>6, Zenon DEF CleanupIdle
    <3> QED
      BY <1>1, <2>2, <3>1
  <2> QED
    BY <1>1, <2>1, <2>3, FewerFit, Zenon
<1>7. CASE Close
  <2>1. total' <= total
    <3>1. total' = total - Len(idle) - Cardinality(inUse)
      BY <1>7, Zenon DEF Close
    <3> QED
      BY <1>1, <3>1, InUseFinite
  <2> QED
    BY <1>2, <1>7, <2>1, Zenon DEF Close
<1>8. ASSUME NEW c \in Conns, Expire(c) PROVE DialsFit'
  BY <1>1, <1>2, <1>8 DEF Expire
<1>9. CASE UNCHANGED vars
  BY <1>1, <1>2, <1>9 DEF vars
<1> QED
  BY <1>3, <1>4, <1>5, <1>6, <1>7, <1>8, <1>9, Zenon DEF Next

\* totalConns exceeds MaxPoolSize by at most one for each keeper (pool.go:500-514).
THEOREM OvershootBoundedAlways == Spec => []OvershootBounded
<1>1. Init => DialsFit
  <2>1. ASSUME Init PROVE KeeperDials \subseteq Keepers /\ total = 0
    BY <2>1, Zenon DEF Init, KeeperDials
  <2>2. ASSUME Init PROVE DialsFit
    BY <2>1, <2>2, KeepersFinite, PoolAssumption DEF DialsFit
  <2> QED
    BY <2>2, Zenon
<1>2. PoolInv /\ PoolInv' /\ DialsFit /\ [Next]_vars => DialsFit'
  BY DialsFitStep, Zenon
<1>3. PoolInv /\ DialsFit => OvershootBounded
  <2>1. KeeperDials \subseteq Keepers
    BY Zenon DEF KeeperDials
  <2>2. Cardinality(KeeperDials) \in Nat /\ Cardinality(Keepers) \in Nat
    BY <2>1, KeepersFinite, Zenon
  <2> QED
    BY <2>2, PoolAssumption DEF PoolInv, TypeOK, DialsFit, OvershootBounded
<1> QED
  BY <1>1, <1>2, <1>3, PoolInvariant, PTL DEF Spec

-----------------------------------------------------------------------------
(* The count.  The connections totalConns counts are in sets that have no  *)
(* element in common; a step adds one element to a set or takes one away.  *)

Dialing == {k \in Clients : client[k].pc = "dialing"}

\* The terms of the sum.
nIdle == Len(idle)
nUsed == Cardinality(inUse)
nHanded == Cardinality(Handed)
nGot == Cardinality(Held("got"))
nAppending == Cardinality(Appending)
nLost == Cardinality(lost)
nDialing == Cardinality(Dialing)

LostFinite == IsFiniteSet(lost)

CountInv == LostFinite /\ TotalCounts

\* What TotalCounts says, in these terms.
LEMMA Sum ==
    /\ TotalCounts <=> total = nIdle + nUsed + nHanded + nGot + nAppending + nLost + nDialing
    /\ TotalCounts' <=>
           total' = nIdle' + nUsed' + nHanded' + nGot' + nAppending' + nLost' + nDialing'
BY Zenon DEF TotalCounts, nIdle, nUsed, nHanded, nGot, nAppending, nLost, nDialing, Dialing

\* The counted sets are finite.
LEMMA CountedFinite ==
    ASSUME PoolInv
    PROVE  /\ IsFiniteSet(Handed) /\ IsFiniteSet(Held("got")) /\ IsFiniteSet(Appending)
           /\ IsFiniteSet(Dialing)
<1>1. IsFiniteSet(Clients) /\ IsFiniteSet(Dialing)
  BY PoolAssumption, FS_Subset, Zenon DEF Dialing
<1>2. IsFiniteSet(Handed)
  <2> DEFINE S == {chan[k] : k \in Clients}
             f == [k \in Clients |-> chan[k]]
  <2>1. f \in Surjection(Clients, S)
    BY Zenon DEF Surjection
  <2>2. IsFiniteSet(S)
    BY <1>1, <2>1, FS_Surjection, Zenon
  <2>3. Handed \subseteq S
    BY Zenon DEF Handed
  <2> QED
    BY <2>2, <2>3, FS_Subset, Zenon
<1>3. IsFiniteSet(Held("got"))
  <2> DEFINE K == {k \in Clients : client[k].pc = "got"}
             f == [k \in K |-> client[k].conn]
  <2>1. IsFiniteSet(K)
    BY <1>1, FS_Subset, Zenon
  <2>2. f \in Surjection(K, Held("got"))
    BY Zenon DEF Surjection, Held
  <2> QED
    BY <2>1, <2>2, FS_Surjection, Zenon
<1>4. IsFiniteSet(Appending)
  <2> DEFINE K == {g \in Keepers : keeper[g].pc = "append"}
             f == [g \in K |-> keeper[g].conn]
  <2>1. IsFiniteSet(K)
    BY KeepersFinite, Zenon
  <2>2. f \in Surjection(K, Appending)
    BY Zenon DEF Surjection, Appending
  <2> QED
    BY <2>1, <2>2, FS_Surjection, Zenon
<1> QED
  BY <1>1, <1>2, <1>3, <1>4, Zenon

\* They are numbers.
LEMMA TermTypes ==
    ASSUME PoolInv, CountInv
    PROVE  /\ nIdle \in Nat /\ nUsed \in Nat /\ nHanded \in Nat /\ nGot \in Nat
           /\ nAppending \in Nat /\ nLost \in Nat /\ nDialing \in Nat
           /\ total \in Int
<1>1. nHanded \in Nat /\ nGot \in Nat /\ nAppending \in Nat /\ nDialing \in Nat
  BY CountedFinite, FS_CardinalityType, Zenon DEF nHanded, nGot, nAppending, nDialing
<1>2. nLost \in Nat
  BY FS_CardinalityType, Zenon DEF CountInv, LostFinite, nLost
<1>3. nIdle \in Nat /\ total \in Int
  BY DEF PoolInv, TypeOK, nIdle
<1>4. nUsed \in Nat
  BY InUseFinite, Zenon DEF nUsed
<1> QED
  BY <1>1, <1>2, <1>3, <1>4, Zenon

One(p) == IF p THEN 1 ELSE 0

\* An element leaves a set, if it is there, and another may come.
LEMMA Exchange ==
    ASSUME NEW S, IsFiniteSet(S), NEW x, NEW y, NEW p, p \in BOOLEAN, p => y \notin S \ {x}
    PROVE  LET T == IF p THEN (S \ {x}) \cup {y} ELSE S \ {x}
           IN  Cardinality(T) = Cardinality(S) - One(x \in S) + One(p)
<1>1. Cardinality(S) \in Nat
  BY FS_CardinalityType, Zenon
<1>2. IsFiniteSet(S \ {x}) /\ Cardinality(S \ {x}) = Cardinality(S) - One(x \in S)
  BY <1>1, FS_RemoveElement DEF One
<1>3. CASE p
  <2>1. Cardinality((S \ {x}) \cup {y}) = Cardinality(S \ {x}) + 1
    BY <1>2, <1>3, FS_AddElement, Zenon
  <2> QED
    BY <1>2, <1>3, <2>1, Zenon DEF One
<1>4. CASE ~p
  BY <1>1, <1>2, <1>4 DEF One
<1> QED
  BY <1>3, <1>4, Zenon

\* A client goes on: how many dial, and how many have a connection in hand that
\* is not registered yet.
LEMMA ClientCounts ==
    ASSUME PoolInv, NEW k \in Clients, NEW pc, NEW c, Enter(k, pc, c),
           pc = "got" => c \notin Held("got")
    PROVE  /\ nDialing' = nDialing - One(client[k].pc = "dialing") + One(pc = "dialing")
           /\ nGot' = nGot - One(client[k].pc = "got") + One(pc = "got")
<1> DEFINE old == client[k].conn
           G == Held("got")
<1>1. /\ client'[k].pc = pc /\ client'[k].conn = c
      /\ \A l \in Clients : l # k => client'[l] = client[l]
  BY Zenon DEF PoolInv, TypeOK, Enter
<1>2. IsFiniteSet(Dialing) /\ IsFiniteSet(G)
  BY CountedFinite, Zenon
<1>3. k \in Dialing <=> client[k].pc = "dialing"
  BY Zenon DEF Dialing
<1>4. Dialing' = IF pc = "dialing" THEN (Dialing \ {k}) \cup {k} ELSE Dialing \ {k}
  BY <1>1, Zenon DEF Dialing
<1>5. nDialing' = nDialing - One(k \in Dialing) + One(pc = "dialing")
  BY <1>2, <1>4, Exchange, Zenon DEF nDialing
<1>6. \A l \in Clients : client[l].pc = "got" /\ l # k => client[l].conn # old
  BY InHand, Zenon DEF PoolInv, Shapes
<1>7. old \in G <=> client[k].pc = "got"
  BY <1>6, Zenon DEF Held
<1>8. Held("got")' = IF pc = "got" THEN (G \ {old}) \cup {c} ELSE G \ {old}
  <2>1. ASSUME NEW d
        PROVE  d \in Held("got")' <=> d \in IF pc = "got" THEN (G \ {old}) \cup {c} ELSE G \ {old}
    BY <1>1, <1>6, Zenon DEF Held
  <2> QED
    BY <2>1, Zenon
<1>9. nGot' = nGot - One(old \in G) + One(pc = "got")
  <2>1. pc = "got" => c \notin G \ {old}
    BY Zenon
  <2> HIDE DEF G, old
  <2>2. Cardinality(IF pc = "got" THEN (G \ {old}) \cup {c} ELSE G \ {old})
          = Cardinality(G) - One(old \in G) + One(pc = "got")
    BY <1>2, <2>1, Exchange, Zenon
  <2> QED
    BY <1>8, <2>2, Zenon DEF nGot, G
<1> QED
  BY <1>3, <1>5, <1>7, <1>9, Zenon DEF One

\* A channel is filled or emptied.
LEMMA ChannelCounts ==
    ASSUME PoolInv, NEW k \in Clients, NEW v, chan' = [chan EXCEPT ![k] = v], v \notin Handed
    PROVE  nHanded' = nHanded - One(chan[k] \in Conns) + One(v \in Conns)
<1> DEFINE old == chan[k]
<1>1. chan'[k] = v /\ \A l \in Clients : l # k => chan'[l] = chan[l]
  BY Zenon DEF PoolInv, TypeOK
<1>2. IsFiniteSet(Handed) /\ (old \in Handed <=> old \in Conns)
  BY CountedFinite, Zenon DEF Handed
<1>3. \A l \in Clients : l # k /\ chan[l] \in Conns => chan[l] # old
  BY InChan, Zenon DEF PoolInv
<1>4. Handed' = IF v \in Conns THEN (Handed \ {old}) \cup {v} ELSE Handed \ {old}
  <2>1. ASSUME NEW d
        PROVE  d \in Handed' <=> d \in IF v \in Conns THEN (Handed \ {old}) \cup {v} ELSE Handed \ {old}
    BY <1>1, <1>3, Zenon DEF Handed
  <2> QED
    BY <2>1, Zenon
<1>5. nHanded' = nHanded - One(old \in Handed) + One(v \in Conns)
  <2> DEFINE p == v \in Conns
  <2>1. p \in BOOLEAN /\ v \notin Handed \ {old} /\ IsFiniteSet(Handed)
    BY <1>2
  <2> HIDE DEF old, p
  <2>2. Cardinality(IF p THEN (Handed \ {old}) \cup {v} ELSE Handed \ {old})
          = Cardinality(Handed) - One(old \in Handed) + One(p)
    BY <2>1, Exchange, Zenon
  <2> QED
    BY <1>4, <2>2, Zenon DEF nHanded, p
<1> QED
  BY <1>2, <1>5, Zenon DEF One

\* A keeper goes on.
LEMMA KeeperCounts ==
    ASSUME PoolInv, NEW g \in Keepers, NEW pc, NEW need, NEW c, Advance(g, pc, need, c),
           c \notin Appending
    PROVE  nAppending' = nAppending - One(keeper[g].pc = "append") + One(pc = "append")
<1> DEFINE old == keeper[g].conn
           A == Appending
<1>1. /\ keeper'[g].pc = pc /\ keeper'[g].conn = c
      /\ \A h \in Keepers : h # g => keeper'[h] = keeper[h]
  BY Zenon DEF PoolInv, TypeOK, Advance
<1>2. \A h \in Keepers : h # g /\ keeper[h].pc = "append" => keeper[h].conn # old
  BY InKeeper, Zenon DEF PoolInv, Shapes
<1>3. IsFiniteSet(A) /\ (old \in A <=> keeper[g].pc = "append")
  BY <1>2, CountedFinite, Zenon DEF Appending
<1>4. Appending' = IF pc = "append" THEN (A \ {old}) \cup {c} ELSE A \ {old}
  <2>1. ASSUME NEW d
        PROVE  d \in Appending' <=> d \in IF pc = "append" THEN (A \ {old}) \cup {c} ELSE A \ {old}
    BY <1>1, <1>2 DEF Appending
  <2> QED
    BY <2>1, Zenon
<1>5. nAppending' = nAppending - One(old \in A) + One(pc = "append")
  BY <1>3, <1>4, Exchange DEF nAppending
<1> QED
  BY <1>3, <1>5, Zenon DEF One

\* A term whose variables a step leaves alone.
LEMMA SameTerms ==
    /\ UNCHANGED idle => nIdle' = nIdle
    /\ UNCHANGED inUse => nUsed' = nUsed
    /\ UNCHANGED chan => nHanded' = nHanded
    /\ UNCHANGED client => nGot' = nGot /\ nDialing' = nDialing
    /\ UNCHANGED keeper => nAppending' = nAppending
    /\ UNCHANGED lost => nLost' = nLost
BY Zenon DEF nIdle, nUsed, nHanded, nGot, nDialing, nAppending, nLost, Handed, Held, Dialing, Appending

\* A connection enters inUse, or leaves it.
LEMMA UseCounts ==
    ASSUME PoolInv, NEW c
    PROVE  /\ inUse' = inUse \cup {c} /\ c \notin inUse => nUsed' = nUsed + 1
           /\ inUse' = inUse \ {c} /\ c \in inUse => nUsed' = nUsed - 1
BY InUseFinite, FS_AddElement, FS_RemoveElement DEF nUsed

\* The connection leaves the idle list, with the expired ones behind it.
LEMMA AcquireIdleCounts ==
    ASSUME PoolInv, CountInv, NEW k \in Clients, AcquireIdle(k)
    PROVE  TotalCounts'
<1>1. PICK last \in Healthy :
         /\ idle' = SubSeq(idle, 1, last - 1)
         /\ inUse' = inUse \cup {idle[last]}
         /\ total' = total - (Len(idle) - last)
         /\ Enter(k, "using", idle[last])
  BY Zenon DEF AcquireIdle
<1> DEFINE c == idle[last]
<1>2. /\ idle \in Seq(Conns) /\ Len(idle) \in Nat /\ last \in 1 .. Len(idle) /\ IsInjective(idle)
  BY Lists DEF Healthy
<1>3. Len(idle') = last - 1 /\ c \in Range(idle)
  BY <1>1, <1>2, PrefixList, Zenon
<1>4. c \notin inUse
  BY <1>3, InIdle, Lists, Zenon DEF PoolInv, Sockets, NoHand
<1>5. client[k].pc = "out" /\ UNCHANGED <<chan, keeper, lost>>
  BY Zenon DEF AcquireIdle
<1>6. nUsed' = nUsed + 1
  BY <1>1, <1>4, UseCounts, Zenon
<1>7. nDialing' = nDialing - 0 + 0 /\ nGot' = nGot - 0 + 0
  BY <1>1, <1>5, ClientCounts DEF One
<1>8. nIdle' = last - 1 /\ total' = total - (nIdle - last) /\ last \in Nat
  BY <1>1, <1>2, <1>3 DEF nIdle
<1>9. nHanded' = nHanded /\ nAppending' = nAppending /\ nLost' = nLost
  BY <1>5, SameTerms, Zenon
<1> QED
  BY <1>6, <1>7, <1>8, <1>9, TermTypes, Sum DEF CountInv

\* Expired connections leave the idle list; a dial is counted when it begins.
LEMMA AcquireNewCounts ==
    ASSUME PoolInv, CountInv, NEW k \in Clients, AcquireNew(k)
    PROVE  TotalCounts'
<1>1. client[k].pc = "out" /\ idle' = <<>> /\ UNCHANGED <<inUse, keeper, lost>>
  BY Zenon DEF AcquireNew
<1>2. nIdle' = 0
  BY <1>1, EmptyList, Zenon DEF nIdle
<1>3. chan[k] = "empty"
  BY <1>1, Zenon DEF PoolInv, Queue
<1>4. chan' = chan
  BY <1>3, Zenon DEF AcquireNew, PoolInv, TypeOK
<1>5. nUsed' = nUsed /\ nHanded' = nHanded /\ nAppending' = nAppending /\ nLost' = nLost
  BY <1>1, <1>4, SameTerms, Zenon
<1>6. CASE HasRoom(total - Len(idle))
  <2>1. Enter(k, "dialing", "none") /\ total' = total - nIdle + 1
    BY <1>6, Zenon DEF AcquireNew, nIdle
  <2>2. nDialing' = nDialing - 0 + 1 /\ nGot' = nGot - 0 + 0
    BY <1>1, <2>1, ClientCounts, Zenon DEF One
  <2> QED
    BY <1>2, <1>5, <2>1, <2>2, TermTypes, Sum DEF CountInv
<1>7. CASE ~HasRoom(total - Len(idle))
  <2>1. Enter(k, "waiting", "none") /\ total' = total - nIdle
    BY <1>7, Zenon DEF AcquireNew, nIdle
  <2>2. nDialing' = nDialing - 0 + 0 /\ nGot' = nGot - 0 + 0
    BY <1>1, <2>1, ClientCounts DEF One
  <2> QED
    BY <1>2, <1>5, <2>1, <2>2, TermTypes, Sum DEF CountInv
<1> QED
  BY <1>6, <1>7, Zenon

\* A dial of Acquire fails.
LEMMA DialFailsCounts ==
    ASSUME PoolInv, CountInv, NEW k \in Clients, DialFails(k)
    PROVE  TotalCounts'
<1>1. /\ client[k].pc = "dialing" /\ UNCHANGED <<idle, inUse, chan, keeper, lost>>
      /\ Enter(k, "out", "none") /\ total' = total - 1
  BY Zenon DEF DialFails
<1>2. nDialing' = nDialing - 1 + 0 /\ nGot' = nGot - 0 + 0
  BY <1>1, ClientCounts DEF One
<1> QED
  BY <1>1, <1>2, SameTerms, TermTypes, Sum DEF CountInv

\* A dial of Acquire succeeds; it was counted when it began.
LEMMA DialSucceedsCounts ==
    ASSUME PoolInv, CountInv, NEW k \in Clients, NEW c \in Conns, DialSucceeds(k, c)
    PROVE  TotalCounts'
<1>1. client[k].pc = "dialing" /\ UNCHANGED <<idle, chan, keeper, lost, total>>
  BY Zenon DEF DialSucceeds
<1>2. CASE closed
  <2>1. UNCHANGED <<client, inUse>>
    BY <1>2, Zenon DEF DialSucceeds, PutInUse
  <2> QED
    BY <1>1, <2>1, SameTerms, Sum, Zenon DEF CountInv
<1>3. CASE ~closed
  <2>1. Enter(k, "using", c) /\ inUse' = inUse \cup {c}
    BY <1>3, Zenon DEF DialSucceeds, PutInUse
  <2>2. c \notin inUse
    BY Zenon DEF DialSucceeds, Fresh, PoolInv, Sockets, Place
  <2>3. nUsed' = nUsed + 1
    BY <2>1, <2>2, UseCounts, Zenon
  <2>4. nDialing' = nDialing - 1 + 0 /\ nGot' = nGot - 0 + 0
    BY <1>1, <2>1, ClientCounts DEF One
  <2>5. nIdle' = nIdle /\ nHanded' = nHanded /\ nAppending' = nAppending /\ nLost' = nLost
    BY <1>1, SameTerms, Zenon
  <2> QED
    BY <1>1, <2>3, <2>4, <2>5, TermTypes, Sum DEF CountInv
<1> QED
  BY <1>2, <1>3, Zenon

\* A connection moves from the channel into the waiter's hands.
LEMMA ReceiveCounts ==
    ASSUME PoolInv, CountInv, NEW k \in Clients, Receive(k)
    PROVE  TotalCounts'
<1>1. /\ client[k].pc = "waiting" /\ chan[k] # "empty" /\ chan' = [chan EXCEPT ![k] = "empty"]
      /\ UNCHANGED <<idle, inUse, total, keeper, lost>>
  BY Zenon DEF Receive
<1>2. "empty" \notin Conns /\ "closed" \notin Conns /\ "empty" \notin Handed
  BY PoolAssumption, Zenon DEF Handed
<1>3. CASE chan[k] = "closed"
  <2>1. Enter(k, "out", "none")
    BY <1>3, Zenon DEF Receive
  <2>2. nHanded' = nHanded - 0 + 0
    BY <1>1, <1>2, <1>3, ChannelCounts, Zenon DEF One
  <2>3. nDialing' = nDialing - 0 + 0 /\ nGot' = nGot - 0 + 0
    BY <1>1, <2>1, ClientCounts DEF One
  <2> QED
    BY <1>1, <2>2, <2>3, SameTerms, TermTypes, Sum DEF CountInv
<1>4. CASE chan[k] # "closed"
  <2>1. Enter(k, "got", chan[k]) /\ chan[k] \in Conns
    BY <1>1, <1>4, Zenon DEF Receive, PoolInv, TypeOK
  <2>2. chan[k] \notin Held("got")
    BY <2>1, InChan, Zenon DEF PoolInv, NoHand, Held
  <2>3. nHanded' = nHanded - 1 + 0
    BY <1>1, <1>2, <2>1, ChannelCounts, Zenon DEF One
  <2>4. nDialing' = nDialing - 0 + 0 /\ nGot' = nGot - 0 + 1
    BY <1>1, <2>1, <2>2, ClientCounts, Zenon DEF One
  <2> QED
    BY <1>1, <2>3, <2>4, SameTerms, TermTypes, Sum DEF CountInv
<1> QED
  BY <1>3, <1>4, Zenon

\* From its hands into inUse.
LEMMA RegisterCounts ==
    ASSUME PoolInv, CountInv, NEW k \in Clients, Register(k)
    PROVE  TotalCounts'
<1>1. client[k].pc = "got" /\ UNCHANGED <<idle, chan, keeper, lost, total>>
  BY Zenon DEF Register
<1>2. CASE closed
  <2>1. UNCHANGED <<client, inUse>>
    BY <1>2, Zenon DEF Register, PutInUse
  <2> QED
    BY <1>1, <2>1, SameTerms, Sum, Zenon DEF CountInv
<1>3. CASE ~closed
  <2> DEFINE c == client[k].conn
  <2>1. Enter(k, "using", c) /\ inUse' = inUse \cup {c}
    BY <1>3, Zenon DEF Register, PutInUse
  <2>2. c \notin inUse
    BY <1>1, InHand, Zenon DEF PoolInv, Sockets, Shapes
  <2>3. nUsed' = nUsed + 1
    BY <2>1, <2>2, UseCounts, Zenon
  <2>4. nDialing' = nDialing - 0 + 0 /\ nGot' = nGot - 1 + 0
    BY <1>1, <2>1, ClientCounts DEF One
  <2> QED
    BY <1>1, <2>3, <2>4, SameTerms, TermTypes, Sum DEF CountInv
<1> QED
  BY <1>2, <1>3, Zenon

\* A waiter's time is up.
LEMMA GiveUpCounts ==
    ASSUME PoolInv, CountInv, NEW k \in Clients, GiveUp(k)
    PROVE  TotalCounts'
<1>1. /\ client[k].pc = "waiting" /\ Enter(k, "leaving", "none")
      /\ UNCHANGED <<idle, inUse, chan, keeper, lost, total>>
  BY Zenon DEF GiveUp
<1>2. nDialing' = nDialing - 0 + 0 /\ nGot' = nGot - 0 + 0
  BY <1>1, ClientCounts DEF One
<1> QED
  BY <1>1, <1>2, SameTerms, TermTypes, Sum DEF CountInv

\* What is in the channel of a waiter that leaves is lost, and stays counted.
LEMMA LeaveCounts ==
    ASSUME PoolInv, CountInv, NEW k \in Clients, Leave(k)
    PROVE  TotalCounts'
<1>1. /\ client[k].pc = "leaving" /\ Enter(k, "out", "none")
      /\ lost' = lost \cup ({chan[k]} \cap Conns)
      /\ chan' = [chan EXCEPT ![k] = "empty"]
      /\ UNCHANGED <<idle, inUse, keeper, total>>
  BY Zenon DEF Leave
<1>2. nDialing' = nDialing - 0 + 0 /\ nGot' = nGot - 0 + 0
  BY <1>1, ClientCounts DEF One
<1>3. "empty" \notin Conns /\ "empty" \notin Handed
  BY PoolAssumption, Zenon DEF Handed
<1>4. nIdle' = nIdle /\ nUsed' = nUsed /\ nAppending' = nAppending
  BY <1>1, SameTerms, Zenon
<1>5. CASE chan[k] \in Conns
  <2>1. nHanded' = nHanded - 1 + 0
    BY <1>1, <1>3, <1>5, ChannelCounts, Zenon DEF One
  <2>2. lost' = lost \cup {chan[k]} /\ chan[k] \notin lost
    BY <1>1, <1>5, InChan, Zenon DEF PoolInv
  <2>3. nLost' = nLost + 1
    BY <2>2, FS_AddElement, Zenon DEF nLost, CountInv, LostFinite
  <2> QED
    BY <1>1, <1>2, <1>4, <2>1, <2>3, TermTypes, Sum DEF CountInv
<1>6. CASE chan[k] \notin Conns
  <2>1. nHanded' = nHanded - 0 + 0
    BY <1>1, <1>3, <1>6, ChannelCounts, Zenon DEF One
  <2>2. lost' = lost
    BY <1>1, <1>6, Zenon
  <2>3. nLost' = nLost
    BY <2>2, SameTerms, Zenon
  <2> QED
    BY <1>1, <1>2, <1>4, <2>1, <2>3, TermTypes, Sum DEF CountInv
<1> QED
  BY <1>5, <1>6, Zenon

\* A connection that Close has counted off is not counted again.
LEMMA ReturnUnknownCounts ==
    ASSUME PoolInv, CountInv, NEW k \in Clients, ReturnUnknown(k)
    PROVE  TotalCounts'
<1>1. /\ client[k].pc = "using" /\ Enter(k, "out", "none")
      /\ UNCHANGED <<idle, inUse, chan, keeper, lost, total>>
  BY Zenon DEF ReturnUnknown
<1>2. nDialing' = nDialing - 0 + 0 /\ nGot' = nGot - 0 + 0
  BY <1>1, ClientCounts DEF One
<1> QED
  BY <1>1, <1>2, SameTerms, TermTypes, Sum DEF CountInv

\* From inUse to a channel, to the idle list, or out of the pool.
LEMMA ReleaseCounts ==
    ASSUME PoolInv, CountInv, NEW k \in Clients, Release(k)
    PROVE  TotalCounts'
<1> DEFINE c == client[k].conn
<1>1. /\ client[k].pc = "using" /\ c \in inUse /\ inUse' = inUse \ {c}
      /\ Enter(k, "out", "none") /\ UNCHANGED <<keeper, lost>>
  BY Zenon DEF Release
<1>2. nDialing' = nDialing - 0 + 0 /\ nGot' = nGot - 0 + 0
  BY <1>1, ClientCounts DEF One
<1>3. nUsed' = nUsed - 1
  BY <1>1, UseCounts, Zenon
<1>4. nAppending' = nAppending /\ nLost' = nLost
  BY <1>1, SameTerms, Zenon
<1>5. c \in Conns /\ \A l \in Clients : chan[l] # c
  BY <1>1, Released, Zenon DEF NoChan
<1>6. CASE CloseConn(c) /\ UNCHANGED <<chan, waiters, idle>>
  <2>1. total' = total - 1
    BY <1>6, Zenon DEF CloseConn
  <2>2. nIdle' = nIdle /\ nHanded' = nHanded
    BY <1>6, SameTerms, Zenon
  <2> QED
    BY <1>2, <1>3, <1>4, <2>1, <2>2, TermTypes, Sum DEF CountInv
<1>7. CASE waiters # <<>> /\ GiveBack(c) /\ UNCHANGED <<open, expired, total>>
  <2> DEFINE w == Head(waiters)
  <2>1. chan' = [chan EXCEPT ![w] = c] /\ UNCHANGED idle
    BY <1>7, Zenon DEF GiveBack
  <2>2. w \in Clients /\ w \in Range(waiters)
    BY <1>7, Lists, TailList, Zenon
  <2> HIDE DEF w
  <2>3. chan[w] \notin Conns
    BY <2>2, PoolAssumption, Zenon DEF PoolInv, Queue
  <2>4. c \notin Handed
    BY <1>5, Zenon DEF Handed
  <2>5. nHanded' = nHanded - 0 + 1
    BY <1>5, <2>1, <2>2, <2>3, <2>4, ChannelCounts, Zenon DEF One
  <2>6. nIdle' = nIdle
    BY <2>1, SameTerms, Zenon
  <2> QED
    BY <1>2, <1>3, <1>4, <1>7, <2>5, <2>6, TermTypes, Sum DEF CountInv
<1>8. CASE waiters = <<>> /\ GiveBack(c) /\ UNCHANGED <<open, expired, total>>
  <2>1. idle' = Append(idle, c) /\ UNCHANGED chan
    BY <1>8, Zenon DEF GiveBack
  <2>2. nIdle' = nIdle + 1
    BY <1>5, <2>1, AppendList, Zenon DEF nIdle, PoolInv, TypeOK
  <2>3. nHanded' = nHanded
    BY <2>1, SameTerms, Zenon
  <2> QED
    BY <1>2, <1>3, <1>4, <1>8, <2>2, <2>3, TermTypes, Sum DEF CountInv
<1> QED
  BY <1>6, <1>7, <1>8, Zenon DEF Release

\* Discard counts off the connection it closes.
LEMMA DiscardCounts ==
    ASSUME PoolInv, CountInv, NEW k \in Clients, Discard(k)
    PROVE  TotalCounts'
<1> DEFINE c == client[k].conn
<1>1. /\ client[k].pc = "using" /\ c \in inUse /\ inUse' = inUse \ {c}
      /\ Enter(k, "out", "none") /\ UNCHANGED <<idle, chan, keeper, lost>> /\ total' = total - 1
  BY Zenon DEF Discard, CloseConn
<1>2. nDialing' = nDialing - 0 + 0 /\ nGot' = nGot - 0 + 0
  BY <1>1, ClientCounts DEF One
<1>3. nUsed' = nUsed - 1
  BY <1>1, UseCounts, Zenon
<1>4. nIdle' = nIdle /\ nHanded' = nHanded /\ nAppending' = nAppending /\ nLost' = nLost
  BY <1>1, SameTerms, Zenon
<1> QED
  BY <1>1, <1>2, <1>3, <1>4, TermTypes, Sum DEF CountInv

\* Close counts off the idle connections and those in use.
LEMMA CloseCounts ==
    ASSUME PoolInv, CountInv, Close
    PROVE  TotalCounts'
<1>1. /\ idle' = <<>> /\ inUse' = {} /\ total' = total - nIdle - nUsed
      /\ UNCHANGED <<client, keeper, lost>>
      /\ chan' = [k \in Clients |-> IF k \in Range(waiters) THEN "closed" ELSE chan[k]]
  BY Zenon DEF Close, nIdle, nUsed
<1>2. nIdle' = 0 /\ nUsed' = 0
  BY <1>1, EmptyList, FS_EmptySet, Zenon DEF nIdle, nUsed
<1>3. \A k \in Clients : chan'[k] \in Conns \/ chan[k] \in Conns => chan'[k] = chan[k]
  BY <1>1, PoolAssumption, Zenon DEF PoolInv, Queue
<1>4. Handed' = Handed
  BY <1>3, Zenon DEF Handed
<1>5. nHanded' = nHanded
  BY <1>4, Zenon DEF nHanded
<1>6. nGot' = nGot /\ nDialing' = nDialing /\ nAppending' = nAppending /\ nLost' = nLost
  BY <1>1, SameTerms, Zenon
<1>7. total' = total - nIdle - nUsed
  BY <1>1, Zenon
<1> QED
  BY <1>2, <1>5, <1>6, <1>7, TermTypes, Sum DEF CountInv

\* cleanupIdleConnections counts off what it closes.
LEMMA CleanupIdleCounts ==
    ASSUME PoolInv, CountInv, CleanupIdle
    PROVE  TotalCounts'
<1>1. /\ keeper["maintenance"].pc = "asleep" /\ "maintenance" \in Keepers
      /\ Advance("maintenance", "count", 0, "none")
      /\ UNCHANGED <<inUse, chan, client, lost>>
  BY Zenon DEF CleanupIdle, Keepers
<1>2. "none" \notin Appending
  BY PoolAssumption, Zenon DEF Appending, PoolInv, Shapes
<1>3. nAppending' = nAppending - 0 + 0
  BY <1>1, <1>2, KeeperCounts DEF One
<1>4. nUsed' = nUsed /\ nHanded' = nHanded /\ nGot' = nGot /\ nDialing' = nDialing /\ nLost' = nLost
  BY <1>1, SameTerms, Zenon
<1>5. total' = total - (nIdle - nIdle') /\ nIdle' \in Int
  <2>1. CASE closed
    <3>1. UNCHANGED <<idle, total>>
      BY <2>1, Zenon DEF CleanupIdle
    <3>2. nIdle' = nIdle
      BY <3>1, SameTerms, Zenon
    <3> QED
      BY <3>1, <3>2, TermTypes
  <2>2. CASE ~closed
    <3>1. idle' \in HealthyInOrder /\ total' = total - (Len(idle) - Cardinality(Healthy))
      BY <2>2, Zenon DEF CleanupIdle
    <3>2. idle' \in Seq(Conns) /\ Len(idle') = Cardinality(Healthy)
      BY <3>1, HealthyList, Zenon
    <3>3. Len(idle') \in Nat
      BY <3>2
    <3> QED
      BY <3>1, <3>2, <3>3 DEF nIdle
  <2> QED
    BY <2>1, <2>2, Zenon
<1> QED
  BY <1>3, <1>4, <1>5, TermTypes, Sum DEF CountInv

\* A keeper that goes on with no connection changes no count.
LEMMA KeeperMovesCounts ==
    ASSUME PoolInv, CountInv, NEW g \in Keepers, CountIdle(g) \/ CheckRoom(g) \/ KeeperDialFails(g)
    PROVE  TotalCounts'
<1>1. keeper[g].pc # "append" /\ UNCHANGED <<idle, inUse, chan, client, lost, total>>
  BY Zenon DEF CountIdle, CheckRoom, KeeperDialFails
<1>2. "none" \notin Appending
  BY PoolAssumption, Zenon DEF Appending, PoolInv, Shapes
<1>3. \E pc, need : pc # "append" /\ Advance(g, pc, need, "none")
  BY Zenon DEF CountIdle, CheckRoom, KeeperDialFails, Rest
<1>4. nAppending' = nAppending - 0 + 0
  BY <1>1, <1>2, <1>3, KeeperCounts, Zenon DEF One
<1>5. /\ nIdle' = nIdle /\ nUsed' = nUsed /\ nHanded' = nHanded /\ nGot' = nGot
      /\ nDialing' = nDialing /\ nLost' = nLost
  BY <1>1, SameTerms, Zenon
<1> QED
  BY <1>1, <1>4, <1>5, TermTypes, Sum DEF CountInv

\* A keeper counts the connection it has dialled.
LEMMA KeeperDialSucceedsCounts ==
    ASSUME PoolInv, CountInv, NEW g \in Keepers, NEW c \in Conns, KeeperDialSucceeds(g, c)
    PROVE  TotalCounts'
<1>1. /\ keeper[g].pc = "dial" /\ Advance(g, "append", keeper[g].need, c) /\ total' = total + 1
      /\ UNCHANGED <<idle, inUse, chan, client, lost>>
  BY Zenon DEF KeeperDialSucceeds
<1>2. c \notin Appending
  BY Zenon DEF KeeperDialSucceeds, Fresh, Appending, PoolInv, Sockets, Place
<1>3. nAppending' = nAppending - 0 + 1
  BY <1>1, <1>2, KeeperCounts, Zenon DEF One
<1>4. /\ nIdle' = nIdle /\ nUsed' = nUsed /\ nHanded' = nHanded /\ nGot' = nGot
      /\ nDialing' = nDialing /\ nLost' = nLost
  BY <1>1, SameTerms, Zenon
<1> QED
  BY <1>1, <1>3, <1>4, TermTypes, Sum DEF CountInv

\* It goes to the idle list, or is counted off on a closed pool.
LEMMA AppendIdleCounts ==
    ASSUME PoolInv, CountInv, NEW g \in Keepers, AppendIdle(g)
    PROVE  TotalCounts'
<1>1. keeper[g].pc = "append" /\ UNCHANGED <<inUse, chan, client, lost>>
  BY Zenon DEF AppendIdle
<1>2. "none" \notin Appending /\ keeper[g].conn \in Conns
  BY <1>1, PoolAssumption, Zenon DEF Appending, PoolInv, Shapes
<1>3. \E pc, need : pc # "append" /\ Advance(g, pc, need, "none")
  BY Zenon DEF AppendIdle, Rest
<1>4. nAppending' = nAppending - 1 + 0
  BY <1>1, <1>2, <1>3, KeeperCounts, Zenon DEF One
<1>5. nUsed' = nUsed /\ nHanded' = nHanded /\ nGot' = nGot /\ nDialing' = nDialing /\ nLost' = nLost
  BY <1>1, SameTerms, Zenon
<1>6. CASE closed
  <2>1. UNCHANGED idle /\ total' = total - 1
    BY <1>6, Zenon DEF AppendIdle, CloseConn
  <2>2. nIdle' = nIdle
    BY <2>1, SameTerms, Zenon
  <2> QED
    BY <1>4, <1>5, <2>1, <2>2, TermTypes, Sum DEF CountInv
<1>7. CASE ~closed
  <2>1. idle' = Append(idle, keeper[g].conn) /\ UNCHANGED total
    BY <1>7, Zenon DEF AppendIdle
  <2>2. nIdle' = nIdle + 1
    BY <1>2, <2>1, AppendList, Zenon DEF nIdle, PoolInv, TypeOK
  <2>3. total' = total
    BY <2>1, Zenon
  <2> QED
    BY <1>4, <1>5, <2>2, <2>3, TermTypes, Sum DEF CountInv
<1> QED
  BY <1>6, <1>7, Zenon

\* Connections are lost one at a time, by waiters that leave.
LEMMA LostStaysFinite ==
    ASSUME LostFinite, [Next]_vars
    PROVE  LostFinite'
<1>1. ASSUME NEW k \in Clients, Leave(k) PROVE LostFinite'
  <2>1. lost' = lost \/ lost' = lost \cup {chan[k]}
    BY <1>1, Zenon DEF Leave
  <2> QED
    BY <2>1, FS_AddElement, Zenon DEF LostFinite
<1>2. ASSUME NEW k \in Clients, Acquire(k), ~Leave(k) PROVE lost' = lost
  BY <1>2, Zenon DEF Acquire, AcquireIdle, AcquireNew, DialFails, DialSucceeds, Receive, Register, GiveUp
<1>3. ASSUME NEW k \in Clients, Release(k) \/ Discard(k) \/ ReturnUnknown(k) PROVE lost' = lost
  BY <1>3, Zenon DEF Release, Discard, ReturnUnknown
<1>4. ASSUME NEW g \in Keepers, Keep(g) PROVE lost' = lost
  BY <1>4, Zenon DEF Keep, CountIdle, CheckRoom, KeeperDialFails, KeeperDialSucceeds, AppendIdle
<1>5. ASSUME Close \/ CleanupIdle \/ (\E c \in Conns : Expire(c)) \/ UNCHANGED vars PROVE lost' = lost
  BY <1>5, Zenon DEF Close, CleanupIdle, Expire, vars
<1>6. lost' = lost => LostFinite'
  BY DEF LostFinite
<1> QED
  BY <1>1, <1>2, <1>3, <1>4, <1>5, <1>6, Zenon DEF Next

\* Every step changes totalConns by what it adds and takes away.
LEMMA CountStep ==
    ASSUME PoolInv, CountInv, [Next]_vars
    PROVE  CountInv'
<1>1. ASSUME NEW k \in Clients, Acquire(k) PROVE TotalCounts'
  BY <1>1, AcquireIdleCounts, AcquireNewCounts, DialFailsCounts, DialSucceedsCounts, ReceiveCounts,
     RegisterCounts, GiveUpCounts, LeaveCounts, Zenon DEF Acquire
<1>2. ASSUME NEW k \in Clients, Release(k) \/ Discard(k) \/ ReturnUnknown(k) PROVE TotalCounts'
  BY <1>2, ReleaseCounts, DiscardCounts, ReturnUnknownCounts, Zenon
<1>3. ASSUME NEW g \in Keepers, Keep(g) PROVE TotalCounts'
  BY <1>3, KeeperMovesCounts, KeeperDialSucceedsCounts, AppendIdleCounts, Zenon DEF Keep
<1>4. ASSUME UNCHANGED <<idle, inUse, chan, client, keeper, lost, total>> PROVE TotalCounts'
  BY <1>4, SameTerms, Sum, Zenon DEF CountInv
<1>5. ASSUME NEW c \in Conns, Expire(c) PROVE TotalCounts'
  BY <1>4, <1>5, Zenon DEF Expire
<1>6. ASSUME UNCHANGED vars PROVE TotalCounts'
  <2>1. UNCHANGED <<idle, inUse, chan, client, keeper, lost, total>>
    BY <1>6, Zenon DEF vars
  <2> QED
    BY <1>4, <2>1, Zenon
<1>7. ASSUME CleanupIdle PROVE TotalCounts'
  BY <1>7, CleanupIdleCounts, Zenon
<1>8. ASSUME Close PROVE TotalCounts'
  BY <1>8, CloseCounts, Zenon
<1>9. TotalCounts'
  BY <1>1, <1>2, <1>3, <1>5, <1>6, <1>7, <1>8, Zenon DEF Next
<1> QED
  BY <1>9, LostStaysFinite, Zenon DEF CountInv

\* totalConns counts the connections there are and the dials of Acquire, before
\* and after Close, whatever is lost (pool.go:182, 514).
THEOREM TotalCountsAlways == Spec => []TotalCounts
<1>1. Init => CountInv
  <2> SUFFICES ASSUME Init PROVE CountInv
    BY Zenon
  <2>1. LostFinite /\ nLost = 0 /\ nUsed = 0 /\ nIdle = 0 /\ total = 0
    BY FS_EmptySet, EmptyList, Zenon DEF Init, LostFinite, nLost, nUsed, nIdle
  <2>2. Handed = {} /\ Held("got") = {} /\ Appending = {} /\ Dialing = {}
    BY PoolAssumption, Zenon DEF Init, Handed, Held, Appending, Dialing
  <2>3. nHanded = 0 /\ nGot = 0 /\ nAppending = 0 /\ nDialing = 0
    BY <2>2, FS_EmptySet, Zenon DEF nHanded, nGot, nAppending, nDialing
  <2> QED
    BY <2>1, <2>3, Sum DEF CountInv
<1>2. PoolInv /\ CountInv /\ [Next]_vars => CountInv'
  BY CountStep, Zenon
<1>3. CountInv => TotalCounts
  BY Zenon DEF CountInv
<1> QED
  BY <1>1, <1>2, <1>3, PoolInvariant, PTL DEF Spec
=============================================================================
