--------------------------- MODULE RestServerProofs ---------------------------
(***************************************************************************)
(* For any connections, addresses and size of the pool: the counters and   *)
(* the registries of AbstractRestServer are exact, no event meets a socket *)
(* that is not its own, a connection is asked once, and an answer given to *)
(* a connected client is not lost.                                         *)
(***************************************************************************)
EXTENDS RestServer, FiniteSetTheorems, SequenceTheorems, WellFoundedInduction, TLAPS

-----------------------------------------------------------------------------
(* The inductive invariant.                                                *)

Events == [on : {"new", "readyRead", "disconnected", "answer", "stop"},
           addr : Addresses \cup {NoAddress}, conn : Conns \cup {NoConn}]

Entries(s) == {s[i] : i \in 1 .. Len(s)}

Queued(w) == Entries(queue[w])

IsSocketEvent(e) == e.on \in {"readyRead", "disconnected"}

(* The worker the destructor waits for has deleted a socket and waits for  *)
(* the lock the destructor holds: it handles no event any more.            *)
Stuck(w) == destroyer = "waiting" /\ stopping = w /\ uncounting[w] # NoConn

(* The event of a socket finds it alive, at its address and on its thread; *)
(* disconnected is the last it finds.                                      *)
SocketEventOK(w, e) ==
    /\ e.conn \in Conns
    /\ worker[e.conn] = w
    /\ \/ /\ Live(e.conn)
          /\ addr[e.conn] = e.addr
          /\ e.on = "readyRead" => e.conn \in reading
          /\ e.on = "disconnected" => state[e.conn] = "closed"
       \/ Stuck(w) /\ state[e.conn] = "deleted"

EventOK(w, e) ==
    /\ e.on = "new" => /\ e.conn \in Conns
                       /\ state[e.conn] = "accepted"
                       /\ worker[e.conn] = w
                       /\ server.conn # e.conn
    /\ IsSocketEvent(e) => SocketEventOK(w, e)
    /\ e.on = "answer" => e.conn \in Conns
    /\ e.on = "stop" => destroyer = "waiting" /\ stopping = w

(* What may come after what: one readyRead, then one disconnected.         *)
OrderOK(e, f) ==
    /\ IsSocketEvent(e) /\ IsSocketEvent(f) /\ e.conn = f.conn =>
          e.on = "readyRead" /\ f.on = "disconnected"
    /\ e.on = "new" /\ f.on = "new" => e.conn # f.conn

QueueInv == \A w \in Workers : \A e \in Queued(w) : EventOK(w, e)

Ordered(s) == \A i, j \in 1 .. Len(s) : i < j => OrderOK(s[i], s[j])

OrderInv == \A w \in Workers : Ordered(queue[w])

(* Where incomingConnection(), deleteSocket() and the destructor are.      *)
PoolInv ==
    /\ \A c \in Conns : worker[c] \in 0 .. threads
    /\ server.at = "idle" => server.conn = NoConn
    /\ server.at # "idle" => server.conn \in Conns /\ state[server.conn] = "accepted"
    /\ server.at = "create" => worker[server.conn] = 0 /\ threads + 1 \in Workers
    /\ server.at = "post" => worker[server.conn] # 0
    /\ \A w \in Workers : uncounting[w] # NoConn =>
          state[uncounting[w]] = "deleted" /\ worker[uncounting[w]] = w
    /\ destroyer = "waiting" => stopping <= threads

(* What a connection is, before it has a socket and while it has one.      *)
ConnInv ==
    \A c \in Conns :
        /\ state[c] = "away" => worker[c] = 0
        /\ state[c] \in {"away", "accepted"} =>
              asked[c] = 0 /\ c \notin owed /\ found[c] = 0 /\ c \notin reading
        /\ Live(c) => worker[c] # 0 /\ addr[c] \in Addresses
        /\ Live(c) /\ found[c] # 0 => found[c] = worker[c]
        /\ c \in reading => asked[c] = 0
        /\ asked[c] \in {0, 1}

(* Two sockets that live at the same time are at two addresses.            *)
AddressesDiffer ==
    \A c, d \in Conns : Live(c) /\ Live(d) /\ addr[c] = addr[d] => c = d

(* AnswersAreNotLost, with the events as a set.                            *)
AnswersKept ==
    \A c \in Conns :
        state[c] = "open" /\ asked[c] = 1 =>
            \/ c \in owed \/ found[c] # 0 \/ c \in got[c]
            \/ Event("answer", addr[c], c) \in Queued(worker[c])

Counts == \A w \in Workers : socketCount[w] = Cardinality(Counted(w))

IInv == /\ TypeOK /\ Counts /\ QueueInv /\ OrderInv /\ PoolInv /\ ConnInv
        /\ AddressesDiffer /\ RegistriesAgree /\ AnswersKept

-----------------------------------------------------------------------------
(* What the operations on a queue do to its events.                        *)

(* Posting an event adds it behind the others.                             *)
LEMMA PostedEvent ==
    ASSUME NEW s \in Seq(Events), NEW e \in Events, Ordered(s),
           \A f \in Entries(s) : OrderOK(f, e)
    PROVE  /\ Append(s, e) \in Seq(Events)
           /\ Entries(Append(s, e)) = Entries(s) \cup {e}
           /\ Ordered(Append(s, e))
<1> DEFINE t == Append(s, e)
<1>1. /\ t \in Seq(Events)
      /\ Len(t) = Len(s) + 1
      /\ \A j \in 1 .. Len(s) : t[j] = s[j]
      /\ t[Len(s) + 1] = e
  BY AppendProperties
<1>2. Len(s) \in Nat
  BY LenProperties
<1> HIDE DEF t
<1>3. \A j \in 1 .. Len(t) : j \in 1 .. Len(s) \/ j = Len(s) + 1
  BY <1>1, <1>2
<1>4. \A j \in 1 .. Len(s) : j \in 1 .. Len(t)
  BY <1>1, <1>2
<1>5. Len(s) + 1 \in 1 .. Len(t)
  BY <1>1, <1>2
<1>6. Entries(t) = Entries(s) \cup {e}
  BY <1>1, <1>3, <1>4, <1>5 DEF Entries
<1>7. ASSUME NEW i \in 1 .. Len(t), NEW j \in 1 .. Len(t), i < j
      PROVE  OrderOK(t[i], t[j])
  <2>1. i \in 1 .. Len(s)
    BY <1>1, <1>2, <1>7
  <2>2. t[i] \in Entries(s) /\ t[i] = s[i]
    BY <1>1, <2>1 DEF Entries
  <2>3. CASE j \in 1 .. Len(s)
    BY <1>1, <1>7, <2>1, <2>2, <2>3 DEF Ordered
  <2>4. CASE j = Len(s) + 1
    BY <1>1, <2>2, <2>4
  <2> QED BY <1>3, <2>3, <2>4
<1>8. Ordered(t)
  BY <1>7 DEF Ordered
<1> QED BY <1>1, <1>6, <1>8 DEF t

(* Taking the first event leaves what may come after it.                   *)
LEMMA TakenEvent ==
    ASSUME NEW s \in Seq(Events), s # <<>>, Ordered(s)
    PROVE  /\ Head(s) \in Events
           /\ Tail(s) \in Seq(Events)
           /\ Entries(s) = Entries(Tail(s)) \cup {Head(s)}
           /\ Ordered(Tail(s))
           /\ \A f \in Entries(Tail(s)) : OrderOK(Head(s), f)
<1> DEFINE t == Tail(s)
<1>1. /\ Head(s) \in Events
      /\ t \in Seq(Events)
      /\ Len(t) = Len(s) - 1
      /\ \A j \in 1 .. Len(t) : t[j] = s[j + 1]
  BY HeadTailProperties
<1>2. Len(s) \in Nat /\ Len(s) > 0 /\ Head(s) = s[1]
  BY LenProperties, EmptySeq
<1> HIDE DEF t
<1>3. \A j \in 1 .. Len(s) : j = 1 \/ j - 1 \in 1 .. Len(t)
  BY <1>1, <1>2
<1>4. \A j \in 1 .. Len(t) : j + 1 \in 1 .. Len(s) /\ 1 < j + 1
  BY <1>1, <1>2
<1>5. 1 \in 1 .. Len(s)
  BY <1>2
<1>6. Entries(s) = Entries(t) \cup {Head(s)}
  <2>1. ASSUME NEW e \in Entries(s) PROVE e \in Entries(t) \cup {Head(s)}
    <3>1. PICK j \in 1 .. Len(s) : e = s[j]
      BY DEF Entries
    <3>2. CASE j = 1
      BY <1>2, <3>1, <3>2
    <3>3. CASE j - 1 \in 1 .. Len(t)
      <4>1. t[j - 1] = s[(j - 1) + 1] /\ (j - 1) + 1 = j
        BY <1>1, <3>3
      <4> QED BY <3>1, <3>3, <4>1 DEF Entries
    <3> QED BY <1>3, <3>2, <3>3
  <2>2. \A e \in Entries(t) : e \in Entries(s)
    BY <1>1, <1>4 DEF Entries
  <2>3. Head(s) \in Entries(s)
    BY <1>2, <1>5 DEF Entries
  <2> QED BY <2>1, <2>2, <2>3
<1>7. \A f \in Entries(t) : OrderOK(Head(s), f)
  BY <1>1, <1>2, <1>4, <1>5 DEF Entries, Ordered
<1>8. Ordered(t)
  BY <1>1, <1>4 DEF Ordered
<1> QED BY <1>1, <1>6, <1>7, <1>8 DEF t

(* A cleared queue holds nothing.                                          *)
LEMMA NoEvents == <<>> \in Seq(Events) /\ Entries(<<>>) = {} /\ Ordered(<<>>)
  BY EmptySeq DEF Entries, Ordered

-----------------------------------------------------------------------------
(* What a step does to the queues.                                         *)

(* The queue of one worker becomes r.                                      *)
LEMMA QueueBecomes ==
    ASSUME TypeOK, OrderInv, NEW w \in Workers, NEW r \in Seq(Events), Ordered(r),
           queue' = [queue EXCEPT ![w] = r]
    PROVE  /\ queue' \in [Workers -> Seq(Events)]
           /\ OrderInv'
           /\ \A v \in Workers : Queued(v)' = IF v = w THEN Entries(r) ELSE Queued(v)
<1>1. queue \in [Workers -> Seq(Events)]
  BY DEF TypeOK, Events
<1>2. queue' \in [Workers -> Seq(Events)]
  BY <1>1
<1>3. \A v \in Workers : queue'[v] = IF v = w THEN r ELSE queue[v]
  BY <1>1
<1>4. OrderInv'
  BY <1>3 DEF OrderInv
<1>5. \A v \in Workers : Queued(v)' = IF v = w THEN Entries(r) ELSE Queued(v)
  BY <1>3 DEF Queued
<1> QED BY <1>2, <1>4, <1>5

(* An event is posted to a worker.                                         *)
LEMMA EventPosted ==
    ASSUME TypeOK, OrderInv, NEW w \in Workers, NEW e \in Events,
           \A f \in Queued(w) : OrderOK(f, e),
           queue' = [queue EXCEPT ![w] = Append(@, e)]
    PROVE  /\ queue' \in [Workers -> Seq(Events)]
           /\ OrderInv'
           /\ \A v \in Workers :
                 Queued(v)' = IF v = w THEN Queued(v) \cup {e} ELSE Queued(v)
<1>1. queue[w] \in Seq(Events) /\ Ordered(queue[w])
  BY DEF TypeOK, Events, OrderInv
<1>2. /\ Append(queue[w], e) \in Seq(Events)
      /\ Entries(Append(queue[w], e)) = Queued(w) \cup {e}
      /\ Ordered(Append(queue[w], e))
  BY <1>1, PostedEvent DEF Queued
<1>3. queue' = [queue EXCEPT ![w] = Append(queue[w], e)]
  BY DEF TypeOK
<1> HIDE DEF Queued
<1> QED BY <1>2, <1>3, QueueBecomes

(* A worker handles its next event.                                        *)
LEMMA EventHandled ==
    ASSUME TypeOK, OrderInv, NEW w \in Workers, NEW on, Handles(w, on)
    PROVE  /\ Head(queue[w]) \in Events /\ Head(queue[w]).on = on
           /\ Head(queue[w]) \in Queued(w)
           /\ Rest(w) \in Seq(Events) /\ Ordered(Rest(w))
           /\ Queued(w) = Entries(Rest(w)) \cup {Head(queue[w])}
           /\ \A f \in Entries(Rest(w)) : OrderOK(Head(queue[w]), f)
<1>1. queue[w] \in Seq(Events) /\ Ordered(queue[w])
  BY DEF TypeOK, Events, OrderInv
<1>2. queue[w] # <<>> /\ Head(queue[w]).on = on
  BY DEF Handles
<1> QED BY <1>1, <1>2, TakenEvent DEF Queued, Rest

-----------------------------------------------------------------------------
(* What a step does to the counters.                                       *)

(* Workers are numbered in the order of their creation.                    *)
LEMMA WorkersAreNumbered ==
    /\ Cardinality(Workers) \in Nat
    /\ Cardinality(Workers) >= 1 /\ Cardinality(Workers) >= MaxThreads
    /\ Workers = 1 .. Cardinality(Workers)
<1> DEFINE n == IF MaxThreads = 0 THEN 1 ELSE MaxThreads
<1>1. n \in Nat /\ n >= 1 /\ n >= MaxThreads
  BY ThreadsAssumption
<1> HIDE DEF n
<1>2. Cardinality(1 .. n) = n
  BY <1>1, FS_Interval
<1>3. Workers = 1 .. n
  BY DEF Workers, n
<1> QED BY <1>1, <1>2, <1>3

LEMMA CountedFinite ==
    \A w \in Workers : /\ IsFiniteSet(Counted(w))
                       /\ Cardinality(Counted(w)) \in 0 .. Cardinality(Conns)
<1> TAKE w \in Workers
<1>1. Counted(w) \subseteq Conns
  BY DEF Counted
<1>2. IsFiniteSet(Counted(w)) /\ Cardinality(Counted(w)) <= Cardinality(Conns)
  BY <1>1, ConnsAssumption, FS_Subset
<1> QED BY <1>2, ConnsAssumption, FS_CardinalityType

(* The same after a step, for the sets it leaves behind.                   *)
LEMMA CountedFiniteNext ==
    \A w \in Workers : /\ IsFiniteSet(Counted(w)')
                       /\ Cardinality(Counted(w)') \in 0 .. Cardinality(Conns)
<1> TAKE w \in Workers
<1>1. Counted(w)' \subseteq Conns
  BY DEF Counted
<1>2. IsFiniteSet(Counted(w)') /\ Cardinality(Counted(w)') <= Cardinality(Conns)
  BY <1>1, ConnsAssumption, FS_Subset
<1> QED BY <1>2, ConnsAssumption, FS_CardinalityType

(* A step that gives no connection to a worker and takes none from it      *)
(* leaves the counters alone.                                              *)
LEMMA SameCounted ==
    ASSUME Counts, UNCHANGED socketCount,
           \A c \in Conns : \A w \in Workers : c \in Counted(w)' <=> c \in Counted(w)
    PROVE  Counts'
<1>1. \A w \in Workers : Counted(w)' = Counted(w)
  <2> TAKE w \in Workers
  <2>1. Counted(w) \subseteq Conns /\ Counted(w)' \subseteq Conns
    BY DEF Counted
  <2> QED BY <2>1
<1> QED BY <1>1 DEF Counts

(* A connection that is given to a worker is counted.                      *)
LEMMA NewCounted ==
    ASSUME TypeOK, Counts, NEW c \in Conns, NEW w \in Workers, c \notin Counted(w),
           socketCount' = [socketCount EXCEPT ![w] = @ + 1],
           \A v \in Workers : Counted(v)' = IF v = w THEN Counted(v) \cup {c} ELSE Counted(v)
    PROVE  Counts' /\ socketCount' \in [Workers -> 0 .. Cardinality(Conns)]
<1>1. Cardinality(Counted(w)') = Cardinality(Counted(w)) + 1
  BY CountedFinite, FS_AddElement
<1>2. ASSUME NEW v \in Workers
      PROVE  socketCount'[v] = Cardinality(Counted(v)')
  BY <1>1, <1>2 DEF TypeOK, Counts
<1>3. socketCount' \in [Workers -> 0 .. Cardinality(Conns)]
  <2>1. ASSUME NEW v \in Workers PROVE socketCount'[v] \in 0 .. Cardinality(Conns)
    BY <1>2, CountedFiniteNext
  <2>2. DOMAIN socketCount' = Workers /\ socketCount' = [v \in Workers |-> socketCount'[v]]
    BY DEF TypeOK
  <2> QED BY <2>1, <2>2
<1> QED BY <1>2, <1>3 DEF Counts

(* A connection that is uncounted was counted.                             *)
LEMMA OldCounted ==
    ASSUME TypeOK, Counts, NEW c \in Conns, NEW w \in Workers, c \in Counted(w),
           socketCount' = [socketCount EXCEPT ![w] = @ - 1],
           \A v \in Workers : Counted(v)' = IF v = w THEN Counted(v) \ {c} ELSE Counted(v)
    PROVE  Counts' /\ socketCount' \in [Workers -> 0 .. Cardinality(Conns)]
<1>1. Cardinality(Counted(w)') = Cardinality(Counted(w)) - 1
  BY CountedFinite, FS_RemoveElement
<1>2. ASSUME NEW v \in Workers
      PROVE  socketCount'[v] = Cardinality(Counted(v)')
  BY <1>1, <1>2 DEF TypeOK, Counts
<1>3. socketCount' \in [Workers -> 0 .. Cardinality(Conns)]
  <2>1. ASSUME NEW v \in Workers PROVE socketCount'[v] \in 0 .. Cardinality(Conns)
    BY <1>2, CountedFiniteNext
  <2>2. DOMAIN socketCount' = Workers /\ socketCount' = [v \in Workers |-> socketCount'[v]]
    BY DEF TypeOK
  <2> QED BY <2>1, <2>2
<1> QED BY <1>2, <1>3 DEF Counts

-----------------------------------------------------------------------------
(* A pool that has its full size has a worker to choose: min_element finds *)
(* the fewest sockets, and the first worker that has so few.               *)
LEMMA SmallestIn ==
    ASSUME NEW S, S \subseteq Nat, S # {}
    PROVE  \E m \in S : \A n \in S : m <= n
<1>1. IsWellFoundedOn(OpToRel(<, Nat), Nat)
  BY NatLessThanWellFounded
<1>2. PICK m \in S : \A n \in S : ~ (<<n, m>> \in OpToRel(<, Nat))
  BY <1>1, WFMin
<1>3. \A n \in S : ~ (n < m)
  BY <1>2 DEF OpToRel
<1> QED BY <1>3

LEMMA PoolGrows ==
    ASSUME TypeOK, \A w \in Workers : ~ Chosen(w)
    PROVE  threads + 1 \in Workers
<1> DEFINE pool == 1 .. threads
           fewest == {socketCount[v] : v \in pool}
<1>1. threads \in 0 .. Cardinality(Workers)
  BY DEF TypeOK
<1>2. CASE threads < Cardinality(Workers)
  BY <1>1, <1>2, WorkersAreNumbered
<1>3. CASE threads = Cardinality(Workers)
  <2>1. pool = Workers /\ 1 \in pool /\ threads >= MaxThreads
    BY <1>3, WorkersAreNumbered
  <2>2. \A v \in pool : socketCount[v] \in Nat
    BY <2>1 DEF TypeOK
  <2>3. PICK m \in fewest : \A n \in fewest : m <= n
    <3>1. fewest \subseteq Nat /\ fewest # {}
      BY <2>1, <2>2
    <3> QED BY <3>1, SmallestIn
  <2> DEFINE first == {v \in pool : socketCount[v] = m}
  <2>4. PICK w \in first : \A v \in first : w <= v
    <3>1. first \subseteq Nat /\ first # {}
      BY <1>1, <2>1, <2>3
    <3> QED BY <3>1, SmallestIn
  <2>5. w \in pool /\ socketCount[w] = m
    BY <2>4
  <2>6. \A v \in pool : socketCount[v] >= socketCount[w]
    BY <2>2, <2>3, <2>5
  <2>7. ASSUME NEW v \in 1 .. w - 1
        PROVE  socketCount[v] > socketCount[w]
    <3>1. v \in pool /\ ~ (w <= v)
      BY <1>1, <2>5
    <3>2. socketCount[v] # m
      BY <2>4, <3>1
    <3> QED BY <2>2, <2>5, <2>6, <3>1, <3>2
  <2>8. Chosen(w)
    BY <2>1, <2>5, <2>6, <2>7 DEF Chosen
  <2> QED BY <2>1, <2>5, <2>8
<1> QED BY <1>1, <1>2, <1>3, WorkersAreNumbered

-----------------------------------------------------------------------------
(* IInv is inductive: one lemma for each action.                           *)

(* A step that leaves the sockets alone leaves the registries right.       *)
LEMMA SameSockets ==
    ASSUME RegistriesAgree, AddressesDiffer, UNCHANGED <<sockets, own, addr>>,
           \A c \in Conns : (Live(c)' <=> Live(c)) /\ (Live(c) => worker'[c] = worker[c])
    PROVE  RegistriesAgree' /\ AddressesDiffer'
<1>1. RegistriesAgree'
  BY DEF RegistriesAgree
<1>2. AddressesDiffer'
  BY DEF AddressesDiffer
<1> QED BY <1>1, <1>2

(* IInv holds initially: there is no connection, no event and no worker.   *)
LEMMA InitIInv == Init => IInv
<1> SUFFICES ASSUME Init PROVE IInv
  OBVIOUS
<1>1. \A w \in Workers : queue[w] = <<>>
  BY DEF Init
<1>2. \A c \in Conns : ~ Live(c) /\ worker[c] = 0 /\ state[c] = "away"
  BY DEF Init, Live
<1>3. TypeOK
  <2>1. threads \in 0 .. Cardinality(Workers) /\ stopping \in 1 .. Cardinality(Workers) + 1
    BY WorkersAreNumbered DEF Init
  <2>2. socketCount \in [Workers -> 0 .. Cardinality(Conns)]
    BY ConnsAssumption, FS_CardinalityType DEF Init
  <2>3. queue \in [Workers -> Seq(Events)]
    BY NoEvents DEF Init
  <2> QED BY <2>1, <2>2, <2>3 DEF Init, TypeOK, Events
<1>4. Counts
  <2>1. \A w \in Workers : Counted(w) = {}
    BY <1>2, WorkersAreNumbered, ConnsAssumption DEF Init, Counted
  <2> QED BY <2>1, FS_EmptySet DEF Init, Counts
<1>5. QueueInv /\ OrderInv
  BY <1>1, NoEvents DEF QueueInv, OrderInv, Queued
<1>6. PoolInv
  BY ConnsAssumption DEF Init, PoolInv
<1>7. ConnInv
  BY <1>2 DEF Init, ConnInv
<1>8. AddressesDiffer /\ RegistriesAgree
  BY <1>2 DEF Init, AddressesDiffer, RegistriesAgree
<1>9. AnswersKept
  BY <1>2 DEF AnswersKept
<1> QED BY <1>3, <1>4, <1>5, <1>6, <1>7, <1>8, <1>9 DEF IInv

(* A new connection is given to a worker of the pool, or the pool grows.   *)
LEMMA AcceptIInv == ASSUME IInv, NEW c \in Conns, Accept(c) PROVE IInv'
<1> USE DEF IInv
<1>1. /\ worker[c] = 0 /\ state[c] = "away"
      /\ state' = [state EXCEPT ![c] = "accepted"]
      /\ c # NoConn
      /\ server.conn = NoConn
  BY ConnsAssumption DEF Accept, ConnInv, PoolInv
<1>2. \/ /\ server' = [at |-> "post", conn |-> c]
         /\ \E w \in Workers : /\ w \in 1 .. threads
                               /\ socketCount' = [socketCount EXCEPT ![w] = @ + 1]
                               /\ worker' = [worker EXCEPT ![c] = w]
      \/ /\ server' = [at |-> "create", conn |-> c]
         /\ threads + 1 \in Workers
         /\ UNCHANGED <<socketCount, worker>>
  BY PoolGrows DEF Accept, Chosen
<1>3. UNCHANGED <<threads, sockets, own, uncounting, addr, queue, reading, answerVars,
                  destroyer, stopping>>
  BY DEF Accept
<1>4. \A d \in Conns : /\ Live(d)' <=> Live(d)
                       /\ Live(d) => worker'[d] = worker[d]
                       /\ d # c => state'[d] = state[d] /\ worker'[d] = worker[d]
  BY <1>1, <1>2 DEF TypeOK, Live
<1>5. Counts' /\ socketCount' \in [Workers -> 0 .. Cardinality(Conns)]
  <2>1. CASE UNCHANGED <<socketCount, worker>>
    <3>1. \A d \in Conns : \A v \in Workers : d \in Counted(v)' <=> d \in Counted(v)
      BY <1>1, <1>3, <2>1 DEF TypeOK, Counted
    <3>2. Counts'
      BY <2>1, <3>1, SameCounted
    <3> QED BY <2>1, <3>2 DEF TypeOK
  <2>2. CASE \E w \in Workers : /\ socketCount' = [socketCount EXCEPT ![w] = @ + 1]
                                /\ worker' = [worker EXCEPT ![c] = w]
    <3>1. PICK w \in Workers : /\ socketCount' = [socketCount EXCEPT ![w] = @ + 1]
                               /\ worker' = [worker EXCEPT ![c] = w]
      BY <2>2
    <3>2. \A v \in Workers : c \notin Counted(v)
      BY <1>1, WorkersAreNumbered DEF Counted
    <3>3. \A v \in Workers : Counted(v)' = IF v = w THEN Counted(v) \cup {c} ELSE Counted(v)
      BY <1>1, <1>3, <3>1, <3>2 DEF TypeOK, Counted
    <3> QED BY <3>1, <3>2, <3>3, NewCounted
  <2> QED BY <1>2, <2>1, <2>2
<1>6. TypeOK'
  <2>1. server' \in [at : {"idle", "create", "post"}, conn : Conns \cup {NoConn}]
    BY <1>2
  <2>2. worker' \in [Conns -> Workers \cup {0}]
    BY <1>2 DEF TypeOK
  <2>3. state' \in [Conns -> {"away", "accepted", "open", "closed", "deleted"}]
    BY <1>1 DEF TypeOK
  <2> QED BY <1>3, <1>5, <2>1, <2>2, <2>3 DEF TypeOK, answerVars
<1>7. QueueInv' /\ OrderInv'
  <2>1. ASSUME NEW v \in Workers, NEW f \in Queued(v)' PROVE EventOK(v, f)'
    <3>1. EventOK(v, f)
      BY <1>3 DEF QueueInv, Queued
    <3> QED BY <1>1, <1>2, <1>3, <1>4, <3>1
        DEF EventOK, SocketEventOK, Stuck, Live, TypeOK
  <2>2. OrderInv'
    BY <1>3 DEF OrderInv
  <2> QED BY <2>1, <2>2 DEF QueueInv
<1>8. PoolInv'
  <2>1. \A d \in Conns : worker'[d] \in 0 .. threads'
    <3>1. \A d \in Conns : worker[d] \in 0 .. threads
      BY DEF PoolInv
    <3>2. \A d \in Conns : worker'[d] = worker[d] \/ worker'[d] \in 1 .. threads
      BY <1>2 DEF TypeOK
    <3> QED BY <1>3, <3>1, <3>2
  <2>2. \A v \in Workers : uncounting'[v] # NoConn =>
           state'[uncounting'[v]] = "deleted" /\ worker'[uncounting'[v]] = v
    BY <1>1, <1>3, <1>4 DEF PoolInv, TypeOK
  <2>3. server'.conn = c /\ server'.at \in {"post", "create"} /\ state'[c] = "accepted"
    BY <1>1, <1>2 DEF TypeOK
  <2>4. /\ server'.at = "create" => worker'[c] = 0 /\ threads' + 1 \in Workers
        /\ server'.at = "post" => worker'[c] # 0
    BY <1>1, <1>2, <1>3 DEF TypeOK
  <2> QED BY <1>3, <2>1, <2>2, <2>3, <2>4 DEF PoolInv
<1>9. ConnInv'
  BY <1>1, <1>3, <1>4 DEF ConnInv, TypeOK, Live, answerVars
<1>10. RegistriesAgree' /\ AddressesDiffer'
  BY <1>3, <1>4, SameSockets
<1>11. AnswersKept'
  <2>1. \A v \in Workers : Queued(v)' = Queued(v)
    BY <1>3 DEF Queued
  <2> QED BY <1>1, <1>3, <1>4, <2>1 DEF AnswersKept, TypeOK, ConnInv, Live, answerVars
<1> QED BY <1>5, <1>6, <1>7, <1>8, <1>9, <1>10, <1>11

(* The new worker has one connection, the one it is created for.           *)
LEMMA AppendWorkerIInv == IInv /\ AppendWorker => IInv'
<1> SUFFICES ASSUME IInv, AppendWorker PROVE IInv'
  OBVIOUS
<1> USE DEF IInv
<1> DEFINE c == server.conn
           w == threads + 1
<1>1. /\ c \in Conns /\ state[c] = "accepted" /\ worker[c] = 0
      /\ w \in Workers
      /\ threads' = w
      /\ socketCount' = [socketCount EXCEPT ![w] = 1]
      /\ worker' = [worker EXCEPT ![c] = w]
      /\ server' = [server EXCEPT !.at = "post"]
  BY DEF AppendWorker, PoolInv
<1>2. UNCHANGED <<sockets, own, uncounting, state, addr, queue, reading, answerVars,
                  destroyer, stopping>>
  BY DEF AppendWorker
<1>3. /\ server'.conn = c /\ server'.at = "post"
      /\ server' \in [at : {"idle", "create", "post"}, conn : Conns \cup {NoConn}]
  BY <1>1 DEF TypeOK
<1>4. \A d \in Conns : /\ Live(d)' <=> Live(d)
                       /\ Live(d) => worker'[d] = worker[d]
                       /\ d # c => worker'[d] = worker[d]
  BY <1>1, <1>2 DEF TypeOK, Live
<1>5. Counts' /\ socketCount' \in [Workers -> 0 .. Cardinality(Conns)]
  <2>1. Counted(w) = {}
    BY <1>1, ConnsAssumption DEF Counted, PoolInv, TypeOK
  <2>2. socketCount[w] = 0
    BY <1>1, <2>1, FS_EmptySet DEF Counts
  <2>3. socketCount' = [socketCount EXCEPT ![w] = @ + 1]
    BY <1>1, <2>2 DEF TypeOK
  <2>4. \A v \in Workers : Counted(v)' = IF v = w THEN Counted(v) \cup {c} ELSE Counted(v)
    BY <1>1, <1>2, <2>1, WorkersAreNumbered DEF TypeOK, Counted
  <2> HIDE DEF c, w
  <2> QED BY <1>1, <2>1, <2>3, <2>4, NewCounted
<1>6. TypeOK'
  <2>1. threads' \in 0 .. Cardinality(Workers)
    BY <1>1, WorkersAreNumbered
  <2>2. worker' \in [Conns -> Workers \cup {0}]
    BY <1>1 DEF TypeOK
  <2> QED BY <1>2, <1>3, <1>5, <2>1, <2>2 DEF TypeOK, answerVars
<1>7. QueueInv' /\ OrderInv'
  <2>1. ASSUME NEW v \in Workers, NEW f \in Queued(v)' PROVE EventOK(v, f)'
    <3>1. EventOK(v, f)
      BY <1>2 DEF QueueInv, Queued
    <3> QED BY <1>1, <1>2, <1>3, <1>4, <3>1
        DEF EventOK, SocketEventOK, Stuck, Live, TypeOK
  <2>2. OrderInv'
    BY <1>2 DEF OrderInv
  <2> QED BY <2>1, <2>2 DEF QueueInv
<1>8. PoolInv'
  <2>1. \A d \in Conns : worker'[d] \in 0 .. threads'
    BY <1>1, WorkersAreNumbered DEF PoolInv, TypeOK
  <2>2. \A v \in Workers : uncounting'[v] # NoConn =>
           state'[uncounting'[v]] = "deleted" /\ worker'[uncounting'[v]] = v
    BY <1>1, <1>2 DEF PoolInv, TypeOK
  <2>3. server'.conn \in Conns /\ state'[server'.conn] = "accepted" /\ worker'[server'.conn] # 0
    BY <1>1, <1>2, <1>3, WorkersAreNumbered DEF TypeOK
  <2>4. destroyer' = "waiting" => stopping' <= threads'
    BY <1>1, <1>2, WorkersAreNumbered DEF PoolInv, TypeOK
  <2> QED BY <1>3, <2>1, <2>2, <2>3, <2>4 DEF PoolInv
<1>9. ConnInv'
  BY <1>1, <1>2, <1>4 DEF ConnInv, TypeOK, Live, answerVars
<1>10. RegistriesAgree' /\ AddressesDiffer'
  BY <1>2, <1>4, SameSockets
<1>11. AnswersKept'
  <2>1. \A v \in Workers : Queued(v)' = Queued(v)
    BY <1>2 DEF Queued
  <2> QED BY <1>1, <1>2, <1>4, <2>1 DEF AnswersKept, TypeOK, ConnInv, Live, answerVars
<1> QED BY <1>5, <1>6, <1>7, <1>8, <1>9, <1>10, <1>11


(* The connection is posted to its worker: it was not posted before.       *)
LEMMA PostConnectionIInv == IInv /\ PostConnection => IInv'
<1> SUFFICES ASSUME IInv, PostConnection PROVE IInv'
  OBVIOUS
<1> USE DEF IInv
<1> DEFINE c == server.conn
           w == worker[c]
           e == Event("new", NoAddress, c)
<1>1. /\ c \in Conns /\ c # NoConn /\ state[c] = "accepted" /\ w \in Workers
      /\ queue' = [queue EXCEPT ![w] = Append(@, e)]
      /\ server' = [at |-> "idle", conn |-> NoConn]
      /\ UNCHANGED <<threads, socketCount, socketVars, reading, answerVars, destroyer, stopping>>
  BY ConnsAssumption DEF PostConnection, PoolInv, TypeOK
<1>2. e \in Events /\ e.on = "new" /\ e.conn = c
  BY <1>1 DEF Event, Events
<1>3. \A v \in Workers : \A f \in Queued(v) : EventOK(v, f)
  BY DEF QueueInv
<1>4. \A f \in Queued(w) : OrderOK(f, e)
  BY <1>1, <1>2, <1>3 DEF EventOK, OrderOK, IsSocketEvent
<1> HIDE DEF w, e
<1>5. /\ queue' \in [Workers -> Seq(Events)]
      /\ OrderInv'
      /\ \A v \in Workers : Queued(v)' = IF v = w THEN Queued(v) \cup {e} ELSE Queued(v)
  BY <1>1, <1>2, <1>4, EventPosted
<1>6. TypeOK'
  BY <1>1, <1>5 DEF TypeOK, Events, socketVars, answerVars
<1>7. Counts'
  <2>1. \A d \in Conns : \A v \in Workers : d \in Counted(v)' <=> d \in Counted(v)
    BY <1>1 DEF Counted, socketVars
  <2> QED BY <1>1, <2>1, SameCounted
<1>8. QueueInv'
  <2>1. ASSUME NEW v \in Workers, NEW f \in Queued(v)' PROVE EventOK(v, f)'
    <3>1. CASE f \in Queued(v)
      <4>1. EventOK(v, f)
        BY <1>3, <3>1
      <4> QED BY <1>1, <4>1, ConnsAssumption
          DEF EventOK, SocketEventOK, Stuck, Live, socketVars
    <3>2. CASE v = w /\ f = e
      BY <1>1, <1>2, <3>2 DEF EventOK, IsSocketEvent, w, socketVars
    <3> QED BY <1>5, <3>1, <3>2
  <2> QED BY <2>1 DEF QueueInv
<1>9. PoolInv'
  BY <1>1 DEF PoolInv, socketVars
<1>10. ConnInv'
  BY <1>1 DEF ConnInv, Live, socketVars, answerVars
<1>11. RegistriesAgree' /\ AddressesDiffer'
  <2>1. \A d \in Conns : (Live(d)' <=> Live(d)) /\ worker'[d] = worker[d]
    BY <1>1 DEF Live, socketVars
  <2> QED BY <1>1, <2>1, SameSockets DEF socketVars
<1>12. AnswersKept'
  <2>1. \A v \in Workers : Queued(v) \subseteq Queued(v)'
    BY <1>5
  <2>2. \A d \in Conns : state[d] = "open" => worker[d] \in Workers
    BY DEF ConnInv, Live, TypeOK
  <2> QED BY <1>1, <2>1, <2>2 DEF AnswersKept, socketVars, answerVars
<1> QED BY <1>5, <1>6, <1>7, <1>8, <1>9, <1>10, <1>11, <1>12


(* readyRead is posted for an open socket none of whose events is queued.  *)
LEMMA ReceiveIInv == ASSUME IInv, NEW c \in Conns, Receive(c) PROVE IInv'
<1> USE DEF IInv
<1> DEFINE w == worker[c]
           e == Event("readyRead", addr[c], c)
<1>1. /\ state[c] = "open" /\ c \in reading /\ ~ Pending(c)
      /\ w \in Workers /\ addr[c] \in Addresses
      /\ queue' = [queue EXCEPT ![w] = Append(@, e)]
      /\ UNCHANGED <<poolVars, socketVars, reading, answerVars, destroyer, stopping>>
  BY DEF Receive, ConnInv, Live, TypeOK
<1>2. e \in Events /\ e.on = "readyRead" /\ e.conn = c /\ e.addr = addr[c]
  BY <1>1 DEF Event, Events
<1>3. \A f \in Queued(w) : OrderOK(f, e)
  BY <1>1, <1>2 DEF OrderOK, IsSocketEvent, Pending, Queued, Entries
<1> HIDE DEF w, e
<1>4. /\ queue' \in [Workers -> Seq(Events)]
      /\ OrderInv'
      /\ \A v \in Workers : Queued(v)' = IF v = w THEN Queued(v) \cup {e} ELSE Queued(v)
  BY <1>1, <1>2, <1>3, EventPosted
<1>5. TypeOK'
  BY <1>1, <1>4 DEF TypeOK, Events, poolVars, socketVars, answerVars
<1>6. Counts'
  <2>1. \A d \in Conns : \A v \in Workers : d \in Counted(v)' <=> d \in Counted(v)
    BY <1>1 DEF Counted, socketVars
  <2> QED BY <1>1, <2>1, SameCounted DEF poolVars
<1>7. QueueInv'
  <2>1. ASSUME NEW v \in Workers, NEW f \in Queued(v)' PROVE EventOK(v, f)'
    <3>1. CASE f \in Queued(v)
      BY <1>1, <3>1
      DEF QueueInv, EventOK, SocketEventOK, Stuck, Live, poolVars, socketVars
    <3>2. CASE v = w /\ f = e
      BY <1>1, <1>2, <3>2
      DEF EventOK, SocketEventOK, IsSocketEvent, Live, w, socketVars
    <3> QED BY <1>4, <3>1, <3>2
  <2> QED BY <2>1 DEF QueueInv
<1>8. PoolInv' /\ ConnInv'
  BY <1>1 DEF PoolInv, ConnInv, Live, poolVars, socketVars, answerVars
<1>9. RegistriesAgree' /\ AddressesDiffer'
  <2>1. \A d \in Conns : (Live(d)' <=> Live(d)) /\ worker'[d] = worker[d]
    BY <1>1 DEF Live, socketVars
  <2> QED BY <1>1, <2>1, SameSockets DEF socketVars
<1>10. AnswersKept'
  <2>1. \A v \in Workers : Queued(v) \subseteq Queued(v)'
    BY <1>4
  <2>2. \A d \in Conns : state[d] = "open" => worker[d] \in Workers
    BY DEF ConnInv, Live, TypeOK
  <2> QED BY <1>1, <2>1, <2>2 DEF AnswersKept, socketVars, answerVars
<1> QED BY <1>4, <1>5, <1>6, <1>7, <1>8, <1>9, <1>10

(* disconnected is posted for an open socket: it was not posted before.    *)
LEMMA CloseIInv ==
    ASSUME IInv, NEW c \in Conns, state[c] = "open", Close(c)
    PROVE  IInv'
<1> USE DEF IInv
<1> DEFINE w == worker[c]
           e == Event("disconnected", addr[c], c)
<1>1. /\ w \in Workers /\ addr[c] \in Addresses
      /\ queue' = [queue EXCEPT ![w] = Append(@, e)]
      /\ state' = [state EXCEPT ![c] = "closed"]
      /\ UNCHANGED <<poolVars, sockets, own, uncounting, worker, addr, reading, answerVars,
                     destroyer, stopping>>
  BY DEF Close, ConnInv, Live, TypeOK
<1>2. e \in Events /\ e.on = "disconnected" /\ e.conn = c /\ e.addr = addr[c]
  BY <1>1 DEF Event, Events
<1>3. \A d \in Conns : state'[d] = IF d = c THEN "closed" ELSE state[d]
  BY <1>1 DEF TypeOK
<1>4. \A d \in Conns : Live(d)' <=> Live(d)
  BY <1>3 DEF Live
<1>5. \A f \in Queued(w) : OrderOK(f, e)
  BY <1>1, <1>2 DEF QueueInv, EventOK, SocketEventOK, OrderOK, IsSocketEvent
<1> HIDE DEF w, e
<1>6. /\ queue' \in [Workers -> Seq(Events)]
      /\ OrderInv'
      /\ \A v \in Workers : Queued(v)' = IF v = w THEN Queued(v) \cup {e} ELSE Queued(v)
  BY <1>1, <1>2, <1>5, EventPosted
<1>7. TypeOK'
  <2>1. state' \in [Conns -> {"away", "accepted", "open", "closed", "deleted"}]
    BY <1>1 DEF TypeOK
  <2> QED BY <1>1, <1>6, <2>1 DEF TypeOK, Events, poolVars, answerVars
<1>8. Counts'
  <2>1. \A d \in Conns : \A v \in Workers : d \in Counted(v)' <=> d \in Counted(v)
    BY <1>1, <1>3 DEF Counted
  <2> QED BY <1>1, <2>1, SameCounted DEF poolVars
<1>9. QueueInv'
  <2>1. ASSUME NEW v \in Workers, NEW f \in Queued(v)' PROVE EventOK(v, f)'
    <3>1. CASE f \in Queued(v)
      <4>1. EventOK(v, f)
        BY <3>1 DEF QueueInv
      <4> QED BY <1>1, <1>3, <4>1 DEF EventOK, SocketEventOK, Stuck, Live, poolVars
    <3>2. CASE v = w /\ f = e
      BY <1>1, <1>2, <1>3, <3>2 DEF EventOK, SocketEventOK, IsSocketEvent, Live, w
    <3> QED BY <1>6, <3>1, <3>2
  <2> QED BY <2>1 DEF QueueInv
<1>10. PoolInv'
  BY <1>1, <1>3 DEF PoolInv, TypeOK, poolVars
<1>11. ConnInv'
  BY <1>1, <1>3 DEF ConnInv, Live, answerVars
<1>12. RegistriesAgree' /\ AddressesDiffer'
  BY <1>1, <1>4, SameSockets
<1>13. AnswersKept'
  <2>1. \A v \in Workers : Queued(v) \subseteq Queued(v)'
    BY <1>6
  <2>2. \A d \in Conns : state[d] = "open" => worker[d] \in Workers
    BY DEF ConnInv, Live, TypeOK
  <2> QED BY <1>1, <1>3, <2>1, <2>2 DEF AnswersKept, answerVars
<1> QED BY <1>6, <1>7, <1>8, <1>9, <1>10, <1>11, <1>12, <1>13

(* The answer goes to the thread of the socket that was found.             *)
LEMMA PostAnswerIInv == ASSUME IInv, NEW c \in Conns, PostAnswer(c) PROVE IInv'
<1> USE DEF IInv
<1> DEFINE w == found[c]
           e == Event("answer", addr[c], c)
<1>1. /\ w \in Workers
      /\ queue' = [queue EXCEPT ![w] = Append(@, e)]
      /\ found' = [found EXCEPT ![c] = 0]
      /\ UNCHANGED <<poolVars, socketVars, reading, asked, owed, got, destroyer, stopping>>
  BY DEF PostAnswer, TypeOK
<1>2. e \in Events /\ e.on = "answer" /\ e.conn \in Conns
  BY <1>1 DEF Event, Events, TypeOK
<1>3. \A f \in Queued(w) : OrderOK(f, e)
  BY <1>2 DEF OrderOK, IsSocketEvent
<1> HIDE DEF w, e
<1>4. /\ queue' \in [Workers -> Seq(Events)]
      /\ OrderInv'
      /\ \A v \in Workers : Queued(v)' = IF v = w THEN Queued(v) \cup {e} ELSE Queued(v)
  BY <1>1, <1>2, <1>3, EventPosted
<1>5. TypeOK'
  BY <1>1, <1>4 DEF TypeOK, Events, poolVars, socketVars
<1>6. Counts'
  <2>1. \A d \in Conns : \A v \in Workers : d \in Counted(v)' <=> d \in Counted(v)
    BY <1>1 DEF Counted, socketVars
  <2> QED BY <1>1, <2>1, SameCounted DEF poolVars
<1>7. QueueInv'
  <2>1. ASSUME NEW v \in Workers, NEW f \in Queued(v)' PROVE EventOK(v, f)'
    <3>1. CASE f \in Queued(v)
      BY <1>1, <3>1
      DEF QueueInv, EventOK, SocketEventOK, Stuck, Live, poolVars, socketVars
    <3>2. CASE v = w /\ f = e
      BY <1>1, <1>2, <3>2 DEF EventOK, IsSocketEvent
    <3> QED BY <1>4, <3>1, <3>2
  <2> QED BY <2>1 DEF QueueInv
<1>8. PoolInv'
  BY <1>1 DEF PoolInv, poolVars, socketVars
<1>9. ConnInv'
  BY <1>1 DEF ConnInv, Live, TypeOK, socketVars
<1>10. RegistriesAgree' /\ AddressesDiffer'
  <2>1. \A d \in Conns : (Live(d)' <=> Live(d)) /\ worker'[d] = worker[d]
    BY <1>1 DEF Live, socketVars
  <2> QED BY <1>1, <2>1, SameSockets DEF socketVars
<1>11. AnswersKept'
  <2>1. \A v \in Workers : Queued(v) \subseteq Queued(v)'
    BY <1>4
  <2>2. \A d \in Conns : state[d] = "open" => worker[d] \in Workers
    BY DEF ConnInv, Live, TypeOK
  <2>3. state[c] = "open" => e \in Queued(worker[c])'
    BY <1>1, <1>4, <2>2 DEF ConnInv, Live, PostAnswer, w, socketVars
  <2> QED BY <1>1, <2>1, <2>2, <2>3 DEF AnswersKept, TypeOK, socketVars, e
<1> QED BY <1>4, <1>5, <1>6, <1>7, <1>8, <1>9, <1>10, <1>11


(* stop is posted to the next worker; no other worker has one.             *)
LEMMA StopNextIInv == IInv /\ StopNext => IInv'
<1> SUFFICES ASSUME IInv, StopNext PROVE IInv'
  OBVIOUS
<1> USE DEF IInv
<1> DEFINE w == stopping
           e == Event("stop", NoAddress, NoConn)
<1>1. /\ destroyer = "locked" /\ stopping <= threads /\ destroyer' = "waiting"
      /\ queue' = [queue EXCEPT ![w] = Append(@, e)]
      /\ UNCHANGED <<poolVars, socketVars, reading, answerVars, stopping>>
  BY DEF StopNext
<1>2. w \in Workers
  BY <1>1, WorkersAreNumbered DEF TypeOK
<1>3. e \in Events /\ e.on = "stop"
  BY DEF Event, Events
<1>4. \A f \in Queued(w) : OrderOK(f, e)
  BY <1>3 DEF OrderOK, IsSocketEvent
<1> HIDE DEF w, e
<1>5. /\ queue' \in [Workers -> Seq(Events)]
      /\ OrderInv'
      /\ \A v \in Workers : Queued(v)' = IF v = w THEN Queued(v) \cup {e} ELSE Queued(v)
  BY <1>1, <1>2, <1>3, <1>4, EventPosted
<1>6. TypeOK'
  BY <1>1, <1>5 DEF TypeOK, Events, poolVars, socketVars, answerVars
<1>7. Counts'
  <2>1. \A d \in Conns : \A v \in Workers : d \in Counted(v)' <=> d \in Counted(v)
    BY <1>1 DEF Counted, socketVars
  <2> QED BY <1>1, <2>1, SameCounted DEF poolVars
<1>8. QueueInv'
  <2>1. ASSUME NEW v \in Workers, NEW f \in Queued(v)' PROVE EventOK(v, f)'
    <3>1. CASE f \in Queued(v)
      <4>1. EventOK(v, f)
        BY <3>1 DEF QueueInv
      <4> QED BY <1>1, <4>1 DEF EventOK, SocketEventOK, Stuck, Live, poolVars, socketVars
    <3>2. CASE v = w /\ f = e
      BY <1>1, <1>3, <3>2 DEF EventOK, IsSocketEvent, w
    <3> QED BY <1>5, <3>1, <3>2
  <2> QED BY <2>1 DEF QueueInv
<1>9. PoolInv' /\ ConnInv'
  BY <1>1 DEF PoolInv, ConnInv, Live, poolVars, socketVars, answerVars
<1>10. RegistriesAgree' /\ AddressesDiffer'
  <2>1. \A d \in Conns : (Live(d)' <=> Live(d)) /\ worker'[d] = worker[d]
    BY <1>1 DEF Live, socketVars
  <2> QED BY <1>1, <2>1, SameSockets DEF socketVars
<1>11. AnswersKept'
  <2>1. \A v \in Workers : Queued(v) \subseteq Queued(v)'
    BY <1>5
  <2>2. \A d \in Conns : state[d] = "open" => worker[d] \in Workers
    BY DEF ConnInv, Live, TypeOK
  <2> QED BY <1>1, <2>1, <2>2 DEF AnswersKept, socketVars, answerVars
<1> QED BY <1>5, <1>6, <1>7, <1>8, <1>9, <1>10, <1>11

(* The other steps of the destructor wait for no worker.                   *)
LEMMA DestructorIInv == IInv /\ (StopListen \/ AllStopped) => IInv'
<1> SUFFICES ASSUME IInv, StopListen \/ AllStopped PROVE IInv'
  OBVIOUS
<1> USE DEF IInv
<1>1. /\ destroyer # "waiting" /\ destroyer' \in {"locked", "gone"}
      /\ UNCHANGED <<poolVars, socketVars, queue, reading, answerVars, stopping>>
  BY DEF StopListen, AllStopped
<1>2. TypeOK'
  BY <1>1 DEF TypeOK, poolVars, socketVars, answerVars
<1>3. Counts'
  <2>1. \A d \in Conns : \A v \in Workers : d \in Counted(v)' <=> d \in Counted(v)
    BY <1>1 DEF Counted, socketVars
  <2> QED BY <1>1, <2>1, SameCounted DEF poolVars
<1>4. \A v \in Workers : Queued(v)' = Queued(v)
  BY <1>1 DEF Queued
<1>5. QueueInv' /\ OrderInv'
  <2>1. ASSUME NEW v \in Workers, NEW f \in Queued(v)' PROVE EventOK(v, f)'
    <3>1. EventOK(v, f)
      BY <1>4 DEF QueueInv
    <3> QED BY <1>1, <3>1 DEF EventOK, SocketEventOK, Stuck, Live, poolVars, socketVars
  <2> QED BY <1>1, <2>1 DEF QueueInv, OrderInv
<1>6. PoolInv' /\ ConnInv'
  BY <1>1 DEF PoolInv, ConnInv, Live, poolVars, socketVars, answerVars
<1>7. RegistriesAgree' /\ AddressesDiffer'
  <2>1. \A d \in Conns : (Live(d)' <=> Live(d)) /\ worker'[d] = worker[d]
    BY <1>1 DEF Live, socketVars
  <2> QED BY <1>1, <2>1, SameSockets DEF socketVars
<1>8. AnswersKept'
  BY <1>1 DEF AnswersKept, Queued, socketVars, answerVars
<1> QED BY <1>2, <1>3, <1>5, <1>6, <1>7, <1>8

(* A thread looks the socket up: there is one at that address, its own.    *)
LEMMA LookUpIInv == ASSUME IInv, NEW c \in Conns, LookUp(c) PROVE IInv'
<1> USE DEF IInv
<1>1. /\ c \in owed /\ owed' = owed \ {c}
      /\ UNCHANGED <<poolVars, socketVars, queue, reading, asked, got, destroyer, stopping>>
  BY DEF LookUp
<1>2. /\ found' \in [Conns -> Workers \cup {0}]
      /\ \A d \in Conns : d # c => found'[d] = found[d]
      /\ Live(c) => found'[c] # 0 /\ found'[c] = worker[c]
  <2>1. Live(c) => addr[c] \in sockets
    BY DEF RegistriesAgree, ConnInv
  <2>2. CASE addr[c] \in sockets
    <3>1. PICK d \in Conns : /\ Live(d) /\ addr[d] = addr[c]
                             /\ found' = [found EXCEPT ![c] = worker[d]]
      BY <2>2 DEF LookUp
    <3>2. worker[d] \in Workers \cup {0} /\ worker[d] # 0
      BY <3>1 DEF ConnInv, TypeOK
    <3>3. Live(c) => d = c
      BY <3>1 DEF AddressesDiffer
    <3> QED BY <3>1, <3>2, <3>3 DEF TypeOK
  <2>3. CASE addr[c] \notin sockets
    BY <2>1, <2>3 DEF LookUp, TypeOK
  <2> QED BY <2>2, <2>3
<1>3. TypeOK'
  BY <1>1, <1>2 DEF TypeOK, poolVars, socketVars
<1>4. Counts'
  <2>1. \A d \in Conns : \A v \in Workers : d \in Counted(v)' <=> d \in Counted(v)
    BY <1>1 DEF Counted, socketVars
  <2> QED BY <1>1, <2>1, SameCounted DEF poolVars
<1>5. QueueInv' /\ OrderInv'
  <2>1. ASSUME NEW v \in Workers, NEW f \in Queued(v)' PROVE EventOK(v, f)'
    <3>1. EventOK(v, f)
      BY <1>1 DEF QueueInv, Queued
    <3> QED BY <1>1, <3>1 DEF EventOK, SocketEventOK, Stuck, Live, poolVars, socketVars
  <2> QED BY <1>1, <2>1 DEF QueueInv, OrderInv
<1>6. PoolInv'
  BY <1>1 DEF PoolInv, poolVars, socketVars
<1>7. ConnInv'
  <2>1. ~ (state[c] \in {"away", "accepted"})
    BY <1>1 DEF ConnInv
  <2> QED BY <1>1, <1>2, <2>1 DEF ConnInv, Live, socketVars
<1>8. RegistriesAgree' /\ AddressesDiffer'
  <2>1. \A d \in Conns : (Live(d)' <=> Live(d)) /\ worker'[d] = worker[d]
    BY <1>1 DEF Live, socketVars
  <2> QED BY <1>1, <2>1, SameSockets DEF socketVars
<1>9. AnswersKept'
  <2>1. \A v : Queued(v)' = Queued(v)
    BY <1>1 DEF Queued
  <2> QED BY <1>1, <1>2, <2>1 DEF AnswersKept, Live, socketVars
<1> QED BY <1>3, <1>4, <1>5, <1>6, <1>7, <1>8, <1>9


(* Writing an answer reaches the connected client it is for.               *)
LEMMA WrittenAnswer ==
    ASSUME TypeOK, RegistriesAgree, ConnInv,
           NEW w \in Workers, NEW a, NEW c \in Conns, Write(w, a, c)
    PROVE  /\ got' \in [Conns -> SUBSET Conns]
           /\ \A d \in Conns : got[d] \subseteq got'[d]
           /\ state[c] = "open" /\ worker[c] = w /\ addr[c] = a => c \in got'[c]
<1>1. got' = [d \in Conns |-> IF a \in own[w] /\ addr[d] = a /\ state[d] = "open"
                              THEN got[d] \cup {c} ELSE got[d]]
  BY DEF Write
<1>2. state[c] = "open" /\ worker[c] = w /\ addr[c] = a => a \in own[w]
  BY DEF RegistriesAgree, ConnInv, Live
<1>3. got' \in [Conns -> SUBSET Conns]
  BY <1>1 DEF TypeOK
<1>4. \A d \in Conns : got[d] \subseteq got'[d]
  BY <1>1
<1> QED BY <1>1, <1>2, <1>3, <1>4

(* A method that answers on its worker thread finds the socket there.      *)
LEMMA AnswerAtOnceIInv == ASSUME IInv, NEW c \in Conns, AnswerAtOnce(c) PROVE IInv'
<1> USE DEF IInv
<1>1. /\ c \in owed /\ owed' = owed \ {c}
      /\ Write(worker[c], addr[c], c)
      /\ UNCHANGED <<poolVars, socketVars, queue, reading, asked, found, destroyer, stopping>>
  BY DEF AnswerAtOnce
<1>2. /\ got' \in [Conns -> SUBSET Conns]
      /\ \A d \in Conns : got[d] \subseteq got'[d]
      /\ state[c] = "open" => c \in got'[c]
  <2>1. CASE worker[c] \in Workers
    BY <1>1, <2>1, WrittenAnswer
  <2>2. CASE worker[c] \notin Workers
    <3>1. state[c] # "open"
      BY <2>2 DEF TypeOK, ConnInv, Live
    <3> QED BY <1>1, <3>1 DEF Write, TypeOK
  <2> QED BY <2>1, <2>2
<1>3. TypeOK'
  BY <1>1, <1>2 DEF TypeOK, poolVars, socketVars
<1>4. Counts'
  <2>1. \A d \in Conns : \A v \in Workers : d \in Counted(v)' <=> d \in Counted(v)
    BY <1>1 DEF Counted, socketVars
  <2> QED BY <1>1, <2>1, SameCounted DEF poolVars
<1>5. QueueInv' /\ OrderInv'
  <2>1. ASSUME NEW v \in Workers, NEW f \in Queued(v)' PROVE EventOK(v, f)'
    <3>1. EventOK(v, f)
      BY <1>1 DEF QueueInv, Queued
    <3> QED BY <1>1, <3>1 DEF EventOK, SocketEventOK, Stuck, Live, poolVars, socketVars
  <2> QED BY <1>1, <2>1 DEF QueueInv, OrderInv
<1>6. PoolInv'
  BY <1>1 DEF PoolInv, poolVars, socketVars
<1>7. ConnInv'
  BY <1>1 DEF ConnInv, Live, socketVars
<1>8. RegistriesAgree' /\ AddressesDiffer'
  <2>1. \A d \in Conns : (Live(d)' <=> Live(d)) /\ worker'[d] = worker[d]
    BY <1>1 DEF Live, socketVars
  <2> QED BY <1>1, <2>1, SameSockets DEF socketVars
<1>9. AnswersKept'
  <2>1. \A v : Queued(v)' = Queued(v)
    BY <1>1 DEF Queued
  <2> QED BY <1>1, <1>2, <2>1 DEF AnswersKept, socketVars
<1> QED BY <1>3, <1>4, <1>5, <1>6, <1>7, <1>8, <1>9

(* A method whose answer was posted finds the socket too, if it is there.  *)
LEMMA QueuedAnswerIInv == ASSUME IInv, NEW w \in Workers, QueuedAnswer(w) PROVE IInv'
<1> USE DEF IInv
<1> DEFINE e == Head(queue[w])
<1>1. /\ Handles(w, "answer")
      /\ queue' = [queue EXCEPT ![w] = Rest(w)]
      /\ Write(w, e.addr, e.conn)
      /\ UNCHANGED <<poolVars, socketVars, reading, asked, owed, found, destroyer, stopping>>
  BY DEF QueuedAnswer
<1>2. /\ e \in Events
      /\ Rest(w) \in Seq(Events) /\ Ordered(Rest(w))
      /\ Queued(w) = Entries(Rest(w)) \cup {e}
  BY <1>1, EventHandled
<1> HIDE DEF e
<1>3. /\ queue' \in [Workers -> Seq(Events)]
      /\ OrderInv'
      /\ \A v \in Workers : Queued(v)' = IF v = w THEN Entries(Rest(w)) ELSE Queued(v)
  BY <1>1, <1>2, QueueBecomes
<1>4. /\ e.conn \in Conns
      /\ got' \in [Conns -> SUBSET Conns]
      /\ \A d \in Conns : got[d] \subseteq got'[d]
      /\ \A d \in Conns : state[d] = "open" /\ worker[d] = w /\ e = Event("answer", addr[d], d)
                         => d \in got'[d]
  <2>1. e.conn \in Conns
    BY <1>1, <1>2 DEF QueueInv, EventOK, Handles, e
  <2>2. \A d \in Conns : e = Event("answer", addr[d], d) => e.conn = d /\ e.addr = addr[d]
    BY DEF Event
  <2> QED BY <1>1, <2>1, <2>2, WrittenAnswer
<1>5. TypeOK'
  BY <1>1, <1>3, <1>4 DEF TypeOK, Events, poolVars, socketVars
<1>6. Counts'
  <2>1. \A d \in Conns : \A v \in Workers : d \in Counted(v)' <=> d \in Counted(v)
    BY <1>1 DEF Counted, socketVars
  <2> QED BY <1>1, <2>1, SameCounted DEF poolVars
<1>7. QueueInv'
  <2>1. ASSUME NEW v \in Workers, NEW f \in Queued(v)' PROVE EventOK(v, f)'
    <3>1. EventOK(v, f)
      BY <1>2, <1>3 DEF QueueInv
    <3> QED BY <1>1, <3>1 DEF EventOK, SocketEventOK, Stuck, Live, poolVars, socketVars
  <2> QED BY <2>1 DEF QueueInv
<1>8. PoolInv' /\ ConnInv'
  BY <1>1 DEF PoolInv, ConnInv, Live, poolVars, socketVars
<1>9. RegistriesAgree' /\ AddressesDiffer'
  <2>1. \A d \in Conns : (Live(d)' <=> Live(d)) /\ worker'[d] = worker[d]
    BY <1>1 DEF Live, socketVars
  <2> QED BY <1>1, <2>1, SameSockets DEF socketVars
<1>10. AnswersKept'
  <2>1. \A d \in Conns : state[d] = "open" => worker[d] \in Workers
    BY DEF ConnInv, Live, TypeOK
  <2>2. \A v \in Workers : Queued(v) \subseteq Queued(v)' \cup IF v = w THEN {e} ELSE {}
    BY <1>2, <1>3
  <2> QED BY <1>1, <1>4, <2>1, <2>2 DEF AnswersKept, socketVars
<1> QED BY <1>3, <1>5, <1>6, <1>7, <1>8, <1>9, <1>10

(* A complete request is asked or refused, and nothing is read after it.   *)
LEMMA ReadyReadIInv == ASSUME IInv, NEW w \in Workers, ReadyRead(w) PROVE IInv'
<1> USE DEF IInv
<1> DEFINE e == Head(queue[w])
           c == e.conn
<1>1. /\ Handles(w, "readyRead")
      /\ queue' = [queue EXCEPT ![w] = Rest(w)]
      /\ \/ UNCHANGED <<reading, asked, owed, got>>
         \/ /\ reading' = reading \ {c}
            /\ asked' = [asked EXCEPT ![c] = @ + 1]
            /\ \/ owed' = owed \cup {c} /\ UNCHANGED got
               \/ Write(w, e.addr, c) /\ UNCHANGED owed
      /\ UNCHANGED <<poolVars, socketVars, found, destroyer, stopping>>
  BY DEF ReadyRead
<1>2. /\ e \in Events /\ e.on = "readyRead"
      /\ e \in Queued(w)
      /\ Rest(w) \in Seq(Events) /\ Ordered(Rest(w))
      /\ Queued(w) = Entries(Rest(w)) \cup {e}
      /\ \A f \in Entries(Rest(w)) : OrderOK(e, f)
  BY <1>1, EventHandled
<1>3. /\ c \in Conns /\ Live(c) /\ worker[c] = w /\ addr[c] = e.addr /\ c \in reading
      /\ asked[c] = 0
  BY <1>1, <1>2 DEF QueueInv, EventOK, SocketEventOK, IsSocketEvent, Stuck, Handles, ConnInv
<1> HIDE DEF e
<1>4. /\ queue' \in [Workers -> Seq(Events)]
      /\ OrderInv'
      /\ \A v \in Workers : Queued(v)' = IF v = w THEN Entries(Rest(w)) ELSE Queued(v)
  BY <1>1, <1>2, QueueBecomes
<1>5. /\ got' \in [Conns -> SUBSET Conns]
      /\ \A d \in Conns : got[d] \subseteq got'[d]
      /\ owed \subseteq owed' /\ owed' \subseteq owed \cup {c}
      /\ asked' \in [Conns -> Nat]
      /\ reading' \subseteq reading
      /\ \A d \in Conns : d # c => asked'[d] = asked[d] /\ (d \in reading => d \in reading')
      /\ \/ asked'[c] = 0
         \/ /\ asked'[c] = 1 /\ c \notin reading'
            /\ state[c] = "open" => c \in owed' \/ c \in got'[c]
  <2>1. CASE UNCHANGED <<reading, asked, owed, got>>
    BY <1>3, <2>1 DEF TypeOK
  <2>2. CASE /\ reading' = reading \ {c}
             /\ asked' = [asked EXCEPT ![c] = @ + 1]
             /\ owed' = owed \cup {c} /\ UNCHANGED got
    BY <1>3, <2>2 DEF TypeOK
  <2>3. CASE /\ reading' = reading \ {c}
             /\ asked' = [asked EXCEPT ![c] = @ + 1]
             /\ Write(w, e.addr, c) /\ UNCHANGED owed
    <3>1. /\ got' \in [Conns -> SUBSET Conns]
          /\ \A d \in Conns : got[d] \subseteq got'[d]
          /\ state[c] = "open" => c \in got'[c]
      BY <1>3, <2>3, WrittenAnswer
    <3>2. /\ asked' \in [Conns -> Nat] /\ asked'[c] = 1
          /\ \A d \in Conns : d # c => asked'[d] = asked[d]
      BY <1>3, <2>3 DEF TypeOK
    <3>3. /\ reading' \subseteq reading /\ c \notin reading'
          /\ \A d \in Conns : d # c /\ d \in reading => d \in reading'
      BY <2>3
    <3> QED BY <2>3, <3>1, <3>2, <3>3
  <2> QED BY <1>1, <2>1, <2>2, <2>3
<1> HIDE DEF c
<1>6. TypeOK'
  BY <1>1, <1>3, <1>4, <1>5 DEF TypeOK, Events, poolVars, socketVars
<1>7. Counts'
  <2>1. \A d \in Conns : \A v \in Workers : d \in Counted(v)' <=> d \in Counted(v)
    BY <1>1 DEF Counted, socketVars
  <2> QED BY <1>1, <2>1, SameCounted DEF poolVars
<1>8. QueueInv'
  <2>1. ASSUME NEW v \in Workers, NEW f \in Queued(v)' PROVE EventOK(v, f)'
    <3>1. EventOK(v, f)
      BY <1>2, <1>4 DEF QueueInv
    <3>2. f.on = "readyRead" => f.conn # c
      <4>1. CASE v = w
        BY <1>2, <1>4, <4>1 DEF OrderOK, IsSocketEvent, c
      <4>2. CASE v # w
        BY <1>3, <3>1, <4>2 DEF EventOK, SocketEventOK, IsSocketEvent
      <4> QED BY <4>1, <4>2
    <3>3. f.on = "readyRead" /\ f.conn \in reading => f.conn \in reading'
      BY <1>5, <3>2 DEF TypeOK
    <3> QED BY <1>1, <3>1, <3>3 DEF EventOK, SocketEventOK, Stuck, Live, poolVars, socketVars
  <2> QED BY <2>1 DEF QueueInv
<1>9. PoolInv'
  BY <1>1 DEF PoolInv, poolVars, socketVars
<1>10. ConnInv'
  <2>1. ~ (state[c] \in {"away", "accepted"})
    BY <1>3 DEF Live
  <2> QED BY <1>1, <1>3, <1>5, <2>1 DEF ConnInv, Live, socketVars
<1>11. RegistriesAgree' /\ AddressesDiffer'
  <2>1. \A d \in Conns : (Live(d)' <=> Live(d)) /\ worker'[d] = worker[d]
    BY <1>1 DEF Live, socketVars
  <2> QED BY <1>1, <2>1, SameSockets DEF socketVars
<1>12. AnswersKept'
  <2>1. \A d \in Conns : state[d] = "open" => worker[d] \in Workers
    BY DEF ConnInv, Live, TypeOK
  <2>2. \A d \in Conns : Event("answer", addr[d], d) # e
    BY <1>2 DEF Event
  <2>3. \A v \in Workers : Queued(v) \subseteq Queued(v)' \cup {e}
    BY <1>2, <1>4
  <2> QED BY <1>1, <1>5, <2>1, <2>2, <2>3 DEF AnswersKept, socketVars
<1> QED BY <1>4, <1>6, <1>7, <1>8, <1>9, <1>10, <1>11, <1>12

(* A socket gets a free address, or its descriptor is no good.             *)
LEMMA NewConnectionIInv == ASSUME IInv, NEW w \in Workers, NewConnection(w) PROVE IInv'
<1> USE DEF IInv
<1> PICK e \in Events : e = Head(queue[w])
  BY EventHandled DEF NewConnection
<1> DEFINE c == e.conn
<1>1. /\ Handles(w, "new")
      /\ queue' = [queue EXCEPT ![w] = Rest(w)]
      /\ UNCHANGED <<poolVars, worker, answerVars, destroyer, stopping>>
  BY DEF NewConnection
<1>2. PICK a \in Addresses \ {addr[d] : d \in {d \in Conns : Live(d)}} :
         /\ addr' = [addr EXCEPT ![c] = a]
         /\ \/ /\ state' = [state EXCEPT ![c] = "open"]
               /\ sockets' = sockets \cup {a}
               /\ own' = [own EXCEPT ![w] = @ \cup {a}]
               /\ reading' = reading \cup {c}
               /\ UNCHANGED uncounting
            \/ /\ state' = [state EXCEPT ![c] = "deleted"]
               /\ uncounting' = [uncounting EXCEPT ![w] = c]
               /\ UNCHANGED <<sockets, own, reading>>
  BY DEF NewConnection
<1>3. /\ e \in Events /\ e.on = "new"
      /\ e \in Queued(w)
      /\ Rest(w) \in Seq(Events) /\ Ordered(Rest(w))
      /\ Queued(w) = Entries(Rest(w)) \cup {e}
      /\ \A f \in Entries(Rest(w)) : OrderOK(e, f)
      /\ uncounting[w] = NoConn
  BY <1>1, EventHandled DEF Handles
<1>4. /\ c \in Conns /\ c # NoConn /\ state[c] = "accepted" /\ worker[c] = w /\ server.conn # c
      /\ asked[c] = 0 /\ c \notin owed /\ found[c] = 0 /\ ~ Live(c)
  BY <1>3, ConnsAssumption DEF QueueInv, EventOK, ConnInv, Live
<1> HIDE DEF c
<1>5. /\ queue' \in [Workers -> Seq(Events)]
      /\ OrderInv'
      /\ \A v \in Workers : Queued(v)' = IF v = w THEN Entries(Rest(w)) ELSE Queued(v)
  BY <1>1, <1>3, QueueBecomes
<1>6. /\ \A d \in Conns : d # c => addr'[d] = addr[d] /\ state'[d] = state[d]
                                   /\ (d \in reading' <=> d \in reading)
      /\ addr'[c] = a /\ a \in Addresses
      /\ \A d \in Conns : Live(d) => addr[d] # a
      /\ reading' \subseteq Conns
  BY <1>2, <1>4 DEF TypeOK
<1>7. \/ /\ state'[c] = "open" /\ Live(c)'
         /\ \A b : b \in sockets' <=> b \in sockets \/ b = a
         /\ \A v \in Workers : \A b : b \in own'[v] <=> b \in own[v] \/ (v = w /\ b = a)
         /\ UNCHANGED uncounting
      \/ /\ state'[c] = "deleted" /\ ~ Live(c)' /\ c \notin reading'
         /\ uncounting'[w] = c
         /\ \A v \in Workers : v # w => uncounting'[v] = uncounting[v]
         /\ UNCHANGED <<sockets, own>>
  <2>1. c \notin reading
    BY <1>4 DEF ConnInv
  <2>2. CASE /\ state' = [state EXCEPT ![c] = "open"]
             /\ sockets' = sockets \cup {a}
             /\ own' = [own EXCEPT ![w] = @ \cup {a}]
             /\ UNCHANGED uncounting
    <3>1. state'[c] = "open" /\ Live(c)'
      BY <1>4, <2>2 DEF TypeOK, Live
    <3>2. \A v \in Workers : \A b : b \in own'[v] <=> b \in own[v] \/ (v = w /\ b = a)
      BY <2>2 DEF TypeOK
    <3>3. \A b : b \in sockets' <=> b \in sockets \/ b = a
      BY <2>2
    <3> QED BY <2>2, <3>1, <3>2, <3>3
  <2>3. CASE /\ state' = [state EXCEPT ![c] = "deleted"]
             /\ uncounting' = [uncounting EXCEPT ![w] = c]
             /\ UNCHANGED <<sockets, own, reading>>
    <3>1. state'[c] = "deleted" /\ ~ Live(c)'
      BY <1>4, <2>3 DEF TypeOK, Live
    <3>2. uncounting'[w] = c /\ \A v \in Workers : v # w => uncounting'[v] = uncounting[v]
      BY <2>3 DEF TypeOK
    <3> QED BY <2>1, <2>3, <3>1, <3>2
  <2> QED BY <1>2, <2>2, <2>3
<1>8. \A d \in Conns : d # c => (Live(d)' <=> Live(d))
  BY <1>6 DEF Live
<1>9. TypeOK'
  <2>1. state' \in [Conns -> {"away", "accepted", "open", "closed", "deleted"}]
    BY <1>2 DEF TypeOK
  <2>2. addr' \in [Conns -> Addresses \cup {NoAddress}]
    BY <1>2 DEF TypeOK
  <2>3. /\ sockets' \subseteq Addresses
        /\ own' \in [Workers -> SUBSET Addresses]
        /\ uncounting' \in [Workers -> Conns \cup {NoConn}]
    <3>1. \/ own' = own
          \/ own' = [own EXCEPT ![w] = @ \cup {a}]
      BY <1>2
    <3>2. \/ uncounting' = uncounting
          \/ uncounting' = [uncounting EXCEPT ![w] = c]
      BY <1>2
    <3>3. own' \in [Workers -> SUBSET Addresses]
      <4>1. own \in [Workers -> SUBSET Addresses] /\ own[w] \cup {a} \in SUBSET Addresses
        BY DEF TypeOK
      <4> QED BY <3>1, <4>1
    <3>4. uncounting' \in [Workers -> Conns \cup {NoConn}]
      BY <1>4, <3>2 DEF TypeOK
    <3> QED BY <1>6, <1>7, <3>3, <3>4 DEF TypeOK
  <2> QED BY <1>1, <1>5, <1>6, <2>1, <2>2, <2>3 DEF TypeOK, Events, poolVars, answerVars
<1>10. Counts'
  <2>1. ASSUME NEW d \in Conns, NEW v \in Workers
        PROVE  d \in Counted(v)' <=> d \in Counted(v)
    <3>1. CASE d = c
      BY <1>1, <1>4, <1>7, <3>1 DEF Counted
    <3>2. CASE d # c
      BY <1>1, <1>3, <1>6, <1>7, <3>2, ConnsAssumption DEF Counted
    <3> QED BY <3>1, <3>2
  <2> QED BY <1>1, <2>1, SameCounted DEF poolVars
<1>11. QueueInv'
  <2>1. ASSUME NEW v \in Workers, NEW f \in Queued(v)' PROVE EventOK(v, f)'
    <3>1. EventOK(v, f)
      BY <1>3, <1>5 DEF QueueInv
    <3>2. f.on = "new" => f.conn # c
      <4>1. CASE v = w
        BY <1>3, <1>5, <4>1 DEF OrderOK, c
      <4>2. CASE v # w
        BY <1>4, <3>1, <4>2 DEF EventOK
      <4> QED BY <4>1, <4>2
    <3>3. IsSocketEvent(f) => f.conn # c
      BY <1>4, <3>1 DEF EventOK, SocketEventOK
    <3>4. Stuck(v) => Stuck(v)'
      BY <1>1, <1>3, <1>7 DEF Stuck
    <3>5. IsSocketEvent(f) => SocketEventOK(v, f)'
      BY <1>1, <1>6, <1>8, <3>1, <3>3, <3>4 DEF EventOK, SocketEventOK, IsSocketEvent
    <3> QED BY <1>1, <1>6, <3>1, <3>2, <3>5 DEF EventOK, poolVars
  <2> QED BY <2>1 DEF QueueInv
<1>12. PoolInv'
  <2>1. \A v \in Workers : uncounting'[v] # NoConn =>
           state'[uncounting'[v]] = "deleted" /\ worker'[uncounting'[v]] = v
    BY <1>1, <1>4, <1>6, <1>7 DEF PoolInv, TypeOK
  <2>2. server.at # "idle" => server.conn \in Conns /\ state'[server.conn] = "accepted"
    BY <1>4, <1>6 DEF PoolInv
  <2> QED BY <1>1, <2>1, <2>2 DEF PoolInv, poolVars
<1>13. ConnInv'
  <2>1. ASSUME NEW d \in Conns, d # c
        PROVE  /\ state'[d] = state[d] /\ worker'[d] = worker[d] /\ addr'[d] = addr[d]
               /\ (Live(d)' <=> Live(d)) /\ (d \in reading' <=> d \in reading)
    BY <1>1, <1>6, <1>8, <2>1
  <2>2. /\ state'[c] \in {"open", "deleted"} /\ worker'[c] # 0 /\ addr'[c] \in Addresses
    BY <1>1, <1>4, <1>6, <1>7, WorkersAreNumbered
  <2> QED BY <1>1, <1>4, <2>1, <2>2 DEF ConnInv, answerVars
<1>14. AddressesDiffer'
  BY <1>6, <1>7, <1>8 DEF AddressesDiffer
<1>15. RegistriesAgree'
  <2> SUFFICES ASSUME NEW b \in Addresses
               PROVE  /\ b \in sockets' <=> \E d \in Conns : Live(d)' /\ addr'[d] = b
                      /\ \A v \in Workers :
                            b \in own'[v] <=> \E d \in Conns : Live(d)' /\ addr'[d] = b /\ worker'[d] = v
    BY DEF RegistriesAgree
  <2>1. /\ b \in sockets <=> \E d \in Conns : Live(d) /\ addr[d] = b
        /\ \A v \in Workers :
              b \in own[v] <=> \E d \in Conns : Live(d) /\ addr[d] = b /\ worker[d] = v
    BY DEF RegistriesAgree
  <2>2. ASSUME NEW d \in Conns, d # c
        PROVE  (Live(d)' <=> Live(d)) /\ addr'[d] = addr[d]
    BY <1>6, <1>8, <2>2
  <2>3. CASE Live(c)' /\ b = a
    <3>1. \A d \in Conns : Live(d)' /\ addr'[d] = b <=> d = c
      BY <1>4, <1>6, <2>2, <2>3
    <3>2. b \notin sockets /\ \A v \in Workers : b \notin own[v]
      BY <1>6, <2>1, <2>3
    <3>3. b \in sockets' /\ \A v \in Workers : b \in own'[v] <=> v = w
      BY <1>7, <2>3, <3>2
    <3> QED BY <1>1, <1>4, <3>1, <3>3
  <2>4. CASE ~ (Live(c)' /\ b = a)
    <3>1. \A d \in Conns : Live(d)' /\ addr'[d] = b <=> Live(d) /\ addr[d] = b
      BY <1>4, <1>6, <2>2, <2>4
    <3>2. (b \in sockets' <=> b \in sockets) /\ \A v \in Workers : b \in own'[v] <=> b \in own[v]
      BY <1>7, <2>4
    <3> QED BY <1>1, <2>1, <3>1, <3>2
  <2> QED BY <2>3, <2>4
<1>16. AnswersKept'
  <2>1. \A d \in Conns : state[d] = "open" => worker[d] \in Workers
    BY DEF ConnInv, Live, TypeOK
  <2>2. \A d \in Conns : Event("answer", addr[d], d) # e
    BY <1>3 DEF Event
  <2>3. \A v \in Workers : Queued(v) \subseteq Queued(v)' \cup {e}
    BY <1>3, <1>5
  <2> QED BY <1>1, <1>4, <1>6, <2>1, <2>2, <2>3 DEF AnswersKept, answerVars
<1> QED BY <1>5, <1>9, <1>10, <1>11, <1>12, <1>13, <1>14, <1>15, <1>16


(* deleteSocket(): the socket leaves both registries, and either no event  *)
(* of it is left or its worker, which the destructor waits for, is stuck.  *)
LEMMA DeleteSocketIInv ==
    ASSUME IInv, NEW w \in Workers, NEW c \in Conns, NEW read \in Seq(Events),
           Live(c), worker[c] = w, uncounting[w] = NoConn,
           DeleteSocket(w, addr[c], c, read),
           Ordered(read), Entries(read) \subseteq Queued(w),
           \A f \in Queued(w) : f.on = "answer" => f \in Entries(read),
           \/ state[c] = "closed" /\ \A f \in Entries(read) : IsSocketEvent(f) => f.conn # c
           \/ destroyer = "waiting" /\ stopping = w,
           UNCHANGED <<poolVars, answerVars, destroyer, stopping>>
    PROVE  IInv'
<1> USE DEF IInv
<1> DEFINE a == addr[c]
           e == Event("disconnected", a, c)
<1>1. /\ a \in Addresses /\ c # NoConn /\ e \in Events
      /\ e.on = "disconnected" /\ e.conn = c /\ e.addr = a
  BY ConnsAssumption DEF ConnInv, Events, Event
<1>2. /\ \A d \in Conns : state'[d] = IF d = c THEN "deleted" ELSE state[d]
      /\ \A v \in Workers : v # w => uncounting'[v] = uncounting[v]
      /\ uncounting'[w] = c
      /\ \A b : b \in sockets' <=> b \in sockets /\ b # a
      /\ \A v \in Workers : \A b : b \in own'[v] <=> b \in own[v] /\ ~ (v = w /\ b = a)
      /\ \A d : d \in reading' <=> d \in reading /\ d # c
      /\ UNCHANGED <<worker, addr>>
  BY DEF DeleteSocket, TypeOK
<1>3. /\ \A d \in Conns : d # c => (Live(d)' <=> Live(d))
      /\ \A d \in Conns : d = c => ~ Live(d)'
  BY <1>2 DEF Live
<1> DEFINE r == IF state[c] = "open" THEN Append(read, e) ELSE read
<1>4. /\ r \in Seq(Events) /\ Ordered(r)
      /\ Entries(read) \subseteq Entries(r)
      /\ \A f \in Entries(r) : f \in Entries(read) \/ (f = e /\ state[c] = "open")
  <2>1. CASE state[c] = "open"
    <3>1. \A f \in Entries(read) : EventOK(w, f)
      BY DEF QueueInv
    <3>2. \A f \in Entries(read) : OrderOK(f, e)
      BY <1>1, <2>1, <3>1 DEF EventOK, SocketEventOK, OrderOK, IsSocketEvent
    <3> HIDE DEF e
    <3>3. /\ Append(read, e) \in Seq(Events) /\ Ordered(Append(read, e))
          /\ Entries(Append(read, e)) = Entries(read) \cup {e}
      BY <1>1, <3>2, PostedEvent
    <3> QED BY <2>1, <3>3
  <2>2. CASE state[c] # "open"
    BY <2>2
  <2> QED BY <2>1, <2>2
<1>5. queue' = [queue EXCEPT ![w] = r]
  BY DEF DeleteSocket
<1> HIDE DEF r, e, a
<1>6. /\ queue' \in [Workers -> Seq(Events)]
      /\ OrderInv'
      /\ \A v \in Workers : Queued(v)' = IF v = w THEN Entries(r) ELSE Queued(v)
  BY <1>4, <1>5, QueueBecomes
<1>7. TypeOK'
  <2>1. state' \in [Conns -> {"away", "accepted", "open", "closed", "deleted"}]
    BY DEF TypeOK, DeleteSocket
  <2>2. own' \in [Workers -> SUBSET Addresses]
    BY DEF TypeOK, DeleteSocket
  <2>3. uncounting' \in [Workers -> Conns \cup {NoConn}]
    BY DEF TypeOK, DeleteSocket
  <2>4. sockets' \subseteq Addresses /\ reading' \subseteq Conns
    BY <1>2 DEF TypeOK
  <2> QED BY <1>2, <1>6, <2>1, <2>2, <2>3, <2>4 DEF TypeOK, Events, poolVars, answerVars
<1>8. Counts'
  <2>1. ASSUME NEW d \in Conns, NEW v \in Workers
        PROVE  d \in Counted(v)' <=> d \in Counted(v)
    <3>1. CASE d = c
      BY <1>2, <3>1 DEF Counted, Live
    <3>2. CASE d # c
      BY <1>2, <3>2, ConnsAssumption DEF Counted
    <3> QED BY <3>1, <3>2
  <2> QED BY <2>1, SameCounted DEF poolVars
<1>9. QueueInv'
  <2>1. ASSUME NEW v \in Workers, NEW f \in Queued(v)' PROVE EventOK(v, f)'
    <3>1. CASE f \in Queued(v) /\ (v = w => f \in Entries(read))
      <4>1. EventOK(v, f)
        BY <3>1 DEF QueueInv
      <4>2. f.on = "new" => f.conn # c
        BY <4>1 DEF EventOK, Live
      <4>3. IsSocketEvent(f) => SocketEventOK(v, f)'
        <5>1. CASE f.conn # c
          <6>1. Stuck(v) => Stuck(v)'
            BY <1>2 DEF Stuck
          <6> QED BY <1>2, <1>3, <4>1, <5>1, <6>1
              DEF EventOK, SocketEventOK, IsSocketEvent
        <5>2. CASE f.conn = c /\ IsSocketEvent(f)
          <6>1. v = w
            BY <4>1, <5>2 DEF EventOK, SocketEventOK
          <6>2. Stuck(v)'
            BY <1>1, <1>2, <3>1, <5>2, <6>1 DEF Stuck
          <6> QED BY <1>2, <4>1, <5>2, <6>2 DEF EventOK, SocketEventOK
        <5> QED BY <5>1, <5>2
      <4> QED BY <1>2, <4>1, <4>2, <4>3 DEF EventOK, poolVars
    <3>2. CASE v = w /\ f = e /\ state[c] = "open"
      <4>1. Stuck(v)'
        BY <1>1, <1>2, <3>2 DEF Stuck
      <4> QED BY <1>1, <1>2, <3>2, <4>1 DEF EventOK, SocketEventOK, IsSocketEvent
    <3> QED BY <1>4, <1>6, <3>1, <3>2
  <2> QED BY <2>1 DEF QueueInv
<1>10. PoolInv'
  <2>1. ASSUME NEW v \in Workers, uncounting'[v] # NoConn
        PROVE  state'[uncounting'[v]] = "deleted" /\ worker'[uncounting'[v]] = v
    <3>1. CASE v = w
      BY <1>2, <3>1
    <3>2. CASE v # w
      <4>1. /\ uncounting'[v] = uncounting[v] /\ uncounting[v] \in Conns
            /\ state[uncounting[v]] = "deleted" /\ worker[uncounting[v]] = v
        BY <1>2, <2>1, <3>2 DEF PoolInv, TypeOK
      <4> QED BY <1>2, <4>1
    <3> QED BY <3>1, <3>2
  <2>2. server.at # "idle" => server.conn \in Conns /\ state'[server.conn] = "accepted"
    BY <1>2 DEF PoolInv, Live
  <2> QED BY <1>2, <2>1, <2>2 DEF PoolInv, poolVars
<1>11. ConnInv'
  BY <1>2, <1>3 DEF ConnInv, answerVars
<1>12. AddressesDiffer'
  BY <1>2, <1>3 DEF AddressesDiffer
<1>13. RegistriesAgree'
  <2> SUFFICES ASSUME NEW b \in Addresses
               PROVE  /\ b \in sockets' <=> \E d \in Conns : Live(d)' /\ addr'[d] = b
                      /\ \A v \in Workers :
                            b \in own'[v] <=> \E d \in Conns : Live(d)' /\ addr'[d] = b /\ worker'[d] = v
    BY DEF RegistriesAgree
  <2>1. /\ b \in sockets <=> \E d \in Conns : Live(d) /\ addr[d] = b
        /\ \A v \in Workers :
              b \in own[v] <=> \E d \in Conns : Live(d) /\ addr[d] = b /\ worker[d] = v
    BY DEF RegistriesAgree
  <2>2. CASE b = a
    <3>1. \A d \in Conns : Live(d) /\ addr[d] = b <=> d = c
      BY <2>2 DEF AddressesDiffer, a
    <3> QED BY <1>2, <1>3, <2>1, <2>2, <3>1
  <2>3. CASE b # a
    <3>1. \A d \in Conns : Live(d)' /\ addr'[d] = b <=> Live(d) /\ addr[d] = b
      BY <1>2, <1>3, <2>3 DEF a
    <3> QED BY <1>2, <2>1, <2>3, <3>1
  <2> QED BY <2>2, <2>3
<1>14. AnswersKept'
  <2>1. \A d \in Conns : state[d] = "open" => worker[d] \in Workers
    BY DEF ConnInv, Live, TypeOK
  <2>2. \A d \in Conns : Event("answer", addr[d], d).on = "answer"
    BY DEF Event
  <2>3. \A v \in Workers : \A f \in Queued(v) : f.on = "answer" => f \in Queued(v)'
    BY <1>4, <1>6
  <2> QED BY <1>2, <2>1, <2>2, <2>3 DEF AnswersKept, answerVars
<1> QED BY <1>6, <1>7, <1>8, <1>9, <1>10, <1>11, <1>12, <1>13, <1>14


(* disconnected deletes the socket it is about: there is no other there.   *)
LEMMA DisconnectedIInv == ASSUME IInv, NEW w \in Workers, Disconnected(w) PROVE IInv'
<1> USE DEF IInv
<1> PICK e \in Events : e = Head(queue[w])
  BY EventHandled DEF Disconnected
<1> DEFINE c == e.conn
<1>1. Handles(w, "disconnected") /\ UNCHANGED <<poolVars, answerVars, destroyer, stopping>>
  BY DEF Disconnected
<1>2. /\ e.on = "disconnected"
      /\ Rest(w) \in Seq(Events) /\ Ordered(Rest(w))
      /\ Queued(w) = Entries(Rest(w)) \cup {e}
      /\ \A f \in Entries(Rest(w)) : OrderOK(e, f)
      /\ uncounting[w] = NoConn
  BY <1>1, EventHandled DEF Handles
<1>3. /\ c \in Conns /\ Live(c) /\ worker[c] = w /\ addr[c] = e.addr /\ state[c] = "closed"
  BY <1>2 DEF QueueInv, EventOK, SocketEventOK, IsSocketEvent, Stuck
<1>4. addr[c] \in sockets
  BY <1>3 DEF RegistriesAgree, ConnInv
<1>5. DeleteSocket(w, addr[c], c, Rest(w))
  BY <1>3, <1>4 DEF Disconnected, AddressesDiffer
<1>6. /\ Entries(Rest(w)) \subseteq Queued(w)
      /\ \A f \in Queued(w) : f.on = "answer" => f \in Entries(Rest(w))
      /\ \A f \in Entries(Rest(w)) : IsSocketEvent(f) => f.conn # c
  BY <1>2 DEF OrderOK, IsSocketEvent
<1> HIDE DEF IInv, c
<1> QED BY <1>1, <1>2, <1>3, <1>5, <1>6, DeleteSocketIInv

(* stop() deletes one of the sockets, or there is none left to lose.       *)
LEMMA StopIInv == ASSUME IInv, NEW w \in Workers, Stop(w) PROVE IInv'
<1> USE DEF IInv
<1> PICK e \in Events : e = Head(queue[w])
  BY EventHandled DEF Stop
<1>1. Handles(w, "stop") /\ UNCHANGED <<poolVars, answerVars>>
  BY DEF Stop
<1>2. /\ e.on = "stop" /\ e \in Queued(w) /\ uncounting[w] = NoConn
      /\ destroyer = "waiting" /\ stopping = w
  <2>1. e.on = "stop" /\ e \in Queued(w) /\ uncounting[w] = NoConn
    BY <1>1, EventHandled DEF Handles
  <2> QED BY <2>1 DEF QueueInv, EventOK
<1>3. CASE \E c \in Conns : /\ Live(c) /\ addr[c] \in own[w]
                            /\ DeleteSocket(w, addr[c], c, queue[w])
                            /\ UNCHANGED <<destroyer, stopping>>
  <2>1. PICK c \in Conns : /\ Live(c) /\ addr[c] \in own[w]
                           /\ DeleteSocket(w, addr[c], c, queue[w])
                           /\ UNCHANGED <<destroyer, stopping>>
    BY <1>3
  <2>2. worker[c] = w
    BY <2>1 DEF RegistriesAgree, AddressesDiffer, ConnInv
  <2>3. queue[w] \in Seq(Events) /\ Ordered(queue[w]) /\ Entries(queue[w]) = Queued(w)
    BY DEF TypeOK, Events, OrderInv, Queued
  <2> HIDE DEF IInv
  <2> QED BY <1>1, <1>2, <2>1, <2>2, <2>3, DeleteSocketIInv
<1>4. CASE /\ own[w] = {}
           /\ queue' = [queue EXCEPT ![w] = <<>>]
           /\ destroyer' = "locked"
           /\ stopping' = stopping + 1
           /\ UNCHANGED <<socketVars, reading>>
  <2>1. /\ queue' \in [Workers -> Seq(Events)]
        /\ OrderInv'
        /\ \A v \in Workers : Queued(v)' = IF v = w THEN {} ELSE Queued(v)
    BY <1>4, NoEvents, QueueBecomes
  <2>2. \A d \in Conns : Live(d) => worker[d] # w
    BY <1>4 DEF RegistriesAgree, ConnInv
  <2>3. TypeOK'
    <3>1. stopping' \in 1 .. Cardinality(Workers) + 1
      BY <1>2, <1>4, WorkersAreNumbered DEF TypeOK
    <3> QED BY <1>1, <1>4, <2>1, <3>1 DEF TypeOK, Events, poolVars, socketVars, answerVars
  <2>4. Counts'
    <3>1. \A d \in Conns : \A v \in Workers : d \in Counted(v)' <=> d \in Counted(v)
      BY <1>4 DEF Counted, socketVars
    <3> QED BY <1>1, <3>1, SameCounted DEF poolVars
  <2>5. QueueInv'
    <3>1. ASSUME NEW v \in Workers, NEW f \in Queued(v)' PROVE EventOK(v, f)'
      <4>1. EventOK(v, f) /\ v # w
        BY <2>1 DEF QueueInv
      <4> QED BY <1>1, <1>2, <1>4, <4>1
          DEF EventOK, SocketEventOK, Stuck, Live, poolVars, socketVars
    <3> QED BY <3>1 DEF QueueInv
  <2>6. PoolInv' /\ ConnInv'
    BY <1>1, <1>4 DEF PoolInv, ConnInv, Live, poolVars, socketVars, answerVars
  <2>7. RegistriesAgree' /\ AddressesDiffer'
    <3>1. \A d \in Conns : (Live(d)' <=> Live(d)) /\ worker'[d] = worker[d]
      BY <1>4 DEF Live, socketVars
    <3> QED BY <1>4, <3>1, SameSockets DEF socketVars
  <2>8. AnswersKept'
    <3>1. \A d \in Conns : state[d] = "open" => worker[d] \in Workers /\ worker[d] # w
      BY <2>2 DEF ConnInv, Live, TypeOK
    <3> QED BY <1>1, <1>4, <2>1, <3>1 DEF AnswersKept, socketVars, answerVars
  <2> QED BY <2>1, <2>3, <2>4, <2>5, <2>6, <2>7, <2>8
<1> QED BY <1>3, <1>4 DEF Stop

(* A worker that gets the lock uncounts the connection it deleted.         *)
LEMMA UncountIInv == ASSUME IInv, NEW w \in Workers, Uncount(w) PROVE IInv'
<1> USE DEF IInv
<1> DEFINE c == uncounting[w]
<1>1. /\ c \in Conns /\ state[c] = "deleted" /\ worker[c] = w
      /\ destroyer # "waiting"
      /\ socketCount' = [socketCount EXCEPT ![w] = @ - 1]
      /\ uncounting' = [uncounting EXCEPT ![w] = NoConn]
      /\ UNCHANGED <<threads, server, sockets, own, worker, state, addr, queue, reading,
                     answerVars, destroyer, stopping>>
  BY DEF Uncount, PoolLocked, PoolInv, TypeOK
<1>2. \A v \in Workers : uncounting'[v] = IF v = w THEN NoConn ELSE uncounting[v]
  BY <1>1 DEF TypeOK
<1>3. Counts' /\ socketCount' \in [Workers -> 0 .. Cardinality(Conns)]
  <2>1. \A v \in Workers : Counted(v)' = IF v = w THEN Counted(v) \ {c} ELSE Counted(v)
    BY <1>1, <1>2, ConnsAssumption DEF Counted
  <2>2. c \in Counted(w)
    BY <1>1 DEF Counted
  <2> HIDE DEF c
  <2> QED BY <1>1, <2>1, <2>2, OldCounted
<1>4. TypeOK'
  BY <1>1, <1>3 DEF TypeOK, answerVars
<1>5. QueueInv' /\ OrderInv'
  <2>1. ASSUME NEW v \in Workers, NEW f \in Queued(v)' PROVE EventOK(v, f)'
    <3>1. EventOK(v, f)
      BY <1>1 DEF QueueInv, Queued
    <3> QED BY <1>1, <3>1 DEF EventOK, SocketEventOK, Stuck, Live
  <2> QED BY <1>1, <2>1 DEF QueueInv, OrderInv
<1>6. PoolInv'
  BY <1>1, <1>2 DEF PoolInv
<1>7. ConnInv'
  BY <1>1 DEF ConnInv, Live, answerVars
<1>8. RegistriesAgree' /\ AddressesDiffer'
  <2>1. \A d \in Conns : (Live(d)' <=> Live(d)) /\ worker'[d] = worker[d]
    BY <1>1 DEF Live
  <2> QED BY <1>1, <2>1, SameSockets
<1>9. AnswersKept'
  BY <1>1 DEF AnswersKept, Queued, answerVars
<1> QED BY <1>3, <1>4, <1>5, <1>6, <1>7, <1>8, <1>9


(* Every step of the server, its workers, its clients and its methods.     *)
LEMMA NextIInv == IInv /\ [Next]_vars => IInv'
<1> SUFFICES ASSUME IInv, [Next]_vars PROVE IInv'
  OBVIOUS
<1>1. CASE Listener
  BY <1>1, AcceptIInv, AppendWorkerIInv, PostConnectionIInv DEF Listener
<1>2. ASSUME NEW c \in Conns, Client(c) PROVE IInv'
  BY <1>2, ReceiveIInv, CloseIInv DEF Client, HangUp, Flush
<1>3. ASSUME NEW c \in Conns, Answerer(c) PROVE IInv'
  BY <1>3, AnswerAtOnceIInv, LookUpIInv, PostAnswerIInv DEF Answerer
<1>4. ASSUME NEW w \in Workers, WorkerLoop(w) PROVE IInv'
  BY <1>4, NewConnectionIInv, ReadyReadIInv, DisconnectedIInv, UncountIInv,
     QueuedAnswerIInv, StopIInv DEF WorkerLoop
<1>5. CASE Destructor
  BY <1>5, DestructorIInv, StopNextIInv DEF Destructor
<1>6. CASE UNCHANGED vars
  <2>1. /\ UNCHANGED <<poolVars, socketVars, queue, reading, answerVars, destroyer, stopping>>
    BY <1>6 DEF vars
  <2>2. TypeOK' /\ OrderInv'
    BY <2>1 DEF IInv, TypeOK, OrderInv, poolVars, socketVars, answerVars
  <2>3. PoolInv' /\ ConnInv'
    BY <2>1 DEF IInv, PoolInv, ConnInv, Live, poolVars, socketVars, answerVars
  <2>4. RegistriesAgree' /\ AddressesDiffer'
    <3>1. \A d \in Conns : (Live(d)' <=> Live(d)) /\ worker'[d] = worker[d]
      BY <2>1 DEF Live, socketVars
    <3> QED BY <2>1, <3>1, SameSockets DEF IInv, socketVars
  <2>5. Counts'
    <3>1. \A d \in Conns : \A v \in Workers : d \in Counted(v)' <=> d \in Counted(v)
      BY <2>1 DEF Counted, socketVars
    <3> QED BY <2>1, <3>1, SameCounted DEF IInv, poolVars
  <2>6. \A v : Queued(v)' = Queued(v)
    BY <2>1 DEF Queued
  <2>7. QueueInv'
    <3>1. ASSUME NEW v \in Workers, NEW f \in Queued(v)' PROVE EventOK(v, f)'
      <4>1. EventOK(v, f)
        BY <2>6 DEF IInv, QueueInv
      <4> QED BY <2>1, <4>1 DEF EventOK, SocketEventOK, Stuck, Live, poolVars, socketVars
    <3> QED BY <3>1 DEF QueueInv
  <2>8. AnswersKept'
    BY <2>1, <2>6 DEF IInv, AnswersKept, socketVars, answerVars
  <2> QED BY <2>2, <2>3, <2>4, <2>5, <2>7, <2>8 DEF IInv
<1> QED BY <1>1, <1>2, <1>3, <1>4, <1>5, <1>6 DEF Next

LEMMA SpecIInv == Spec => []IInv
  BY InitIInv, NextIInv, PTL DEF Spec

-----------------------------------------------------------------------------
(* The properties the runs check, for every instance.                      *)

(* The pool keeps its types, and socketCount, by which a worker is chosen, *)
(* is the number of connections given to the worker and not yet uncounted. *)
THEOREM CountsAlwaysExact == Spec => []CountsAreExact
<1>1. IInv => CountsAreExact
  BY DEF IInv, Counts, CountsAreExact
<1> QED BY <1>1, SpecIInv, PTL

(* The sockets of the server are those of its workers, each registered     *)
(* with exactly the worker it belongs to, while it lives.                  *)
THEOREM RegistriesAlwaysAgree == Spec => []RegistriesAgree
<1>1. IInv => RegistriesAgree
  BY DEF IInv
<1> QED BY <1>1, SpecIInv, PTL

(* A worker handles no event of a deleted socket, nor of an earlier socket *)
(* at the address of a new one.                                            *)
THEOREM EventsAlwaysMeetTheirSocket == Spec => []EventsMeetTheirSocket
<1>1. IInv => EventsMeetTheirSocket
  <2> SUFFICES ASSUME IInv, NEW w \in Workers,
                      Handles(w, "readyRead") \/ Handles(w, "disconnected")
               PROVE  LET e == Head(queue[w])
                      IN  Live(e.conn) /\ addr[e.conn] = e.addr /\ worker[e.conn] = w
    BY DEF EventsMeetTheirSocket
  <2>1. Head(queue[w]) \in Queued(w) /\ IsSocketEvent(Head(queue[w]))
    BY EventHandled DEF IInv, IsSocketEvent
  <2>2. SocketEventOK(w, Head(queue[w])) /\ ~ Stuck(w)
    BY <2>1 DEF IInv, QueueInv, EventOK, Stuck, Handles
  <2> QED BY <2>2 DEF SocketEventOK
<1> QED BY <1>1, SpecIInv, PTL

(* However the bytes of a connection come in, its request is handed to a   *)
(* method, or refused, at most once.                                       *)
THEOREM AlwaysAskedOnce == Spec => []AskedOnce
<1>1. IInv => AskedOnce
  BY DEF IInv, ConnInv, AskedOnce
<1> QED BY <1>1, SpecIInv, PTL

(* An answer given to a connected client, by whatever thread, is on its    *)
(* way to it or written.                                                   *)
THEOREM AnswersAreNeverLost == Spec => []AnswersAreNotLost
<1>1. IInv => AnswersAreNotLost
  BY DEF IInv, AnswersKept, AnswersAreNotLost, Queued, Entries
<1> QED BY <1>1, SpecIInv, PTL


=============================================================================
