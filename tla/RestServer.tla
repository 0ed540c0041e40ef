----------------------------- MODULE RestServer -----------------------------
(***************************************************************************)
(* AbstractRestServer (abstractrestserver.cpp): a server thread that hands *)
(* accepted connections to a pool of worker threads, the sockets these     *)
(* threads read, answer and delete, and the destructor of the server.      *)
(*                                                                         *)
(* Sockets are known by their address.  An address is free again once its  *)
(* socket is deleted, and a later socket may get it: queued events, and    *)
(* the threads that still work on an answer, only hold the address.        *)
(*                                                                         *)
(* A method may be answered by any thread, at any time, or never; while it *)
(* runs on its worker thread, a blocking ProofObject::call lets the worker *)
(* handle other events, so a running method never holds up the queue here. *)
(*                                                                         *)
(* Qt dispatches the events posted to a thread before it looks at sockets, *)
(* so a socket reads only when no event of it is queued.                   *)
(***************************************************************************)
EXTENDS Naturals, FiniteSets, SequencesExt

CONSTANTS
    Conns,       \* connections of clients
    Addresses,   \* addresses of QTcpSocket objects
    MaxThreads,  \* suggestedMaxThreadsCount
    NoConn, NoAddress

ASSUME ConnsAssumption == IsFiniteSet(Conns) /\ NoConn \notin Conns
ASSUME AddressAssumption == NoAddress \notin Addresses
ASSUME ThreadsAssumption == MaxThreads \in Nat

(* Worker threads, in the order of their creation.                         *)
Workers == 1 .. (IF MaxThreads = 0 THEN 1 ELSE MaxThreads)

VARIABLES
    threads,      \* size of threadPool
    socketCount,  \* WorkerThreadInfo::socketCount
    server,       \* where incomingConnection() is, and for which connection
    sockets,      \* AbstractRestServerPrivate::sockets
    own,          \* WorkerThread::sockets of each worker
    queue,        \* events posted to each worker
    uncounting,   \* the connection of the socket a worker just deleted
    worker,       \* the worker a connection was given to, 0 before
    state,        \* of a connection: away, accepted, open, closed, deleted
    addr,         \* the address of its socket
    reading,      \* connections whose readyRead is connected
    asked,        \* how often a connection's method was called or refused
    owed,         \* connections whose method has not been answered
    found,        \* the worker a late answer is about to be posted to, or 0
    got,          \* the requests whose answers were written to a connection
    destroyer,    \* the destructor: none, locked, waiting or gone
    stopping      \* the worker the destructor stops

poolVars   == <<threads, socketCount, server>>
socketVars == <<sockets, own, uncounting, worker, state, addr>>
answerVars == <<asked, owed, found, got>>
vars == <<poolVars, socketVars, queue, reading, answerVars, destroyer, stopping>>

Event(on, a, c) == [on |-> on, addr |-> a, conn |-> c]

Init ==
    /\ threads = 0
    /\ socketCount = [w \in Workers |-> 0]
    /\ server = [at |-> "idle", conn |-> NoConn]
    /\ sockets = {}
    /\ own = [w \in Workers |-> {}]
    /\ queue = [w \in Workers |-> <<>>]
    /\ uncounting = [w \in Workers |-> NoConn]
    /\ worker = [c \in Conns |-> 0]
    /\ state = [c \in Conns |-> "away"]
    /\ addr = [c \in Conns |-> NoAddress]
    /\ reading = {}
    /\ asked = [c \in Conns |-> 0]
    /\ owed = {}
    /\ found = [c \in Conns |-> 0]
    /\ got = [c \in Conns |-> {}]
    /\ destroyer = "none"
    /\ stopping = 1

Live(c) == state[c] \in {"open", "closed"}

(* The connections that count for a worker.                                *)
Counted(w) == {c \in Conns : /\ worker[c] = w
                             /\ state[c] # "deleted" \/ uncounting[w] = c}

(* The destructor holds threadPoolLock for writing until all workers ended.*)
PoolLocked == destroyer \in {"locked", "waiting"}

(* Worker w is in its event loop and e is the next event.                  *)
Handles(w, on) ==
    /\ uncounting[w] = NoConn
    /\ queue[w] # <<>>
    /\ Head(queue[w]).on = on

Pending(c) == \E w \in Workers : \E i \in 1 .. Len(queue[w]) :
                 queue[w][i].conn = c /\ queue[w][i].on \in {"readyRead", "disconnected"}

-----------------------------------------------------------------------------
(* The server thread: incomingConnection().                                *)

MutChosenLate(w) ==
    /\ w \in 1 .. threads
    /\ \A v \in 1 .. threads : socketCount[v] >= socketCount[w]
    /\ \A v \in 1 .. w - 1 : socketCount[v] > socketCount[w]
    /\ socketCount[w] = 0 \/ threads > MaxThreads

(* min_element: the first of the workers with the fewest sockets; it is    *)
(* used if it has none, or if the pool has its full size.                  *)
Chosen(w) ==
    /\ w \in 1 .. threads
    /\ \A v \in 1 .. threads : socketCount[v] >= socketCount[w]
    /\ \A v \in 1 .. w - 1 : socketCount[v] > socketCount[w]
    /\ socketCount[w] = 0 \/ threads >= MaxThreads

Accept(c) ==
    /\ server.at = "idle"
    /\ destroyer = "none"
    /\ state[c] = "away"
    /\ state' = [state EXCEPT ![c] = "accepted"]
    /\ \/ \E w \in Workers :
             /\ Chosen(w)
             /\ socketCount' = [socketCount EXCEPT ![w] = @ + 1]
             /\ worker' = [worker EXCEPT ![c] = w]
             /\ server' = [at |-> "post", conn |-> c]
       \/ /\ \A w \in Workers : ~ Chosen(w)
          /\ server' = [at |-> "create", conn |-> c]
          /\ UNCHANGED <<socketCount, worker>>
    /\ UNCHANGED <<threads, sockets, own, uncounting, addr, queue, reading, answerVars,
                   destroyer, stopping>>

AppendWorker ==
    /\ server.at = "create"
    /\ threads' = threads + 1
    /\ socketCount' = [socketCount EXCEPT ![threads + 1] = 1]
    /\ worker' = [worker EXCEPT ![server.conn] = threads + 1]
    /\ server' = [server EXCEPT !.at = "post"]
    /\ UNCHANGED <<sockets, own, uncounting, state, addr, queue, reading, answerVars,
                   destroyer, stopping>>

PostConnection ==
    /\ server.at = "post"
    /\ queue' = [queue EXCEPT ![worker[server.conn]] =
                                 Append(@, Event("new", NoAddress, server.conn))]
    /\ server' = [at |-> "idle", conn |-> NoConn]
    /\ UNCHANGED <<threads, socketCount, socketVars, reading, answerVars, destroyer, stopping>>

-----------------------------------------------------------------------------
(* Sockets and clients.                                                    *)

(* readyRead: bytes of a client arrive.                                    *)
Receive(c) ==
    /\ state[c] = "open"
    /\ c \in reading
    /\ ~ Pending(c)
    /\ queue' = [queue EXCEPT ![worker[c]] = Append(@, Event("readyRead", addr[c], c))]
    /\ UNCHANGED <<poolVars, socketVars, reading, answerVars, destroyer, stopping>>

MutCloseSilently(c) ==
    /\ state' = [state EXCEPT ![c] = "closed"]
    /\ UNCHANGED <<poolVars, sockets, own, uncounting, worker, addr, queue, reading, answerVars,
                   destroyer, stopping>>

(* The connection ends and disconnected is emitted.                        *)
Close(c) ==
    /\ state' = [state EXCEPT ![c] = "closed"]
    /\ queue' = [queue EXCEPT ![worker[c]] = Append(@, Event("disconnected", addr[c], c))]
    /\ UNCHANGED <<poolVars, sockets, own, uncounting, worker, addr, reading, answerVars,
                   destroyer, stopping>>

(* A client hangs up.                                                      *)
HangUp(c) == state[c] = "open" /\ Close(c)

(* bytesWritten: all of an answer is written, disconnectFromHost().        *)
Flush(c) ==
    /\ state[c] = "open"
    /\ got[c] # {}
    /\ Close(c)

-----------------------------------------------------------------------------
(* Effects shared by the handlers of a worker thread.                      *)

(* What the queue of w is once its first event is taken.                   *)
Rest(w) == Tail(queue[w])

MutDeleteKeepsRegistered(w, a, c, read) ==
    /\ state' = [state EXCEPT ![c] = "deleted"]
    /\ own' = [own EXCEPT ![w] = @ \ {a}]
    /\ reading' = reading \ {c}
    /\ uncounting' = [uncounting EXCEPT ![w] = c]
    /\ queue' = [queue EXCEPT ![w] = read]
    /\ UNCHANGED <<sockets, worker, addr>>

(* WorkerThread::deleteSocket(): the socket leaves both sets and is        *)
(* deleted; one that is still open emits disconnected on its way.          *)
DeleteSocket(w, a, c, read) ==
    /\ state' = [state EXCEPT ![c] = "deleted"]
    /\ sockets' = sockets \ {a}
    /\ own' = [own EXCEPT ![w] = @ \ {a}]
    /\ reading' = reading \ {c}
    /\ uncounting' = [uncounting EXCEPT ![w] = c]
    /\ queue' = [queue EXCEPT ![w] =
                   IF state[c] = "open" THEN Append(read, Event("disconnected", a, c)) ELSE read]
    /\ UNCHANGED <<worker, addr>>

(* WorkerThread::sendAnswer() on its own thread: the answer goes to the    *)
(* connected socket of w at address a, if there is one.                    *)
Write(w, a, c) ==
    got' = [d \in Conns |-> IF a \in own[w] /\ addr[d] = a /\ state[d] = "open"
                            THEN got[d] \cup {c} ELSE got[d]]

-----------------------------------------------------------------------------
(* The event loop of a worker thread.                                      *)

MutNewConnectionUncounted(w) ==
    LET c == Head(queue[w]).conn
    IN  /\ Handles(w, "new")
        /\ queue' = [queue EXCEPT ![w] = Rest(w)]
        /\ \E a \in Addresses \ {addr[d] : d \in {d \in Conns : Live(d)}} :
              /\ addr' = [addr EXCEPT ![c] = a]
              /\ \/ /\ state' = [state EXCEPT ![c] = "open"]
                    /\ sockets' = sockets \cup {a}
                    /\ own' = [own EXCEPT ![w] = @ \cup {a}]
                    /\ reading' = reading \cup {c}
                    /\ UNCHANGED uncounting
                 \/ /\ state' = [state EXCEPT ![c] = "deleted"]
                    /\ UNCHANGED <<sockets, own, uncounting, reading>>
        /\ UNCHANGED <<poolVars, worker, answerVars, destroyer, stopping>>

MutNewConnectionUnregistered(w) ==
    LET c == Head(queue[w]).conn
    IN  /\ Handles(w, "new")
        /\ queue' = [queue EXCEPT ![w] = Rest(w)]
        /\ \E a \in Addresses \ {addr[d] : d \in {d \in Conns : Live(d)}} :
              /\ addr' = [addr EXCEPT ![c] = a]
              /\ state' = [state EXCEPT ![c] = "open"]
              /\ own' = [own EXCEPT ![w] = @ \cup {a}]
              /\ reading' = reading \cup {c}
        /\ UNCHANGED <<poolVars, sockets, uncounting, worker, answerVars, destroyer, stopping>>

(* handleNewConnection(): the new socket has any free address.  If the     *)
(* descriptor is no good it is deleted at once, and uncounted.             *)
NewConnection(w) ==
    LET c == Head(queue[w]).conn
    IN  /\ Handles(w, "new")
        /\ queue' = [queue EXCEPT ![w] = Rest(w)]
        /\ \E a \in Addresses \ {addr[d] : d \in {d \in Conns : Live(d)}} :
              /\ addr' = [addr EXCEPT ![c] = a]
              /\ \/ /\ state' = [state EXCEPT ![c] = "open"]
                    /\ sockets' = sockets \cup {a}
                    /\ own' = [own EXCEPT ![w] = @ \cup {a}]
                    /\ reading' = reading \cup {c}
                    /\ UNCHANGED uncounting
                 \/ /\ state' = [state EXCEPT ![c] = "deleted"]
                    /\ uncounting' = [uncounting EXCEPT ![w] = c]
                    /\ UNCHANGED <<sockets, own, reading>>
        /\ UNCHANGED <<poolVars, worker, answerVars, destroyer, stopping>>

MutReadyReadKeepsReading(w) ==
    LET e == Head(queue[w])
    IN  /\ Handles(w, "readyRead")
        /\ queue' = [queue EXCEPT ![w] = Rest(w)]
        /\ asked' = [asked EXCEPT ![e.conn] = @ + 1]
        /\ owed' = owed \cup {e.conn}
        /\ UNCHANGED <<poolVars, socketVars, reading, found, got, destroyer, stopping>>

MutReadyReadDeletes(w) ==
    LET e == Head(queue[w])
    IN  /\ Handles(w, "readyRead")
        /\ DeleteSocket(w, e.addr, e.conn, Rest(w))
        /\ UNCHANGED <<poolVars, answerVars, destroyer, stopping>>

(* onReadyRead(): more is needed, or the request is complete and its       *)
(* method is called, or it is no request and is answered with a 400.       *)
ReadyRead(w) ==
    LET e == Head(queue[w])
    IN  /\ Handles(w, "readyRead")
        /\ queue' = [queue EXCEPT ![w] = Rest(w)]
        /\ \/ UNCHANGED <<reading, asked, owed, got>>
           \/ /\ reading' = reading \ {e.conn}
              /\ asked' = [asked EXCEPT ![e.conn] = @ + 1]
              /\ \/ owed' = owed \cup {e.conn} /\ UNCHANGED got
                 \/ Write(w, e.addr, e.conn) /\ UNCHANGED owed
        /\ UNCHANGED <<poolVars, socketVars, found, destroyer, stopping>>

(* The slot of disconnected: nothing happens for an unknown socket.        *)
Disconnected(w) ==
    LET a == Head(queue[w]).addr
    IN  /\ Handles(w, "disconnected")
        /\ \/ \E c \in Conns : /\ Live(c) /\ addr[c] = a
                               /\ DeleteSocket(w, a, c, Rest(w))
           \/ /\ a \notin sockets
              /\ queue' = [queue EXCEPT ![w] = Rest(w)]
              /\ UNCHANGED <<socketVars, reading>>
        /\ UNCHANGED <<poolVars, answerVars, destroyer, stopping>>

(* The end of AbstractRestServerPrivate::deleteSocket(), which needs       *)
(* threadPoolLock for reading.                                             *)
Uncount(w) ==
    /\ uncounting[w] # NoConn
    /\ ~ PoolLocked
    /\ socketCount' = [socketCount EXCEPT ![w] = @ - 1]
    /\ uncounting' = [uncounting EXCEPT ![w] = NoConn]
    /\ UNCHANGED <<threads, server, sockets, own, worker, state, addr, queue, reading,
                   answerVars, destroyer, stopping>>

QueuedAnswer(w) ==
    LET e == Head(queue[w])
    IN  /\ Handles(w, "answer")
        /\ queue' = [queue EXCEPT ![w] = Rest(w)]
        /\ Write(w, e.addr, e.conn)
        /\ UNCHANGED <<poolVars, socketVars, reading, asked, owed, found, destroyer, stopping>>

MutStopNotReported(w) ==
    /\ Handles(w, "stop")
    /\ \/ \E c \in Conns : /\ Live(c) /\ addr[c] \in own[w]
                           /\ DeleteSocket(w, addr[c], c, queue[w])
       \/ /\ own[w] = {}
          /\ queue' = [queue EXCEPT ![w] = <<>>]
          /\ UNCHANGED <<socketVars, reading>>
    /\ UNCHANGED <<poolVars, answerVars, destroyer, stopping>>

(* stop() deletes the sockets one by one, then the thread may end.         *)
Stop(w) ==
    /\ Handles(w, "stop")
    /\ \/ \E c \in Conns : /\ Live(c) /\ addr[c] \in own[w]
                           /\ DeleteSocket(w, addr[c], c, queue[w])
                           /\ UNCHANGED <<destroyer, stopping>>
       \/ /\ own[w] = {}
          /\ queue' = [queue EXCEPT ![w] = <<>>]
          /\ destroyer' = "locked"
          /\ stopping' = stopping + 1
          /\ UNCHANGED <<socketVars, reading>>
    /\ UNCHANGED <<poolVars, answerVars>>

-----------------------------------------------------------------------------
(* Threads that answer a request: AbstractRestServer::sendAnswer().        *)

(* The method answers on the worker thread it is called on.                *)
AnswerAtOnce(c) ==
    LET w == worker[c]
    IN  /\ c \in owed
        /\ uncounting[w] = NoConn
        /\ addr[c] \in own[w] \/ addr[c] \notin sockets
        /\ destroyer # "gone"
        /\ owed' = owed \ {c}
        /\ Write(w, addr[c], c)
        /\ UNCHANGED <<poolVars, socketVars, queue, reading, asked, found, destroyer, stopping>>

(* Any other thread looks the socket up, under socketsMutex ...            *)
LookUp(c) ==
    /\ c \in owed
    /\ destroyer # "gone"
    /\ owed' = owed \ {c}
    /\ IF addr[c] \in sockets
       THEN \E d \in Conns : /\ Live(d) /\ addr[d] = addr[c]
                             /\ found' = [found EXCEPT ![c] = worker[d]]
       ELSE UNCHANGED found
    /\ UNCHANGED <<poolVars, socketVars, queue, reading, asked, got, destroyer, stopping>>

(* ... and posts the answer to its thread.                                 *)
PostAnswer(c) ==
    /\ found[c] # 0
    /\ destroyer # "gone"
    /\ queue' = [queue EXCEPT ![found[c]] = Append(@, Event("answer", addr[c], c))]
    /\ found' = [found EXCEPT ![c] = 0]
    /\ UNCHANGED <<poolVars, socketVars, reading, asked, owed, got, destroyer, stopping>>

-----------------------------------------------------------------------------
(* ~AbstractRestServer().                                                  *)

(* stopListen() waits for the server thread, then the pool is locked.      *)
StopListen ==
    /\ destroyer = "none"
    /\ server.at = "idle"
    /\ destroyer' = "locked"
    /\ UNCHANGED <<poolVars, socketVars, queue, reading, answerVars, stopping>>

(* workerInfo.thread->stop() blocks until the worker has handled it.       *)
StopNext ==
    /\ destroyer = "locked"
    /\ stopping <= threads
    /\ queue' = [queue EXCEPT ![stopping] = Append(@, Event("stop", NoAddress, NoConn))]
    /\ destroyer' = "waiting"
    /\ UNCHANGED <<poolVars, socketVars, reading, answerVars, stopping>>

AllStopped ==
    /\ destroyer = "locked"
    /\ stopping > threads
    /\ destroyer' = "gone"
    /\ UNCHANGED <<poolVars, socketVars, queue, reading, answerVars, stopping>>

-----------------------------------------------------------------------------

Listener == (\E c \in Conns : Accept(c)) \/ AppendWorker \/ PostConnection
Client(c) == Receive(c) \/ HangUp(c) \/ Flush(c)
Answerer(c) == AnswerAtOnce(c) \/ LookUp(c) \/ PostAnswer(c)
WorkerLoop(w) == \/ NewConnection(w) \/ ReadyRead(w) \/ Disconnected(w) \/ Uncount(w)
                 \/ QueuedAnswer(w) \/ Stop(w)
Destructor == StopListen \/ StopNext \/ AllStopped

Next ==
    \/ Listener
    \/ \E c \in Conns : Client(c) \/ Answerer(c)
    \/ \E w \in Workers : WorkerLoop(w)
    \/ Destructor

Spec == Init /\ [][Next]_vars

(* Threads run and what is posted is handled; a written answer is flushed  *)
(* and a destructor goes on.  Clients and methods promise nothing.         *)
Fairness ==
    /\ WF_vars(AppendWorker) /\ WF_vars(PostConnection)
    /\ \A w \in Workers : WF_vars(WorkerLoop(w))
    /\ \A c \in Conns : WF_vars(Flush(c)) /\ WF_vars(PostAnswer(c))
    /\ WF_vars(StopNext) /\ WF_vars(AllStopped)

FairSpec == Spec /\ Fairness

-----------------------------------------------------------------------------
(* Properties.                                                             *)

(* Every variable keeps its type: the pool never outgrows its limit, and   *)
(* no counter goes below zero or above the number of connections.          *)
TypeOK ==
    /\ threads \in 0 .. Cardinality(Workers)
    /\ socketCount \in [Workers -> 0 .. Cardinality(Conns)]
    /\ server \in [at : {"idle", "create", "post"}, conn : Conns \cup {NoConn}]
    /\ sockets \subseteq Addresses
    /\ own \in [Workers -> SUBSET Addresses]
    /\ queue \in [Workers -> Seq([on : {"new", "readyRead", "disconnected", "answer", "stop"},
                                  addr : Addresses \cup {NoAddress},
                                  conn : Conns \cup {NoConn}])]
    /\ uncounting \in [Workers -> Conns \cup {NoConn}]
    /\ worker \in [Conns -> Workers \cup {0}]
    /\ state \in [Conns -> {"away", "accepted", "open", "closed", "deleted"}]
    /\ addr \in [Conns -> Addresses \cup {NoAddress}]
    /\ reading \subseteq Conns /\ owed \subseteq Conns
    /\ asked \in [Conns -> Nat]
    /\ found \in [Conns -> Workers \cup {0}]
    /\ got \in [Conns -> SUBSET Conns]
    /\ destroyer \in {"none", "locked", "waiting", "gone"}
    /\ stopping \in 1 .. Cardinality(Workers) + 1

(* socketCount, which the choice of a worker is made by, is the number of  *)
(* connections the worker was given and has not deleted and uncounted,     *)
(* whatever the threads that count up and down do in between.              *)
CountsAreExact ==
    /\ TypeOK
    /\ \A w \in Workers : socketCount[w] = Cardinality(Counted(w))

(* The two sets of sockets agree: an address is registered with the server *)
(* and with exactly the worker of its socket while the socket lives.       *)
RegistriesAgree ==
    \A a \in Addresses :
        /\ a \in sockets <=> \E c \in Conns : Live(c) /\ addr[c] = a
        /\ \A w \in Workers :
              a \in own[w] <=> \E c \in Conns : Live(c) /\ addr[c] = a /\ worker[c] = w

(* A worker never handles an event of a deleted socket, nor one of an      *)
(* earlier socket at the same address: events come before the deletion.    *)
EventsMeetTheirSocket ==
    \A w \in Workers :
        Handles(w, "readyRead") \/ Handles(w, "disconnected") =>
            LET e == Head(queue[w]) IN Live(e.conn) /\ addr[e.conn] = e.addr /\ worker[e.conn] = w

(* One connection is one request: however its bytes come in, its method is *)
(* called, or it is refused, at most once.                                 *)
AskedOnce == \A c \in Conns : asked[c] <= 1

(* An answer that is given while the client is connected is either on its  *)
(* way to the client or written: it is lost only with the connection.      *)
AnswersAreNotLost ==
    \A c \in Conns :
        state[c] = "open" /\ asked[c] = 1 =>
            \/ c \in owed \/ found[c] # 0 \/ c \in got[c]
            \/ \E i \in 1 .. Len(queue[worker[c]]) :
                  queue[worker[c]][i] = Event("answer", addr[c], c)

(* A connection that ended is deleted and uncounted, unless the destructor *)
(* holds the pool.                                                         *)
EndedConnectionsAreUncounted ==
    \A c \in Conns :
        state[c] = "closed" ~>
            \/ state[c] = "deleted" /\ \A w \in Workers : uncounting[w] # c
            \/ PoolLocked

(* A destructor that starts when no socket is left and no connection is on *)
(* its way returns.                                                        *)
IdleServerIsDestroyed ==
    (/\ destroyer = "locked" /\ stopping = 1
     /\ \A c \in Conns : state[c] \in {"away", "deleted"}
     /\ \A w \in Workers : uncounting[w] = NoConn)
    ~> destroyer = "gone"

(* What deleting a server is for, in the tests and everywhere else         *)
(* (tests/proofnetwork/abstractrestserver_test.cpp:137): the destructor    *)
(* returns.  It does not while a client is connected: the pool is locked,  *)
(* and the worker that deletes the socket waits to lock it too.            *)
DestructorReturns == destroyer = "locked" ~> destroyer = "gone"

=============================================================================
