# A verification development for Proof

Proof is a C++/Qt library for applications: `proofcore` (objects, cross-thread calls, caches,
settings, error notification, logs, start-up) and `proofnetwork` (REST clients and servers, AMQP, SMTP, entities).
This directory models the parts of it in which threads, event loops, futures and network replies
meet, checks the models with TLC and proves theorems about them with TLAPS. Paths below are relative
to `src/`; `PROJECT.json` maps every definition to the lines it models.

## 1. Inventory

| component | files | state | operations | hard part |
|---|---|---|---|---|
| NetworkScheduler | `src/proofnetwork/restclient.cpp:58-100, 789-860` | queue of thunks, slots in use per host, a future per request | `addRequest`, `schedule`, `decreaseUsage` | any thread adds; `schedule()` is re-entered by the callbacks it runs; cancellation at any point |
| RestClient | `restclient.cpp:111-787` | reply timers, start times, credentials, headers, cookies | `get` ... `deleteResource`, `handleReply`, `cleanupReplyHandler`, `createUrl`, `createNetworkRequest` | a timeout against a late answer; a mail about a slow network, at most one in a while |
| BaseRestApi | `baserestapi.cpp`, `baserestapi_p.h` | `allReplies` | requests, `configureReply`, `abortAllRequests` | four threads, one reply, two promises |
| HttpDownloader | `httpdownloader.cpp` | none of its own; per download a reply, a promise, a buffer or a device | `download`, `downloadTo` | the reply may end, or the downloader be destroyed, between any two of its callbacks |
| AbstractRestServer | `abstractrestserver.cpp` | worker pool and its counters, two registries of sockets, per-socket parser, tree of methods | accept, read, find the method, check credentials, answer, delete socket, destructor | raw addresses in queued events, answers from any thread, locks held while waiting |
| HttpParser | `httpparser.cpp` | state, kept bytes, content length | `parseNextPart` | a request may be cut anywhere |
| ProofObject calls | `proofobject.h`, `proofobject.cpp` | id counter, connections of a shared signal | `call`, `safeCall` (3 forms) | nested event loops, a broadcast signal, blocking connections |
| ObjectsCache, Expirator | `objectscache.h`, `expirator.cpp` | strong, weak and guaranteed maps, expiration queue | `value`, `add`, `remove`, expiry | two locks in a row, weak references that die in between |
| NetworkDataEntity | `networkdataentity.cpp`, `qmlwrappers/` | spin lock per entity | `updateFrom` | two locks, taken with back-off |
| Settings, SettingsGroup | `settings.cpp`, `settingsgroup.cpp` | local and global values, a file for each, change signals | `value`, `setValue`, `deleteValue`, `group`, `deleteGroup`, `sync` | an overlay that is kept, saved and announced by signals only |
| AMQP clients | `abstractamqpclient.cpp` and 4 more | connection, tries left, queues, exchanges | connect, reconnect, publish, consume | every reconnection runs the same set-up again; errors are counted down |
| SmtpClient | `smtpclient.cpp` | settings; the conversation is local to a mail | `sendTextMail` | replies in pieces, setters meanwhile, a server that ends early |
| CoreApplication | `coreapplication.cpp` | versions last migrated to, initializers, language | `execMigrations`, start-up, crash handler | a crash between two migrations, upgrades and downgrades |
| ErrorNotifier, handlers | `errornotifier.cpp`, 3 handlers | handlers, messages for the first of them, times of packs | `notify`, `registerHandler`, `unregisterHandler` | registration in three steps against notification |
| Logs | `logs.cpp` | the open file, its date, archivers | message handler, timers, archivers | midnight between opening and writing; an archiver that reads a file and removes it |
| Humanizer, UrlQueryBuilder, User, registries, library init | several | none or plain data | formatting, registration | nothing a model checker would find, but for `User::updateSelf`, which is part of entities |

How they interact. BaseRestApi and HttpDownloader call RestClient, which puts a timer on every reply
and sends every request through the one NetworkScheduler. The scheduler answers with an asynqro
`CancelableFuture<QNetworkReply *>`; BaseRestApi turns it into a future of the answer with handlers
queued to the api object's thread. The REST server and all sorts of services use
`ProofObject::call` to get work done on another thread. HttpParser is owned by a socket of the
server. NetworkDataEntity objects are kept in ObjectsCache instances, which may use Expirator.
CoreApplication reads Settings when it starts, sets up Logs and runs migrations; Logs and the
handlers are fed from any thread. RestClient and the mail handler of ErrorNotifier use SmtpClient.

What makes the parts correct:

* NetworkScheduler: counters equal the slots really held; the limit holds; oldest first per host;
  no request is forgotten; a canceled request is not sent.
* BaseRestApi: one answer per call, the right one; every reply deleted once and not used afterwards;
  every open call can be aborted; each call is answered in the end.
* AbstractRestServer: load counters and registries exact; no event meets a deleted socket; a method
  is called once per connection; an answer is lost only with its connection; the server can stop.
* ProofObject calls: the right method once, on the right thread, in order; a blocking call returns
  after its method did; nobody waits for ever.
* HttpParser: the verdict depends on the bytes, not on how they were cut.
* Caches: an object lives at least as long as promised, and is created once per key.
* Entities: two updates never see each other half-done and both end.
* RestClient: a timer and a start time for exactly the replies that run; slow ones are told.
* REST methods: a request reaches the one method it names, with credentials where these are asked.
* Settings: what is announced is what a reader sees, and what the next start will see.
* AMQP: a client that lost its connection tries again as often as promised, and reports once; a
  message is handled once, a published one is answered once.
* SmtpClient: the server gets the mail that was meant; success means it took it.
* CoreApplication: no migration is lost. ErrorNotifier: no early message is lost, and packs are held
  back as long as promised. Logs: no line is lost. HttpDownloader: a download is whole or fails.

The hazards, each at its line, are listed in `PROJECT.json`.

## 2. Plan

1. `HostSlots` (abstract) and `NetworkScheduler`, with `NetworkSchedulerProofs`. **Done.**
2. `RestApi`: configureReply over the scheduler's abstract specification, with `RestApiProofs`.
   **Done.**
3. `RestServer` with `RestServerProofs` and `HttpParser` with `HttpParserProofs`. **Done.**
4. `ProofCalls` with `ProofCallsProofs`. **Done.**
5. `ObjectsCaches` with `ObjectsCachesProofs`: `value()` that reads under one lock and repairs under
   another (`objectscache.h:155-182`), expiry times that are rounded (`expirator.cpp:76-109`).
   **Done.**
6. `Entities`: `updateFrom` and its two spin locks (`networkdataentity.cpp:31-66`), with the abstract
   `AtomicUpdates`, and its refinement in `ServicesProofs`. **Done.**
7. The services around the core, each a module of its own, put side by side by `Services` (with the
   entities), to which `MCServices` gives small values: `RestClient`, `RestExchange` (a request from the client's settings to the server's tree of
   methods), `Settings`, `Application`, `ErrorNotifier`, `SmtpClient`, `AmqpClient` with
   `AmqpReceiver` and `AmqpPublisher`, `HttpDownloader`, `Logs`; with `ServicesProofs` and `ExchangeProofs`. **Done.**
8. Left: requests that are queued when their RestClient is destroyed; `startListen()` while workers
   run; the dirty tracking of ProofObject; changes of the guaranteed time of a cache.

Compositions: `RestApi` runs on `HostSlots`, which `NetworkScheduler` is proved to implement;
`RestExchange` composes RestClient's requests with the server's handling of them; `AmqpReceiver` and
`AmqpPublisher` extend `AmqpClient`; `ErrorNotifier` composes the notifier with two handlers.

Proofs, in order of worth: the scheduler, the REST server, the api calls, the cross-thread calls, the
parser, the caches, the entities and the services, each with all the safety properties its runs
check. **Done**, see section 6: no safety property of a run is without its theorem, and what is left to
the runs alone is liveness. No module declares a RECURSIVE operator.

## 3. The modules

Every component module has its state as VARIABLES, an `Init`, one action per handler or, where
other threads can come in between, per step of a handler, and ends with its properties. Names of
variables and actions are those of the code. Operators that begin with `Mut` are plausible bugs
(a dropped guard, a missed reset): each property is checked to fail when the definition it is about
is replaced by one of them. They are never part of `Next`.

### HostSlots and NetworkScheduler

`HostSlots` is the promise in three actions: a request arrives, is granted a slot when it is the
oldest one waiting for a host with fewer than `Limit` slots taken, and gives the slot back.

`NetworkScheduler` is `restclient.cpp:789-860`. `requests`, `usages` and the `Free`,
`IncreaseUsage`, `DecreaseUsage` operators are the members of the same names and what is done with
them. One thread, that of the QNetworkAccessManager, runs `schedule()`; its position is `pc`, and
`frames` is the stack of activations, because a callback run by `promise.success()` may call
`addRequest()` or make a reply emit, which calls `schedule()` again. The lambda put in the queue
is cut at each place where another thread's `cancel()` makes a difference: at `isFilled()`
(`DecideToSend`, `SkipCanceled`), at the sending (`Send`) and at `success()` (`FillPromise`,
`FillTooLate`). `AddRequest` and `PostSchedule` are the two halves of `addRequest()` on another
thread. `Signal` is the first of `finished`, `error` and `sslErrors` that fills the checker and
frees the slot. asynqro's `cancel()` and Qt's replies are modelled from their use here.

### RestApi

`configureReply` (`baserestapi.cpp:209-273`), `rememberReply`, `abortAllRequests` and
`handleReply` with its timer. Threads: the caller's (`Request`, `Attach`, `Remember`), the qnam
thread (`Dispatch` ... `Deliver`, the signals, `Timeout`), the api's (`OnFinished`, `OnError`,
`OnSslErrors`, `DeleteReply`) and the pool's (`RunTask`). The callback on the reply's future is
run on the caller's thread when the future is already filled, on the qnam thread otherwise; it is
cut at `isFilled()`, at the connection of the failure handler, at `isFinished()` and at each
`connect`. The scheduler is `INSTANCE HostSlots`. A reply ends `clean`, `refused` (an answer the
server gave that is an error) or `broken`.

### RestServer

The server thread (`Accept`, `AppendWorker`, `PostConnection`, because the lock on the pool is
released in between), the worker threads with their event queues, late answers from any thread
(`LookUp` under the mutex, then `PostAnswer`), and the destructor (`StopListen`, `StopNext`,
`AllStopped`). `deleteSocket()` is `DeleteSocket` and, after it, `Uncount`, which needs the lock the
destructor holds. Assumptions about the surroundings:

* Qt handles events posted to a thread before it looks at sockets: a socket has at most one
  `readyRead` or `disconnected` event queued.
* A socket's address may be given to a new socket once it is free.
* A method is answered at once, later by any thread, or never; if it answers more than once the
  later answers find no socket, as after the first the connection is closed.
* `setSuggestedMaxThreadsCount()` is called before the server is started.

### ProofCalls

All calls through one invoker: `defaultInvoker()` for objects that are not ProofObjects, or one
object called by many threads. A thread is a stack of frames: calls it makes and methods it runs.
`Visit` is Qt's delivery of the signal to one connection; it blocks the emitter at a
BlockingQueuedConnection even when that connection belongs to another call.

### HttpParser

`parseNextPart` over a small alphabet: a token for text without an end of line, `cr` and `nl`; `Number`
has the tokens that are a Content-Length, and what `toULongLong()` makes of them. One step is one round of the loop over the states. `Verdict` says what a sequence of bytes deserves,
without states and parts. A body longer than announced is refused if it is received that way and
accepted if the parser is asked just after the announced part; both are what the bytes received so
far deserve, and a parser that has answered is not asked again (`abstractrestserver.cpp:802`).

### ObjectsCaches

The weak, the strong and the guaranteed cache of one type of objects, which ask each other, and
Expirator, the owner of objects with time left. Objects are owned by threads (`held`), by the strong
cache and by Expirator (`controlled`), and are `Alive` as long as one of them has them; an entry of
a weak cache is a bare name that may outlive its object. `AddObject` and `AddCreated` are one step,
as the code holds the cache's write lock; for the guaranteed cache a second step, `AddToExpirator`,
follows outside of it. `value()` is `Value`, `Lookup` (the read lock), `ToStrongRef` (no lock) and
`Clean` (the write lock), once for each cache it asks; `todo` are the caches left. `Tick` and
`TimerEvent` are the clock and Expirator's timer. `cached` and `promised` record what was added and
until when it has to live; no guard reads them. Assumptions:

* A creator returns an object and does not use the caches, whose lock is held while it runs.
* Objects other than null are added, and never under the empty key, for which nothing is stored.
* The guaranteed time is set before the caches are used.

### Entities and AtomicUpdates

`AtomicUpdates` is the promise: an entity takes over what another one is in one step. `Entities` is
`updateFrom` with the steps other threads can come between: `Lock` (the entity's own spin lock, waited
for), `TryLock` or `BackOff` (the other one's, only tried), `CopyField` for each setter of
`updateSelf`, `Unlock`. A field is a small set of versions; versions that agree are one reply's.
`markDirty` takes no lock and may come at any point.

### RestClient and RestExchange

`RestClient` is what happens on the network thread to each reply: `Request` queues it, `HandleReply`
puts a timer (or, for `get(url, timeout)`, one of another length) and a start time on it, `SslErrors`,
`Error`, `Finished` and `Timeout` end it, each through `Cleanup`, which also decides on the mail about
a slow network; `CleanupAll` is what the destructor posts. `RestExchange` is `createUrl` and `createNetworkRequest`, then
`tryToCallMethod` with `findMethod`, `parseAuth` and `checkBasicAuth`. The server's tree of methods is
the set of their paths, a node being a prefix of one; variable parts of a URL are what is left below
the method's node. `Best` says without a walk which method a path should reach.

### Settings

Public methods block their callers and run on one thread, but call each other and are called back
by signals, so each is an operator from a state to the next one: `SetLocal`, `SetGlobal` with
`FollowGlobal` (the handler a local group connects to its global one), `Save`
(`groupValueChanged`), `Fill` (reading a file; a local group left over from a global one is filled too). `told` and `quiet` record what listeners know.

### Application, ErrorNotifier, Logs

`Application` goes from start to start, of newer or older programs, with a crash possible anywhere; a
migration may store a version itself, which restarts the round and passes over what that version has behind
it (`passed`). `ErrorNotifier` has registration in the
three steps in which the code does it, with the look at the handlers outside of the mutex; a handler
put in place of another one (`Insert`) knows nothing of what that one remembered.
`Logs` has the message handler (open and write are two steps, as a line may be written past midnight),
the archivers of the pool (read, write, remove), crashes, a file that cannot be opened (its line is dropped), and names with dots, whose current file is
taken for an old one. `disk` and `archives` are functions from the files that exist: `NoLineIsLost` excepts these names, and `DottedLogs` checks that a change from one
of them to a plain name and back does no harm to the plain one.

### SmtpClient

The callbacks of `sendTextMail` by the state they are in. The server answers in chunks, a reply may be
cut in two, and `readAll()` takes any number of chunks. Each setter is a step of its own and may come
meanwhile; `Connect` is apart from `SendTextMail`, as the type of the connection is read for each.

### AmqpClient, AmqpReceiver, AmqpPublisher

qamqp is not in the repository: its signals come in the orders its use allows. `tries` are counted down
by socket errors and reset by each successful connection; `unreported` counts errors kept silent.
`consumers` counts the connections of `messageReceived`, one more on each reconnection. `disconnectFromHost()` of the library only begins the goodbye: the link
goes down with `Disconnected`, and messages may arrive until then.

### HttpDownloader

One download by either method. Its continuation runs on the network thread or the caller's, and is cut
at `isFinished()` and at the connections; `missed` says that the reply ended in between. `lost` says that
`dest` took less than it was given, which nobody looks at.

## 4. The runs

| run | instance | states | shows |
|---|---|---|---|
| `scheduler` | 3 requests, one of them without a host, limit 1, one request that ignores SSL errors | 118 000 | the slots are exact under all cancellations and re-entries, the limit holds, no wake-up is lost, a request canceled in the queue is never sent, HostSlots is implemented, every request is taken |
| `scheduler_leak` | same, no ignored SSL errors | violation | a leaked slot makes the queue wait for nothing (finding 1) |
| `answers` | 2 calls, limit 1, one of them ignoring SSL errors | 232 000 | the answers are right, replies are released, a deleted reply is used by two late steps only, calls are answered |
| `server` | 3 connections, 3 addresses, 2 workers | 474 000 | counters and registries exact, events meet their socket, one method call per connection, no answer lost |
| `server_live` | 2 connections, 2 addresses, 2 workers | 37 000 | ended connections are uncounted, an idle server can be destroyed |
| `server_destroy` | same | violation | the destructor of a server with a client never returns (finding 2) |
| `calls` | 2 threads, 3 calls of all kinds | 71 000 | the right method, once, on its thread, in order; connections end; callers with event loops return |
| `calls_wait` | 2 threads, 2 calls | violation | a plain call waits for a BlockEvents call of another thread (finding 3) |
| `parser` | start line, up to two headers of each kind, up to three body bytes, all cuts | 74 000 | verdict and body fit the bytes received |
| `caches` | 2 threads, 2 objects, 1 key, 1 time unit guaranteed, rounding to 2, time up to 2 | 3 690 000 | what was added is found while it lives, and lives as long as guaranteed |
| `caches_others` | 1 thread, otherwise the same | violation | a dead entry hides the other caches (finding 4) |
| `services` | see below | 1 549 000 | replies timed and slow ones told, requests reach their method, settings agree, migrations are run, errors notified, mails sent as meant, AMQP messages handled and answered once, downloads whole, lines kept, entities updated as if in one step |

`services` is one run of eleven modules. They share no state, so `Services` chooses one of them
(`part`) in its initial states and lets it take all the steps; `MCServices` only gives the constants their
values. The variables of the others are "off"
all the time, and the reachable states are the sum and not the product of theirs. Each property speaks of
the part it is about. The entities' variables are in place in every part, as the refinement is a
property of all behaviours. Its bounds: two requests and times up to 6 with timeouts 1 and 4, a slow
time of 2 and a mail every 3; two credentials, methods `a` and `a/b/a` and `status` under the prefix `b` or none,
eight paths; one key, two values, one group below the main one; four migrations with versions 1 to 3,
one of which stores a version; three messages, two of them of one pack, three registrations of two
handlers, times up to 2; three mails (dots that are doubled right, dots that are not, nobody to send to);
two queues or exchanges, two messages, at most two connections of one signal told apart; a body of three
pieces; three days with two lines and two archivers, or two days with one of each for a plain and a
dotted name; three entities, two fields, two threads. A second entity between the two of an update, a second migration in
a round, a name that is a prefix of another, an archiver for each of two files: these are the smallest
instances in which the hazards of these parts occur.

Why the bounds are enough to meet the interesting cases. With limit 1 two requests of a host are
enough for one to wait for the other, and the third, without a host, passes the queue; a limit of 6
only makes the same states larger, and the proofs hold for every limit. Two api calls make one wait
for the slot of the other and let `abortAllRequests` meet calls in different phases. Three
connections on two workers make two share one, and an address can be used again by a third socket
while an answer for the first is under way. Three calls allow one nested in another with a third
from the opposite thread. Two headers let a Content-Length follow, precede or repeat another. Keys of a
cache do not touch each other, so one is enough; two objects let one replace the other after its
death was seen, and a guaranteed time of one unit with times rounded to two ends both at and between
rounded times. The proofs hold for any of these. The constants `Limit`, `MaxCalls`, `MaxThreads`,
`MaxTime` are named in the configurations. `posted` in
NetworkScheduler counts events and is bounded by the requests and their signals. Symmetry is used
only in `server` and `caches`, which check no liveness; connections and addresses, threads and
objects are interchangeable there.

Deadlock is checked for the scheduler, where `Terminated` names the states in which it has nothing
to do. The other systems may really stop: all calls answered, all clients gone, the parser done, and
`CHECK_DEADLOCK FALSE` says so. That nothing stops early there is what the liveness properties say,
except for `HttpParser`, whose rounds end by construction, and `ObjectsCaches`, whose calls have a
bounded number of steps, and the services, for which no liveness is claimed: most of them end only with
their bounds.

The type invariants of `RestApi`, `RestServer` and `ProofCalls` are conjuncts of `OkMeansClean`,
`CountsAreExact` and `RunsOnItsThread`; `HandlersStayAway` is one of `OnlyLateStepsTouchDeleted`.

### Fairness

* `NetworkScheduler`: the qnam thread runs its event loop and returns from every handler; a thread
  inside `addRequest()` goes on; a reply ends, because the network answers or because the timer
  `handleReply()` starts aborts it. Nothing is assumed of callers and of `cancel()`.
* `RestApi`: all threads go on, queued handlers are delivered, a reply's timer fires. The network
  itself promises nothing.
* `RestServer`: the server's and the workers' threads go on, a written answer is flushed, a
  destructor that started goes on. Clients may stay connected for ever and methods may never answer.
* `ProofCalls`: threads run and methods return.

All are weak: each action stays enabled until it is taken, or another step of the same thread is.

## 5. What the runs found

1. `scheduler_leak`: `CHANGELOG.md:96` says requests are queued "if more than 6 are already
   running". A future canceled between `isFilled()` and `success()` leaves its request running with
   no checker connected, and its slot is never freed; after `limit` such cancellations the host
   is not served any more. `OnlyLateCancelLeaks` shows that this is the only way.
2. `server_destroy`: the destructor holds `threadPoolLock` for writing while `stop()` waits for a
   worker, whose `deleteSocket()` needs the lock. `IdleServerIsDestroyed` shows that a server without
   connections is destroyed.
3. `calls_wait`: `proofobject_test.cpp:89` has a plain `safeCall` return at once; when
   another thread's BlockEvents call on the same invoker is under way it waits for that call's thread,
   and for ever if it is itself that thread. `CallsComplete` shows that calls without BlockEvents do
   not have this problem.
4. `caches_others`: `objectscache_test.cpp:350` has `value()` return what another cache has. A weak or
   guaranteed cache with the entry of an object that died returns nothing instead, once: the entry is
   then cleaned up, and the next call asks the others (`objectscache.h:160-168`).

Limits that are not findings, as the code promises nothing else:

* A callback that runs on the caller's thread may miss the signal of a reply that ends between
  `isFinished()` and the connects (`baserestapi.cpp:228-268`). `Answered` excepts the calls for which
  that happened (`Missed`); one whose callback runs there in time must be answered.
* Such a callback may also connect `error` and `sslErrors` (237-252) after the handler of `finished` has
  ended the call and its reply was deleted. This and the abort of a call canceled while its success
  waits for a pool thread (139, 224) are the two uses of a deleted reply there are, which is what
  `OnlyLateStepsTouchDeleted` says.
* A call canceled after its handlers were connected, or between `isFilled()` and `success()`, leaves its
  reply to nobody (`RepliesAreReleased` excepts both).
* `sslErrors` frees the slot of a host (`restclient.cpp:799`) although a reply whose client ignores SSL
  errors goes on (690-691), so that more than `limit` replies run. `HostLimit` leaves these replies out.
* A late answer posted by address may reach a later client at the same address
  (`abstractrestserver.cpp:829`).

Some hazards are defects of the code that the property naming them excepts: it then shows that
nothing but the defect happens. These are the replies that go on after ignored SSL
errors (`HostLimit`), the missed signal (`Answered`), the settings that are not
announced (`SettingsAgree`), the second answer and the hidden method (`RequestsAreAnswered`), the
messages overlooked by a registration (`ErrorsAreNotified`), the download whose reply ended unseen
(`DownloadsAreExact`) and two updates that back off for ever (a safety property cannot speak of it).
The exceptions are listed here and in the notes of `PROJECT.json`.

Noticed while modelling the services, and left to the models to allow, or outside of them:

* `restclient.cpp:203-206` maps the setting "starttls" to `Ssl` and "ssl" to `StartTls`.
* A request is answered twice when its Authorization header is not a Basic one: once by `parseAuth` and once
  by `tryToCallMethod` (`abstractrestserver.cpp:541-550, 690-698`); `AnsweredOnce` names this exception.
  `findMethod` does not go back: a longer name the request follows only in part hides a shorter
  one (`Hidden`).
* A value set to what the global group has is neither saved nor announced (`settingsgroup.cpp:199`);
  deleting a global group whose local one has values leaves that one with a dangling link. The
  properties except these by `quiet` and `dangling`.
* Two migrations that move the stored version to different values may repeat for ever; a migration
  may run twice when the program crashes before the versions are stored.
* `ErrorNotifier::notify` calls handlers with its mutex held (`errornotifier.cpp:70-75`); when the only
  handler is replaced, messages of that moment stay in the buffer for good (`Overlooked`).
* SmtpClient has no timeout; a reply cut within its code is an unknown state; the connection type is read
  again after the socket was made (`smtpclient.cpp:219, 290`), so that a plain socket may be cast to an
  encrypted one (`badCast`) when the type was changed meanwhile; consecutive or last
  lone dots and lines that begin with a dot are not doubled (188), which `TakenAsAsked` excepts.
* `startConsuming` connects `messageReceived` again on every reconnection
  (`abstractamqpreceiver.cpp:96`), harmless since an empty queue is asked first.
* `dest->write`'s result is ignored by HttpDownloader: a destination that takes less than it is given
  (`lost`) gets a success all the same. A downloader destroyed meanwhile leaves the promise of
  `download()` unfilled. A list of `sslErrors` without an error, after which the reply would be deleted
  with the promise unfilled (114-129, 201-216), is left out: Qt emits the signal for errors only.
* Two archivers of one file exist when `setLogsStoragePath` is called twice; neither `gzopen` nor
  `gzwrite` is checked before the file is removed. `NoLineIsLost` excepts the files spoiled this way.

## 6. What is proved

`NetworkSchedulerProofs`, for any finite set of requests, any hosts and any positive limit:

* `Inductive`: every step preserves `IInv`;
* `CountersAreExact`: `Spec => [](TypeOK /\ SlotAccounting)`;
* `HostLimitHolds`: `Spec => []HostLimit`;
* `SchedulerImplementsSlots`: `Spec => ImplementsSlots`;
* `WakeupsAreNotLost`: `Spec => []NoLostWakeup`;
* `OnlyLateCancelsLeak`: `Spec => []OnlyLateCancelLeaks`;
* `CanceledRequestsAreNotSent`: `Spec => CanceledInQueueIsNeverSent`.

The argument. `SlotAccounting` alone is not inductive. To free a slot a step must know that the slot
was held by exactly the request it frees it for, and to take one that it was not held before.
`QueueInv` says so for the queue: an entry is there once, is not sent and holds nothing. `PhaseInv`
says so for the others: an armed checker belongs to a running reply, a reply runs only while its
checker has not fired, and the candidate of the loop is in the phase its `pc` says. `IInv` is their
conjunction with `TypeOK`; the `scheduler` run checks it too. A counter is compared with a
cardinality, so each step that changes a slot goes through one of three lemmas: `SameHolders`,
`NewHolder`, `OldHolder`. The limit follows since a running reply holds a slot, and the
refinement since taking a candidate is the abstract `Grant` of the first queued request of its host.
The three other theorems add little to `IInv`. A wake-up is not lost since whoever makes a request
eligible, by queueing it or by freeing a slot, has an activation of `schedule()` running or posted, and
an activation ends only where it has found no candidate: `NoLostWakeup` is inductive with `IInv`. For the leaks, `LeakInv` says that a request
that was sent and holds a slot with no checker to free it has a canceled promise: `FillTooLate` is the
only step that brings this about, and a canceled promise stays canceled. A request canceled in the
queue is `Dropped`: it stays so as long as no thunk is past `isFilled()` for it.

Assumptions: `HostsAssumption`, `HostOfAssumption`, `LimitAssumption`, `SslAssumption`,
`NoRequestAssumption` of `NetworkScheduler`, which TLC evaluates in its runs.

`RestApiProofs`, for any finite set of calls, any hosts and any positive limit:

* `SuccessesAreClean`: `Spec => []OkMeansClean`;
* `OpenCallsAreRemembered`: `Spec => []RememberedWhilePending`;
* `RepliesAreAlwaysReleased`: `Spec => []RepliesAreReleased`;
* `DeletedIsTouchedOnlyLate`: `Spec => OnlyLateStepsTouchDeleted`.

The argument. `CallInv` says of one call where it is on the way from the scheduler's queue to the
thunk (`DispatchInv`), what its callback can still do (`CallbackInv`), which signals of its reply can
be queued (`InboxInv`: none without a connection, "finished" behind all others), and who may still fill
its promise (`AnswerInv`). Four threads act on a call, but every step is about one: `OneCall` shows
that the invariant of all others is kept by what such a step leaves `Untouched`, and `Touched` has what
an ending reply does to the queue, on whichever thread it is made to end. That a deleted
reply is used by late steps only comes from `FinishedLast`: the handler that deletes it is the last to be
called, so that a handler still queued, or a callback still connecting, finds the call decided.

`RestServerProofs`, for any finite set of connections, any addresses and any suggested maximum of threads:

* `CountsAlwaysExact`: `Spec => []CountsAreExact`;
* `RegistriesAlwaysAgree`: `Spec => []RegistriesAgree`;
* `EventsAlwaysMeetTheirSocket`: `Spec => []EventsMeetTheirSocket`;
* `AlwaysAskedOnce`: `Spec => []AskedOnce`;
* `AnswersAreNeverLost`: `Spec => []AnswersAreNotLost`.

The argument. A worker's counter is the number of connections it was chosen for and that are not
uncounted (`Counts`); as the counter and the socket are changed under different locks, `PoolInv` keeps
apart the server thread's connection between its steps and the one between `DeleteSocket` and
`Uncount`. An event names a socket by its address, and an address is used again; `QueueInv` says which
events can still be queued for a connection in each of its phases, and `OrderInv` that a socket's
`disconnected` is behind its `readyRead` and the only one, so that no event of a socket is left when its
address is free again; a worker the destructor waits for may be `Stuck` before it gets that far, and
then handles no event at all.
`AddressesDiffer` and `RegistriesAgree` make the address in an answer mean one socket. That a full
pool has a worker to choose needs the least of the counters (`SmallestIn`).

`ProofCallsProofs`, for any finite set of threads and any number of calls of any kinds:

* `MethodsRunOnTheirThread`: `Spec => []RunsOnItsThread`;
* `BlockingCallsReturnDone`: `Spec => []BlockingCallsAreDone`;
* `CallsStartInOrder`: `Spec => []CallsKeepTheirOrder`;
* `ConnectionsAlwaysEnd`: `Spec => []ConnectionsEnd`.

The argument. Every signal reaches the slots of all calls, so the invariant follows the one event of
a call that counts, that of its own emission at its own connection: it is either yet to be sent, by
the newest frame of the caller, or was posted, and never both (`SentInv`). It is posted once
(`InboxInv`) since a connection is visited once, and its connection is there when it is visited
(`EndInv`). `StackInv` says that only the newest frame of a thread is anywhere but in a method or a
waiting loop, so that a release by an event finds the blocked frame on top: `BlockInv` has it that a
thread is blocked by one event at most, queued or in the hands of one frame. Two calls from one thread
to another keep their order since the earlier one's event is posted before the later call begins
(`OrderInv`). The steps are grouped by what they do to a stack: change, leave or enter the newest frame
(`Tops`, `Pops`, `Pushes`).

`HttpParserProofs`, for any bytes and Content-Lengths, and any way of cutting the bytes into parts:

* `VerdictAlwaysFitsBytes`: `Spec => []VerdictFitsBytes`;
* `BodyIsAlwaysExact`: `Spec => []BodyIsExact`.

The argument. Between two rounds the parser is at a byte `q` of all that is sent, not only of what has
arrived (`Position`): at the beginning of a line whose predecessors are those of a head (`AtLine`), or
after the head of a request whose body is not complete (`AtBody`); `m_data` is what follows up to the
bytes taken. A line taken is the next one after `q` (`LineIsTaken`), whatever parts it came in, and
how one more line changes `HeadUpTo`, `HeadEnds` and `Announced` is said by lemmas about sequences
(`HeadUpToNext`, `HeadEndsNext`, `HeadIsBad`, `AnnouncedNext`). Because a verdict speaks of the bytes
received, and the invariant of the bytes sent, the `Beginning` lemmas show that a beginning has the
lines, heads and lengths of the whole as far as it goes. No induction is needed: the invariant carries
the lines taken, and greatest and least positions exist because `<` is well-founded.

`ObjectsCachesProofs`, for any threads, objects, keys, guaranteed time and rounding step:

* `CachesKeepIInv`: `Spec => []IInv`;
* `CachedObjectsStayFound`: `Spec => []CachedObjectsAreFound`;
* `GuaranteedTimeIsKept`: `Spec => []LifeTimeIsGuaranteed`.

The argument. Nothing brings a dead object back (`NoRevival`): a thread comes to hold what it created
or what was alive. So an entry that `Clean` sees dead has lost nothing that could be found, and all
other steps change an entry together with its place in `cached` (`StillFound`, `InsertFound`). For
the lifetime `PromiseInv` says where an object with time left is: with the thread that adds it, which
holds it (`CallInv`), or in `controlled`, with a time no earlier than promised, because rounding ends
later than it starts (`RoundedIsLater`). `TypeOK` has it that objects yet to be created are nowhere.
Assumptions: `ObjectsAssumption` and `TimeAssumption`, which TLC evaluates.

`ServicesProofs`, of `Services`, whose steps are those of the one service a behaviour is about
(`StepsOfServices`), so that each has an invariant of its own:

* `RepliesAlwaysTimedAndTold`: `ServicesSpec => []RepliesAreTimedAndTold`;
* `MigrationsAlwaysRun`: `ServicesSpec => []MigrationsAreRun`;
* `ErrorsAlwaysNotified`: `ServicesSpec => []ErrorsAreNotified`;
* `DownloadsAlwaysExact`: `ServicesSpec => []DownloadsAreExact`;
* `MessagesAlwaysExact`: `ServicesSpec => []MessagesAreExact`;
* `LinesAlwaysKept`: `ServicesSpec => []LinesAreKept`;
* `EntitiesKeepInv`: `EntitiesSpec => []EntitiesInv`;
* `EntitiesImplement`: `EntitiesSpec => ImplementsAtomicUpdates`.

The arguments.

* RestClient: what is claimed is inductive once the types are known (`ClientInv`).
* Application: `MigrationInv` says that the stored versions are never ahead of what was run or passed over,
  and that a round has done all behind its start up to the migration it ran last; so whatever a crash
  leaves stored, the next round leaves none out.
* ErrorNotifier: `KeptInv` follows a message from the buffer to the handlers that will see it, through the
  three steps of a registration; `PackInv` says that the time kept for a pack is that of its last mail.
* HttpDownloader: what was read so far are the first pieces of the body, as long as the destination took
  all it was given (`BytesInOrder`); `StageInv` and
  `QueuedInv` say which signals may still be queued for the slots that are connected.
* AMQP: errors kept silent and tries left make the tries promised (`LinkInv`). For a receiver `QueueInv`
  says which queues have consumers, and that a closed connection has none; for a publisher
  `NumberedInv` and `OrderInv` say that messages are queued in the order of the numbers of each caller.
* Logs: every line is in the open file, in an old one, in a whole archive, or with an archiver that
  packs its file (`LinesInv`, `AllOfIt`); archivers are off the open file and, unless the file is spoiled,
  alone with theirs.
* Entities: `LocksAreExact` says which thread holds which lock, from which `OneUpdate` follows: while a
  thread updates, no other one updates its entity, nor the entity it reads, nor reads its own. So what it
  copied stays equal to what it copied from (`CopiesAgree`), and an entity nobody updates is whole
  (`NoTornEntity`). In the refinement an update counts from the moment both locks are held: from then
  on an entity stands for the one it is updated from (`Standing`). `TryLock` is the abstract step;
  copying changes nothing that is seen, and at `Unlock` the content is what the entity already stood for.

`ExchangeProofs`, of the three services that follow another one:

* `RequestsAlwaysAnswered`: `ServicesSpec => []RequestsAreAnswered`;
* `MailsAlwaysSent`: `ServicesSpec => []MailsAreSent`;
* `SettingsAlwaysAgree`: `ServicesSpec => []SettingsAgree`.

The arguments.

* Requests: the walk down the tree of methods goes as deep as a path of the tree follows the
  name (`DeepestIsDeepest`), and so stops at the longest method that begins the request, unless it
  followed another one further (`WalkFinds`, `FindMethodFinds`): that is `Best` with `Hidden` excepted.
  The prefix of the server only cuts what both have in common (`BehindPrefix`).
* Mails: client and server take turns. `OneCommand` says that either one command is under way or its
  answer is, and that chunks the client does not understand come before it; `MailProgress` says, for
  each state of the client, what the server has of the mail: the recipients given are the
  wanted ones without those still to do, and the login is that of the session. Lines are doubled and
  undone only where the doubling protects them.
* Settings: `GroupsAgree` is what holds even while files are read: a linked group knows its names and told
  its values, and a group that is not there has none. `FilesAgree` adds what the local file has. A value set
  keeps both (`SetKeeps`); operations on groups and the reading of files set many values, in the order of a
  fold (`SetAll`), and `AllKeeps` shows that no order matters: the fold over a finite set has the values
  its recursion names (`FoldExists`), and what one more key keeps, all of them keep (`SetAllKeeps`).
  Induction theorems of the library take an operator, which the provers cannot instantiate; these lemmas
  use induction over a set of numbers (`SetInduction`), which follows from `<` being well-founded.

Assumptions of both: the named ones of `Services` and `EntitiesAssumption`, most of them only the types of
constants. `RequestAssumption` has it that no method is registered under the empty path, which
`abstractrestserver.cpp:651` asserts; `SettingsAssumption`, that there are finitely many keys, as in any
settings.

The assumptions of all the theorems are the named ASSUMEs of the modules they are about, all of which TLC
evaluates in the runs of those modules.

Only model-checked: the liveness properties (`EventuallyTaken`, `Answered`,
`EndedConnectionsAreUncounted`, `IdleServerIsDestroyed`, `CallsComplete`), as liveness under fairness
and `ENABLED` are out of the reach of the provers used here. Every safety property of a passing run has
its theorem. That the bounded instances do meet the cases in which a property could fail is
shown by small changes of the code's steps, each of which makes a run find a property violated. No module uses a RECURSIVE operator.

## 7. What is not modelled

* In the modelled components: the data of requests and answers (queries, cookies, ports, JSON,
  attributes of server errors), formatting and colours of log lines, the texts of mails.
* Configuration changed while workers read it, and `startListen()` called again: a torn container is
  no state of the program. A RestClient destroyed while requests of it are queued
  (`restclient.cpp:440`), which is undefined behaviour.
* Time, outside of `ObjectsCaches`, `RestClient`, `ErrorNotifier` and `Logs`: timers fire at some point,
  the `wait(1000)` of the server's destructor is never over too early.
* The C++ memory model: `requests.empty()` without the lock is an atomic read in `CheckQueue`;
  `keys()` of a cache, which reads a map without its lock, is left out.
* That entities' threads which back off from each other go on at last: nothing but chance makes them.
* The option `-c` of Settings, which makes both storages use one file; crashes within a write to a
  file of the settings.
* `ProofObject`'s dirty tracking, the QML wrappers, the Papertrail handler.
* Not planned: Humanizer, UrlQueryBuilder, error registries, library initialisation, the third-party
  code under `3rdparty`: formatting and plain data without state that two actors share.
