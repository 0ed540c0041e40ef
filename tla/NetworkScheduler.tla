-------------------------- MODULE NetworkScheduler --------------------------
(***************************************************************************)
(* NetworkScheduler (restclient.cpp): the process-wide queue every         *)
(* RestClient request goes through.  Any thread may add a request; only    *)
(* the QNetworkAccessManager ("qnam") thread takes requests from the queue *)
(* and sends them, never more than Limit at a time to one host.            *)
(*                                                                         *)
(* schedule() is re-entered: callbacks of a request's future run inside    *)
(* the loop, on the qnam thread, and may add requests or abort replies,    *)
(* each of which calls schedule() again.  "frames" is the stack of its     *)
(* activations and "pc" the position in the innermost one:                 *)
(*    idle       no activation, the thread is in its event loop            *)
(*    check      while (!requests.empty()), read without the lock          *)
(*    take       the search for a candidate, under requestsLock            *)
(*    thunk      the candidate's lambda, at promise.isFilled()             *)
(*    send       at request(qnam)                                          *)
(*    fill       at promise.success(reply)                                 *)
(*    callbacks  inside the callbacks that promise.success runs            *)
(***************************************************************************)
EXTENDS Naturals, FiniteSets, SequencesExt

CONSTANTS
    Requests,         \* the addRequest() calls of a run
    Hosts,            \* non-empty host names
    NoHost,           \* the empty host name
    HostOf,           \* the host each request is for
    Limit,            \* NetworkScheduler::limit (6 in the code)
    IgnoreSslErrors,  \* requests of RestClients with ignoreSslErrors
    NoRequest         \* "no request" in candidate and frames

ASSUME HostsAssumption == NoHost \notin Hosts /\ IsFiniteSet(Requests)
ASSUME HostOfAssumption == HostOf \in [Requests -> Hosts \cup {NoHost}]
ASSUME LimitAssumption == Limit \in Nat \ {0}
ASSUME SslAssumption == IgnoreSslErrors \subseteq Requests
ASSUME NoRequestAssumption == NoRequest \notin Requests

VARIABLES
    requests,   \* the queue; every entry is the thunk of one request
    usages,     \* slots in use per host
    caller,     \* how far the addRequest() call of a request has got
    promise,    \* the promise behind the CancelableFuture of a request
    checker,    \* the promise that gives the slot back when filled
    reply,      \* the QNetworkReply of a request, owned by Qt
    posted,     \* queued schedule() calls in the qnam thread's event queue
    pc, frames, candidate

clientVars == <<caller, promise>>
qnamVars   == <<pc, frames, candidate>>
vars == <<requests, usages, clientVars, checker, reply, posted, qnamVars>>

-----------------------------------------------------------------------------

Init ==
    /\ requests = <<>>
    /\ usages = [h \in Hosts |-> 0]
    /\ caller = [r \in Requests |-> "idle"]
    /\ promise = [r \in Requests |-> "none"]
    /\ checker = [r \in Requests |-> "none"]
    /\ reply = [r \in Requests |-> "none"]
    /\ posted = 0
    /\ pc = "idle"
    /\ frames = <<>>
    /\ candidate = NoRequest

MutFreeOffByOne(h) == h \in Hosts => usages[h] <= Limit

(* usages[host] < limit; the empty host is never counted.                  *)
Free(h) == h \in Hosts => usages[h] < Limit

(* The slot of a candidate is taken under the lock that removed it.        *)
IncreaseUsage(h) ==
    usages' = [g \in Hosts |-> IF g = h THEN usages[g] + 1 ELSE usages[g]]

DecreaseUsage(h) ==
    usages' = [g \in Hosts |->
                  IF g = h /\ usages[g] > 0 THEN usages[g] - 1 ELSE usages[g]]

(* Handlers and callbacks run between events or inside promise.success.    *)
RunsCallbacks == pc \in {"idle", "callbacks"}

(* schedule() called on the qnam thread itself, by addRequest() of owner   *)
(* or, with NoRequest, by an event or a reply's signal.                    *)
EnterSchedule(owner) ==
    /\ frames' = <<owner>> \o frames
    /\ pc' = "check"
    /\ UNCHANGED candidate

(* schedule() returns, and with it the addRequest() call it belongs to.    *)
LeaveSchedule ==
    /\ frames' = Tail(frames)
    /\ pc' = IF Len(frames) = 1 THEN "idle" ELSE "callbacks"
    /\ caller' = [r \in Requests |->
                     IF r = Head(frames) THEN "returned" ELSE caller[r]]
    /\ UNCHANGED candidate

(* addRequest() up to requestsLock.unlock(); next is where the call is.    *)
Emplace(r, next) ==
    /\ caller[r] = "idle"
    /\ requests' = Append(requests, r)
    /\ promise' = [promise EXCEPT ![r] = "pending"]
    /\ caller' = [caller EXCEPT ![r] = next]

-----------------------------------------------------------------------------
(* Clients.                                                                *)

(* addRequest() on another thread: the entry is appended under the lock,   *)
(* then schedule() posts itself to the qnam thread.                        *)
AddRequest(r) ==
    /\ Emplace(r, "emplaced")
    /\ UNCHANGED <<usages, checker, reply, posted, qnamVars>>

MutForgetSchedule(r) ==
    /\ caller[r] = "emplaced"
    /\ caller' = [caller EXCEPT ![r] = "returned"]
    /\ UNCHANGED <<requests, usages, promise, checker, reply, posted, qnamVars>>

PostSchedule(r) ==
    /\ caller[r] = "emplaced"
    /\ posted' = posted + 1
    /\ caller' = [caller EXCEPT ![r] = "returned"]
    /\ UNCHANGED <<requests, usages, promise, checker, reply, qnamVars>>

(* addRequest() on the qnam thread runs schedule() before it returns.      *)
AddRequestOnQnam(r) ==
    /\ RunsCallbacks
    /\ Emplace(r, "scheduling")
    /\ EnterSchedule(r)
    /\ UNCHANGED <<usages, checker, reply, posted>>

(* CancelableFuture::cancel(), from any thread that has got the future.    *)
Cancel(r) ==
    /\ caller[r] = "returned"
    /\ promise[r] = "pending"
    /\ promise' = [promise EXCEPT ![r] = "canceled"]
    /\ UNCHANGED <<requests, usages, caller, checker, reply, posted, qnamVars>>

-----------------------------------------------------------------------------
(* The qnam thread.                                                        *)

RunPostedSchedule ==
    /\ pc = "idle"
    /\ posted > 0
    /\ posted' = posted - 1
    /\ EnterSchedule(NoRequest)
    /\ UNCHANGED <<requests, usages, clientVars, checker, reply>>

CheckQueue ==
    /\ pc = "check"
    /\ IF requests = <<>>
       THEN LeaveSchedule
       ELSE pc' = "take" /\ UNCHANGED <<frames, candidate, caller>>
    /\ UNCHANGED <<requests, usages, promise, checker, reply, posted>>

(* The first entry, in queue order, whose host has a free slot.            *)
MutLastCandidate(i) ==
    /\ Free(HostOf[requests[i]])
    /\ \A j \in i + 1 .. Len(requests) : ~ Free(HostOf[requests[j]])

IsCandidate(i) ==
    /\ Free(HostOf[requests[i]])
    /\ \A j \in 1 .. i - 1 : ~ Free(HostOf[requests[j]])

TakeCandidate ==
    /\ pc = "take"
    /\ \E i \in 1 .. Len(requests) :
          /\ IsCandidate(i)
          /\ candidate' = requests[i]
          /\ IncreaseUsage(HostOf[requests[i]])
          /\ requests' = RemoveAt(requests, i)
    /\ pc' = "thunk"
    /\ UNCHANGED <<clientVars, checker, reply, posted, frames>>

NoCandidate ==
    /\ pc = "take"
    /\ \A i \in 1 .. Len(requests) : ~ Free(HostOf[requests[i]])
    /\ LeaveSchedule
    /\ UNCHANGED <<requests, usages, promise, checker, reply, posted>>

MutSkipKeepsSlot ==
    /\ pc = "thunk"
    /\ promise[candidate] = "canceled"
    /\ pc' = "check"
    /\ UNCHANGED <<requests, usages, clientVars, checker, reply, posted, frames, candidate>>

SkipCanceled ==
    /\ pc = "thunk"
    /\ promise[candidate] = "canceled"
    /\ DecreaseUsage(HostOf[candidate])
    /\ pc' = "check"
    /\ UNCHANGED <<requests, clientVars, checker, reply, posted, frames, candidate>>

MutSendCanceled ==
    /\ pc = "thunk"
    /\ pc' = "send"
    /\ UNCHANGED <<requests, usages, clientVars, checker, reply, posted, frames, candidate>>

DecideToSend ==
    /\ pc = "thunk"
    /\ promise[candidate] = "pending"
    /\ pc' = "send"
    /\ UNCHANGED <<requests, usages, clientVars, checker, reply, posted, frames, candidate>>

Send ==
    /\ pc = "send"
    /\ reply' = [reply EXCEPT ![candidate] = "running"]
    /\ pc' = "fill"
    /\ UNCHANGED <<requests, usages, clientVars, checker, posted, frames, candidate>>

(* promise.success(reply) fills a pending promise and runs the callbacks;  *)
(* the first of them connects the reply's signals to the checker.  Filling *)
(* a promise canceled since isFilled() was read is ignored, and nothing is *)
(* connected.                                                              *)
FillPromise ==
    /\ pc = "fill"
    /\ promise[candidate] = "pending"
    /\ promise' = [promise EXCEPT ![candidate] = "sent"]
    /\ checker' = [checker EXCEPT ![candidate] = "armed"]
    /\ pc' = "callbacks"
    /\ UNCHANGED <<requests, usages, caller, reply, posted, frames, candidate>>

FillTooLate ==
    /\ pc = "fill"
    /\ promise[candidate] = "canceled"
    /\ pc' = "check"
    /\ UNCHANGED <<requests, usages, clientVars, checker, reply, posted, frames, candidate>>

CallbacksReturn ==
    /\ pc = "callbacks"
    /\ pc' = "check"
    /\ UNCHANGED <<requests, usages, clientVars, checker, reply, posted, frames, candidate>>

-----------------------------------------------------------------------------
MutSignalKeepsChecker(r) ==
    IF checker[r] = "armed"
    THEN DecreaseUsage(HostOf[r]) /\ EnterSchedule(NoRequest) /\ UNCHANGED checker
    ELSE UNCHANGED <<checker, usages, qnamVars>>

MutSignalNoSchedule(r) ==
    IF checker[r] = "armed"
    THEN /\ checker' = [checker EXCEPT ![r] = "fired"]
         /\ DecreaseUsage(HostOf[r])
         /\ UNCHANGED qnamVars
    ELSE UNCHANGED <<checker, usages, qnamVars>>

(* Signals of a reply, delivered on the qnam thread.  The first of         *)
(* finished, error and sslErrors fills the checker, which frees the slot   *)
(* and runs schedule(); the later ones find the checker filled.            *)

Signal(r) ==
    IF checker[r] = "armed"
    THEN /\ checker' = [checker EXCEPT ![r] = "fired"]
         /\ DecreaseUsage(HostOf[r])
         /\ EnterSchedule(NoRequest)
    ELSE UNCHANGED <<checker, usages, qnamVars>>

ReplyFinished(r) ==
    /\ RunsCallbacks
    /\ reply[r] \in {"running", "failed", "tolerated"}
    /\ reply' = [reply EXCEPT ![r] = "finished"]
    /\ Signal(r)
    /\ UNCHANGED <<requests, clientVars, posted>>

(* An error, or the abort() of a timeout or of a user; finished follows.   *)
ReplyError(r) ==
    /\ RunsCallbacks
    /\ reply[r] \in {"running", "tolerated"}
    /\ reply' = [reply EXCEPT ![r] = "failed"]
    /\ Signal(r)
    /\ UNCHANGED <<requests, clientVars, posted>>

(* With ignoreSslErrors the reply goes on, without it Qt fails the reply.  *)
ReplySslErrors(r) ==
    /\ pc = "idle"
    /\ reply[r] = "running"
    /\ reply' = [reply EXCEPT ![r] = IF r \in IgnoreSslErrors THEN "tolerated" ELSE "failed"]
    /\ Signal(r)
    /\ UNCHANGED <<requests, clientVars, posted>>

-----------------------------------------------------------------------------

ScheduleLoop == \/ CheckQueue \/ TakeCandidate \/ NoCandidate
                \/ SkipCanceled \/ DecideToSend \/ Send
                \/ FillPromise \/ FillTooLate \/ CallbacksReturn

(* Every request has been added and skipped or answered.                   *)
Terminated ==
    /\ pc = "idle"
    /\ posted = 0
    /\ \A r \in Requests : /\ caller[r] = "returned"
                          /\ promise[r] # "pending"
                          /\ reply[r] \in {"none", "finished"}
    /\ UNCHANGED vars

Next ==
    \/ \E r \in Requests : AddRequest(r) \/ PostSchedule(r)
                              \/ AddRequestOnQnam(r) \/ Cancel(r)
    \/ RunPostedSchedule
    \/ ScheduleLoop
    \/ \E r \in Requests : ReplyFinished(r) \/ ReplyError(r) \/ ReplySslErrors(r)
    \/ Terminated

Spec == Init /\ [][Next]_vars

(* The qnam thread runs its event loop and returns from every handler; a   *)
(* thread inside addRequest() goes on; a reply ends because the network    *)
(* answers or because handleReply()'s timer aborts it.                     *)
Fairness ==
    /\ WF_vars(RunPostedSchedule)
    /\ WF_vars(ScheduleLoop)
    /\ \A r \in Requests : WF_vars(PostSchedule(r)) /\ WF_vars(ReplyFinished(r))

FairSpec == Spec /\ Fairness

-----------------------------------------------------------------------------
(* The states of a slot.                                                   *)

(* Taken from the queue; the thunk has not yet decided what becomes of it. *)
Dispatching(r) == pc \in {"thunk", "send", "fill"} /\ candidate = r

(* Sent, with nobody left who would give the slot back.                    *)
Leaked(r) == reply[r] # "none" /\ checker[r] = "none" /\ ~ Dispatching(r)

Holds(r) == Dispatching(r) \/ checker[r] = "armed" \/ Leaked(r)

Holders(h) == {r \in Requests : HostOf[r] = h /\ Holds(r)}

Queued(r) == \E i \in 1 .. Len(requests) : requests[i] = r

-----------------------------------------------------------------------------
(* Properties.                                                             *)

(* Every variable keeps its type; a host's counter never passes limit.     *)
TypeOK ==
    /\ requests \in Seq(Requests)
    /\ usages \in [Hosts -> 0 .. Limit]
    /\ caller \in [Requests -> {"idle", "emplaced", "scheduling", "returned"}]
    /\ promise \in [Requests -> {"none", "pending", "canceled", "sent"}]
    /\ checker \in [Requests -> {"none", "armed", "fired"}]
    /\ reply \in [Requests -> {"none", "running", "failed", "tolerated", "finished"}]
    /\ posted \in Nat
    /\ pc \in {"idle", "check", "take", "thunk", "send", "fill", "callbacks"}
    /\ frames \in Seq(Requests \cup {NoRequest})
    /\ candidate \in Requests \cup {NoRequest}

(* usages[host] counts exactly the requests that were taken from the queue *)
(* and have not been skipped or answered, whatever the order of            *)
(* cancellations, signals and re-entered schedule() calls.                 *)
SlotAccounting == \A h \in Hosts : usages[h] = Cardinality(Holders(h))

(* Where a queued request stands: once in the queue, its promise made, not *)
(* sent, its slot not taken.                                               *)
QueueInv ==
    /\ \A r \in Requests :
          Queued(r) => /\ promise[r] \in {"pending", "canceled"}
                       /\ reply[r] = "none"
                       /\ ~ Holds(r)
    /\ \A i, j \in 1 .. Len(requests) : requests[i] = requests[j] => i = j

(* How the states of a request's call, promise, checker and reply belong   *)
(* together, and the stack of schedule() calls with the program counter.   *)
PhaseInv ==
    /\ \A r \in Requests :
          /\ caller[r] = "idle" => promise[r] = "none"
          /\ promise[r] = "none" => reply[r] = "none" /\ ~ Dispatching(r)
          /\ reply[r] = "none" => checker[r] = "none"
          /\ checker[r] = "armed" => reply[r] = "running"
          /\ reply[r] = "running" => checker[r] # "fired"
    /\ pc \in {"thunk", "send", "fill"} =>
          /\ candidate \in Requests
          /\ promise[candidate] \in {"pending", "canceled"}
          /\ checker[candidate] = "none"
          /\ reply[candidate] = IF pc = "fill" THEN "running" ELSE "none"
    /\ pc = "idle" <=> frames = <<>>

(* The inductive invariant behind SlotAccounting: the counter can only be  *)
(* kept exact because a queued request holds no slot and a reply that has  *)
(* signalled once has its checker filled.                                  *)
IInv == TypeOK /\ SlotAccounting /\ QueueInv /\ PhaseInv

(* At most limit replies of one host run at a time, as long as no reply    *)
(* goes on after an ignored SSL error (CHANGELOG: "queues requests to same *)
(* hosts if more than 6 are already running").                             *)
HostLimit ==
    \A h \in Hosts :
        Cardinality({r \in Requests : HostOf[r] = h /\ reply[r] = "running"}) <= Limit

(* A request that could be sent never waits for nothing: while some queued *)
(* request has a free slot, a schedule() call runs, is posted, or is about *)
(* to be posted by the thread inside addRequest().                         *)
NoLostWakeup ==
    \/ pc # "idle"
    \/ posted > 0
    \/ \E r \in Requests : caller[r] = "emplaced"
    \/ \A i \in 1 .. Len(requests) : ~ Free(HostOf[requests[i]])

(* A reply that has ended gave its slot back, unless its future had been   *)
(* canceled between isFilled() and success().                              *)
OnlyLateCancelLeaks ==
    \A r \in Requests :
        reply[r] = "finished" /\ Holds(r) => promise[r] = "canceled"

(* A request canceled while it waits in the queue is never sent.           *)
CanceledInQueueIsNeverSent ==
    \A r \in Requests :
        [](Queued(r) /\ promise[r] = "canceled" => [](reply[r] = "none"))

(* What HostSlots promises: slots are granted oldest request first for     *)
(* each host, at most Limit of them at a time, and once to each request.   *)
Slots == INSTANCE HostSlots
            WITH arrived <- {r \in Requests : promise[r] # "none"},
                 waiting <- requests,
                 holding <- {r \in Requests : Holds(r)}

ImplementsSlots == Slots!Spec

(* Every request leaves the queue, unless all slots of its host leaked.    *)
EventuallyTaken ==
    \A r \in Requests :
        Queued(r) ~> \/ ~ Queued(r)
                     \/ Cardinality({q \in Requests : Leaked(q) /\ HostOf[q] = HostOf[r]}) >= Limit

(* CHANGELOG.md:96 says a request waits only while too many requests of    *)
(* its host run: with no schedule() to come, Limit replies have not ended. *)
(* Leaked slots refute it: the queue may wait for nothing at all.          *)
WaitsOnlyForRunning ==
    pc = "idle" /\ posted = 0 /\ (\A r \in Requests : caller[r] # "emplaced")
    => \A i \in 1 .. Len(requests) :
          Cardinality({r \in Requests : /\ HostOf[r] = HostOf[requests[i]]
                                        /\ reply[r] \in {"running", "failed"}}) >= Limit

=============================================================================
