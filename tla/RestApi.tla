------------------------------- MODULE RestApi -------------------------------
(***************************************************************************)
(* BaseRestApi::configureReply (baserestapi.cpp): how the QNetworkReply of *)
(* a request becomes the answer of a CancelableFuture<RestApiReply>, with  *)
(* the timer and the cleanup RestClient puts on every reply.               *)
(*                                                                         *)
(* Four threads meet: the caller's, which runs configureReply; the qnam    *)
(* thread, which dispatches requests and emits the signals of replies; the *)
(* api object's, to which the handlers of these signals are queued; and a  *)
(* pool thread, on which a successful answer is filled in (tasks::run).    *)
(*                                                                         *)
(* NetworkScheduler is used through HostSlots, the specification it        *)
(* implements; all calls go to one host.                                   *)
(*                                                                         *)
(* The callback configureReply attaches to the reply's future runs on the  *)
(* qnam thread when the request is dispatched later, and on the caller's   *)
(* when the reply is already there.  Its position is cb:                   *)
(*    none, attached   not run yet                                         *)
(*    entered          at promise.isFilled()                               *)
(*    guard            at promise.future().onFailure(abort)                *)
(*    finished?        at reply->isFinished()                              *)
(*    connect1..3      at connecting finished, error and sslErrors         *)
(*    done                                                                 *)
(***************************************************************************)
EXTENDS Naturals, FiniteSets, SequencesExt

CONSTANTS
    Calls,            \* calls of get(), post(), put(), ...
    Limit,            \* requests NetworkScheduler sends at a time
    IgnoreSslErrors,  \* calls through a RestClient with ignoreSslErrors
    Host, NoHost, NoCall

ASSUME CallsAssumption == NoCall \notin Calls /\ IsFiniteSet(Calls)
ASSUME ApiLimitAssumption == Limit \in Nat \ {0}
ASSUME ApiSslAssumption == IgnoreSslErrors \subseteq Calls

VARIABLES
    arrived, waiting, holding,  \* the scheduler, as HostSlots
    dispatch,   \* the call being dispatched, and how far its thunk is
    call,       \* how far configureReply is on the caller's thread
    future,     \* replyFuture, the future of the QNetworkReply
    promise,    \* the promise of the RestApiReply
    cb, cbOn,   \* position and thread of the callback on replyFuture
    guarded,    \* calls whose promise aborts the reply when it fails
    conns,      \* the api's connections to the signals of the reply
    reply,      \* the state of the reply ...
    kind,       \* ... and how it ended
    timer,      \* calls in replyTimeouts
    inbox,      \* handlers queued to the api's thread
    task,       \* calls with a tasks::run that will fill the promise
    deletion,   \* none, posted (deleteLater) or deleted
    remembered, \* allReplies
    aborting    \* rest of the snapshot abortAllRequests works through

slotVars  == <<arrived, waiting, holding>>
cbVars    == <<cb, cbOn, guarded, conns>>
replyVars == <<reply, kind, timer>>
fillVars  == <<promise, future, remembered>>
vars == <<slotVars, dispatch, call, fillVars, cbVars, replyVars, inbox, task,
          deletion, aborting>>

Scheduler == INSTANCE HostSlots
                WITH Requests <- Calls, Hosts <- {Host},
                     HostOf <- [c \in Calls |-> Host]

Init ==
    /\ Scheduler!Init
    /\ dispatch = [call |-> NoCall, at |-> "idle"]
    /\ call = [c \in Calls |-> "idle"]
    /\ future = [c \in Calls |-> "none"]
    /\ promise = [c \in Calls |-> "none"]
    /\ cb = [c \in Calls |-> "none"]
    /\ cbOn = [c \in Calls |-> "none"]
    /\ guarded = {}
    /\ conns = [c \in Calls |-> {}]
    /\ reply = [c \in Calls |-> "none"]
    /\ kind = [c \in Calls |-> "none"]
    /\ timer = {}
    /\ inbox = [c \in Calls |-> <<>>]
    /\ task = {}
    /\ deletion = [c \in Calls |-> "none"]
    /\ remembered = {}
    /\ aborting = {}

CbRuns(c) == cb[c] \notin {"none", "attached", "done"}

(* The qnam thread is in a thunk or in a callback the thunk runs.          *)
QnamBusy == dispatch.at # "idle" \/ \E c \in Calls : CbRuns(c) /\ cbOn[c] = "qnam"

Running(c) == reply[c] \in {"running", "failed"}

-----------------------------------------------------------------------------
(* Effects shared by the actions.                                          *)

(* deleteLater(): a second call changes nothing.                           *)
PostDeletion(c) ==
    deletion' = [deletion EXCEPT ![c] = IF @ = "none" THEN "posted" ELSE @]

(* A signal is queued to the api's thread if it is connected when it is    *)
(* emitted; read is what the api's thread has taken meanwhile.             *)
Queued(c, signal) == IF signal \in conns[c] THEN <<signal>> ELSE <<>>

Emit(c, queued, read) == inbox' = [inbox EXCEPT ![c] = read \o queued]

MutFreeSlotNever(c) == c \in Calls /\ UNCHANGED slotVars

(* The scheduler's checker is connected when the future is filled; it      *)
(* frees the slot with the first signal.                                   *)
FreeSlot(c) ==
    IF c \in holding /\ future[c] = "filled"
    THEN Scheduler!Return(c)
    ELSE UNCHANGED slotVars

(* RestClient's cleanupReplyHandler() takes the timer away.                *)
Cleanup(c) == timer' = timer \ {c}

MutAbortAlways(c, read) ==
    /\ reply' = [reply EXCEPT ![c] = "finished"]
    /\ kind' = [kind EXCEPT ![c] = "broken"]
    /\ Emit(c, Queued(c, "error") \o Queued(c, "finished"), read)
    /\ FreeSlot(c)
    /\ Cleanup(c)

(* reply->abort() on a reply that still runs: error, then finished.        *)
Abort(c, read) ==
    IF Running(c) /\ deletion[c] # "deleted"
    THEN /\ reply' = [reply EXCEPT ![c] = "finished"]
         /\ kind' = [kind EXCEPT ![c] = "broken"]
         /\ Emit(c, Queued(c, "error") \o Queued(c, "finished"), read)
         /\ FreeSlot(c)
         /\ Cleanup(c)
    ELSE /\ inbox' = [inbox EXCEPT ![c] = read]
         /\ UNCHANGED <<replyVars, slotVars>>

(* promise.failure(): the first fill counts; the callbacks registered by   *)
(* configureReply and rememberReply run at once, in this order: cancel     *)
(* replyFuture, abort the reply, forget the call.                          *)
Fail(c, result, read) ==
    IF promise[c] = "pending"
    THEN /\ promise' = [promise EXCEPT ![c] = result]
         /\ future' = [future EXCEPT ![c] = IF @ = "pending" THEN "canceled" ELSE @]
         /\ remembered' = remembered \ {c}
         /\ IF c \in guarded
            THEN Abort(c, read)
            ELSE inbox' = [inbox EXCEPT ![c] = read] /\ UNCHANGED <<replyVars, slotVars>>
    ELSE /\ inbox' = [inbox EXCEPT ![c] = read]
         /\ UNCHANGED <<fillVars, replyVars, slotVars>>

MutProcessAnyStatus(c, read) ==
    IF kind[c] # "broken"
    THEN /\ task' = task \cup {c}
         /\ inbox' = [inbox EXCEPT ![c] = read]
         /\ UNCHANGED <<fillVars, replyVars, slotVars>>
    ELSE Fail(c, "failed", read) /\ UNCHANGED task

(* processSuccessfulReply() and processErroredReply(): an allowed status   *)
(* is filled in by a pool thread, everything else fails the promise here.  *)
Process(c, read) ==
    IF kind[c] = "clean"
    THEN /\ task' = task \cup {c}
         /\ inbox' = [inbox EXCEPT ![c] = read]
         /\ UNCHANGED <<fillVars, replyVars, slotVars>>
    ELSE Fail(c, "failed", read) /\ UNCHANGED task

-----------------------------------------------------------------------------
(* The caller's thread.                                                    *)

(* restClient->get(...), then the promise and its first callback.          *)
Request(c) ==
    /\ call[c] = "idle"
    /\ Scheduler!Arrive(c)
    /\ call' = [call EXCEPT ![c] = "requested"]
    /\ future' = [future EXCEPT ![c] = "pending"]
    /\ promise' = [promise EXCEPT ![c] = "pending"]
    /\ UNCHANGED <<dispatch, remembered, cbVars, replyVars, inbox, task, deletion, aborting>>

(* replyFuture.onSuccess(): runs the callback here if the reply is there.  *)
Attach(c) ==
    /\ call[c] = "requested"
    /\ call' = [call EXCEPT ![c] = "attached"]
    /\ IF future[c] = "filled"
       THEN /\ cb' = [cb EXCEPT ![c] = "entered"]
            /\ cbOn' = [cbOn EXCEPT ![c] = "caller"]
       ELSE cb' = [cb EXCEPT ![c] = "attached"] /\ UNCHANGED cbOn
    /\ UNCHANGED <<slotVars, dispatch, fillVars, guarded, conns, replyVars, inbox,
                   task, deletion, aborting>>

MutRememberLast(c) ==
    /\ call[c] = "attached"
    /\ ~ (cbOn[c] = "caller" /\ CbRuns(c))
    /\ remembered' = remembered \cup {c}
    /\ call' = [call EXCEPT ![c] = "returned"]
    /\ UNCHANGED <<slotVars, dispatch, future, promise, cbVars, replyVars, inbox, task,
                   deletion, aborting>>

(* rememberReply(): the cleaner runs at once for a promise filled before.  *)
Remember(c) ==
    /\ call[c] = "attached"
    /\ ~ (cbOn[c] = "caller" /\ CbRuns(c))
    /\ remembered' = IF promise[c] = "pending" THEN remembered \cup {c} ELSE remembered
    /\ call' = [call EXCEPT ![c] = "returned"]
    /\ UNCHANGED <<slotVars, dispatch, future, promise, cbVars, replyVars, inbox, task,
                   deletion, aborting>>

Cancel(c) ==
    /\ call[c] = "returned"
    /\ promise[c] = "pending"
    /\ Fail(c, "canceled", inbox[c])
    /\ UNCHANGED <<dispatch, call, cbVars, task, deletion, aborting>>

AbortAllRequests ==
    /\ aborting = {}
    /\ remembered # {}
    /\ aborting' = remembered
    /\ UNCHANGED <<slotVars, dispatch, call, fillVars, cbVars, replyVars, inbox, task, deletion>>

AbortNext(c) ==
    /\ c \in aborting
    /\ aborting' = aborting \ {c}
    /\ Fail(c, "canceled", inbox[c])
    /\ UNCHANGED <<dispatch, call, cbVars, task, deletion>>

-----------------------------------------------------------------------------
(* The qnam thread: dispatching, and the callback when it runs there.      *)

Dispatch(i) ==
    /\ ~ QnamBusy
    /\ Scheduler!Grant(i)
    /\ dispatch' = [call |-> waiting[i], at |-> "isFilled"]
    /\ UNCHANGED <<call, fillVars, cbVars, replyVars, inbox, task, deletion, aborting>>

SkipCanceled ==
    /\ dispatch.at = "isFilled"
    /\ future[dispatch.call] = "canceled"
    /\ Scheduler!Return(dispatch.call)
    /\ dispatch' = [call |-> NoCall, at |-> "idle"]
    /\ UNCHANGED <<call, fillVars, cbVars, replyVars, inbox, task, deletion, aborting>>

(* The request is sent and handleReply() puts a timer on the reply.        *)
Send ==
    /\ dispatch.at = "isFilled"
    /\ future[dispatch.call] = "pending"
    /\ dispatch' = [dispatch EXCEPT !.at = "success"]
    /\ reply' = [reply EXCEPT ![dispatch.call] = "running"]
    /\ timer' = timer \cup {dispatch.call}
    /\ UNCHANGED <<slotVars, call, fillVars, cbVars, kind, inbox, task, deletion, aborting>>

(* promise.success(reply) fills replyFuture, unless it was canceled since. *)
Deliver ==
    LET c == dispatch.call
    IN  /\ dispatch.at = "success"
        /\ dispatch' = [call |-> NoCall, at |-> "idle"]
        /\ IF future[c] = "pending"
           THEN /\ future' = [future EXCEPT ![c] = "filled"]
                /\ IF cb[c] = "attached"
                   THEN /\ cb' = [cb EXCEPT ![c] = "entered"]
                        /\ cbOn' = [cbOn EXCEPT ![c] = "qnam"]
                   ELSE UNCHANGED <<cb, cbOn>>
           ELSE UNCHANGED <<future, cb, cbOn>>
        /\ UNCHANGED <<slotVars, call, promise, remembered, guarded, conns, replyVars,
                       inbox, task, deletion, aborting>>

(* An ended promise has no use for the reply.                              *)
CbIsFilled(c) ==
    /\ cb[c] = "entered"
    /\ IF promise[c] = "pending"
       THEN /\ cb' = [cb EXCEPT ![c] = "guard"]
            /\ UNCHANGED <<slotVars, replyVars, inbox, deletion>>
       ELSE /\ cb' = [cb EXCEPT ![c] = "done"]
            /\ Abort(c, inbox[c])
            /\ PostDeletion(c)
    /\ UNCHANGED <<dispatch, call, fillVars, cbOn, guarded, conns, task, aborting>>

(* onFailure() on a promise that failed just now runs the callback here.   *)
CbGuard(c) ==
    /\ cb[c] = "guard"
    /\ cb' = [cb EXCEPT ![c] = "finished?"]
    /\ guarded' = guarded \cup {c}
    /\ IF promise[c] = "pending"
       THEN UNCHANGED <<slotVars, replyVars, inbox>>
       ELSE Abort(c, inbox[c])
    /\ UNCHANGED <<dispatch, call, fillVars, cbOn, conns, task, deletion, aborting>>

CbIsFinished(c) ==
    /\ cb[c] = "finished?"
    /\ IF reply[c] = "finished"
       THEN /\ cb' = [cb EXCEPT ![c] = "done"]
            /\ IF promise[c] = "pending"
               THEN Process(c, inbox[c])
               ELSE UNCHANGED <<slotVars, fillVars, replyVars, inbox, task>>
            /\ PostDeletion(c)
       ELSE /\ cb' = [cb EXCEPT ![c] = "connect1"]
            /\ UNCHANGED <<slotVars, fillVars, replyVars, inbox, task, deletion>>
    /\ UNCHANGED <<dispatch, call, cbOn, guarded, conns, aborting>>

ConnectTo(c, from, signal, to) ==
    /\ cb[c] = from
    /\ cb' = [cb EXCEPT ![c] = to]
    /\ conns' = [conns EXCEPT ![c] = @ \cup {signal}]

CbConnect(c) ==
    /\ \/ ConnectTo(c, "connect1", "finished", "connect2")
       \/ ConnectTo(c, "connect2", "error", "connect3")
       \/ ConnectTo(c, "connect3", "sslErrors", "done")
    /\ UNCHANGED <<slotVars, dispatch, call, fillVars, cbOn, guarded, replyVars, inbox,
                   task, deletion, aborting>>

-----------------------------------------------------------------------------
(* The reply, whose signals are emitted on the qnam thread.                *)

(* finished: after an error, or with a status of its own.                  *)
ReplyFinished(c) ==
    /\ ~ QnamBusy
    /\ Running(c)
    /\ deletion[c] # "deleted"
    /\ \E k \in {"clean", "refused"} :
          kind' = [kind EXCEPT ![c] = IF reply[c] = "failed" THEN @ ELSE k]
    /\ reply' = [reply EXCEPT ![c] = "finished"]
    /\ FreeSlot(c)
    /\ Cleanup(c)
    /\ Emit(c, Queued(c, "finished"), inbox[c])
    /\ UNCHANGED <<dispatch, call, fillVars, cbVars, task, deletion, aborting>>

(* error: "refused" for the codes 2xx and 4xx that                         *)
(* replyShouldBeHandledByError() leaves to the finished handler.           *)
ReplyError(c) ==
    /\ ~ QnamBusy
    /\ reply[c] = "running"
    /\ deletion[c] # "deleted"
    /\ \E k \in {"refused", "broken"} : kind' = [kind EXCEPT ![c] = k]
    /\ reply' = [reply EXCEPT ![c] = "failed"]
    /\ FreeSlot(c)
    /\ Cleanup(c)
    /\ Emit(c, Queued(c, "error"), inbox[c])
    /\ UNCHANGED <<dispatch, call, fillVars, cbVars, task, deletion, aborting>>

(* sslErrors, once: Qt then fails the reply, or goes on when the errors    *)
(* are ignored; only in the first case RestClient forgets the timer.       *)
ReplySslErrors(c) ==
    /\ ~ QnamBusy
    /\ reply[c] = "running"
    /\ c \in holding
    /\ deletion[c] # "deleted"
    /\ FreeSlot(c)
    /\ IF c \in IgnoreSslErrors
       THEN UNCHANGED replyVars /\ Emit(c, Queued(c, "sslErrors"), inbox[c])
       ELSE /\ reply' = [reply EXCEPT ![c] = "failed"]
            /\ kind' = [kind EXCEPT ![c] = "broken"]
            /\ Cleanup(c)
            /\ Emit(c, Queued(c, "sslErrors") \o Queued(c, "error"), inbox[c])
    /\ UNCHANGED <<dispatch, call, fillVars, cbVars, task, deletion, aborting>>

(* The timer of handleReply() aborts a reply that still runs.              *)
Timeout(c) ==
    /\ ~ QnamBusy
    /\ c \in timer
    /\ Abort(c, inbox[c])
    /\ UNCHANGED <<dispatch, call, fillVars, cbVars, task, deletion, aborting>>

DeleteReply(c) ==
    /\ ~ QnamBusy
    /\ deletion[c] = "posted"
    /\ deletion' = [deletion EXCEPT ![c] = "deleted"]
    /\ UNCHANGED <<slotVars, dispatch, call, fillVars, cbVars, replyVars, inbox, task, aborting>>

-----------------------------------------------------------------------------
(* The api's thread: the queued handlers, in the order of the signals.     *)

Handles(c, signal) == inbox[c] # <<>> /\ Head(inbox[c]) = signal

Ignore(c) ==
    /\ inbox' = [inbox EXCEPT ![c] = Tail(@)]
    /\ UNCHANGED <<slotVars, fillVars, replyVars, task, deletion>>

MutOnFinishedKeepsReply(c) ==
    /\ Handles(c, "finished")
    /\ IF promise[c] # "pending" \/ kind[c] = "broken"
       THEN Ignore(c)
       ELSE Process(c, Tail(inbox[c])) /\ UNCHANGED deletion
    /\ UNCHANGED <<dispatch, call, cbVars, aborting>>

OnFinished(c) ==
    /\ Handles(c, "finished")
    /\ IF promise[c] # "pending" \/ kind[c] = "broken"
       THEN Ignore(c)
       ELSE Process(c, Tail(inbox[c])) /\ PostDeletion(c)
    /\ UNCHANGED <<dispatch, call, cbVars, aborting>>

MutOnErrorDeletes(c) ==
    /\ Handles(c, "error")
    /\ IF promise[c] # "pending" \/ kind[c] # "broken"
       THEN /\ inbox' = [inbox EXCEPT ![c] = Tail(@)]
            /\ UNCHANGED <<slotVars, fillVars, replyVars, task>>
       ELSE Process(c, Tail(inbox[c]))
    /\ PostDeletion(c)
    /\ UNCHANGED <<dispatch, call, cbVars, aborting>>

OnError(c) ==
    /\ Handles(c, "error")
    /\ IF promise[c] # "pending" \/ kind[c] # "broken"
       THEN Ignore(c)
       ELSE Process(c, Tail(inbox[c])) /\ PostDeletion(c)
    /\ UNCHANGED <<dispatch, call, cbVars, aborting>>

OnSslErrors(c) ==
    /\ Handles(c, "sslErrors")
    /\ Fail(c, "failed", Tail(inbox[c]))
    /\ PostDeletion(c)
    /\ UNCHANGED <<dispatch, call, cbVars, task, aborting>>

(* The pool thread.                                                        *)
RunTask(c) ==
    /\ c \in task
    /\ task' = task \ {c}
    /\ IF promise[c] = "pending"
       THEN /\ promise' = [promise EXCEPT ![c] = "ok"]
            /\ remembered' = remembered \ {c}
       ELSE UNCHANGED <<promise, remembered>>
    /\ UNCHANGED <<slotVars, dispatch, call, future, cbVars, replyVars, inbox, deletion, aborting>>

-----------------------------------------------------------------------------

Caller(c) == Request(c) \/ Attach(c) \/ Remember(c)
Callback(c) == CbIsFilled(c) \/ CbGuard(c) \/ CbIsFinished(c) \/ CbConnect(c)
Signals(c) == ReplyFinished(c) \/ ReplyError(c) \/ ReplySslErrors(c)
Handler(c) == OnFinished(c) \/ OnError(c) \/ OnSslErrors(c)
Dispatcher == (\E i \in 1 .. Len(waiting) : Dispatch(i)) \/ SkipCanceled \/ Send \/ Deliver

Next ==
    \/ Dispatcher
    \/ AbortAllRequests
    \/ \E c \in Calls : \/ Caller(c) \/ Cancel(c) \/ AbortNext(c) \/ Callback(c)
                        \/ Signals(c) \/ Timeout(c) \/ DeleteReply(c)
                        \/ Handler(c) \/ RunTask(c)

Spec == Init /\ [][Next]_vars

(* Threads go on, event loops deliver, and a reply ends at its timer.      *)
Fairness ==
    /\ WF_vars(Dispatcher)
    /\ \A c \in Calls : /\ WF_vars(Attach(c)) /\ WF_vars(Remember(c))
                        /\ WF_vars(Callback(c)) /\ WF_vars(Handler(c))
                        /\ WF_vars(Timeout(c)) /\ WF_vars(RunTask(c))
                        /\ WF_vars(ReplyFinished(c) /\ reply[c] = "failed")

FairSpec == Spec /\ Fairness

-----------------------------------------------------------------------------
(* Properties.                                                             *)

(* Every variable keeps its type; a reply queues at most an sslErrors, two *)
(* errors (its own and that of abort()) and one finished.                  *)
TypeOK ==
    /\ arrived \subseteq Calls /\ holding \subseteq Calls /\ waiting \in Seq(Calls)
    /\ dispatch \in [call : Calls \cup {NoCall}, at : {"idle", "isFilled", "success"}]
    /\ call \in [Calls -> {"idle", "requested", "attached", "returned"}]
    /\ future \in [Calls -> {"none", "pending", "filled", "canceled"}]
    /\ promise \in [Calls -> {"none", "pending", "ok", "failed", "canceled"}]
    /\ cb \in [Calls -> {"none", "attached", "entered", "guard", "finished?",
                         "connect1", "connect2", "connect3", "done"}]
    /\ cbOn \in [Calls -> {"none", "qnam", "caller"}]
    /\ conns \in [Calls -> SUBSET {"finished", "error", "sslErrors"}]
    /\ reply \in [Calls -> {"none", "running", "failed", "finished"}]
    /\ kind \in [Calls -> {"none", "clean", "refused", "broken"}]
    /\ inbox \in [Calls -> Seq({"finished", "error", "sslErrors"})]
    /\ \A c \in Calls : Len(inbox[c]) <= 4
    /\ deletion \in [Calls -> {"none", "posted", "deleted"}]
    /\ UNION {guarded, timer, task, remembered, aborting} \subseteq Calls

(* The only success is that of a reply that ended without any error: no    *)
(* handler takes an aborted, refused or insecure reply for an answer.      *)
OkMeansClean ==
    /\ TypeOK
    /\ \A c \in Calls : promise[c] = "ok" => kind[c] = "clean"

(* configureReply's future is in allReplies exactly while it is unfilled,  *)
(* so abortAllRequests reaches every open call and nothing stays behind.   *)
RememberedWhilePending ==
    \A c \in Calls : call[c] = "returned" => (c \in remembered <=> promise[c] = "pending")

(* When the reply is gone its answer is decided: a handler still queued    *)
(* finds the promise filled, or a pool thread about to fill it, and the    *)
(* callback has nothing left but to connect error and sslErrors, to a      *)
(* deleted reply, on the caller's thread; on the qnam thread it never      *)
(* meets one.                                                              *)
HandlersStayAway ==
    \A c \in Calls : deletion[c] = "deleted" =>
        /\ inbox[c] # <<>> => promise[c] # "pending"
        /\ CbRuns(c) => /\ cbOn[c] = "caller"
                        /\ cb[c] \in {"connect2", "connect3"}
                        /\ promise[c] # "pending" \/ c \in task

(* A deleted reply is used in two places only, both too late to change an  *)
(* answer: by a callback on the caller's thread that connects error and    *)
(* sslErrors after the handler of finished has ended the call, and by the  *)
(* abort of a call that is canceled while its success waits for a pool     *)
(* thread.                                                                 *)
OnlyLateStepsTouchDeleted ==
    [][/\ HandlersStayAway'
       /\ \A c \in Calls :
             /\ promise[c] = "pending" /\ promise'[c] \in {"failed", "canceled"}
             /\ c \in guarded /\ deletion[c] = "deleted"
             => c \in task]_vars

(* Whoever ends a call with an answer or a failure hands its reply to      *)
(* deleteLater, and so does a callback that leaves no handler behind: only *)
(* a call canceled after its handlers were connected keeps its reply, and  *)
(* one canceled between isFilled() and success(), whose callback never     *)
(* runs.                                                                   *)
RepliesAreReleased ==
    \A c \in Calls :
        promise[c] \in {"ok", "failed"} \/ (cb[c] = "done" /\ conns[c] = {})
        => deletion[c] # "none"

(* The callback, on the caller's thread, comes too late for the signal     *)
(* that would have ended its call.                                         *)
Missed(c) ==
    /\ cbOn[c] = "caller"
    /\ \/ cb[c] = "connect1" /\ reply[c] = "finished"
       \/ cb[c] \in {"connect1", "connect2"} /\ kind[c] = "broken"

(* Every call gets an answer, unless its callback ran on the caller's      *)
(* thread and missed the signal, or the host's slots are all held by       *)
(* replies canceled while they were being sent.                            *)
Answered ==
    \A c \in Calls :
        \/ <>Missed(c)
        \/ promise[c] = "pending" ~>
            \/ promise[c] # "pending"
            \/ Cardinality({d \in Calls : reply[d] # "none" /\ future[d] = "canceled"}) >= Limit

=============================================================================
