----------------------------- MODULE RestClient -----------------------------
(***************************************************************************)
(* RestClient (restclient.cpp): what it keeps for each of its replies.     *)
(* handleReply puts a timer and a start time on a reply when its request   *)
(* is sent; the first of sslErrors, error and finished takes both away,    *)
(* and when the reply was slow a mail tells so, at most one in             *)
(* CheckTimeout.  NetworkScheduler decides when a queued request is sent;  *)
(* everything here happens on its qnam thread, to which the client moves   *)
(* itself, so that one handler runs at a time.                             *)
(***************************************************************************)
EXTENDS Naturals, FiniteSets

CONSTANTS
    Gets,            \* requests of the client
    IgnoreSsl,       \* the client ignores SSL errors
    ReplyTimeouts,   \* msecsForTimeout, and customMsecsForTimeout of get(url)
    SlowTimeout,     \* slowNetworkReplyTimeout
    CheckTimeout,    \* slowNetworkCheckTimeout
    LastTime         \* bound on time

VARIABLES
    clock,
    client,     \* "alive", or "destroyed"
    checking,   \* slowNetworkCheckerIsEnabled
    reply,      \* idle, queued, running, refused (sslErrors), failed, finished
    timeoutAt,  \* replyTimeouts: the times at which the timers fire
    startedAt,  \* networkRequestStartTimePoints
    mailedAt,   \* times at which slow network mails were sent
    slowAt      \* times at which a slow reply was cleaned up

clientVars == <<clock, client, checking, reply, timeoutAt, startedAt, mailedAt, slowAt>>

Init ==
    /\ clock = 0 /\ client = "alive"
    /\ checking \in BOOLEAN
    /\ reply = [g \in Gets |-> "idle"]
    /\ timeoutAt = <<>> /\ startedAt = <<>>
    /\ mailedAt = {} /\ slowAt = {}

Without(f, g) == [x \in DOMAIN f \ {g} |-> f[x]]

(* get, post, put, patch and deleteResource build the URL at once, and a   *)
(* thunk that builds the rest of the request when it is sent.              *)
Request(g) ==
    /\ client = "alive" /\ reply[g] = "idle"
    /\ reply' = [reply EXCEPT ![g] = "queued"]
    /\ UNCHANGED <<clock, client, checking, timeoutAt, startedAt, mailedAt, slowAt>>

HandleReply(g) ==
    /\ client = "alive" /\ reply[g] = "queued"
    /\ reply' = [reply EXCEPT ![g] = "running"]
    /\ \E t \in ReplyTimeouts :
          timeoutAt' = [x \in DOMAIN timeoutAt \cup {g} |->
                          IF x = g THEN clock + t ELSE timeoutAt[x]]
    /\ startedAt' = [x \in DOMAIN startedAt \cup {g} |->
                       IF x = g THEN clock ELSE startedAt[x]]
    /\ UNCHANGED <<clock, client, checking, mailedAt, slowAt>>

(* A mail for every slow reply.                                            *)
MutMailIsDue == checking

(* slowNetworkLastTriggeringTimePoint is the latest of mailedAt; its value *)
(* max() says that there is none.                                          *)
MailIsDue == checking /\ \A m \in mailedAt : clock - m >= CheckTimeout

IsSlow(g) == g \in DOMAIN startedAt /\ clock - startedAt[g] >= SlowTimeout

Cleanup(g) ==
    /\ timeoutAt' = Without(timeoutAt, g)
    /\ startedAt' = Without(startedAt, g)
    /\ mailedAt' = IF IsSlow(g) /\ MailIsDue THEN mailedAt \cup {clock} ELSE mailedAt
    /\ slowAt' = IF IsSlow(g) THEN slowAt \cup {clock} ELSE slowAt

(* A signal of the reply reaches the client's handler while the client is  *)
(* alive; its destruction disconnects it.                                  *)
Handle(g) == IF client = "alive" THEN Cleanup(g)
                                 ELSE UNCHANGED <<timeoutAt, startedAt, mailedAt, slowAt>>

SslErrors(g) ==
    /\ ~IgnoreSsl /\ reply[g] = "running"
    /\ reply' = [reply EXCEPT ![g] = "refused"]
    /\ Handle(g)
    /\ UNCHANGED <<clock, client, checking>>

Error(g) ==
    /\ reply[g] \in {"running", "refused"}
    /\ reply' = [reply EXCEPT ![g] = "failed"]
    /\ Handle(g)
    /\ UNCHANGED <<clock, client, checking>>

Finished(g) ==
    /\ reply[g] \in {"running", "failed"}
    /\ reply' = [reply EXCEPT ![g] = "finished"]
    /\ Handle(g)
    /\ UNCHANGED <<clock, client, checking>>

(* abort() emits error and finished before it returns.                     *)
Timeout(g) ==
    /\ g \in DOMAIN timeoutAt /\ clock >= timeoutAt[g]
    /\ reply' = [reply EXCEPT ![g] = IF @ = "running" THEN "finished" ELSE @]
    /\ Handle(g)
    /\ UNCHANGED <<clock, client, checking>>

(* The destructor runs cleanupAll on the qnam thread and waits for it.     *)
(* Requests still queued would use the client that is gone: what happens   *)
(* then is undefined, and no action here.                                  *)
CleanupAll ==
    /\ client = "alive" /\ client' = "destroyed"
    /\ timeoutAt' = <<>> /\ startedAt' = <<>>
    /\ UNCHANGED <<clock, checking, reply, mailedAt, slowAt>>

Tick ==
    /\ clock < LastTime /\ clock' = clock + 1
    /\ UNCHANGED <<client, checking, reply, timeoutAt, startedAt, mailedAt, slowAt>>

Next ==
    \/ \E g \in Gets : \/ Request(g) \/ HandleReply(g) \/ SslErrors(g)
                       \/ Error(g) \/ Finished(g) \/ Timeout(g)
    \/ CleanupAll
    \/ Tick

Spec == Init /\ [][Next]_clientVars

-----------------------------------------------------------------------------
States == {"idle", "queued", "running", "refused", "failed", "finished"}

TypeOK ==
    /\ clock \in 0 .. LastTime /\ client \in {"alive", "destroyed"}
    /\ checking \in BOOLEAN /\ reply \in [Gets -> States]
    /\ DOMAIN timeoutAt \subseteq Gets /\ DOMAIN startedAt \subseteq Gets
    /\ mailedAt \subseteq 0 .. clock /\ slowAt \subseteq 0 .. clock

(* Exactly the replies that run have a timer and a start time, from the    *)
(* moment they are sent to the first signal that ends them: no timer       *)
(* outlives its reply, and none outlives the client (replyTimeouts is      *)
(* keyed by bare pointers, which later replies may have again).  A reply   *)
(* refused for its SSL errors has neither until its error comes.           *)
RepliesAreTimed ==
    /\ TypeOK
    /\ DOMAIN timeoutAt = DOMAIN startedAt
    /\ DOMAIN startedAt = IF client = "alive"
                            THEN {g \in Gets : reply[g] = "running"} ELSE {}

(* While the check is enabled, every slow reply is told by a mail at that  *)
(* moment or less than CheckTimeout before it, and two mails are at least  *)
(* CheckTimeout apart, whatever order and number of signals ended the      *)
(* replies; when it is not, there are no mails.                            *)
SlowRepliesAreTold ==
    /\ checking => \A s \in slowAt : \E m \in mailedAt :
                      m = s \/ (m <= s /\ s - m < CheckTimeout)
    /\ \A m, n \in mailedAt : m < n => n - m >= CheckTimeout
    /\ ~checking => mailedAt = {}
=============================================================================
