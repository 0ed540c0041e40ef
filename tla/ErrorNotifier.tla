--------------------------- MODULE ErrorNotifier ---------------------------
(***************************************************************************)
(* ErrorNotifier (errornotifier.cpp) with two of its handlers, the one     *)
(* that sends mails (emailnotificationhandler.cpp) and the one that        *)
(* remembers messages for system/recent-errors                             *)
(* (memorystoragenotificationhandler.cpp).                                 *)
(*                                                                         *)
(* notify() runs on the notifier's thread, as an event when called from    *)
(* another one.  Handlers are registered from any thread, in three steps:  *)
(* the look whether there are handlers, without the mutex; the removal of  *)
(* the old handler of that id; and the insertion, in place of what another *)
(* registration put there meanwhile, with the messages that had been kept  *)
(* for the first handler.                                                  *)
(***************************************************************************)
EXTENDS Naturals, SequencesExt

CONSTANTS
    Messages, Packs, NoPack,
    PackOf,            \* packId of a message
    Warnings,          \* messages of severity Warning
    Registrars,        \* calls of registerHandler
    HandlerOf,         \* the handler each of them registers: "email", "memory"
    SamePackTimeout, KeepTime, LastTime

VARIABLES
    time,
    notified,    \* messages passed to notify()
    posted,      \* notify() events of the notifier's thread
    handlers,    \* ids of the handlers
    startBuffer,
    registering, \* step of each registration, and what it saw first
    missed,      \* messages kept while a registration would not look at them
    packTime,    \* packTimestamps of the mail handler
    mails,       \* <<message, time>> of the mails sent by this mail handler
    reached,     \* messages notified to this mail handler, with the time
    messages     \* <<message, time>> in the memory storage

notifierVars == <<time, notified, posted, handlers, startBuffer, registering, missed,
                  packTime, mails, reached, messages>>

Init ==
    /\ time = 0 /\ notified = {} /\ posted = <<>>
    /\ handlers = {} /\ startBuffer = <<>> /\ missed = {}
    /\ registering = [r \in Registrars |-> [at |-> "idle", fire |-> FALSE]]
    /\ packTime = [p \in Packs |-> LastTime + SamePackTimeout]
    /\ mails = {} /\ reached = {} /\ messages = {}

Notify(m) ==
    /\ m \notin notified
    /\ notified' = notified \cup {m} /\ posted' = Append(posted, m)
    /\ UNCHANGED <<time, handlers, startBuffer, registering, missed, packTime, mails,
                   reached, messages>>

(* A time stamp after the last time stands for none.                       *)
Throttled(p) == packTime[p] <= time /\ time - packTime[p] < SamePackTimeout

EmailNotify(m) ==
    IF "email" \notin handlers THEN UNCHANGED <<packTime, mails, reached>>
    ELSE /\ reached' = reached \cup {<<m, time>>}
         /\ IF m \in Warnings \/ (PackOf[m] # NoPack /\ Throttled(PackOf[m]))
              THEN UNCHANGED <<packTime, mails>>
              ELSE /\ mails' = mails \cup {<<m, time>>}
                   /\ packTime' = IF PackOf[m] = NoPack THEN packTime
                                  ELSE [packTime EXCEPT ![PackOf[m]] = time]

MemoryNotify(m) ==
    messages' = IF "memory" \in handlers THEN messages \cup {<<m, time>>} ELSE messages

(* A registration that saw handlers will not look at startBuffer.          *)
Overlooked == \E r \in Registrars : registering[r].at \in {"looked", "replaced"}
                                      /\ ~registering[r].fire

HandleNotify(m) ==
    /\ IF handlers = {}
         THEN /\ startBuffer' = Append(startBuffer, m)
              /\ missed' = IF Overlooked THEN missed \cup {m} ELSE missed
              /\ UNCHANGED <<packTime, mails, reached, messages>>
         ELSE /\ EmailNotify(m) /\ MemoryNotify(m)
              /\ UNCHANGED <<startBuffer, missed>>
    /\ UNCHANGED <<time, handlers, registering>>

(* A call from another thread makes an event; on the notifier's own thread *)
(* notify() goes on at once, before what is posted.                        *)
RunNotify ==
    /\ posted # <<>> /\ posted' = Tail(posted)
    /\ HandleNotify(Head(posted))
    /\ UNCHANGED notified

NotifyHere(m) ==
    /\ m \notin notified /\ notified' = notified \cup {m}
    /\ HandleNotify(m)
    /\ UNCHANGED posted

RegisterLook(r) ==
    /\ registering[r].at = "idle"
    /\ registering' = [registering EXCEPT ![r] = [at |-> "looked", fire |-> handlers = {}]]
    /\ UNCHANGED <<time, notified, posted, handlers, startBuffer, missed, packTime, mails,
                   reached, messages>>

(* A handler goes with what it remembers, ...                              *)
Forget(id) ==
    IF id = "email"
    THEN /\ packTime' = [p \in Packs |-> LastTime + SamePackTimeout]
         /\ mails' = {} /\ reached' = {} /\ UNCHANGED messages
    ELSE messages' = {} /\ UNCHANGED <<packTime, mails, reached>>

(* ... when it is taken out or when another one is put in its place.       *)
Delete(id) == handlers' = handlers \ {id} /\ Forget(id)

Insert(id) ==
    /\ handlers' = handlers \cup {id}
    /\ IF id \in handlers THEN Forget(id)
       ELSE UNCHANGED <<packTime, mails, reached, messages>>

RegisterReplace(r) ==
    /\ registering[r].at = "looked"
    /\ registering' = [registering EXCEPT ![r].at = "replaced"]
    /\ IF HandlerOf[r] \in handlers THEN Delete(HandlerOf[r])
       ELSE UNCHANGED <<handlers, packTime, mails, reached, messages>>
    /\ UNCHANGED <<time, notified, posted, startBuffer, missed>>

(* The kept messages stay where they are.                                  *)
MutRegisterInsertForgets(r) ==
    /\ registering[r].at = "replaced"
    /\ registering' = [registering EXCEPT ![r].at = "done"]
    /\ Insert(HandlerOf[r])
    /\ UNCHANGED <<time, notified, posted, startBuffer, missed>>

(* The messages kept until then are notified again; from another thread    *)
(* that makes events of them.                                              *)
RegisterInsert(r) ==
    /\ registering[r].at = "replaced"
    /\ registering' = [registering EXCEPT ![r].at = "done"]
    /\ Insert(HandlerOf[r])
    /\ IF registering[r].fire
         THEN posted' = posted \o startBuffer /\ startBuffer' = <<>>
         ELSE UNCHANGED <<posted, startBuffer>>
    /\ UNCHANGED <<time, notified, missed>>

Unregister(id) ==
    /\ id \in handlers /\ Delete(id)
    /\ UNCHANGED <<time, notified, posted, startBuffer, registering, missed>>

(* The hourly cleanup of the memory storage.                               *)
CleanupTimer ==
    /\ messages' = {x \in messages : x[2] + KeepTime >= time}
    /\ UNCHANGED <<time, notified, posted, handlers, startBuffer, registering, missed,
                   packTime, mails, reached>>

Tick ==
    /\ time < LastTime /\ time' = time + 1
    /\ UNCHANGED <<notified, posted, handlers, startBuffer, registering, missed, packTime,
                   mails, reached, messages>>

Next ==
    \/ \E m \in Messages : Notify(m) \/ NotifyHere(m)
    \/ RunNotify
    \/ \E r \in Registrars : RegisterLook(r) \/ RegisterReplace(r) \/ RegisterInsert(r)
    \/ \E id \in handlers : Unregister(id)
    \/ CleanupTimer
    \/ Tick

Spec == Init /\ [][Next]_notifierVars

-----------------------------------------------------------------------------
(* Messages wait in startBuffer only as long as there is no handler: the   *)
(* first one gets them all, whichever threads register, replace and remove *)
(* handlers meanwhile.  Only what is notified between two steps of a       *)
(* registration that saw a handler which then went is left there.          *)
KeptForFirstHandler ==
    handlers # {} => \A i \in 1 .. Len(startBuffer) :
        startBuffer[i] \in missed \/ \E r \in Registrars :
            registering[r].at = "replaced" /\ registering[r].fire

(* A mail is sent for every message that is no warning, unless one of its  *)
(* pack was sent less than SamePackTimeout before, and two mails of a pack *)
(* are at least that far apart, as long as the handler is not replaced.    *)
MailsFollowPacks ==
    /\ \A x \in reached : x[1] \notin Warnings =>
          \E y \in mails : \/ y = x
                           \/ /\ PackOf[x[1]] # NoPack /\ PackOf[y[1]] = PackOf[x[1]]
                              /\ y[2] <= x[2] /\ x[2] - y[2] < SamePackTimeout
    /\ \A x, y \in mails : (x # y /\ PackOf[x[1]] # NoPack /\ PackOf[x[1]] = PackOf[y[1]]
                              /\ x[2] <= y[2]) => y[2] - x[2] >= SamePackTimeout
=============================================================================
