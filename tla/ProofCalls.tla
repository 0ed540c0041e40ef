----------------------------- MODULE ProofCalls -----------------------------
(***************************************************************************)
(* ProofObject::call and safeCall (proofobject.h): calling a method on the *)
(* thread of its object, without waiting for it, or waiting with an event  *)
(* loop (Call::Block) or without one (Call::BlockEvents).                  *)
(*                                                                         *)
(* All calls modelled here go through one invoker, as all calls for        *)
(* objects that are not ProofObjects do (defaultInvoker).  A call takes an *)
(* id, connects to the invoker's signal queuedCallRequested, and emits it: *)
(* Qt then visits every connection, also those of other calls, and each    *)
(* posts an event to its context's thread, where the slot compares ids.    *)
(* A BlockingQueuedConnection makes the emitter wait for its event, be it  *)
(* the emitter's own connection or not.                                    *)
(*                                                                         *)
(* A thread is a stack of frames, the newest last: a call it is making or  *)
(* a method it is running.  Methods may make calls, as may a thread that   *)
(* is in its event loop, and return when they like.                        *)
(***************************************************************************)
EXTENDS Naturals, FiniteSets, SequencesExt

CONSTANTS
    Threads,
    NoThread,
    Kinds,     \* the ways of calling that are in use
    MaxCalls   \* bound: calls made altogether

ASSUME ThreadsAssumption == NoThread \notin Threads /\ IsFiniteSet(Threads)
ASSUME KindsAssumption == Kinds \subseteq {"Queued", "Block", "BlockEvents"}
ASSUME MaxCallsAssumption == MaxCalls \in Nat

Ids == 1 .. MaxCalls

VARIABLES
    lastId,  \* nextDelayedCallId
    calls,   \* of each id: its kind, caller and context thread
    conns,   \* ids whose connection exists, in the order of connecting
    inbox,   \* events posted to each thread
    stack,   \* the frames of each thread
    started, \* how often the method of a call was started ...
    done     \* ... and whether it returned

vars == <<lastId, calls, conns, inbox, stack, started, done>>

NoCall == [kind |-> "none", from |-> NoThread, to |-> NoThread]

Init ==
    /\ lastId = 0
    /\ calls = [i \in Ids |-> NoCall]
    /\ conns = <<>>
    /\ inbox = [t \in Threads |-> <<>>]
    /\ stack = [t \in Threads |-> <<>>]
    /\ started = [i \in Ids |-> 0]
    /\ done = [i \in Ids |-> FALSE]

(* A frame: where it is, for which call; the connections an emission has   *)
(* yet to visit; the thread a method's event blocks.                       *)
Frame(at, i, todo, blocks) == [at |-> at, id |-> i, todo |-> todo, blocks |-> blocks]

Top(t) == Last(stack[t])
At(t, at) == stack[t] # <<>> /\ Top(t).at = at

Push(t, frame) == [stack EXCEPT ![t] = Append(@, frame)]
Pop(s, t) == [s EXCEPT ![t] = Front(@)]
Goto(t, at) == [stack EXCEPT ![t][Len(stack[t])].at = at]

(* The event of emission i is gone: a blocked emitter goes on.             *)
Release(s, t) ==
    IF t = NoThread THEN s ELSE [s EXCEPT ![t][Len(s[t])].at = "emit"]

-----------------------------------------------------------------------------
(* The calling thread: callPrivate().                                      *)

(* A call takes the next id and connects its slot.  A call to the thread   *)
(* itself is a plain function call and not modelled.                       *)
Begin(t, u, kind) ==
    /\ stack[t] = <<>> \/ At(t, "run")
    /\ t # u
    /\ lastId < MaxCalls
    /\ lastId' = lastId + 1
    /\ calls' = [calls EXCEPT ![lastId + 1] = [kind |-> kind, from |-> t, to |-> u]]
    /\ conns' = Append(conns, lastId + 1)
    /\ stack' = Push(t, Frame("connected", lastId + 1, <<>>, NoThread))
    /\ UNCHANGED <<inbox, started, done>>

(* emit: the connections that exist now will be visited.                   *)
Emit(t) ==
    /\ At(t, "connected")
    /\ stack' = [stack EXCEPT ![t][Len(stack[t])] = Frame("emit", Top(t).id, conns, NoThread)]
    /\ UNCHANGED <<lastId, calls, conns, inbox, started, done>>

(* One connection is visited, unless it was disconnected meanwhile.        *)
Visit(t) ==
    /\ At(t, "emit")
    /\ Top(t).todo # <<>>
    /\ LET c == Head(Top(t).todo)
           waits == calls[c].kind = "BlockEvents"
           rest == [Top(t) EXCEPT !.todo = Tail(@)]
       IN  IF c \in ToSet(conns)
           THEN /\ inbox' = [inbox EXCEPT ![calls[c].to] =
                      Append(@, [conn |-> c, id |-> Top(t).id,
                                 blocks |-> IF waits THEN t ELSE NoThread])]
                /\ stack' = [stack EXCEPT ![t][Len(stack[t])] =
                                IF waits THEN [rest EXCEPT !.at = "blocked"] ELSE rest]
           ELSE /\ stack' = [stack EXCEPT ![t][Len(stack[t])] = rest]
                /\ UNCHANGED inbox
    /\ UNCHANGED <<lastId, calls, conns, started, done>>

MutEmittedReturns(t) ==
    /\ At(t, "emit")
    /\ Top(t).todo = <<>>
    /\ stack' = Pop(stack, t)
    /\ conns' = IF calls[Top(t).id].kind = "Block" THEN RemoveFirst(conns, Top(t).id) ELSE conns
    /\ UNCHANGED <<lastId, calls, inbox, started, done>>

(* The emission is over: a call that does not wait returns.                *)
Emitted(t) ==
    /\ At(t, "emit")
    /\ Top(t).todo = <<>>
    /\ stack' = IF calls[Top(t).id].kind = "Queued" THEN Pop(stack, t) ELSE Goto(t, "wait")
    /\ UNCHANGED <<lastId, calls, conns, inbox, started, done>>

(* while (!done) processEvents(), then disconnect.                         *)
Return(t) ==
    /\ At(t, "wait")
    /\ done[Top(t).id]
    /\ conns' = RemoveFirst(conns, Top(t).id)
    /\ stack' = Pop(stack, t)
    /\ UNCHANGED <<lastId, calls, inbox, started, done>>

-----------------------------------------------------------------------------
(* The context's thread.                                                   *)

(* The thread is in its event loop or in the loop of a blocking call.      *)
Dispatches(t) == stack[t] = <<>> \/ At(t, "wait")

MutHandleAnyId(t) ==
    /\ Dispatches(t)
    /\ inbox[t] # <<>>
    /\ inbox' = [inbox EXCEPT ![t] = Tail(@)]
    /\ LET e == Head(inbox[t])
       IN  /\ stack' = Push(t, Frame("run", e.conn, <<>>, e.blocks))
           /\ started' = [started EXCEPT ![e.conn] = @ + 1]
    /\ UNCHANGED <<lastId, calls, conns, done>>

MutHandleNewest(t) ==
    /\ Dispatches(t)
    /\ inbox[t] # <<>>
    /\ inbox' = [inbox EXCEPT ![t] = Front(@)]
    /\ LET e == Last(inbox[t])
       IN  IF e.conn = e.id
           THEN /\ stack' = Push(t, Frame("run", e.id, <<>>, e.blocks))
                /\ started' = [started EXCEPT ![e.id] = @ + 1]
           ELSE /\ stack' = Release(stack, e.blocks)
                /\ UNCHANGED started
    /\ UNCHANGED <<lastId, calls, conns, done>>

MutHandleOnlyIdle(t) ==
    /\ stack[t] = <<>>
    /\ inbox[t] # <<>>
    /\ inbox' = [inbox EXCEPT ![t] = Tail(@)]
    /\ LET e == Head(inbox[t])
       IN  IF e.conn = e.id
           THEN /\ stack' = Push(t, Frame("run", e.id, <<>>, e.blocks))
                /\ started' = [started EXCEPT ![e.id] = @ + 1]
           ELSE /\ stack' = Release(stack, e.blocks)
                /\ UNCHANGED started
    /\ UNCHANGED <<lastId, calls, conns, done>>

(* The slot: the method is run if the event is that of its own call.       *)
Handle(t) ==
    /\ Dispatches(t)
    /\ inbox[t] # <<>>
    /\ inbox' = [inbox EXCEPT ![t] = Tail(@)]
    /\ LET e == Head(inbox[t])
       IN  IF e.conn = e.id
           THEN /\ stack' = Push(t, Frame("run", e.id, <<>>, e.blocks))
                /\ started' = [started EXCEPT ![e.id] = @ + 1]
           ELSE /\ stack' = Release(stack, e.blocks)
                /\ UNCHANGED started
    /\ UNCHANGED <<lastId, calls, conns, done>>

MutFinishKeepsConnection(t) ==
    /\ At(t, "run")
    /\ done' = [done EXCEPT ![Top(t).id] = TRUE]
    /\ stack' = Release(Pop(stack, t), Top(t).blocks)
    /\ UNCHANGED <<lastId, calls, conns, inbox, started>>

(* The method returns; a call nobody waits for is disconnected here.       *)
Finish(t) ==
    /\ At(t, "run")
    /\ done' = [done EXCEPT ![Top(t).id] = TRUE]
    /\ conns' = IF calls[Top(t).id].kind = "Queued" THEN RemoveFirst(conns, Top(t).id) ELSE conns
    /\ stack' = Release(Pop(stack, t), Top(t).blocks)
    /\ UNCHANGED <<lastId, calls, inbox, started>>

-----------------------------------------------------------------------------

Step(t) == \/ Emit(t) \/ Visit(t) \/ Emitted(t) \/ Return(t)
           \/ Handle(t) \/ Finish(t)

Next ==
    \/ \E t, u \in Threads, kind \in Kinds : Begin(t, u, kind)
    \/ \E t \in Threads : Step(t)

Spec == Init /\ [][Next]_vars

(* Threads run and methods return.                                         *)
FairSpec == Spec /\ \A t \in Threads : WF_vars(Step(t))

-----------------------------------------------------------------------------
(* Properties.                                                             *)

(* Every variable keeps its type; a connection is visited and a call is    *)
(* connected at most once.                                                 *)
TypeOK ==
    /\ lastId \in 0 .. MaxCalls
    /\ calls \in [Ids -> [kind : {"none"} \cup Kinds, from : Threads \cup {NoThread},
                          to : Threads \cup {NoThread}]]
    /\ conns \in Seq(Ids) /\ Len(conns) <= MaxCalls
    /\ inbox \in [Threads -> Seq([conn : Ids, id : Ids, blocks : Threads \cup {NoThread}])]
    /\ stack \in [Threads ->
                    Seq([at : {"connected", "emit", "blocked", "wait", "run"},
                         id : Ids, todo : Seq(Ids), blocks : Threads \cup {NoThread}])]
    /\ started \in [Ids -> 0 .. 1]
    /\ done \in [Ids -> BOOLEAN]

Frames(t) == ToSet(stack[t])
Making(i) == \E t \in Threads : \E f \in Frames(t) : f.id = i /\ f.at # "run"

(* However many calls share the invoker, and although every emission       *)
(* reaches the slots of all of them, a method runs on the thread of its    *)
(* context, for its own call and not for another one.                      *)
RunsOnItsThread ==
    /\ TypeOK
    /\ \A t \in Threads : \A f \in Frames(t) :
          f.at = "run" => calls[f.id].to = t /\ started[f.id] = 1 /\ ~ done[f.id]

(* A blocking call that has returned has run its method to the end.        *)
BlockingCallsAreDone ==
    \A i \in 1 .. lastId :
        calls[i].kind # "Queued" /\ ~ Making(i) => done[i]

(* The calls one thread makes to another start in the order they were made,*)
(* whatever is nested in their loops.                                      *)
CallsKeepTheirOrder ==
    \A i, j \in Ids :
        /\ i < j /\ started[j] = 1
        /\ calls[i].from = calls[j].from /\ calls[i].to = calls[j].to
        => started[i] = 1

(* A connection lives until its call is over and no longer: the invoker,   *)
(* which lives forever, does not collect connections.                      *)
ConnectionsEnd ==
    \A i \in 1 .. lastId :
        done[i] /\ ~ Making(i) => i \notin ToSet(conns)

(* Threads that wait for each other with event loops never wait forever:   *)
(* every call is carried out and every caller goes on, as long as no call  *)
(* waits without one.                                                      *)
CallsComplete ==
    \A i \in Ids :
        i <= lastId ~> \/ done[i] /\ ~ Making(i)
                       \/ \E j \in Ids : calls[j].kind = "BlockEvents"

(* A call that is not blocking does not wait for any thread, as            *)
(* tests/proofcore/proofobject_test.cpp:89 (nonBlockingSafeCall) has it.   *)
(* It does when it visits the connection of another thread's BlockEvents   *)
(* call, for good if that call goes to the thread it is made on.           *)
QueuedCallsDoNotWait ==
    \A t \in Threads : At(t, "blocked") => calls[Top(t).id].kind # "Queued"

=============================================================================
