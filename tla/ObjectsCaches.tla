---------------------------- MODULE ObjectsCaches ----------------------------
(***************************************************************************)
(* The three caches of objects of one type (objectscache.h) and Expirator  *)
(* (expirator.cpp): a weak cache, a strong one, and a weak one whose       *)
(* objects Expirator keeps alive for a guaranteed time.                    *)
(*                                                                         *)
(* Objects are owned by QSharedPointers: they live as long as a thread, the*)
(* strong cache or Expirator holds them, and an entry of a weak cache may  *)
(* outlive its object.  Any thread uses any cache.  add(), remove() and    *)
(* clear() work under the write lock of a cache; value() takes the read    *)
(* lock, lets it go, looks whether the object lives, and may clean the     *)
(* entry up under the write lock, and may then ask the other caches.       *)
(*                                                                         *)
(* Creators are supposed to return an object and not to use the caches,    *)
(* whose lock is held when they are called.  For the empty key nothing is  *)
(* ever stored; it is not among Keys.                                      *)
(***************************************************************************)
EXTENDS Naturals, Sequences, FiniteSets

CONSTANTS
    Threads, Objects, Keys,
    NoObject,
    MinLifeTime,   \* m_objectsMinLifeTimeInSeconds, 0 for no guarantee
    Step,          \* what Expirator rounds times to (5 seconds)
    MaxTime        \* bound: the last time

ASSUME ObjectsAssumption == NoObject \notin Objects
ASSUME TimeAssumption == MinLifeTime \in Nat /\ Step \in Nat \ {0} /\ MaxTime \in Nat

Caches == {"weak", "strong", "guaranteed"}

VARIABLES
    cache,       \* the entry of each key in each m_cache
    controlled,  \* m_controlledObjects, as pairs of an object and a time
    now,
    held,        \* the objects each thread has a QSharedPointer to
    born,        \* objects created so far
    thread,      \* the call each thread is in
    cached,      \* where an object was put and not taken out or replaced
    promised     \* until when an object has to live, if it has

clock == <<controlled, now>>
history == <<cached, promised>>
vars == <<cache, clock, held, born, thread, history>>

(* A call: where it is, for which key; the caches yet to be asked, the one *)
(* whose value() was called, and a weak pointer to an object.              *)
Call(at, c, k, todo, ref) == [at |-> at, cache |-> c, key |-> k, todo |-> todo, ref |-> ref]
Idle == [at |-> "idle"]

Init ==
    /\ cache = [c \in Caches |-> [k \in Keys |-> NoObject]]
    /\ controlled = {}
    /\ now = 0
    /\ held = [t \in Threads |-> {}]
    /\ born = {}
    /\ thread = [t \in Threads |-> Idle]
    /\ cached = [o \in Objects |-> {}]
    /\ promised = [o \in Objects |-> 0]

Alive(o) ==
    \/ \E t \in Threads : o \in held[t]
    \/ \E k \in Keys : cache["strong"][k] = o
    \/ \E r \in controlled : r.object = o

(* What an add() without overwriting finds and leaves in place.            *)
Present(c, k) == cache[c][k] # NoObject /\ (c = "strong" \/ Alive(cache[c][k]))

IsIdle(t) == thread[t] = Idle
At(t, at) == thread[t].at = at

Goto(t, call) == thread' = [thread EXCEPT ![t] = call]
Hold(t, o) == held' = [held EXCEPT ![t] = @ \cup {o}]

-----------------------------------------------------------------------------
(* Objects outside of the caches.                                          *)

Create(t) ==
    /\ IsIdle(t)
    /\ \E o \in Objects \ born : born' = born \cup {o} /\ Hold(t, o)
    /\ UNCHANGED <<cache, clock, thread, history>>

Drop(t, o) ==
    /\ IsIdle(t)
    /\ o \in held[t]
    /\ held' = [held EXCEPT ![t] = @ \ {o}]
    /\ UNCHANGED <<cache, clock, born, thread, history>>

-----------------------------------------------------------------------------
(* add()                                                                   *)

Later(a, b) == IF a > b THEN a ELSE b

(* The guaranteed cache goes on to addObjectToExpirator().                 *)
Guarantee(t, c, k, o) ==
    IF c = "guaranteed" /\ MinLifeTime > 0
    THEN /\ Goto(t, Call("expirator", c, k, <<c>>, o))
         /\ promised' = [promised EXCEPT ![o] = Later(@, now + MinLifeTime)]
    ELSE UNCHANGED <<thread, promised>>

Insert(t, c, k, o) ==
    /\ cache' = [cache EXCEPT ![c][k] = o]
    /\ cached' = [p \in Objects |-> IF p = o THEN cached[p] \cup {<<c, k>>}
                                             ELSE cached[p] \ {<<c, k>>}]
    /\ Guarantee(t, c, k, o)

MutAddObjectOnce(t, c, k, o, overwrite) ==
    /\ IsIdle(t)
    /\ o \in held[t]
    /\ IF Present(c, k) /\ ~ overwrite
       THEN /\ Hold(t, cache[c][k])
            /\ promised' = [promised EXCEPT ![o] = IF cache[c][k] = o /\ c = "guaranteed"
                                                   THEN Later(@, now + MinLifeTime) ELSE @]
            /\ UNCHANGED <<cache, cached, thread>>
       ELSE Insert(t, c, k, o) /\ UNCHANGED held
    /\ UNCHANGED <<clock, born>>

(* add(key, object, overwriteCurrent): what is there already is returned;  *)
(* if that is the object itself its guaranteed time begins anew.           *)
AddObject(t, c, k, o, overwrite) ==
    /\ IsIdle(t)
    /\ o \in held[t]
    /\ IF Present(c, k) /\ ~ overwrite
       THEN /\ Hold(t, cache[c][k])
            /\ IF cache[c][k] = o THEN Guarantee(t, c, k, o) ELSE UNCHANGED <<thread, promised>>
            /\ UNCHANGED <<cache, cached>>
       ELSE Insert(t, c, k, o) /\ UNCHANGED held
    /\ UNCHANGED <<clock, born>>

(* add(key, creator): the creator is only called if nothing is there.      *)
AddCreated(t, c, k) ==
    /\ IsIdle(t)
    /\ IF Present(c, k)
       THEN Hold(t, cache[c][k]) /\ UNCHANGED <<cache, born, thread, history>>
       ELSE \E o \in Objects \ born :
               /\ born' = born \cup {o}
               /\ Hold(t, o)
               /\ Insert(t, c, k, o)
    /\ UNCHANGED clock

MutRounded(time) == (time \div Step) * Step

(* Rounded down to full steps, and one step added.                         *)
Rounded(time) == (time \div Step) * Step + Step

(* Expirator::addObject(), with the time it is then.                       *)
AddToExpirator(t) ==
    /\ At(t, "expirator")
    /\ controlled' = controlled \cup {[object |-> thread[t].ref,
                                       until |-> Rounded(now + MinLifeTime)]}
    /\ Goto(t, Idle)
    /\ UNCHANGED <<cache, now, held, born, history>>

-----------------------------------------------------------------------------
(* remove() and clear()                                                    *)

TakeOut(c, ks) ==
    /\ cache' = [cache EXCEPT ![c] = [k \in Keys |-> IF k \in ks THEN NoObject ELSE @[k]]]
    /\ cached' = [o \in Objects |-> cached[o] \ {<<c, k>> : k \in ks}]
    /\ UNCHANGED <<clock, held, born, thread, promised>>

Remove(t, c, k) == IsIdle(t) /\ TakeOut(c, {k})
Clear(t, c) == IsIdle(t) /\ TakeOut(c, Keys)

-----------------------------------------------------------------------------
(* value()                                                                 *)

(* valueFromOtherCaches(), and what the strong cache does in its place.    *)
Others == [weak |-> <<"strong", "guaranteed">>,
           strong |-> <<"weak", "guaranteed">>,
           guaranteed |-> <<"strong", "weak">>]

Value(t, c, k, useOtherCaches) ==
    /\ IsIdle(t)
    /\ Goto(t, Call("lookup", c, k,
                    <<c>> \o (IF useOtherCaches THEN Others[c] ELSE <<>>), NoObject))
    /\ UNCHANGED <<cache, clock, held, born, history>>

(* The entry found under the read lock.                                    *)
Entry(t) == cache[Head(thread[t].todo)][thread[t].key]

(* Nothing was found in this cache; the next one, if any, is asked.        *)
AskNext(t) ==
    Goto(t, IF Len(thread[t].todo) = 1 THEN Idle
            ELSE [thread[t] EXCEPT !.at = "lookup", !.todo = Tail(@), !.ref = NoObject])

(* The strong cache has the object, the others a weak pointer to it.       *)
Lookup(t) ==
    /\ At(t, "lookup")
    /\ \/ Entry(t) = NoObject /\ AskNext(t) /\ UNCHANGED held
       \/ /\ Entry(t) # NoObject /\ Head(thread[t].todo) = "strong"
          /\ Hold(t, Entry(t)) /\ Goto(t, Idle)
       \/ /\ Entry(t) # NoObject /\ Head(thread[t].todo) # "strong"
          /\ Goto(t, [thread[t] EXCEPT !.at = "toStrongRef", !.ref = Entry(t)])
          /\ UNCHANGED held
    /\ UNCHANGED <<cache, clock, born, history>>

ToStrongRef(t) ==
    /\ At(t, "toStrongRef")
    /\ IF Alive(thread[t].ref)
       THEN Hold(t, thread[t].ref) /\ Goto(t, Idle)
       ELSE Goto(t, [thread[t] EXCEPT !.at = "clean", !.ref = NoObject]) /\ UNCHANGED held
    /\ UNCHANGED <<cache, clock, born, history>>

MutCleanUnchecked(t) ==
    /\ At(t, "clean")
    /\ cache' = [cache EXCEPT ![Head(thread[t].todo)][thread[t].key] = NoObject]
    /\ IF Head(thread[t].todo) = thread[t].cache THEN Goto(t, Idle) ELSE AskNext(t)
    /\ UNCHANGED <<clock, held, born, history>>

(* The entry is taken out if its object is gone, then too.  A weak cache   *)
(* that has an entry, be it a dead one, does not ask the other caches.     *)
Clean(t) ==
    /\ At(t, "clean")
    /\ cache' = [cache EXCEPT ![Head(thread[t].todo)][thread[t].key] =
                                 IF Alive(@) THEN @ ELSE NoObject]
    /\ IF Head(thread[t].todo) = thread[t].cache THEN Goto(t, Idle) ELSE AskNext(t)
    /\ UNCHANGED <<clock, held, born, history>>

-----------------------------------------------------------------------------
(* Expirator's thread.                                                     *)

Tick ==
    /\ now < MaxTime
    /\ now' = now + 1
    /\ promised' = [o \in Objects |-> IF promised[o] > now' THEN promised[o] ELSE 0]
    /\ UNCHANGED <<cache, controlled, held, born, thread, cached>>

TimerEvent ==
    /\ controlled' = {r \in controlled : r.until > now}
    /\ UNCHANGED <<cache, now, held, born, thread, history>>

-----------------------------------------------------------------------------

Use(t) ==
    \/ Create(t)
    \/ \E o \in Objects : Drop(t, o)
    \/ \E c \in Caches, k \in Keys :
          \/ \E o \in Objects, overwrite \in BOOLEAN : AddObject(t, c, k, o, overwrite)
          \/ AddCreated(t, c, k) \/ Remove(t, c, k)
          \/ \E useOtherCaches \in BOOLEAN : Value(t, c, k, useOtherCaches)
    \/ \E c \in Caches : Clear(t, c)

Continue(t) == AddToExpirator(t) \/ Lookup(t) \/ ToStrongRef(t) \/ Clean(t)

Next ==
    \/ \E t \in Threads : Use(t) \/ Continue(t)
    \/ Tick \/ TimerEvent

Spec == Init /\ [][Next]_vars

-----------------------------------------------------------------------------
(* Properties.                                                             *)

Calls == [at : {"lookup", "toStrongRef", "clean", "expirator"},
          cache : Caches, key : Keys, todo : Seq(Caches) \ {<<>>},
          ref : Objects \cup {NoObject}]

(* Every variable keeps its type, and only objects that were created are   *)
(* held, cached or kept.                                                   *)
TypeOK ==
    /\ cache \in [Caches -> [Keys -> born \cup {NoObject}]]
    /\ controlled \subseteq [object : born, until : Nat]
    /\ now \in 0 .. MaxTime
    /\ held \in [Threads -> SUBSET born]
    /\ born \subseteq Objects
    /\ thread \in [Threads -> {Idle} \cup Calls]
    /\ cached \in [Objects -> SUBSET (Caches \X Keys)]
    /\ promised \in [Objects -> Nat]

(* An object that was put into a cache and neither replaced nor taken out  *)
(* is found there as long as it lives.  So threads that add to one key     *)
(* share one object, although value() cleans up entries it saw dead under  *)
(* an earlier lock.                                                        *)
CachedObjectsAreFound ==
    \A o \in Objects, c \in Caches, k \in Keys :
        <<c, k>> \in cached[o] /\ Alive(o) => cache[c][k] = o

(* An object added to the guaranteed cache lives for the guaranteed time   *)
(* after its last add(), whatever is removed or dropped, and however the   *)
(* time it may go is rounded.                                              *)
LifeTimeIsGuaranteed ==
    \A o \in Objects : now < promised[o] => Alive(o)

OnItsWay(t, o) == At(t, "expirator") /\ thread[t].ref = o

(* What a thread in a call has: an object of an entry it read, or one on   *)
(* its way to Expirator, which it holds.                                   *)
CallInv ==
    \A t \in Threads :
        /\ At(t, "toStrongRef") => thread[t].ref \in born
        /\ At(t, "expirator") => thread[t].ref \in held[t]

(* An object with time left is on its way to Expirator, or kept until that *)
(* time at least.                                                          *)
PromiseInv ==
    \A o \in Objects :
        /\ promised[o] <= now + MinLifeTime
        /\ now < promised[o] =>
              \/ \E t \in Threads : OnItsWay(t, o)
              \/ \E r \in controlled : r.object = o /\ r.until >= promised[o]

(* The inductive invariant behind both: objects that are still to be       *)
(* created are nowhere, and the above.                                     *)
IInv ==
    /\ TypeOK
    /\ CachedObjectsAreFound
    /\ \A o \in Objects \ born : cached[o] = {}
    /\ CallInv
    /\ PromiseInv

(* The call of t ends here with nothing although it was to ask the others. *)
MissesOthers(t) ==
    /\ At(t, "clean") \/ (At(t, "lookup") /\ Entry(t) = NoObject)
    /\ Len(thread[t].todo) > 1 \/ Head(thread[t].todo) # thread[t].cache
    /\ thread'[t] = Idle

(* tests/proofcore/objectscache_test.cpp:350 (interCache): value() with    *)
(* useOtherCaches returns what another cache has for the key.  It returns  *)
(* nothing if the cache it is called on has an entry of a dead object.     *)
OtherCachesAreAsked ==
    [][\A t \in Threads :
          MissesOthers(t) => \A c \in Caches : ~ Present(c, thread[t].key)]_vars

=============================================================================
