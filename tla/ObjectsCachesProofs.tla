------------------------- MODULE ObjectsCachesProofs -------------------------
(***************************************************************************)
(* Proofs about ObjectsCaches, for any threads, objects and keys, any      *)
(* guaranteed time and any rounding: an object that was put into a cache   *)
(* is found there as long as it lives, and it lives as long as guaranteed. *)
(*                                                                         *)
(* Both follow from IInv.  Its first part is kept because no step brings   *)
(* a dead object back to life (NoRevival): all a thread gets to hold is    *)
(* new, or alive already.                                                  *)
(***************************************************************************)
EXTENDS ObjectsCaches, SequenceTheorems, TLAPS

(* Rounding moves a time up, never down.                                   *)
LEMMA RoundedIsLater ==
    ASSUME NEW time \in Nat
    PROVE  Rounded(time) \in Nat /\ time < Rounded(time)
<1>1. /\ time \div Step \in Nat
      /\ time = Step * (time \div Step) + (time % Step)
      /\ time % Step \in 0 .. Step - 1
  BY TimeAssumption
<1>2. (time \div Step) * Step \in Nat /\ (time \div Step) * Step = Step * (time \div Step)
  BY <1>1, TimeAssumption
<1> QED BY <1>1, <1>2, TimeAssumption DEF Rounded

-----------------------------------------------------------------------------

(* The caches, what lives in them, and what no step may do to it.          *)
NoRevival == \A o \in Objects : Alive(o)' => Alive(o) \/ o \notin born

LEMMA InitIInv == Init => IInv
<1> SUFFICES ASSUME Init PROVE IInv
  OBVIOUS
<1>1. TypeOK
  BY TimeAssumption DEF Init, TypeOK
<1>2. CachedObjectsAreFound /\ \A o \in Objects \ born : cached[o] = {}
  BY DEF Init, CachedObjectsAreFound
<1>3. CallInv
  BY DEF Init, CallInv, At, Idle
<1>4. PromiseInv
  BY TimeAssumption DEF Init, PromiseInv
<1> QED BY <1>1, <1>2, <1>3, <1>4 DEF IInv

-----------------------------------------------------------------------------
(* What the parts of IInv need of a step.                                  *)

(* A step that puts nothing into a cache and takes live entries out only   *)
(* with their places keeps objects where they can be found.                *)
LEMMA StillFound ==
    ASSUME IInv, NoRevival, born \subseteq born', born' \subseteq Objects,
           \A o \in Objects : cached'[o] \subseteq cached[o],
           \A o \in Objects, c \in Caches, k \in Keys :
              <<c, k>> \in cached'[o] /\ cache[c][k] = o /\ Alive(o)' => cache'[c][k] = o
    PROVE  CachedObjectsAreFound' /\ \A o \in Objects \ born' : cached'[o] = {}
<1>1. \A o \in Objects \ born : cached[o] = {}
  BY DEF IInv
<1>2. \A o \in Objects \ born' : cached'[o] = {}
  BY <1>1
<1>3. ASSUME NEW o \in Objects, NEW c \in Caches, NEW k \in Keys,
             <<c, k>> \in cached'[o], Alive(o)'
      PROVE  cache'[c][k] = o
  <2>1. <<c, k>> \in cached[o]
    BY <1>3
  <2>2. o \in born
    BY <1>1, <2>1
  <2>3. Alive(o)
    BY <1>3, <2>2 DEF NoRevival
  <2>4. cache[c][k] = o
    BY <2>1, <2>3 DEF IInv, CachedObjectsAreFound
  <2> QED BY <1>3, <2>4
<1> QED BY <1>2, <1>3 DEF CachedObjectsAreFound

(* A step that makes no promise, takes no object off its way and no kept   *)
(* object with time left away, keeps the promises.                         *)
LEMMA StillPromised ==
    ASSUME IInv, UNCHANGED <<now, promised>>, controlled \subseteq controlled',
           \A t \in Threads, o \in Objects : OnItsWay(t, o) => OnItsWay(t, o)'
    PROVE  PromiseInv'
BY DEF IInv, PromiseInv

(* The calls of other threads stay what they are.                          *)
LEMMA StillInCall ==
    ASSUME IInv, NEW t \in Threads, born \subseteq born',
           \A u \in Threads : held[u] \subseteq held'[u],
           \A u \in Threads \ {t} : thread'[u] = thread[u],
           thread'[t].at = "toStrongRef" => thread'[t].ref \in born',
           thread'[t].at = "expirator" => thread'[t].ref \in held'[t]
    PROVE  CallInv'
BY DEF IInv, CallInv, At

-----------------------------------------------------------------------------
(* Objects outside of the caches.                                          *)

LEMMA CreateIInv == ASSUME IInv, NEW t \in Threads, Create(t) PROVE IInv'
<1> USE DEF IInv
<1>1. PICK o \in Objects \ born : born' = born \cup {o} /\ Hold(t, o)
  BY DEF Create
<1>2. TypeOK'
  BY <1>1 DEF Create, TypeOK, Hold, clock, history
<1>3. NoRevival
  BY <1>1 DEF Create, TypeOK, Hold, clock, NoRevival, Alive
<1>4. CachedObjectsAreFound' /\ \A p \in Objects \ born' : cached'[p] = {}
  <2>1. /\ born \subseteq born' /\ born' \subseteq Objects
        /\ UNCHANGED <<cache, cached>>
    BY <1>1 DEF Create, TypeOK, history
  <2> QED BY <1>3, <2>1, StillFound
<1>5. CallInv'
  BY <1>1 DEF Create, TypeOK, Hold, CallInv, At
<1>6. PromiseInv'
  BY DEF Create, clock, history, PromiseInv, OnItsWay, At
<1> QED BY <1>2, <1>4, <1>5, <1>6

LEMMA DropIInv ==
    ASSUME IInv, NEW t \in Threads, NEW o \in Objects, Drop(t, o) PROVE IInv'
<1> USE DEF IInv
<1>1. TypeOK'
  BY DEF Drop, TypeOK, clock, history
<1>2. NoRevival
  BY DEF Drop, TypeOK, clock, NoRevival, Alive
<1>3. CachedObjectsAreFound' /\ \A p \in Objects \ born' : cached'[p] = {}
  BY <1>2, StillFound DEF Drop, TypeOK, history
<1>4. CallInv'
  BY DEF Drop, TypeOK, CallInv, At, IsIdle, Idle
<1>5. PromiseInv'
  BY DEF Drop, clock, history, PromiseInv, OnItsWay, At
<1> QED BY <1>1, <1>3, <1>4, <1>5

-----------------------------------------------------------------------------
(* add()                                                                   *)

(* Guarantee() sends the object to Expirator if it makes a promise.        *)
LEMMA GuaranteeKept ==
    ASSUME IInv, NEW t \in Threads, NEW c \in Caches, NEW k \in Keys, NEW o \in Objects,
           IsIdle(t), Guarantee(t, c, k, o), o \in held'[t],
           born \subseteq born', UNCHANGED clock,
           \A u \in Threads : held[u] \subseteq held'[u]
    PROVE  /\ thread' \in [Threads -> {Idle} \cup Calls]
           /\ promised' \in [Objects -> Nat]
           /\ CallInv' /\ PromiseInv'
<1> USE DEF IInv
<1>1. CASE c = "guaranteed" /\ MinLifeTime > 0
  <2>1. thread' = [thread EXCEPT ![t] = Call("expirator", c, k, <<c>>, o)]
    BY <1>1 DEF Guarantee, Goto
  <2>2. promised' = [promised EXCEPT ![o] = Later(@, now + MinLifeTime)]
    BY <1>1 DEF Guarantee
  <2>3. now \in Nat /\ now' = now /\ controlled' = controlled /\ MinLifeTime \in Nat
    BY TimeAssumption DEF TypeOK, clock
  <2>4. promised' \in [Objects -> Nat]
    BY <2>2, <2>3 DEF TypeOK, Later
  <2>5. <<c>> \in Seq(Caches) \ {<<>>}
    OBVIOUS
  <2>6. thread' \in [Threads -> {Idle} \cup Calls]
    BY <2>1, <2>5 DEF TypeOK, Call, Calls
  <2>7. CallInv'
    BY <2>1 DEF TypeOK, CallInv, At, Call
  <2>8. OnItsWay(t, o)'
    BY <2>1 DEF TypeOK, OnItsWay, At, Call
  <2>9. \A u \in Threads, p \in Objects : OnItsWay(u, p) => OnItsWay(u, p)'
    BY <2>1 DEF TypeOK, OnItsWay, At, IsIdle, Idle
  <2>10. \A p \in Objects : p # o => promised'[p] = promised[p]
    BY <2>2 DEF TypeOK
  <2>11. promised'[o] <= now + MinLifeTime
    BY <2>2, <2>3 DEF TypeOK, PromiseInv, Later
  <2>12. PromiseInv'
    BY <2>3, <2>8, <2>9, <2>10, <2>11 DEF PromiseInv
  <2> QED BY <2>4, <2>6, <2>7, <2>12
<1>2. CASE ~ (c = "guaranteed" /\ MinLifeTime > 0)
  BY <1>2 DEF Guarantee, TypeOK, CallInv, PromiseInv, OnItsWay, At, clock
<1> QED BY <1>1, <1>2

(* The places of an inserted object and of all others are right again.     *)
LEMMA InsertFound ==
    ASSUME IInv, NoRevival, NEW c \in Caches, NEW k \in Keys, NEW o \in Objects,
           o \in born', born \subseteq born', born' \subseteq Objects,
           cache'[c][k] = o,
           \A d \in Caches, l \in Keys : (d = c /\ l = k) \/ cache'[d][l] = cache[d][l],
           \A p \in Objects : cached'[p] \subseteq cached[p] \cup {<<c, k>>},
           \A p \in Objects : p = o \/ <<c, k>> \notin cached'[p]
    PROVE  CachedObjectsAreFound' /\ \A p \in Objects \ born' : cached'[p] = {}
<1> USE DEF IInv
<1>1. ASSUME NEW p \in Objects, NEW d \in Caches, NEW l \in Keys,
             <<d, l>> \in cached'[p], Alive(p)'
      PROVE  cache'[d][l] = p
  <2>1. CASE d = c /\ l = k
    BY <1>1, <2>1
  <2>2. CASE ~ (d = c /\ l = k)
    <3>1. <<d, l>> \in cached[p]
      BY <1>1, <2>2
    <3>2. p \in born
      BY <3>1
    <3>3. cache[d][l] = p
      BY <1>1, <3>1, <3>2 DEF NoRevival, CachedObjectsAreFound
    <3> QED BY <2>2, <3>3
  <2> QED BY <2>1, <2>2
<1>2. \A p \in Objects \ born' : cached'[p] = {}
  OBVIOUS
<1>3. CachedObjectsAreFound'
  BY <1>1 DEF CachedObjectsAreFound
<1> QED BY <1>2, <1>3

(* Insertion into a cache, by add() of an object or with a creator.        *)
LEMMA InsertIInv ==
    ASSUME IInv, NEW t \in Threads, NEW c \in Caches, NEW k \in Keys, NEW o \in Objects,
           IsIdle(t), Insert(t, c, k, o), UNCHANGED clock,
           o \in held[t] \/ o \notin born,
           born' = born \cup {o},
           held' = [held EXCEPT ![t] = @ \cup {o}]
    PROVE  IInv'
<1>1. /\ cache' = [cache EXCEPT ![c][k] = o]
      /\ cached' = [p \in Objects |-> IF p = o THEN cached[p] \cup {<<c, k>>}
                                               ELSE cached[p] \ {<<c, k>>}]
      /\ Guarantee(t, c, k, o)
  BY DEF Insert
<1>2. o \in held'[t] /\ \A u \in Threads : held[u] \subseteq held'[u]
  BY DEF IInv, TypeOK
<1>3. /\ thread' \in [Threads -> {Idle} \cup Calls]
      /\ promised' \in [Objects -> Nat]
      /\ CallInv' /\ PromiseInv'
  BY <1>1, <1>2, GuaranteeKept
<1>4. /\ o \in born' /\ born' \subseteq Objects /\ born \subseteq born'
      /\ held' \in [Threads -> SUBSET born']
      /\ cache' \in [Caches -> [Keys -> born' \cup {NoObject}]]
      /\ cached' \in [Objects -> SUBSET (Caches \X Keys)]
      /\ controlled' \subseteq [object : born', until : Nat]
      /\ now' \in 0 .. MaxTime
  BY <1>1 DEF IInv, TypeOK, clock
<1>5. TypeOK'
  BY <1>3, <1>4 DEF TypeOK
<1>6. NoRevival
  BY <1>1 DEF IInv, TypeOK, clock, NoRevival, Alive
<1>7. /\ cache'[c][k] = o
      /\ \A d \in Caches, l \in Keys : (d = c /\ l = k) \/ cache'[d][l] = cache[d][l]
      /\ \A p \in Objects : cached'[p] \subseteq cached[p] \cup {<<c, k>>}
      /\ \A p \in Objects : p = o \/ <<c, k>> \notin cached'[p]
  BY <1>1 DEF IInv, TypeOK
<1>8. CachedObjectsAreFound' /\ \A p \in Objects \ born' : cached'[p] = {}
  BY <1>4, <1>6, <1>7, InsertFound
<1> QED BY <1>3, <1>5, <1>8 DEF IInv

(* What is there already is returned, and may begin its time anew.         *)
LEMMA PresentIInv ==
    ASSUME IInv, NEW t \in Threads, NEW c \in Caches, NEW k \in Keys,
           IsIdle(t), Present(c, k), Hold(t, cache[c][k]),
           UNCHANGED <<cache, clock, born, cached>>,
           Guarantee(t, c, k, cache[c][k]) \/ UNCHANGED <<thread, promised>>
    PROVE  IInv'
<1> USE DEF IInv
<1> DEFINE o == cache[c][k]
<1>1. o \in born /\ Alive(o) /\ o \in Objects
  BY DEF Present, TypeOK, Alive
<1>2. held' = [held EXCEPT ![t] = @ \cup {o}]
  BY DEF Hold
<1> HIDE DEF o
<1>3. o \in held'[t] /\ \A u \in Threads : held[u] \subseteq held'[u]
  BY <1>2 DEF TypeOK
<1>4. /\ thread' \in [Threads -> {Idle} \cup Calls]
      /\ promised' \in [Objects -> Nat]
      /\ CallInv' /\ PromiseInv'
  <2>1. CASE Guarantee(t, c, k, o)
    BY <1>1, <1>3, <2>1, GuaranteeKept DEF clock
  <2>2. CASE UNCHANGED <<thread, promised>>
    BY <1>3, <2>2 DEF TypeOK, CallInv, PromiseInv, OnItsWay, At, clock
  <2> QED BY <2>1, <2>2 DEF o
<1>5. TypeOK'
  BY <1>1, <1>2, <1>4 DEF TypeOK, clock
<1>6. NoRevival
  BY <1>1, <1>2 DEF TypeOK, clock, NoRevival, Alive
<1>7. CachedObjectsAreFound' /\ \A p \in Objects \ born' : cached'[p] = {}
  BY <1>6, StillFound DEF TypeOK
<1> QED BY <1>4, <1>5, <1>7

LEMMA AddObjectIInv ==
    ASSUME IInv, NEW t \in Threads, NEW c \in Caches, NEW k \in Keys, NEW o \in Objects,
           NEW overwrite \in BOOLEAN, AddObject(t, c, k, o, overwrite)
    PROVE  IInv'
<1>1. CASE Present(c, k) /\ ~ overwrite
  BY <1>1, PresentIInv DEF AddObject
<1>2. CASE ~ (Present(c, k) /\ ~ overwrite)
  <2>1. IsIdle(t) /\ o \in held[t] /\ Insert(t, c, k, o) /\ UNCHANGED <<held, clock, born>>
    BY <1>2 DEF AddObject
  <2>2. born' = born \cup {o} /\ held' = [held EXCEPT ![t] = @ \cup {o}]
    BY <2>1 DEF IInv, TypeOK
  <2> QED BY <2>1, <2>2, InsertIInv
<1> QED BY <1>1, <1>2

LEMMA AddCreatedIInv ==
    ASSUME IInv, NEW t \in Threads, NEW c \in Caches, NEW k \in Keys, AddCreated(t, c, k)
    PROVE  IInv'
<1>1. CASE Present(c, k)
  BY <1>1, PresentIInv DEF AddCreated, history
<1>2. CASE ~ Present(c, k)
  <2>1. PICK o \in Objects \ born :
           born' = born \cup {o} /\ Hold(t, o) /\ Insert(t, c, k, o)
    BY <1>2 DEF AddCreated
  <2> QED BY <2>1, InsertIInv DEF AddCreated, Hold
<1> QED BY <1>1, <1>2

(* Expirator keeps the object longer than was promised.                    *)
LEMMA AddToExpiratorIInv ==
    ASSUME IInv, NEW t \in Threads, AddToExpirator(t) PROVE IInv'
<1> USE DEF IInv
<1> DEFINE o == thread[t].ref
           end == Rounded(now + MinLifeTime)
<1>1. /\ At(t, "expirator")
      /\ controlled' = controlled \cup {[object |-> o, until |-> end]}
      /\ thread' = [thread EXCEPT ![t] = Idle]
      /\ UNCHANGED <<cache, now, held, born, cached, promised>>
  BY DEF AddToExpirator, Goto, history
<1>2. now \in Nat /\ MinLifeTime \in Nat /\ end \in Nat /\ now + MinLifeTime < end
  BY TimeAssumption, RoundedIsLater DEF TypeOK
<1>3. o \in born /\ o \in Objects /\ \E u \in Threads : o \in held[u]
  BY <1>1 DEF CallInv, TypeOK
<1> HIDE DEF end
<1>4. TypeOK'
  <2>1. controlled' \subseteq [object : born, until : Nat]
    BY <1>1, <1>2, <1>3 DEF TypeOK
  <2>2. thread' \in [Threads -> {Idle} \cup Calls]
    BY <1>1 DEF TypeOK
  <2> QED BY <1>1, <2>1, <2>2 DEF TypeOK
<1>5. NoRevival
  BY <1>1, <1>3 DEF NoRevival, Alive
<1>6. CachedObjectsAreFound' /\ \A p \in Objects \ born' : cached'[p] = {}
  BY <1>1, <1>5, StillFound DEF TypeOK
<1>7. CallInv'
  BY <1>1 DEF TypeOK, CallInv, At, Idle
<1>8. PromiseInv'
  <2>1. \A p \in Objects : promised[p] \in Nat /\ promised[p] <= now + MinLifeTime
    BY DEF TypeOK, PromiseInv
  <2>2. [object |-> o, until |-> end] \in controlled'
    BY <1>1
  <2>3. end >= promised[o]
    BY <1>2, <1>3, <2>1
  <2>4. \E r \in controlled' : r.object = o /\ r.until >= promised[o]
    BY <2>2, <2>3
  <2>5. \A u \in Threads, p \in Objects : OnItsWay(u, p) => OnItsWay(u, p)' \/ p = o
    BY <1>1 DEF TypeOK, OnItsWay, At
  <2>6. \A p \in Objects : now < promised[p] =>
           \/ \E u \in Threads : OnItsWay(u, p)'
           \/ \E r \in controlled' : r.object = p /\ r.until >= promised[p]
    BY <1>1, <2>4, <2>5 DEF PromiseInv
  <2> QED BY <1>1, <2>1, <2>6 DEF PromiseInv
<1> QED BY <1>4, <1>6, <1>7, <1>8

-----------------------------------------------------------------------------
(* remove() and clear()                                                    *)

LEMMA TakeOutIInv ==
    ASSUME IInv, NEW c \in Caches, NEW ks \in SUBSET Keys, TakeOut(c, ks) PROVE IInv'
<1> USE DEF IInv
<1>1. /\ cache' = [cache EXCEPT ![c] = [k \in Keys |-> IF k \in ks THEN NoObject ELSE @[k]]]
      /\ cached' = [o \in Objects |-> cached[o] \ {<<c, k>> : k \in ks}]
      /\ UNCHANGED <<controlled, now, held, born, thread, promised>>
  BY DEF TakeOut, clock
<1>2. cache' \in [Caches -> [Keys -> born \cup {NoObject}]]
  BY <1>1 DEF TypeOK
<1>3. \A d \in Caches, l \in Keys :
         cache'[d][l] = IF d = c /\ l \in ks THEN NoObject ELSE cache[d][l]
  BY <1>1 DEF TypeOK
<1>4. \A o \in Objects : /\ cached'[o] \subseteq cached[o]
                         /\ \A l \in ks : <<c, l>> \notin cached'[o]
  BY <1>1
<1>5. TypeOK'
  BY <1>1, <1>2, <1>4 DEF TypeOK
<1>6. NoRevival
  BY <1>1, <1>3, ObjectsAssumption DEF NoRevival, Alive, Caches
<1>7. CachedObjectsAreFound' /\ \A o \in Objects \ born' : cached'[o] = {}
  <2>1. \A o \in Objects, d \in Caches, l \in Keys :
           <<d, l>> \in cached'[o] /\ cache[d][l] = o => cache'[d][l] = o
    BY <1>3, <1>4
  <2> QED BY <1>1, <1>4, <1>6, <2>1, StillFound DEF TypeOK
<1>8. CallInv' /\ PromiseInv'
  BY <1>1 DEF CallInv, PromiseInv, OnItsWay, At
<1> QED BY <1>5, <1>7, <1>8

-----------------------------------------------------------------------------
(* value()                                                                 *)

(* A thread that goes on, holding one more living object perhaps, disturbs *)
(* nothing: it was not on its way to Expirator.                            *)
LEMMA GoesOn ==
    ASSUME IInv, NEW t \in Threads, NEW call \in {Idle} \cup Calls,
           ~ At(t, "expirator"), call.at # "expirator",
           call.at = "toStrongRef" => call.ref \in born,
           thread' = [thread EXCEPT ![t] = call],
           held' \in [Threads -> SUBSET born],
           \A u \in Threads : /\ held[u] \subseteq held'[u]
                              /\ \A o \in held'[u] \ held[u] : Alive(o),
           UNCHANGED <<cache, controlled, now, born, cached, promised>>
    PROVE  IInv'
<1> USE DEF IInv
<1>1. TypeOK'
  BY DEF TypeOK
<1>2. NoRevival
  BY DEF TypeOK, NoRevival, Alive
<1>3. CachedObjectsAreFound' /\ \A o \in Objects \ born' : cached'[o] = {}
  BY <1>2, StillFound DEF TypeOK
<1>4. CallInv'
  BY DEF TypeOK, CallInv, At
<1>5. PromiseInv'
  BY DEF TypeOK, PromiseInv, OnItsWay, At
<1> QED BY <1>1, <1>3, <1>4, <1>5

(* What AskNext() makes of a call.                                         *)
LEMMA AskNextIsCall ==
    ASSUME IInv, NEW t \in Threads, thread[t] \in Calls, AskNext(t)
    PROVE  \E call \in {Idle} \cup Calls :
              /\ call.at \notin {"expirator", "toStrongRef"}
              /\ thread' = [thread EXCEPT ![t] = call]
<1>1. CASE Len(thread[t].todo) = 1
  BY <1>1 DEF AskNext, Goto, Idle
<1>2. CASE Len(thread[t].todo) # 1
  <2> DEFINE call == [thread[t] EXCEPT !.at = "lookup", !.todo = Tail(@), !.ref = NoObject]
  <2>1. thread[t].todo \in Seq(Caches) /\ thread[t].todo # <<>>
    BY DEF Calls
  <2>2. Tail(thread[t].todo) \in Seq(Caches) \ {<<>>}
    <3>1. Len(thread[t].todo) \in Nat \ {0}
      BY <2>1, EmptySeq
    <3>2. /\ Tail(thread[t].todo) \in Seq(Caches)
          /\ Len(Tail(thread[t].todo)) = Len(thread[t].todo) - 1
      BY <2>1, HeadTailProperties, Zenon
    <3>3. Len(Tail(thread[t].todo)) # 0
      BY <1>2, <3>1, <3>2
    <3> QED BY <3>2, <3>3, EmptySeq
  <2>3. call \in Calls /\ call.at = "lookup"
    BY <2>2 DEF Calls
  <2> QED BY <1>2, <2>3 DEF AskNext, Goto
<1> QED BY <1>1, <1>2

LEMMA ValueIInv ==
    ASSUME IInv, NEW t \in Threads, NEW c \in Caches, NEW k \in Keys,
           NEW useOtherCaches \in BOOLEAN, Value(t, c, k, useOtherCaches)
    PROVE  IInv'
<1> DEFINE todo == <<c>> \o (IF useOtherCaches THEN Others[c] ELSE <<>>)
           call == Call("lookup", c, k, todo, NoObject)
<1>1. todo \in Seq(Caches) \ {<<>>}
  <2>1. Others[c] \in Seq(Caches) /\ <<>> \in Seq(Caches) /\ <<c>> \in Seq(Caches)
    <3>1. \A a, b \in Caches : <<a, b>> \in Seq(Caches)
      OBVIOUS
    <3>2. /\ Others["weak"] = <<"strong", "guaranteed">>
          /\ Others["strong"] = <<"weak", "guaranteed">>
          /\ Others["guaranteed"] = <<"strong", "weak">>
      BY DEF Others
    <3>3. c \in {"weak", "strong", "guaranteed"}
      BY DEF Caches
    <3>4. Others[c] \in Seq(Caches)
      BY <3>1, <3>2, <3>3 DEF Caches
    <3> QED BY <3>4, EmptySeq
  <2>2. todo \in Seq(Caches) /\ Len(todo) > 0
    BY <2>1, ConcatProperties
  <2> QED BY <2>2, EmptySeq
<1>2. call \in Calls /\ call.at = "lookup"
  BY <1>1 DEF Call, Calls
<1>3. ~ At(t, "expirator") /\ thread' = [thread EXCEPT ![t] = call]
  BY DEF Value, IsIdle, At, Idle, Goto
<1>4. held' = held /\ held \in [Threads -> SUBSET born]
  BY DEF Value, IInv, TypeOK
<1>5. UNCHANGED <<cache, controlled, now, born, cached, promised>>
  BY DEF Value, clock, history
<1> HIDE DEF call
<1> QED BY <1>2, <1>3, <1>4, <1>5, GoesOn

LEMMA LookupIInv == ASSUME IInv, NEW t \in Threads, Lookup(t) PROVE IInv'
<1> DEFINE first == Head(thread[t].todo)
<1>1. /\ thread[t] \in Calls /\ thread[t].at = "lookup" /\ ~ At(t, "expirator")
      /\ held \in [Threads -> SUBSET born]
  BY DEF Lookup, At, IInv, TypeOK, Idle
<1>2. UNCHANGED <<cache, controlled, now, born, cached, promised>>
  BY DEF Lookup, clock, history
<1>3. first \in Caches /\ thread[t].key \in Keys
  <2>1. thread[t].todo \in Seq(Caches) /\ thread[t].todo # <<>> /\ thread[t].key \in Keys
    BY <1>1 DEF Calls
  <2> QED BY <2>1, HeadTailProperties, Zenon
<1>4. Entry(t) \in born \cup {NoObject}
  BY <1>3 DEF Entry, IInv, TypeOK
<1>5. CASE Entry(t) = NoObject
  <2>1. AskNext(t) /\ held' = held
    BY <1>5 DEF Lookup
  <2> QED BY <1>1, <1>2, <2>1, AskNextIsCall, GoesOn
<1>6. CASE Entry(t) # NoObject /\ first = "strong"
  <2>1. held' = [held EXCEPT ![t] = @ \cup {Entry(t)}] /\ thread' = [thread EXCEPT ![t] = Idle]
    BY <1>6 DEF Lookup, Hold, Goto
  <2>2. Alive(Entry(t))
    BY <1>3, <1>6 DEF Entry, Alive
  <2>3. /\ held' \in [Threads -> SUBSET born]
        /\ \A u \in Threads : /\ held[u] \subseteq held'[u]
                              /\ \A o \in held'[u] \ held[u] : Alive(o)
    BY <1>1, <1>4, <1>6, <2>1, <2>2
  <2>4. Idle.at \notin {"expirator", "toStrongRef"} /\ Idle \in {Idle} \cup Calls
    BY DEF Idle
  <2> QED BY <1>1, <1>2, <2>1, <2>3, <2>4, GoesOn
<1>7. CASE Entry(t) # NoObject /\ first # "strong"
  <2> DEFINE call == [thread[t] EXCEPT !.at = "toStrongRef", !.ref = Entry(t)]
  <2>1. held' = held /\ thread' = [thread EXCEPT ![t] = call]
    BY <1>7 DEF Lookup, Goto
  <2>2. call \in Calls /\ call.at = "toStrongRef" /\ call.ref \in born
    BY <1>1, <1>4, <1>7 DEF Calls, IInv, TypeOK
  <2> HIDE DEF call
  <2> QED BY <1>1, <1>2, <2>1, <2>2, GoesOn
<1> QED BY <1>5, <1>6, <1>7

LEMMA ToStrongRefIInv == ASSUME IInv, NEW t \in Threads, ToStrongRef(t) PROVE IInv'
<1> DEFINE o == thread[t].ref
<1>1. /\ thread[t] \in Calls /\ ~ At(t, "expirator")
      /\ held \in [Threads -> SUBSET born] /\ o \in born
  BY DEF ToStrongRef, At, IInv, TypeOK, Idle, CallInv
<1>2. UNCHANGED <<cache, controlled, now, born, cached, promised>>
  BY DEF ToStrongRef, clock, history
<1>3. CASE Alive(o)
  <2>1. held' = [held EXCEPT ![t] = @ \cup {o}] /\ thread' = [thread EXCEPT ![t] = Idle]
    BY <1>3 DEF ToStrongRef, Hold, Goto
  <2>2. /\ held' \in [Threads -> SUBSET born]
        /\ \A u \in Threads : /\ held[u] \subseteq held'[u]
                              /\ \A p \in held'[u] \ held[u] : Alive(p)
    BY <1>1, <1>3, <2>1
  <2>3. Idle.at \notin {"expirator", "toStrongRef"} /\ Idle \in {Idle} \cup Calls
    BY DEF Idle
  <2> QED BY <1>1, <1>2, <2>1, <2>2, <2>3, GoesOn
<1>4. CASE ~ Alive(o)
  <2> DEFINE call == [thread[t] EXCEPT !.at = "clean", !.ref = NoObject]
  <2>1. held' = held /\ thread' = [thread EXCEPT ![t] = call]
    BY <1>4 DEF ToStrongRef, Goto
  <2>2. call \in Calls /\ call.at = "clean"
    BY <1>1 DEF Calls
  <2> HIDE DEF call
  <2> QED BY <1>1, <1>2, <2>1, <2>2, GoesOn
<1> QED BY <1>3, <1>4

(* Only an entry of a dead object is cleaned up.                           *)
LEMMA CleanIInv == ASSUME IInv, NEW t \in Threads, Clean(t) PROVE IInv'
<1> DEFINE c == Head(thread[t].todo)
           k == thread[t].key
<1>1. /\ thread[t] \in Calls /\ At(t, "clean") /\ ~ At(t, "expirator")
      /\ UNCHANGED <<controlled, now, held, born, cached, promised>>
  BY DEF Clean, At, IInv, TypeOK, Idle, clock, history
<1>2. c \in Caches /\ k \in Keys
  <2>1. thread[t].todo \in Seq(Caches) /\ thread[t].todo # <<>> /\ k \in Keys
    BY <1>1 DEF Calls
  <2> QED BY <2>1, HeadTailProperties, Zenon
<1>3. PICK call \in {Idle} \cup Calls :
         /\ call.at \notin {"expirator", "toStrongRef"}
         /\ thread' = [thread EXCEPT ![t] = call]
  <2>1. CASE c = thread[t].cache
    BY <2>1 DEF Clean, Goto, Idle
  <2>2. CASE c # thread[t].cache
    BY <1>1, <2>2, AskNextIsCall DEF Clean
  <2> QED BY <2>1, <2>2
<1>4. cache' = [cache EXCEPT ![c][k] = IF Alive(@) THEN @ ELSE NoObject]
  BY DEF Clean
<1> HIDE DEF c, k
<1>5. /\ cache' \in [Caches -> [Keys -> born \cup {NoObject}]]
      /\ \A d \in Caches, l \in Keys :
            cache'[d][l] = cache[d][l] \/ (cache'[d][l] = NoObject /\ ~ Alive(cache[d][l]))
  BY <1>2, <1>4 DEF IInv, TypeOK
<1>6. TypeOK'
  BY <1>1, <1>3, <1>5 DEF IInv, TypeOK
<1>7. NoRevival
  BY <1>1, <1>5, ObjectsAssumption DEF NoRevival, Alive, Caches
<1>8. CachedObjectsAreFound' /\ \A o \in Objects \ born' : cached'[o] = {}
  <2>1. \A o \in Objects, d \in Caches, l \in Keys :
           <<d, l>> \in cached[o] /\ cache[d][l] = o /\ Alive(o)' => cache'[d][l] = o
    BY <1>1, <1>5, <1>7 DEF NoRevival, IInv
  <2> QED BY <1>1, <1>7, <2>1, StillFound DEF IInv, TypeOK
<1>9. CallInv' /\ PromiseInv'
  BY <1>1, <1>3 DEF IInv, TypeOK, CallInv, PromiseInv, OnItsWay, At
<1> QED BY <1>6, <1>8, <1>9 DEF IInv

-----------------------------------------------------------------------------
(* Expirator's thread.                                                     *)

LEMMA TickIInv == ASSUME IInv, Tick PROVE IInv'
<1> USE DEF IInv
<1>1. /\ now \in Nat /\ now < MaxTime /\ now' = now + 1
      /\ UNCHANGED <<cache, controlled, held, born, thread, cached>>
      /\ \A o \in Objects : promised'[o] = IF promised[o] > now' THEN promised[o] ELSE 0
      /\ \A o \in Objects : promised[o] \in Nat /\ promised[o] <= now + MinLifeTime
  BY DEF Tick, TypeOK, PromiseInv
<1>2. TypeOK'
  BY <1>1, TimeAssumption DEF Tick, TypeOK
<1>3. NoRevival
  BY <1>1 DEF NoRevival, Alive
<1>4. CachedObjectsAreFound' /\ \A o \in Objects \ born' : cached'[o] = {}
  BY <1>1, <1>3, StillFound DEF TypeOK
<1>5. CallInv'
  BY <1>1 DEF CallInv, At
<1>6. PromiseInv'
  BY <1>1, TimeAssumption DEF PromiseInv, OnItsWay, At
<1> QED BY <1>2, <1>4, <1>5, <1>6

(* What has time left is not let go of.                                    *)
LEMMA TimerEventIInv == ASSUME IInv, TimerEvent PROVE IInv'
<1> USE DEF IInv
<1>1. /\ controlled' = {r \in controlled : r.until > now}
      /\ UNCHANGED <<cache, now, held, born, thread, cached, promised>>
  BY DEF TimerEvent, history
<1>2. TypeOK'
  BY <1>1 DEF TypeOK
<1>3. NoRevival
  BY <1>1 DEF NoRevival, Alive
<1>4. CachedObjectsAreFound' /\ \A o \in Objects \ born' : cached'[o] = {}
  BY <1>1, <1>3, StillFound DEF TypeOK
<1>5. CallInv'
  BY <1>1 DEF CallInv, At
<1>6. PromiseInv'
  <2>1. ASSUME NEW o \in Objects, now < promised[o], NEW r \in controlled,
               r.object = o, r.until >= promised[o]
        PROVE  r \in controlled'
    <3>1. now \in Nat /\ promised[o] \in Nat /\ r.until \in Nat
      BY DEF TypeOK
    <3> QED BY <1>1, <2>1, <3>1
  <2> QED BY <1>1, <2>1 DEF PromiseInv, OnItsWay, At
<1> QED BY <1>2, <1>4, <1>5, <1>6

-----------------------------------------------------------------------------

(* Every step, of any thread or of Expirator, keeps IInv.                  *)
LEMMA Inductive == IInv /\ [Next]_vars => IInv'
<1> SUFFICES ASSUME IInv, [Next]_vars PROVE IInv'
  OBVIOUS
<1>1. ASSUME NEW t \in Threads, Use(t) PROVE IInv'
  <2>1. ASSUME NEW c \in Caches, NEW k \in Keys, Remove(t, c, k) PROVE IInv'
    BY <2>1, TakeOutIInv DEF Remove
  <2>2. ASSUME NEW c \in Caches, Clear(t, c) PROVE IInv'
    BY <2>2, TakeOutIInv DEF Clear
  <2> QED BY <1>1, <2>1, <2>2, CreateIInv, DropIInv, AddObjectIInv, AddCreatedIInv,
             ValueIInv DEF Use
<1>2. ASSUME NEW t \in Threads, Continue(t) PROVE IInv'
  BY <1>2, AddToExpiratorIInv, LookupIInv, ToStrongRefIInv, CleanIInv DEF Continue
<1>3. CASE UNCHANGED vars
  BY <1>3 DEF vars, clock, history, IInv, TypeOK, CachedObjectsAreFound, CallInv, PromiseInv,
              Alive, At, OnItsWay
<1> QED BY <1>1, <1>2, <1>3, TickIInv, TimerEventIInv DEF Next

(* IInv holds in every state.                                              *)
THEOREM CachesKeepIInv == Spec => []IInv
<1> QED BY InitIInv, Inductive, PTL DEF Spec

(* An object in a cache is found there while it lives, whatever the threads*)
(* look up, clean up, add and take out at the same time.                   *)
THEOREM CachedObjectsStayFound == Spec => []CachedObjectsAreFound
<1>1. IInv => CachedObjectsAreFound
  BY DEF IInv
<1> QED BY <1>1, CachesKeepIInv, PTL

(* The guaranteed time is kept for any MinLifeTime and any Step: the object*)
(* is with the thread that adds it or with Expirator.                      *)
THEOREM GuaranteedTimeIsKept == Spec => []LifeTimeIsGuaranteed
<1>1. IInv => LifeTimeIsGuaranteed
  <2> SUFFICES ASSUME IInv, NEW o \in Objects, now < promised[o] PROVE Alive(o)
    BY DEF LifeTimeIsGuaranteed
  <2>1. CASE \E t \in Threads : OnItsWay(t, o)
    BY <2>1 DEF IInv, CallInv, OnItsWay, Alive
  <2>2. CASE \E r \in controlled : r.object = o
    BY <2>2 DEF Alive
  <2> QED BY <2>1, <2>2 DEF IInv, PromiseInv
<1> QED BY <1>1, CachesKeepIInv, PTL

=============================================================================
