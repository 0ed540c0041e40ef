-------------------------- MODULE ProofCallsProofs --------------------------
(***************************************************************************)
(* For any threads and any number of calls through one invoker: a method   *)
(* runs once, on the thread of its context and for its own call; a         *)
(* blocking call returns after its method did; the calls of one thread to  *)
(* another start in the order they were made; connections end with their   *)
(* calls.                                                                  *)
(***************************************************************************)
EXTENDS ProofCalls, SequenceTheorems, TLAPS

(* What operations on a queue do to its entries.                           *)
Elements(s) == {s[i] : i \in 1 .. Len(s)}

Distinct(s) == \A i, j \in 1 .. Len(s) : s[i] = s[j] => i = j

(* Appending keeps the entries and adds one.                               *)
LEMMA AppendEntries ==
    ASSUME NEW S, NEW s \in Seq(S), NEW e \in S
    PROVE  /\ Append(s, e) \in Seq(S)
           /\ Len(Append(s, e)) = Len(s) + 1
           /\ \A j \in 1 .. Len(s) : Append(s, e)[j] = s[j]
           /\ Append(s, e)[Len(s) + 1] = e
  BY AppendProperties

(* Removing entry i closes the gap it leaves.                              *)
LEMMA RemoveEntries ==
    ASSUME NEW S, NEW s \in Seq(S), NEW i \in 1 .. Len(s)
    PROVE  /\ RemoveAt(s, i) \in Seq(S)
           /\ Len(RemoveAt(s, i)) = Len(s) - 1
           /\ \A j \in 1 .. Len(s) - 1 :
                 RemoveAt(s, i)[j] = IF j < i THEN s[j] ELSE s[j + 1]
<1> DEFINE a == SubSeq(s, 1, i - 1)
           b == SubSeq(s, i + 1, Len(s))
<1>1. Len(s) \in Nat /\ \A j \in 1 .. Len(s) : s[j] \in S
  BY ElementOfSeq, LenProperties
<1>2. /\ a \in Seq(S)
      /\ Len(a) = i - 1
      /\ \A j \in 1 .. i - 1 : a[j] = s[j]
  <2>1. \A j \in 1 .. i - 1 : s[j] \in S
    BY <1>1
  <2>2. /\ a \in Seq(S)
        /\ Len(a) = IF 1 <= i - 1 THEN (i - 1) - 1 + 1 ELSE 0
        /\ \A j \in 1 .. (i - 1) - 1 + 1 : a[j] = s[1 + j - 1]
    BY <1>1, <2>1, SubSeqProperties
  <2> HIDE DEF a
  <2> QED BY <1>1, <2>2
<1>3. /\ b \in Seq(S)
      /\ Len(b) = Len(s) - i
      /\ \A j \in 1 .. Len(s) - i : b[j] = s[i + j]
  <2>1. \A j \in i + 1 .. Len(s) : s[j] \in S
    BY <1>1
  <2>2. i + 1 \in Int /\ Len(s) \in Int
    BY <1>1
  <2>3. /\ b \in Seq(S)
        /\ Len(b) = IF i + 1 <= Len(s) THEN Len(s) - (i + 1) + 1 ELSE 0
        /\ \A j \in 1 .. Len(s) - (i + 1) + 1 : b[j] = s[(i + 1) + j - 1]
    BY <2>1, <2>2, SubSeqProperties
  <2> HIDE DEF b
  <2> QED BY <1>1, <2>3
<1>4. RemoveAt(s, i) = a \o b
  BY DEF RemoveAt
<1> HIDE DEF a, b
<1>5. /\ a \o b \in Seq(S)
      /\ Len(a \o b) = Len(a) + Len(b)
      /\ \A j \in 1 .. Len(a) + Len(b) :
            (a \o b)[j] = IF j <= Len(a) THEN a[j] ELSE b[j - Len(a)]
  BY <1>2, <1>3, ConcatProperties
<1>6. ASSUME NEW j \in 1 .. Len(s) - 1
      PROVE  (a \o b)[j] = IF j < i THEN s[j] ELSE s[j + 1]
  <2>1. (a \o b)[j] = IF j <= i - 1 THEN a[j] ELSE b[j - (i - 1)]
    BY <1>1, <1>2, <1>3, <1>5
  <2>2. CASE j <= i - 1
    BY <1>2, <2>1, <2>2
  <2>3. CASE j > i - 1
    <3>1. b[j - (i - 1)] = s[i + (j - (i - 1))]
      BY <1>1, <1>3, <2>3
    <3>2. i + (j - (i - 1)) = j + 1
      BY <1>1
    <3>3. ~ (j <= i - 1) /\ ~ (j < i)
      BY <1>1, <2>3
    <3>4. (a \o b)[j] = b[j - (i - 1)]
      BY <2>1, <3>3, Zenon
    <3>5. (a \o b)[j] = s[j + 1]
      BY <3>1, <3>2, <3>4
    <3> QED BY <3>3, <3>5
  <2>4. j <= i - 1 \/ j > i - 1
    BY <1>1
  <2> QED BY <2>2, <2>3, <2>4, Zenon
<1> QED BY <1>1, <1>2, <1>3, <1>4, <1>5, <1>6

(* In a queue of different entries, a new one is still different ...       *)
LEMMA AppendElement ==
    ASSUME NEW S, NEW s \in Seq(S), NEW e \in S, Distinct(s), e \notin Elements(s)
    PROVE  /\ Append(s, e) \in Seq(S)
           /\ Distinct(Append(s, e))
           /\ Elements(Append(s, e)) = Elements(s) \cup {e}
<1> DEFINE t == Append(s, e)
<1>1. /\ t \in Seq(S)
      /\ Len(t) = Len(s) + 1
      /\ \A j \in 1 .. Len(s) : t[j] = s[j]
      /\ t[Len(s) + 1] = e
  BY AppendEntries
<1>2. Len(s) \in Nat
  BY LenProperties
<1> HIDE DEF t
<1>3. \A j \in 1 .. Len(t) : j \in 1 .. Len(s) \/ j = Len(s) + 1
  BY <1>1, <1>2
<1>4. \A j \in 1 .. Len(s) : j \in 1 .. Len(t)
  BY <1>1, <1>2
<1>5. Len(s) + 1 \in 1 .. Len(t)
  BY <1>1, <1>2
<1>6. Elements(t) = Elements(s) \cup {e}
  BY <1>1, <1>3, <1>4, <1>5 DEF Elements
<1>7. Distinct(t)
  BY <1>1, <1>3 DEF Distinct, Elements
<1> QED BY <1>1, <1>6, <1>7 DEF t

(* ... and one that is removed is gone.                                    *)
LEMMA RemoveElement ==
    ASSUME NEW S, NEW s \in Seq(S), NEW i \in 1 .. Len(s), Distinct(s)
    PROVE  /\ RemoveAt(s, i) \in Seq(S)
           /\ Distinct(RemoveAt(s, i))
           /\ Elements(RemoveAt(s, i)) = Elements(s) \ {s[i]}
<1> DEFINE t == RemoveAt(s, i)
           old(j) == IF j < i THEN j ELSE j + 1
<1>1. /\ t \in Seq(S)
      /\ Len(t) = Len(s) - 1
      /\ \A j \in 1 .. Len(s) - 1 : t[j] = IF j < i THEN s[j] ELSE s[j + 1]
  BY RemoveEntries
<1>2. Len(s) \in Nat
  BY LenProperties
<1> HIDE DEF t
<1>3. \A j \in 1 .. Len(t) : old(j) \in 1 .. Len(s) /\ old(j) # i /\ t[j] = s[old(j)]
  BY <1>1, <1>2
<1>4. \A j, k \in 1 .. Len(t) : old(j) = old(k) => j = k
  BY <1>1, <1>2
<1>5. \A j \in 1 .. Len(s) : j # i => \E k \in 1 .. Len(t) : j = old(k)
  <2>1. ASSUME NEW j \in 1 .. Len(s), j # i
        PROVE  \E k \in 1 .. Len(t) : j = old(k)
    <3>1. CASE j < i
      <4>1. j \in 1 .. Len(t) /\ j = old(j)
        BY <1>1, <1>2, <3>1
      <4> QED BY <4>1
    <3>2. CASE j > i
      <4>1. j - 1 \in 1 .. Len(t) /\ j = old(j - 1)
        BY <1>1, <1>2, <3>2
      <4> QED BY <4>1
    <3> QED BY <2>1, <3>1, <3>2
  <2> QED BY <2>1
<1> HIDE DEF old
<1>6. Distinct(t)
  BY <1>3, <1>4 DEF Distinct
<1>7. Elements(t) = Elements(s) \ {s[i]}
  <2>1. \A j \in 1 .. Len(t) : t[j] \in Elements(s) \ {s[i]}
    BY <1>3 DEF Distinct, Elements
  <2>2. ASSUME NEW j \in 1 .. Len(s), s[j] # s[i] PROVE s[j] \in Elements(t)
    <3>1. PICK k \in 1 .. Len(t) : j = old(k)
      BY <1>5, <2>2
    <3>2. t[k] = s[j]
      BY <1>3, <3>1
    <3> QED BY <3>2 DEF Elements
  <2> QED BY <2>1, <2>2 DEF Elements
<1> QED BY <1>1, <1>6, <1>7 DEF t

(* The first entry that equals e is the only one.                          *)
LEMMA RemoveFirstElement ==
    ASSUME NEW S, NEW s \in Seq(S), NEW e, Distinct(s)
    PROVE  /\ RemoveFirst(s, e) \in Seq(S)
           /\ Len(RemoveFirst(s, e)) <= Len(s)
           /\ Distinct(RemoveFirst(s, e))
           /\ Elements(RemoveFirst(s, e)) = Elements(s) \ {e}
<1>0. Len(s) \in Nat
  BY LenProperties
<1>1. CASE \E i \in 1 .. Len(s) : s[i] = e
  <2>1. PICK i \in 1 .. Len(s) : s[i] = e
    BY <1>1
  <2>2. {j \in 1 .. Len(s) : s[j] = e} = {i}
    BY <2>1 DEF Distinct
  <2>3. Min({i}) = i
    BY <2>1, <1>0 DEF Min
  <2>4. SelectInSeq(s, LAMBDA v : v = e) = i
    BY <2>2, <2>3 DEF SelectInSeq
  <2>5. RemoveFirst(s, e) = RemoveAt(s, i)
    BY <1>1, <2>4 DEF RemoveFirst
  <2>6. Len(RemoveAt(s, i)) = Len(s) - 1
    BY RemoveEntries
  <2> QED BY <1>0, <2>1, <2>5, <2>6, RemoveElement
<1>2. CASE ~ \E i \in 1 .. Len(s) : s[i] = e
  <2>1. RemoveFirst(s, e) = s
    BY <1>2 DEF RemoveFirst
  <2> QED BY <1>0, <1>2, <2>1 DEF Elements
<1> QED BY <1>1, <1>2

(* The head of a queue is gone from its tail.                              *)
LEMMA TailElement ==
    ASSUME NEW S, NEW s \in Seq(S), s # <<>>, Distinct(s)
    PROVE  /\ Head(s) \in S /\ Head(s) \in Elements(s)
           /\ Tail(s) \in Seq(S)
           /\ Distinct(Tail(s))
           /\ Elements(Tail(s)) = Elements(s) \ {Head(s)}
<1> DEFINE t == Tail(s)
<1>1. /\ Head(s) \in S /\ Head(s) = s[1]
      /\ t \in Seq(S) /\ Len(t) = Len(s) - 1
      /\ \A j \in 1 .. Len(t) : t[j] = s[j + 1]
  BY HeadTailProperties
<1>2. Len(s) \in Nat /\ Len(s) # 0
  BY EmptySeq, LenProperties
<1> HIDE DEF t
<1>3. \A j \in 1 .. Len(t) : j + 1 \in 1 .. Len(s) /\ j + 1 # 1
  BY <1>1, <1>2
<1>4. \A j \in 1 .. Len(s) : j # 1 => j - 1 \in 1 .. Len(t) /\ t[j - 1] = s[j]
  BY <1>1, <1>2
<1>5. 1 \in 1 .. Len(s)
  BY <1>2
<1>6. Distinct(t)
  BY <1>1, <1>3 DEF Distinct
<1>7. Elements(t) = Elements(s) \ {s[1]}
  <2>1. \A j \in 1 .. Len(t) : t[j] \in Elements(s) \ {s[1]}
    BY <1>1, <1>3, <1>5 DEF Distinct, Elements
  <2>2. \A j \in 1 .. Len(s) : s[j] # s[1] => s[j] \in Elements(t)
    BY <1>4 DEF Elements
  <2> QED BY <2>1, <2>2 DEF Elements
<1> QED BY <1>1, <1>5, <1>6, <1>7 DEF t, Elements


-----------------------------------------------------------------------------
(* The inductive invariant.                                                *)

Callers == Threads \cup {NoThread}

FrameType == [at : {"connected", "emit", "blocked", "wait", "run"},
              id : Ids, todo : Seq(Ids), blocks : Callers]

EventType == [conn : Ids, id : Ids, blocks : Callers]

Made == 1 .. lastId

Types ==
    /\ lastId \in 0 .. MaxCalls
    /\ calls \in [Ids -> [kind : {"none"} \cup Kinds, from : Callers, to : Callers]]
    /\ conns \in Seq(Ids)
    /\ inbox \in [Threads -> Seq(EventType)]
    /\ stack \in [Threads -> Seq(FrameType)]
    /\ started \in [Ids -> 0 .. 1]
    /\ done \in [Ids -> BOOLEAN]

(* The event that is to run method i.                                      *)
Own(e, i) == e.conn = i /\ e.id = i

Depth(t) == 1 .. Len(stack[t])
Places(t) == 1 .. Len(inbox[t])

Posted(i) ==
    \/ started[i] = 1
    \/ \E p \in Places(calls[i].to) : Own(inbox[calls[i].to][p], i)

(* The caller has yet to visit its own connection.                         *)
UnsentAt(f) ==
    \/ f.at = "connected"
    \/ f.at \in {"emit", "blocked"} /\ f.id \in Elements(f.todo)

Unsent(i) ==
    LET t == calls[i].from
    IN  stack[t] # <<>> /\ Top(t).id = i /\ UnsentAt(Top(t))

(* A call, from its first connection on: whose it is, where its event is,  *)
(* and that it keeps its connection until it is over.                      *)
CallOK(i) ==
    /\ calls[i].kind \in Kinds
    /\ calls[i].from \in Threads /\ calls[i].to \in Threads
    /\ calls[i].from # calls[i].to

SentInv(i) == Unsent(i) <=> ~ Posted(i)

EndInv(i) ==
    /\ done[i] => started[i] = 1
    /\ ~ done[i] => i \in Elements(conns)
    /\ calls[i].kind = "Queued" => (done[i] => i \notin Elements(conns))
    /\ calls[i].kind # "Queued" /\ ~ Making(i) => done[i] /\ i \notin Elements(conns)

FreshInv == \A i \in Ids : i > lastId => started[i] = 0 /\ ~ done[i]

ConnsInv ==
    /\ Len(conns) <= lastId
    /\ Distinct(conns)
    /\ Elements(conns) \subseteq Made

(* A frame: what it makes or runs is its thread's; only the newest one is  *)
(* anywhere but in an event loop or a method.                              *)
FrameInv(t, k) ==
    LET f == stack[t][k]
    IN  /\ f.id \in Made
        /\ k # Len(stack[t]) => f.at \in {"wait", "run"}
        /\ f.at # "run" => calls[f.id].from = t /\ f.blocks = NoThread
        /\ f.at = "run" => calls[f.id].to = t /\ started[f.id] = 1 /\ ~ done[f.id]
        /\ f.at = "wait" => calls[f.id].kind # "Queued"
        /\ Distinct(f.todo) /\ Elements(f.todo) \subseteq Made

StackInv(t) ==
    /\ \A k \in Depth(t) : FrameInv(t, k)
    /\ \A k, l \in Depth(t) : stack[t][k].id = stack[t][l].id => k = l

(* An event goes to the context of its connection, the one that runs a     *)
(* method once.                                                            *)
InboxInv(t) ==
    /\ \A p \in Places(t) :
          LET e == inbox[t][p]
          IN  /\ e.conn \in Made /\ e.id \in Made
              /\ calls[e.conn].to = t
              /\ e.conn = e.id => started[e.id] = 0
    /\ \A i \in Made, p, q \in Places(t) : Own(inbox[t][p], i) /\ Own(inbox[t][q], i) => p = q

(* Thread t is blocked by at most one event, queued or being handled.      *)
EventBlocks(u, p, t) == inbox[u][p].blocks = t
FrameBlocks(u, k, t) == stack[u][k].blocks = t

BlockInv(t) ==
    /\ \A u \in Threads :
          /\ \A p \in Places(u) : EventBlocks(u, p, t) => At(t, "blocked")
          /\ \A k \in Depth(u) : FrameBlocks(u, k, t) => At(t, "blocked")
    /\ \A u, v \in Threads :
          /\ \A p \in Places(u), q \in Places(v) :
                EventBlocks(u, p, t) /\ EventBlocks(v, q, t) => u = v /\ p = q
          /\ \A k \in Depth(u), l \in Depth(v) :
                FrameBlocks(u, k, t) /\ FrameBlocks(v, l, t) => u = v /\ k = l
          /\ \A p \in Places(u), k \in Depth(v) :
                ~ (EventBlocks(u, p, t) /\ FrameBlocks(v, k, t))

(* Of two calls from one thread to another the earlier one is ahead.       *)
Same(i, j) == calls[i].from = calls[j].from /\ calls[i].to = calls[j].to

OrderInv(i, j) ==
    i < j /\ Same(i, j) =>
        /\ started[j] = 1 => started[i] = 1
        /\ \A q \in Places(calls[j].to) : Own(inbox[calls[j].to][q], j) =>
              \/ started[i] = 1
              \/ \E p \in 1 .. q - 1 : Own(inbox[calls[j].to][p], i)

IInv ==
    /\ Types /\ ConnsInv /\ FreshInv
    /\ \A i \in Made : CallOK(i) /\ SentInv(i) /\ EndInv(i)
    /\ \A t \in Threads : StackInv(t) /\ InboxInv(t) /\ BlockInv(t)
    /\ \A i, j \in Made : OrderInv(i, j)

-----------------------------------------------------------------------------
(* What a step does to the stack of a thread: it changes, leaves or enters *)
(* the newest frame.                                                       *)

Tops(t, g) ==
    /\ stack' \in [Threads -> Seq(FrameType)]
    /\ \A u \in Threads : Len(stack'[u]) = Len(stack[u])
    /\ \A u \in Threads : \A k \in Depth(u) :
          stack'[u][k] = IF u = t /\ k = Len(stack[t]) THEN g ELSE stack[u][k]

Pops(t) ==
    /\ stack' \in [Threads -> Seq(FrameType)]
    /\ \A u \in Threads : Len(stack'[u]) = IF u = t THEN Len(stack[t]) - 1 ELSE Len(stack[u])
    /\ \A u \in Threads : \A k \in Depth(u)' : stack'[u][k] = stack[u][k]

Pushes(t, g) ==
    /\ stack' \in [Threads -> Seq(FrameType)]
    /\ \A u \in Threads : Len(stack'[u]) = IF u = t THEN Len(stack[t]) + 1 ELSE Len(stack[u])
    /\ \A u \in Threads : \A k \in Depth(u) : stack'[u][k] = stack[u][k]
    /\ stack'[t][Len(stack[t]) + 1] = g

LEMMA NewTop ==
    ASSUME NEW S, NEW s \in Seq(S), s # <<>>, NEW g \in S
    PROVE  /\ [s EXCEPT ![Len(s)] = g] \in Seq(S)
           /\ Len([s EXCEPT ![Len(s)] = g]) = Len(s)
           /\ \A k \in 1 .. Len(s) :
                 [s EXCEPT ![Len(s)] = g][k] = IF k = Len(s) THEN g ELSE s[k]
<1>1. Len(s) \in Nat /\ Len(s) # 0
  BY EmptySeq, LenProperties
<1>2. Len(s) \in 1 .. Len(s)
  BY <1>1
<1> QED BY <1>2, ExceptSeq

LEMMA NoTop ==
    ASSUME NEW S, NEW s \in Seq(S), s # <<>>
    PROVE  /\ Front(s) \in Seq(S)
           /\ Len(Front(s)) = Len(s) - 1
           /\ \A k \in 1 .. Len(s) - 1 : Front(s)[k] = s[k]
<1>1. Len(s) \in Nat /\ Len(s) # 0
  BY EmptySeq, LenProperties
<1>2. \A k \in 1 .. Len(s) - 1 : s[k] \in S
  BY <1>1, ElementOfSeq
<1> DEFINE r == SubSeq(s, 1, Len(s) - 1)
<1>3. /\ r \in Seq(S)
      /\ Len(r) = IF 1 <= Len(s) - 1 THEN (Len(s) - 1) - 1 + 1 ELSE 0
      /\ \A k \in 1 .. (Len(s) - 1) - 1 + 1 : r[k] = s[1 + k - 1]
  BY <1>1, <1>2, SubSeqProperties
<1> HIDE DEF r
<1> DEFINE n == Len(s)
<1>4. n \in Nat /\ n # 0 /\ Len(r) = IF 1 <= n - 1 THEN (n - 1) - 1 + 1 ELSE 0
  BY <1>1, <1>3
<1>5. Len(r) = Len(s) - 1
  <2> HIDE DEF n
  <2>1. Len(r) = n - 1
    BY <1>4
  <2> QED BY <2>1 DEF n
<1>6. \A k \in 1 .. Len(s) - 1 : r[k] = s[k]
  BY <1>1, <1>3
<1> QED BY <1>3, <1>5, <1>6 DEF r, Front

(* The newest frame of a thread.                                           *)
LEMMA TopOf ==
    ASSUME Types, NEW t \in Threads
    PROVE  /\ Len(stack[t]) \in Nat
           /\ stack[t] # <<>> <=> Len(stack[t]) # 0
           /\ stack[t] # <<>> => /\ Len(stack[t]) \in Depth(t)
                                 /\ Top(t) = stack[t][Len(stack[t])]
                                 /\ Top(t) \in FrameType
           /\ \A k \in Depth(t) : stack[t][k] \in FrameType
<1>1. stack[t] \in Seq(FrameType)
  BY DEF Types
<1>2. Len(stack[t]) \in Nat /\ (Len(stack[t]) = 0 <=> stack[t] = <<>>)
  BY <1>1, LenProperties, EmptySeq
<1>3. \A k \in Depth(t) : stack[t][k] \in FrameType
  BY <1>1, ElementOfSeq DEF Depth
<1> QED BY <1>2, <1>3 DEF Depth, Top, Last

LEMMA TopsTop ==
    ASSUME Types, NEW t \in Threads, stack[t] # <<>>, NEW g \in FrameType,
           stack' = [stack EXCEPT ![t][Len(stack[t])] = g]
    PROVE  Tops(t, g)
<1> DEFINE new == [stack[t] EXCEPT ![Len(stack[t])] = g]
<1>1. stack[t] \in Seq(FrameType)
  BY DEF Types
<1>2. /\ new \in Seq(FrameType)
      /\ Len(new) = Len(stack[t])
      /\ \A k \in 1 .. Len(stack[t]) : new[k] = IF k = Len(stack[t]) THEN g ELSE stack[t][k]
  BY <1>1, NewTop
<1>3. stack' = [stack EXCEPT ![t] = new]
  OBVIOUS
<1> HIDE DEF new
<1>4. stack'[t] = new /\ \A u \in Threads \ {t} : stack'[u] = stack[u]
  BY <1>3 DEF Types
<1>5. stack' \in [Threads -> Seq(FrameType)]
  BY <1>2, <1>3 DEF Types
<1> QED BY <1>2, <1>4, <1>5 DEF Tops, Depth

LEMMA PopsTop ==
    ASSUME Types, NEW t \in Threads, stack[t] # <<>>, stack' = Pop(stack, t)
    PROVE  Pops(t)
<1>1. /\ Front(stack[t]) \in Seq(FrameType)
      /\ Len(Front(stack[t])) = Len(stack[t]) - 1
      /\ \A k \in 1 .. Len(stack[t]) - 1 : Front(stack[t])[k] = stack[t][k]
  BY NoTop DEF Types
<1>2. stack'[t] = Front(stack[t]) /\ \A u \in Threads \ {t} : stack'[u] = stack[u]
  BY DEF Pop, Types
<1>3. stack' \in [Threads -> Seq(FrameType)]
  BY <1>1 DEF Pop, Types
<1> QED BY <1>1, <1>2, <1>3 DEF Pops, Depth

LEMMA PushesTop ==
    ASSUME Types, NEW t \in Threads, NEW g \in FrameType, stack' = Push(t, g)
    PROVE  Pushes(t, g)
<1>1. /\ Append(stack[t], g) \in Seq(FrameType)
      /\ Len(Append(stack[t], g)) = Len(stack[t]) + 1
      /\ \A k \in 1 .. Len(stack[t]) : Append(stack[t], g)[k] = stack[t][k]
      /\ Append(stack[t], g)[Len(stack[t]) + 1] = g
  BY AppendEntries DEF Types
<1>2. stack'[t] = Append(stack[t], g) /\ \A u \in Threads \ {t} : stack'[u] = stack[u]
  BY DEF Push, Types
<1>3. stack' \in [Threads -> Seq(FrameType)]
  BY <1>1 DEF Push, Types
<1> QED BY <1>1, <1>2, <1>3 DEF Pushes, Depth

-----------------------------------------------------------------------------
(* What such a change keeps.                                               *)

(* A frame is that of a call somebody makes.                               *)
LEMMA MakingFrame ==
    ASSUME Types, NEW i
    PROVE  Making(i) <=> \E t \in Threads : \E k \in 1 .. Len(stack[t]) :
                            stack[t][k].id = i /\ stack[t][k].at # "run"
<1>1. \A t \in Threads : Frames(t) = {stack[t][k] : k \in 1 .. Len(stack[t])}
  BY LenProperties DEF Types, Frames, ToSet
<1> QED BY <1>1 DEF Making

LEMMA MakingFrameNext ==
    ASSUME stack' \in [Threads -> Seq(FrameType)], NEW i
    PROVE  Making(i)' <=> \E t \in Threads : \E k \in 1 .. Len(stack'[t]) :
                             stack'[t][k].id = i /\ stack'[t][k].at # "run"
<1>1. \A t \in Threads : Frames(t)' = {stack'[t][k] : k \in 1 .. Len(stack'[t])}
  BY LenProperties DEF Frames, ToSet
<1> QED BY <1>1 DEF Making

LEMMA TopsStack ==
    ASSUME IInv, NEW t \in Threads, stack[t] # <<>>, NEW g \in FrameType, Tops(t, g),
           UNCHANGED <<lastId, calls, started, done>>,
           g.id = Top(t).id, g.at # "run", Top(t).at # "run", g.blocks = NoThread,
           g.at = "wait" => calls[g.id].kind # "Queued",
           Distinct(g.todo), Elements(g.todo) \subseteq Made
    PROVE  \A u \in Threads : StackInv(u)'
<1>1. \A u \in Threads : \A k \in Depth(u) : FrameInv(u, k)
  BY DEF IInv, StackInv
<1>2. /\ Len(stack[t]) \in Depth(t)
      /\ Top(t) = stack[t][Len(stack[t])]
  BY TopOf DEF IInv
<1>3. g.id \in Made /\ calls[g.id].from = t
  BY <1>1, <1>2 DEF FrameInv
<1>4. ASSUME NEW u \in Threads, NEW k \in Depth(u)
      PROVE  FrameInv(u, k)'
  <2>1. CASE u = t /\ k = Len(stack[t])
    BY <1>3, <2>1 DEF Tops, FrameInv, Made
  <2>2. CASE ~ (u = t /\ k = Len(stack[t]))
    BY <1>1, <2>2 DEF Tops, FrameInv, Made
  <2> QED BY <2>1, <2>2
<1>5. \A u \in Threads : Depth(u)' = Depth(u)
  BY DEF Tops, Depth
<1>6. \A u \in Threads : \A k \in Depth(u) : stack'[u][k].id = stack[u][k].id
  BY <1>2 DEF Tops
<1>7. \A u \in Threads : \A k, l \in Depth(u) : stack[u][k].id = stack[u][l].id => k = l
  BY DEF IInv, StackInv
<1> QED BY <1>4, <1>5, <1>6, <1>7 DEF StackInv

LEMMA PopsStack ==
    ASSUME IInv, NEW t \in Threads, stack[t] # <<>>, Pops(t),
           UNCHANGED <<lastId, calls, started, done>>
    PROVE  \A u \in Threads : StackInv(u)'
<1>1. \A u \in Threads : \A k \in Depth(u) : FrameInv(u, k)
  BY DEF IInv, StackInv
<1>2. \A u \in Threads : Len(stack[u]) \in Nat
  BY TopOf DEF IInv
<1>3. \A u \in Threads : \A k \in Depth(u)' : k \in Depth(u) /\ stack'[u][k] = stack[u][k]
  BY <1>2 DEF Pops, Depth
<1>4. \A u \in Threads : \A k \in Depth(u)' : k # Len(stack'[u]) => k # Len(stack[u])
  BY <1>2 DEF Pops, Depth
<1>5. ASSUME NEW u \in Threads, NEW k \in Depth(u)'
      PROVE  FrameInv(u, k)'
  BY <1>1, <1>3, <1>4 DEF FrameInv, Made
<1>6. \A u \in Threads : \A k, l \in Depth(u) : stack[u][k].id = stack[u][l].id => k = l
  BY DEF IInv, StackInv
<1> QED BY <1>3, <1>5, <1>6 DEF StackInv

(* The new top after a return is in an event loop or a method.             *)
LEMMA PopsSent ==
    ASSUME IInv, NEW t \in Threads, stack[t] # <<>>, Pops(t), ~ UnsentAt(Top(t)),
           calls' = calls, NEW i \in Made
    PROVE  Unsent(i)' <=> Unsent(i)
<1> DEFINE u == calls[i].from
<1>1. u \in Threads
  BY DEF IInv, CallOK
<1>2. u # t => stack'[u] = stack[u]
  <2>1. \A v \in Threads : stack[v] \in Seq(FrameType) /\ stack'[v] \in Seq(FrameType)
    BY DEF IInv, Types, Pops
  <2>2. u # t => Len(stack'[u]) = Len(stack[u]) /\ \A k \in 1 .. Len(stack[u]) : stack'[u][k] = stack[u][k]
    BY <1>1 DEF Pops, Depth
  <2> QED BY <1>1, <2>1, <2>2, SeqEqual
<1>3. CASE u # t
  BY <1>2, <1>3 DEF Unsent, Top
<1>4. CASE u = t
  <2>1. ~ Unsent(i)
    BY <1>4 DEF Unsent
  <2>2. ASSUME stack'[t] # <<>> PROVE ~ UnsentAt(Top(t)')
    <3>1. Len(stack[t]) \in Nat /\ Len(stack'[t]) \in Nat /\ Len(stack'[t]) # 0
      BY <2>2, EmptySeq, LenProperties DEF IInv, Types, Pops
    <3> DEFINE k == Len(stack'[t])
    <3>2. k \in Depth(t) /\ k \in Depth(t)' /\ k # Len(stack[t])
      BY <3>1 DEF Pops, Depth
    <3>3. stack'[t][k] = stack[t][k] /\ stack[t][k].at \in {"wait", "run"}
      BY <3>2 DEF Pops, IInv, StackInv, FrameInv
    <3> QED BY <3>3 DEF Top, Last, UnsentAt
  <2> QED BY <1>4, <2>1, <2>2 DEF Unsent
<1> QED BY <1>3, <1>4

LEMMA TopsSent ==
    ASSUME IInv, NEW t \in Threads, stack[t] # <<>>, NEW g, Tops(t, g), g.id = Top(t).id,
           calls' = calls, NEW i \in Made
    PROVE  Unsent(i)' <=> IF calls[i].from = t THEN i = g.id /\ UnsentAt(g) ELSE Unsent(i)
<1> DEFINE u == calls[i].from
<1>1. u \in Threads
  BY DEF IInv, CallOK
<1>2. u # t => stack'[u] = stack[u]
  <2>1. \A v \in Threads : stack[v] \in Seq(FrameType) /\ stack'[v] \in Seq(FrameType)
    BY DEF IInv, Types, Tops
  <2>2. u # t => Len(stack'[u]) = Len(stack[u]) /\ \A k \in 1 .. Len(stack[u]) : stack'[u][k] = stack[u][k]
    BY <1>1 DEF Tops, Depth
  <2> QED BY <1>1, <2>1, <2>2, SeqEqual
<1>3. CASE u # t
  BY <1>2, <1>3 DEF Unsent, Top
<1>4. CASE u = t
  <2>1. stack'[t] # <<>> /\ Top(t)' = g
    <3>1. Len(stack[t]) \in Depth(t) /\ Len(stack'[t]) = Len(stack[t])
      BY TopOf DEF IInv, Tops
    <3>2. stack'[t][Len(stack[t])] = g
      BY <3>1 DEF Tops
    <3>3. stack'[t] # <<>>
      BY <3>1, EmptySeq, LenProperties DEF Tops, Depth
    <3> QED BY <3>1, <3>2, <3>3 DEF Top, Last
  <2> QED BY <1>4, <2>1 DEF Unsent
<1> QED BY <1>3, <1>4

LEMMA TopsMaking ==
    ASSUME IInv, NEW t \in Threads, stack[t] # <<>>, NEW g, Tops(t, g),
           g.id = Top(t).id, g.at = "run" <=> Top(t).at = "run", NEW i
    PROVE  Making(i) => Making(i)'
<1> SUFFICES ASSUME Making(i) PROVE Making(i)'
  OBVIOUS
<1>0. PICK u \in Threads : \E k \in 1 .. Len(stack[u]) : stack[u][k].id = i /\ stack[u][k].at # "run"
  BY MakingFrame DEF IInv
<1>1. PICK k \in 1 .. Len(stack[u]) : stack[u][k].id = i /\ stack[u][k].at # "run"
  BY <1>0
<1>2. Top(t) = stack[t][Len(stack[t])] /\ k \in 1 .. Len(stack'[u])
  BY TopOf DEF IInv, Tops
<1>3. stack'[u][k].id = i /\ stack'[u][k].at # "run"
  BY <1>1, <1>2 DEF Tops, Depth
<1> QED BY <1>2, <1>3, MakingFrameNext DEF Tops

LEMMA PopsMaking ==
    ASSUME IInv, NEW t \in Threads, stack[t] # <<>>, Pops(t), NEW i, Making(i)
    PROVE  Making(i)' \/ (i = Top(t).id /\ Top(t).at # "run")
<1>0. PICK u \in Threads : \E k \in 1 .. Len(stack[u]) : stack[u][k].id = i /\ stack[u][k].at # "run"
  BY MakingFrame DEF IInv
<1>1. PICK k \in 1 .. Len(stack[u]) : stack[u][k].id = i /\ stack[u][k].at # "run"
  BY <1>0
<1>2. Top(t) = stack[t][Len(stack[t])] /\ Len(stack[u]) \in Nat
  BY TopOf DEF IInv
<1>3. CASE u = t /\ k = Len(stack[t])
  BY <1>1, <1>2, <1>3
<1>4. CASE ~ (u = t /\ k = Len(stack[t]))
  <2>1. k \in 1 .. Len(stack'[u])
    BY <1>2, <1>4 DEF Pops
  <2>2. stack'[u][k] = stack[u][k]
    BY <2>1 DEF Pops, Depth
  <2> QED BY <1>1, <2>1, <2>2, MakingFrameNext DEF Pops
<1> QED BY <1>3, <1>4

LEMMA MadeOnce == ASSUME Types, NEW i \in Made PROVE i \in Ids /\ started[i] \in 0 .. 1
  BY MaxCallsAssumption DEF Types, Made, Ids

(* Another thread that is blocked stays so.                                *)
LEMMA TopsBlocked ==
    ASSUME IInv, NEW t \in Threads, stack[t] # <<>>, NEW g, Tops(t, g),
           NEW x \in Threads, x # t, At(x, "blocked")
    PROVE  At(x, "blocked")'
<1>1. /\ Len(stack[x]) \in Depth(x) /\ Len(stack[x]) # 0 /\ Len(stack'[x]) = Len(stack[x])
      /\ Top(x) = stack[x][Len(stack[x])]
  BY TopOf DEF IInv, At, Tops
<1>2. stack'[x][Len(stack[x])] = stack[x][Len(stack[x])]
  BY <1>1 DEF Tops
<1> QED BY <1>1, <1>2, EmptySeq, LenProperties DEF At, Top, Last, Tops

LEMMA PopsBlocked ==
    ASSUME IInv, NEW t \in Threads, stack[t] # <<>>, Pops(t), Top(t).at # "blocked",
           NEW x \in Threads, At(x, "blocked")
    PROVE  At(x, "blocked")'
<1>1. x # t
  BY DEF At
<1>2. /\ Len(stack[x]) \in Nat /\ Len(stack[x]) # 0 /\ Len(stack'[x]) = Len(stack[x])
      /\ Top(x) = stack[x][Len(stack[x])]
  BY <1>1, TopOf DEF IInv, At, Pops
<1>3. stack'[x][Len(stack[x])] = stack[x][Len(stack[x])]
  BY <1>1, <1>2 DEF Pops, Depth
<1> QED BY <1>2, <1>3, EmptySeq, LenProperties DEF At, Top, Last, Pops

(* No event and no frame comes to block thread x, and if it was blocked it *)
(* still is.                                                               *)
NoNewBlock(x) ==
    /\ \A u \in Threads : \A p \in 1 .. Len(inbox'[u]) :
          inbox'[u][p].blocks = x => p \in Places(u) /\ EventBlocks(u, p, x)
    /\ \A u \in Threads : \A k \in 1 .. Len(stack'[u]) :
          stack'[u][k].blocks = x => k \in Depth(u) /\ FrameBlocks(u, k, x)
    /\ At(x, "blocked") => At(x, "blocked")'

LEMMA NoNewBlocks ==
    ASSUME NEW x \in Threads, BlockInv(x), NoNewBlock(x)
    PROVE  BlockInv(x)'
<1>1. At(x, "blocked") => At(x, "blocked")'
  BY DEF NoNewBlock
<1>2. \A u \in Threads : \A p \in Places(u)' :
         EventBlocks(u, p, x)' => p \in Places(u) /\ EventBlocks(u, p, x)
  BY DEF NoNewBlock, Places, EventBlocks
<1>3. \A u \in Threads : \A k \in Depth(u)' :
         FrameBlocks(u, k, x)' => k \in Depth(u) /\ FrameBlocks(u, k, x)
  BY DEF NoNewBlock, Depth, FrameBlocks
<1> QED BY <1>1, <1>2, <1>3 DEF BlockInv

-----------------------------------------------------------------------------
(* The steps.                                                              *)

(* While no call is made, posted or started, what is about events stays.   *)
EventsStay == UNCHANGED <<lastId, calls, inbox, started>>

LEMMA StayInv ==
    ASSUME IInv, EventsStay
    PROVE  /\ \A i \in Made : CallOK(i)' /\ (Posted(i)' <=> Posted(i))
           /\ \A u \in Threads : InboxInv(u)'
           /\ \A i, j \in Made : OrderInv(i, j)'
<1>1. \A i \in Made : CallOK(i)' /\ (Posted(i)' <=> Posted(i))
  BY DEF EventsStay, IInv, CallOK, Posted, Places, Own
<1>2. \A u \in Threads : InboxInv(u)'
  BY DEF EventsStay, IInv, InboxInv, Places, Own, Made
<1>3. \A i, j \in Made : OrderInv(i, j)'
  BY DEF EventsStay, IInv, OrderInv, Same, Places, Own, Made
<1> QED BY <1>1, <1>2, <1>3

CallsStay == EventsStay /\ done' = done

(* A step of a call that changes its frame and nothing else.               *)
Advances(t, g) ==
    /\ g \in FrameType /\ Tops(t, g)
    /\ g.id = Top(t).id /\ g.blocks = NoThread
    /\ Top(t).at \in {"connected", "emit"} /\ g.at \in {"emit", "wait"}
    /\ UnsentAt(g) <=> UnsentAt(Top(t))
    /\ g.at = "wait" => calls[g.id].kind # "Queued"
    /\ Distinct(g.todo) /\ Elements(g.todo) \subseteq Made

LEMMA AdvanceIInv ==
    ASSUME IInv, NEW t \in Threads, stack[t] # <<>>, NEW g, Advances(t, g),
           CallsStay, conns' = conns
    PROVE  IInv'
<1>1. Types' /\ ConnsInv'
  BY DEF IInv, Types, ConnsInv, Advances, Tops, CallsStay, EventsStay, Made
<1>2. \A u \in Threads : StackInv(u)'
  BY TopsStack DEF Advances, CallsStay, EventsStay
<1>3. Len(stack[t]) \in Depth(t) /\ Top(t) = stack[t][Len(stack[t])]
  BY TopOf DEF IInv
<1>4. Top(t).id \in Made /\ calls[Top(t).id].from = t
  BY <1>3 DEF IInv, StackInv, FrameInv, Advances
<1>5. \A i \in Made : SentInv(i)'
  <2>1. ASSUME NEW i \in Made PROVE Unsent(i)' <=> Unsent(i)
    <3>1. Unsent(i)' <=> IF calls[i].from = t THEN i = g.id /\ UnsentAt(g) ELSE Unsent(i)
      BY TopsSent DEF Advances, CallsStay, EventsStay
    <3> QED BY <1>4, <3>1 DEF Unsent, Advances
  <2> QED BY <2>1, StayInv DEF IInv, SentInv, CallsStay
<1>6. \A i \in Made : EndInv(i)'
  <2>1. \A i : Making(i) => Making(i)'
    BY TopsMaking DEF Advances
  <2> QED BY <2>1 DEF IInv, EndInv, CallsStay, EventsStay
<1>7. \A x \in Threads : BlockInv(x)'
  <2>1. ASSUME NEW x \in Threads, At(x, "blocked") PROVE At(x, "blocked")'
    BY <2>1, TopsBlocked DEF At, Advances
  <2>2. ASSUME NEW u \in Threads, NEW x \in Threads, NEW k \in 1 .. Len(stack'[u]),
               stack'[u][k].blocks = x
        PROVE  k \in Depth(u) /\ FrameBlocks(u, k, x)
    BY <2>2, ThreadsAssumption DEF Advances, Tops, Depth, FrameBlocks
  <2>3. \A x \in Threads : NoNewBlock(x)
    BY <2>1, <2>2 DEF NoNewBlock, CallsStay, EventsStay, Places, EventBlocks
  <2> QED BY <2>3, NoNewBlocks DEF IInv
<1>8. Made' = Made
  BY DEF CallsStay, EventsStay, Made
<1>9. FreshInv'
  BY DEF CallsStay, EventsStay, IInv, FreshInv
<1> QED BY <1>1, <1>2, <1>5, <1>6, <1>7, <1>8, <1>9, StayInv DEF IInv, CallsStay

LEMMA EmitIInv == ASSUME IInv, NEW t \in Threads, Emit(t) PROVE IInv'
<1> DEFINE g == Frame("emit", Top(t).id, conns, NoThread)
<1>1. stack[t] # <<>> /\ Top(t).at = "connected"
  BY DEF Emit, At
<1>2. Len(stack[t]) \in Depth(t) /\ Top(t) = stack[t][Len(stack[t])] /\ Top(t) \in FrameType
  BY <1>1, TopOf DEF IInv
<1>3. Top(t).id \in Made /\ calls[Top(t).id].from = t
  BY <1>1, <1>2 DEF IInv, StackInv, FrameInv
<1>4. g \in FrameType
  BY <1>2 DEF Frame, FrameType, Callers, IInv, Types
<1>5. Tops(t, g)
  <2> HIDE DEF g
  <2>1. stack' = [stack EXCEPT ![t][Len(stack[t])] = g]
    BY DEF Emit, g
  <2> QED BY <1>1, <1>4, <2>1, TopsTop DEF IInv
<1>6. Top(t).id \in Elements(conns)
  <2>1. Unsent(Top(t).id)
    BY <1>1, <1>3 DEF Unsent, UnsentAt
  <2>2. started[Top(t).id] # 1
    BY <1>3, <2>1 DEF IInv, SentInv, Posted
  <2> QED BY <1>3, <2>2 DEF IInv, EndInv
<1>7. Advances(t, g)
  <2>1. UnsentAt(g) /\ UnsentAt(Top(t))
    BY <1>1, <1>6 DEF UnsentAt, Frame
  <2> QED BY <1>1, <1>4, <1>5, <2>1 DEF Advances, Frame, IInv, ConnsInv
<1>8. CallsStay /\ conns' = conns
  BY DEF Emit, CallsStay, EventsStay
<1> HIDE DEF g
<1> QED BY <1>1, <1>7, <1>8, AdvanceIInv

LEMMA EmittedWaitIInv ==
    ASSUME IInv, NEW t \in Threads, Emitted(t), calls[Top(t).id].kind # "Queued"
    PROVE  IInv'
<1> DEFINE g == [Top(t) EXCEPT !.at = "wait"]
<1>1. stack[t] # <<>> /\ Top(t).at = "emit" /\ Top(t).todo = <<>>
  BY DEF Emitted, At
<1>2. Len(stack[t]) \in Depth(t) /\ Top(t) = stack[t][Len(stack[t])] /\ Top(t) \in FrameType
  BY <1>1, TopOf DEF IInv
<1>3. FrameInv(t, Len(stack[t]))
  BY <1>2 DEF IInv, StackInv
<1>4. g \in FrameType /\ g.at = "wait" /\ g.id = Top(t).id /\ g.todo = Top(t).todo /\ g.blocks = NoThread
  BY <1>1, <1>2, <1>3 DEF FrameType, FrameInv
<1>5. Tops(t, g)
  <2>1. stack' = [stack EXCEPT ![t][Len(stack[t])] = g]
    BY <1>2 DEF Emitted, Goto
  <2> HIDE DEF g
  <2> QED BY <1>1, <1>4, <2>1, TopsTop DEF IInv
<1>6. Elements(Top(t).todo) = {}
  BY <1>1 DEF Elements
<1> HIDE DEF g
<1>7. Advances(t, g)
  <2>1. ~ UnsentAt(g) /\ ~ UnsentAt(Top(t))
    BY <1>1, <1>4, <1>6 DEF UnsentAt
  <2> QED BY <1>1, <1>2, <1>3, <1>4, <1>5, <2>1 DEF Advances, FrameInv
<1>8. CallsStay /\ conns' = conns
  BY DEF Emitted, CallsStay, EventsStay
<1> QED BY <1>1, <1>7, <1>8, AdvanceIInv

(* A step of a call that returns: one that waits has been carried out and  *)
(* disconnects.                                                            *)
Leaves(t) ==
    /\ Pops(t) /\ Top(t).at \in {"emit", "wait"} /\ ~ UnsentAt(Top(t))
    /\ conns' \in Seq(Ids) /\ Len(conns') <= Len(conns) /\ Distinct(conns')
    /\ \/ /\ calls[Top(t).id].kind = "Queued"
          /\ Elements(conns') = Elements(conns)
       \/ /\ calls[Top(t).id].kind # "Queued" /\ done[Top(t).id]
          /\ Elements(conns') = Elements(conns) \ {Top(t).id}

LEMMA LeaveIInv ==
    ASSUME IInv, NEW t \in Threads, stack[t] # <<>>, Leaves(t), CallsStay
    PROVE  IInv'
<1>1. Types' /\ ConnsInv'
  <2>1. Len(conns) \in Nat /\ Len(conns') \in Nat
    BY LenProperties DEF IInv, Types, Leaves
  <2> QED BY <2>1 DEF IInv, Types, ConnsInv, Leaves, Pops, CallsStay, EventsStay, Made
<1>2. \A u \in Threads : StackInv(u)'
  BY PopsStack DEF Leaves, CallsStay, EventsStay
<1>3. Len(stack[t]) \in Depth(t) /\ Top(t) = stack[t][Len(stack[t])]
  BY TopOf DEF IInv
<1>4. Top(t).id \in Made
  BY <1>3 DEF IInv, StackInv, FrameInv
<1>5. \A i \in Made : SentInv(i)'
  <2>1. ASSUME NEW i \in Made PROVE Unsent(i)' <=> Unsent(i)
    BY PopsSent DEF Leaves, CallsStay, EventsStay
  <2> QED BY <2>1, StayInv DEF IInv, SentInv, CallsStay
<1>6. \A i \in Made : EndInv(i)'
  <2>1. ASSUME NEW i \in Made, i # Top(t).id PROVE Making(i) => Making(i)'
    BY <2>1, PopsMaking DEF Leaves
  <2>2. ASSUME NEW i \in Made, i # Top(t).id PROVE EndInv(i)'
    <3>1. i \in Elements(conns') <=> i \in Elements(conns)
      BY <2>2 DEF Leaves
    <3> QED BY <2>1, <2>2, <3>1 DEF IInv, EndInv, CallsStay, EventsStay
  <2>3. ASSUME NEW i \in Made, i = Top(t).id PROVE EndInv(i)'
    BY <2>3 DEF IInv, EndInv, Leaves, CallsStay, EventsStay
  <2> QED BY <2>2, <2>3
<1>7. \A x \in Threads : BlockInv(x)'
  <2>1. \A x \in Threads : At(x, "blocked") => At(x, "blocked")'
    BY PopsBlocked DEF Leaves
  <2>2. ASSUME NEW u \in Threads, NEW x \in Threads, NEW k \in 1 .. Len(stack'[u]),
               stack'[u][k].blocks = x
        PROVE  k \in Depth(u) /\ FrameBlocks(u, k, x)
    <3>1. Len(stack[u]) \in Nat
      BY TopOf DEF IInv
    <3> QED BY <2>2, <3>1 DEF Leaves, Pops, Depth, FrameBlocks
  <2>3. \A x \in Threads : NoNewBlock(x)
    BY <2>1, <2>2 DEF NoNewBlock, CallsStay, EventsStay, Places, EventBlocks
  <2> QED BY <2>3, NoNewBlocks DEF IInv
<1>8. Made' = Made
  BY DEF CallsStay, EventsStay, Made
<1>9. FreshInv'
  BY DEF CallsStay, EventsStay, IInv, FreshInv
<1> QED BY <1>1, <1>2, <1>5, <1>6, <1>7, <1>8, <1>9, StayInv DEF IInv, CallsStay

LEMMA EmittedReturnsIInv ==
    ASSUME IInv, NEW t \in Threads, Emitted(t), calls[Top(t).id].kind = "Queued"
    PROVE  IInv'
<1>1. stack[t] # <<>> /\ Top(t).at = "emit" /\ Top(t).todo = <<>> /\ stack' = Pop(stack, t)
  BY DEF Emitted, At
<1>2. Pops(t)
  BY <1>1, PopsTop DEF IInv
<1>3. ~ UnsentAt(Top(t))
  BY <1>1 DEF UnsentAt, Elements
<1>4. conns' = conns /\ CallsStay
  BY DEF Emitted, CallsStay, EventsStay
<1>5. conns \in Seq(Ids) /\ Distinct(conns) /\ Len(conns) <= Len(conns)
  BY LenProperties DEF IInv, Types, ConnsInv
<1>6. Leaves(t)
  BY <1>1, <1>2, <1>3, <1>4, <1>5 DEF Leaves
<1> QED BY <1>1, <1>4, <1>6, LeaveIInv

LEMMA ReturnIInv == ASSUME IInv, NEW t \in Threads, Return(t) PROVE IInv'
<1>1. stack[t] # <<>> /\ Top(t).at = "wait" /\ done[Top(t).id] /\ stack' = Pop(stack, t)
  BY DEF Return, At
<1>2. Pops(t)
  BY <1>1, PopsTop DEF IInv
<1>3. ~ UnsentAt(Top(t))
  BY <1>1 DEF UnsentAt
<1>4. conns' = RemoveFirst(conns, Top(t).id) /\ CallsStay
  BY DEF Return, CallsStay, EventsStay
<1>5. conns \in Seq(Ids) /\ Distinct(conns)
  BY DEF IInv, Types, ConnsInv
<1>6. calls[Top(t).id].kind # "Queued"
  <2>1. Len(stack[t]) \in Depth(t) /\ Top(t) = stack[t][Len(stack[t])]
    BY <1>1, TopOf DEF IInv
  <2> QED BY <1>1, <2>1 DEF IInv, StackInv, FrameInv
<1>7. /\ conns' \in Seq(Ids) /\ Len(conns') <= Len(conns) /\ Distinct(conns')
      /\ Elements(conns') = Elements(conns) \ {Top(t).id}
  BY <1>4, <1>5, RemoveFirstElement
<1>8. Leaves(t)
  BY <1>1, <1>2, <1>3, <1>6, <1>7 DEF Leaves
<1> QED BY <1>1, <1>4, <1>8, LeaveIInv

LEMMA ConnectionSet == conns \in Seq(Ids) => ToSet(conns) = Elements(conns)
  BY LenProperties DEF ToSet, Elements

(* The visit of a connection that is gone: not the caller's own, if that   *)
(* is still to be visited.                                                 *)
LEMMA VisitGoneIInv ==
    ASSUME IInv, NEW t \in Threads, Visit(t), Head(Top(t).todo) \notin ToSet(conns)
    PROVE  IInv'
<1> DEFINE f == Top(t)
           g == [f EXCEPT !.todo = Tail(@)]
<1>1. stack[t] # <<>> /\ f.at = "emit" /\ f.todo # <<>>
  BY DEF Visit, At
<1>2. Len(stack[t]) \in Depth(t) /\ f = stack[t][Len(stack[t])] /\ f \in FrameType
  BY <1>1, TopOf DEF IInv
<1>3. FrameInv(t, Len(stack[t]))
  BY <1>2 DEF IInv, StackInv
<1>4. /\ Tail(f.todo) \in Seq(Ids) /\ Distinct(Tail(f.todo))
      /\ Elements(Tail(f.todo)) = Elements(f.todo) \ {Head(f.todo)}
  BY <1>1, <1>2, <1>3, TailElement DEF FrameType, FrameInv
<1>5. /\ g \in FrameType /\ g.at = "emit" /\ g.id = f.id /\ g.blocks = NoThread
      /\ g.todo = Tail(f.todo)
  BY <1>1, <1>2, <1>3, <1>4 DEF FrameType, FrameInv
<1>6. stack' = [stack EXCEPT ![t][Len(stack[t])] = g] /\ CallsStay /\ conns' = conns
  BY DEF Visit, CallsStay, EventsStay
<1>7. f.id \in Elements(f.todo) => f.id # Head(f.todo)
  <2> SUFFICES ASSUME f.id \in Elements(f.todo) PROVE f.id \in ToSet(conns)
    OBVIOUS
  <2>1. f.id \in Made /\ calls[f.id].from = t
    BY <1>1, <1>2, <1>3 DEF FrameInv
  <2>2. Unsent(f.id)
    BY <1>1, <2>1 DEF Unsent, UnsentAt
  <2>3. started[f.id] # 1
    BY <2>1, <2>2 DEF IInv, SentInv, Posted
  <2> QED BY <2>1, <2>3, ConnectionSet DEF IInv, EndInv, Types
<1> HIDE DEF g
<1>8. Tops(t, g)
  BY <1>1, <1>5, <1>6, TopsTop DEF IInv
<1>9. UnsentAt(g) <=> UnsentAt(f)
  BY <1>1, <1>4, <1>5, <1>7 DEF UnsentAt
<1>10. Advances(t, g)
  BY <1>1, <1>3, <1>2, <1>4, <1>5, <1>8, <1>9 DEF Advances, FrameInv
<1> QED BY <1>1, <1>6, <1>10, AdvanceIInv

(* What a step does to the events of the threads.                          *)
Posts(u, e) ==
    /\ inbox' \in [Threads -> Seq(EventType)]
    /\ \A v \in Threads : Len(inbox'[v]) = IF v = u THEN Len(inbox[u]) + 1 ELSE Len(inbox[v])
    /\ \A v \in Threads : \A p \in Places(v) : inbox'[v][p] = inbox[v][p]
    /\ inbox'[u][Len(inbox[u]) + 1] = e

Takes(u) ==
    /\ inbox' \in [Threads -> Seq(EventType)]
    /\ \A v \in Threads : Len(inbox'[v]) = IF v = u THEN Len(inbox[u]) - 1 ELSE Len(inbox[v])
    /\ \A v \in Threads \ {u} : inbox'[v] = inbox[v]
    /\ \A p \in Places(u)' : inbox'[u][p] = inbox[u][p + 1]

LEMMA PostsEvent ==
    ASSUME Types, NEW u \in Threads, NEW e \in EventType,
           inbox' = [inbox EXCEPT ![u] = Append(@, e)]
    PROVE  Posts(u, e)
<1>1. /\ Append(inbox[u], e) \in Seq(EventType)
      /\ Len(Append(inbox[u], e)) = Len(inbox[u]) + 1
      /\ \A p \in 1 .. Len(inbox[u]) : Append(inbox[u], e)[p] = inbox[u][p]
      /\ Append(inbox[u], e)[Len(inbox[u]) + 1] = e
  BY AppendEntries DEF Types
<1>2. inbox'[u] = Append(inbox[u], e) /\ \A v \in Threads \ {u} : inbox'[v] = inbox[v]
  BY DEF Types
<1>3. inbox' \in [Threads -> Seq(EventType)]
  BY <1>1 DEF Types
<1> QED BY <1>1, <1>2, <1>3 DEF Posts, Places

(* Where the events are after that.                                        *)
LEMMA PostsPlaces ==
    ASSUME Types, NEW u \in Threads, NEW e, Posts(u, e)
    PROVE  /\ Len(inbox[u]) \in Nat
           /\ \A v \in Threads : \A p \in 1 .. Len(inbox'[v]) :
                 \/ p \in Places(v) /\ inbox'[v][p] = inbox[v][p]
                 \/ v = u /\ p = Len(inbox[u]) + 1 /\ inbox'[v][p] = e
           /\ \A v \in Threads : \A p \in Places(v) :
                 p \in 1 .. Len(inbox'[v]) /\ inbox'[v][p] = inbox[v][p]
           /\ Len(inbox[u]) + 1 \in 1 .. Len(inbox'[u])
           /\ inbox'[u][Len(inbox[u]) + 1] = e
<1>1. \A v \in Threads : Len(inbox[v]) \in Nat
  BY LenProperties DEF Types
<1>2. ASSUME NEW v \in Threads, v # u
      PROVE  \A p \in 1 .. Len(inbox'[v]) : p \in Places(v) /\ inbox'[v][p] = inbox[v][p]
  BY <1>2 DEF Posts, Places
<1>3. ASSUME NEW p \in 1 .. Len(inbox'[u]), p # Len(inbox[u]) + 1
      PROVE  p \in Places(u) /\ inbox'[u][p] = inbox[u][p]
  <2>1. Len(inbox'[u]) = Len(inbox[u]) + 1
    BY DEF Posts
  <2>2. p \in Places(u)
    BY <1>1, <1>3, <2>1 DEF Places
  <2> QED BY <2>2 DEF Posts
<1>4. ASSUME NEW v \in Threads, NEW p \in Places(v)
      PROVE  p \in 1 .. Len(inbox'[v]) /\ inbox'[v][p] = inbox[v][p]
  <2>1. Len(inbox'[v]) = Len(inbox[v]) \/ Len(inbox'[v]) = Len(inbox[v]) + 1
    BY DEF Posts
  <2>2. p \in 1 .. Len(inbox'[v])
    BY <1>1, <2>1 DEF Places
  <2> QED BY <2>2 DEF Posts
<1>5. Len(inbox[u]) + 1 \in 1 .. Len(inbox'[u]) /\ inbox'[u][Len(inbox[u]) + 1] = e
  BY <1>1 DEF Posts
<1> QED BY <1>1, <1>2, <1>3, <1>4, <1>5 DEF Posts

LEMMA TakesEvent ==
    ASSUME Types, NEW u \in Threads, inbox[u] # <<>>, inbox' = [inbox EXCEPT ![u] = Tail(@)]
    PROVE  /\ Takes(u)
           /\ 1 \in Places(u) /\ Head(inbox[u]) = inbox[u][1] /\ Head(inbox[u]) \in EventType
<1>1. /\ Head(inbox[u]) \in EventType /\ Head(inbox[u]) = inbox[u][1]
      /\ Tail(inbox[u]) \in Seq(EventType)
      /\ Len(Tail(inbox[u])) = Len(inbox[u]) - 1
      /\ \A p \in 1 .. Len(Tail(inbox[u])) : Tail(inbox[u])[p] = inbox[u][p + 1]
  BY HeadTailProperties DEF Types
<1>2. inbox'[u] = Tail(inbox[u]) /\ \A v \in Threads \ {u} : inbox'[v] = inbox[v]
  BY DEF Types
<1>3. inbox' \in [Threads -> Seq(EventType)]
  BY <1>1 DEF Types
<1>4. 1 \in Places(u)
  BY EmptySeq, LenProperties DEF Types, Places
<1> QED BY <1>1, <1>2, <1>3, <1>4 DEF Takes, Places

(* The emission of call i reaches the connection of call c, and blocks the *)
(* emitter if that is one that blocks.                                     *)
Reaches(t, c, i, b, g) ==
    /\ c \in Made /\ i \in Made /\ b \in Callers /\ g \in FrameType
    /\ Top(t).at = "emit" /\ Top(t).id = i /\ c \in Elements(Top(t).todo)
    /\ Posts(calls[c].to, [conn |-> c, id |-> i, blocks |-> b]) /\ Tops(t, g)
    /\ g.id = i /\ g.blocks = NoThread
    /\ Distinct(g.todo) /\ Elements(g.todo) = Elements(Top(t).todo) \ {c}
    /\ (b = NoThread /\ g.at = "emit") \/ (b = t /\ g.at = "blocked")
    /\ UNCHANGED <<lastId, calls, conns, started, done>>

LEMMA ReachCalls ==
    ASSUME IInv, NEW t \in Threads, stack[t] # <<>>, NEW c, NEW i, NEW b, NEW g,
           Reaches(t, c, i, b, g)
    PROVE  /\ calls[i].from = t
           /\ \A j \in Made : calls[j].from = t /\ j # i => Posted(j)
           /\ c = i => ~ Posted(i)
           /\ \A u \in Threads : StackInv(u)'
           /\ \A j \in Made : Unsent(j)' <=> Unsent(j) /\ ~ (j = i /\ c = i)
           /\ \A j : Making(j) => Making(j)'
<1>1. Len(stack[t]) \in Depth(t) /\ Top(t) = stack[t][Len(stack[t])] /\ Top(t) \in FrameType
  BY TopOf DEF IInv
<1>2. FrameInv(t, Len(stack[t]))
  BY <1>1 DEF IInv, StackInv
<1>3. calls[i].from = t /\ Elements(Top(t).todo) \subseteq Made
  BY <1>1, <1>2 DEF Reaches, FrameInv
<1>4. \A j \in Made : calls[j].from = t /\ j # i => Posted(j)
  BY DEF IInv, SentInv, Unsent, Reaches
<1>5. c = i => ~ Posted(i)
  BY <1>3 DEF IInv, SentInv, Unsent, UnsentAt, Reaches
<1>6. \A u \in Threads : StackInv(u)'
  BY <1>3, TopsStack DEF Reaches
<1>7. ASSUME NEW j \in Made PROVE Unsent(j)' <=> Unsent(j) /\ ~ (j = i /\ c = i)
  <2>1. Unsent(j)' <=> IF calls[j].from = t THEN j = g.id /\ UnsentAt(g) ELSE Unsent(j)
    BY TopsSent DEF Reaches
  <2>2. UnsentAt(g) <=> i \in Elements(Top(t).todo) /\ c # i
    BY DEF UnsentAt, Reaches
  <2>3. UnsentAt(Top(t)) <=> i \in Elements(Top(t).todo)
    BY DEF UnsentAt, Reaches
  <2>4. CASE calls[j].from # t
    BY <1>3, <2>1, <2>4
  <2>5. CASE calls[j].from = t
    <3>1. Unsent(j) <=> j = i /\ UnsentAt(Top(t))
      BY <2>5 DEF Unsent, Reaches
    <3> QED BY <2>1, <2>2, <2>3, <2>5, <3>1 DEF Reaches
  <2> QED BY <2>4, <2>5
<1>8. \A j : Making(j) => Making(j)'
  BY TopsMaking DEF Reaches
<1> QED BY <1>3, <1>4, <1>5, <1>6, <1>7, <1>8

LEMMA ReachEvents ==
    ASSUME IInv, NEW t \in Threads, stack[t] # <<>>, NEW c, NEW i, NEW b, NEW g,
           Reaches(t, c, i, b, g)
    PROVE  /\ \A u \in Threads : InboxInv(u)'
           /\ \A j \in Made : Posted(j)' <=> Posted(j) \/ (j = i /\ c = i)
           /\ \A j, k \in Made : OrderInv(j, k)'
<1> DEFINE u == calls[c].to
           n == Len(inbox[u]) + 1
           e == [conn |-> c, id |-> i, blocks |-> b]
<1>1. u \in Threads /\ Len(inbox[u]) \in Nat /\ \A v \in Threads : Len(inbox[v]) \in Nat
  BY LenProperties DEF IInv, Types, CallOK, Reaches
<1>2. /\ \A v \in Threads : \A p \in 1 .. Len(inbox'[v]) :
            \/ p \in Places(v) /\ inbox'[v][p] = inbox[v][p]
            \/ v = u /\ p = n /\ inbox'[v][p] = e
      /\ \A v \in Threads : \A p \in Places(v) : p \in 1 .. Len(inbox'[v]) /\ inbox'[v][p] = inbox[v][p]
      /\ n \in 1 .. Len(inbox'[u]) /\ inbox'[u][n] = e
      /\ \A p \in Places(u) : p \in 1 .. n - 1
  <2>1. Posts(u, e)
    BY DEF Reaches
  <2>2. \A p \in Places(u) : p \in 1 .. n - 1
    BY <1>1 DEF Places
  <2> HIDE DEF e
  <2> QED BY <1>1, <2>1, <2>2, PostsPlaces DEF IInv
<1>3. c \in Made /\ i \in Made /\ Made' = Made /\ calls' = calls /\ started' = started
  BY DEF Reaches, Made
<1>4. /\ calls[i].from = t /\ (c = i => ~ Posted(i))
      /\ \A j \in Made : calls[j].from = t /\ j # i => Posted(j)
  BY ReachCalls
<1> HIDE DEF n, e
<1>5. \A j : Own(e, j) <=> j = c /\ j = i
  BY DEF Own, e
<1>6. ASSUME NEW v \in Threads PROVE InboxInv(v)'
  <2>1. InboxInv(v)
    BY DEF IInv
  <2>2. ASSUME NEW p \in 1 .. Len(inbox'[v])
        PROVE  LET d == inbox'[v][p]
               IN  /\ d.conn \in Made /\ d.id \in Made /\ calls[d.conn].to = v
                   /\ d.conn = d.id => started[d.id] = 0
    <3>1. CASE p \in Places(v) /\ inbox'[v][p] = inbox[v][p]
      BY <2>1, <3>1 DEF InboxInv
    <3>2. CASE v = u /\ inbox'[v][p] = e
      <4>1. c = i => started[i] # 1 /\ started[i] \in 0 .. 1
        BY <1>3, <1>4, MadeOnce DEF Posted, IInv
      <4>2. c = i => started[i] = 0
        BY <4>1
      <4> QED BY <1>3, <3>2, <4>2 DEF e
    <3> QED BY <1>2, <3>1, <3>2
  <2>3. ASSUME NEW j \in Made, NEW p \in 1 .. Len(inbox'[v]), NEW q \in 1 .. Len(inbox'[v]),
               Own(inbox'[v][p], j), Own(inbox'[v][q], j)
        PROVE  p = q
    <3>1. CASE v = u /\ j = c /\ j = i
      <4>1. \A r \in Places(v) : ~ Own(inbox[v][r], j)
        BY <1>4, <3>1 DEF Posted
      <4> QED BY <1>2, <2>3, <4>1
    <3>2. CASE ~ (v = u /\ j = c /\ j = i)
      <4>1. p \in Places(v) /\ q \in Places(v) /\ Own(inbox[v][p], j) /\ Own(inbox[v][q], j)
        BY <1>2, <1>5, <2>3, <3>2
      <4> QED BY <2>1, <4>1 DEF InboxInv
    <3> QED BY <3>1, <3>2
  <2> QED BY <1>3, <2>2, <2>3 DEF InboxInv, Places, Own
<1>7. ASSUME NEW j \in Made PROVE Posted(j)' <=> Posted(j) \/ (j = i /\ c = i)
  <2>1. calls[j].to \in Threads
    BY DEF IInv, CallOK
  <2> QED BY <1>2, <1>3, <1>5, <2>1 DEF Posted, Places
<1>8. ASSUME NEW j \in Made, NEW k \in Made PROVE OrderInv(j, k)'
  <2> SUFFICES ASSUME j < k, Same(j, k),
                      NEW q \in 1 .. Len(inbox'[calls[k].to]), Own(inbox'[calls[k].to][q], k)
               PROVE  started[j] = 1 \/ \E p \in 1 .. q - 1 : Own(inbox'[calls[k].to][p], j)
    <3>1. OrderInv(j, k)
      BY DEF IInv
    <3> QED BY <1>3, <3>1 DEF OrderInv, Same, Places, Own
  <2> DEFINE v == calls[k].to
  <2>1. v \in Threads /\ calls[j].to = v
    BY DEF IInv, CallOK, Same
  <2>2. CASE q \in Places(v) /\ inbox'[v][q] = inbox[v][q]
    <3>1. started[j] = 1 \/ \E p \in 1 .. q - 1 : Own(inbox[v][p], j)
      BY <2>2 DEF IInv, OrderInv
    <3>2. \A p \in 1 .. q - 1 : p \in Places(v)
      BY <1>1, <2>1, <2>2 DEF Places
    <3> QED BY <1>2, <2>1, <3>1, <3>2
  <2>3. CASE v = u /\ q = n /\ inbox'[v][q] = e
    <3>1. k = i /\ k = c
      BY <1>5, <2>3
    <3>2. Posted(j)
      BY <1>4, <3>1 DEF Same, Made
    <3> QED BY <1>2, <2>1, <2>3, <3>2 DEF Posted
  <2> QED BY <1>2, <2>1, <2>2, <2>3
<1> QED BY <1>3, <1>6, <1>7, <1>8

LEMMA ReachBlocks ==
    ASSUME IInv, NEW t \in Threads, stack[t] # <<>>, NEW c, NEW i, NEW b, NEW g,
           Reaches(t, c, i, b, g), NEW x \in Threads
    PROVE  BlockInv(x)'
<1> DEFINE u == calls[c].to
           n == Len(inbox[u]) + 1
<1>1. u \in Threads /\ \A v \in Threads : Len(inbox[v]) \in Nat
  BY LenProperties DEF IInv, Types, CallOK, Reaches
<1>2. \A v \in Threads : \A p \in 1 .. Len(inbox'[v]) :
         \/ p \in Places(v) /\ inbox'[v][p] = inbox[v][p]
         \/ v = u /\ p = n /\ inbox'[v][p].blocks = b
  <2> DEFINE e == [conn |-> c, id |-> i, blocks |-> b]
  <2>1. e.blocks = b /\ Posts(u, e)
    BY DEF Reaches
  <2> HIDE DEF e
  <2>2. \A v \in Threads : \A p \in 1 .. Len(inbox'[v]) :
           \/ p \in Places(v) /\ inbox'[v][p] = inbox[v][p]
           \/ v = u /\ p = n /\ inbox'[v][p] = e
    <3> HIDE DEF u
    <3> QED BY <1>1, <2>1, PostsPlaces DEF IInv
  <2> QED BY <2>1, <2>2
<1>3. \A v \in Threads : \A k \in 1 .. Len(stack'[v]) :
         stack'[v][k].blocks = x => k \in Depth(v) /\ FrameBlocks(v, k, x)
  BY ThreadsAssumption DEF Reaches, Tops, Depth, FrameBlocks
<1>4. ~ At(t, "blocked") /\ (b = NoThread \/ b = t)
  BY DEF At, Reaches
<1>5. CASE b # x
  <2>1. At(x, "blocked") => At(x, "blocked")'
    BY <1>4, TopsBlocked DEF Reaches
  <2>2. NoNewBlock(x)
    BY <1>2, <1>3, <1>5, <2>1 DEF NoNewBlock, EventBlocks
  <2> QED BY <2>2, NoNewBlocks DEF IInv
<1>6. CASE b = x
  <2>1. x = t /\ g.at = "blocked"
    BY <1>4, <1>6, ThreadsAssumption DEF Reaches
  <2>2. At(t, "blocked")'
    <3>1. Len(stack[t]) \in Depth(t) /\ Len(stack'[t]) = Len(stack[t]) /\ Len(stack[t]) # 0
      BY TopOf DEF IInv, Reaches, Tops
    <3>2. stack'[t][Len(stack[t])] = g
      BY <3>1 DEF Reaches, Tops
    <3> QED BY <2>1, <3>1, <3>2, EmptySeq, LenProperties DEF At, Top, Last, Reaches, Tops
  <2>3. \A v \in Threads : \A p \in Places(v) : ~ EventBlocks(v, p, t)
    BY <1>4 DEF IInv, BlockInv
  <2>4. \A v \in Threads : \A k \in 1 .. Len(stack'[v]) : stack'[v][k].blocks # t
    BY <1>3, <1>4, <2>1 DEF IInv, BlockInv
  <2>5. \A v \in Threads : \A p \in 1 .. Len(inbox'[v]) :
           inbox'[v][p].blocks = t => v = u /\ p = n
    BY <1>2, <2>3 DEF EventBlocks
  <2> HIDE DEF n, u
  <2> QED BY <2>1, <2>2, <2>4, <2>5 DEF BlockInv, Places, Depth, EventBlocks, FrameBlocks
<1> QED BY <1>5, <1>6

LEMMA ReachIInv ==
    ASSUME IInv, NEW t \in Threads, stack[t] # <<>>, NEW c, NEW i, NEW b, NEW g,
           Reaches(t, c, i, b, g)
    PROVE  IInv'
<1>1. Types'
  BY DEF IInv, Types, Reaches, Tops, Posts
<1>2. ConnsInv' /\ FreshInv' /\ Made' = Made
  BY DEF IInv, ConnsInv, FreshInv, Reaches, Made
<1>3. \A j \in Made : CallOK(j)' /\ EndInv(j)'
  <2>1. \A j : Making(j) => Making(j)'
    BY ReachCalls
  <2> QED BY <2>1 DEF IInv, CallOK, EndInv, Reaches
<1>4. \A j \in Made : SentInv(j)'
  <2>1. \A j \in Made : Unsent(j)' <=> Unsent(j) /\ ~ (j = i /\ c = i)
    BY ReachCalls
  <2>2. \A j \in Made : Posted(j)' <=> Posted(j) \/ (j = i /\ c = i)
    BY ReachEvents
  <2> QED BY <2>1, <2>2 DEF IInv, SentInv
<1>5. \A u \in Threads : StackInv(u)'
  BY ReachCalls
<1>6. \A u \in Threads : InboxInv(u)'
  BY ReachEvents
<1>7. \A j, k \in Made : OrderInv(j, k)'
  BY ReachEvents
<1>8. \A x \in Threads : BlockInv(x)'
  BY ReachBlocks
<1> QED BY <1>1, <1>2, <1>3, <1>4, <1>5, <1>6, <1>7, <1>8 DEF IInv

LEMMA VisitIInv == ASSUME IInv, NEW t \in Threads, Visit(t) PROVE IInv'
<1> DEFINE f == Top(t)
           c == Head(f.todo)
           waits == calls[c].kind = "BlockEvents"
           rest == [f EXCEPT !.todo = Tail(@)]
           g == IF waits THEN [rest EXCEPT !.at = "blocked"] ELSE rest
           b == IF waits THEN t ELSE NoThread
           e == [conn |-> c, id |-> f.id, blocks |-> b]
<1>1. CASE c \notin ToSet(conns)
  BY <1>1, VisitGoneIInv
<1>2. CASE c \in ToSet(conns)
  <2>1. stack[t] # <<>> /\ f.at = "emit" /\ f.todo # <<>>
    BY DEF Visit, At
  <2>2. Len(stack[t]) \in Depth(t) /\ f = stack[t][Len(stack[t])] /\ f \in FrameType
    BY <2>1, TopOf DEF IInv
  <2>3. FrameInv(t, Len(stack[t]))
    BY <2>2 DEF IInv, StackInv
  <2>4. /\ c \in Ids /\ c \in Elements(f.todo)
        /\ Tail(f.todo) \in Seq(Ids) /\ Distinct(Tail(f.todo))
        /\ Elements(Tail(f.todo)) = Elements(f.todo) \ {c}
    BY <2>1, <2>2, <2>3, TailElement DEF FrameType, FrameInv
  <2>5. c \in Made /\ f.id \in Made /\ b \in Callers
    BY <2>2, <2>3, <2>4 DEF FrameInv, Callers
  <2>6. /\ rest \in FrameType /\ rest.at = "emit" /\ rest.id = f.id /\ rest.blocks = NoThread
        /\ rest.todo = Tail(f.todo)
    BY <2>1, <2>2, <2>3, <2>4 DEF FrameType, FrameInv
  <2>7. /\ inbox' = [inbox EXCEPT ![calls[c].to] = Append(@, e)]
        /\ stack' = [stack EXCEPT ![t][Len(stack[t])] = g]
        /\ UNCHANGED <<lastId, calls, conns, started, done>>
    BY <1>2 DEF Visit
  <2> HIDE DEF rest
  <2>8. /\ g \in FrameType /\ g.id = f.id /\ g.blocks = NoThread /\ g.todo = Tail(f.todo)
        /\ (b = NoThread /\ g.at = "emit") \/ (b = t /\ g.at = "blocked")
    BY <2>6 DEF FrameType
  <2> HIDE DEF g, b
  <2>9. e \in EventType /\ calls[c].to \in Threads
    BY <2>2, <2>4, <2>5 DEF FrameType, EventType, IInv, CallOK
  <2> HIDE DEF e
  <2>10. Posts(calls[c].to, e) /\ Tops(t, g)
    BY <2>1, <2>7, <2>8, <2>9, PostsEvent, TopsTop DEF IInv
  <2>11. Reaches(t, c, f.id, b, g)
    BY <2>1, <2>4, <2>5, <2>7, <2>8, <2>10 DEF Reaches, e
  <2> HIDE DEF c, f
  <2> QED BY <2>1, <2>11, ReachIInv
<1> QED BY <1>1, <1>2

(* Thread t takes its first event e; its method is started if the event is *)
(* that of its own call.                                                   *)
Handles(t, e) ==
    /\ Takes(t) /\ 1 \in Places(t) /\ e = inbox[t][1] /\ e \in EventType
    /\ started' = IF e.conn = e.id THEN [started EXCEPT ![e.id] = @ + 1] ELSE started
    /\ UNCHANGED <<lastId, calls>>

(* Where the events come from that are left.                               *)
LEMMA LeftEvents ==
    ASSUME Types, NEW t \in Threads, Takes(t), NEW v \in Threads, NEW p \in 1 .. Len(inbox'[v])
    PROVE  \/ v # t /\ p \in Places(v) /\ inbox'[v][p] = inbox[v][p]
           \/ v = t /\ p + 1 \in Places(v) /\ inbox'[v][p] = inbox[v][p + 1]
  BY LenProperties DEF Types, Takes, Places

LEMMA EventsLeft ==
    ASSUME Types, NEW t \in Threads, Takes(t), NEW v \in Threads, NEW p \in Places(v)
    PROVE  \/ v # t /\ p \in 1 .. Len(inbox'[v]) /\ inbox'[v][p] = inbox[v][p]
           \/ v = t /\ p = 1
           \/ /\ v = t /\ p # 1 /\ p - 1 \in 1 .. Len(inbox'[v])
              /\ inbox'[v][p - 1] = inbox[v][p]
<1>1. Len(inbox[v]) \in Nat /\ p \in 1 .. Len(inbox[v])
  BY LenProperties DEF Types, Places
<1>2. CASE v # t
  BY <1>1, <1>2 DEF Takes, Places
<1>3. CASE v = t /\ p # 1
  <2>1. p - 1 \in 1 .. Len(inbox'[t]) /\ (p - 1) + 1 = p
    BY <1>1, <1>3 DEF Takes
  <2> QED BY <1>3, <2>1 DEF Takes, Places
<1> QED BY <1>2, <1>3

LEMMA HandledCall ==
    ASSUME IInv, NEW t \in Threads, NEW e, Handles(t, e)
    PROVE  /\ e.conn \in Made /\ e.id \in Made /\ calls[e.conn].to = t
           /\ \A i \in Made : started[i] = 1 => started'[i] = 1
           /\ \A i \in Made : i # e.id \/ e.conn # e.id => started'[i] = started[i]
           /\ e.conn = e.id => started[e.id] = 0 /\ started'[e.id] = 1 /\ ~ done[e.id]
           /\ started' \in [Ids -> 0 .. 1]
<1>1. e.conn \in Made /\ e.id \in Made /\ calls[e.conn].to = t /\ (e.conn = e.id => started[e.id] = 0)
  BY DEF Handles, IInv, InboxInv
<1>2. \A i \in Made : i \in Ids /\ started[i] \in 0 .. 1
  BY MadeOnce DEF IInv
<1>3. started \in [Ids -> 0 .. 1]
  BY DEF IInv, Types
<1>4. CASE e.conn = e.id
  <2>1. started' = [started EXCEPT ![e.id] = started[e.id] + 1] /\ e.id \in Ids
    BY <1>1, <1>2, <1>4 DEF Handles
  <2>2. started[e.id] = 0 /\ started'[e.id] = 1
    BY <1>1, <1>3, <1>4, <2>1
  <2>3. ~ done[e.id]
    BY <1>1, <2>2 DEF IInv, EndInv
  <2> QED BY <1>1, <1>2, <1>3, <1>4, <2>1, <2>2, <2>3
<1>5. CASE e.conn # e.id
  BY <1>1, <1>3, <1>5 DEF Handles
<1> QED BY <1>4, <1>5

LEMMA HandledEvents ==
    ASSUME IInv, NEW t \in Threads, NEW e, Handles(t, e)
    PROVE  /\ \A u \in Threads : InboxInv(u)'
           /\ \A i \in Made : Posted(i)' <=> Posted(i)
           /\ \A i, j \in Made : OrderInv(i, j)'
<1>1. /\ e.conn \in Made /\ e.id \in Made /\ calls[e.conn].to = t
      /\ \A i \in Made : started[i] = 1 => started'[i] = 1
      /\ \A i \in Made : i # e.id \/ e.conn # e.id => started'[i] = started[i]
      /\ e.conn = e.id => started[e.id] = 0 /\ started'[e.id] = 1
  BY HandledCall
<1>2. Made' = Made /\ calls' = calls
  BY DEF Handles, Made
<1>3. \A i : Own(e, i) <=> e.conn = i /\ e.id = i
  BY DEF Own
<1>4. ASSUME NEW v \in Threads PROVE InboxInv(v)'
  <2>1. InboxInv(v)
    BY DEF IInv
  <2>2. ASSUME NEW p \in 1 .. Len(inbox'[v])
        PROVE  LET d == inbox'[v][p]
               IN  /\ d.conn \in Made /\ d.id \in Made /\ calls[d.conn].to = v
                   /\ d.conn = d.id => started'[d.id] = 0
    <3> DEFINE d == inbox'[v][p]
    <3>1. /\ d.conn \in Made /\ d.id \in Made /\ calls[d.conn].to = v
          /\ d.conn = d.id => started[d.id] = 0
      BY <2>1, LeftEvents DEF InboxInv, IInv, Handles
    <3>2. d.conn = d.id => ~ (d.id = e.id /\ e.conn = e.id)
      <4> SUFFICES ASSUME d.conn = e.id, d.id = e.id, e.conn = e.id PROVE FALSE
        OBVIOUS
      <4>1. v = t
        BY <1>1, <3>1
      <4>2. p + 1 \in Places(t) /\ d = inbox[t][p + 1]
        BY <4>1, LeftEvents DEF IInv, Handles
      <4>3. Own(inbox[t][p + 1], e.id) /\ Own(inbox[t][1], e.id)
        BY <4>2 DEF Own, Handles
      <4>4. 1 = p + 1
        BY <1>1, <2>1, <4>1, <4>2, <4>3 DEF InboxInv, Handles
      <4> QED BY <4>4
    <3> QED BY <1>1, <3>1, <3>2
  <2>3. ASSUME NEW j \in Made, NEW p \in 1 .. Len(inbox'[v]), NEW q \in 1 .. Len(inbox'[v]),
               Own(inbox'[v][p], j), Own(inbox'[v][q], j)
        PROVE  p = q
    <3>1. CASE v # t
      BY <2>1, <2>3, <3>1, LeftEvents DEF InboxInv, IInv, Handles
    <3>2. CASE v = t
      <4>1. p + 1 \in Places(v) /\ q + 1 \in Places(v)
            /\ Own(inbox[v][p + 1], j) /\ Own(inbox[v][q + 1], j)
        BY <2>3, <3>2, LeftEvents DEF IInv, Handles
      <4>2. p + 1 = q + 1
        BY <2>1, <4>1 DEF InboxInv
      <4> QED BY <4>2
    <3> QED BY <3>1, <3>2
  <2> QED BY <1>2, <2>2, <2>3 DEF InboxInv, Places, Own
<1>5. ASSUME NEW i \in Made PROVE Posted(i)' <=> Posted(i)
  <2> DEFINE v == calls[i].to
  <2>1. v \in Threads
    BY DEF IInv, CallOK
  <2>2. CASE e.conn = i /\ e.id = i
    <3>1. Own(inbox[t][1], i) /\ v = t /\ started'[i] = 1
      BY <1>1, <2>2 DEF Own, Handles
    <3> QED BY <3>1 DEF Posted, Handles
  <2>3. CASE ~ (e.conn = i /\ e.id = i)
    <3>1. started'[i] = started[i] /\ ~ Own(e, i)
      BY <1>1, <1>3, <2>3
    <3>2. ASSUME NEW p \in Places(v), Own(inbox[v][p], i)
          PROVE  \E q \in 1 .. Len(inbox'[v]) : Own(inbox'[v][q], i)
      BY <2>1, <3>1, <3>2, EventsLeft DEF Handles, IInv
    <3>3. ASSUME NEW p \in 1 .. Len(inbox'[v]), Own(inbox'[v][p], i)
          PROVE  \E q \in Places(v) : Own(inbox[v][q], i)
      BY <2>1, <3>3, LeftEvents DEF Handles, IInv
    <3> QED BY <1>2, <3>1, <3>2, <3>3 DEF Posted, Places
  <2> QED BY <2>2, <2>3
<1>6. ASSUME NEW j \in Made, NEW k \in Made PROVE OrderInv(j, k)'
  <2> SUFFICES ASSUME j < k, Same(j, k)
               PROVE  /\ started'[k] = 1 => started'[j] = 1
                      /\ \A q \in 1 .. Len(inbox'[calls[k].to]) : Own(inbox'[calls[k].to][q], k) =>
                            \/ started'[j] = 1
                            \/ \E p \in 1 .. q - 1 : Own(inbox'[calls[k].to][p], j)
    BY <1>2 DEF OrderInv, Same, Places, Own
  <2> DEFINE v == calls[k].to
  <2>1. v \in Threads /\ calls[j].to = v
    BY DEF IInv, CallOK, Same
  <2>2. /\ started[k] = 1 => started[j] = 1
        /\ \A q \in Places(v) : Own(inbox[v][q], k) =>
              started[j] = 1 \/ \E p \in 1 .. q - 1 : Own(inbox[v][p], j)
    BY DEF IInv, OrderInv
  <2>3. started'[k] = 1 => started'[j] = 1
    <3>1. CASE e.conn = k /\ e.id = k
      <4>1. Own(inbox[t][1], k) /\ v = t /\ 1 \in Places(t)
        BY <1>1, <3>1 DEF Own, Handles
      <4> QED BY <1>1, <2>2, <4>1
    <3>2. CASE ~ (e.conn = k /\ e.id = k)
      BY <1>1, <2>2, <3>2
    <3> QED BY <3>1, <3>2
  <2>4. ASSUME NEW q \in 1 .. Len(inbox'[v]), Own(inbox'[v][q], k), started'[j] # 1
        PROVE  \E p \in 1 .. q - 1 : Own(inbox'[v][p], j)
    <3>1. started[j] # 1 /\ ~ Own(e, j)
      BY <1>1, <1>3, <2>4
    <3>2. CASE v # t
      <4>1. q \in Places(v) /\ Own(inbox[v][q], k) /\ inbox'[v] = inbox[v]
        BY <2>1, <2>4, <3>2, LeftEvents DEF Handles, IInv, Takes
      <4> QED BY <2>2, <3>1, <4>1
    <3>3. CASE v = t
      <4>1. q + 1 \in Places(v) /\ Own(inbox[v][q + 1], k)
        BY <2>1, <2>4, <3>3, LeftEvents DEF Handles, IInv
      <4>2. PICK p \in 1 .. (q + 1) - 1 : Own(inbox[v][p], j)
        BY <2>2, <3>1, <4>1
      <4>3. p \in Places(v)
        BY <4>1, LenProperties, <2>1 DEF Places, IInv, Types
      <4>4. p # 1
        BY <3>1, <3>3, <4>2 DEF Handles
      <4>5. p - 1 \in 1 .. Len(inbox'[v]) /\ inbox'[v][p - 1] = inbox[v][p]
        BY <2>1, <3>3, <4>3, <4>4, EventsLeft DEF Handles, IInv
      <4>6. p - 1 \in 1 .. q - 1
        BY <4>2, <4>4
      <4> QED BY <4>2, <4>5, <4>6
    <3> QED BY <3>2, <3>3
  <2> QED BY <2>3, <2>4
<1> QED BY <1>4, <1>5, <1>6

(* Who begins a call or a method was in its event loop or in a method.     *)
MayEnter(t) == stack[t] = <<>> \/ Top(t).at \in {"wait", "run"}

LEMMA PushesKeep ==
    ASSUME IInv, NEW t \in Threads, NEW g, Pushes(t, g), NEW u \in Threads, u # t
    PROVE  stack'[u] = stack[u]
<1>1. stack[u] \in Seq(FrameType) /\ stack'[u] \in Seq(FrameType)
  BY DEF IInv, Types, Pushes
<1>2. Len(stack'[u]) = Len(stack[u]) /\ \A k \in 1 .. Len(stack[u]) : stack'[u][k] = stack[u][k]
  BY DEF Pushes, Depth
<1> QED BY <1>1, <1>2, SeqEqual

LEMMA PushesOnTop ==
    ASSUME IInv, NEW t \in Threads, NEW g, Pushes(t, g)
    PROVE  /\ stack'[t] # <<>> /\ Top(t)' = g
           /\ \A u \in Threads : \A k \in 1 .. Len(stack'[u]) :
                 \/ k \in Depth(u) /\ stack'[u][k] = stack[u][k]
                 \/ u = t /\ k = Len(stack'[u]) /\ stack'[u][k] = g
           /\ \A k \in Depth(t) : k \in 1 .. Len(stack'[t]) /\ k # Len(stack'[t])
<1>1. \A u \in Threads : Len(stack[u]) \in Nat
  BY TopOf DEF IInv
<1>2. Len(stack'[t]) = Len(stack[t]) + 1 /\ stack'[t][Len(stack'[t])] = g
  BY DEF Pushes
<1>3. stack'[t] # <<>>
  BY <1>1, <1>2, EmptySeq, LenProperties DEF Pushes
<1>4. Top(t)' = g
  BY <1>2 DEF Top, Last
<1> QED BY <1>1, <1>2, <1>3, <1>4 DEF Pushes, Depth

LEMMA PushesSent ==
    ASSUME IInv, NEW t \in Threads, NEW g, Pushes(t, g), MayEnter(t),
           NEW i \in Made, calls'[i] = calls[i]
    PROVE  Unsent(i)' <=> IF calls[i].from = t THEN i = g.id /\ UnsentAt(g) ELSE Unsent(i)
<1>1. calls[i].from \in Threads
  BY DEF IInv, CallOK
<1>2. CASE calls[i].from # t
  <2>1. stack'[calls[i].from] = stack[calls[i].from]
    BY <1>1, <1>2, PushesKeep
  <2> QED BY <1>2, <2>1 DEF Unsent, Top
<1>3. CASE calls[i].from = t
  BY <1>3, PushesOnTop DEF Unsent
<1> QED BY <1>2, <1>3

LEMMA EnterNoUnsent ==
    ASSUME IInv, NEW t \in Threads, MayEnter(t), NEW i \in Made, calls[i].from = t
    PROVE  ~ Unsent(i)
  BY DEF MayEnter, Unsent, UnsentAt

LEMMA PushesMaking ==
    ASSUME IInv, NEW t \in Threads, NEW g, Pushes(t, g), NEW i, Making(i)
    PROVE  Making(i)'
<1>1. PICK u \in Threads : \E k \in 1 .. Len(stack[u]) : stack[u][k].id = i /\ stack[u][k].at # "run"
  BY MakingFrame DEF IInv
<1>2. PICK k \in 1 .. Len(stack[u]) : stack[u][k].id = i /\ stack[u][k].at # "run"
  BY <1>1
<1>3. k \in 1 .. Len(stack'[u]) /\ stack'[u][k] = stack[u][k]
  BY TopOf DEF IInv, Pushes, Depth
<1> QED BY <1>2, <1>3, MakingFrameNext DEF Pushes

LEMMA PushesBlocked ==
    ASSUME IInv, NEW t \in Threads, NEW g, Pushes(t, g), MayEnter(t),
           NEW x \in Threads, At(x, "blocked")
    PROVE  x # t /\ At(x, "blocked")'
<1>1. x # t
  BY DEF At, MayEnter
<1> QED BY <1>1, PushesKeep DEF At, Top

(* A method is started.                                                    *)
Runs(t, e) ==
    /\ Handles(t, e) /\ e.conn = e.id /\ MayEnter(t) /\ (stack[t] # <<>> => Top(t).at = "wait")
    /\ Pushes(t, Frame("run", e.id, <<>>, e.blocks))
    /\ UNCHANGED <<conns, done>>

LEMMA RunsStack ==
    ASSUME IInv, NEW t \in Threads, NEW e, Runs(t, e), NEW u \in Threads
    PROVE  StackInv(u)'
<1> DEFINE g == Frame("run", e.id, <<>>, e.blocks)
<1>1. g.at = "run" /\ g.id = e.id /\ g.todo = <<>> /\ Distinct(g.todo) /\ Elements(g.todo) = {}
  BY DEF Frame, Distinct, Elements
<1>2. /\ e.id \in Made /\ calls[e.id].to = t /\ started[e.id] = 0 /\ started'[e.id] = 1 /\ ~ done[e.id]
      /\ \A i \in Made : started[i] = 1 => started'[i] = 1
  BY HandledCall DEF Runs
<1>3. Pushes(t, g) /\ UNCHANGED <<lastId, calls, done>> /\ Made' = Made
  BY DEF Runs, Handles, Made
<1>4. \A v \in Threads : \A k \in Depth(v) : FrameInv(v, k)
  BY DEF IInv, StackInv
<1> HIDE DEF g
<1>5. ASSUME NEW k \in 1 .. Len(stack'[u]) PROVE FrameInv(u, k)'
  <2>1. CASE u = t /\ k = Len(stack'[u]) /\ stack'[u][k] = g
    BY <1>1, <1>2, <1>3, <2>1 DEF FrameInv
  <2>2. CASE k \in Depth(u) /\ stack'[u][k] = stack[u][k]
    <3>1. k # Len(stack'[u]) => stack[u][k].at \in {"wait", "run"}
      <4>1. CASE k # Len(stack[u])
        BY <1>4, <2>2, <4>1 DEF FrameInv
      <4>2. CASE k = Len(stack[u]) /\ u = t
        <5>1. Top(t) = stack[t][k] /\ stack[t] # <<>>
          BY <2>2, <4>2, TopOf, EmptySeq DEF IInv, Depth
        <5> QED BY <4>2, <5>1 DEF Runs
      <4>3. CASE k = Len(stack[u]) /\ u # t
        BY <1>3, <4>3 DEF Pushes
      <4> QED BY <4>1, <4>2, <4>3
    <3>2. FrameInv(u, k)
      BY <1>4, <2>2
    <3> QED BY <1>2, <1>3, <2>2, <3>1, <3>2 DEF FrameInv
  <2> QED BY <1>3, <2>1, <2>2, PushesOnTop
<1>6. \A k \in Depth(t) : stack[t][k].id # e.id
  <2> SUFFICES ASSUME NEW k \in Depth(t), stack[t][k].id = e.id PROVE FALSE
    OBVIOUS
  <2>1. FrameInv(t, k)
    BY <1>4
  <2>2. stack[t][k].at = "run" \/ calls[e.id].from = t
    BY <2>1 DEF FrameInv
  <2> QED BY <1>2, <2>1, <2>2 DEF FrameInv, IInv, CallOK
<1>7. ASSUME NEW k \in 1 .. Len(stack'[u]), NEW l \in 1 .. Len(stack'[u]),
             stack'[u][k].id = stack'[u][l].id
      PROVE  k = l
  <2>1. \A j \in 1 .. Len(stack'[u]) :
           \/ j \in Depth(u) /\ stack'[u][j] = stack[u][j]
           \/ u = t /\ j = Len(stack'[u]) /\ stack'[u][j] = g
    BY <1>3, PushesOnTop
  <2>2. \A j, m \in Depth(u) : stack[u][j].id = stack[u][m].id => j = m
    BY DEF IInv, StackInv
  <2> QED BY <1>1, <1>6, <1>7, <2>1, <2>2
<1> QED BY <1>5, <1>7 DEF StackInv, Depth

(* The event that is taken was the only one that blocked its emitter; for  *)
(* all others nothing changes.                                             *)
LEMMA TakenBlocks ==
    ASSUME IInv, NEW t \in Threads, NEW e, Handles(t, e), NEW x \in Threads
    PROVE  /\ e.blocks = x =>
                 /\ At(x, "blocked")
                 /\ \A u \in Threads : \A p \in 1 .. Len(inbox'[u]) : inbox'[u][p].blocks # x
                 /\ \A u \in Threads : \A k \in Depth(u) : ~ FrameBlocks(u, k, x)
           /\ \A u \in Threads : \A p \in 1 .. Len(inbox'[u]) : inbox'[u][p].blocks = x =>
                 /\ At(x, "blocked")
                 /\ \A v \in Threads : \A q \in 1 .. Len(inbox'[v]) :
                       inbox'[v][q].blocks = x => u = v /\ p = q
                 /\ \A v \in Threads : \A k \in Depth(v) : ~ FrameBlocks(v, k, x)
<1>1. BlockInv(x) /\ 1 \in Places(t) /\ (e.blocks = x <=> EventBlocks(t, 1, x))
  BY DEF IInv, Handles, EventBlocks
<1>2. \A u \in Threads : \A p \in 1 .. Len(inbox'[u]) :
         \/ u # t /\ p \in Places(u) /\ inbox'[u][p] = inbox[u][p]
         \/ u = t /\ p + 1 \in Places(u) /\ p + 1 # 1 /\ inbox'[u][p] = inbox[u][p + 1]
  BY LeftEvents DEF IInv, Handles
<1>3. ASSUME e.blocks = x
      PROVE  /\ At(x, "blocked")
             /\ \A u \in Threads : \A p \in 1 .. Len(inbox'[u]) : inbox'[u][p].blocks # x
             /\ \A u \in Threads : \A k \in Depth(u) : ~ FrameBlocks(u, k, x)
  <2>1. At(x, "blocked") /\ \A u \in Threads : \A k \in Depth(u) : ~ FrameBlocks(u, k, x)
    BY <1>1, <1>3 DEF BlockInv
  <2>2. \A u \in Threads : \A p \in Places(u) : EventBlocks(u, p, x) => u = t /\ p = 1
    BY <1>1, <1>3 DEF BlockInv
  <2>3. \A u \in Threads : \A p \in 1 .. Len(inbox'[u]) : inbox'[u][p].blocks # x
    BY <1>2, <2>2 DEF EventBlocks
  <2> QED BY <2>1, <2>3
<1>4. ASSUME NEW u \in Threads, NEW p \in 1 .. Len(inbox'[u]), inbox'[u][p].blocks = x
      PROVE  /\ At(x, "blocked")
             /\ \A v \in Threads : \A q \in 1 .. Len(inbox'[v]) :
                   inbox'[v][q].blocks = x => u = v /\ p = q
             /\ \A v \in Threads : \A k \in Depth(v) : ~ FrameBlocks(v, k, x)
  <2> DEFINE o == IF u = t THEN p + 1 ELSE p
  <2>1. o \in Places(u) /\ EventBlocks(u, o, x)
    BY <1>2, <1>4 DEF EventBlocks
  <2> HIDE DEF o
  <2>2. At(x, "blocked") /\ \A v \in Threads : \A k \in Depth(v) : ~ FrameBlocks(v, k, x)
    BY <1>1, <2>1 DEF BlockInv
  <2>3. ASSUME NEW v \in Threads, NEW q \in 1 .. Len(inbox'[v]), inbox'[v][q].blocks = x
        PROVE  u = v /\ p = q
    <3> DEFINE r == IF v = t THEN q + 1 ELSE q
    <3>1. r \in Places(v) /\ EventBlocks(v, r, x)
      BY <1>2, <2>3 DEF EventBlocks
    <3> HIDE DEF r
    <3>2. u = v /\ o = r
      BY <1>1, <2>1, <3>1 DEF BlockInv
    <3> QED BY <3>2 DEF o, r
  <2> QED BY <2>2, <2>3
<1> QED BY <1>3, <1>4

LEMMA RunsBlocks ==
    ASSUME IInv, NEW t \in Threads, NEW e, Runs(t, e), NEW x \in Threads
    PROVE  BlockInv(x)'
<1> DEFINE g == Frame("run", e.id, <<>>, e.blocks)
<1>1. g.blocks = e.blocks /\ Pushes(t, g) /\ Handles(t, e) /\ MayEnter(t)
  BY DEF Runs, Frame
<1> HIDE DEF g
<1>2. \A u \in Threads : \A k \in 1 .. Len(stack'[u]) :
         \/ k \in Depth(u) /\ stack'[u][k] = stack[u][k]
         \/ u = t /\ k = Len(stack'[u]) /\ stack'[u][k] = g
  BY <1>1, PushesOnTop
<1>3. At(x, "blocked") => At(x, "blocked")'
  BY <1>1, PushesBlocked
<1>4. CASE e.blocks = x
  <2>1. /\ At(x, "blocked")
        /\ \A u \in Threads : \A p \in 1 .. Len(inbox'[u]) : inbox'[u][p].blocks # x
        /\ \A u \in Threads : \A k \in Depth(u) : ~ FrameBlocks(u, k, x)
    BY <1>1, <1>4, TakenBlocks
  <2>2. \A u \in Threads : \A k \in 1 .. Len(stack'[u]) :
           stack'[u][k].blocks = x => u = t /\ k = Len(stack'[t])
    BY <1>2, <2>1 DEF FrameBlocks
  <2>3. \A u \in Threads : \A p \in Places(u)' : ~ EventBlocks(u, p, x)'
    BY <2>1 DEF Places, EventBlocks
  <2>4. \A u, v \in Threads : \A k \in Depth(u)', l \in Depth(v)' :
           FrameBlocks(u, k, x)' /\ FrameBlocks(v, l, x)' => u = v /\ k = l
    BY <2>2 DEF Depth, FrameBlocks
  <2> QED BY <1>3, <2>1, <2>3, <2>4 DEF BlockInv
<1>5. CASE e.blocks # x
  <2>1. \A u \in Threads : \A k \in Depth(u)' :
           FrameBlocks(u, k, x)' => k \in Depth(u) /\ FrameBlocks(u, k, x)
    BY <1>1, <1>2, <1>5 DEF Depth, FrameBlocks
  <2>2. \A u \in Threads : \A p \in Places(u)' : EventBlocks(u, p, x)' =>
           /\ At(x, "blocked")
           /\ \A v \in Threads : \A q \in Places(v)' : EventBlocks(v, q, x)' => u = v /\ p = q
           /\ \A v \in Threads : \A k \in Depth(v) : ~ FrameBlocks(v, k, x)
    BY <1>1, TakenBlocks DEF Places, EventBlocks
  <2>3. BlockInv(x)
    BY DEF IInv
  <2> QED BY <1>3, <2>1, <2>2, <2>3 DEF BlockInv
<1> QED BY <1>4, <1>5

LEMMA RunsIInv == ASSUME IInv, NEW t \in Threads, NEW e, Runs(t, e) PROVE IInv'
<1>1. /\ e.id \in Made /\ calls[e.id].to = t /\ started' \in [Ids -> 0 .. 1]
      /\ \A i \in Made : started[i] = 1 => started'[i] = 1
  BY HandledCall DEF Runs
<1>2. UNCHANGED <<lastId, calls, conns, done>> /\ Made' = Made
  BY DEF Runs, Handles, Made
<1>3. Types' /\ ConnsInv'
  BY <1>1, <1>2 DEF IInv, Types, ConnsInv, Runs, Handles, Takes, Pushes
<1>4. FreshInv'
  <2>1. e.id <= lastId
    BY <1>1 DEF Made
  <2>2. \A i \in Ids : i > lastId => started'[i] = started[i]
    BY <2>1 DEF Runs, Handles, IInv, Types, Ids
  <2> QED BY <1>2, <2>2 DEF IInv, FreshInv
<1>5. \A i \in Made : CallOK(i)' /\ EndInv(i)'
  <2>1. \A i : Making(i) => Making(i)'
    BY PushesMaking DEF Runs
  <2> QED BY <1>1, <1>2, <2>1 DEF IInv, CallOK, EndInv
<1>6. \A i \in Made : SentInv(i)'
  <2> DEFINE g == Frame("run", e.id, <<>>, e.blocks)
  <2>1. ~ UnsentAt(g) /\ Pushes(t, g) /\ MayEnter(t)
    BY DEF UnsentAt, Frame, Runs
  <2> HIDE DEF g
  <2>2. \A i \in Made : Unsent(i)' <=> Unsent(i)
    BY <1>2, <2>1, PushesSent, EnterNoUnsent
  <2>3. \A i \in Made : Posted(i)' <=> Posted(i)
    BY HandledEvents DEF Runs
  <2> QED BY <2>2, <2>3 DEF IInv, SentInv
<1>7. \A u \in Threads : StackInv(u)' /\ BlockInv(u)'
  BY RunsStack, RunsBlocks
<1>8. /\ \A u \in Threads : InboxInv(u)'
      /\ \A i, j \in Made : OrderInv(i, j)'
  BY HandledEvents DEF Runs
<1> QED BY <1>2, <1>3, <1>4, <1>5, <1>6, <1>7, <1>8 DEF IInv

(* A blocked emitter goes on: where the event that blocked b is handled by *)
(* thread t, which leaves a method (d = 1) or does not (d = 0).            *)
Ends(t, d, b) ==
    /\ d \in {0, 1} /\ (d = 1 => stack[t] # <<>> /\ Top(t).at = "run")
    /\ b \in Callers /\ b # t /\ (b # NoThread => At(b, "blocked"))
    /\ stack' \in [Threads -> Seq(FrameType)]
    /\ \A u \in Threads : Len(stack'[u]) = IF u = t THEN Len(stack[t]) - d ELSE Len(stack[u])
    /\ \A u \in Threads : \A k \in 1 .. Len(stack'[u]) :
          stack'[u][k] = IF u = b /\ k = Len(stack[b])
                         THEN [stack[b][k] EXCEPT !.at = "emit"] ELSE stack[u][k]

(* What becomes of a frame that stays.                                     *)
LEMMA EndsFrame ==
    ASSUME IInv, NEW t \in Threads, NEW d, NEW b, Ends(t, d, b),
           NEW u \in Threads, NEW k \in 1 .. Len(stack'[u])
    PROVE  /\ k \in Depth(u)
           /\ stack'[u][k].id = stack[u][k].id
           /\ stack'[u][k].todo = stack[u][k].todo
           /\ stack'[u][k].blocks = stack[u][k].blocks
           /\ \/ stack'[u][k].at = stack[u][k].at
              \/ /\ u = b /\ k = Len(stack[u]) /\ stack[u][k].at = "blocked"
                 /\ stack'[u][k].at = "emit"
           /\ u = b /\ k = Len(stack[u]) => stack'[u][k].at = "emit"
           /\ k # Len(stack'[u]) => k # Len(stack[u])
<1>1. Len(stack[u]) \in Nat /\ k \in Depth(u) /\ (k # Len(stack'[u]) => k # Len(stack[u]))
  BY TopOf DEF IInv, Ends, Depth
<1>2. stack[u][k] \in FrameType
  BY <1>1, TopOf DEF IInv
<1>3. CASE u = b /\ k = Len(stack[b])
  <2>1. At(b, "blocked") /\ Top(b) = stack[u][k]
    BY <1>3, ThreadsAssumption, TopOf DEF IInv, Ends, At
  <2>2. stack'[u][k] = [stack[u][k] EXCEPT !.at = "emit"]
    BY <1>3 DEF Ends
  <2> QED BY <1>1, <1>2, <1>3, <2>1, <2>2 DEF At, FrameType
<1>4. CASE ~ (u = b /\ k = Len(stack[b]))
  <2>1. stack'[u][k] = stack[u][k]
    BY <1>4 DEF Ends
  <2> QED BY <1>1, <1>4, <2>1
<1> QED BY <1>3, <1>4

LEMMA EndsStack ==
    ASSUME IInv, NEW t \in Threads, NEW d, NEW b, Ends(t, d, b),
           UNCHANGED <<lastId, calls>>,
           \A i \in Made : started[i] = 1 => started'[i] = 1,
           \A u \in Threads : \A k \in 1 .. Len(stack'[u]) :
              stack[u][k].at = "run" => done'[stack[u][k].id] = done[stack[u][k].id],
           NEW u \in Threads
    PROVE  StackInv(u)'
<1>1. ASSUME NEW k \in 1 .. Len(stack'[u]) PROVE FrameInv(u, k)'
  <2>1. /\ k \in Depth(u) /\ stack'[u][k].id = stack[u][k].id
        /\ stack'[u][k].todo = stack[u][k].todo
        /\ stack'[u][k].blocks = stack[u][k].blocks
        /\ \/ stack'[u][k].at = stack[u][k].at
           \/ k = Len(stack[u]) /\ stack[u][k].at = "blocked" /\ stack'[u][k].at = "emit"
        /\ k # Len(stack'[u]) => k # Len(stack[u])
    BY EndsFrame
  <2>2. FrameInv(u, k)
    BY <2>1 DEF IInv, StackInv
  <2> QED BY <2>1, <2>2 DEF FrameInv, Made
<1>2. \A k \in 1 .. Len(stack'[u]) : k \in Depth(u) /\ stack'[u][k].id = stack[u][k].id
  BY EndsFrame
<1>3. \A k, l \in Depth(u) : stack[u][k].id = stack[u][l].id => k = l
  BY DEF IInv, StackInv
<1> QED BY <1>1, <1>2, <1>3 DEF StackInv, Depth

LEMMA EndsSent ==
    ASSUME IInv, NEW t \in Threads, NEW d, NEW b, Ends(t, d, b), calls' = calls, NEW i \in Made
    PROVE  Unsent(i)' <=> Unsent(i)
<1> DEFINE u == calls[i].from
           n == Len(stack'[u])
<1>1. u \in Threads
  BY DEF IInv, CallOK
<1>2. Len(stack[u]) \in Nat /\ Len(stack'[u]) \in Nat
  BY <1>1, LenProperties DEF IInv, Types, Ends
<1>3. /\ stack[u] # <<>> <=> Len(stack[u]) # 0
      /\ stack'[u] # <<>> <=> n # 0
  BY <1>1, EmptySeq DEF IInv, Types, Ends
<1>4. /\ Unsent(i) <=> /\ Len(stack[u]) # 0
                       /\ stack[u][Len(stack[u])].id = i /\ UnsentAt(stack[u][Len(stack[u])])
      /\ Unsent(i)' <=> n # 0 /\ stack'[u][n].id = i /\ UnsentAt(stack'[u][n])
  BY <1>3 DEF Unsent, Top, Last
<1>5. n # 0 => n \in 1 .. Len(stack'[u])
  BY <1>2
<1>6. CASE u = t /\ d = 1
  <2>1. ~ Unsent(i)
    BY <1>6 DEF Ends, Unsent, UnsentAt
  <2>2. ASSUME n # 0 PROVE ~ UnsentAt(stack'[u][n])
    <3>1. n \in Depth(u) /\ n # Len(stack[u])
      BY <1>2, <1>6, <2>2 DEF Ends, Depth
    <3>2. stack[u][n].at \in {"wait", "run"}
      BY <1>1, <3>1 DEF IInv, StackInv, FrameInv
    <3>3. stack'[u][n] = stack[u][n]
      BY <1>1, <1>5, <1>6, <2>2 DEF Ends
    <3> QED BY <3>2, <3>3 DEF UnsentAt
  <2> QED BY <1>4, <2>1, <2>2
<1>7. CASE ~ (u = t /\ d = 1)
  <2>1. n = Len(stack[u])
    BY <1>1, <1>2, <1>7 DEF Ends
  <2>2. ASSUME n # 0
        PROVE  /\ stack'[u][n].id = stack[u][n].id
               /\ UnsentAt(stack'[u][n]) <=> UnsentAt(stack[u][n])
    BY <1>1, <1>5, <2>2, EndsFrame DEF UnsentAt
  <2> QED BY <1>4, <2>1, <2>2
<1> QED BY <1>6, <1>7

LEMMA EndsMaking ==
    ASSUME IInv, NEW t \in Threads, NEW d, NEW b, Ends(t, d, b), NEW i, Making(i)
    PROVE  Making(i)'
<1>1. PICK u \in Threads : \E k \in 1 .. Len(stack[u]) : stack[u][k].id = i /\ stack[u][k].at # "run"
  BY MakingFrame DEF IInv
<1>2. PICK k \in 1 .. Len(stack[u]) : stack[u][k].id = i /\ stack[u][k].at # "run"
  BY <1>1
<1>3. k \in 1 .. Len(stack'[u])
  <2>1. Len(stack[u]) \in Nat
    BY TopOf DEF IInv
  <2>2. u = t /\ d = 1 => k # Len(stack[t])
    BY <1>2, TopOf DEF IInv, Ends
  <2> QED BY <2>1, <2>2 DEF Ends
<1>4. stack'[u][k].id = i /\ stack'[u][k].at # "run"
  BY <1>2, <1>3, EndsFrame
<1> QED BY <1>3, <1>4, MakingFrameNext DEF Ends

LEMMA EndsBlocked ==
    ASSUME IInv, NEW t \in Threads, NEW d, NEW b, Ends(t, d, b), NEW x \in Threads, x # b,
           At(x, "blocked"), ~ At(t, "blocked")
    PROVE  At(x, "blocked")'
<1>1. x # t
  BY DEF At
<1>2. /\ Len(stack[x]) \in Nat /\ Len(stack[x]) # 0 /\ Len(stack'[x]) = Len(stack[x])
      /\ Top(x) = stack[x][Len(stack[x])]
  <2>1. Len(stack[x]) \in Nat /\ Len(stack[x]) # 0
    BY TopOf DEF IInv, At
  <2>2. Len(stack'[x]) = Len(stack[x])
    BY <1>1 DEF Ends
  <2> QED BY <2>1, <2>2 DEF Top, Last
<1>3. stack'[x][Len(stack[x])] = stack[x][Len(stack[x])]
  <2>1. Len(stack[x]) \in 1 .. Len(stack'[x])
    BY <1>2
  <2>2. \A k \in 1 .. Len(stack'[x]) : stack'[x][k] = stack[x][k]
    BY DEF Ends
  <2> QED BY <2>1, <2>2
<1> QED BY <1>2, <1>3, EmptySeq, LenProperties DEF At, Top, Last, Ends

(* Releasing nobody, or the newest frame of the emitter.                   *)
LEMMA ReleaseEnds ==
    ASSUME IInv, NEW t \in Threads, NEW b \in Callers, b # t, b # NoThread => At(b, "blocked"),
           stack' = Release(stack, b)
    PROVE  Ends(t, 0, b)
<1>1. CASE b = NoThread
  <2>1. stack' = stack
    BY <1>1 DEF Release
  <2> QED BY <1>1, <2>1, ThreadsAssumption, TopOf DEF IInv, Ends, Types
<1>2. CASE b # NoThread
  <2> DEFINE g == [stack[b][Len(stack[b])] EXCEPT !.at = "emit"]
  <2>1. b \in Threads /\ stack[b] # <<>>
    BY <1>2 DEF Callers, At
  <2>2. Len(stack[b]) \in Depth(b) /\ stack[b][Len(stack[b])] \in FrameType
    BY <2>1, TopOf DEF IInv
  <2>3. g \in FrameType
    BY <2>2 DEF FrameType
  <2>4. stack' = [stack EXCEPT ![b][Len(stack[b])] = g]
    BY <1>2 DEF Release
  <2> HIDE DEF g
  <2>5. Tops(b, g)
    BY <2>1, <2>3, <2>4, TopsTop DEF IInv
  <2> QED BY <1>2, <2>1, <2>5, TopOf DEF IInv, Ends, Tops, Depth, g
<1> QED BY <1>1, <1>2

LEMMA PopReleaseEnds ==
    ASSUME IInv, NEW t \in Threads, NEW b \in Callers, b # t, b # NoThread => At(b, "blocked"),
           stack[t] # <<>>, Top(t).at = "run", stack' = Release(Pop(stack, t), b)
    PROVE  Ends(t, 1, b)
<1> DEFINE r == Front(stack[t])
           s == Pop(stack, t)
<1>1. /\ r \in Seq(FrameType) /\ Len(r) = Len(stack[t]) - 1
      /\ \A k \in 1 .. Len(stack[t]) - 1 : r[k] = stack[t][k]
  BY NoTop DEF IInv, Types
<1> HIDE DEF r
<1>2. s \in [Threads -> Seq(FrameType)] /\ s[t] = r /\ \A u \in Threads \ {t} : s[u] = stack[u]
  BY <1>1 DEF Pop, IInv, Types, r
<1> HIDE DEF s
<1>3. CASE b = NoThread
  <2>1. stack' = s
    BY <1>3 DEF Release, s
  <2> QED BY <1>1, <1>2, <1>3, <2>1, ThreadsAssumption DEF Ends
<1>4. CASE b # NoThread
  <2> DEFINE g == [stack[b][Len(stack[b])] EXCEPT !.at = "emit"]
             new == [stack[b] EXCEPT ![Len(stack[b])] = g]
  <2>1. b \in Threads /\ stack[b] # <<>> /\ s[b] = stack[b]
    BY <1>2, <1>4 DEF Callers, At
  <2>2. Len(stack[b]) \in Depth(b) /\ stack[b][Len(stack[b])] \in FrameType
    BY <2>1, TopOf DEF IInv
  <2>3. g \in FrameType
    BY <2>2 DEF FrameType
  <2>4. stack' = [s EXCEPT ![b] = new]
    BY <1>4, <2>1 DEF Release, s
  <2>5. /\ new \in Seq(FrameType) /\ Len(new) = Len(stack[b])
        /\ \A k \in 1 .. Len(stack[b]) : new[k] = IF k = Len(stack[b]) THEN g ELSE stack[b][k]
    BY <2>1, <2>3, NewTop DEF IInv, Types
  <2> HIDE DEF new
  <2>6. /\ stack' \in [Threads -> Seq(FrameType)] /\ stack'[b] = new /\ stack'[t] = r
        /\ \A u \in Threads \ {b, t} : stack'[u] = stack[u]
    BY <1>2, <2>1, <2>4, <2>5
  <2>7. \A u \in Threads : Len(stack'[u]) = IF u = t THEN Len(stack[t]) - 1 ELSE Len(stack[u])
    BY <1>1, <2>5, <2>6
  <2>8. ASSUME NEW u \in Threads, NEW k \in 1 .. Len(stack'[u])
        PROVE  stack'[u][k] = IF u = b /\ k = Len(stack[b]) THEN g ELSE stack[u][k]
    <3>1. CASE u = b
      BY <2>5, <2>6, <3>1
    <3>2. CASE u = t
      BY <1>1, <2>6, <3>2
    <3>3. CASE u # b /\ u # t
      BY <2>6, <3>3
    <3> QED BY <3>1, <3>2, <3>3
  <2> HIDE DEF g
  <2>9. \A u \in Threads : \A k \in 1 .. Len(stack'[u]) :
           stack'[u][k] = IF u = b /\ k = Len(stack[b])
                          THEN [stack[b][k] EXCEPT !.at = "emit"] ELSE stack[u][k]
    BY <2>8 DEF g
  <2> QED BY <2>1, <2>6, <2>7, <2>9 DEF Ends
<1> QED BY <1>3, <1>4

(* An event that is not that of its own call is dropped.                   *)
LEMMA DropIInv ==
    ASSUME IInv, NEW t \in Threads, NEW e, Handles(t, e), e.conn # e.id, MayEnter(t),
           stack' = Release(stack, e.blocks), UNCHANGED <<conns, done>>
    PROVE  IInv'
<1> DEFINE b == e.blocks
<1>1. b \in Callers /\ (b # NoThread => At(b, "blocked") /\ b # t)
  <2>1. b \in Callers
    BY DEF Handles, EventType
  <2>2. b # NoThread => At(b, "blocked")
    BY <2>1, TakenBlocks DEF Callers
  <2> QED BY <2>1, <2>2 DEF At, MayEnter
<1>2. Ends(t, 0, b)
  BY <1>1, ReleaseEnds, ThreadsAssumption
<1>3. UNCHANGED <<lastId, calls, conns, started, done>> /\ Made' = Made
  BY DEF Handles, Made
<1>4. Types' /\ ConnsInv' /\ FreshInv'
  BY <1>2, <1>3 DEF IInv, Types, ConnsInv, FreshInv, Ends, Handles, Takes
<1>5. \A i \in Made : CallOK(i)' /\ EndInv(i)'
  <2>1. \A i : Making(i) => Making(i)'
    BY <1>2, EndsMaking
  <2> QED BY <1>3, <2>1 DEF IInv, CallOK, EndInv
<1>6. \A i \in Made : SentInv(i)'
  <2>1. \A i \in Made : Unsent(i)' <=> Unsent(i)
    BY <1>2, <1>3, EndsSent
  <2>2. \A i \in Made : Posted(i)' <=> Posted(i)
    BY HandledEvents
  <2> QED BY <2>1, <2>2 DEF IInv, SentInv
<1>7. \A u \in Threads : StackInv(u)'
  BY <1>2, <1>3, EndsStack
<1>8. /\ \A u \in Threads : InboxInv(u)'
      /\ \A i, j \in Made : OrderInv(i, j)'
  BY HandledEvents
<1>9. ASSUME NEW x \in Threads PROVE BlockInv(x)'
  <2>1. \A u \in Threads : \A k \in Depth(u)' :
           FrameBlocks(u, k, x)' => k \in Depth(u) /\ FrameBlocks(u, k, x)
    BY <1>2, EndsFrame DEF Depth, FrameBlocks
  <2>2. CASE b = x
    <3>1. /\ \A u \in Threads : \A p \in Places(u)' : ~ EventBlocks(u, p, x)'
          /\ \A u \in Threads : \A k \in Depth(u) : ~ FrameBlocks(u, k, x)
      BY <2>2, TakenBlocks DEF Places, EventBlocks
    <3> QED BY <2>1, <3>1 DEF BlockInv
  <2>3. CASE b # x
    <3>1. At(x, "blocked") => At(x, "blocked")'
      BY <1>2, <2>3, EndsBlocked DEF MayEnter, At
    <3>2. \A u \in Threads : \A p \in Places(u)' : EventBlocks(u, p, x)' =>
             /\ At(x, "blocked")
             /\ \A v \in Threads : \A q \in Places(v)' : EventBlocks(v, q, x)' => u = v /\ p = q
             /\ \A v \in Threads : \A k \in Depth(v) : ~ FrameBlocks(v, k, x)
      BY TakenBlocks DEF Places, EventBlocks
    <3>3. BlockInv(x)
      BY DEF IInv
    <3> QED BY <2>1, <3>1, <3>2, <3>3 DEF BlockInv
  <2> QED BY <2>2, <2>3
<1> QED BY <1>3, <1>4, <1>5, <1>6, <1>7, <1>8, <1>9 DEF IInv

LEMMA HandleIInv == ASSUME IInv, NEW t \in Threads, Handle(t) PROVE IInv'
<1>1. PICK e : e = Head(inbox[t])
  OBVIOUS
<1>2. Handles(t, e)
  BY <1>1, TakesEvent DEF Handle, Handles, IInv
<1>3. MayEnter(t) /\ (stack[t] # <<>> => Top(t).at = "wait")
  BY DEF Handle, Dispatches, At, MayEnter
<1>4. CASE e.conn = e.id
  <2>1. stack' = Push(t, Frame("run", e.id, <<>>, e.blocks)) /\ UNCHANGED <<conns, done>>
    BY <1>1, <1>4 DEF Handle
  <2>2. Frame("run", e.id, <<>>, e.blocks) \in FrameType
    BY <1>2 DEF Handles, EventType, FrameType, Frame
  <2>3. Pushes(t, Frame("run", e.id, <<>>, e.blocks))
    BY <2>1, <2>2, PushesTop DEF IInv
  <2>4. Runs(t, e)
    BY <1>2, <1>3, <1>4, <2>1, <2>3 DEF Runs
  <2> QED BY <2>4, RunsIInv
<1>5. CASE e.conn # e.id
  <2>1. stack' = Release(stack, e.blocks) /\ UNCHANGED <<conns, done>>
    BY <1>1, <1>5 DEF Handle
  <2> QED BY <1>2, <1>3, <1>5, <2>1, DropIInv
<1> QED BY <1>4, <1>5

LEMMA FinishIInv == ASSUME IInv, NEW t \in Threads, Finish(t) PROVE IInv'
<1> PICK i : i = Top(t).id
  OBVIOUS
<1> PICK b : b = Top(t).blocks
  OBVIOUS
<1>1. stack[t] # <<>> /\ Top(t).at = "run" /\ stack' = Release(Pop(stack, t), b)
  BY DEF Finish, At
<1>2. Len(stack[t]) \in Depth(t) /\ Top(t) = stack[t][Len(stack[t])] /\ Top(t) \in FrameType
  BY <1>1, TopOf DEF IInv
<1>3. i \in Made /\ calls[i].to = t /\ started[i] = 1 /\ ~ done[i]
  BY <1>1, <1>2 DEF IInv, StackInv, FrameInv
<1>4. b \in Callers /\ b # t /\ (b # NoThread => At(b, "blocked"))
  <2>1. b \in Callers
    BY <1>2 DEF FrameType
  <2>2. b \in Threads => At(b, "blocked")
    BY <1>2 DEF IInv, BlockInv, FrameBlocks
  <2> QED BY <1>1, <2>1, <2>2 DEF Callers, At
<1>5. Ends(t, 1, b)
  BY <1>1, <1>4, PopReleaseEnds
<1>6. /\ EventsStay /\ Made' = Made /\ done' = [done EXCEPT ![i] = TRUE]
      /\ conns' = IF calls[i].kind = "Queued" THEN RemoveFirst(conns, i) ELSE conns
  BY DEF Finish, EventsStay, Made
<1>7. /\ conns' \in Seq(Ids) /\ Len(conns') <= Len(conns) /\ Distinct(conns')
      /\ Elements(conns') = IF calls[i].kind = "Queued" THEN Elements(conns) \ {i} ELSE Elements(conns)
  <2>1. conns \in Seq(Ids) /\ Distinct(conns) /\ Len(conns) \in Nat
    BY LenProperties DEF IInv, Types, ConnsInv
  <2>2. CASE calls[i].kind = "Queued"
    BY <1>6, <2>1, <2>2, RemoveFirstElement
  <2>3. CASE calls[i].kind # "Queued"
    BY <1>6, <2>1, <2>3
  <2> QED BY <2>2, <2>3
<1>8. i \in Ids /\ done'[i] /\ \A j \in Ids : j # i => done'[j] = done[j]
  BY <1>3, <1>6, MadeOnce DEF IInv, Types
<1>9. Types' /\ ConnsInv'
  <2>1. Len(conns) \in Nat /\ Len(conns') \in Nat
    BY <1>7, LenProperties DEF IInv, Types
  <2>2. Types'
    BY <1>5, <1>6, <1>7 DEF IInv, Types, Ends, EventsStay
  <2>3. Elements(conns') \subseteq Elements(conns)
    BY <1>7
  <2>4. ConnsInv'
    BY <1>6, <1>7, <2>1, <2>3 DEF IInv, Types, ConnsInv, EventsStay
  <2> QED BY <2>2, <2>4
<1>10. FreshInv'
  BY <1>3, <1>6, <1>8 DEF IInv, Types, FreshInv, EventsStay, Made
<1>11. \A j \in Made : SentInv(j)'
  <2>1. \A j \in Made : Unsent(j)' <=> Unsent(j)
    BY <1>5, <1>6, EndsSent DEF EventsStay
  <2> QED BY <1>6, <2>1, StayInv DEF IInv, SentInv
<1>12. ASSUME NEW j \in Made PROVE EndInv(j)'
  <2>1. Making(j) => Making(j)'
    BY <1>5, EndsMaking
  <2>2. UNCHANGED <<calls, started>> /\ EndInv(j) /\ j \in Ids
    BY <1>6, MadeOnce DEF EventsStay, IInv
  <2>3. CASE j = i
    BY <1>3, <1>7, <1>8, <2>1, <2>2, <2>3 DEF EndInv
  <2>4. CASE j # i
    <3>1. done'[j] = done[j] /\ (j \in Elements(conns') <=> j \in Elements(conns))
      BY <1>7, <1>8, <2>2, <2>4
    <3> QED BY <2>1, <2>2, <3>1 DEF EndInv
  <2> QED BY <2>3, <2>4
<1>13. \A u \in Threads : StackInv(u)'
  <2>1. ASSUME NEW u \in Threads, NEW k \in 1 .. Len(stack'[u]), stack[u][k].at = "run"
        PROVE  stack[u][k].id \in Ids /\ stack[u][k].id # i
    <3>1. k \in Depth(u) /\ (u = t => k # Len(stack[t]))
      BY <1>2, <1>5, EndsFrame DEF Ends, Depth
    <3>2. stack[u][k].id \in Made /\ calls[stack[u][k].id].to = u
      BY <2>1, <3>1 DEF IInv, StackInv, FrameInv
    <3>3. u = t => stack[u][k].id # i
      BY <1>2, <3>1 DEF IInv, StackInv
    <3> QED BY <1>3, <3>2, <3>3, MadeOnce DEF IInv
  <2>2. \A u \in Threads : \A k \in 1 .. Len(stack'[u]) :
           stack[u][k].at = "run" => done'[stack[u][k].id] = done[stack[u][k].id]
    BY <1>8, <2>1
  <2> QED BY <1>5, <1>6, <2>2, EndsStack DEF EventsStay
<1>14. ASSUME NEW x \in Threads PROVE BlockInv(x)'
  <2>1. \A u \in Threads : \A k \in Depth(u)' :
           FrameBlocks(u, k, x)' => k \in Depth(u) /\ FrameBlocks(u, k, x)
    BY <1>5, EndsFrame DEF Depth, FrameBlocks
  <2>2. \A u \in Threads : \A p \in Places(u)' :
           EventBlocks(u, p, x)' => p \in Places(u) /\ EventBlocks(u, p, x)
    BY <1>6 DEF EventsStay, Places, EventBlocks
  <2>3. BlockInv(x)
    BY DEF IInv
  <2>4. CASE b = x
    <3>1. FrameBlocks(t, Len(stack[t]), x)
      BY <1>2, <2>4 DEF FrameBlocks
    <3>2. \A u \in Threads : \A p \in Places(u) : ~ EventBlocks(u, p, x)
      BY <1>2, <2>3, <3>1 DEF BlockInv
    <3>3. \A u \in Threads : \A k \in Depth(u) : FrameBlocks(u, k, x) => u = t /\ k = Len(stack[t])
      BY <1>2, <2>3, <3>1 DEF BlockInv
    <3>4. \A u \in Threads : \A k \in Depth(u)' : ~ (u = t /\ k = Len(stack[t]))
      BY <1>2, <1>5 DEF Ends, Depth
    <3> QED BY <2>1, <2>2, <3>2, <3>3, <3>4 DEF BlockInv
  <2>5. CASE b # x
    <3>1. At(x, "blocked") => At(x, "blocked")'
      BY <1>1, <1>5, <2>5, EndsBlocked DEF At
    <3> QED BY <2>1, <2>2, <2>3, <3>1 DEF BlockInv
  <2> QED BY <2>4, <2>5
<1> QED BY <1>6, <1>9, <1>10, <1>11, <1>12, <1>13, <1>14, StayInv DEF IInv

LEMMA BeginIInv ==
    ASSUME IInv, NEW t \in Threads, NEW u \in Threads, NEW kind \in Kinds, Begin(t, u, kind)
    PROVE  IInv'
<1> DEFINE n == lastId + 1
           g == Frame("connected", n, <<>>, NoThread)
<1>1. /\ MayEnter(t) /\ t # u /\ lastId' = n /\ conns' = Append(conns, n)
      /\ calls' = [calls EXCEPT ![n] = [kind |-> kind, from |-> t, to |-> u]]
      /\ stack' = Push(t, g) /\ UNCHANGED <<inbox, started, done>>
  BY DEF Begin, MayEnter, At
<1>2. /\ lastId \in Nat /\ n \in Ids /\ n \notin Made /\ Made' = Made \cup {n}
      /\ \A i \in Made : i \in Ids /\ i # n /\ i < n
  <2>1. lastId \in 0 .. MaxCalls /\ lastId < MaxCalls /\ lastId' = lastId + 1
    BY <1>1 DEF Begin, IInv, Types
  <2>2. lastId \in Nat /\ n \in Ids /\ n \notin Made
    BY <2>1, MaxCallsAssumption DEF Made, Ids
  <2>3. Made' = Made \cup {n}
    BY <2>1, <2>2 DEF Made
  <2>4. \A i \in Made : i \in Ids /\ i # n /\ i < n
    BY <2>1, <2>2, MaxCallsAssumption DEF Made, Ids
  <2> QED BY <2>2, <2>3, <2>4
<1>3. g \in FrameType /\ g.at = "connected" /\ g.id = n /\ g.todo = <<>> /\ g.blocks = NoThread
  BY <1>2 DEF FrameType, Frame, Callers
<1> HIDE DEF g
<1>4. Pushes(t, g)
  BY <1>1, <1>3, PushesTop DEF IInv
<1>5. /\ calls'[n] = [kind |-> kind, from |-> t, to |-> u]
      /\ \A i \in Made : calls'[i] = calls[i]
      /\ calls' \in [Ids -> [kind : {"none"} \cup Kinds, from : Callers, to : Callers]]
  BY <1>1, <1>2 DEF IInv, Types, Callers
<1>6. started[n] = 0 /\ ~ done[n]
  BY <1>2 DEF IInv, FreshInv
<1>7. /\ conns' \in Seq(Ids) /\ Distinct(conns') /\ Elements(conns') = Elements(conns) \cup {n}
      /\ Len(conns') = Len(conns) + 1 /\ Len(conns) \in Nat
  BY <1>1, <1>2, AppendElement, AppendEntries, LenProperties DEF IInv, Types, ConnsInv
<1>8. Types' /\ ConnsInv' /\ FreshInv'
  <2>1. Types'
    <3>1. lastId' \in 0 .. MaxCalls
      BY <1>1, <1>2, MaxCallsAssumption DEF Ids
    <3> QED BY <1>1, <1>4, <1>5, <1>7, <3>1 DEF IInv, Types, Pushes
  <2>2. ConnsInv'
    BY <1>1, <1>2, <1>7 DEF IInv, ConnsInv
  <2>3. FreshInv'
    BY <1>1, <1>2, MaxCallsAssumption DEF IInv, FreshInv, Ids
  <2> QED BY <2>1, <2>2, <2>3
<1>9. \A v \in Threads : \A p \in Places(v) : inbox[v][p].conn # n /\ inbox[v][p].id # n
  BY <1>2 DEF IInv, InboxInv
<1>10. ASSUME NEW i \in Made PROVE CallOK(i)' /\ SentInv(i)' /\ EndInv(i)'
  <2>1. CallOK(i)'
    BY <1>5 DEF IInv, CallOK
  <2>2. Unsent(i)' <=> Unsent(i)
    BY <1>1, <1>2, <1>3, <1>4, <1>5, PushesSent, EnterNoUnsent
  <2>3. Posted(i)' <=> Posted(i)
    BY <1>1, <1>5 DEF Posted, Places, Own
  <2>4. Making(i) => Making(i)'
    BY <1>4, PushesMaking
  <2>5. i \in Elements(conns') <=> i \in Elements(conns)
    BY <1>2, <1>7
  <2>6. EndInv(i)'
    BY <1>1, <1>5, <2>4, <2>5 DEF IInv, EndInv
  <2> QED BY <2>1, <2>2, <2>3, <2>6 DEF IInv, SentInv
<1>11. ASSUME NEW i, i = n PROVE CallOK(i)' /\ SentInv(i)' /\ EndInv(i)'
  <2>1. CallOK(i)'
    BY <1>1, <1>5, <1>11 DEF CallOK
  <2>2. Unsent(i)'
    BY <1>3, <1>4, <1>5, <1>11, PushesOnTop DEF Unsent, UnsentAt
  <2>3. ~ Posted(i)'
    BY <1>1, <1>5, <1>6, <1>9, <1>11 DEF Posted, Places, Own
  <2>4. EndInv(i)'
    <3>1. Making(i)'
      <4>1. /\ Len(stack'[t]) = Len(stack[t]) + 1 /\ Len(stack[t]) \in Nat
            /\ stack'[t][Len(stack[t]) + 1] = g
        BY <1>4, TopOf DEF Pushes, IInv
      <4>2. Len(stack[t]) + 1 \in 1 .. Len(stack'[t])
        BY <4>1
      <4> QED BY <1>3, <1>4, <1>11, <4>1, <4>2, MakingFrameNext DEF Pushes
    <3> QED BY <1>1, <1>6, <1>7, <1>11, <3>1 DEF EndInv
  <2> QED BY <2>1, <2>2, <2>3, <2>4 DEF SentInv
<1>12. ASSUME NEW v \in Threads PROVE StackInv(v)'
  <2>1. \A k \in 1 .. Len(stack'[v]) :
           \/ k \in Depth(v) /\ stack'[v][k] = stack[v][k]
           \/ v = t /\ k = Len(stack'[v]) /\ stack'[v][k] = g
    BY <1>4, PushesOnTop
  <2>2. StackInv(v)
    BY DEF IInv
  <2>3. ASSUME NEW k \in 1 .. Len(stack'[v]) PROVE FrameInv(v, k)'
    <3>1. CASE v = t /\ k = Len(stack'[v]) /\ stack'[v][k] = g
      <4>1. Distinct(g.todo) /\ Elements(g.todo) = {}
        BY <1>3 DEF Distinct, Elements
      <4> QED BY <1>2, <1>3, <1>5, <3>1, <4>1 DEF FrameInv
    <3>2. CASE k \in Depth(v) /\ stack'[v][k] = stack[v][k]
      <4>1. FrameInv(v, k)
        BY <2>2, <3>2 DEF StackInv
      <4>2. k # Len(stack'[v]) => stack[v][k].at \in {"wait", "run"}
        <5>1. CASE k # Len(stack[v])
          BY <4>1, <5>1 DEF FrameInv
        <5>2. CASE k = Len(stack[v]) /\ v = t
          <6>1. Top(t) = stack[t][k] /\ stack[t] # <<>>
            BY <3>2, <5>2, TopOf, EmptySeq DEF IInv, Depth
          <6> QED BY <1>1, <5>2, <6>1 DEF MayEnter
        <5>3. CASE k = Len(stack[v]) /\ v # t
          BY <1>4, <5>3 DEF Pushes
        <5> QED BY <5>1, <5>2, <5>3
      <4> QED BY <1>1, <1>2, <1>5, <3>2, <4>1, <4>2 DEF FrameInv
    <3> QED BY <2>1, <3>1, <3>2
  <2>4. \A k \in Depth(v) : stack[v][k].id # n
    BY <1>2, <2>2 DEF StackInv, FrameInv
  <2>5. \A k, l \in Depth(v) : stack[v][k].id = stack[v][l].id => k = l
    BY <2>2 DEF StackInv
  <2>6. \A k, l \in 1 .. Len(stack'[v]) : stack'[v][k].id = stack'[v][l].id => k = l
    BY <1>3, <2>1, <2>4, <2>5
  <2> QED BY <2>3, <2>6 DEF StackInv, Depth
<1>13. ASSUME NEW v \in Threads PROVE InboxInv(v)'
  <2>1. InboxInv(v)
    BY DEF IInv
  <2>2. \A p \in Places(v) : ~ Own(inbox[v][p], n)
    BY <1>9 DEF Own
  <2> QED BY <1>1, <1>2, <1>5, <2>1, <2>2 DEF InboxInv, Places, Own
<1>14. ASSUME NEW x \in Threads PROVE BlockInv(x)'
  <2>1. NoNewBlock(x)
    <3>1. At(x, "blocked") => At(x, "blocked")'
      BY <1>1, <1>4, PushesBlocked
    <3>2. \A v \in Threads : \A k \in 1 .. Len(stack'[v]) :
             stack'[v][k].blocks = x => k \in Depth(v) /\ FrameBlocks(v, k, x)
      BY <1>3, <1>4, PushesOnTop, ThreadsAssumption DEF FrameBlocks
    <3> QED BY <1>1, <3>1, <3>2 DEF NoNewBlock, Places, EventBlocks
  <2> QED BY <2>1, NoNewBlocks DEF IInv
<1>15. ASSUME NEW i \in Made', NEW j \in Made' PROVE OrderInv(i, j)'
  <2>1. CASE j = n
    BY <1>1, <1>5, <1>6, <1>9, <2>1 DEF OrderInv, Places, Own
  <2>2. CASE j # n
    <3>1. j \in Made /\ calls'[j] = calls[j]
      BY <1>2, <1>5, <2>2, MaxCallsAssumption DEF Ids
    <3> SUFFICES ASSUME i < j, Same(i, j)'
                 PROVE  /\ started[j] = 1 => started[i] = 1
                        /\ \A q \in Places(calls[j].to) : Own(inbox[calls[j].to][q], j) =>
                              \/ started[i] = 1
                              \/ \E p \in 1 .. q - 1 : Own(inbox[calls[j].to][p], i)
      BY <1>1, <3>1 DEF OrderInv, Places, Own
    <3>2. i \in Made /\ j \in Made
      BY <1>2, <2>2, MaxCallsAssumption DEF Ids
    <3>3. OrderInv(i, j) /\ Same(i, j)
      BY <1>5, <3>2 DEF IInv, Same
    <3> QED BY <3>3 DEF OrderInv
  <2> QED BY <2>1, <2>2
<1> QED BY <1>2, <1>8, <1>10, <1>11, <1>12, <1>13, <1>14, <1>15 DEF IInv

-----------------------------------------------------------------------------
(* The steps together, and what follows.                                   *)

LEMMA InitIInv == Init => IInv
<1> SUFFICES ASSUME Init PROVE IInv
  OBVIOUS
<1>1. lastId = 0 /\ Made = {}
  BY DEF Init, Made
<1>2. Types
  <2>1. <<>> \in Seq(Ids) /\ <<>> \in Seq(FrameType) /\ <<>> \in Seq(EventType)
    OBVIOUS
  <2> QED BY <2>1, MaxCallsAssumption DEF Init, Types, NoCall, Callers
<1>3. ConnsInv
  BY DEF Init, ConnsInv, Distinct, Elements
<1>4. FreshInv
  BY DEF Init, FreshInv
<1>5. \A t \in Threads : Depth(t) = {} /\ Places(t) = {}
  BY DEF Init, Depth, Places
<1>6. ASSUME NEW t \in Threads PROVE StackInv(t) /\ InboxInv(t) /\ BlockInv(t)
  BY <1>1, <1>5 DEF StackInv, InboxInv, BlockInv
<1> QED BY <1>1, <1>2, <1>3, <1>4, <1>6 DEF IInv

LEMMA NextIInv == IInv /\ [Next]_vars => IInv'
<1> SUFFICES ASSUME IInv, [Next]_vars PROVE IInv'
  OBVIOUS
<1>1. CASE \E t, u \in Threads, kind \in Kinds : Begin(t, u, kind)
  BY <1>1, BeginIInv
<1>2. ASSUME NEW t \in Threads, Step(t) PROVE IInv'
  <2>1. CASE Emitted(t)
    <3>1. CASE calls[Top(t).id].kind = "Queued"
      BY <2>1, <3>1, EmittedReturnsIInv
    <3>2. CASE calls[Top(t).id].kind # "Queued"
      BY <2>1, <3>2, EmittedWaitIInv
    <3> QED BY <3>1, <3>2
  <2>2. CASE Emit(t) \/ Visit(t) \/ Return(t) \/ Handle(t) \/ Finish(t)
    BY <2>2, EmitIInv, VisitIInv, ReturnIInv, HandleIInv, FinishIInv
  <2> QED BY <1>2, <2>1, <2>2 DEF Step
<1>3. CASE UNCHANGED vars
  <2>1. (Types /\ ConnsInv /\ FreshInv)'
    BY <1>3 DEF vars, IInv, Types, ConnsInv, FreshInv, Made
  <2>2. \A i : (CallOK(i) /\ SentInv(i) /\ EndInv(i))' <=> CallOK(i) /\ SentInv(i) /\ EndInv(i)
    BY <1>3 DEF vars, CallOK, SentInv, EndInv, Posted, Places, Own, Unsent, UnsentAt, Top,
       Making, Frames, Depth
  <2>3. \A t : (StackInv(t) /\ InboxInv(t))' <=> StackInv(t) /\ InboxInv(t)
    BY <1>3 DEF vars, StackInv, InboxInv, FrameInv, Depth, Places, Own, Made
  <2>4. \A t : BlockInv(t)' <=> BlockInv(t)
    BY <1>3 DEF vars, BlockInv, EventBlocks, FrameBlocks, At, Top, Depth, Places
  <2>5. \A i, j : OrderInv(i, j)' <=> OrderInv(i, j)
    BY <1>3 DEF vars, OrderInv, Same, Places, Own
  <2>6. Made' = Made
    BY <1>3 DEF vars, Made
  <2> QED BY <2>1, <2>2, <2>3, <2>4, <2>5, <2>6 DEF IInv
<1> QED BY <1>1, <1>2, <1>3 DEF Next

THEOREM SpecIInv == Spec => []IInv
  BY InitIInv, NextIInv, PTL DEF Spec

(* However many calls share the invoker, whose every signal reaches the    *)
(* slots of all of them, a method runs on the thread of its context, once, *)
(* and for its own call (the id comparison in ProofObject::callPrivate);   *)
(* and every variable keeps its type.                                      *)
THEOREM MethodsRunOnTheirThread == Spec => []RunsOnItsThread
<1>1. IInv => RunsOnItsThread
  <2> SUFFICES ASSUME IInv PROVE RunsOnItsThread
    OBVIOUS
  <2>1. TypeOK
    <3>1. Len(conns) <= MaxCalls
      BY MaxCallsAssumption, LenProperties DEF IInv, Types, ConnsInv
    <3> QED BY <3>1 DEF IInv, Types, TypeOK, FrameType, EventType, Callers
  <2>2. ASSUME NEW t \in Threads, NEW f \in Frames(t), f.at = "run"
        PROVE  calls[f.id].to = t /\ started[f.id] = 1 /\ ~ done[f.id]
    <3>1. Len(stack[t]) \in Nat
      BY TopOf DEF IInv
    <3>2. PICK k \in Depth(t) : f = stack[t][k]
      BY <3>1 DEF Frames, ToSet, Depth
    <3> QED BY <2>2, <3>2 DEF IInv, StackInv, FrameInv
  <2> QED BY <2>1, <2>2 DEF RunsOnItsThread
<1> QED BY <1>1, SpecIInv, PTL

(* A blocking call returns only when its method has run to the end: its    *)
(* frame leaves the stack in no other way (the loop on done in             *)
(* ProofObject::callPrivate).                                              *)
THEOREM BlockingCallsReturnDone == Spec => []BlockingCallsAreDone
<1>1. IInv => BlockingCallsAreDone
  BY DEF IInv, EndInv, BlockingCallsAreDone, Made
<1> QED BY <1>1, SpecIInv, PTL

(* The methods of the calls one thread makes to another start in the order *)
(* of the calls, whatever runs nested in the loops of either thread.       *)
THEOREM CallsStartInOrder == Spec => []CallsKeepTheirOrder
<1>1. IInv => CallsKeepTheirOrder
  <2> SUFFICES ASSUME IInv, NEW i \in Ids, NEW j \in Ids, i < j, started[j] = 1, Same(i, j)
               PROVE  started[i] = 1
    BY DEF CallsKeepTheirOrder, Same
  <2>1. lastId \in Nat /\ ~ (j > lastId)
    BY MaxCallsAssumption DEF IInv, Types, FreshInv
  <2>2. i \in Made /\ j \in Made
    BY <2>1, MaxCallsAssumption DEF Made, Ids
  <2> QED BY <2>2 DEF IInv, OrderInv
<1> QED BY <1>1, SpecIInv, PTL

(* The invoker, which lives as long as the program, keeps the connection   *)
(* of no call that is over: the slot of a call nobody waits for takes it   *)
(* down, and the caller that of one it waited for.                         *)
THEOREM ConnectionsAlwaysEnd == Spec => []ConnectionsEnd
<1>1. IInv => ConnectionsEnd
  <2> SUFFICES ASSUME IInv, NEW i \in 1 .. lastId, done[i], ~ Making(i)
               PROVE  i \notin ToSet(conns)
    BY DEF ConnectionsEnd
  <2>1. EndInv(i)
    BY DEF IInv, Made
  <2> QED BY <2>1, ConnectionSet DEF IInv, Types, EndInv
<1> QED BY <1>1, SpecIInv, PTL

=============================================================================
