--------------------------- MODULE RestApiProofs ---------------------------
(***************************************************************************)
(* For any number of calls and any limit: a call is answered with a        *)
(* success only when its reply ended clean, it is remembered exactly while *)
(* it is open, its reply is handed to deleteLater, and a deleted reply is  *)
(* only met, its answer decided, by a callback that connects on or a call  *)
(* canceled too late.                                                      *)
(***************************************************************************)
EXTENDS RestApi, FiniteSetTheorems, SequenceTheorems, TLAPS

(* What operations on a queue do to its entries.                           *)
Elements(s) == {s[i] : i \in 1 .. Len(s)}

Distinct(s) == \A i, j \in 1 .. Len(s) : s[i] = s[j] => i = j

(* Appending keeps the entries and adds one.                               *)
LEMMA AppendEntries ==
    ASSUME NEW S, NEW s \in Seq(S), NEW e \in S
    PROVE  /\ Append(s, e) \in Seq(S)
           /\ Len(Append(s, e)) = Len(s) + 1
           /\ \A j \in 1 .. Len(s) : Append(s, e)[j] = s[j]
           /\ Append(s, e)[Len(s) + 1] = e
  BY AppendProperties

(* Removing entry i closes the gap it leaves.                              *)
LEMMA RemoveEntries ==
    ASSUME NEW S, NEW s \in Seq(S), NEW i \in 1 .. Len(s)
    PROVE  /\ RemoveAt(s, i) \in Seq(S)
           /\ Len(RemoveAt(s, i)) = Len(s) - 1
           /\ \A j \in 1 .. Len(s) - 1 :
                 RemoveAt(s, i)[j] = IF j < i THEN s[j] ELSE s[j + 1]
<1> DEFINE a == SubSeq(s, 1, i - 1)
           b == SubSeq(s, i + 1, Len(s))
<1>1. Len(s) \in Nat /\ \A j \in 1 .. Len(s) : s[j] \in S
  BY ElementOfSeq, LenProperties
<1>2. /\ a \in Seq(S)
      /\ Len(a) = i - 1
      /\ \A j \in 1 .. i - 1 : a[j] = s[j]
  <2>1. \A j \in 1 .. i - 1 : s[j] \in S
    BY <1>1
  <2>2. /\ a \in Seq(S)
        /\ Len(a) = IF 1 <= i - 1 THEN (i - 1) - 1 + 1 ELSE 0
        /\ \A j \in 1 .. (i - 1) - 1 + 1 : a[j] = s[1 + j - 1]
    BY <1>1, <2>1, SubSeqProperties
  <2> HIDE DEF a
  <2> QED BY <1>1, <2>2
<1>3. /\ b \in Seq(S)
      /\ Len(b) = Len(s) - i
      /\ \A j \in 1 .. Len(s) - i : b[j] = s[i + j]
  <2>1. \A j \in i + 1 .. Len(s) : s[j] \in S
    BY <1>1
  <2>2. i + 1 \in Int /\ Len(s) \in Int
    BY <1>1
  <2>3. /\ b \in Seq(S)
        /\ Len(b) = IF i + 1 <= Len(s) THEN Len(s) - (i + 1) + 1 ELSE 0
        /\ \A j \in 1 .. Len(s) - (i + 1) + 1 : b[j] = s[(i + 1) + j - 1]
    BY <2>1, <2>2, SubSeqProperties
  <2> HIDE DEF b
  <2> QED BY <1>1, <2>3
<1>4. RemoveAt(s, i) = a \o b
  BY DEF RemoveAt
<1> HIDE DEF a, b
<1>5. /\ a \o b \in Seq(S)
      /\ Len(a \o b) = Len(a) + Len(b)
      /\ \A j \in 1 .. Len(a) + Len(b) :
            (a \o b)[j] = IF j <= Len(a) THEN a[j] ELSE b[j - Len(a)]
  BY <1>2, <1>3, ConcatProperties
<1>6. ASSUME NEW j \in 1 .. Len(s) - 1
      PROVE  (a \o b)[j] = IF j < i THEN s[j] ELSE s[j + 1]
  <2>1. (a \o b)[j] = IF j <= i - 1 THEN a[j] ELSE b[j - (i - 1)]
    BY <1>1, <1>2, <1>3, <1>5
  <2>2. CASE j <= i - 1
    BY <1>2, <2>1, <2>2
  <2>3. CASE j > i - 1
    <3>1. b[j - (i - 1)] = s[i + (j - (i - 1))]
      BY <1>1, <1>3, <2>3
    <3>2. i + (j - (i - 1)) = j + 1
      BY <1>1
    <3>3. ~ (j <= i - 1) /\ ~ (j < i)
      BY <1>1, <2>3
    <3>4. (a \o b)[j] = b[j - (i - 1)]
      BY <2>1, <3>3, Zenon
    <3>5. (a \o b)[j] = s[j + 1]
      BY <3>1, <3>2, <3>4
    <3> QED BY <3>3, <3>5
  <2>4. j <= i - 1 \/ j > i - 1
    BY <1>1
  <2> QED BY <2>2, <2>3, <2>4, Zenon
<1> QED BY <1>1, <1>2, <1>3, <1>4, <1>5, <1>6

(* In a queue of different entries, a new one is still different ...       *)
LEMMA AppendElement ==
    ASSUME NEW S, NEW s \in Seq(S), NEW e \in S, Distinct(s), e \notin Elements(s)
    PROVE  /\ Append(s, e) \in Seq(S)
           /\ Distinct(Append(s, e))
           /\ Elements(Append(s, e)) = Elements(s) \cup {e}
<1> DEFINE t == Append(s, e)
<1>1. /\ t \in Seq(S)
      /\ Len(t) = Len(s) + 1
      /\ \A j \in 1 .. Len(s) : t[j] = s[j]
      /\ t[Len(s) + 1] = e
  BY AppendEntries
<1>2. Len(s) \in Nat
  BY LenProperties
<1> HIDE DEF t
<1>3. \A j \in 1 .. Len(t) : j \in 1 .. Len(s) \/ j = Len(s) + 1
  BY <1>1, <1>2
<1>4. \A j \in 1 .. Len(s) : j \in 1 .. Len(t)
  BY <1>1, <1>2
<1>5. Len(s) + 1 \in 1 .. Len(t)
  BY <1>1, <1>2
<1>6. Elements(t) = Elements(s) \cup {e}
  BY <1>1, <1>3, <1>4, <1>5 DEF Elements
<1>7. Distinct(t)
  BY <1>1, <1>3 DEF Distinct, Elements
<1> QED BY <1>1, <1>6, <1>7 DEF t

(* ... and one that is removed is gone.                                    *)
LEMMA RemoveElement ==
    ASSUME NEW S, NEW s \in Seq(S), NEW i \in 1 .. Len(s), Distinct(s)
    PROVE  /\ RemoveAt(s, i) \in Seq(S)
           /\ Distinct(RemoveAt(s, i))
           /\ Elements(RemoveAt(s, i)) = Elements(s) \ {s[i]}
<1> DEFINE t == RemoveAt(s, i)
           old(j) == IF j < i THEN j ELSE j + 1
<1>1. /\ t \in Seq(S)
      /\ Len(t) = Len(s) - 1
      /\ \A j \in 1 .. Len(s) - 1 : t[j] = IF j < i THEN s[j] ELSE s[j + 1]
  BY RemoveEntries
<1>2. Len(s) \in Nat
  BY LenProperties
<1> HIDE DEF t
<1>3. \A j \in 1 .. Len(t) : old(j) \in 1 .. Len(s) /\ old(j) # i /\ t[j] = s[old(j)]
  BY <1>1, <1>2
<1>4. \A j, k \in 1 .. Len(t) : old(j) = old(k) => j = k
  BY <1>1, <1>2
<1>5. \A j \in 1 .. Len(s) : j # i => \E k \in 1 .. Len(t) : j = old(k)
  <2>1. ASSUME NEW j \in 1 .. Len(s), j # i
        PROVE  \E k \in 1 .. Len(t) : j = old(k)
    <3>1. CASE j < i
      <4>1. j \in 1 .. Len(t) /\ j = old(j)
        BY <1>1, <1>2, <3>1
      <4> QED BY <4>1
    <3>2. CASE j > i
      <4>1. j - 1 \in 1 .. Len(t) /\ j = old(j - 1)
        BY <1>1, <1>2, <3>2
      <4> QED BY <4>1
    <3> QED BY <2>1, <3>1, <3>2
  <2> QED BY <2>1
<1> HIDE DEF old
<1>6. Distinct(t)
  BY <1>3, <1>4 DEF Distinct
<1>7. Elements(t) = Elements(s) \ {s[i]}
  <2>1. \A j \in 1 .. Len(t) : t[j] \in Elements(s) \ {s[i]}
    BY <1>3 DEF Distinct, Elements
  <2>2. ASSUME NEW j \in 1 .. Len(s), s[j] # s[i] PROVE s[j] \in Elements(t)
    <3>1. PICK k \in 1 .. Len(t) : j = old(k)
      BY <1>5, <2>2
    <3>2. t[k] = s[j]
      BY <1>3, <3>1
    <3> QED BY <3>2 DEF Elements
  <2> QED BY <2>1, <2>2 DEF Elements
<1> QED BY <1>1, <1>6, <1>7 DEF t


Signal == {"finished", "error", "sslErrors"}

-----------------------------------------------------------------------------
(* The inductive invariant.                                                *)

Waits(c) == c \in Elements(waiting)

NoFinished(s) == \A i \in 1 .. Len(s) : s[i] # "finished"

FinishedLast(s) == \A i \in 1 .. Len(s) : s[i] = "finished" => i = Len(s)

(* A call waits at most once, and only before it is dispatched; the thunk  *)
(* that dispatches it is the one that sends it.                            *)
DispatchInv(c) ==
    /\ call[c] = "idle" => ~ Waits(c) /\ dispatch.call # c
    /\ call[c] = "idle" \/ Waits(c) => reply[c] = "none"
    /\ Waits(c) => dispatch.call # c
    /\ dispatch.call = c => (dispatch.at = "isFilled" <=> reply[c] = "none")

(* Until its callback connects it, a reply has no handler and is not       *)
(* deleted; the callback runs on a thread, and only for a filled future.   *)
CallbackInv(c) ==
    /\ call[c] \in {"idle", "requested"} => cb[c] = "none"
    /\ cb[c] \notin {"none", "attached"} => future[c] = "filled"
    /\ future[c] = "filled" => reply[c] # "none"
    /\ CbRuns(c) => cbOn[c] # "none"
    /\ cb[c] \in {"none", "attached", "entered", "guard", "finished?", "connect1"}
       => conns[c] = {} /\ deletion[c] = "none"

(* What can be queued: nothing without a connection, one sslErrors while   *)
(* the reply runs, one error more when it failed, and finished at the end. *)
InboxInv(c) ==
    /\ conns[c] = {} => inbox[c] = <<>>
    /\ reply[c] = "running" /\ c \in holding => inbox[c] = <<>>
    /\ reply[c] = "running" => Len(inbox[c]) <= 1
    /\ reply[c] = "failed" => Len(inbox[c]) <= 2
    /\ reply[c] # "finished" => NoFinished(inbox[c])
    /\ FinishedLast(inbox[c])

(* Who may still fill the promise, and what became of the reply.           *)
AnswerInv(c) ==
    /\ kind[c] = "clean" => reply[c] = "finished"
    /\ c \in task \/ promise[c] = "ok" => kind[c] = "clean"
    /\ c \in task \/ promise[c] \in {"ok", "failed"} => deletion[c] # "none"
    /\ cb[c] = "done" /\ conns[c] = {} => deletion[c] # "none"
    /\ promise[c] = "pending" /\ deletion[c] # "none" => c \in task
    /\ promise[c] = "pending" /\ c \in task => inbox[c] = <<>>
    /\ deletion[c] = "deleted" /\ CbRuns(c) => cbOn[c] = "caller"
    /\ c \in remembered <=> call[c] = "returned" /\ promise[c] = "pending"

CallInv(c) == DispatchInv(c) /\ CallbackInv(c) /\ InboxInv(c) /\ AnswerInv(c)

(* The entries of the scheduler's queue, and the thunk's call.             *)
QueueInv ==
    /\ Distinct(waiting)
    /\ dispatch.at = "idle" <=> dispatch.call = NoCall

IInv == TypeOK /\ QueueInv /\ \A c \in Calls : CallInv(c)

-----------------------------------------------------------------------------
(* What queueing and handling signals does to an inbox.                    *)

(* A handler is taken off the inbox; after finished there is no other.     *)
LEMMA TakeSignal ==
    ASSUME NEW s \in Seq(Signal), s # <<>>, FinishedLast(s)
    PROVE  /\ Head(s) \in Signal
           /\ Tail(s) \in Seq(Signal)
           /\ Len(Tail(s)) = Len(s) - 1
           /\ FinishedLast(Tail(s))
           /\ NoFinished(s) => NoFinished(Tail(s))
           /\ Head(s) = "finished" => Tail(s) = <<>>
<1> DEFINE t == Tail(s)
<1>1. /\ Head(s) \in Signal
      /\ t \in Seq(Signal)
      /\ Len(t) = Len(s) - 1
      /\ \A j \in 1 .. Len(t) : t[j] = s[j + 1]
  BY HeadTailProperties
<1>2. Len(s) \in Nat /\ Len(s) > 0 /\ Head(s) = s[1]
  BY LenProperties, EmptySeq
<1>3. Len(t) = 0 => t = <<>>
  BY <1>1, EmptySeq
<1> HIDE DEF t
<1>4. \A j \in 1 .. Len(t) : j + 1 \in 1 .. Len(s)
  BY <1>1, <1>2
<1>5. FinishedLast(t)
  BY <1>1, <1>2, <1>4 DEF FinishedLast
<1>6. NoFinished(s) => NoFinished(t)
  BY <1>1, <1>4 DEF NoFinished
<1>7. Head(s) = "finished" => t = <<>>
  <2>1. 1 \in 1 .. Len(s) /\ (1 = Len(s) => Len(t) = 0)
    BY <1>1, <1>2
  <2> QED BY <1>2, <1>3, <2>1 DEF FinishedLast
<1> QED BY <1>1, <1>5, <1>6, <1>7 DEF t

(* Signals are queued behind handlers that do not include finished.        *)
LEMMA QueueSignals ==
    ASSUME NEW s \in Seq(Signal), NEW q \in Seq(Signal), NoFinished(s), FinishedLast(q)
    PROVE  /\ s \o q \in Seq(Signal)
           /\ Len(s \o q) = Len(s) + Len(q)
           /\ FinishedLast(s \o q)
           /\ NoFinished(q) => NoFinished(s \o q)
           /\ s = <<>> /\ q = <<>> => s \o q = <<>>
<1> DEFINE t == s \o q
<1>1. /\ t \in Seq(Signal)
      /\ Len(t) = Len(s) + Len(q)
      /\ \A j \in 1 .. Len(s) + Len(q) : t[j] = IF j <= Len(s) THEN s[j] ELSE q[j - Len(s)]
  BY ConcatProperties
<1>2. Len(s) \in Nat /\ Len(q) \in Nat
  BY LenProperties
<1>3. s = <<>> /\ q = <<>> => t = <<>>
  BY <1>1, EmptySeq
<1> HIDE DEF t
<1>4. \A j \in 1 .. Len(t) : \/ j \in 1 .. Len(s) /\ t[j] = s[j]
                             \/ j - Len(s) \in 1 .. Len(q) /\ t[j] = q[j - Len(s)]
  BY <1>1, <1>2
<1>5. FinishedLast(t)
  <2> SUFFICES ASSUME NEW j \in 1 .. Len(t), t[j] = "finished"
               PROVE  j = Len(t)
    BY DEF FinishedLast
  <2>1. j - Len(s) \in 1 .. Len(q) /\ q[j - Len(s)] = "finished"
    BY <1>4 DEF NoFinished
  <2>2. j - Len(s) = Len(q)
    BY <2>1 DEF FinishedLast
  <2> QED BY <1>1, <1>2, <2>2
<1>6. NoFinished(q) => NoFinished(t)
  <2> SUFFICES ASSUME NoFinished(q), NEW j \in 1 .. Len(t)
               PROVE  t[j] # "finished"
    BY DEF NoFinished
  <2>1. CASE j \in 1 .. Len(s) /\ t[j] = s[j]
    BY <2>1 DEF NoFinished
  <2>2. CASE j - Len(s) \in 1 .. Len(q) /\ t[j] = q[j - Len(s)]
    BY <2>2 DEF NoFinished
  <2> QED BY <1>4, <2>1, <2>2
<1> QED BY <1>1, <1>3, <1>5, <1>6 DEF t

(* What a signal that is emitted queues.                                   *)
LEMMA QueuedSignal ==
    ASSUME NEW c, NEW signal \in Signal
    PROVE  /\ Queued(c, signal) \in Seq(Signal)
           /\ Len(Queued(c, signal)) \in Nat
           /\ Len(Queued(c, signal)) <= 1
           /\ conns[c] = {} => Queued(c, signal) = <<>>
           /\ FinishedLast(Queued(c, signal))
           /\ signal # "finished" => NoFinished(Queued(c, signal))
<1>1. <<>> \in Seq(Signal) /\ Len(<<>>) = 0
  BY EmptySeq
<1>2. <<signal>> \in Seq(Signal) /\ Len(<<signal>>) = 1 /\ <<signal>>[1] = signal
  OBVIOUS
<1>3. CASE signal \in conns[c]
  BY <1>2, <1>3 DEF Queued, FinishedLast, NoFinished
<1>4. CASE signal \notin conns[c]
  BY <1>1, <1>4 DEF Queued, FinishedLast, NoFinished
<1> QED BY <1>3, <1>4

(* What an error or an sslErrors with another signal behind it queues.     *)
LEMMA QueuedSignals ==
    ASSUME NEW c, NEW s \in Signal, NEW t \in Signal, s # "finished"
    PROVE  /\ Queued(c, s) \o Queued(c, t) \in Seq(Signal)
           /\ Len(Queued(c, s) \o Queued(c, t)) \in Nat
           /\ Len(Queued(c, s) \o Queued(c, t)) <= 2
           /\ conns[c] = {} => Queued(c, s) \o Queued(c, t) = <<>>
           /\ FinishedLast(Queued(c, s) \o Queued(c, t))
           /\ t # "finished" => NoFinished(Queued(c, s) \o Queued(c, t))
<1> DEFINE a == Queued(c, s)
           b == Queued(c, t)
<1>1. /\ a \in Seq(Signal) /\ Len(a) \in Nat /\ Len(a) <= 1
      /\ conns[c] = {} => a = <<>>
      /\ NoFinished(a)
  BY QueuedSignal
<1>2. /\ b \in Seq(Signal) /\ Len(b) \in Nat /\ Len(b) <= 1
      /\ conns[c] = {} => b = <<>>
      /\ FinishedLast(b)
      /\ t # "finished" => NoFinished(b)
  BY QueuedSignal
<1> HIDE DEF a, b
<1>3. /\ a \o b \in Seq(Signal)
      /\ Len(a \o b) = Len(a) + Len(b)
      /\ FinishedLast(a \o b)
      /\ NoFinished(b) => NoFinished(a \o b)
      /\ a = <<>> /\ b = <<>> => a \o b = <<>>
  BY <1>1, <1>2, QueueSignals
<1>4. /\ a \o b \in Seq(Signal)
      /\ Len(a \o b) \in Nat
      /\ Len(a \o b) <= 2
      /\ conns[c] = {} => a \o b = <<>>
      /\ FinishedLast(a \o b)
      /\ t # "finished" => NoFinished(a \o b)
  BY <1>1, <1>2, <1>3
<1> QED BY <1>4 DEF a, b

-----------------------------------------------------------------------------
(* What a step does to the calls it is not about, and to a reply.          *)

(* Nothing CallInv reads of c has changed.                                 *)
Untouched(c) ==
    /\ <<call[c], future[c], promise[c]>>' = <<call[c], future[c], promise[c]>>
    /\ <<cb[c], cbOn[c], conns[c]>>' = <<cb[c], cbOn[c], conns[c]>>
    /\ <<reply[c], kind[c], inbox[c], deletion[c]>>' = <<reply[c], kind[c], inbox[c], deletion[c]>>
    /\ c \in holding' <=> c \in holding
    /\ c \in task' <=> c \in task
    /\ c \in remembered' <=> c \in remembered
    /\ Waits(c)' <=> Waits(c)
    /\ dispatch'.call = c => dispatch' = dispatch

LEMMA UntouchedInv == ASSUME NEW c, CallInv(c), Untouched(c) PROVE CallInv(c)'
<1>1. DispatchInv(c)'
  BY DEF Untouched, CallInv, DispatchInv
<1>2. CallbackInv(c)'
  BY DEF Untouched, CallInv, CallbackInv, CbRuns
<1>3. InboxInv(c)'
  BY DEF Untouched, CallInv, InboxInv, NoFinished, FinishedLast
<1>4. AnswerInv(c)'
  BY DEF Untouched, CallInv, AnswerInv, CbRuns
<1> QED BY <1>1, <1>2, <1>3, <1>4 DEF CallInv

(* The inbox the api's thread leaves when it emits or handles a signal.    *)
Reads(c, read) ==
    \/ read = inbox[c]
    \/ inbox[c] # <<>> /\ read = Tail(inbox[c])

(* A step that may end the reply of c and may queue signals behind read.   *)
Touched(c, read) ==
    /\ reply' \in [Calls -> {"none", "running", "failed", "finished"}]
    /\ kind' \in [Calls -> {"none", "clean", "refused", "broken"}]
    /\ inbox' \in [Calls -> Seq(Signal)]
    /\ \A d \in Calls : Len(inbox'[d]) <= 4
    /\ timer' \subseteq Calls
    /\ UNCHANGED <<arrived, waiting>> /\ holding' \subseteq holding
    /\ \A d \in Calls \ {c} : /\ reply'[d] = reply[d] /\ kind'[d] = kind[d]
                              /\ inbox'[d] = inbox[d]
                              /\ d \in holding' <=> d \in holding
    /\ InboxInv(c)'
    /\ reply'[c] = "none" <=> reply[c] = "none"
    /\ kind'[c] = "clean" => reply'[c] = "finished"
    /\ kind[c] = "clean" => kind'[c] = "clean" /\ inbox'[c] = read

(* The types of the variables the effects are about.                       *)
LEMMA Types ==
    ASSUME TypeOK
    PROVE  /\ reply \in [Calls -> {"none", "running", "failed", "finished"}]
           /\ kind \in [Calls -> {"none", "clean", "refused", "broken"}]
           /\ inbox \in [Calls -> Seq(Signal)]
           /\ \A c \in Calls : Len(inbox[c]) \in Nat /\ Len(inbox[c]) <= 4
           /\ timer \subseteq Calls /\ holding \subseteq Calls
<1>1. inbox \in [Calls -> Seq(Signal)]
  BY DEF TypeOK, Signal
<1>2. \A c \in Calls : Len(inbox[c]) \in Nat
  BY <1>1, LenProperties
<1> QED BY <1>1, <1>2 DEF TypeOK

(* What is left of an inbox after a handler is taken off it, or not.       *)
LEMMA ReadInbox ==
    ASSUME TypeOK, NEW c \in Calls, InboxInv(c), NEW read, Reads(c, read)
    PROVE  /\ read \in Seq(Signal)
           /\ Len(read) \in Nat /\ Len(read) <= Len(inbox[c]) /\ Len(read) <= 4
           /\ FinishedLast(read)
           /\ NoFinished(inbox[c]) => NoFinished(read)
           /\ inbox[c] = <<>> => read = <<>>
<1>1. inbox[c] \in Seq(Signal) /\ Len(inbox[c]) \in Nat /\ Len(inbox[c]) <= 4
  BY Types
<1>2. CASE read = inbox[c]
  BY <1>1, <1>2 DEF InboxInv
<1>3. CASE inbox[c] # <<>> /\ read = Tail(inbox[c])
  <2>1. /\ read \in Seq(Signal)
        /\ Len(read) = Len(inbox[c]) - 1
        /\ FinishedLast(read)
        /\ NoFinished(inbox[c]) => NoFinished(read)
    BY <1>1, <1>3, TakeSignal DEF InboxInv
  <2>2. Len(read) \in Nat
    BY <2>1, LenProperties
  <2> QED BY <1>1, <1>3, <2>1, <2>2
<1> QED BY <1>2, <1>3 DEF Reads

(* Only a handler is taken off.                                            *)
LEMMA ReadTouches ==
    ASSUME TypeOK, NEW c \in Calls, CallInv(c), NEW read, Reads(c, read),
           inbox' = [inbox EXCEPT ![c] = read],
           UNCHANGED <<replyVars, slotVars, conns>>
    PROVE  Touched(c, read)
<1>1. /\ read \in Seq(Signal)
      /\ Len(read) \in Nat /\ Len(read) <= Len(inbox[c]) /\ Len(read) <= 4
      /\ FinishedLast(read)
      /\ NoFinished(inbox[c]) => NoFinished(read)
      /\ inbox[c] = <<>> => read = <<>>
  BY ReadInbox DEF CallInv
<1>2. /\ inbox' \in [Calls -> Seq(Signal)]
      /\ inbox'[c] = read
      /\ \A d \in Calls \ {c} : inbox'[d] = inbox[d]
  BY <1>1, Types
<1>3. \A d \in Calls : Len(inbox'[d]) <= 4
  BY <1>1, <1>2, Types
<1>4. InboxInv(c)'
  BY <1>1, <1>2, Types DEF CallInv, InboxInv, replyVars, slotVars, NoFinished, FinishedLast
<1>5. kind[c] = "clean" => reply[c] = "finished"
  BY DEF CallInv, AnswerInv
<1> QED BY <1>2, <1>3, <1>4, <1>5, Types DEF Touched, replyVars, slotVars

(* The signals of q are emitted, and the reply's slot is given back.       *)
LEMMA EmitTouches ==
    ASSUME TypeOK, NEW c \in Calls, CallInv(c), NEW read, Reads(c, read),
           NEW q \in Seq(Signal), Len(q) \in Nat, FinishedLast(q),
           conns[c] = {} => q = <<>>,
           Emit(c, q, read), FreeSlot(c), timer' \subseteq timer, UNCHANGED conns,
           reply[c] \in {"running", "failed"},
           NEW r \in {"running", "failed", "finished"}, reply' = [reply EXCEPT ![c] = r],
           NEW k \in {"none", "clean", "refused", "broken"}, kind' = [kind EXCEPT ![c] = k],
           k = "clean" => r = "finished",
           r # "finished" => NoFinished(q) /\ reply[c] = "running",
           r = "running" => inbox[c] = <<>> /\ Len(q) <= 1 /\ c \in holding,
           r = "failed" => Len(read \o q) <= 2,
           r = "finished" => Len(q) <= 2
    PROVE  Touched(c, read)
<1>1. /\ read \in Seq(Signal)
      /\ Len(read) \in Nat /\ Len(read) <= Len(inbox[c])
      /\ NoFinished(read)
      /\ inbox[c] = <<>> => read = <<>>
  BY ReadInbox DEF CallInv, InboxInv
<1>2. /\ read \o q \in Seq(Signal)
      /\ Len(read \o q) = Len(read) + Len(q)
      /\ FinishedLast(read \o q)
      /\ NoFinished(q) => NoFinished(read \o q)
      /\ read = <<>> /\ q = <<>> => read \o q = <<>>
  BY <1>1, QueueSignals
<1>3. /\ inbox' \in [Calls -> Seq(Signal)]
      /\ inbox'[c] = read \o q
      /\ \A d \in Calls \ {c} : inbox'[d] = inbox[d]
  BY <1>2, Types DEF Emit
<1>4. Len(inbox[c]) \in Nat /\ Len(inbox[c]) <= 2
  BY Types DEF CallInv, InboxInv
<1>5. Len(read \o q) <= 4
  BY <1>1, <1>2, <1>4
<1>6. \A d \in Calls : Len(inbox'[d]) <= 4
  BY <1>3, <1>5, Types
<1>7. /\ holding' \subseteq holding
      /\ \A d \in Calls \ {c} : d \in holding' <=> d \in holding
      /\ UNCHANGED <<arrived, waiting>>
      /\ c \in holding' => future[c] # "filled"
  BY DEF FreeSlot, Scheduler!Return, slotVars
<1>8. /\ reply' \in [Calls -> {"none", "running", "failed", "finished"}]
      /\ reply'[c] = r /\ \A d \in Calls \ {c} : reply'[d] = reply[d]
      /\ kind' \in [Calls -> {"none", "clean", "refused", "broken"}]
      /\ kind'[c] = k /\ \A d \in Calls \ {c} : kind'[d] = kind[d]
      /\ timer' \subseteq Calls
  BY Types
<1>9. future[c] # "filled" => conns[c] = {}
  BY DEF CallInv, CallbackInv
<1>10. InboxInv(c)'
  <2>1. conns'[c] = {} => inbox'[c] = <<>>
    BY <1>1, <1>2, <1>3 DEF CallInv, InboxInv
  <2>2. reply'[c] = "running" /\ c \in holding' => inbox'[c] = <<>>
    BY <1>1, <1>2, <1>3, <1>7, <1>8, <1>9
  <2>3. reply'[c] = "running" => Len(inbox'[c]) <= 1
    <3>1. r = "running" => read = <<>>
      BY <1>1
    <3>2. Len(<<>>) = 0
      BY EmptySeq
    <3> QED BY <1>2, <1>3, <1>8, <3>1, <3>2
  <2>4. reply'[c] = "failed" => Len(inbox'[c]) <= 2
    BY <1>3, <1>8
  <2>5. reply'[c] # "finished" => NoFinished(inbox'[c])
    BY <1>2, <1>3, <1>8
  <2>6. FinishedLast(inbox'[c])
    BY <1>2, <1>3
  <2> QED BY <2>1, <2>2, <2>3, <2>4, <2>5, <2>6 DEF InboxInv, NoFinished, FinishedLast
<1>11. kind[c] # "clean"
  BY DEF CallInv, AnswerInv
<1> QED BY <1>3, <1>6, <1>7, <1>8, <1>10, <1>11 DEF Touched

(* abort() on the reply.                                                   *)
LEMMA AbortTouches ==
    ASSUME TypeOK, NEW c \in Calls, CallInv(c), NEW read, Reads(c, read),
           Abort(c, read), UNCHANGED conns
    PROVE  Touched(c, read)
<1>1. CASE Running(c) /\ deletion[c] # "deleted"
  <2> DEFINE q == Queued(c, "error") \o Queued(c, "finished")
  <2>1. /\ q \in Seq(Signal) /\ Len(q) \in Nat /\ Len(q) <= 2
        /\ conns[c] = {} => q = <<>>
        /\ FinishedLast(q)
    BY QueuedSignals DEF Signal
  <2>2. /\ reply' = [reply EXCEPT ![c] = "finished"]
        /\ kind' = [kind EXCEPT ![c] = "broken"]
        /\ Emit(c, q, read) /\ FreeSlot(c) /\ timer' \subseteq timer
        /\ reply[c] \in {"running", "failed"}
    BY <1>1 DEF Abort, Running, Cleanup
  <2> HIDE DEF q
  <2> QED BY <2>1, <2>2, EmitTouches
<1>2. CASE ~ (Running(c) /\ deletion[c] # "deleted")
  <2>1. inbox' = [inbox EXCEPT ![c] = read] /\ UNCHANGED <<replyVars, slotVars>>
    BY <1>2 DEF Abort
  <2> QED BY <2>1, ReadTouches
<1> QED BY <1>1, <1>2

(* promise.failure(): whatever it does to the reply, the promise is filled *)
(* afterwards and the call forgotten.                                      *)
Filled(c, result) ==
    /\ promise' = [promise EXCEPT ![c] = IF @ = "pending" THEN result ELSE @]
    /\ future' = [future EXCEPT ![c] = IF promise[c] = "pending" /\ @ = "pending"
                                       THEN "canceled" ELSE @]
    /\ remembered' = IF promise[c] = "pending" THEN remembered \ {c} ELSE remembered

LEMMA FailTouches ==
    ASSUME TypeOK, NEW c \in Calls, CallInv(c), NEW read, Reads(c, read),
           NEW result, Fail(c, result, read), UNCHANGED conns
    PROVE  Touched(c, read) /\ Filled(c, result)
<1>1. CASE promise[c] = "pending" /\ c \in guarded
  <2>1. Touched(c, read)
    BY <1>1, AbortTouches DEF Fail
  <2> QED BY <1>1, <2>1 DEF Fail, Filled, TypeOK
<1>2. CASE promise[c] = "pending" /\ c \notin guarded
  <2>1. Touched(c, read)
    BY <1>2, ReadTouches DEF Fail
  <2> QED BY <1>2, <2>1 DEF Fail, Filled, TypeOK
<1>3. CASE promise[c] # "pending"
  <2>1. Touched(c, read)
    BY <1>3, ReadTouches DEF Fail
  <2>2. UNCHANGED <<promise, future, remembered>>
    BY <1>3 DEF Fail, fillVars
  <2> QED BY <1>3, <2>1, <2>2 DEF Filled, TypeOK
<1> QED BY <1>1, <1>2, <1>3

-----------------------------------------------------------------------------
(* IInv is inductive: one lemma for each action.                           *)

(* TypeOK in parts, most of which a step leaves alone.                     *)
SlotTypes ==
    /\ arrived \subseteq Calls /\ holding \subseteq Calls /\ waiting \in Seq(Calls)
    /\ dispatch \in [call : Calls \cup {NoCall}, at : {"idle", "isFilled", "success"}]

CallTypes ==
    /\ call \in [Calls -> {"idle", "requested", "attached", "returned"}]
    /\ future \in [Calls -> {"none", "pending", "filled", "canceled"}]
    /\ promise \in [Calls -> {"none", "pending", "ok", "failed", "canceled"}]
    /\ remembered \subseteq Calls /\ aborting \subseteq Calls /\ task \subseteq Calls

CbTypes ==
    /\ cb \in [Calls -> {"none", "attached", "entered", "guard", "finished?",
                         "connect1", "connect2", "connect3", "done"}]
    /\ cbOn \in [Calls -> {"none", "qnam", "caller"}]
    /\ conns \in [Calls -> SUBSET Signal] /\ guarded \subseteq Calls

ReplyTypes ==
    /\ reply \in [Calls -> {"none", "running", "failed", "finished"}]
    /\ kind \in [Calls -> {"none", "clean", "refused", "broken"}]
    /\ inbox \in [Calls -> Seq(Signal)]
    /\ \A c \in Calls : Len(inbox[c]) <= 4
    /\ timer \subseteq Calls
    /\ deletion \in [Calls -> {"none", "posted", "deleted"}]

LEMMA TypeParts ==
    /\ TypeOK <=> SlotTypes /\ CallTypes /\ CbTypes /\ ReplyTypes
    /\ TypeOK' <=> SlotTypes' /\ CallTypes' /\ CbTypes' /\ ReplyTypes'
<1>1. UNION {guarded, timer, task, remembered, aborting} \subseteq Calls
      <=> /\ guarded \subseteq Calls /\ timer \subseteq Calls /\ task \subseteq Calls
          /\ remembered \subseteq Calls /\ aborting \subseteq Calls
  OBVIOUS
<1>2. (UNION {guarded, timer, task, remembered, aborting} \subseteq Calls)'
      <=> /\ guarded' \subseteq Calls /\ timer' \subseteq Calls /\ task' \subseteq Calls
          /\ remembered' \subseteq Calls /\ aborting' \subseteq Calls
  OBVIOUS
<1>3. TypeOK <=> SlotTypes /\ CallTypes /\ CbTypes /\ ReplyTypes
  BY <1>1, Zenon DEF TypeOK, SlotTypes, CallTypes, CbTypes, ReplyTypes, Signal
<1>4. TypeOK' <=> SlotTypes' /\ CallTypes' /\ CbTypes' /\ ReplyTypes'
  BY <1>2, Zenon DEF TypeOK, SlotTypes, CallTypes, CbTypes, ReplyTypes, Signal
<1> QED BY <1>3, <1>4

(* IInv holds initially: no call has been made.                            *)
LEMMA InitIInv == Init => IInv
<1> SUFFICES ASSUME Init PROVE IInv
  OBVIOUS
<1>1. waiting = <<>> /\ arrived = {} /\ holding = {}
  BY DEF Init, Scheduler!Init
<1>2. <<>> \in Seq(Calls) /\ <<>> \in Seq(Signal) /\ Len(<<>>) = 0
  BY EmptySeq
<1>3. TypeOK
  BY <1>1, <1>2 DEF Init, TypeOK, Signal
<1>4. Distinct(waiting) /\ Elements(waiting) = {}
  BY <1>1, <1>2 DEF Distinct, Elements
<1>5. QueueInv
  BY <1>4 DEF QueueInv, Init
<1>6. ASSUME NEW c \in Calls PROVE CallInv(c)
  <2>1. DispatchInv(c)
    BY <1>4, CallsAssumption DEF Init, DispatchInv, Waits
  <2>2. CallbackInv(c)
    BY DEF Init, CallbackInv, CbRuns
  <2>3. InboxInv(c)
    BY <1>2 DEF Init, InboxInv, NoFinished, FinishedLast
  <2>4. AnswerInv(c)
    BY DEF Init, AnswerInv, CbRuns
  <2> QED BY <2>1, <2>2, <2>3, <2>4 DEF CallInv
<1> QED BY <1>3, <1>5, <1>6 DEF IInv

(* A step is about one call; the others are left alone.                    *)
LEMMA OneCall ==
    ASSUME IInv, NEW c \in Calls, SlotTypes', CallTypes', CbTypes', ReplyTypes',
           QueueInv', CallInv(c)',
           \A d \in Calls \ {c} : Untouched(d)
    PROVE  IInv'
<1>1. \A d \in Calls \ {c} : CallInv(d)'
  BY UntouchedInv DEF IInv
<1> QED BY <1>1, TypeParts DEF IInv

LEMMA RequestIInv == ASSUME IInv, NEW c \in Calls, Request(c) PROVE IInv'
<1>1. waiting \in Seq(Calls) /\ Distinct(waiting) /\ c \notin Elements(waiting)
  BY DEF IInv, TypeOK, QueueInv, CallInv, DispatchInv, Request, Waits
<1>2. /\ waiting' \in Seq(Calls)
      /\ Distinct(waiting')
      /\ Elements(waiting') = Elements(waiting) \cup {c}
  BY <1>1, AppendElement DEF Request, Scheduler!Arrive
<1>3. SlotTypes' /\ CallTypes' /\ CbTypes' /\ ReplyTypes'
  <2>1. SlotTypes /\ CallTypes /\ CbTypes /\ ReplyTypes
    BY TypeParts DEF IInv
  <2>2. SlotTypes'
    BY <1>2, <2>1 DEF SlotTypes, Request, Scheduler!Arrive
  <2>3. CallTypes'
    BY <2>1 DEF CallTypes, Request
  <2>4. CbTypes' /\ ReplyTypes'
    BY <2>1 DEF CbTypes, ReplyTypes, Request, cbVars, replyVars
  <2> QED BY <2>2, <2>3, <2>4
<1>4. QueueInv'
  BY <1>2 DEF IInv, QueueInv, Request
<1>5. /\ call[c] = "idle" /\ call'[c] = "requested"
      /\ future'[c] = "pending" /\ promise'[c] = "pending"
      /\ UNCHANGED <<dispatch, holding>>
  BY DEF IInv, TypeOK, Request, Scheduler!Arrive
<1>6. CallInv(c)
  BY DEF IInv
<1>7. CallInv(c)'
  <2>1. DispatchInv(c)'
    BY <1>5, <1>6 DEF CallInv, DispatchInv, Request, replyVars
  <2>2. CallbackInv(c)'
    BY <1>5, <1>6 DEF CallInv, CallbackInv, CbRuns, Request, replyVars, cbVars
  <2>3. InboxInv(c)'
    BY <1>5, <1>6 DEF CallInv, InboxInv, NoFinished, FinishedLast, Request, replyVars, cbVars
  <2>4. AnswerInv(c)'
    BY <1>5, <1>6 DEF CallInv, AnswerInv, CallbackInv, InboxInv, CbRuns, Request, replyVars, cbVars
  <2> QED BY <2>1, <2>2, <2>3, <2>4 DEF CallInv
<1>8. \A d \in Calls \ {c} : Untouched(d)
  BY <1>2 DEF IInv, TypeOK, Untouched, Waits, Request, Scheduler!Arrive, replyVars, cbVars
<1> QED BY <1>3, <1>4, <1>7, <1>8, OneCall

LEMMA AttachIInv == ASSUME IInv, NEW c \in Calls, Attach(c) PROVE IInv'
<1>1. /\ call[c] = "requested" /\ call'[c] = "attached"
      /\ future[c] = "filled" => cb'[c] = "entered" /\ cbOn'[c] = "caller"
      /\ future[c] # "filled" => cb'[c] = "attached" /\ UNCHANGED cbOn
  BY DEF IInv, TypeOK, Attach
<1>2. SlotTypes' /\ CallTypes' /\ CbTypes' /\ ReplyTypes'
  <2>1. SlotTypes /\ CallTypes /\ CbTypes /\ ReplyTypes
    BY TypeParts DEF IInv
  <2>2. SlotTypes' /\ CallTypes'
    BY <2>1 DEF SlotTypes, CallTypes, Attach, slotVars, fillVars, replyVars
  <2>3. CbTypes' /\ ReplyTypes'
    BY <2>1 DEF CbTypes, ReplyTypes, Attach, slotVars, fillVars, replyVars
  <2> QED BY <2>2, <2>3
<1>3. QueueInv'
  BY DEF IInv, QueueInv, Attach, slotVars
<1>4. CallInv(c)
  BY DEF IInv
<1>5. CallInv(c)'
  <2>1. DispatchInv(c)'
    BY <1>1, <1>4 DEF CallInv, DispatchInv, Waits, Attach, replyVars, slotVars
  <2>2. CallbackInv(c)'
    BY <1>1, <1>4 DEF CallInv, CallbackInv, CbRuns, Attach, replyVars, fillVars
  <2>3. InboxInv(c)'
    BY <1>4 DEF CallInv, InboxInv, NoFinished, FinishedLast, Attach, replyVars, slotVars
  <2>4. AnswerInv(c)'
    BY <1>1, <1>4 DEF CallInv, AnswerInv, CallbackInv, CbRuns, Attach, replyVars, fillVars
  <2> QED BY <2>1, <2>2, <2>3, <2>4 DEF CallInv
<1>6. \A d \in Calls \ {c} : Untouched(d)
  BY DEF IInv, TypeOK, Untouched, Waits, Attach, replyVars, fillVars, slotVars
<1> QED BY <1>2, <1>3, <1>5, <1>6, OneCall

LEMMA RememberIInv == ASSUME IInv, NEW c \in Calls, Remember(c) PROVE IInv'
<1>1. /\ call[c] = "attached" /\ call'[c] = "returned"
      /\ c \in remembered' <=> c \in remembered \/ promise[c] = "pending"
      /\ promise[c] # "pending" => remembered' = remembered
  BY DEF IInv, TypeOK, Remember
<1>2. SlotTypes' /\ CallTypes' /\ CbTypes' /\ ReplyTypes'
  <2>1. SlotTypes /\ CallTypes /\ CbTypes /\ ReplyTypes
    BY TypeParts DEF IInv
  <2>2. SlotTypes' /\ CallTypes'
    BY <2>1 DEF SlotTypes, CallTypes, Remember, slotVars, cbVars, replyVars
  <2>3. CbTypes' /\ ReplyTypes'
    BY <2>1 DEF CbTypes, ReplyTypes, Remember, slotVars, cbVars, replyVars
  <2> QED BY <2>2, <2>3
<1>3. QueueInv'
  BY DEF IInv, QueueInv, Remember, slotVars
<1>4. CallInv(c)
  BY DEF IInv
<1>5. CallInv(c)'
  <2>1. DispatchInv(c)'
    BY <1>1, <1>4 DEF CallInv, DispatchInv, Waits, Remember, replyVars, slotVars
  <2>2. CallbackInv(c)'
    BY <1>1, <1>4 DEF CallInv, CallbackInv, CbRuns, Remember, replyVars, cbVars
  <2>3. InboxInv(c)'
    BY <1>4 DEF CallInv, InboxInv, NoFinished, FinishedLast, Remember, replyVars, slotVars, cbVars
  <2>4. AnswerInv(c)'
    BY <1>1, <1>4 DEF CallInv, AnswerInv, CbRuns, Remember, replyVars, cbVars
  <2> QED BY <2>1, <2>2, <2>3, <2>4 DEF CallInv
<1>6. \A d \in Calls \ {c} : Untouched(d)
  BY DEF IInv, TypeOK, Untouched, Waits, Remember, replyVars, cbVars, slotVars
<1> QED BY <1>2, <1>3, <1>5, <1>6, OneCall

(* What a step that touches a reply leaves of the invariant.               *)
LEMMA TouchedStep ==
    ASSUME IInv, NEW c \in Calls, NEW read, Touched(c, read), UNCHANGED <<dispatch, call>>
    PROVE  /\ SlotTypes' /\ QueueInv' /\ DispatchInv(c)' /\ InboxInv(c)'
           /\ deletion' \in [Calls -> {"none", "posted", "deleted"}] => ReplyTypes'
           /\ \A d \in Calls : Waits(d)' <=> Waits(d)
<1>1. SlotTypes'
  BY TypeParts DEF IInv, SlotTypes, Touched
<1>2. QueueInv'
  BY DEF IInv, QueueInv, Touched
<1>3. \A d \in Calls : Waits(d)' <=> Waits(d)
  BY DEF Waits, Touched
<1>4. DispatchInv(c)'
  BY <1>3 DEF IInv, CallInv, DispatchInv, Touched
<1>5. deletion' \in [Calls -> {"none", "posted", "deleted"}] => ReplyTypes'
  BY DEF ReplyTypes, Touched
<1> QED BY <1>1, <1>2, <1>3, <1>4, <1>5 DEF Touched

(* deleteLater() never takes a deletion back.                              *)
LEMMA PostedDeletion ==
    ASSUME IInv, NEW c \in Calls, PostDeletion(c)
    PROVE  /\ deletion' \in [Calls -> {"none", "posted", "deleted"}]
           /\ deletion'[c] # "none"
           /\ deletion'[c] = "deleted" <=> deletion[c] = "deleted"
           /\ \A d \in Calls \ {c} : deletion'[d] = deletion[d]
  BY DEF IInv, TypeOK, PostDeletion

(* A failure of the promise that deletes the reply or comes from a cancel. *)
LEMMA FailIInv ==
    ASSUME IInv, NEW c \in Calls, NEW result \in {"failed", "canceled"},
           NEW read, Reads(c, read), Fail(c, result, read),
           UNCHANGED <<dispatch, call, cbVars, task>>, aborting' \subseteq Calls,
           \/ UNCHANGED deletion /\ result = "canceled"
           \/ PostDeletion(c) /\ conns[c] # {}
    PROVE  IInv'
<1>1. CallInv(c) /\ TypeOK
  BY DEF IInv
<1>2. Touched(c, read) /\ Filled(c, result)
  BY <1>1, FailTouches DEF cbVars
<1>3. /\ SlotTypes' /\ QueueInv' /\ DispatchInv(c)' /\ InboxInv(c)'
      /\ deletion' \in [Calls -> {"none", "posted", "deleted"}] => ReplyTypes'
      /\ \A d \in Calls : Waits(d)' <=> Waits(d)
  BY <1>2, TouchedStep
<1>4. /\ deletion' \in [Calls -> {"none", "posted", "deleted"}]
      /\ deletion[c] # "none" => deletion'[c] # "none"
      /\ deletion'[c] # deletion[c] => conns[c] # {}
      /\ result # "canceled" => deletion'[c] # "none"
      /\ deletion'[c] = "deleted" => deletion[c] = "deleted"
      /\ \A d \in Calls \ {c} : deletion'[d] = deletion[d]
  BY PostedDeletion DEF IInv, TypeOK
<1>5. /\ promise'[c] # "pending"
      /\ promise'[c] # promise[c] => promise'[c] = result
      /\ future'[c] = "filled" <=> future[c] = "filled"
      /\ c \in remembered' => c \in remembered /\ promise[c] # "pending"
      /\ promise[c] # "pending" => remembered' = remembered
      /\ \A d \in Calls \ {c} : /\ promise'[d] = promise[d] /\ future'[d] = future[d]
                                /\ d \in remembered' <=> d \in remembered
  BY <1>1, <1>2 DEF Filled, TypeOK
<1>6. CallTypes' /\ CbTypes'
  <2>1. CallTypes /\ CbTypes
    BY TypeParts DEF IInv
  <2>2. promise' \in [Calls -> {"none", "pending", "ok", "failed", "canceled"}]
    BY <1>2, <2>1 DEF Filled, CallTypes
  <2>3. future' \in [Calls -> {"none", "pending", "filled", "canceled"}]
    BY <1>2, <2>1 DEF Filled, CallTypes
  <2>4. remembered' \subseteq Calls
    BY <1>2, <2>1 DEF Filled, CallTypes
  <2> QED BY <2>1, <2>2, <2>3, <2>4 DEF CallTypes, CbTypes, cbVars
<1>7. CallbackInv(c)'
  BY <1>1, <1>2, <1>4, <1>5 DEF CallInv, CallbackInv, CbRuns, Touched, cbVars
<1>8. AnswerInv(c)'
  <2>1. /\ kind'[c] = "clean" => reply'[c] = "finished"
        /\ kind[c] = "clean" => kind'[c] = "clean"
    BY <1>2 DEF Touched
  <2> QED BY <1>1, <1>4, <1>5, <2>1 DEF CallInv, AnswerInv, CbRuns, cbVars
<1>9. CallInv(c)'
  BY <1>3, <1>7, <1>8 DEF CallInv
<1>10. \A d \in Calls \ {c} : Untouched(d)
  BY <1>2, <1>3, <1>4, <1>5 DEF Untouched, Touched, cbVars
<1> QED BY <1>3, <1>4, <1>6, <1>9, <1>10, OneCall

LEMMA CancelIInv == ASSUME IInv, NEW c \in Calls, Cancel(c) PROVE IInv'
<1>1. Reads(c, inbox[c])
  BY DEF Reads
<1>2. aborting' \subseteq Calls
  BY TypeParts DEF IInv, CallTypes, Cancel
<1> QED BY <1>1, <1>2, FailIInv DEF Cancel

LEMMA AbortNextIInv == ASSUME IInv, NEW c \in Calls, AbortNext(c) PROVE IInv'
<1>1. Reads(c, inbox[c])
  BY DEF Reads
<1>2. aborting' \subseteq Calls
  BY TypeParts DEF IInv, CallTypes, AbortNext
<1> QED BY <1>1, <1>2, FailIInv DEF AbortNext

(* A step after which everything but the thunk's position is as before.    *)
LEMMA AbortAllIInv == ASSUME IInv, AbortAllRequests PROVE IInv'
<1>1. SlotTypes' /\ CallTypes' /\ CbTypes' /\ ReplyTypes'
  <2>1. SlotTypes /\ CallTypes /\ CbTypes /\ ReplyTypes
    BY TypeParts DEF IInv
  <2>2. SlotTypes' /\ CallTypes'
    BY <2>1 DEF SlotTypes, CallTypes, AbortAllRequests, slotVars, fillVars
  <2>3. CbTypes' /\ ReplyTypes'
    BY <2>1 DEF CbTypes, ReplyTypes, AbortAllRequests, cbVars, replyVars
  <2> QED BY <2>2, <2>3
<1>2. QueueInv'
  BY DEF IInv, QueueInv, AbortAllRequests, slotVars
<1>3. \A d \in Calls : Untouched(d)
  BY DEF Untouched, Waits, AbortAllRequests, slotVars, fillVars, cbVars, replyVars
<1>4. \A d \in Calls : CallInv(d)'
  BY <1>3, UntouchedInv DEF IInv
<1> QED BY <1>1, <1>2, <1>4, TypeParts DEF IInv

LEMMA DispatchIInv == ASSUME IInv, NEW i \in 1 .. Len(waiting), Dispatch(i) PROVE IInv'
<1>1. /\ SlotTypes /\ CallTypes /\ CbTypes /\ ReplyTypes
      /\ waiting \in Seq(Calls) /\ Distinct(waiting)
  BY TypeParts DEF IInv, QueueInv, SlotTypes
<1>0. PICK c \in Calls : c = waiting[i]
  BY <1>1, ElementOfSeq
<1>2. Waits(c)
  BY <1>0 DEF Waits, Elements
<1>3. waiting' = RemoveAt(waiting, i)
  BY DEF Dispatch, Scheduler!Grant, Scheduler!RemoveAt, RemoveAt
<1>4. /\ waiting' \in Seq(Calls)
      /\ Distinct(waiting')
      /\ Elements(waiting') = Elements(waiting) \ {c}
  BY <1>0, <1>1, <1>3, RemoveElement
<1>5. /\ holding' = holding \cup {c} /\ UNCHANGED arrived
      /\ dispatch' = [call |-> c, at |-> "isFilled"]
      /\ UNCHANGED <<call, fillVars, cbVars, replyVars, inbox, task, deletion, aborting>>
  BY <1>0 DEF Dispatch, Scheduler!Grant
<1>6. CallInv(c)
  BY <1>2 DEF IInv
<1>7. SlotTypes' /\ CallTypes' /\ CbTypes' /\ ReplyTypes'
  <2>1. SlotTypes'
    BY <1>1, <1>2, <1>4, <1>5 DEF SlotTypes
  <2>2. CallTypes'
    BY <1>1, <1>5 DEF CallTypes, fillVars
  <2>3. CbTypes' /\ ReplyTypes'
    BY <1>1, <1>5 DEF CbTypes, ReplyTypes, cbVars, replyVars
  <2> QED BY <2>1, <2>2, <2>3
<1>8. QueueInv'
  BY <1>2, <1>4, <1>5, CallsAssumption DEF QueueInv
<1>9. ~ Waits(c)' /\ \A d \in Calls \ {c} : Waits(d)' <=> Waits(d)
  BY <1>4 DEF Waits
<1>10. call[c] # "idle" /\ reply[c] = "none"
  BY <1>2, <1>6 DEF CallInv, DispatchInv
<1>11. CallInv(c)'
  <2>1. DispatchInv(c)'
    BY <1>5, <1>9, <1>10 DEF DispatchInv, replyVars
  <2>2. CallbackInv(c)'
    BY <1>5, <1>6 DEF CallInv, CallbackInv, CbRuns, replyVars, fillVars, cbVars
  <2>3. InboxInv(c)'
    BY <1>5, <1>6, <1>10 DEF CallInv, InboxInv, NoFinished, FinishedLast, replyVars, cbVars
  <2>4. AnswerInv(c)'
    BY <1>5, <1>6 DEF CallInv, AnswerInv, CbRuns, replyVars, fillVars, cbVars
  <2> QED BY <2>1, <2>2, <2>3, <2>4 DEF CallInv
<1>12. \A d \in Calls \ {c} : Untouched(d)
  BY <1>5, <1>9 DEF Untouched, replyVars, fillVars, cbVars
<1> QED BY <1>2, <1>7, <1>8, <1>11, <1>12, OneCall

(* The call of the thunk that runs.                                        *)
LEMMA Dispatched ==
    ASSUME IInv, dispatch.at # "idle"
    PROVE  /\ dispatch.call \in Calls /\ CallInv(dispatch.call)
           /\ call[dispatch.call] # "idle" /\ ~ Waits(dispatch.call)
<1>1. dispatch.call \in Calls
  BY DEF IInv, QueueInv, TypeOK
<1> QED BY <1>1 DEF IInv, CallInv, DispatchInv

LEMMA SkipIInv == ASSUME IInv, SkipCanceled PROVE IInv'
<1>0. PICK c \in Calls : c = dispatch.call
  BY Dispatched DEF SkipCanceled
<1>1. SlotTypes /\ CallTypes /\ CbTypes /\ ReplyTypes
  BY TypeParts DEF IInv
<1>2. CallInv(c)
  BY DEF IInv
<1>3. /\ holding' = holding \ {c} /\ UNCHANGED <<arrived, waiting>>
      /\ dispatch' = [call |-> NoCall, at |-> "idle"]
      /\ UNCHANGED <<call, fillVars, cbVars, replyVars, inbox, task, deletion, aborting>>
  BY <1>0 DEF SkipCanceled, Scheduler!Return
<1>4. SlotTypes' /\ CallTypes' /\ CbTypes' /\ ReplyTypes'
  <2>1. SlotTypes'
    BY <1>1, <1>3 DEF SlotTypes
  <2>2. CallTypes'
    BY <1>1, <1>3 DEF CallTypes, fillVars
  <2>3. CbTypes' /\ ReplyTypes'
    BY <1>1, <1>3 DEF CbTypes, ReplyTypes, cbVars, replyVars
  <2> QED BY <2>1, <2>2, <2>3
<1>5. QueueInv'
  BY <1>3 DEF IInv, QueueInv
<1>6. CallInv(c)'
  <2>1. DispatchInv(c)'
    BY <1>2, <1>3, CallsAssumption DEF CallInv, DispatchInv, Waits, replyVars
  <2>2. CallbackInv(c)'
    BY <1>2, <1>3 DEF CallInv, CallbackInv, CbRuns, replyVars, fillVars, cbVars
  <2>3. InboxInv(c)'
    BY <1>2, <1>3 DEF CallInv, InboxInv, NoFinished, FinishedLast, replyVars, cbVars
  <2>4. AnswerInv(c)'
    BY <1>2, <1>3 DEF CallInv, AnswerInv, CbRuns, replyVars, fillVars, cbVars
  <2> QED BY <2>1, <2>2, <2>3, <2>4 DEF CallInv
<1>7. \A d \in Calls \ {c} : Untouched(d)
  BY <1>3, CallsAssumption DEF Untouched, Waits, replyVars, fillVars, cbVars
<1> QED BY <1>2, <1>4, <1>5, <1>6, <1>7, OneCall

LEMMA SendIInv == ASSUME IInv, Send PROVE IInv'
<1>0. PICK c \in Calls : c = dispatch.call
  BY Dispatched DEF Send
<1>1. SlotTypes /\ CallTypes /\ CbTypes /\ ReplyTypes
  BY TypeParts DEF IInv
<1>2. CallInv(c) /\ call[c] # "idle" /\ ~ Waits(c)
  BY <1>0, Dispatched DEF Send
<1>3. /\ dispatch.at = "isFilled" /\ reply[c] = "none"
      /\ future[c] = "pending"
      /\ dispatch' = [dispatch EXCEPT !.at = "success"]
      /\ reply' = [reply EXCEPT ![c] = "running"]
      /\ timer' = timer \cup {c}
      /\ UNCHANGED <<slotVars, call, fillVars, cbVars, kind, inbox, task, deletion, aborting>>
  BY <1>0, <1>2 DEF Send, CallInv, DispatchInv
<1>4. /\ dispatch'.call = c /\ dispatch'.at = "success"
      /\ dispatch' \in [call : Calls \cup {NoCall}, at : {"idle", "isFilled", "success"}]
  BY <1>0, <1>1, <1>3 DEF SlotTypes
<1>5. SlotTypes' /\ CallTypes' /\ CbTypes' /\ ReplyTypes'
  <2>1. SlotTypes'
    BY <1>1, <1>3, <1>4 DEF SlotTypes, slotVars
  <2>2. CallTypes'
    BY <1>1, <1>3 DEF CallTypes, fillVars
  <2>3. CbTypes' /\ ReplyTypes'
    BY <1>1, <1>2, <1>3 DEF CbTypes, ReplyTypes, cbVars
  <2> QED BY <2>1, <2>2, <2>3
<1>6. QueueInv'
  BY <1>2, <1>3, <1>4, CallsAssumption DEF IInv, QueueInv, slotVars
<1>7. conns[c] = {} /\ inbox[c] = <<>> /\ Len(<<>>) = 0
  BY <1>2, <1>3, EmptySeq DEF CallInv, CallbackInv, InboxInv
<1>8. reply'[c] = "running" /\ \A d \in Calls \ {c} : reply'[d] = reply[d]
  BY <1>1, <1>2, <1>3 DEF ReplyTypes
<1>9. CallInv(c)'
  <2>1. DispatchInv(c)'
    BY <1>2, <1>3, <1>4, <1>8 DEF DispatchInv, Waits, slotVars
  <2>2. CallbackInv(c)'
    BY <1>2, <1>3, <1>8 DEF CallInv, CallbackInv, CbRuns, fillVars, cbVars
  <2>3. InboxInv(c)'
    BY <1>3, <1>7 DEF InboxInv, NoFinished, FinishedLast, cbVars
  <2>4. AnswerInv(c)'
    BY <1>2, <1>3 DEF CallInv, AnswerInv, CbRuns, fillVars, cbVars
  <2> QED BY <2>1, <2>2, <2>3, <2>4 DEF CallInv
<1>10. \A d \in Calls \ {c} : Untouched(d)
  BY <1>3, <1>4, <1>8 DEF Untouched, Waits, slotVars, fillVars, cbVars
<1> QED BY <1>2, <1>5, <1>6, <1>9, <1>10, OneCall

LEMMA DeliverIInv == ASSUME IInv, Deliver PROVE IInv'
<1>0. PICK c \in Calls : c = dispatch.call
  BY Dispatched DEF Deliver
<1> DEFINE now == future[c] = "pending"
           runs == now /\ cb[c] = "attached"
<1>1. SlotTypes /\ CallTypes /\ CbTypes /\ ReplyTypes
  BY TypeParts DEF IInv
<1>2. CallInv(c) /\ reply[c] # "none"
  BY <1>0, Dispatched DEF Deliver, CallInv, DispatchInv
<1>3. /\ dispatch' = [call |-> NoCall, at |-> "idle"]
      /\ now => future' = [future EXCEPT ![c] = "filled"]
      /\ ~ now => UNCHANGED future
      /\ runs => /\ cb' = [cb EXCEPT ![c] = "entered"]
                 /\ cbOn' = [cbOn EXCEPT ![c] = "qnam"]
      /\ ~ runs => UNCHANGED <<cb, cbOn>>
      /\ UNCHANGED <<slotVars, call, promise, remembered, guarded, conns, replyVars,
                     inbox, task, deletion, aborting>>
  BY <1>0 DEF Deliver
<1>4. /\ future'[c] = IF now THEN "filled" ELSE future[c]
      /\ \A d \in Calls \ {c} : future'[d] = future[d]
      /\ future' \in [Calls -> {"none", "pending", "filled", "canceled"}]
  BY <1>1, <1>2, <1>3 DEF CallTypes
<1>5. /\ cb'[c] = (IF runs THEN "entered" ELSE cb[c])
      /\ cbOn'[c] = (IF runs THEN "qnam" ELSE cbOn[c])
      /\ \A d \in Calls \ {c} : cb'[d] = cb[d] /\ cbOn'[d] = cbOn[d]
  BY <1>1, <1>2, <1>3 DEF CbTypes
<1>6. SlotTypes' /\ CallTypes' /\ CbTypes' /\ ReplyTypes'
  <2>1. SlotTypes'
    BY <1>1, <1>3 DEF SlotTypes, slotVars
  <2>2. CallTypes'
    BY <1>1, <1>3, <1>4 DEF CallTypes
  <2>3. CbTypes'
    BY <1>1, <1>2, <1>3 DEF CbTypes
  <2>4. ReplyTypes'
    BY <1>1, <1>3 DEF ReplyTypes, replyVars
  <2> QED BY <2>1, <2>2, <2>3, <2>4
<1>7. QueueInv'
  BY <1>3 DEF IInv, QueueInv, slotVars
<1>8. runs => cb[c] = "attached" /\ deletion[c] = "none" /\ conns[c] = {}
              /\ call[c] \notin {"idle", "requested"}
  BY <1>2 DEF CallInv, CallbackInv
<1> HIDE DEF runs
<1>9. CallInv(c)'
  <2>1. DispatchInv(c)'
    BY <1>2, <1>3, CallsAssumption DEF CallInv, DispatchInv, Waits, slotVars, replyVars
  <2>2. CallbackInv(c)'
    BY <1>2, <1>3, <1>4, <1>5, <1>8 DEF CallInv, CallbackInv, CbRuns, replyVars, runs
  <2>3. InboxInv(c)'
    BY <1>2, <1>3 DEF CallInv, InboxInv, NoFinished, FinishedLast, slotVars, replyVars
  <2>4. AnswerInv(c)'
    BY <1>2, <1>3, <1>5, <1>8 DEF CallInv, AnswerInv, CbRuns, replyVars
  <2> QED BY <2>1, <2>2, <2>3, <2>4 DEF CallInv
<1>10. \A d \in Calls \ {c} : Untouched(d)
  BY <1>3, <1>4, <1>5, CallsAssumption DEF Untouched, Waits, slotVars, replyVars
<1> QED BY <1>2, <1>6, <1>7, <1>9, <1>10, OneCall

(* A step of the callback up to its connections: it goes on, or it is done *)
(* and has deleted the reply of an ended promise, of a task, or of a call  *)
(* it has failed.                                                          *)
NotFilled == UNCHANGED promise /\ UNCHANGED future /\ UNCHANGED remembered

CallbackMoves(c, to) ==
    /\ cb' = [cb EXCEPT ![c] = to]
    /\ guarded' \subseteq Calls
    /\ UNCHANGED <<dispatch, call, cbOn, conns, aborting>>
    /\ \/ to # "done" /\ NotFilled /\ UNCHANGED <<task, deletion>>
       \/ /\ to = "done" /\ PostDeletion(c)
          /\ \/ promise[c] # "pending" /\ NotFilled /\ UNCHANGED task
             \/ kind[c] = "clean" /\ task' = task \cup {c} /\ NotFilled
             \/ Filled(c, "failed") /\ UNCHANGED task

LEMMA CallbackIInv ==
    ASSUME IInv, NEW c \in Calls, cb[c] \in {"entered", "guard", "finished?"},
           Touched(c, inbox[c]),
           NEW to \in {"guard", "finished?", "connect1", "done"}, CallbackMoves(c, to)
    PROVE  IInv'
<1>0. /\ cb' = [cb EXCEPT ![c] = to]
      /\ guarded' \subseteq Calls
      /\ UNCHANGED <<dispatch, call, cbOn, conns, aborting>>
      /\ NotFilled \/ (Filled(c, "failed") /\ to = "done")
      /\ to # "done" => task' = task /\ deletion' = deletion
      /\ to = "done" => PostDeletion(c)
      /\ task' = task \/ (task' = task \cup {c} /\ kind[c] = "clean" /\ to = "done")
  BY DEF CallbackMoves
<1>1. CallInv(c) /\ SlotTypes /\ CallTypes /\ CbTypes /\ ReplyTypes
  BY TypeParts DEF IInv
<1>2. /\ SlotTypes' /\ QueueInv' /\ DispatchInv(c)' /\ InboxInv(c)'
      /\ deletion' \in [Calls -> {"none", "posted", "deleted"}] => ReplyTypes'
      /\ \A d \in Calls : Waits(d)' <=> Waits(d)
  BY <1>0, TouchedStep
<1>3. /\ deletion' \in [Calls -> {"none", "posted", "deleted"}]
      /\ deletion[c] # "none" => deletion'[c] # "none"
      /\ to = "done" => deletion'[c] # "none"
      /\ to # "done" => deletion'[c] = deletion[c]
      /\ deletion'[c] = "deleted" => deletion[c] = "deleted"
      /\ \A d \in Calls \ {c} : deletion'[d] = deletion[d]
  BY <1>0, <1>1, PostedDeletion DEF ReplyTypes
<1>4. /\ promise' \in [Calls -> {"none", "pending", "ok", "failed", "canceled"}]
      /\ future' \in [Calls -> {"none", "pending", "filled", "canceled"}]
      /\ remembered' \subseteq Calls
  <2>1. CASE NotFilled
    BY <1>1, <2>1 DEF NotFilled, CallTypes
  <2>2. CASE Filled(c, "failed")
    BY <1>1, <2>2 DEF Filled, CallTypes
  <2> QED BY <1>0, <2>1, <2>2
<1>5. /\ promise'[c] = "pending" => promise[c] = "pending"
      /\ promise'[c] # promise[c] => promise'[c] = "failed" /\ to = "done"
      /\ future'[c] = "filled" <=> future[c] = "filled"
      /\ c \in remembered' <=> c \in remembered /\ promise'[c] = promise[c]
      /\ promise[c] # "pending" => promise'[c] = promise[c]
      /\ \A d \in Calls \ {c} : /\ promise'[d] = promise[d] /\ future'[d] = future[d]
                                /\ d \in remembered' <=> d \in remembered
  <2>1. CASE NotFilled
    BY <2>1 DEF NotFilled
  <2>2. CASE Filled(c, "failed") /\ to = "done"
    BY <1>1, <2>2 DEF Filled, CallTypes
  <2> QED BY <1>0, <2>1, <2>2
<1>6. /\ task' \subseteq Calls /\ task \subseteq task'
      /\ c \in task' => c \in task \/ (kind[c] = "clean" /\ to = "done")
      /\ \A d \in Calls \ {c} : d \in task' <=> d \in task
  BY <1>0, <1>1 DEF CallTypes
<1>7. cb'[c] = to /\ \A d \in Calls \ {c} : cb'[d] = cb[d]
  BY <1>0, <1>1 DEF CbTypes
<1>8. /\ conns[c] = {} /\ inbox[c] = <<>> /\ future[c] = "filled"
      /\ call[c] \notin {"idle", "requested"}
      /\ cbOn[c] # "none" /\ (deletion[c] = "deleted" => cbOn[c] = "caller")
  BY <1>1 DEF CallInv, CallbackInv, InboxInv, AnswerInv, CbRuns
<1>9. CallTypes' /\ CbTypes'
  <2>1. CallTypes'
    BY <1>0, <1>1, <1>4, <1>6 DEF CallTypes
  <2>2. CbTypes'
    BY <1>0, <1>1 DEF CbTypes
  <2> QED BY <2>1, <2>2
<1>10. /\ reply'[c] = "none" <=> reply[c] = "none"
       /\ kind'[c] = "clean" => reply'[c] = "finished"
       /\ kind[c] = "clean" => kind'[c] = "clean" /\ inbox'[c] = <<>>
  BY <1>8 DEF Touched
<1>11. CallbackInv(c)'
  BY <1>0, <1>1, <1>3, <1>5, <1>7, <1>8, <1>10 DEF CallInv, CallbackInv, CbRuns
<1>12. AnswerInv(c)'
  <2>1. /\ kind'[c] = "clean" => reply'[c] = "finished"
        /\ c \in task' \/ promise'[c] = "ok" => kind'[c] = "clean"
        /\ c \in task' \/ promise'[c] \in {"ok", "failed"} => deletion'[c] # "none"
    BY <1>1, <1>3, <1>5, <1>6, <1>10 DEF CallInv, AnswerInv
  <2>6. to = "done" => promise'[c] # "pending" \/ c \in task'
    BY <1>1 DEF CallbackMoves, Filled, CallTypes, NotFilled
  <2>2. /\ cb'[c] = "done" /\ conns'[c] = {} => deletion'[c] # "none"
        /\ promise'[c] = "pending" /\ deletion'[c] # "none" => c \in task'
    BY <1>0, <1>1, <1>3, <1>5, <1>6, <1>7, <2>6 DEF CallInv, AnswerInv
  <2>3. promise'[c] = "pending" /\ c \in task' => inbox'[c] = <<>>
    BY <1>1, <1>6, <1>10 DEF CallInv, AnswerInv
  <2>4. deletion'[c] = "deleted" /\ CbRuns(c)' => cbOn'[c] = "caller"
    BY <1>0, <1>3, <1>8
  <2>5. c \in remembered' <=> call'[c] = "returned" /\ promise'[c] = "pending"
    BY <1>0, <1>1, <1>5 DEF CallInv, AnswerInv
  <2> QED BY <2>1, <2>2, <2>3, <2>4, <2>5 DEF AnswerInv, CbRuns
<1>13. CallInv(c)'
  BY <1>2, <1>11, <1>12 DEF CallInv
<1>14. \A d \in Calls \ {c} : Untouched(d)
  BY <1>0, <1>2, <1>3, <1>5, <1>6, <1>7 DEF Untouched, Touched
<1> QED BY <1>2, <1>3, <1>9, <1>13, <1>14, OneCall

(* A step that leaves the reply alone touches it, in the sense of Touched. *)
LEMMA NothingTouched ==
    ASSUME IInv, NEW c \in Calls, UNCHANGED <<slotVars, replyVars, inbox, conns>>
    PROVE  Touched(c, inbox[c])
<1>1. inbox' = [inbox EXCEPT ![c] = inbox[c]]
  BY TypeParts DEF IInv, ReplyTypes
<1> QED BY <1>1, ReadTouches DEF IInv, Reads

LEMMA CbIsFilledIInv == ASSUME IInv, NEW c \in Calls, CbIsFilled(c) PROVE IInv'
<1>1. guarded' \subseteq Calls /\ cb[c] = "entered"
  BY TypeParts DEF IInv, CbTypes, CbIsFilled
<1>2. CASE promise[c] = "pending"
  <2>1. Touched(c, inbox[c])
    BY <1>2, NothingTouched DEF CbIsFilled
  <2>2. CallbackMoves(c, "guard")
    BY <1>1, <1>2 DEF CbIsFilled, CallbackMoves, NotFilled, fillVars
  <2> QED BY <1>1, <2>1, <2>2, CallbackIInv
<1>3. CASE promise[c] # "pending"
  <2>1. Touched(c, inbox[c])
    BY <1>3, AbortTouches DEF CbIsFilled, IInv, Reads
  <2>2. CallbackMoves(c, "done")
    BY <1>1, <1>3 DEF CbIsFilled, CallbackMoves, NotFilled, fillVars
  <2> QED BY <1>1, <2>1, <2>2, CallbackIInv
<1> QED BY <1>2, <1>3

LEMMA CbGuardIInv == ASSUME IInv, NEW c \in Calls, CbGuard(c) PROVE IInv'
<1>1. cb[c] = "guard" /\ CallbackMoves(c, "finished?")
  BY TypeParts DEF IInv, CbTypes, CbGuard, CallbackMoves, NotFilled, fillVars
<1>2. Touched(c, inbox[c])
  <2>1. CASE promise[c] = "pending"
    BY <2>1, NothingTouched DEF CbGuard
  <2>2. CASE promise[c] # "pending"
    BY <2>2, AbortTouches DEF CbGuard, IInv, Reads
  <2> QED BY <2>1, <2>2
<1> QED BY <1>1, <1>2, CallbackIInv

LEMMA CbIsFinishedIInv == ASSUME IInv, NEW c \in Calls, CbIsFinished(c) PROVE IInv'
<1>1. /\ guarded' \subseteq Calls /\ Reads(c, inbox[c]) /\ CallInv(c) /\ TypeOK
      /\ UNCHANGED <<dispatch, call, cbOn, guarded, conns, aborting>>
      /\ cb[c] = "finished?"
  BY TypeParts DEF IInv, CbTypes, CbIsFinished, Reads
<1>2. CASE reply[c] # "finished"
  <2>1. Touched(c, inbox[c])
    BY <1>2, NothingTouched DEF CbIsFinished
  <2>2. CallbackMoves(c, "connect1")
    BY <1>1, <1>2 DEF CbIsFinished, CallbackMoves, NotFilled, fillVars
  <2> QED BY <1>1, <2>1, <2>2, CallbackIInv
<1>3. CASE reply[c] = "finished" /\ promise[c] # "pending"
  <2>1. Touched(c, inbox[c])
    BY <1>3, NothingTouched DEF CbIsFinished
  <2>2. CallbackMoves(c, "done")
    BY <1>1, <1>3 DEF CbIsFinished, CallbackMoves, NotFilled, fillVars
  <2> QED BY <1>1, <2>1, <2>2, CallbackIInv
<1>4. CASE reply[c] = "finished" /\ promise[c] = "pending" /\ kind[c] = "clean"
  <2>1. /\ task' = task \cup {c} /\ inbox' = [inbox EXCEPT ![c] = inbox[c]]
        /\ UNCHANGED <<fillVars, replyVars, slotVars>>
        /\ cb' = [cb EXCEPT ![c] = "done"] /\ PostDeletion(c)
    BY <1>4 DEF CbIsFinished, Process
  <2>2. Touched(c, inbox[c])
    BY <1>1, <2>1, ReadTouches
  <2>3. CallbackMoves(c, "done")
    BY <1>1, <1>4, <2>1 DEF CallbackMoves, NotFilled, fillVars
  <2> QED BY <1>1, <2>2, <2>3, CallbackIInv
<1>5. CASE reply[c] = "finished" /\ promise[c] = "pending" /\ kind[c] # "clean"
  <2>1. /\ Fail(c, "failed", inbox[c]) /\ UNCHANGED task
        /\ cb' = [cb EXCEPT ![c] = "done"] /\ PostDeletion(c)
    BY <1>5 DEF CbIsFinished, Process
  <2>2. Touched(c, inbox[c]) /\ Filled(c, "failed")
    BY <1>1, <2>1, FailTouches
  <2>3. CallbackMoves(c, "done")
    BY <1>1, <2>1, <2>2 DEF CallbackMoves, NotFilled, fillVars
  <2> QED BY <1>1, <2>2, <2>3, CallbackIInv
<1> QED BY <1>2, <1>3, <1>4, <1>5

LEMMA CbConnectIInv == ASSUME IInv, NEW c \in Calls, CbConnect(c) PROVE IInv'
<1>1. CallInv(c) /\ SlotTypes /\ CallTypes /\ CbTypes /\ ReplyTypes
  BY TypeParts DEF IInv
<1>2. PICK signal \in Signal, to \in {"connect2", "connect3", "done"} :
         /\ cb[c] \in {"connect1", "connect2", "connect3"}
         /\ cb' = [cb EXCEPT ![c] = to]
         /\ conns' = [conns EXCEPT ![c] = @ \cup {signal}]
  BY DEF CbConnect, ConnectTo, Signal
<1>3. UNCHANGED <<slotVars, dispatch, call, fillVars, cbOn, guarded, replyVars, inbox,
                  task, deletion, aborting>>
  BY DEF CbConnect
<1>4. /\ cb'[c] = to /\ conns'[c] # {}
      /\ \A d \in Calls \ {c} : cb'[d] = cb[d] /\ conns'[d] = conns[d]
  BY <1>1, <1>2 DEF CbTypes
<1>5. SlotTypes' /\ CallTypes' /\ CbTypes' /\ ReplyTypes'
  <2>1. SlotTypes' /\ CallTypes'
    BY <1>1, <1>3 DEF SlotTypes, CallTypes, slotVars, fillVars
  <2>2. CbTypes'
    BY <1>1, <1>2, <1>3 DEF CbTypes
  <2>3. ReplyTypes'
    BY <1>1, <1>3 DEF ReplyTypes, replyVars
  <2> QED BY <2>1, <2>2, <2>3
<1>6. QueueInv'
  BY <1>3 DEF IInv, QueueInv, slotVars
<1>7. CallInv(c)'
  <2>1. DispatchInv(c)'
    BY <1>1, <1>3 DEF CallInv, DispatchInv, Waits, slotVars, replyVars
  <2>2. CallbackInv(c)'
    BY <1>1, <1>2, <1>3, <1>4 DEF CallInv, CallbackInv, CbRuns, fillVars, replyVars
  <2>3. InboxInv(c)'
    BY <1>1, <1>3, <1>4 DEF CallInv, InboxInv, NoFinished, FinishedLast, slotVars, replyVars
  <2>4. AnswerInv(c)'
    BY <1>1, <1>2, <1>3, <1>4 DEF CallInv, AnswerInv, CbRuns, fillVars, replyVars
  <2> QED BY <2>1, <2>2, <2>3, <2>4 DEF CallInv
<1>8. \A d \in Calls \ {c} : Untouched(d)
  BY <1>3, <1>4 DEF Untouched, Waits, slotVars, fillVars, replyVars
<1> QED BY <1>5, <1>6, <1>7, <1>8, OneCall

(* A step that only touches the reply: a signal is emitted, a timer aborts *)
(* the reply, or a handler finds nothing to do.                            *)
LEMMA SignalIInv ==
    ASSUME IInv, NEW c \in Calls, NEW read, Reads(c, read), Touched(c, read),
           UNCHANGED <<dispatch, call, fillVars, cbVars, task, deletion, aborting>>
    PROVE  IInv'
<1>1. CallInv(c) /\ SlotTypes /\ CallTypes /\ CbTypes /\ ReplyTypes
  BY TypeParts DEF IInv
<1>2. /\ SlotTypes' /\ QueueInv' /\ DispatchInv(c)' /\ InboxInv(c)'
      /\ deletion' \in [Calls -> {"none", "posted", "deleted"}] => ReplyTypes'
      /\ \A d \in Calls : Waits(d)' <=> Waits(d)
  BY TouchedStep
<1>3. CallTypes' /\ CbTypes' /\ ReplyTypes'
  <2>1. CallTypes'
    BY <1>1 DEF CallTypes, fillVars
  <2>2. CbTypes'
    BY <1>1 DEF CbTypes, cbVars
  <2>3. ReplyTypes'
    BY <1>1, <1>2 DEF ReplyTypes
  <2> QED BY <2>1, <2>2, <2>3
<1>4. inbox[c] = <<>> => read = <<>>
  BY <1>1, ReadInbox DEF IInv, CallInv
<1>5. CallbackInv(c)'
  BY <1>1 DEF CallInv, CallbackInv, CbRuns, Touched, fillVars, cbVars
<1>6. AnswerInv(c)'
  BY <1>1, <1>4 DEF CallInv, AnswerInv, CbRuns, Touched, fillVars, cbVars
<1>7. CallInv(c)'
  BY <1>2, <1>5, <1>6 DEF CallInv
<1>8. \A d \in Calls \ {c} : Untouched(d)
  BY <1>2 DEF Untouched, Touched, fillVars, cbVars
<1> QED BY <1>2, <1>3, <1>7, <1>8, OneCall

LEMMA TimeoutIInv == ASSUME IInv, NEW c \in Calls, Timeout(c) PROVE IInv'
<1>1. Reads(c, inbox[c])
  BY DEF Reads
<1>2. Touched(c, inbox[c])
  BY <1>1, AbortTouches DEF IInv, Timeout, cbVars
<1> QED BY <1>1, <1>2, SignalIInv DEF Timeout

LEMMA ReplyFinishedIInv == ASSUME IInv, NEW c \in Calls, ReplyFinished(c) PROVE IInv'
<1>1. Reads(c, inbox[c]) /\ CallInv(c) /\ TypeOK
  BY DEF Reads, IInv
<1> DEFINE q == Queued(c, "finished")
<1>2. /\ q \in Seq(Signal) /\ Len(q) \in Nat /\ Len(q) <= 2 /\ FinishedLast(q)
      /\ conns[c] = {} => q = <<>>
  <2>1. "finished" \in Signal
    BY DEF Signal
  <2>2. /\ q \in Seq(Signal) /\ Len(q) \in Nat /\ Len(q) <= 1 /\ FinishedLast(q)
        /\ conns[c] = {} => q = <<>>
    BY <2>1, QueuedSignal
  <2> HIDE DEF q
  <2> QED BY <2>2
<1>3. PICK k \in {"none", "clean", "refused", "broken"} : kind' = [kind EXCEPT ![c] = k]
  <2>1. PICK k \in {"clean", "refused"} :
           kind' = [kind EXCEPT ![c] = IF reply[c] = "failed" THEN @ ELSE k]
    BY DEF ReplyFinished
  <2>2. kind[c] \in {"none", "clean", "refused", "broken"}
    BY <1>1 DEF TypeOK
  <2> QED BY <2>1, <2>2
<1>4. /\ reply[c] \in {"running", "failed"}
      /\ reply' = [reply EXCEPT ![c] = "finished"]
      /\ Emit(c, q, inbox[c]) /\ FreeSlot(c) /\ timer' \subseteq timer
      /\ UNCHANGED conns
  BY DEF ReplyFinished, Running, Cleanup, cbVars
<1> HIDE DEF q
<1>5. Touched(c, inbox[c])
  BY <1>1, <1>2, <1>3, <1>4, EmitTouches
<1> QED BY <1>1, <1>5, SignalIInv DEF ReplyFinished

LEMMA ReplyErrorIInv == ASSUME IInv, NEW c \in Calls, ReplyError(c) PROVE IInv'
<1>1. Reads(c, inbox[c]) /\ CallInv(c) /\ TypeOK
  BY DEF Reads, IInv
<1> DEFINE q == Queued(c, "error")
<1>2. /\ q \in Seq(Signal) /\ Len(q) \in Nat /\ Len(q) <= 1 /\ FinishedLast(q)
      /\ NoFinished(q)
      /\ conns[c] = {} => q = <<>>
  <2>1. "error" \in Signal
    BY DEF Signal
  <2> QED BY <2>1, QueuedSignal
<1>3. PICK k \in {"refused", "broken"} : kind' = [kind EXCEPT ![c] = k]
  BY DEF ReplyError
<1>4. /\ reply[c] = "running"
      /\ reply' = [reply EXCEPT ![c] = "failed"]
      /\ Emit(c, q, inbox[c]) /\ FreeSlot(c) /\ timer' \subseteq timer
      /\ UNCHANGED conns
  BY DEF ReplyError, Cleanup, cbVars
<1> HIDE DEF q
<1>5. Len(inbox[c] \o q) <= 2
  <2>1. /\ inbox[c] \in Seq(Signal) /\ Len(inbox[c]) \in Nat /\ Len(inbox[c]) <= 1
        /\ NoFinished(inbox[c])
    BY <1>1, <1>4, Types DEF CallInv, InboxInv
  <2>2. Len(inbox[c] \o q) = Len(inbox[c]) + Len(q)
    BY <1>2, <2>1, QueueSignals
  <2> QED BY <1>2, <2>1, <2>2
<1>6. Touched(c, inbox[c])
  BY <1>1, <1>2, <1>3, <1>4, <1>5, EmitTouches
<1> QED BY <1>1, <1>6, SignalIInv DEF ReplyError

LEMMA ReplySslErrorsIInv == ASSUME IInv, NEW c \in Calls, ReplySslErrors(c) PROVE IInv'
<1>1. Reads(c, inbox[c]) /\ CallInv(c) /\ TypeOK
  BY DEF Reads, IInv
<1>2. /\ reply[c] = "running" /\ c \in holding
      /\ FreeSlot(c) /\ UNCHANGED conns
      /\ inbox[c] = <<>> /\ kind[c] # "clean"
      /\ kind[c] \in {"none", "clean", "refused", "broken"}
  BY <1>1 DEF ReplySslErrors, cbVars, CallInv, InboxInv, AnswerInv, TypeOK
<1>3. CASE c \in IgnoreSslErrors
  <2> DEFINE q == Queued(c, "sslErrors")
  <2>1. /\ q \in Seq(Signal) /\ Len(q) \in Nat /\ Len(q) <= 1 /\ FinishedLast(q)
        /\ NoFinished(q)
        /\ conns[c] = {} => q = <<>>
    <3>1. "sslErrors" \in Signal
      BY DEF Signal
    <3> QED BY <3>1, QueuedSignal
  <2>2. UNCHANGED replyVars /\ Emit(c, q, inbox[c])
    BY <1>3 DEF ReplySslErrors
  <2>3. /\ reply' = [reply EXCEPT ![c] = "running"]
        /\ kind' = [kind EXCEPT ![c] = kind[c]]
        /\ timer' \subseteq timer
    BY <1>1, <1>2, <2>2 DEF TypeOK, replyVars
  <2> HIDE DEF q
  <2>4. Touched(c, inbox[c])
    BY <1>1, <1>2, <2>1, <2>2, <2>3, EmitTouches
  <2> QED BY <1>1, <2>4, SignalIInv DEF ReplySslErrors
<1>4. CASE c \notin IgnoreSslErrors
  <2> DEFINE q == Queued(c, "sslErrors") \o Queued(c, "error")
  <2>1. /\ q \in Seq(Signal) /\ Len(q) \in Nat /\ Len(q) <= 2 /\ FinishedLast(q)
        /\ NoFinished(q)
        /\ conns[c] = {} => q = <<>>
    <3>1. "sslErrors" \in Signal /\ "error" \in Signal
      BY DEF Signal
    <3> QED BY <3>1, QueuedSignals
  <2>2. /\ reply' = [reply EXCEPT ![c] = "failed"]
        /\ kind' = [kind EXCEPT ![c] = "broken"]
        /\ timer' \subseteq timer
        /\ Emit(c, q, inbox[c])
    BY <1>4 DEF ReplySslErrors, Cleanup
  <2> HIDE DEF q
  <2>3. Len(inbox[c] \o q) <= 2
    BY <1>2, <2>1
  <2>4. Touched(c, inbox[c])
    BY <1>1, <1>2, <2>1, <2>2, <2>3, EmitTouches
  <2> QED BY <1>1, <2>4, SignalIInv DEF ReplySslErrors
<1> QED BY <1>3, <1>4

(* A handler runs because its signal was connected, so after the callback. *)
LEMMA HandlerRuns ==
    ASSUME IInv, NEW c \in Calls, NEW signal, Handles(c, signal)
    PROVE  /\ Reads(c, Tail(inbox[c])) /\ CallInv(c) /\ TypeOK
           /\ conns[c] # {} /\ cb[c] \notin {"none", "attached"}
           /\ inbox[c] # <<>> /\ inbox[c] \in Seq(Signal) /\ FinishedLast(inbox[c])
           /\ inbox' = [inbox EXCEPT ![c] = Tail(@)]
              => inbox' = [inbox EXCEPT ![c] = Tail(inbox[c])]
<1>1. CallInv(c) /\ TypeOK /\ inbox[c] # <<>>
  BY DEF IInv, Handles
<1>2. inbox \in [Calls -> Seq(Signal)]
  BY <1>1, Types
<1> QED BY <1>1, <1>2 DEF Reads, CallInv, CallbackInv, InboxInv

(* The handler finds that it has nothing to do.                            *)
LEMMA IgnoreIInv ==
    ASSUME IInv, NEW c \in Calls, NEW signal, Handles(c, signal), Ignore(c),
           UNCHANGED <<dispatch, call, cbVars, aborting>>
    PROVE  IInv'
<1>1. /\ Reads(c, Tail(inbox[c])) /\ CallInv(c) /\ TypeOK
      /\ inbox' = [inbox EXCEPT ![c] = Tail(inbox[c])]
  BY HandlerRuns DEF Ignore
<1>2. Touched(c, Tail(inbox[c]))
  BY <1>1, ReadTouches DEF Ignore, cbVars
<1> QED BY <1>1, <1>2, SignalIInv DEF Ignore

LEMMA OnSslErrorsIInv == ASSUME IInv, NEW c \in Calls, OnSslErrors(c) PROVE IInv'
<1>1. Reads(c, Tail(inbox[c])) /\ conns[c] # {}
  BY HandlerRuns DEF OnSslErrors
<1>2. aborting' \subseteq Calls
  BY TypeParts DEF IInv, CallTypes, OnSslErrors
<1>3. /\ Fail(c, "failed", Tail(inbox[c])) /\ PostDeletion(c)
      /\ UNCHANGED <<dispatch, call, cbVars, task>>
  BY DEF OnSslErrors
<1> QED BY <1>1, <1>2, <1>3, FailIInv

LEMMA OnErrorIInv == ASSUME IInv, NEW c \in Calls, OnError(c) PROVE IInv'
<1>1. CASE promise[c] # "pending" \/ kind[c] # "broken"
  BY <1>1, IgnoreIInv DEF OnError
<1>2. CASE promise[c] = "pending" /\ kind[c] = "broken"
  <2>1. Reads(c, Tail(inbox[c])) /\ conns[c] # {}
    BY HandlerRuns DEF OnError
  <2>2. aborting' \subseteq Calls
    BY TypeParts DEF IInv, CallTypes, OnError
  <2>3. /\ Fail(c, "failed", Tail(inbox[c])) /\ PostDeletion(c)
        /\ UNCHANGED <<dispatch, call, cbVars, task>>
    BY <1>2 DEF OnError, Process
  <2> QED BY <2>1, <2>2, <2>3, FailIInv
<1> QED BY <1>1, <1>2

(* The handler of a clean reply starts the task that fills the promise; it *)
(* is the last handler of the reply.                                       *)
LEMMA StartTaskIInv ==
    ASSUME IInv, NEW c \in Calls, OnFinished(c), promise[c] = "pending", kind[c] = "clean"
    PROVE  IInv'
<1>1. CallInv(c) /\ SlotTypes /\ CallTypes /\ CbTypes /\ ReplyTypes
  BY TypeParts DEF IInv
<1>2. /\ Reads(c, Tail(inbox[c])) /\ TypeOK
      /\ conns[c] # {}
      /\ Head(inbox[c]) = "finished" /\ Tail(inbox[c]) = <<>>
  <2>1. /\ Reads(c, Tail(inbox[c])) /\ TypeOK
        /\ conns[c] # {}
        /\ inbox[c] # <<>> /\ inbox[c] \in Seq(Signal) /\ FinishedLast(inbox[c])
    BY HandlerRuns DEF OnFinished
  <2>2. Head(inbox[c]) = "finished"
    BY DEF OnFinished, Handles
  <2> QED BY <2>1, <2>2, TakeSignal
<1>3. /\ task' = task \cup {c}
      /\ inbox' = [inbox EXCEPT ![c] = Tail(inbox[c])]
      /\ UNCHANGED <<replyVars, slotVars>>
      /\ PostDeletion(c)
      /\ UNCHANGED <<dispatch, call, fillVars, cbVars, aborting>>
  BY DEF OnFinished, Process
<1>4. Touched(c, Tail(inbox[c]))
  BY <1>1, <1>2, <1>3, ReadTouches DEF cbVars
<1>5. /\ SlotTypes' /\ QueueInv' /\ DispatchInv(c)' /\ InboxInv(c)'
      /\ deletion' \in [Calls -> {"none", "posted", "deleted"}] => ReplyTypes'
      /\ \A d \in Calls : Waits(d)' <=> Waits(d)
  BY <1>3, <1>4, TouchedStep
<1>6. /\ deletion' \in [Calls -> {"none", "posted", "deleted"}]
      /\ deletion'[c] # "none"
      /\ deletion'[c] = "deleted" => deletion[c] = "deleted"
      /\ \A d \in Calls \ {c} : deletion'[d] = deletion[d]
  BY <1>3, PostedDeletion
<1>7. CallTypes' /\ CbTypes'
  <2>1. CallTypes'
    BY <1>1, <1>3 DEF CallTypes, fillVars
  <2>2. CbTypes'
    BY <1>1, <1>3 DEF CbTypes, cbVars
  <2> QED BY <2>1, <2>2
<1>8. /\ reply'[c] = "none" <=> reply[c] = "none"
      /\ kind'[c] = "clean" /\ reply'[c] = "finished" /\ inbox'[c] = <<>>
  BY <1>2, <1>4 DEF Touched
<1>9. CallbackInv(c)'
  BY <1>1, <1>2, <1>3, <1>8 DEF CallInv, CallbackInv, CbRuns, fillVars, cbVars
<1>10. AnswerInv(c)'
  BY <1>1, <1>3, <1>6, <1>8 DEF CallInv, AnswerInv, CbRuns, fillVars, cbVars
<1>11. CallInv(c)'
  BY <1>5, <1>9, <1>10 DEF CallInv
<1>12. \A d \in Calls \ {c} : Untouched(d)
  BY <1>3, <1>4, <1>5, <1>6 DEF Untouched, Touched, fillVars, cbVars
<1> QED BY <1>5, <1>6, <1>7, <1>11, <1>12, OneCall

LEMMA OnFinishedIInv == ASSUME IInv, NEW c \in Calls, OnFinished(c) PROVE IInv'
<1>1. CASE promise[c] # "pending" \/ kind[c] = "broken"
  BY <1>1, IgnoreIInv DEF OnFinished
<1>2. CASE promise[c] = "pending" /\ kind[c] = "clean"
  BY <1>2, StartTaskIInv
<1>3. CASE promise[c] = "pending" /\ kind[c] \notin {"broken", "clean"}
  <2>1. Reads(c, Tail(inbox[c])) /\ conns[c] # {}
    BY HandlerRuns DEF OnFinished
  <2>2. aborting' \subseteq Calls
    BY TypeParts DEF IInv, CallTypes, OnFinished
  <2>3. /\ Fail(c, "failed", Tail(inbox[c])) /\ PostDeletion(c)
        /\ UNCHANGED <<dispatch, call, cbVars, task>>
    BY <1>3 DEF OnFinished, Process
  <2> QED BY <2>1, <2>2, <2>3, FailIInv
<1> QED BY <1>1, <1>2, <1>3

LEMMA RunTaskIInv == ASSUME IInv, NEW c \in Calls, RunTask(c) PROVE IInv'
<1>1. CallInv(c) /\ SlotTypes /\ CallTypes /\ CbTypes /\ ReplyTypes
  BY TypeParts DEF IInv
<1>2. /\ c \in task /\ task' = task \ {c}
      /\ UNCHANGED <<slotVars, dispatch, call, future, cbVars, replyVars, inbox, deletion, aborting>>
  BY DEF RunTask
<1>3. /\ promise' \in [Calls -> {"none", "pending", "ok", "failed", "canceled"}]
      /\ promise'[c] = IF promise[c] = "pending" THEN "ok" ELSE promise[c]
      /\ remembered' = IF promise[c] = "pending" THEN remembered \ {c} ELSE remembered
      /\ \A d \in Calls \ {c} : promise'[d] = promise[d]
  BY <1>1 DEF RunTask, CallTypes
<1>4. SlotTypes' /\ CallTypes' /\ CbTypes' /\ ReplyTypes'
  <2>1. SlotTypes' /\ CbTypes'
    BY <1>1, <1>2 DEF SlotTypes, CbTypes, slotVars, cbVars
  <2>2. CallTypes'
    BY <1>1, <1>2, <1>3 DEF CallTypes
  <2>3. ReplyTypes'
    BY <1>1, <1>2 DEF ReplyTypes, replyVars
  <2> QED BY <2>1, <2>2, <2>3
<1>5. QueueInv'
  BY <1>2 DEF IInv, QueueInv, slotVars
<1>6. CallInv(c)'
  <2>1. DispatchInv(c)'
    BY <1>1, <1>2 DEF CallInv, DispatchInv, Waits, slotVars, replyVars
  <2>2. CallbackInv(c)'
    BY <1>1, <1>2 DEF CallInv, CallbackInv, CbRuns, cbVars, replyVars
  <2>3. InboxInv(c)'
    BY <1>1, <1>2 DEF CallInv, InboxInv, NoFinished, FinishedLast, slotVars, cbVars, replyVars
  <2>4. AnswerInv(c)'
    BY <1>1, <1>2, <1>3 DEF CallInv, AnswerInv, CbRuns, cbVars, replyVars
  <2> QED BY <2>1, <2>2, <2>3, <2>4 DEF CallInv
<1>7. \A d \in Calls \ {c} : Untouched(d)
  BY <1>2, <1>3 DEF Untouched, Waits, slotVars, cbVars, replyVars
<1> QED BY <1>4, <1>5, <1>6, <1>7, OneCall

LEMMA DeleteReplyIInv == ASSUME IInv, NEW c \in Calls, DeleteReply(c) PROVE IInv'
<1>1. CallInv(c) /\ SlotTypes /\ CallTypes /\ CbTypes /\ ReplyTypes
  BY TypeParts DEF IInv
<1>2. /\ deletion[c] = "posted" /\ deletion' = [deletion EXCEPT ![c] = "deleted"]
      /\ UNCHANGED <<slotVars, dispatch, call, fillVars, cbVars, replyVars, inbox, task, aborting>>
  BY DEF DeleteReply
<1>3. CbRuns(c) => cbOn[c] = "caller"
  BY <1>1 DEF DeleteReply, QnamBusy, CallInv, CallbackInv, CbTypes
<1>4. /\ deletion' \in [Calls -> {"none", "posted", "deleted"}]
      /\ deletion'[c] = "deleted" /\ \A d \in Calls \ {c} : deletion'[d] = deletion[d]
  BY <1>1, <1>2 DEF ReplyTypes
<1>5. SlotTypes' /\ CallTypes' /\ CbTypes' /\ ReplyTypes'
  <2>1. SlotTypes' /\ CallTypes'
    BY <1>1, <1>2 DEF SlotTypes, CallTypes, slotVars, fillVars
  <2>2. CbTypes' /\ ReplyTypes'
    BY <1>1, <1>2, <1>4 DEF CbTypes, ReplyTypes, cbVars, replyVars
  <2> QED BY <2>1, <2>2
<1>6. QueueInv'
  BY <1>2 DEF IInv, QueueInv, slotVars
<1>7. CallInv(c)'
  <2>1. DispatchInv(c)'
    BY <1>1, <1>2 DEF CallInv, DispatchInv, Waits, slotVars, replyVars
  <2>2. CallbackInv(c)'
    BY <1>1, <1>2 DEF CallInv, CallbackInv, CbRuns, fillVars, cbVars, replyVars
  <2>3. InboxInv(c)'
    BY <1>1, <1>2 DEF CallInv, InboxInv, NoFinished, FinishedLast, slotVars, cbVars, replyVars
  <2>4. AnswerInv(c)'
    BY <1>1, <1>2, <1>3, <1>4 DEF CallInv, AnswerInv, CbRuns, fillVars, cbVars, replyVars
  <2> QED BY <2>1, <2>2, <2>3, <2>4 DEF CallInv
<1>8. \A d \in Calls \ {c} : Untouched(d)
  BY <1>2, <1>4 DEF Untouched, Waits, slotVars, fillVars, cbVars, replyVars
<1> QED BY <1>5, <1>6, <1>7, <1>8, OneCall

(* Every step keeps IInv.                                                  *)
LEMMA NextIInv == IInv /\ [Next]_vars => IInv'
<1> SUFFICES ASSUME IInv, [Next]_vars PROVE IInv'
  OBVIOUS
<1>1. CASE Dispatcher
  BY <1>1, DispatchIInv, SkipIInv, SendIInv, DeliverIInv DEF Dispatcher
<1>2. CASE AbortAllRequests
  BY <1>2, AbortAllIInv
<1>3. ASSUME NEW c \in Calls, Caller(c) \/ Cancel(c) \/ AbortNext(c)
      PROVE  IInv'
  BY <1>3, RequestIInv, AttachIInv, RememberIInv, CancelIInv, AbortNextIInv DEF Caller
<1>4. ASSUME NEW c \in Calls, Callback(c)
      PROVE  IInv'
  BY <1>4, CbIsFilledIInv, CbGuardIInv, CbIsFinishedIInv, CbConnectIInv DEF Callback
<1>5. ASSUME NEW c \in Calls, Signals(c) \/ Timeout(c) \/ DeleteReply(c)
      PROVE  IInv'
  BY <1>5, ReplyFinishedIInv, ReplyErrorIInv, ReplySslErrorsIInv, TimeoutIInv,
     DeleteReplyIInv DEF Signals
<1>6. ASSUME NEW c \in Calls, Handler(c) \/ RunTask(c)
      PROVE  IInv'
  BY <1>6, OnFinishedIInv, OnErrorIInv, OnSslErrorsIInv, RunTaskIInv DEF Handler
<1>7. CASE UNCHANGED vars
  <2>1. SlotTypes' /\ CallTypes' /\ CbTypes' /\ ReplyTypes'
    <3>1. SlotTypes /\ CallTypes /\ CbTypes /\ ReplyTypes
      BY TypeParts DEF IInv
    <3>2. SlotTypes' /\ CallTypes'
      BY <1>7, <3>1 DEF SlotTypes, CallTypes, vars, slotVars, fillVars
    <3>3. CbTypes' /\ ReplyTypes'
      BY <1>7, <3>1 DEF CbTypes, ReplyTypes, vars, cbVars, replyVars
    <3> QED BY <3>2, <3>3
  <2>2. QueueInv'
    BY <1>7 DEF IInv, QueueInv, vars, slotVars
  <2>3. \A d \in Calls : Untouched(d)
    BY <1>7 DEF Untouched, Waits, vars, slotVars, fillVars, cbVars, replyVars
  <2>4. \A d \in Calls : CallInv(d)'
    BY <2>3, UntouchedInv DEF IInv
  <2> QED BY <2>1, <2>2, <2>4, TypeParts DEF IInv
<1> QED BY <1>1, <1>2, <1>3, <1>4, <1>5, <1>6, <1>7 DEF Next

LEMMA SpecIInv == Spec => []IInv
<1> QED BY InitIInv, NextIInv, PTL DEF Spec

-----------------------------------------------------------------------------
(* The theorems.                                                           *)

(* For any number of calls and any limit, a call succeeds only with a      *)
(* reply that ended clean (baserestapi.cpp:134-198, 228-268).              *)
THEOREM SuccessesAreClean == Spec => []OkMeansClean
<1>1. IInv => OkMeansClean
  BY DEF IInv, CallInv, AnswerInv, OkMeansClean
<1> QED BY <1>1, SpecIInv, PTL

(* allReplies holds exactly the calls that are still open, so that         *)
(* abortAllRequests reaches them all (baserestapi.cpp:88-95, 341-355).     *)
THEOREM OpenCallsAreRemembered == Spec => []RememberedWhilePending
<1>1. IInv => RememberedWhilePending
  BY DEF IInv, CallInv, AnswerInv, RememberedWhilePending
<1> QED BY <1>1, SpecIInv, PTL

(* Whoever answers or fails a call has handed its reply to deleteLater,    *)
(* and so has a callback that connected no handler.                        *)
THEOREM RepliesAreAlwaysReleased == Spec => []RepliesAreReleased
<1>1. IInv => RepliesAreReleased
  BY DEF IInv, CallInv, AnswerInv, RepliesAreReleased
<1> QED BY <1>1, SpecIInv, PTL

(* A deleted reply is met by no queued handler and by no callback on the   *)
(* qnam thread, but only, with the answer decided, by a callback on the    *)
(* caller's thread still connecting error and sslErrors                    *)
(* (baserestapi.cpp:244-252) and by the abort of a call canceled while its *)
(* success waits for a pool thread (139, 223-226).                         *)
THEOREM DeletedIsTouchedOnlyLate == Spec => OnlyLateStepsTouchDeleted
<1>1. IInv => HandlersStayAway
  <2> SUFFICES ASSUME IInv, NEW c \in Calls, deletion[c] = "deleted"
               PROVE  /\ inbox[c] # <<>> => promise[c] # "pending"
                      /\ CbRuns(c) => /\ cbOn[c] = "caller"
                                      /\ cb[c] \in {"connect2", "connect3"}
                                      /\ promise[c] # "pending" \/ c \in task
    BY DEF HandlersStayAway
  <2>1. CallbackInv(c) /\ AnswerInv(c)
    BY DEF IInv, CallInv
  <2>2. cb[c] \in {"none", "attached", "entered", "guard", "finished?",
                   "connect1", "connect2", "connect3", "done"}
    BY DEF IInv, TypeOK
  <2>3. promise[c] # "pending" \/ (c \in task /\ inbox[c] = <<>>)
    BY <2>1 DEF AnswerInv
  <2>4. ASSUME CbRuns(c)
        PROVE  cbOn[c] = "caller" /\ cb[c] \in {"connect2", "connect3"}
    BY <2>1, <2>2, <2>4 DEF AnswerInv, CallbackInv, CbRuns
  <2> QED BY <2>3, <2>4
<1>2. IInv => \A c \in Calls : promise[c] = "pending" /\ deletion[c] = "deleted" => c \in task
  BY DEF IInv, CallInv, AnswerInv
<1>3. IInv /\ HandlersStayAway' =>
         /\ HandlersStayAway'
         /\ \A c \in Calls :
               /\ promise[c] = "pending" /\ promise'[c] \in {"failed", "canceled"}
               /\ c \in guarded /\ deletion[c] = "deleted"
               => c \in task
  BY <1>2
<1> QED BY <1>1, <1>3, SpecIInv, PTL DEF OnlyLateStepsTouchDeleted

=============================================================================
