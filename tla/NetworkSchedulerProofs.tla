----------------------- MODULE NetworkSchedulerProofs -----------------------
(***************************************************************************)
(* For any number of requests and hosts and any limit: the scheduler's     *)
(* counters are exact, no host has more than Limit replies running, and    *)
(* every step of the scheduler is one that HostSlots allows.               *)
(***************************************************************************)
EXTENDS NetworkScheduler, FiniteSetTheorems, SequenceTheorems, TLAPS

(* Appending keeps the entries and adds one.                               *)
LEMMA AppendEntries ==
    ASSUME NEW S, NEW s \in Seq(S), NEW e \in S
    PROVE  /\ Append(s, e) \in Seq(S)
           /\ Len(Append(s, e)) = Len(s) + 1
           /\ \A j \in 1 .. Len(s) : Append(s, e)[j] = s[j]
           /\ Append(s, e)[Len(s) + 1] = e
  BY AppendProperties

(* Removing entry i closes the gap it leaves.                              *)
LEMMA RemoveEntries ==
    ASSUME NEW S, NEW s \in Seq(S), NEW i \in 1 .. Len(s)
    PROVE  /\ RemoveAt(s, i) \in Seq(S)
           /\ Len(RemoveAt(s, i)) = Len(s) - 1
           /\ \A j \in 1 .. Len(s) - 1 :
                 RemoveAt(s, i)[j] = IF j < i THEN s[j] ELSE s[j + 1]
<1> DEFINE a == SubSeq(s, 1, i - 1)
           b == SubSeq(s, i + 1, Len(s))
<1>1. Len(s) \in Nat /\ \A j \in 1 .. Len(s) : s[j] \in S
  BY ElementOfSeq, LenProperties
<1>2. /\ a \in Seq(S)
      /\ Len(a) = i - 1
      /\ \A j \in 1 .. i - 1 : a[j] = s[j]
  <2>1. \A j \in 1 .. i - 1 : s[j] \in S
    BY <1>1
  <2>2. /\ a \in Seq(S)
        /\ Len(a) = IF 1 <= i - 1 THEN (i - 1) - 1 + 1 ELSE 0
        /\ \A j \in 1 .. (i - 1) - 1 + 1 : a[j] = s[1 + j - 1]
    BY <1>1, <2>1, SubSeqProperties
  <2> HIDE DEF a
  <2> QED BY <1>1, <2>2
<1>3. /\ b \in Seq(S)
      /\ Len(b) = Len(s) - i
      /\ \A j \in 1 .. Len(s) - i : b[j] = s[i + j]
  <2>1. \A j \in i + 1 .. Len(s) : s[j] \in S
    BY <1>1
  <2>2. i + 1 \in Int /\ Len(s) \in Int
    BY <1>1
  <2>3. /\ b \in Seq(S)
        /\ Len(b) = IF i + 1 <= Len(s) THEN Len(s) - (i + 1) + 1 ELSE 0
        /\ \A j \in 1 .. Len(s) - (i + 1) + 1 : b[j] = s[(i + 1) + j - 1]
    BY <2>1, <2>2, SubSeqProperties
  <2> HIDE DEF b
  <2> QED BY <1>1, <2>3
<1>4. RemoveAt(s, i) = a \o b
  BY DEF RemoveAt
<1> HIDE DEF a, b
<1>5. /\ a \o b \in Seq(S)
      /\ Len(a \o b) = Len(a) + Len(b)
      /\ \A j \in 1 .. Len(a) + Len(b) :
            (a \o b)[j] = IF j <= Len(a) THEN a[j] ELSE b[j - Len(a)]
  BY <1>2, <1>3, ConcatProperties
<1>6. ASSUME NEW j \in 1 .. Len(s) - 1
      PROVE  (a \o b)[j] = IF j < i THEN s[j] ELSE s[j + 1]
  <2>1. (a \o b)[j] = IF j <= i - 1 THEN a[j] ELSE b[j - (i - 1)]
    BY <1>1, <1>2, <1>3, <1>5
  <2>2. CASE j <= i - 1
    BY <1>2, <2>1, <2>2
  <2>3. CASE j > i - 1
    <3>1. b[j - (i - 1)] = s[i + (j - (i - 1))]
      BY <1>1, <1>3, <2>3
    <3>2. i + (j - (i - 1)) = j + 1
      BY <1>1
    <3>3. ~ (j <= i - 1) /\ ~ (j < i)
      BY <1>1, <2>3
    <3>4. (a \o b)[j] = b[j - (i - 1)]
      BY <2>1, <3>3, Zenon
    <3>5. (a \o b)[j] = s[j + 1]
      BY <3>1, <3>2, <3>4
    <3> QED BY <3>3, <3>5
  <2>4. j <= i - 1 \/ j > i - 1
    BY <1>1
  <2> QED BY <2>2, <2>3, <2>4, Zenon
<1> QED BY <1>1, <1>2, <1>3, <1>4, <1>5, <1>6


-----------------------------------------------------------------------------
(* What schedule() does to the stack of its calls.                         *)

(* Entering and leaving schedule() keep the stack a stack.                 *)
LEMMA PushFrame ==
    ASSUME NEW S, NEW s \in Seq(S), NEW e \in S
    PROVE  <<e>> \o s \in Seq(S) /\ <<e>> \o s # <<>>
<1>1. <<e>> \in Seq(S) /\ Len(<<e>>) = 1
  OBVIOUS
<1>2. <<e>> \o s \in Seq(S) /\ Len(<<e>> \o s) = 1 + Len(s)
  BY <1>1, ConcatProperties
<1> QED BY <1>2, LenProperties, EmptySeq

LEMMA PopFrame ==
    ASSUME NEW S, NEW s \in Seq(S), s # <<>>
    PROVE  /\ Head(s) \in S
           /\ Tail(s) \in Seq(S)
           /\ Len(s) = 1 <=> Tail(s) = <<>>
<1>1. Head(s) \in S /\ Tail(s) \in Seq(S) /\ Len(Tail(s)) = Len(s) - 1
  BY HeadTailProperties
<1>2. Len(s) \in Nat
  BY LenProperties
<1>3. Len(Tail(s)) = 0 <=> Tail(s) = <<>>
  BY <1>1, EmptySeq
<1> QED BY <1>1, <1>2, <1>3

-----------------------------------------------------------------------------
(* What a step does to the slots, and so to the counters.                  *)

(* The sets that are counted are finite.                                   *)
LEMMA HoldersFinite ==
    \A h \in Hosts : IsFiniteSet(Holders(h)) /\ Cardinality(Holders(h)) \in Nat
<1>1. \A h \in Hosts : Holders(h) \subseteq Requests
  BY DEF Holders
<1> QED BY <1>1, HostsAssumption, FS_Subset, FS_CardinalityType

(* A step that takes and gives back no slot must leave the counters alone. *)
LEMMA SameHolders ==
    ASSUME SlotAccounting, UNCHANGED usages,
           \A r \in Requests : Holds(r)' <=> Holds(r)
    PROVE  SlotAccounting'
<1>1. \A h \in Hosts : Holders(h)' = Holders(h)
  BY DEF Holders
<1> QED BY <1>1 DEF SlotAccounting

(* A step that takes a slot must count it, and finds it below the limit.   *)
LEMMA NewHolder ==
    ASSUME TypeOK, SlotAccounting,
           NEW r \in Requests, Free(HostOf[r]), IncreaseUsage(HostOf[r]),
           ~ Holds(r),
           \A q \in Requests : Holds(q)' <=> Holds(q) \/ q = r
    PROVE  SlotAccounting' /\ usages' \in [Hosts -> 0 .. Limit]
<1>1. \A h \in Hosts : h # HostOf[r] => Holders(h)' = Holders(h)
  BY DEF Holders
<1>2. HostOf[r] \in Hosts =>
         /\ Holders(HostOf[r])' = Holders(HostOf[r]) \cup {r}
         /\ r \notin Holders(HostOf[r])
  BY DEF Holders
<1>3. HostOf[r] \in Hosts =>
         Cardinality(Holders(HostOf[r])') = Cardinality(Holders(HostOf[r])) + 1
  BY <1>2, HoldersFinite, FS_AddElement
<1>4. \A h \in Hosts : usages[h] \in 0 .. Limit
  BY DEF TypeOK
<1>5. usages' \in [Hosts -> 0 .. Limit]
  BY <1>4, LimitAssumption DEF IncreaseUsage, Free
<1>6. ASSUME NEW h \in Hosts
      PROVE  usages'[h] = Cardinality(Holders(h)')
  <2>1. CASE h = HostOf[r]
    BY <2>1, <1>3, <1>4 DEF SlotAccounting, IncreaseUsage
  <2>2. CASE h # HostOf[r]
    BY <2>2, <1>1, <1>4 DEF SlotAccounting, IncreaseUsage
  <2> QED BY <2>1, <2>2
<1> QED BY <1>5, <1>6 DEF SlotAccounting

(* A step that gives a slot back must uncount it, and then it was counted. *)
LEMMA OldHolder ==
    ASSUME TypeOK, SlotAccounting,
           NEW r \in Requests, DecreaseUsage(HostOf[r]),
           Holds(r),
           \A q \in Requests : Holds(q)' <=> Holds(q) /\ q # r
    PROVE  SlotAccounting' /\ usages' \in [Hosts -> 0 .. Limit]
<1>1. \A h \in Hosts : h # HostOf[r] => Holders(h)' = Holders(h)
  BY DEF Holders
<1>2. HostOf[r] \in Hosts =>
         /\ Holders(HostOf[r])' = Holders(HostOf[r]) \ {r}
         /\ r \in Holders(HostOf[r])
  BY DEF Holders
<1>3. HostOf[r] \in Hosts =>
         /\ Cardinality(Holders(HostOf[r])') = Cardinality(Holders(HostOf[r])) - 1
         /\ Cardinality(Holders(HostOf[r])') \in Nat
  <2>1. ASSUME HostOf[r] \in Hosts
        PROVE  /\ IsFiniteSet(Holders(HostOf[r]) \ {r})
               /\ Cardinality(Holders(HostOf[r]) \ {r}) = Cardinality(Holders(HostOf[r])) - 1
    BY <1>2, <2>1, HoldersFinite, FS_RemoveElement
  <2> QED BY <1>2, <2>1, FS_CardinalityType
<1>4. \A h \in Hosts : usages[h] \in 0 .. Limit
  BY DEF TypeOK
<1>5. usages' \in [Hosts -> 0 .. Limit]
  BY <1>4, LimitAssumption DEF DecreaseUsage
<1>6. ASSUME NEW h \in Hosts
      PROVE  usages'[h] = Cardinality(Holders(h)')
  <2>1. CASE h = HostOf[r]
    <3>1. usages[h] = Cardinality(Holders(h)) /\ usages[h] > 0
      BY <2>1, <1>3, HoldersFinite DEF SlotAccounting
    <3> QED BY <2>1, <3>1, <1>3, <1>4 DEF DecreaseUsage
  <2>2. CASE h # HostOf[r]
    BY <2>2, <1>1, <1>4 DEF SlotAccounting, DecreaseUsage
  <2> QED BY <2>1, <2>2
<1> QED BY <1>5, <1>6 DEF SlotAccounting

-----------------------------------------------------------------------------
(* IInv is inductive: one lemma for each action that moves a slot or the   *)
(* queue, one for those that move neither.                                 *)

(* IInv holds initially: nothing is queued and nothing is held.            *)
LEMMA InitIInv == Init => IInv
<1> SUFFICES ASSUME Init PROVE IInv
  OBVIOUS
<1>1. Len(requests) = 0
  BY DEF Init
<1>2. \A r \in Requests : ~ Holds(r)
  BY DEF Init, Holds, Dispatching, Leaked
<1>3. TypeOK
  BY LimitAssumption DEF Init, TypeOK
<1>4. SlotAccounting
  <2>1. \A h \in Hosts : Holders(h) = {}
    BY <1>2 DEF Holders
  <2> QED BY <2>1, FS_EmptySet DEF Init, SlotAccounting
<1>5. QueueInv
  BY <1>1 DEF QueueInv, Queued
<1>6. PhaseInv
  BY DEF Init, PhaseInv, Dispatching
<1> QED BY <1>3, <1>4, <1>5, <1>6 DEF IInv

(* A new request goes to the end of the queue and holds nothing.           *)
LEMMA EmplaceIInv ==
    ASSUME IInv, NEW r \in Requests, NEW next \in {"emplaced", "scheduling"},
           Emplace(r, next), UNCHANGED <<usages, checker, reply, posted>>,
           \/ UNCHANGED qnamVars
           \/ RunsCallbacks /\ EnterSchedule(r)
    PROVE  IInv'
<1> USE DEF IInv
<1>1. /\ requests' \in Seq(Requests)
      /\ Len(requests') = Len(requests) + 1
      /\ Len(requests) \in Nat
      /\ \A j \in 1 .. Len(requests) : requests'[j] = requests[j]
      /\ \A j \in 1 .. Len(requests) : requests[j] \in Requests
      /\ requests'[Len(requests) + 1] = r
  BY AppendEntries, LenProperties, ElementOfSeq DEF TypeOK, Emplace
<1>2. promise[r] = "none"
  BY DEF PhaseInv, Emplace
<1>3. \A q \in Requests : Dispatching(q)' <=> Dispatching(q)
  BY DEF RunsCallbacks, EnterSchedule, Dispatching, qnamVars
<1>4. \A q \in Requests : Holds(q)' <=> Holds(q)
  BY <1>3 DEF Holds, Leaked
<1>5. TypeOK'
  <2>1. frames' \in Seq(Requests \cup {NoRequest}) /\ pc' \in {"idle", "check", "take", "thunk", "send", "fill", "callbacks"}
    <3>1. r \in Requests \cup {NoRequest} /\ frames \in Seq(Requests \cup {NoRequest})
      BY DEF TypeOK
    <3>2. <<r>> \o frames \in Seq(Requests \cup {NoRequest})
      BY <3>1, PushFrame
    <3> QED BY <3>1, <3>2 DEF TypeOK, EnterSchedule, qnamVars
  <2> QED BY <1>1, <2>1 DEF TypeOK, Emplace, EnterSchedule, qnamVars
<1>6. SlotAccounting'
  BY <1>4, SameHolders
<1>7. ~ Holds(r)
  BY <1>2 DEF PhaseInv, Holds, Leaked
<1>8. QueueInv'
  <2>1. \A j \in 1 .. Len(requests') : j \in 1 .. Len(requests) \/ j = Len(requests) + 1
    BY <1>1
  <2>2. \A q \in Requests : Queued(q)' => Queued(q) \/ q = r
    BY <1>1, <2>1 DEF Queued
  <2>3. \A j \in 1 .. Len(requests) : requests[j] # r
    BY <1>1, <1>2 DEF QueueInv, Queued
  <2>4. \A i, j \in 1 .. Len(requests') : requests'[i] = requests'[j] => i = j
    BY <1>1, <2>1, <2>3 DEF QueueInv
  <2>5. ASSUME NEW q \in Requests, Queued(q)'
        PROVE  /\ promise'[q] \in {"pending", "canceled"}
               /\ reply'[q] = "none"
               /\ ~ Holds(q)'
    BY <1>2, <1>4, <1>7, <2>2, <2>5 DEF QueueInv, PhaseInv, TypeOK, Emplace
  <2> QED BY <2>4, <2>5 DEF QueueInv
<1>9. PhaseInv'
  <2>1. pc' = "idle" <=> frames' = <<>>
    BY PushFrame DEF PhaseInv, TypeOK, EnterSchedule, qnamVars
  <2> QED BY <1>2, <1>3, <2>1 DEF PhaseInv, TypeOK, Emplace, EnterSchedule, RunsCallbacks, Dispatching, qnamVars
<1> QED BY <1>5, <1>6, <1>8, <1>9

(* The candidate leaves the queue and takes a slot of its host.            *)
LEMMA TakeIInv == IInv /\ TakeCandidate => IInv'
<1> SUFFICES ASSUME IInv, TakeCandidate PROVE IInv'
  OBVIOUS
<1> USE DEF IInv
<1> PICK i \in 1 .. Len(requests) :
          /\ IsCandidate(i)
          /\ candidate' = requests[i]
          /\ IncreaseUsage(HostOf[requests[i]])
          /\ requests' = RemoveAt(requests, i)
  BY DEF TakeCandidate
<1> DEFINE r == requests[i]
<1>1. /\ requests' \in Seq(Requests)
      /\ Len(requests) \in Nat
      /\ Len(requests') = Len(requests) - 1
      /\ \A j \in 1 .. Len(requests) - 1 :
            requests'[j] = IF j < i THEN requests[j] ELSE requests[j + 1]
      /\ \A j \in 1 .. Len(requests) : requests[j] \in Requests
  BY RemoveEntries, LenProperties, ElementOfSeq DEF TypeOK
<1>2. /\ r \in Requests
      /\ promise[r] \in {"pending", "canceled"}
      /\ reply[r] = "none"
      /\ ~ Holds(r)
      /\ checker[r] = "none"
      /\ candidate' = r
  <2>1. r \in Requests /\ Queued(r)
    BY <1>1 DEF Queued
  <2> QED BY <2>1 DEF QueueInv, PhaseInv
<1> HIDE DEF r
<1>3. \A q \in Requests : ~ Dispatching(q) /\ (Dispatching(q)' <=> q = r)
  BY <1>2 DEF TakeCandidate, Dispatching
<1>4. \A q \in Requests : Holds(q)' <=> Holds(q) \/ q = r
  BY <1>2, <1>3 DEF TakeCandidate, Holds, Leaked
<1>5. SlotAccounting' /\ usages' \in [Hosts -> 0 .. Limit]
  BY <1>2, <1>4, NewHolder DEF IsCandidate, r
<1>6. TypeOK'
  BY <1>1, <1>2, <1>5 DEF TypeOK, TakeCandidate, clientVars
<1>7. QueueInv'
  <2>1. \A j \in 1 .. Len(requests') :
           \E k \in 1 .. Len(requests) : k # i /\ requests'[j] = requests[k]
    <3> TAKE j \in 1 .. Len(requests')
    <3>1. CASE j < i
      BY <1>1, <3>1
    <3>2. CASE ~ (j < i)
      <4>1. j + 1 \in 1 .. Len(requests) /\ j + 1 # i /\ requests'[j] = requests[j + 1]
        BY <1>1, <3>2
      <4> QED BY <4>1
    <3> QED BY <3>1, <3>2
  <2>2. \A j, k \in 1 .. Len(requests') : requests'[j] = requests'[k] => j = k
    <3> TAKE j, k \in 1 .. Len(requests')
    <3> DEFINE f(x) == IF x < i THEN x ELSE x + 1
    <3>1. f(j) \in 1 .. Len(requests) /\ f(k) \in 1 .. Len(requests)
      BY <1>1
    <3>2. requests'[j] = requests[f(j)] /\ requests'[k] = requests[f(k)]
      BY <1>1
    <3>3. requests[f(j)] = requests[f(k)] => f(j) = f(k)
      BY <3>1 DEF QueueInv
    <3>4. f(j) = f(k) => j = k
      BY <1>1
    <3> HIDE DEF f
    <3> QED BY <3>2, <3>3, <3>4
  <2>3. \A q \in Requests : Queued(q)' => Queued(q) /\ q # r
    BY <2>1 DEF Queued, QueueInv, r
  <2>4. ASSUME NEW q \in Requests, Queued(q)'
        PROVE  /\ promise'[q] \in {"pending", "canceled"}
               /\ reply'[q] = "none"
               /\ ~ Holds(q)'
    BY <1>4, <2>3, <2>4 DEF QueueInv, TakeCandidate, clientVars
  <2> QED BY <2>2, <2>4 DEF QueueInv
<1>8. PhaseInv'
  BY <1>2, <1>3 DEF PhaseInv, TakeCandidate, clientVars
<1> QED BY <1>5, <1>6, <1>7, <1>8

(* A step that leaves the queue alone keeps QueueInv if it neither sends   *)
(* nor fulfils a request that is still waiting.                            *)
LEMMA SameQueue ==
    ASSUME IInv, UNCHANGED requests,
           \A q \in Requests :
              /\ promise[q] \in {"pending", "canceled"}
              /\ reply[q] = "none"
              /\ ~ Holds(q)
              => /\ promise'[q] \in {"pending", "canceled"}
                 /\ reply'[q] = "none"
                 /\ ~ Holds(q)'
    PROVE  QueueInv'
<1>1. \A q \in Requests : Queued(q)' <=> Queued(q)
  BY DEF Queued
<1> QED BY <1>1 DEF IInv, QueueInv

(* Returning from schedule() leaves a stack of the activations below.      *)
LEMMA LeaveFrame ==
    ASSUME IInv, pc # "idle", LeaveSchedule
    PROVE  /\ frames' \in Seq(Requests \cup {NoRequest})
           /\ pc' \in {"idle", "callbacks"}
           /\ pc' = "idle" <=> frames' = <<>>
           /\ caller' \in [Requests -> {"idle", "emplaced", "scheduling", "returned"}]
           /\ \A r \in Requests : caller'[r] = "idle" => caller[r] = "idle"
           /\ candidate' = candidate
<1>1. frames \in Seq(Requests \cup {NoRequest}) /\ frames # <<>>
  BY DEF IInv, TypeOK, PhaseInv
<1>2. /\ Tail(frames) \in Seq(Requests \cup {NoRequest})
      /\ Len(frames) = 1 <=> Tail(frames) = <<>>
  BY <1>1, PopFrame
<1> QED BY <1>2 DEF LeaveSchedule, IInv, TypeOK

(* Entering schedule() pushes an activation.                               *)
LEMMA EnterFrame ==
    ASSUME IInv, NEW owner \in Requests \cup {NoRequest}, EnterSchedule(owner)
    PROVE  /\ frames' \in Seq(Requests \cup {NoRequest})
           /\ frames' # <<>>
           /\ pc' = "check"
           /\ candidate' = candidate
<1>1. frames \in Seq(Requests \cup {NoRequest})
  BY DEF IInv, TypeOK
<1> QED BY <1>1, PushFrame DEF EnterSchedule

(* The steps of other threads and of the loop that move no slot.           *)
LEMMA ClientIInv ==
    ASSUME IInv, NEW r \in Requests, PostSchedule(r) \/ Cancel(r)
    PROVE  IInv'
<1> USE DEF IInv
<1>1. \A q \in Requests : (Holds(q)' <=> Holds(q)) /\ (Dispatching(q)' <=> Dispatching(q))
  BY DEF PostSchedule, Cancel, qnamVars, Holds, Leaked, Dispatching
<1>2. TypeOK'
  <2>1. CASE PostSchedule(r)
    BY <2>1 DEF PostSchedule, qnamVars, TypeOK
  <2>2. CASE Cancel(r)
    BY <2>2 DEF Cancel, qnamVars, TypeOK
  <2> QED BY <2>1, <2>2
<1>3. SlotAccounting'
  BY <1>1, SameHolders DEF PostSchedule, Cancel
<1>4. QueueInv'
  BY <1>1, SameQueue DEF PostSchedule, Cancel, TypeOK
<1>5. PhaseInv'
  BY <1>1 DEF PostSchedule, Cancel, qnamVars, PhaseInv, TypeOK
<1> QED BY <1>2, <1>3, <1>4, <1>5

LEMMA LoopIInv ==
    ASSUME IInv,
           RunPostedSchedule \/ CheckQueue \/ NoCandidate \/ DecideToSend \/ CallbacksReturn
    PROVE  IInv'
<1> USE DEF IInv
<1>1. UNCHANGED <<requests, usages, promise, checker, reply>>
  BY DEF RunPostedSchedule, CheckQueue, NoCandidate, DecideToSend, CallbacksReturn, clientVars
<1>2. /\ frames' \in Seq(Requests \cup {NoRequest})
      /\ pc' \in {"idle", "check", "take", "thunk", "send", "fill", "callbacks"}
      /\ pc' = "idle" <=> frames' = <<>>
      /\ caller' \in [Requests -> {"idle", "emplaced", "scheduling", "returned"}]
      /\ \A r \in Requests : caller'[r] = "idle" => caller[r] = "idle"
      /\ candidate' = candidate
      /\ posted' \in Nat
      /\ pc \in {"thunk", "send", "fill"} <=> pc' \in {"thunk", "send", "fill"}
      /\ pc' = "fill" <=> pc = "fill"
  <2>1. CASE RunPostedSchedule
    BY <2>1, EnterFrame DEF RunPostedSchedule, TypeOK, clientVars
  <2>2. CASE CheckQueue
    BY <2>2, LeaveFrame DEF CheckQueue, TypeOK, PhaseInv
  <2>3. CASE NoCandidate
    BY <2>3, LeaveFrame DEF NoCandidate, TypeOK
  <2>4. CASE DecideToSend
    BY <2>4 DEF DecideToSend, TypeOK, PhaseInv, clientVars
  <2>5. CASE CallbacksReturn
    BY <2>5 DEF CallbacksReturn, TypeOK, PhaseInv, clientVars
  <2> QED BY <2>1, <2>2, <2>3, <2>4, <2>5
<1>3. \A q \in Requests : (Holds(q)' <=> Holds(q)) /\ (Dispatching(q)' <=> Dispatching(q))
  BY <1>1, <1>2 DEF Holds, Leaked, Dispatching
<1>4. TypeOK'
  BY <1>1, <1>2 DEF TypeOK
<1>5. SlotAccounting'
  BY <1>1, <1>3, SameHolders
<1>6. QueueInv'
  BY <1>1, <1>3, SameQueue
<1>7. PhaseInv'
  BY <1>1, <1>2, <1>3 DEF PhaseInv
<1> QED BY <1>4, <1>5, <1>6, <1>7

(* A canceled candidate gives its slot back unsent.                        *)
LEMMA SkipIInv == IInv /\ SkipCanceled => IInv'
<1> SUFFICES ASSUME IInv, SkipCanceled PROVE IInv'
  OBVIOUS
<1> USE DEF IInv
<1>1. /\ candidate \in Requests
      /\ checker[candidate] = "none"
      /\ reply[candidate] = "none"
      /\ Holds(candidate)
  BY DEF PhaseInv, SkipCanceled, Holds, Dispatching
<1>2. \A q \in Requests : /\ Holds(q)' <=> Holds(q) /\ q # candidate
                          /\ ~ Dispatching(q)'
  BY <1>1 DEF SkipCanceled, Holds, Leaked, Dispatching
<1>3. SlotAccounting' /\ usages' \in [Hosts -> 0 .. Limit]
  BY <1>1, <1>2, OldHolder DEF SkipCanceled
<1>4. TypeOK'
  BY <1>3 DEF TypeOK, SkipCanceled, clientVars
<1>5. QueueInv'
  BY <1>2, SameQueue DEF SkipCanceled, clientVars
<1>6. PhaseInv'
  BY <1>2 DEF PhaseInv, SkipCanceled, clientVars
<1> QED BY <1>3, <1>4, <1>5, <1>6

(* Sending and filling the promise keep the candidate's slot: it is armed, *)
(* or, if the promise was canceled meanwhile, leaked.                      *)
LEMMA SendIInv == IInv /\ (Send \/ FillPromise \/ FillTooLate) => IInv'
<1> SUFFICES ASSUME IInv, Send \/ FillPromise \/ FillTooLate PROVE IInv'
  OBVIOUS
<1> USE DEF IInv
<1>1. /\ candidate \in Requests
      /\ checker[candidate] = "none"
      /\ promise[candidate] \in {"pending", "canceled"}
      /\ reply[candidate] = IF pc = "fill" THEN "running" ELSE "none"
      /\ Holds(candidate)
  BY DEF PhaseInv, Send, FillPromise, FillTooLate, Holds, Dispatching
<1>2. \A q \in Requests : Holds(q)' <=> Holds(q)
  BY <1>1 DEF Send, FillPromise, FillTooLate, Holds, Leaked, Dispatching, TypeOK
<1>3. \A q \in Requests : Dispatching(q)' => Dispatching(q)
  BY DEF Send, FillPromise, FillTooLate, Dispatching
<1>4. TypeOK'
  <2>1. CASE Send
    BY <2>1 DEF TypeOK, Send, clientVars
  <2>2. CASE FillPromise
    BY <2>2 DEF TypeOK, FillPromise, clientVars
  <2>3. CASE FillTooLate
    BY <2>3 DEF TypeOK, FillTooLate, clientVars
  <2> QED BY <2>1, <2>2, <2>3
<1>5. SlotAccounting'
  BY <1>2, SameHolders DEF Send, FillPromise, FillTooLate
<1>6. QueueInv'
  <2>1. \A q \in Requests \ {candidate} : promise'[q] = promise[q] /\ reply'[q] = reply[q]
    BY DEF Send, FillPromise, FillTooLate, clientVars, TypeOK
  <2>2. UNCHANGED requests
    BY DEF Send, FillPromise, FillTooLate
  <2> QED BY <1>1, <1>2, <2>1, <2>2, SameQueue
<1>7. PhaseInv'
  BY <1>1, <1>3 DEF PhaseInv, TypeOK, Send, FillPromise, FillTooLate, clientVars
<1> QED BY <1>4, <1>5, <1>6, <1>7

(* A reply's signal gives its slot back, once.                             *)
LEMMA ReplyIInv ==
    ASSUME IInv, NEW r \in Requests,
           ReplyFinished(r) \/ ReplyError(r) \/ ReplySslErrors(r)
    PROVE  IInv'
<1> USE DEF IInv
<1>1. /\ RunsCallbacks
      /\ Signal(r)
      /\ reply[r] # "none"
      /\ \E next \in {"failed", "tolerated", "finished"} : reply' = [reply EXCEPT ![r] = next]
      /\ UNCHANGED <<requests, clientVars, posted>>
  BY SslAssumption DEF ReplyFinished, ReplyError, ReplySslErrors, RunsCallbacks
<1>2. \A q \in Requests : ~ Dispatching(q) /\ ~ Dispatching(q)'
  BY <1>1 DEF RunsCallbacks, Signal, EnterSchedule, qnamVars, Dispatching
<1>3. /\ frames' \in Seq(Requests \cup {NoRequest})
      /\ pc' \in {"idle", "check", "callbacks"}
      /\ pc' = "idle" <=> frames' = <<>>
      /\ candidate' = candidate
  BY <1>1, EnterFrame DEF RunsCallbacks, Signal, qnamVars, PhaseInv, TypeOK
<1>4. \A q \in Requests \ {r} : reply'[q] = reply[q]
  BY <1>1 DEF TypeOK
<1>5. reply'[r] \in {"failed", "tolerated", "finished"}
  BY <1>1 DEF TypeOK
<1>6. CASE checker[r] = "armed"
  <2>1. /\ checker' = [checker EXCEPT ![r] = "fired"]
        /\ DecreaseUsage(HostOf[r])
    BY <1>1, <1>6 DEF Signal
  <2>2. Holds(r) /\ \A q \in Requests : Holds(q)' <=> Holds(q) /\ q # r
    BY <1>2, <1>4, <1>6, <2>1 DEF Holds, Leaked, TypeOK
  <2>3. SlotAccounting' /\ usages' \in [Hosts -> 0 .. Limit]
    BY <2>1, <2>2, OldHolder
  <2>4. TypeOK'
    BY <1>1, <1>3, <2>1, <2>3 DEF TypeOK, clientVars
  <2>5. QueueInv'
    BY <1>1, <1>4, <2>2, SameQueue DEF clientVars
  <2>6. PhaseInv'
    BY <1>1, <1>2, <1>3, <1>4, <1>5, <2>1 DEF PhaseInv, TypeOK, clientVars
  <2> QED BY <2>3, <2>4, <2>5, <2>6
<1>7. CASE checker[r] # "armed"
  <2>1. UNCHANGED <<checker, usages>>
    BY <1>1, <1>7 DEF Signal
  <2>2. \A q \in Requests : Holds(q)' <=> Holds(q)
    BY <1>1, <1>2, <1>4, <1>5, <2>1 DEF Holds, Leaked
  <2>3. SlotAccounting'
    BY <2>1, <2>2, SameHolders
  <2>4. TypeOK'
    BY <1>1, <1>3, <2>1 DEF TypeOK, clientVars
  <2>5. QueueInv'
    BY <1>1, <1>4, <2>2, SameQueue DEF clientVars
  <2>6. PhaseInv'
    BY <1>1, <1>2, <1>3, <1>4, <1>5, <1>7, <2>1 DEF PhaseInv, TypeOK, clientVars
  <2> QED BY <2>3, <2>4, <2>5, <2>6
<1> QED BY <1>6, <1>7

-----------------------------------------------------------------------------
(* The theorems.                                                           *)

(* No step of the scheduler breaks the inductive invariant.                *)
THEOREM Inductive == IInv /\ [Next]_vars => IInv'
<1> SUFFICES ASSUME IInv, [Next]_vars PROVE IInv'
  OBVIOUS
<1>1. ASSUME NEW r \in Requests, AddRequest(r) \/ AddRequestOnQnam(r)
      PROVE  IInv'
  BY <1>1, EmplaceIInv DEF AddRequest, AddRequestOnQnam
<1>2. CASE ScheduleLoop
  BY <1>2, LoopIInv, TakeIInv, SkipIInv, SendIInv DEF ScheduleLoop
<1>3. CASE UNCHANGED vars
  <2>1. \A q \in Requests : /\ Holds(q)' <=> Holds(q)
                            /\ Dispatching(q)' <=> Dispatching(q)
    BY <1>3 DEF vars, qnamVars, Holds, Leaked, Dispatching
  <2>2. SlotAccounting'
    BY <1>3, <2>1, SameHolders DEF IInv, vars
  <2>3. QueueInv'
    BY <1>3, <2>1, SameQueue DEF IInv, vars, clientVars
  <2>4. TypeOK' /\ PhaseInv'
    BY <1>3, <2>1 DEF IInv, TypeOK, PhaseInv, vars, clientVars, qnamVars
  <2> QED BY <2>2, <2>3, <2>4 DEF IInv
<1> QED BY <1>1, <1>2, <1>3, ClientIInv, LoopIInv, ReplyIInv DEF Next, Terminated

(* Whatever the order of clients, events and signals, the counter of each  *)
(* host is the number of its requests holding a slot, and stays in bounds. *)
THEOREM CountersAreExact == Spec => [](TypeOK /\ SlotAccounting)
<1>1. IInv => TypeOK /\ SlotAccounting
  BY DEF IInv
<1> QED BY <1>1, InitIInv, Inductive, PTL DEF Spec

(* A running reply holds its slot, so the exact counter bounds them.       *)
THEOREM HostLimitHolds == Spec => []HostLimit
<1>1. IInv => HostLimit
  <2> SUFFICES ASSUME IInv, NEW h \in Hosts
               PROVE  Cardinality({r \in Requests : HostOf[r] = h /\ reply[r] = "running"}) <= Limit
    BY DEF HostLimit
  <2> DEFINE running == {r \in Requests : HostOf[r] = h /\ reply[r] = "running"}
  <2>1. running \subseteq Holders(h)
    BY DEF IInv, PhaseInv, TypeOK, Holders, Holds, Leaked
  <2>2. Cardinality(running) <= Cardinality(Holders(h)) /\ Cardinality(running) \in Nat
    BY <2>1, HoldersFinite, FS_Subset, FS_CardinalityType
  <2>3. Cardinality(Holders(h)) <= Limit
    BY LimitAssumption DEF IInv, SlotAccounting, TypeOK
  <2> QED BY <2>2, <2>3, HoldersFinite, LimitAssumption
<1> QED BY <1>1, InitIInv, Inductive, PTL DEF Spec

-----------------------------------------------------------------------------
(* The scheduler implements HostSlots.                                     *)

Arrived == {r \in Requests : promise[r] # "none"}
Holding == {r \in Requests : Holds(r)}

(* What HostSlots counts for a host is what the counter counts.            *)
LEMMA HoldingOfHost == \A h : Slots!HoldingOf(h) = Holders(h)
  BY DEF Slots!HoldingOf, Holders

(* A step that changes none of the three parts of HostSlots' state.        *)
LEMMA SlotStutter ==
    ASSUME UNCHANGED requests,
           \A r \in Requests : /\ promise'[r] = "none" <=> promise[r] = "none"
                               /\ Holds(r)' <=> Holds(r)
    PROVE  UNCHANGED Slots!slotVars
<1>1. Arrived' = Arrived /\ Holding' = Holding
  BY DEF Arrived, Holding
<1> QED BY <1>1 DEF Slots!slotVars, Arrived, Holding

(* addRequest() is an arrival.                                             *)
LEMMA EmplaceArrives ==
    ASSUME IInv, NEW r \in Requests, AddRequest(r) \/ AddRequestOnQnam(r)
    PROVE  Slots!Arrive(r)
<1>1. /\ promise[r] = "none"
      /\ promise' = [promise EXCEPT ![r] = "pending"]
      /\ requests' = Append(requests, r)
      /\ UNCHANGED <<checker, reply>>
  BY DEF IInv, PhaseInv, AddRequest, AddRequestOnQnam, Emplace
<1>2. \A q \in Requests : Dispatching(q)' <=> Dispatching(q)
  BY DEF AddRequest, AddRequestOnQnam, qnamVars, RunsCallbacks, EnterSchedule, Dispatching
<1>3. \A q \in Requests : Holds(q)' <=> Holds(q)
  BY <1>1, <1>2 DEF Holds, Leaked
<1>4. r \notin Arrived /\ Arrived' = Arrived \cup {r} /\ Holding' = Holding
  BY <1>1, <1>3 DEF IInv, TypeOK, Arrived, Holding
<1> QED BY <1>1, <1>4 DEF Slots!Arrive, Arrived, Holding

(* Taking a candidate grants its slot to the oldest request of its host,   *)
(* because no entry before it has a free host.                             *)
LEMMA TakeGrants ==
    ASSUME IInv, TakeCandidate
    PROVE  \E i \in 1 .. Len(requests) : Slots!Grant(i)
<1> PICK i \in 1 .. Len(requests) :
          /\ IsCandidate(i)
          /\ candidate' = requests[i]
          /\ requests' = RemoveAt(requests, i)
  BY DEF TakeCandidate
<1>1. /\ requests[i] \in Requests
      /\ reply[requests[i]] = "none"
      /\ checker[requests[i]] = "none"
  <2>1. requests[i] \in Requests /\ Queued(requests[i])
    BY ElementOfSeq DEF IInv, TypeOK, Queued
  <2> QED BY <2>1 DEF IInv, QueueInv, PhaseInv
<1>2. \A q \in Requests : ~ Dispatching(q) /\ (Dispatching(q)' <=> q = requests[i])
  BY DEF TakeCandidate, Dispatching
<1>3. \A q \in Requests : Holds(q)' <=> Holds(q) \/ q = requests[i]
  BY <1>1, <1>2 DEF TakeCandidate, Holds, Leaked
<1>4. Holding' = Holding \cup {requests[i]} /\ Arrived' = Arrived
  BY <1>1, <1>3 DEF Holding, Arrived, TakeCandidate, clientVars
<1>5. \A j \in 1 .. i - 1 : HostOf[requests[j]] # HostOf[requests[i]]
  BY DEF IsCandidate
<1>6. HostOf[requests[i]] \in Hosts =>
         Cardinality(Slots!HoldingOf(HostOf[requests[i]])) < Limit
  BY HoldingOfHost DEF IsCandidate, Free, IInv, SlotAccounting
<1>7. Slots!Grant(i)
  <2>1. UNCHANGED Arrived /\ Holding' = Holding \cup {requests[i]}
    BY <1>4
  <2> QED BY <1>5, <1>6, <2>1, Zenon
         DEF Slots!Grant, Holding, Arrived,
             Slots!RemoveAt, RemoveAt, Slots!Cardinality, Cardinality
<1> QED BY <1>7

(* Skipping a canceled request returns its slot.                           *)
LEMMA SkipReturns ==
    ASSUME IInv, SkipCanceled
    PROVE  candidate \in Requests /\ Slots!Return(candidate)
<1>1. /\ candidate \in Requests
      /\ checker[candidate] = "none"
      /\ reply[candidate] = "none"
      /\ Holds(candidate)
  BY DEF IInv, PhaseInv, SkipCanceled, Holds, Dispatching
<1>2. \A q \in Requests : Holds(q)' <=> Holds(q) /\ q # candidate
  BY <1>1 DEF SkipCanceled, Holds, Leaked, Dispatching
<1>3. /\ candidate \in Holding
      /\ Holding' = Holding \ {candidate}
      /\ Arrived' = Arrived
      /\ UNCHANGED requests
  BY <1>1, <1>2 DEF Holding, Arrived, SkipCanceled, clientVars
<1> QED BY <1>1, <1>3 DEF Slots!Return, Holding, Arrived

(* A reply's first signal returns its slot, later ones change nothing.     *)
LEMMA ReplyReturns ==
    ASSUME IInv, NEW r \in Requests,
           ReplyFinished(r) \/ ReplyError(r) \/ ReplySslErrors(r)
    PROVE  Slots!Return(r) \/ UNCHANGED Slots!slotVars
<1>1. /\ RunsCallbacks
      /\ Signal(r)
      /\ reply[r] # "none"
      /\ \E next \in {"failed", "tolerated", "finished"} : reply' = [reply EXCEPT ![r] = next]
      /\ UNCHANGED <<requests, promise>>
  BY SslAssumption DEF ReplyFinished, ReplyError, ReplySslErrors, RunsCallbacks, clientVars
<1>2. \A q \in Requests : ~ Dispatching(q) /\ ~ Dispatching(q)'
  BY <1>1 DEF RunsCallbacks, Signal, EnterSchedule, qnamVars, Dispatching
<1>3. /\ \A q \in Requests \ {r} : reply'[q] = reply[q]
      /\ reply'[r] # "none"
  BY <1>1 DEF IInv, TypeOK
<1>4. CASE checker[r] = "armed"
  <2>1. Holds(r) /\ \A q \in Requests : Holds(q)' <=> Holds(q) /\ q # r
    BY <1>1, <1>2, <1>3, <1>4 DEF Signal, Holds, Leaked, IInv, TypeOK
  <2>2. r \in Holding /\ Holding' = Holding \ {r} /\ Arrived' = Arrived
    BY <1>1, <2>1 DEF Holding, Arrived
  <2> QED BY <1>1, <2>2 DEF Slots!Return, Holding, Arrived
<1>5. CASE checker[r] # "armed"
  <2>1. \A q \in Requests : Holds(q)' <=> Holds(q)
    BY <1>1, <1>2, <1>3, <1>5 DEF Signal, Holds, Leaked
  <2> QED BY <1>1, <2>1, SlotStutter
<1> QED BY <1>4, <1>5

(* Every step of the scheduler is a step of HostSlots or changes nothing   *)
(* HostSlots knows of.                                                     *)
LEMMA StepImplements == IInv /\ [Next]_vars => [Slots!Next]_(Slots!slotVars)
<1> SUFFICES ASSUME IInv, [Next]_vars
             PROVE  Slots!Next \/ UNCHANGED Slots!slotVars
  OBVIOUS
<1>1. ASSUME NEW r \in Requests, AddRequest(r) \/ AddRequestOnQnam(r)
      PROVE  Slots!Next
  BY <1>1, EmplaceArrives DEF Slots!Next
<1>2. ASSUME NEW r \in Requests, PostSchedule(r) \/ Cancel(r)
      PROVE  UNCHANGED Slots!slotVars
  <2>1. \A q \in Requests : Holds(q)' <=> Holds(q)
    BY <1>2 DEF PostSchedule, Cancel, qnamVars, Holds, Leaked, Dispatching
  <2>2. \A q \in Requests : promise'[q] = "none" <=> promise[q] = "none"
    BY <1>2 DEF PostSchedule, Cancel, IInv, TypeOK
  <2> QED BY <1>2, <2>1, <2>2, SlotStutter DEF PostSchedule, Cancel
<1>3. CASE RunPostedSchedule \/ CheckQueue \/ NoCandidate \/ DecideToSend \/ CallbacksReturn
  <2>1. UNCHANGED <<requests, promise, checker, reply>>
    BY <1>3 DEF RunPostedSchedule, CheckQueue, NoCandidate, DecideToSend, CallbacksReturn, clientVars
  <2>2. \A q \in Requests : Dispatching(q)' <=> Dispatching(q)
    BY <1>3 DEF RunPostedSchedule, CheckQueue, NoCandidate, DecideToSend, CallbacksReturn,
                EnterSchedule, LeaveSchedule, Dispatching
  <2>3. \A q \in Requests : Holds(q)' <=> Holds(q)
    BY <2>1, <2>2 DEF Holds, Leaked
  <2> QED BY <2>1, <2>3, SlotStutter
<1>4. CASE TakeCandidate
  BY <1>4, TakeGrants DEF Slots!Next
<1>5. CASE SkipCanceled
  BY <1>5, SkipReturns DEF Slots!Next
<1>6. CASE Send \/ FillPromise \/ FillTooLate
  <2>1. /\ candidate \in Requests
        /\ checker[candidate] = "none"
        /\ promise[candidate] \in {"pending", "canceled"}
        /\ reply[candidate] = IF pc = "fill" THEN "running" ELSE "none"
        /\ Holds(candidate)
    BY <1>6 DEF IInv, PhaseInv, Send, FillPromise, FillTooLate, Holds, Dispatching
  <2>2. \A q \in Requests : Holds(q)' <=> Holds(q)
    BY <1>6, <2>1 DEF Send, FillPromise, FillTooLate, Holds, Leaked, Dispatching, IInv, TypeOK
  <2>3. \A q \in Requests : promise'[q] = "none" <=> promise[q] = "none"
    BY <1>6, <2>1 DEF Send, FillPromise, FillTooLate, clientVars, IInv, TypeOK
  <2> QED BY <1>6, <2>2, <2>3, SlotStutter DEF Send, FillPromise, FillTooLate
<1>7. ASSUME NEW r \in Requests, ReplyFinished(r) \/ ReplyError(r) \/ ReplySslErrors(r)
      PROVE  Slots!Next \/ UNCHANGED Slots!slotVars
  BY <1>7, ReplyReturns DEF Slots!Next
<1>8. CASE UNCHANGED vars
  <2>1. \A q \in Requests : Holds(q)' <=> Holds(q)
    BY <1>8 DEF vars, qnamVars, Holds, Leaked, Dispatching
  <2> QED BY <1>8, <2>1, SlotStutter DEF vars, clientVars
<1> QED BY <1>1, <1>2, <1>3, <1>4, <1>5, <1>6, <1>7, <1>8 DEF Next, ScheduleLoop, Terminated

(* NetworkScheduler, with its counters, locks, events, re-entered loop and *)
(* cancelable futures, keeps the promise of HostSlots.                     *)
THEOREM SchedulerImplementsSlots == Spec => ImplementsSlots
<1>1. Init => Slots!Init
  <2> SUFFICES ASSUME Init PROVE Slots!Init
    OBVIOUS
  <2>1. Arrived = {} /\ Holding = {} /\ requests = <<>>
    BY DEF Init, Arrived, Holding, Holds, Dispatching, Leaked
  <2> QED BY <2>1 DEF Slots!Init, Arrived, Holding
<1> QED BY <1>1, InitIInv, Inductive, StepImplements, PTL DEF Spec, ImplementsSlots, Slots!Spec

-----------------------------------------------------------------------------
(* No wakeup is lost.                                                      *)

(* What returns from the last schedule() has found nothing to send, and    *)
(* whatever frees a slot or adds a request has another schedule() follow.  *)
LEMMA WakeupStep == IInv /\ NoLostWakeup /\ [Next]_vars => NoLostWakeup'
<1> SUFFICES ASSUME IInv, NoLostWakeup, [Next]_vars PROVE NoLostWakeup'
  OBVIOUS
<1>1. ASSUME NEW r \in Requests, AddRequest(r) \/ PostSchedule(r) PROVE NoLostWakeup'
  <2>1. CASE AddRequest(r)
    BY <2>1 DEF AddRequest, Emplace, NoLostWakeup, IInv, TypeOK
  <2>2. CASE PostSchedule(r)
    BY <2>2 DEF PostSchedule, NoLostWakeup, IInv, TypeOK
  <2> QED BY <1>1, <2>1, <2>2
<1>2. ASSUME NEW r \in Requests, AddRequestOnQnam(r) PROVE NoLostWakeup'
  BY <1>2 DEF AddRequestOnQnam, EnterSchedule, NoLostWakeup
<1>3. ASSUME NEW r \in Requests, Cancel(r) PROVE NoLostWakeup'
  BY <1>3 DEF Cancel, NoLostWakeup, Free, qnamVars
<1>4. CASE RunPostedSchedule
  BY <1>4 DEF RunPostedSchedule, EnterSchedule, NoLostWakeup
<1>5. CASE CheckQueue \/ NoCandidate
  <2>1. UNCHANGED <<requests, usages>>
    BY <1>5 DEF CheckQueue, NoCandidate
  <2>2. CASE \A i \in 1 .. Len(requests) : ~ Free(HostOf[requests[i]])
    BY <2>1, <2>2 DEF NoLostWakeup, Free
  <2>3. CASE requests # <<>> /\ CheckQueue
    BY <2>3 DEF CheckQueue, NoLostWakeup
  <2>4. Len(<<>>) = 0
    OBVIOUS
  <2> QED BY <1>5, <2>2, <2>3, <2>4 DEF NoCandidate
<1>6. CASE TakeCandidate \/ SkipCanceled \/ DecideToSend \/ Send \/ FillPromise
           \/ FillTooLate \/ CallbacksReturn
  BY <1>6 DEF TakeCandidate, SkipCanceled, DecideToSend, Send, FillPromise,
              FillTooLate, CallbacksReturn, NoLostWakeup
<1>7. ASSUME NEW r \in Requests, ReplyFinished(r) \/ ReplyError(r) \/ ReplySslErrors(r)
      PROVE  NoLostWakeup'
  <2>1. Signal(r) /\ UNCHANGED <<requests, clientVars, posted>>
    BY <1>7 DEF ReplyFinished, ReplyError, ReplySslErrors
  <2>2. CASE checker[r] = "armed"
    BY <2>1, <2>2 DEF Signal, EnterSchedule, NoLostWakeup
  <2>3. CASE checker[r] # "armed"
    BY <2>1, <2>3 DEF Signal, NoLostWakeup, Free, clientVars, qnamVars
  <2> QED BY <2>2, <2>3
<1>8. CASE UNCHANGED vars
  BY <1>8 DEF vars, clientVars, qnamVars, NoLostWakeup, Free
<1> QED BY <1>1, <1>2, <1>3, <1>4, <1>5, <1>6, <1>7, <1>8 DEF Next, ScheduleLoop, Terminated

(* While a queued request has a free slot, a schedule() call runs or is to *)
(* come: no request waits for ever because a thread came at a bad moment.  *)
THEOREM WakeupsAreNotLost == Spec => []NoLostWakeup
<1>1. Init => NoLostWakeup
  BY DEF Init, NoLostWakeup
<1> QED BY <1>1, InitIInv, Inductive, WakeupStep, PTL DEF Spec

-----------------------------------------------------------------------------
(* Which slots leak.                                                       *)

LeakInv == \A r \in Requests : Leaked(r) => promise[r] = "canceled"

(* A slot leaks only when the promise is found canceled after the request  *)
(* was sent, and a canceled promise stays canceled.                        *)
LEMMA LeakStep == IInv /\ LeakInv /\ [Next]_vars => LeakInv'
<1> SUFFICES ASSUME IInv, LeakInv, [Next]_vars, NEW r \in Requests, Leaked(r)'
             PROVE  promise'[r] = "canceled"
  BY DEF LeakInv
<1>1. promise[r] = "canceled" => promise'[r] = "canceled"
  <2>1. ASSUME NEW q \in Requests, AddRequest(q) \/ AddRequestOnQnam(q)
        PROVE  promise[r] = "canceled" => promise'[r] = "canceled"
    BY <2>1 DEF AddRequest, AddRequestOnQnam, Emplace, IInv, TypeOK, PhaseInv
  <2>2. ASSUME NEW q \in Requests, PostSchedule(q) \/ Cancel(q)
        PROVE  promise[r] = "canceled" => promise'[r] = "canceled"
    BY <2>2 DEF PostSchedule, Cancel, IInv, TypeOK
  <2>3. ASSUME NEW q \in Requests, ReplyFinished(q) \/ ReplyError(q) \/ ReplySslErrors(q)
        PROVE  promise' = promise
    BY <2>3 DEF ReplyFinished, ReplyError, ReplySslErrors, clientVars
  <2>4. CASE FillPromise
    BY <2>4 DEF FillPromise, IInv, TypeOK
  <2>5. CASE (ScheduleLoop /\ ~ FillPromise) \/ RunPostedSchedule \/ UNCHANGED vars
    BY <2>5 DEF ScheduleLoop, RunPostedSchedule, CheckQueue, TakeCandidate, NoCandidate,
                SkipCanceled, DecideToSend, Send, FillTooLate, CallbacksReturn, clientVars, vars
  <2> QED BY <2>1, <2>2, <2>3, <2>4, <2>5 DEF Next, Terminated
<1>2. Leaked(r) \/ promise[r] = "canceled"
  <2>1. ASSUME NEW q \in Requests, AddRequest(q) \/ AddRequestOnQnam(q) \/ PostSchedule(q) \/ Cancel(q)
        PROVE  Leaked(r)
    BY <2>1 DEF AddRequest, AddRequestOnQnam, PostSchedule, Cancel, EnterSchedule, RunsCallbacks,
                qnamVars, Leaked, Dispatching
  <2>2. ASSUME NEW q \in Requests, ReplyFinished(q) \/ ReplyError(q) \/ ReplySslErrors(q)
        PROVE  Leaked(r)
    <3>1. /\ RunsCallbacks /\ Signal(q) /\ reply[q] # "none"
          /\ \E next \in {"failed", "tolerated", "finished"} : reply' = [reply EXCEPT ![q] = next]
      BY <2>2, SslAssumption DEF ReplyFinished, ReplyError, ReplySslErrors, RunsCallbacks
    <3>2. reply[r] # "none"
      BY <3>1 DEF IInv, TypeOK, Leaked
    <3>3. checker[r] = "none"
      BY <3>1 DEF Signal, IInv, TypeOK, Leaked
    <3> QED BY <3>1, <3>2, <3>3 DEF RunsCallbacks, Leaked, Dispatching
  <2>3. CASE CheckQueue \/ NoCandidate \/ RunPostedSchedule \/ CallbacksReturn \/ UNCHANGED vars
    BY <2>3 DEF CheckQueue, NoCandidate, RunPostedSchedule, CallbacksReturn, EnterSchedule,
                LeaveSchedule, clientVars, qnamVars, vars, Leaked, Dispatching
  <2>4. CASE TakeCandidate
    BY <2>4 DEF TakeCandidate, Leaked, Dispatching
  <2>5. CASE SkipCanceled \/ DecideToSend \/ FillTooLate
    BY <2>5 DEF SkipCanceled, DecideToSend, FillTooLate, IInv, PhaseInv, Leaked, Dispatching
  <2>6. CASE Send \/ FillPromise
    BY <2>6 DEF Send, FillPromise, IInv, TypeOK, PhaseInv, Leaked, Dispatching
  <2> QED BY <2>1, <2>2, <2>3, <2>4, <2>5, <2>6 DEF Next, ScheduleLoop, Terminated
<1> QED BY <1>1, <1>2 DEF LeakInv

(* A reply that ended gave its slot back, unless its future was canceled   *)
(* between isFilled() and success().                                       *)
THEOREM OnlyLateCancelsLeak == Spec => []OnlyLateCancelLeaks
<1>1. Init => LeakInv
  BY DEF Init, LeakInv, Leaked
<1>2. IInv /\ LeakInv => OnlyLateCancelLeaks
  <2> SUFFICES ASSUME IInv, LeakInv, NEW r \in Requests, reply[r] = "finished", Holds(r)
               PROVE  promise[r] = "canceled"
    BY DEF OnlyLateCancelLeaks
  <2>1. ~ Dispatching(r) /\ checker[r] # "armed"
    BY DEF IInv, PhaseInv, Dispatching
  <2> QED BY <2>1 DEF Holds, LeakInv
<1> QED BY <1>1, <1>2, InitIInv, Inductive, LeakStep, PTL DEF Spec

-----------------------------------------------------------------------------
(* A request canceled in the queue is never sent.                          *)

(* Canceled before the thunk looks at the promise.                         *)
Dropped(r) == promise[r] = "canceled" /\ reply[r] = "none" /\ ~ (pc = "send" /\ candidate = r)

LEMMA DroppedStep ==
    ASSUME NEW r \in Requests
    PROVE  IInv /\ Dropped(r) /\ [Next]_vars => Dropped(r)'
<1> SUFFICES ASSUME IInv, Dropped(r), [Next]_vars PROVE Dropped(r)'
  OBVIOUS
<1>1. ASSUME NEW q \in Requests, AddRequest(q) \/ AddRequestOnQnam(q) PROVE Dropped(r)'
  BY <1>1 DEF AddRequest, AddRequestOnQnam, Emplace, EnterSchedule, qnamVars,
              Dropped, IInv, TypeOK, PhaseInv
<1>2. ASSUME NEW q \in Requests, PostSchedule(q) \/ Cancel(q) PROVE Dropped(r)'
  BY <1>2 DEF PostSchedule, Cancel, qnamVars, Dropped, IInv, TypeOK
<1>3. ASSUME NEW q \in Requests, ReplyFinished(q) \/ ReplyError(q) \/ ReplySslErrors(q)
      PROVE  Dropped(r)'
  <2>1. /\ RunsCallbacks /\ Signal(q) /\ q # r /\ promise' = promise
        /\ \E next \in {"failed", "tolerated", "finished"} : reply' = [reply EXCEPT ![q] = next]
    BY <1>3, SslAssumption
       DEF ReplyFinished, ReplyError, ReplySslErrors, RunsCallbacks, clientVars, Dropped
  <2> QED BY <2>1 DEF RunsCallbacks, Signal, EnterSchedule, qnamVars, Dropped, IInv, TypeOK
<1>4. CASE RunPostedSchedule \/ CheckQueue \/ NoCandidate \/ CallbacksReturn \/ UNCHANGED vars
  BY <1>4 DEF RunPostedSchedule, CheckQueue, NoCandidate, CallbacksReturn, EnterSchedule,
              LeaveSchedule, clientVars, qnamVars, vars, Dropped
<1>5. CASE TakeCandidate \/ SkipCanceled \/ DecideToSend \/ FillTooLate
  BY <1>5 DEF TakeCandidate, SkipCanceled, DecideToSend, FillTooLate, clientVars, Dropped
<1>6. CASE Send \/ FillPromise
  BY <1>6 DEF Send, FillPromise, clientVars, Dropped, IInv, TypeOK, PhaseInv
<1> QED BY <1>1, <1>2, <1>3, <1>4, <1>5, <1>6 DEF Next, ScheduleLoop, Terminated

(* Canceling a request that still waits saves its network request.         *)
THEOREM CanceledRequestsAreNotSent == Spec => CanceledInQueueIsNeverSent
<1>1. ASSUME NEW r \in Requests
      PROVE  Spec => [](Queued(r) /\ promise[r] = "canceled" => [](reply[r] = "none"))
  <2>1. IInv /\ Queued(r) /\ promise[r] = "canceled" => Dropped(r)
    BY DEF IInv, QueueInv, Holds, Dispatching, Dropped
  <2>2. IInv /\ Dropped(r) /\ [Next]_vars => Dropped(r)'
    BY DroppedStep
  <2>3. Dropped(r) => reply[r] = "none"
    BY DEF Dropped
  <2> QED BY <2>1, <2>2, <2>3, InitIInv, Inductive, PTL DEF Spec
<1> QED BY <1>1 DEF CanceledInQueueIsNeverSent


=============================================================================
