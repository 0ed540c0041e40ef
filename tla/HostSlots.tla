----------------------------- MODULE HostSlots -----------------------------
(***************************************************************************)
(* What NetworkScheduler promises, without its counters, locks, events and *)
(* futures: a request arrives once, waits in arrival order, is granted one *)
(* of the Limit slots of its host when it is the oldest request waiting    *)
(* for that host, and may later give the slot back.  A request without a   *)
(* host (an empty host name) needs no slot.                                *)
(***************************************************************************)
EXTENDS Naturals, FiniteSets, SequencesExt

CONSTANTS Requests, Hosts, NoHost, HostOf, Limit

VARIABLES arrived,   \* requests handed over so far
          waiting,   \* the queue, oldest first
          holding    \* requests granted and not returned yet

slotVars == <<arrived, waiting, holding>>

HoldingOf(h) == {r \in holding : HostOf[r] = h}

Init == arrived = {} /\ waiting = <<>> /\ holding = {}

Arrive(r) ==
    /\ r \notin arrived
    /\ arrived' = arrived \cup {r}
    /\ waiting' = Append(waiting, r)
    /\ UNCHANGED holding

(* The oldest request waiting for a host with a free slot is granted it.   *)
Grant(i) ==
    /\ \A j \in 1 .. i - 1 : HostOf[waiting[j]] # HostOf[waiting[i]]
    /\ HostOf[waiting[i]] \in Hosts =>
          Cardinality(HoldingOf(HostOf[waiting[i]])) < Limit
    /\ holding' = holding \cup {waiting[i]}
    /\ waiting' = RemoveAt(waiting, i)
    /\ UNCHANGED arrived

Return(r) ==
    /\ r \in holding
    /\ holding' = holding \ {r}
    /\ UNCHANGED <<arrived, waiting>>

Next == \/ \E r \in Requests : Arrive(r) \/ Return(r)
        \/ \E i \in 1 .. Len(waiting) : Grant(i)

Spec == Init /\ [][Next]_slotVars

=============================================================================
