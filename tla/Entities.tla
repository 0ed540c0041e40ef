------------------------------- MODULE Entities -------------------------------
(***************************************************************************)
(* NetworkDataEntity::updateFrom (networkdataentity.cpp) and the          *)
(* updateSelf of an entity like User (user.cpp): threads update entities  *)
(* from each other.  The entity's own spin lock is waited for, the other  *)
(* one's only tried; then the fields are copied one after the other.       *)
(***************************************************************************)
EXTENDS Naturals

CONSTANTS Entity,    \* entities
          Fields,    \* their fields (userName, fullName, email)
          Versions,  \* what a field may hold
          Fetched,   \* entities that came from a server
          Threads, NoThread

ASSUME EntitiesAssumption == NoThread \notin Threads

VARIABLES pc,          \* where a thread is in updateFrom
          mine, other, \* this and its argument
          copied,      \* fields updateSelf has copied
          holder,      \* spinLock of an entity: the thread that holds it
          content,     \* per entity its fields
          fetched, dirty

entityVars == <<pc, mine, other, copied, holder, content, fetched, dirty>>

Contents == {c \in [Fields -> Versions] : \A f, g \in Fields : c[f] = c[g]}

(* Entities come from one reply each: all their fields fit together. *)
EntitiesInit ==
    /\ pc = [t \in Threads |-> "idle"]
    /\ \E e \in Entity : mine = [t \in Threads |-> e]
    /\ other = mine
    /\ copied = [t \in Threads |-> {}]
    /\ holder = [e \in Entity |-> NoThread]
    /\ content \in [Entity -> Contents]
    /\ fetched = [e \in Entity |-> e \in Fetched] /\ dirty = fetched

(* updateFrom(other): an entity is not updated from itself.  Its Q_D, and   *)
(* that of updateSelf, mark it dirty; the first takes no lock.             *)
UpdateFrom(t, e, o) ==
    /\ pc[t] = "idle" /\ e /= o
    /\ pc' = [pc EXCEPT ![t] = "locking"]
    /\ mine' = [mine EXCEPT ![t] = e] /\ other' = [other EXCEPT ![t] = o]
    /\ dirty' = [dirty EXCEPT ![e] = TRUE]
    /\ UNCHANGED <<copied, holder, content, fetched>>

Lock(t) == /\ pc[t] = "locking" /\ holder[mine[t]] = NoThread
           /\ holder' = [holder EXCEPT ![mine[t]] = t]
           /\ pc' = [pc EXCEPT ![t] = "trying"]
           /\ UNCHANGED <<mine, other, copied, content, fetched, dirty>>

(* Without the lock of the other one.                                      *)
MutTryLock(t) == /\ pc[t] = "trying"
                 /\ pc' = [pc EXCEPT ![t] = "updating"]
                 /\ copied' = [copied EXCEPT ![t] = {}]
                 /\ UNCHANGED <<mine, other, holder, content, fetched, dirty>>

TryLock(t) == /\ pc[t] = "trying" /\ holder[other[t]] = NoThread
              /\ holder' = [holder EXCEPT ![other[t]] = t]
              /\ pc' = [pc EXCEPT ![t] = "updating"]
              /\ copied' = [copied EXCEPT ![t] = {}]
              /\ UNCHANGED <<mine, other, content, fetched, dirty>>

(* tryLock failed: unlock, yield, and from the start again. *)
BackOff(t) == /\ pc[t] = "trying" /\ holder[other[t]] /= NoThread
              /\ holder' = [holder EXCEPT ![mine[t]] = NoThread]
              /\ pc' = [pc EXCEPT ![t] = "locking"]
              /\ UNCHANGED <<mine, other, copied, content, fetched, dirty>>

(* updateSelf: one setter. *)
CopyField(t, f) ==
    /\ pc[t] = "updating" /\ f \in Fields \ copied[t]
    /\ content' = [content EXCEPT ![mine[t]] =
                      [content[mine[t]] EXCEPT ![f] = content[other[t]][f]]]
    /\ copied' = [copied EXCEPT ![t] = copied[t] \cup {f}]
    /\ dirty' = [dirty EXCEPT ![mine[t]] = TRUE]
    /\ UNCHANGED <<pc, mine, other, holder, fetched>>

(* The end of updateSelf, setDirty and the two unlocks. *)
Unlock(t) ==
    /\ pc[t] = "updating" /\ copied[t] = Fields
    /\ fetched' = [fetched EXCEPT ![mine[t]] =
                      fetched[mine[t]] \/ fetched[other[t]]]
    /\ dirty' = [dirty EXCEPT ![mine[t]] = dirty[other[t]]]
    /\ holder' = [holder EXCEPT ![mine[t]] = NoThread, ![other[t]] = NoThread]
    /\ pc' = [pc EXCEPT ![t] = "idle"]
    /\ UNCHANGED <<mine, other, copied, content>>

(* markDirty of any thread takes no lock. *)
MarkDirty(e) == /\ dirty' = [dirty EXCEPT ![e] = TRUE]
                /\ UNCHANGED <<pc, mine, other, copied, holder, content, fetched>>

EntitiesNext ==
    \/ \E t \in Threads :
           \/ \E e, o \in Entity : UpdateFrom(t, e, o)
           \/ Lock(t) \/ TryLock(t) \/ BackOff(t) \/ Unlock(t)
           \/ \E f \in Fields : CopyField(t, f)
    \/ \E e \in Entity : MarkDirty(e)

EntitiesSpec == EntitiesInit /\ [][EntitiesNext]_entityVars
-----------------------------------------------------------------------------
EntitiesTypeOK ==
    /\ pc \in [Threads -> {"idle", "locking", "trying", "updating"}]
    /\ mine \in [Threads -> Entity] /\ other \in [Threads -> Entity]
    /\ copied \in [Threads -> SUBSET Fields]
    /\ holder \in [Entity -> Threads \cup {NoThread}]
    /\ content \in [Entity -> [Fields -> Versions]]
    /\ fetched \in [Entity -> BOOLEAN] /\ dirty \in [Entity -> BOOLEAN]

(* A lock is held by the thread that works with the entity, and a thread   *)
(* that waits holds none: two updates cannot wait for each other.          *)
LocksAreExact ==
    /\ \A t \in Threads : pc[t] /= "idle" => mine[t] /= other[t]
    /\ \A e \in Entity, t \in Threads :
           holder[e] = t <=> \/ pc[t] \in {"trying", "updating"} /\ mine[t] = e
                             \/ pc[t] = "updating" /\ other[t] = e

(* Fields already copied agree with the entity they come from. *)
CopiesAgree ==
    \A t \in Threads : pc[t] = "updating" =>
        \A f \in copied[t] : content[mine[t]][f] = content[other[t]][f]

(* The fields of an entity nobody updates fit together. *)
NoTornEntity ==
    \A e \in Entity :
        (\A t \in Threads : ~(pc[t] = "updating" /\ mine[t] = e)) =>
            content[e] \in Contents

EntitiesInv == EntitiesTypeOK /\ LocksAreExact /\ CopiesAgree /\ NoTornEntity

(* An update counts from the moment both locks are held: from then on the  *)
(* entity stands for the one it is updated from, which nobody can change.  *)
Standing(e) == LET s == {t \in Threads : pc[t] = "updating" /\ mine[t] = e}
               IN  IF s = {} THEN content[e]
                   ELSE content[other[CHOOSE t \in s : TRUE]]

Atomic == INSTANCE AtomicUpdates WITH
              contents <- [e \in Entity |-> Standing(e)]

(* Whatever threads update entities from each other at the same time, the  *)
(* entities change as if every update were one step.                       *)
ImplementsAtomicUpdates == Atomic!Spec
=============================================================================
