----------------------------- MODULE AtomicUpdates -----------------------------
(***************************************************************************)
(* What NetworkDataEntity::updateFrom promises to threads that update      *)
(* entities from each other: one entity takes over what another one is, as *)
(* a whole and in a single step.                                           *)
(***************************************************************************)
CONSTANTS Entity,    \* entities
          Contents   \* what an entity may consist of

VARIABLE contents    \* per entity

Init == contents \in [Entity -> Contents]

UpdateFrom(e, o) == contents' = [contents EXCEPT ![e] = contents[o]]

Next == \E e, o \in Entity : UpdateFrom(e, o)

Spec == Init /\ [][Next]_contents
=============================================================================
