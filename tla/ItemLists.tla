----------------------------- MODULE ItemLists -----------------------------
(***************************************************************************)
(* What the lists of include/sancus/list.h promise: each head has a        *)
(* sequence of items, no item is twice on a list or on two lists, an item  *)
(* that is on none can be put anywhere, and one that is on a list can be   *)
(* taken off, which moves no other.                                        *)
(***************************************************************************)
EXTENDS Integers, Sequences, SequencesExt

CONSTANTS Heads, Items

VARIABLE lists

NoItems == lists = [h \in Heads |-> <<>>]

On(h) == ToSet(lists[h])
Free(i) == \A h \in Heads : i \notin On(h)

\* i becomes the k-th item of h.
PutAt(h, k, i) ==
    /\ Free(i)
    /\ lists' = [lists EXCEPT ![h] = InsertAt(@, k, i)]

PlaceOf(h, i) == CHOOSE k \in 1 .. Len(lists[h]) : lists[h][k] = i

PutBefore(h, i, j) ==
    /\ j \in On(h)
    /\ PutAt(h, PlaceOf(h, j), i)

TakeOff(h, i) ==
    /\ i \in On(h)
    /\ lists' = [lists EXCEPT ![h] = RemoveAt(@, PlaceOf(h, i))]
=============================================================================
