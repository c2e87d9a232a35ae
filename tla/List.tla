------------------------------- MODULE List -------------------------------
(***************************************************************************)
(* The intrusive doubly linked list of include/sancus/list.h: its pointers *)
(* and the loops that walk them while their bodies change the list.        *)
(*                                                                         *)
(* A head and an item are both a struct sancus_list.  A field of memory    *)
(* that holds no list element is Wild: what an item has before it is used, *)
(* and again when the application frees it or uses it for something else.  *)
(*                                                                         *)
(* Each operation on the pointers is paired with what it promises to do to *)
(* the sequences of ItemLists.                                             *)
(***************************************************************************)
EXTENDS ItemLists, FiniteSets

CONSTANT Wild

Nodes == Heads \cup Items

None == "none"

ASSUME NodesAssumption ==
    /\ Heads \cap Items = {}
    /\ Wild \notin Nodes \cup {None} /\ None \notin Nodes
    /\ IsFiniteSet(Heads) /\ IsFiniteSet(Items)

\* The plain loops and the ones that keep the next element aside; forward
\* and backward.
Plain == {"foreach", "foreach_back"}
Safe  == {"foreach2", "foreach_back2"}
Backward == {"foreach_back", "foreach_back2"}
Loops == Plain \cup Safe

VARIABLES
    prev, next,  \* the fields of each element
    loop,        \* the loop that runs, or None
    head,        \* its H
    item,        \* its I
    ahead,       \* its N or P, where it has one
    stayed,      \* the items that have been on the list since it began
    seen         \* the items its body has run for

pointers == <<prev, next>>
cursor == <<loop, head, item, ahead>>
vars == <<prev, next, lists, loop, head, item, ahead, stayed, seen>>

Init ==
    /\ prev = [n \in Nodes |-> IF n \in Heads THEN n ELSE Wild]
    /\ next = [n \in Nodes |-> IF n \in Heads THEN n ELSE Wild]
    /\ NoItems
    /\ loop = None /\ head = None /\ item = None /\ ahead = None
    /\ stayed = {} /\ seen = {}

----------------------------------------------------------------------------
(* Deliberate bugs, used only to show that the properties notice them.     *)

\* `next->prev = prev' forgotten
DelForward(p, n) ==
    /\ next' = [next EXCEPT ![p] = n]
    /\ UNCHANGED prev

\* a safe loop that goes on from the item its body may have removed
AdvanceFromItem(k, i, a) ==
    IF next[i] \in Nodes THEN (IF k \in Backward THEN prev[i] ELSE next[i]) ELSE head

\* N is not moved on
AsideOnce(k, i) ==
    IF k \in Safe /\ loop = None
    THEN (IF k \in Backward THEN prev[i] ELSE next[i])
    ELSE ahead

\* `n++ == 0' for `++n == 0'
GetOffByOne(h, n) ==
    IF n < 0
    THEN IF -n < Cardinality(On(h)) THEN lists[h][Len(lists[h]) + n] ELSE None
    ELSE IF n < Len(lists[h]) THEN lists[h][n + 1] ELSE None

----------------------------------------------------------------------------
(* The operations on the pointers.                                         *)

\* sancus_list__inject
inject(i, p, n) ==
    /\ prev' = [prev EXCEPT ![i] = p, ![n] = i]
    /\ next' = [next EXCEPT ![i] = n, ![p] = i]

\* sancus_list__del: the item keeps its own pointers.
del(p, n) ==
    /\ prev' = [prev EXCEPT ![n] = p]
    /\ next' = [next EXCEPT ![p] = n]

(***************************************************************************)
(* The application puts only items on a list that are on none, and takes   *)
(* off only items that are on one.  In a loop it leaves alone what the     *)
(* loop goes on from: the current item in a plain loop, the one set aside  *)
(* in a safe loop.                                                         *)
(***************************************************************************)
GoesOnFrom == IF loop \in Safe THEN ahead ELSE item

\* "inserts item at the begining of a list"
sancus_list_insert(h, i) ==
    /\ PutAt(h, 1, i)
    /\ inject(i, h, next[h])
    /\ UNCHANGED <<cursor, stayed, seen>>

\* "append item at the end of a list"
sancus_list_append(h, i) ==
    /\ PutAt(h, Len(lists[h]) + 1, i)
    /\ inject(i, prev[h], h)
    /\ UNCHANGED <<cursor, stayed, seen>>

\* "inserts item before a given item"
sancus_list_insert_before(h, i, j) ==
    /\ PutBefore(h, i, j)
    /\ inject(i, prev[j], j)
    /\ UNCHANGED <<cursor, stayed, seen>>

\* "removes item from the list"
sancus_list_del(h, i) ==
    /\ loop # None => i # GoesOnFrom
    /\ TakeOff(h, i)
    /\ del(prev[i], next[i])
    /\ stayed' = stayed \ {i}
    /\ UNCHANGED <<cursor, seen>>

\* A free item is made a list of its own, an empty list is emptied again.
sancus_list_init(n) ==
    /\ IF n \in Heads THEN lists[n] = <<>> ELSE Free(n)
    /\ prev' = [prev EXCEPT ![n] = n]
    /\ next' = [next EXCEPT ![n] = n]
    /\ UNCHANGED <<lists, cursor, stayed, seen>>

\* The application frees an item, or uses its memory for something else.
Reuse(i) ==
    /\ Free(i)
    /\ prev' = [prev EXCEPT ![i] = Wild]
    /\ next' = [next EXCEPT ![i] = Wild]
    /\ UNCHANGED <<lists, cursor, stayed, seen>>

----------------------------------------------------------------------------
(* The loops.  Between two steps of one its body runs, which is any of the *)
(* operations above.                                                       *)

Following(k, n) == IF k \in Backward THEN prev[n] ELSE next[n]

\* What a safe loop sets aside when it comes to i.
Aside(k, i) == IF k \in Safe THEN Following(k, i) ELSE None

\* What comes after i, having set aside a.
Advance(k, i, a) == IF k \in Safe THEN a ELSE Following(k, i)

VisitAt(k, h, i) ==
    /\ loop' = k /\ head' = h /\ item' = i
    /\ ahead' = Aside(k, i)
    /\ UNCHANGED <<pointers, lists>>

Begin(k, h) ==
    /\ loop = None
    /\ VisitAt(k, h, Following(k, h))
    /\ stayed' = On(h)
    /\ seen' = {item'} \ {h}

Step ==
    /\ loop # None /\ item # head
    /\ VisitAt(loop, head, Advance(loop, item, ahead))
    /\ seen' = seen \cup ({item'} \ {head})
    /\ UNCHANGED stayed

\* The loop is at its head again, or its body leaves it with a break.
End ==
    /\ loop # None
    /\ loop' = None /\ head' = None /\ item' = None /\ ahead' = None
    /\ stayed' = {} /\ seen' = {}
    /\ UNCHANGED <<pointers, lists>>

AtHead == loop # None /\ item = head

----------------------------------------------------------------------------
(* The queries.                                                            *)

\* The n-th element from h on, along one of the fields, or h itself.
Walked(field, h) ==
    LET w[n \in 0 .. Cardinality(Items) + 1] == IF n = 0 THEN h ELSE field[w[n - 1]]
    IN  w

\* The items a loop that changes nothing comes by.
Foreach(field, h) ==
    LET w == Walked(field, h)
        end == {n \in 1 .. Cardinality(Items) + 1 : w[n] = h}
        n == CHOOSE k \in end : \A j \in end : k <= j
    IN  [k \in 1 .. n - 1 |-> w[k]]

sancus_list_size(h) == Len(Foreach(next, h))

sancus_list_get(h, n) ==
    IF n < 0
    THEN LET s == Foreach(prev, h) IN IF -n <= Len(s) THEN s[-n] ELSE None
    ELSE LET s == Foreach(next, h) IN IF n < Len(s) THEN s[n + 1] ELSE None

sancus_list_is_empty(h) == next[h] = h
sancus_list_first(h) == IF sancus_list_is_empty(h) THEN None ELSE next[h]
sancus_list_last(h) == IF sancus_list_is_empty(h) THEN None ELSE prev[h]
sancus_list_next(h, i) == IF h = None \/ i = None \/ next[i] = h THEN None ELSE next[i]

----------------------------------------------------------------------------
Change ==
    \/ \E h \in Heads, i \in Items :
          \/ sancus_list_insert(h, i)
          \/ sancus_list_append(h, i)
          \/ \E j \in Items : sancus_list_insert_before(h, i, j)
          \/ sancus_list_del(h, i)
    \/ \E i \in Items : Reuse(i)
    \/ \E n \in Nodes : sancus_list_init(n)

Next ==
    \/ Change
    \/ \E k \in Loops, h \in Heads : Begin(k, h)
    \/ Step
    \/ End

\* The bodies of loops return.
Fairness == WF_vars(Step) /\ WF_vars(AtHead /\ End)

SafeSpec == Init /\ [][Next]_vars
Spec == SafeSpec /\ Fairness

----------------------------------------------------------------------------
(* Properties.                                                             *)

TypeOK ==
    /\ prev \in [Nodes -> Nodes \cup {Wild}]
    /\ next \in [Nodes -> Nodes \cup {Wild}]
    /\ lists \in [Heads -> Seq(Items)]
    /\ loop \in Loops \cup {None}
    /\ loop # None => head \in Heads /\ item \in Nodes
    /\ loop \in Safe => ahead \in Nodes
    /\ stayed \subseteq Items /\ seen \subseteq Items

\* A list as the ring it is: its head, its items and its head again.
Ring(h) == <<h>> \o lists[h] \o <<h>>

(***************************************************************************)
(* The pointers, in both directions, are those of the sequence that the    *)
(* operations promise: none loses, doubles or moves another item, also     *)
(* while loops run.                                                        *)
(***************************************************************************)
Linked ==
    \A h \in Heads :
        \A k \in 1 .. Len(lists[h]) + 1 :
            /\ next[Ring(h)[k]] = Ring(h)[k + 1]
            /\ prev[Ring(h)[k + 1]] = Ring(h)[k]

(***************************************************************************)
(* Every query answers of the list as it is: sancus_list_get counts from   *)
(* the front, or from the back below 0, and answers NULL out of range.     *)
(***************************************************************************)
QueriesAgree ==
    \A h \in Heads :
        LET s == lists[h]
            Nth(n) == IF n \in DOMAIN s THEN s[n] ELSE None
        IN  /\ sancus_list_size(h) = Len(s)
            /\ \A n \in 0 .. Len(s) : sancus_list_get(h, n) = Nth(n + 1)
            /\ \A n \in 0 .. Len(s) : sancus_list_get(h, -n - 1) = Nth(Len(s) - n)
            /\ sancus_list_first(h) = Nth(1)
            /\ sancus_list_last(h) = Nth(Len(s))
            /\ \A n \in DOMAIN s : sancus_list_next(h, s[n]) = Nth(n + 1)
            /\ sancus_list_next(h, sancus_list_first(h)) = Nth(2)

(***************************************************************************)
(* "safely iterate over a list": a loop that comes to its end has run its  *)
(* body for every item that was on the list all the while, whatever the    *)
(* body removed, freed, moved or added; and it never goes on to memory     *)
(* that holds no element.                                                  *)
(***************************************************************************)
VisitsAll ==
    /\ AtHead => stayed \subseteq seen
    /\ item # Wild /\ ahead # Wild

(***************************************************************************)
(* A loop ends unless items are put on lists for ever.                     *)
(***************************************************************************)
LoopEnds ==
    \/ []<>(loop = None)
    \/ []<><<\E h \in Heads : Len(lists'[h]) > Len(lists[h])>>_vars
=============================================================================
