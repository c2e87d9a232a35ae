----------------------------- MODULE ListProofs -----------------------------
(***************************************************************************)
(* The pointers of any number of lists are those of the sequences that the *)
(* operations of include/sancus/list.h promise, and the loops over them    *)
(* come by every item that stays, whatever their bodies do; what the       *)
(* queries answer follows from the pointers.                               *)
(***************************************************************************)
EXTENDS List, FiniteSetTheorems, SequenceTheorems, WellFoundedInduction, TLAPS

----------------------------------------------------------------------------
(* The inductive invariant.                                                *)

\* The k-th element of the ring of h, which is h on both ends.
RingAt(h, k) == IF k \in 1 .. Len(lists[h]) THEN lists[h][k] ELSE h

\* No item is twice on a list or on two lists.
OncePlaced ==
    \A h, g \in Heads :
        \A k \in 1 .. Len(lists[h]), m \in 1 .. Len(lists[g]) :
            lists[h][k] = lists[g][m] => h = g /\ k = m

Rings ==
    \A h \in Heads :
        \A k \in 0 .. Len(lists[h]) :
            /\ next[RingAt(h, k)] = RingAt(h, k + 1)
            /\ prev[RingAt(h, k + 1)] = RingAt(h, k)

Pointers ==
    /\ prev \in [Nodes -> Nodes \cup {Wild}]
    /\ next \in [Nodes -> Nodes \cup {Wild}]
    /\ lists \in [Heads -> Seq(Items)]
    /\ OncePlaced /\ Rings

\* A loop comes by the a-th item before the b-th.
Earlier(k, a, b) == IF k \in Backward THEN a > b ELSE a < b

\* A loop over h that goes on from y has come by those in T: they include
\* all of S that it has left behind.
Passed(k, h, y, S, T) ==
    /\ y \in On(h) \cup {h}
    /\ y = h => S \subseteq T
    /\ \A a, b \in 1 .. Len(lists[h]) :
          lists[h][b] = y /\ lists[h][a] \in S /\ Earlier(k, a, b) => lists[h][a] \in T

Looping ==
    /\ head \in Heads /\ item \in Nodes
    /\ stayed \subseteq On(head) /\ seen \subseteq Items
    /\ loop \in Plain => ahead = None /\ item \in seen \cup {head}
    /\ item = head => stayed \subseteq seen
    /\ Passed(loop, head, GoesOnFrom, stayed, seen)

Loop ==
    /\ loop \in Loops \cup {None}
    /\ IF loop = None THEN item = None /\ ahead = None /\ stayed = {} /\ seen = {}
                      ELSE Looping

IInv == Pointers /\ Loop

----------------------------------------------------------------------------
(* Sequences.                                                              *)

(***************************************************************************)
(* InsertAt moves what is behind the new element by one.                   *)
(***************************************************************************)
LEMMA InsertLemma ==
  ASSUME NEW S, NEW s \in Seq(S), NEW k \in 1 .. Len(s) + 1, NEW e \in S
  PROVE  /\ InsertAt(s, k, e) \in Seq(S)
         /\ Len(InsertAt(s, k, e)) = Len(s) + 1
         /\ \A j \in 1 .. Len(s) + 1 :
               InsertAt(s, k, e)[j] =
                  IF j < k THEN s[j] ELSE IF j = k THEN e ELSE s[j - 1]
<1> DEFINE a == SubSeq(s, 1, k - 1)
           z == SubSeq(s, k, Len(s))
<1>1. PICK n \in Nat : n = Len(s)
  BY LenProperties
<1>2. a \in Seq(S) /\ Len(a) = k - 1 /\ \A j \in 1 .. k - 1 : a[j] = s[j]
  <2>1. \A j \in 1 .. k - 1 : s[j] \in S
    BY <1>1, ElementOfSeq
  <2> QED BY <1>1, <2>1, SubSeqProperties
<1>3. /\ z \in Seq(S) /\ Len(z) = n - k + 1
      /\ \A j \in 1 .. n - k + 1 : z[j] = s[k + j - 1]
  <2>1. \A j \in k .. Len(s) : s[j] \in S
    BY <1>1, ElementOfSeq
  <2> QED BY <1>1, <2>1, SubSeqProperties
<1>4. <<e>> \in Seq(S) /\ Len(<<e>>) = 1 /\ <<e>>[1] = e
  OBVIOUS
<1> DEFINE b == a \o <<e>>
<1> HIDE DEF a, z
<1>5. /\ b \in Seq(S) /\ Len(b) = k
      /\ \A j \in 1 .. k : b[j] = IF j < k THEN s[j] ELSE e
  <2>1. /\ b \in Seq(S) /\ Len(b) = k
        /\ \A j \in 1 .. k : b[j] = IF j <= k - 1 THEN a[j] ELSE <<e>>[j - (k - 1)]
    BY <1>1, <1>2, <1>4, ConcatProperties
  <2> QED BY <1>1, <1>2, <1>4, <2>1
<1> HIDE DEF b
<1>6. /\ b \o z \in Seq(S) /\ Len(b \o z) = n + 1
      /\ \A j \in 1 .. n + 1 : (b \o z)[j] = IF j <= k THEN b[j] ELSE z[j - k]
  BY <1>1, <1>3, <1>5, ConcatProperties
<1>7. \A j \in 1 .. n + 1 :
         (b \o z)[j] = IF j < k THEN s[j] ELSE IF j = k THEN e ELSE s[j - 1]
  BY <1>1, <1>3, <1>5, <1>6
<1>8. InsertAt(s, k, e) = b \o z
  BY DEF InsertAt, a, b, z
<1> QED BY <1>1, <1>6, <1>7, <1>8

(***************************************************************************)
(* RemoveAt closes the gap.                                                *)
(***************************************************************************)
LEMMA RemoveLemma ==
  ASSUME NEW S, NEW s \in Seq(S), NEW k \in 1 .. Len(s)
  PROVE  /\ RemoveAt(s, k) \in Seq(S)
         /\ Len(RemoveAt(s, k)) = Len(s) - 1
         /\ \A j \in 1 .. Len(s) - 1 :
               RemoveAt(s, k)[j] = IF j < k THEN s[j] ELSE s[j + 1]
<1> DEFINE a == SubSeq(s, 1, k - 1)
           z == SubSeq(s, k + 1, Len(s))
<1>1. PICK n \in Nat : n = Len(s)
  BY LenProperties
<1>2. a \in Seq(S) /\ Len(a) = k - 1 /\ \A j \in 1 .. k - 1 : a[j] = s[j]
  <2>1. \A j \in 1 .. k - 1 : s[j] \in S
    BY <1>1, ElementOfSeq
  <2> QED BY <1>1, <2>1, SubSeqProperties
<1>3. /\ z \in Seq(S) /\ Len(z) = n - k
      /\ \A j \in 1 .. n - k : z[j] = s[k + j]
  <2>1. \A j \in k + 1 .. Len(s) : s[j] \in S
    BY <1>1, ElementOfSeq
  <2>2. /\ z \in Seq(S) /\ Len(z) = (IF k + 1 <= n THEN n - (k + 1) + 1 ELSE 0)
        /\ \A j \in 1 .. n - (k + 1) + 1 : z[j] = s[(k + 1) + j - 1]
    BY <1>1, <2>1, SubSeqProperties
  <2> QED BY <1>1, <2>2
<1> HIDE DEF a, z
<1>4. /\ a \o z \in Seq(S) /\ Len(a \o z) = n - 1
      /\ \A j \in 1 .. n - 1 :
            (a \o z)[j] = IF j <= k - 1 THEN a[j] ELSE z[j - (k - 1)]
  BY <1>1, <1>2, <1>3, ConcatProperties
<1>5. \A j \in 1 .. n - 1 : (a \o z)[j] = IF j < k THEN s[j] ELSE s[j + 1]
  BY <1>1, <1>2, <1>3, <1>4
<1>6. RemoveAt(s, k) = a \o z
  BY DEF RemoveAt, a, z
<1> QED BY <1>1, <1>4, <1>5, <1>6

----------------------------------------------------------------------------
(* Rings.                                                                  *)

(***************************************************************************)
(* RingAt counts the elements of Ring from 0.                              *)
(***************************************************************************)
LEMMA RingLemma ==
  ASSUME lists \in [Heads -> Seq(Items)], NEW h \in Heads,
         NEW k \in 0 .. Len(lists[h]) + 1
  PROVE  Ring(h)[k + 1] = RingAt(h, k)
<1> DEFINE s == lists[h]
<1>1. PICK n \in Nat : n = Len(s) /\ s \in Seq(Nodes)
  <2>1. s \in Seq(Items) /\ Items \subseteq Nodes
    BY DEF Nodes
  <2> QED BY <2>1, LenProperties, SeqMonotonic
<1> DEFINE e == <<h>>
<1>2. e \in Seq(Nodes) /\ Len(e) = 1 /\ e[1] = h
  BY DEF Nodes
<1> DEFINE b == e \o s
           r == b \o e
<1>3. r = Ring(h)
  BY DEF Ring
<1>4. k \in 0 .. n + 1
  BY <1>1
<1> HIDE DEF s, e
<1>5. /\ b \in Seq(Nodes) /\ Len(b) = n + 1
      /\ \A j \in 1 .. n + 1 : b[j] = IF j <= 1 THEN e[j] ELSE s[j - 1]
  <2>1. /\ b \in Seq(Nodes) /\ Len(b) = Len(e) + Len(s)
        /\ \A j \in 1 .. Len(e) + Len(s) :
              b[j] = IF j <= Len(e) THEN e[j] ELSE s[j - Len(e)]
    BY <1>1, <1>2, ConcatProperties, Zenon
  <2> HIDE DEF b
  <2> QED BY <1>1, <1>2, <2>1
<1> HIDE DEF b
<1>6. \A j \in 1 .. n + 2 : r[j] = IF j <= n + 1 THEN b[j] ELSE e[j - (n + 1)]
  <2>1. \A j \in 1 .. Len(b) + Len(e) :
           r[j] = IF j <= Len(b) THEN b[j] ELSE e[j - Len(b)]
    BY <1>2, <1>5, ConcatProperties, Zenon
  <2> HIDE DEF r
  <2> QED BY <1>1, <1>2, <1>5, <2>1
<1> HIDE DEF r
<1>7. r[k + 1] = IF k \in 1 .. n THEN s[k] ELSE h
  <2>1. CASE k = 0
    BY <1>2, <1>5, <1>6, <2>1
  <2>2. CASE k \in 1 .. n
    BY <1>5, <1>6, <2>2
  <2>3. CASE k = n + 1
    BY <1>2, <1>6, <2>3
  <2> QED BY <1>4, <2>1, <2>2, <2>3
<1> QED BY <1>1, <1>3, <1>7 DEF RingAt, s

(***************************************************************************)
(* An element is on one ring, in one place, but for a head on both ends of *)
(* its own.                                                                *)
(***************************************************************************)
LEMMA RingOnce ==
  ASSUME lists \in [Heads -> Seq(Items)], OncePlaced,
         NEW h \in Heads, NEW g \in Heads
  PROVE  /\ \A k \in 0 .. Len(lists[h]), m \in 0 .. Len(lists[g]) :
               RingAt(h, k) = RingAt(g, m) => h = g /\ k = m
         /\ \A k \in 1 .. Len(lists[h]) + 1, m \in 1 .. Len(lists[g]) + 1 :
               RingAt(h, k) = RingAt(g, m) => h = g /\ k = m
<1>1. PICK n1, n2 \in Nat : n1 = Len(lists[h]) /\ n2 = Len(lists[g])
  BY LenProperties
<1>2. \A k \in 1 .. n1 : lists[h][k] \in Items
  BY <1>1, ElementOfSeq
<1>3. \A k \in 1 .. n2 : lists[g][k] \in Items
  BY <1>1, ElementOfSeq
<1>4. h \notin Items /\ g \notin Items
  BY NodesAssumption
<1> QED BY <1>1, <1>2, <1>3, <1>4 DEF RingAt, OncePlaced

(***************************************************************************)
(* The invariant gives what the run checks of the pointers.                *)
(***************************************************************************)
LEMMA RingsLinked == Pointers => Linked
<1> SUFFICES ASSUME Pointers, NEW h \in Heads, NEW k \in 1 .. Len(lists[h]) + 1
             PROVE  /\ next[Ring(h)[k]] = Ring(h)[k + 1]
                    /\ prev[Ring(h)[k + 1]] = Ring(h)[k]
  BY DEF Linked
<1>1. PICK n \in Nat : n = Len(lists[h]) /\ lists \in [Heads -> Seq(Items)]
  BY LenProperties DEF Pointers
<1>2. PICK j \in 0 .. n : k = j + 1
  BY <1>1
<1>3. Ring(h)[j + 1] = RingAt(h, j) /\ Ring(h)[(j + 1) + 1] = RingAt(h, j + 1)
  BY <1>1, RingLemma
<1> QED BY <1>1, <1>2, <1>3 DEF Pointers, Rings

----------------------------------------------------------------------------
(* What the operations do to the sequences, place by place.                *)

Inserted(h, k, i) ==
    /\ \A g \in Heads \ {h} : lists'[g] = lists[g]
    /\ Len(lists'[h]) = Len(lists[h]) + 1
    /\ \A j \in 1 .. Len(lists[h]) + 1 :
          lists'[h][j] = IF j < k THEN lists[h][j]
                         ELSE IF j = k THEN i ELSE lists[h][j - 1]

Removed(h, k) ==
    /\ \A g \in Heads \ {h} : lists'[g] = lists[g]
    /\ Len(lists'[h]) = Len(lists[h]) - 1
    /\ \A j \in 1 .. Len(lists[h]) - 1 :
          lists'[h][j] = IF j < k THEN lists[h][j] ELSE lists[h][j + 1]

\* The place in a list of what comes to be its j-th item, when one is put
\* at k or taken from it.
WasBehind(k, j) == IF j < k THEN j ELSE j - 1
WasBefore(k, j) == IF j < k THEN j ELSE j + 1

(***************************************************************************)
(* But for the new one, the items of a list were on it, in that order.     *)
(***************************************************************************)
LEMMA InsertedPlaces ==
  ASSUME lists \in [Heads -> Seq(Items)],
         NEW h \in Heads, NEW k \in 1 .. Len(lists[h]) + 1, NEW i, Inserted(h, k, i)
  PROVE  \A j \in 1 .. Len(lists'[h]) :
            /\ j = k => lists'[h][j] = i
            /\ j # k => \E o \in 1 .. Len(lists[h]) :
                          o = WasBehind(k, j) /\ lists'[h][j] = lists[h][o]
<1>1. PICK n \in Nat : n = Len(lists[h]) /\ Len(lists'[h]) = n + 1
  BY LenProperties DEF Inserted
<1> SUFFICES ASSUME NEW j \in 1 .. n + 1
             PROVE  /\ j = k => lists'[h][j] = i
                    /\ j # k => \E o \in 1 .. n :
                                  o = WasBehind(k, j) /\ lists'[h][j] = lists[h][o]
  BY <1>1
<1>2. lists'[h][j] = IF j < k THEN lists[h][j]
                     ELSE IF j = k THEN i ELSE lists[h][j - 1]
  BY <1>1 DEF Inserted
<1>3. CASE j < k
  BY <1>1, <1>2, <1>3 DEF WasBehind
<1>4. CASE j = k
  BY <1>1, <1>2, <1>4
<1>5. CASE j > k
  <2>1. lists'[h][j] = lists[h][j - 1] /\ j - 1 \in 1 .. n /\ WasBehind(k, j) = j - 1
    BY <1>1, <1>2, <1>5 DEF WasBehind
  <2> QED BY <1>1, <1>5, <2>1
<1> QED BY <1>1, <1>3, <1>4, <1>5

(***************************************************************************)
(* The items left on a list were on it, in that order.                     *)
(***************************************************************************)
LEMMA RemovedPlaces ==
  ASSUME lists \in [Heads -> Seq(Items)],
         NEW h \in Heads, NEW k \in 1 .. Len(lists[h]), Removed(h, k)
  PROVE  \A j \in 1 .. Len(lists'[h]) :
            \E o \in 1 .. Len(lists[h]) \ {k} :
               o = WasBefore(k, j) /\ lists'[h][j] = lists[h][o]
<1>1. PICK n \in Nat : n = Len(lists[h]) /\ Len(lists'[h]) = n - 1
  BY LenProperties DEF Removed
<1> SUFFICES ASSUME NEW j \in 1 .. n - 1
             PROVE  \E o \in 1 .. n \ {k} :
                       o = WasBefore(k, j) /\ lists'[h][j] = lists[h][o]
  BY <1>1
<1>2. lists'[h][j] = IF j < k THEN lists[h][j] ELSE lists[h][j + 1]
  BY <1>1 DEF Removed
<1>3. CASE j < k
  BY <1>1, <1>2, <1>3 DEF WasBefore
<1>4. CASE j >= k
  <2>1. /\ lists'[h][j] = lists[h][j + 1] /\ j + 1 \in 1 .. n /\ j + 1 # k
        /\ WasBefore(k, j) = j + 1
    BY <1>1, <1>2, <1>4 DEF WasBefore
  <2> QED BY <2>1
<1> QED BY <1>1, <1>3, <1>4

(***************************************************************************)
(* An item that is put on a list is there once.                            *)
(***************************************************************************)
LEMMA PutLemma ==
  ASSUME lists \in [Heads -> Seq(Items)], OncePlaced,
         NEW h \in Heads, NEW k \in 1 .. Len(lists[h]) + 1, NEW i \in Items,
         PutAt(h, k, i)
  PROVE  /\ lists' \in [Heads -> Seq(Items)]
         /\ Inserted(h, k, i)
         /\ \A g \in Heads : \A m \in 1 .. Len(lists[g]) : lists[g][m] # i
         /\ OncePlaced'
<1>1. lists' = [lists EXCEPT ![h] = InsertAt(lists[h], k, i)]
  BY DEF PutAt
<1>2. /\ InsertAt(lists[h], k, i) \in Seq(Items)
      /\ Len(InsertAt(lists[h], k, i)) = Len(lists[h]) + 1
      /\ \A j \in 1 .. Len(lists[h]) + 1 :
            InsertAt(lists[h], k, i)[j] =
               IF j < k THEN lists[h][j] ELSE IF j = k THEN i ELSE lists[h][j - 1]
  <2>1. PICK s \in Seq(Items) : s = lists[h]
    OBVIOUS
  <2>2. k \in 1 .. Len(s) + 1
    BY <2>1
  <2>3. /\ InsertAt(s, k, i) \in Seq(Items)
        /\ Len(InsertAt(s, k, i)) = Len(s) + 1
        /\ \A j \in 1 .. Len(s) + 1 :
              InsertAt(s, k, i)[j] =
                 IF j < k THEN s[j] ELSE IF j = k THEN i ELSE s[j - 1]
    BY <2>2, InsertLemma
  <2> QED BY <2>1, <2>3, Zenon
<1>3. lists' \in [Heads -> Seq(Items)] /\ Inserted(h, k, i)
  <2>1. lists'[h] = InsertAt(lists[h], k, i) /\ \A g \in Heads \ {h} : lists'[g] = lists[g]
    BY <1>1
  <2>2. lists' \in [Heads -> Seq(Items)]
    BY <1>1, <1>2
  <2> QED BY <1>2, <2>1, <2>2 DEF Inserted
<1>. /\ \A j \in 1 .. Len(lists'[h]) :
            /\ j = k => lists'[h][j] = i
            /\ j # k => \E o \in 1 .. Len(lists[h]) :
                          o = WasBehind(k, j) /\ lists'[h][j] = lists[h][o]
  BY <1>3, InsertedPlaces
<1>4. ASSUME NEW g \in Heads, NEW m \in 1 .. Len(lists[g]) PROVE lists[g][m] # i
  <2>1. m \in DOMAIN lists[g]
    BY LenProperties
  <2>2. i \notin {lists[g][j] : j \in DOMAIN lists[g]}
    BY DEF PutAt, Free, On, ToSet
  <2> QED BY <2>1, <2>2
<1>5. ASSUME NEW g \in Heads, NEW f \in Heads,
             NEW m \in 1 .. Len(lists'[g]), NEW p \in 1 .. Len(lists'[f]),
             lists'[g][m] = lists'[f][p]
      PROVE  g = f /\ m = p
  <2>1. CASE g = h /\ f = h
    <3>1. CASE m = k /\ p = k
      BY <2>1, <3>1
    <3>2. CASE m = k /\ p # k
      <4>1. lists'[h][m] = i
        BY <2>1, <3>2
      <4>2. PICK o \in 1 .. Len(lists[h]) : lists'[h][p] = lists[h][o]
        BY <2>1, <3>2
      <4> QED BY <1>4, <1>5, <2>1, <4>1, <4>2
    <3>3. CASE m # k /\ p = k
      <4>1. lists'[h][p] = i
        BY <2>1, <3>3
      <4>2. PICK o \in 1 .. Len(lists[h]) : lists'[h][m] = lists[h][o]
        BY <2>1, <3>3
      <4> QED BY <1>4, <1>5, <2>1, <4>1, <4>2
    <3>4. CASE m # k /\ p # k
      <4>1. PICK o \in 1 .. Len(lists[h]) :
               o = WasBehind(k, m) /\ lists'[h][m] = lists[h][o]
        BY <2>1, <3>4
      <4>2. PICK q \in 1 .. Len(lists[h]) :
               q = WasBehind(k, p) /\ lists'[h][p] = lists[h][q]
        BY <2>1, <3>4
      <4>3. o = q
        BY <1>5, <2>1, <4>1, <4>2 DEF OncePlaced
      <4> QED BY <2>1, <3>4, <4>1, <4>2, <4>3 DEF WasBehind
    <3> QED BY <3>1, <3>2, <3>3, <3>4
  <2>2. CASE g # h /\ f # h
    BY <1>3, <1>5, <2>2 DEF Inserted, OncePlaced
  <2>3. CASE g = h /\ f # h
    <3>1. lists'[f] = lists[f]
      BY <1>3, <2>3 DEF Inserted
    <3>2. \/ lists'[h][m] = i
          \/ \E o \in 1 .. Len(lists[h]) : lists'[h][m] = lists[h][o]
      BY <2>3
    <3> QED BY <1>4, <1>5, <2>3, <3>1, <3>2 DEF OncePlaced
  <2>4. CASE g # h /\ f = h
    <3>1. lists'[g] = lists[g]
      BY <1>3, <2>4 DEF Inserted
    <3>2. \/ lists'[h][p] = i
          \/ \E o \in 1 .. Len(lists[h]) : lists'[h][p] = lists[h][o]
      BY <2>4
    <3> QED BY <1>4, <1>5, <2>4, <3>1, <3>2 DEF OncePlaced
  <2> QED BY <2>1, <2>2, <2>3, <2>4
<1> QED BY <1>3, <1>4, <1>5 DEF OncePlaced

(***************************************************************************)
(* An item that is taken off is on no list, and the others stay in order.  *)
(***************************************************************************)
LEMMA TakeLemma ==
  ASSUME lists \in [Heads -> Seq(Items)], OncePlaced,
         NEW h \in Heads, NEW i \in Items, TakeOff(h, i)
  PROVE  /\ PlaceOf(h, i) \in 1 .. Len(lists[h]) /\ lists[h][PlaceOf(h, i)] = i
         /\ lists' \in [Heads -> Seq(Items)]
         /\ Removed(h, PlaceOf(h, i))
         /\ OncePlaced'
<1> DEFINE k == PlaceOf(h, i)
<1>1. k \in 1 .. Len(lists[h]) /\ lists[h][k] = i
  <2>1. \E m \in 1 .. Len(lists[h]) : lists[h][m] = i
    BY LenProperties DEF TakeOff, On, ToSet
  <2> QED BY <2>1 DEF PlaceOf
<1>2. lists' = [lists EXCEPT ![h] = RemoveAt(lists[h], k)]
  BY DEF TakeOff
<1> HIDE DEF k
<1>3. /\ RemoveAt(lists[h], k) \in Seq(Items)
      /\ Len(RemoveAt(lists[h], k)) = Len(lists[h]) - 1
      /\ \A j \in 1 .. Len(lists[h]) - 1 :
            RemoveAt(lists[h], k)[j] = IF j < k THEN lists[h][j] ELSE lists[h][j + 1]
  BY <1>1, RemoveLemma
<1>4. lists' \in [Heads -> Seq(Items)] /\ Removed(h, k)
  BY <1>2, <1>3 DEF Removed
<1>. \A j \in 1 .. Len(lists'[h]) :
        \E o \in 1 .. Len(lists[h]) \ {k} :
           o = WasBefore(k, j) /\ lists'[h][j] = lists[h][o]
  BY <1>1, <1>4, RemovedPlaces
<1>5. ASSUME NEW g \in Heads, NEW f \in Heads,
             NEW m \in 1 .. Len(lists'[g]), NEW p \in 1 .. Len(lists'[f]),
             lists'[g][m] = lists'[f][p]
      PROVE  g = f /\ m = p
  <2>1. CASE g = h /\ f = h
    <3>1. PICK o \in 1 .. Len(lists[h]) \ {k} :
             o = WasBefore(k, m) /\ lists'[h][m] = lists[h][o]
      BY <2>1
    <3>2. PICK q \in 1 .. Len(lists[h]) \ {k} :
             q = WasBefore(k, p) /\ lists'[h][p] = lists[h][q]
      BY <2>1
    <3>3. o = q
      BY <1>5, <2>1, <3>1, <3>2 DEF OncePlaced
    <3> QED BY <1>1, <2>1, <3>1, <3>2, <3>3 DEF WasBefore
  <2>2. CASE g # h /\ f # h
    BY <1>4, <1>5, <2>2 DEF Removed, OncePlaced
  <2>3. CASE g = h /\ f # h
    <3>1. lists'[f] = lists[f]
      BY <1>4, <2>3 DEF Removed
    <3> QED BY <1>5, <2>3, <3>1 DEF OncePlaced
  <2>4. CASE g # h /\ f = h
    <3>1. lists'[g] = lists[g]
      BY <1>4, <2>4 DEF Removed
    <3> QED BY <1>5, <2>4, <3>1 DEF OncePlaced
  <2> QED BY <2>1, <2>2, <2>3, <2>4
<1>6. OncePlaced'
  BY <1>5 DEF OncePlaced
<1> QED BY <1>1, <1>4, <1>6 DEF k

----------------------------------------------------------------------------
(* The operations and the pointers.                                        *)

(***************************************************************************)
(* The pointers of an element of a ring are elements.                      *)
(***************************************************************************)
LEMMA RingTypes ==
  ASSUME Pointers, NEW h \in Heads
  PROVE  /\ Len(lists[h]) \in Nat
         /\ \A k \in Nat : RingAt(h, k) \in Nodes
         /\ \A k \in 1 .. Len(lists[h]) : RingAt(h, k) \in Items
<1>1. Len(lists[h]) \in Nat
  BY LenProperties DEF Pointers
<1>2. \A k \in 1 .. Len(lists[h]) : lists[h][k] \in Items
  BY ElementOfSeq DEF Pointers
<1> QED BY <1>1, <1>2 DEF RingAt, Nodes

(***************************************************************************)
(* sancus_list__inject between two neighbours puts an item between them.   *)
(***************************************************************************)
LEMMA InjectStep ==
  ASSUME Pointers, NEW h \in Heads, NEW k \in 1 .. Len(lists[h]) + 1, NEW i \in Items,
         PutAt(h, k, i), inject(i, RingAt(h, k - 1), RingAt(h, k))
  PROVE  Pointers'
<1>1. /\ lists' \in [Heads -> Seq(Items)] /\ Inserted(h, k, i) /\ OncePlaced'
      /\ \A g \in Heads : \A m \in 1 .. Len(lists[g]) : lists[g][m] # i
  BY PutLemma DEF Pointers
<1>2. PICK n \in Nat : n = Len(lists[h]) /\ Len(lists'[h]) = n + 1
  BY <1>1, RingTypes DEF Inserted
<1>3. PICK p, q \in Nodes : p = RingAt(h, k - 1) /\ q = RingAt(h, k)
  BY <1>2, RingTypes
<1>4. /\ prev' = [prev EXCEPT ![i] = p, ![q] = i]
      /\ next' = [next EXCEPT ![i] = q, ![p] = i]
  BY <1>3 DEF inject
<1>5. prev' \in [Nodes -> Nodes \cup {Wild}] /\ next' \in [Nodes -> Nodes \cup {Wild}]
  BY <1>3, <1>4 DEF Pointers, Nodes
<1>6. \A g \in Heads : \A m \in Nat : RingAt(g, m) # i
  BY <1>1, NodesAssumption DEF RingAt
<1>7. i \in Nodes /\ p # i /\ q # i
  BY <1>2, <1>3, <1>6 DEF Nodes
<1>8. /\ \A x \in Nodes : x # i /\ x # p => next'[x] = next[x]
      /\ \A x \in Nodes : x # i /\ x # q => prev'[x] = prev[x]
      /\ next'[i] = q /\ next'[p] = i /\ prev'[i] = p /\ prev'[q] = i
  BY <1>3, <1>4, <1>7 DEF Pointers
<1>9. ASSUME NEW g \in Heads, NEW m \in 0 .. Len(lists'[g])
      PROVE  /\ next'[RingAt(g, m)'] = RingAt(g, m + 1)'
             /\ prev'[RingAt(g, m + 1)'] = RingAt(g, m)'
  <2>1. CASE g # h
    <3>1. lists'[g] = lists[g] /\ m \in 0 .. Len(lists[g]) /\ Len(lists[g]) \in Nat
      BY <1>1, <2>1, RingTypes DEF Inserted
    <3>2. RingAt(g, m)' = RingAt(g, m) /\ RingAt(g, m + 1)' = RingAt(g, m + 1)
      BY <3>1 DEF RingAt
    <3>3. RingAt(g, m) # p
      <4>1. k - 1 \in 0 .. Len(lists[h])
        BY <1>2
      <4> QED BY <1>3, <2>1, <3>1, <4>1, RingOnce DEF Pointers
    <3>4. RingAt(g, m + 1) # q
      <4>1. k \in 1 .. Len(lists[h]) + 1 /\ m + 1 \in 1 .. Len(lists[g]) + 1
        BY <3>1
      <4> QED BY <1>3, <2>1, <4>1, RingOnce DEF Pointers
    <3>5. RingAt(g, m) \in Nodes /\ RingAt(g, m + 1) \in Nodes
      BY <3>1, RingTypes
    <3>6. RingAt(g, m) # i /\ RingAt(g, m + 1) # i
      BY <1>6, <3>1
    <3> QED BY <1>8, <3>1, <3>2, <3>3, <3>4, <3>5, <3>6 DEF Pointers, Rings
  <2>2. CASE g = h
    <3>1. m \in 0 .. n + 1
      BY <1>2, <2>2
    <3>2. \A j \in 0 .. n + 2 :
             RingAt(h, j)' = IF j < k THEN RingAt(h, j)
                             ELSE IF j = k THEN i ELSE RingAt(h, j - 1)
      BY <1>1, <1>2 DEF Inserted, RingAt
    <3>3. \A j \in 0 .. n : next[RingAt(h, j)] = RingAt(h, j + 1)
                            /\ prev[RingAt(h, j + 1)] = RingAt(h, j)
      BY <1>2 DEF Pointers, Rings
    <3>4. \A j \in 0 .. n : j # k - 1 => RingAt(h, j) # p
      <4>1. k - 1 \in 0 .. Len(lists[h])
        BY <1>2
      <4> QED BY <1>2, <1>3, <4>1, RingOnce DEF Pointers
    <3>5. \A j \in 1 .. n + 1 : j # k => RingAt(h, j) # q
      BY <1>2, <1>3, RingOnce DEF Pointers
    <3>6. \A j \in Nat : RingAt(h, j) \in Nodes /\ RingAt(h, j) # i
      BY <1>6, RingTypes
    <3>7. \A j \in 0 .. n : j # k - 1 => /\ next'[RingAt(h, j)] = RingAt(h, j + 1)
                                         /\ prev'[RingAt(h, j + 1)] = RingAt(h, j)
      BY <1>2, <1>8, <3>3, <3>4, <3>5, <3>6
    <3>8. CASE m < k - 1
      <4>1. RingAt(h, m)' = RingAt(h, m) /\ RingAt(h, m + 1)' = RingAt(h, m + 1)
        BY <1>2, <3>1, <3>2, <3>8
      <4> QED BY <1>2, <2>2, <3>1, <3>7, <3>8, <4>1
    <3>9. CASE m = k - 1
      <4>1. RingAt(h, m)' = p /\ RingAt(h, m + 1)' = i
        BY <1>2, <1>3, <3>1, <3>2, <3>9
      <4> QED BY <1>8, <2>2, <4>1
    <3>10. CASE m = k
      <4>1. RingAt(h, m)' = i /\ RingAt(h, m + 1)' = q
        BY <1>2, <1>3, <3>1, <3>2, <3>10
      <4> QED BY <1>8, <2>2, <4>1
    <3>11. CASE m > k
      <4>1. PICK j \in 0 .. n : j = m - 1 /\ j # k - 1
        BY <1>2, <3>1, <3>11
      <4>2. RingAt(h, m)' = RingAt(h, j) /\ RingAt(h, m + 1)' = RingAt(h, j + 1)
        BY <1>2, <3>1, <3>2, <3>11, <4>1
      <4> QED BY <2>2, <3>7, <4>1, <4>2
    <3> QED BY <1>2, <3>1, <3>8, <3>9, <3>10, <3>11
  <2> QED BY <2>1, <2>2
<1>10. Rings'
  BY <1>9 DEF Rings
<1> QED BY <1>1, <1>5, <1>10 DEF Pointers

(***************************************************************************)
(* sancus_list__del between the neighbours of an item closes its ring.     *)
(***************************************************************************)
LEMMA DelStep ==
  ASSUME Pointers, NEW h \in Heads, NEW i \in Items,
         TakeOff(h, i), del(prev[i], next[i])
  PROVE  Pointers'
<1>1. PICK k \in 1 .. Len(lists[h]) :
         /\ lists[h][k] = i /\ lists' \in [Heads -> Seq(Items)]
         /\ Removed(h, k) /\ OncePlaced'
  BY TakeLemma DEF Pointers
<1>2. PICK n \in Nat : n = Len(lists[h]) /\ Len(lists'[h]) = n - 1
  BY <1>1, RingTypes DEF Removed
<1>3. PICK p, q \in Nodes : p = RingAt(h, k - 1) /\ q = RingAt(h, k + 1)
  BY <1>2, RingTypes
<1>4. prev[i] = p /\ next[i] = q
  <2>1. RingAt(h, k) = i
    BY <1>1 DEF RingAt
  <2>2. k - 1 \in 0 .. Len(lists[h]) /\ (k - 1) + 1 = k
    BY <1>2
  <2>3. prev[RingAt(h, (k - 1) + 1)] = RingAt(h, k - 1)
    BY <2>2 DEF Pointers, Rings
  <2>4. next[RingAt(h, k)] = RingAt(h, k + 1)
    BY <1>2 DEF Pointers, Rings
  <2> QED BY <1>3, <2>1, <2>2, <2>3, <2>4
<1>5. prev' = [prev EXCEPT ![q] = p] /\ next' = [next EXCEPT ![p] = q]
  BY <1>4 DEF del
<1>6. prev' \in [Nodes -> Nodes \cup {Wild}] /\ next' \in [Nodes -> Nodes \cup {Wild}]
  BY <1>3, <1>5 DEF Pointers, Nodes
<1>7. /\ \A x \in Nodes : x # p => next'[x] = next[x]
      /\ \A x \in Nodes : x # q => prev'[x] = prev[x]
      /\ next'[p] = q /\ prev'[q] = p
  BY <1>3, <1>5 DEF Pointers
<1>8. ASSUME NEW g \in Heads, NEW m \in 0 .. Len(lists'[g])
      PROVE  /\ next'[RingAt(g, m)'] = RingAt(g, m + 1)'
             /\ prev'[RingAt(g, m + 1)'] = RingAt(g, m)'
  <2>1. CASE g # h
    <3>1. lists'[g] = lists[g] /\ m \in 0 .. Len(lists[g]) /\ Len(lists[g]) \in Nat
      BY <1>1, <2>1, RingTypes DEF Removed
    <3>2. RingAt(g, m)' = RingAt(g, m) /\ RingAt(g, m + 1)' = RingAt(g, m + 1)
      BY <3>1 DEF RingAt
    <3>3. RingAt(g, m) # p
      <4>1. k - 1 \in 0 .. Len(lists[h])
        BY <1>2
      <4> QED BY <1>3, <2>1, <3>1, <4>1, RingOnce DEF Pointers
    <3>4. RingAt(g, m + 1) # q
      <4>1. k + 1 \in 1 .. Len(lists[h]) + 1 /\ m + 1 \in 1 .. Len(lists[g]) + 1
        BY <1>2, <3>1
      <4> QED BY <1>3, <2>1, <4>1, RingOnce DEF Pointers
    <3>5. RingAt(g, m) \in Nodes /\ RingAt(g, m + 1) \in Nodes
      BY <3>1, RingTypes
    <3> QED BY <1>7, <3>1, <3>2, <3>3, <3>4, <3>5 DEF Pointers, Rings
  <2>2. CASE g = h
    <3>1. m \in 0 .. n - 1
      BY <1>2, <2>2
    <3>2. \A j \in 0 .. n :
             RingAt(h, j)' = IF j < k THEN RingAt(h, j) ELSE RingAt(h, j + 1)
      BY <1>1, <1>2 DEF Removed, RingAt
    <3>3. \A j \in 0 .. n : next[RingAt(h, j)] = RingAt(h, j + 1)
                            /\ prev[RingAt(h, j + 1)] = RingAt(h, j)
      BY <1>2 DEF Pointers, Rings
    <3>4. \A j \in 0 .. n : j # k - 1 => RingAt(h, j) # p
      <4>1. k - 1 \in 0 .. Len(lists[h])
        BY <1>2
      <4> QED BY <1>2, <1>3, <4>1, RingOnce DEF Pointers
    <3>5. \A j \in 1 .. n + 1 : j # k + 1 => RingAt(h, j) # q
      <4>1. k + 1 \in 1 .. Len(lists[h]) + 1
        BY <1>2
      <4> QED BY <1>2, <1>3, <4>1, RingOnce DEF Pointers
    <3>6. \A j \in Nat : RingAt(h, j) \in Nodes
      BY RingTypes
    <3>7. \A j \in 0 .. n : j # k - 1 /\ j # k =>
             /\ next'[RingAt(h, j)] = RingAt(h, j + 1)
             /\ prev'[RingAt(h, j + 1)] = RingAt(h, j)
      BY <1>2, <1>7, <3>3, <3>4, <3>5, <3>6
    <3>8. CASE m < k - 1
      <4>1. RingAt(h, m)' = RingAt(h, m) /\ RingAt(h, m + 1)' = RingAt(h, m + 1)
        BY <1>2, <3>1, <3>2, <3>8
      <4> QED BY <1>2, <2>2, <3>1, <3>7, <3>8, <4>1
    <3>9. CASE m = k - 1
      <4>1. RingAt(h, m)' = p /\ RingAt(h, m + 1)' = q
        BY <1>2, <1>3, <3>1, <3>2, <3>9
      <4> QED BY <1>7, <2>2, <4>1
    <3>10. CASE m > k - 1
      <4>1. PICK j \in 0 .. n : j = m + 1 /\ j # k - 1 /\ j # k
        BY <1>2, <3>1, <3>10
      <4>2. RingAt(h, m)' = RingAt(h, j) /\ RingAt(h, m + 1)' = RingAt(h, j + 1)
        <5>1. /\ m \in 0 .. n /\ ~(m < k)
              /\ j \in 0 .. n /\ ~(j < k) /\ m + 1 = j
          BY <1>2, <3>1, <3>10, <4>1
        <5>2. RingAt(h, m)' = RingAt(h, m + 1) /\ RingAt(h, j)' = RingAt(h, j + 1)
          BY <3>2, <5>1
        <5> QED BY <5>1, <5>2
      <4> QED BY <2>2, <3>7, <4>1, <4>2
    <3> QED BY <1>2, <3>1, <3>8, <3>9, <3>10
  <2> QED BY <2>1, <2>2
<1>9. Rings'
  BY <1>8 DEF Rings
<1> QED BY <1>1, <1>6, <1>9 DEF Pointers

(***************************************************************************)
(* Writing to an item that is on no list, or to the head of an empty one,  *)
(* disturbs no ring.                                                       *)
(***************************************************************************)
LEMMA WriteStep ==
  ASSUME Pointers, UNCHANGED lists,
         \/ \E i \in Items : Reuse(i)
         \/ \E n \in Nodes : sancus_list_init(n)
  PROVE  Pointers'
<1>1. PICK n \in Nodes, v \in Nodes \cup {Wild} :
         /\ prev' = [prev EXCEPT ![n] = v] /\ next' = [next EXCEPT ![n] = v]
         /\ \/ n \in Items /\ Free(n)
            \/ n \in Heads /\ v = n /\ lists[n] = <<>>
  BY DEF Reuse, sancus_list_init, Nodes
<1>2. /\ prev' \in [Nodes -> Nodes \cup {Wild}] /\ next' \in [Nodes -> Nodes \cup {Wild}]
      /\ next'[n] = v /\ prev'[n] = v
      /\ \A x \in Nodes : x # n => next'[x] = next[x] /\ prev'[x] = prev[x]
  BY <1>1 DEF Pointers
<1>3. ASSUME NEW h \in Heads, NEW k \in 0 .. Len(lists[h])
      PROVE  /\ next'[RingAt(h, k)] = RingAt(h, k + 1)
             /\ prev'[RingAt(h, k + 1)] = RingAt(h, k)
  <2>1. PICK m \in Nat : m = Len(lists[h])
    BY RingTypes
  <2>2. /\ next[RingAt(h, k)] = RingAt(h, k + 1) /\ prev[RingAt(h, k + 1)] = RingAt(h, k)
        /\ RingAt(h, k) \in Nodes /\ RingAt(h, k + 1) \in Nodes
    BY <2>1, RingTypes DEF Pointers, Rings
  <2>3. CASE n = h
    <3>1. v = n /\ m = 0
      BY <1>1, <2>1, <2>3, NodesAssumption
    <3>2. RingAt(h, k) = h /\ RingAt(h, k + 1) = h
      BY <2>1, <3>1 DEF RingAt
    <3> QED BY <1>2, <2>3, <3>1, <3>2
  <2>4. CASE n # h
    <3>1. \A j \in 1 .. m : lists[h][j] # n
      <4>1. CASE n \in Items
        <5>1. n \notin {lists[h][j] : j \in DOMAIN lists[h]}
          BY <1>1, <4>1, NodesAssumption DEF Free, On, ToSet
        <5>2. DOMAIN lists[h] = 1 .. m
          BY <2>1, LenProperties DEF Pointers
        <5> QED BY <5>1, <5>2
      <4>2. CASE n \notin Items
        BY <2>1, <4>2, ElementOfSeq DEF Pointers
      <4> QED BY <4>1, <4>2
    <3>2. RingAt(h, k) # n /\ RingAt(h, k + 1) # n
      BY <2>1, <2>4, <3>1 DEF RingAt
    <3> QED BY <1>2, <2>2, <3>2
  <2> QED BY <2>3, <2>4
<1>4. Rings'
  BY <1>3 DEF Rings, RingAt
<1>5. OncePlaced'
  BY DEF Pointers, OncePlaced
<1> QED BY <1>2, <1>4, <1>5 DEF Pointers

(***************************************************************************)
(* Each function of the list is one of these steps.                        *)
(***************************************************************************)
LEMMA ChangeStep ==
  ASSUME Pointers, Change
  PROVE  Pointers'
<1>1. ASSUME NEW h \in Heads, NEW i \in Items, sancus_list_insert(h, i)
      PROVE  Pointers'
  <2>1. PICK n \in Nat : n = Len(lists[h])
    BY RingTypes
  <2>2. RingAt(h, 0) = h /\ next[RingAt(h, 0)] = RingAt(h, 0 + 1)
    BY <2>1 DEF Pointers, Rings, RingAt
  <2>3. PICK k \in 1 .. Len(lists[h]) + 1 : k = 1 /\ k - 1 = 0 /\ 0 + 1 = k
    BY <2>1
  <2>4. PutAt(h, k, i) /\ inject(i, RingAt(h, k - 1), RingAt(h, k))
    BY <1>1, <2>2, <2>3 DEF sancus_list_insert
  <2> QED BY <2>4, InjectStep
<1>2. ASSUME NEW h \in Heads, NEW i \in Items, sancus_list_append(h, i)
      PROVE  Pointers'
  <2>1. PICK n \in Nat : n = Len(lists[h])
    BY RingTypes
  <2>2. /\ RingAt(h, n + 1) = h /\ prev[h] = RingAt(h, n) /\ (n + 1) - 1 = n
    <3>1. RingAt(h, n + 1) = h /\ prev[RingAt(h, n + 1)] = RingAt(h, n)
      BY <2>1 DEF Pointers, Rings, RingAt
    <3> QED BY <3>1
  <2>3. n + 1 \in 1 .. Len(lists[h]) + 1
    BY <2>1
  <2> QED BY <1>2, <2>1, <2>2, <2>3, InjectStep DEF sancus_list_append
<1>3. ASSUME NEW h \in Heads, NEW i \in Items, NEW j \in Items,
             sancus_list_insert_before(h, i, j)
      PROVE  Pointers'
  <2>1. PICK n \in Nat : n = Len(lists[h])
    BY RingTypes
  <2>2. PICK k \in 1 .. n : k = PlaceOf(h, j) /\ lists[h][k] = j
    <3>1. \E m \in 1 .. n : lists[h][m] = j
      BY <1>3, <2>1, LenProperties DEF sancus_list_insert_before, PutBefore, On, ToSet, Pointers
    <3> QED BY <2>1, <3>1 DEF PlaceOf
  <2>3. RingAt(h, k) = j /\ prev[j] = RingAt(h, k - 1)
    <3>1. RingAt(h, k) = j
      BY <2>1, <2>2 DEF RingAt
    <3>2. PICK m \in 0 .. n : m = k - 1 /\ m + 1 = k
      BY <2>2
    <3>3. prev[RingAt(h, m + 1)] = RingAt(h, m)
      BY <2>1 DEF Pointers, Rings
    <3> QED BY <3>1, <3>2, <3>3
  <2>4. PutAt(h, k, i) /\ inject(i, RingAt(h, k - 1), RingAt(h, k))
    BY <1>3, <2>2, <2>3 DEF sancus_list_insert_before, PutBefore
  <2>5. k \in 1 .. Len(lists[h]) + 1
    BY <2>1
  <2> QED BY <2>4, <2>5, InjectStep
<1>4. ASSUME NEW h \in Heads, NEW i \in Items, sancus_list_del(h, i)
      PROVE  Pointers'
  BY <1>4, DelStep DEF sancus_list_del
<1>5. ASSUME NEW i \in Items, Reuse(i) PROVE Pointers'
  BY <1>5, WriteStep DEF Reuse
<1>6. ASSUME NEW n \in Nodes, sancus_list_init(n) PROVE Pointers'
  BY <1>6, WriteStep DEF sancus_list_init
<1> QED BY <1>1, <1>2, <1>3, <1>4, <1>5, <1>6 DEF Change

----------------------------------------------------------------------------
(* The loops.                                                              *)

(***************************************************************************)
(* What is in a sequence has a place in it.                                *)
(***************************************************************************)
LEMMA ToSetLemma ==
  ASSUME NEW S, NEW s \in Seq(S)
  PROVE  \A x : x \in ToSet(s) <=> \E m \in 1 .. Len(s) : s[m] = x
<1>1. DOMAIN s = 1 .. Len(s)
  BY LenProperties
<1> QED BY <1>1 DEF ToSet

(***************************************************************************)
(* On, by places.                                                          *)
(***************************************************************************)
LEMMA OnLemma ==
  ASSUME lists \in [Heads -> Seq(Items)], NEW h \in Heads
  PROVE  /\ On(h) \subseteq Items
         /\ \A x : x \in On(h) <=> \E m \in 1 .. Len(lists[h]) : lists[h][m] = x
<1>1. DOMAIN lists[h] = 1 .. Len(lists[h])
  BY LenProperties
<1>2. \A m \in 1 .. Len(lists[h]) : lists[h][m] \in Items
  BY ElementOfSeq
<1> QED BY <1>1, <1>2 DEF On, ToSet

(***************************************************************************)
(* From its head a loop goes to the first item in its direction.           *)
(***************************************************************************)
LEMMA FromHead ==
  ASSUME Pointers, NEW h \in Heads, NEW k \in Loops
  PROVE  /\ Following(k, h) \in On(h) \cup {h}
         /\ Following(k, h) = h => On(h) = {}
         /\ \A a, b \in 1 .. Len(lists[h]) :
               lists[h][b] = Following(k, h) => ~Earlier(k, a, b)
<1>1. PICK n \in Nat : n = Len(lists[h])
  BY RingTypes
<1>2. lists \in [Heads -> Seq(Items)] /\ OncePlaced
  BY DEF Pointers
<1>3. next[h] = RingAt(h, 1) /\ prev[h] = RingAt(h, n)
  <2>1. /\ RingAt(h, 0) = h /\ next[RingAt(h, 0)] = RingAt(h, 0 + 1)
        /\ RingAt(h, n + 1) = h /\ prev[RingAt(h, n + 1)] = RingAt(h, n)
    BY <1>1 DEF Pointers, Rings, RingAt
  <2> QED BY <2>1
<1>4. PICK m \in {1, n} : /\ Following(k, h) = RingAt(h, m)
                          /\ m = IF k \in Backward THEN n ELSE 1
  BY <1>3 DEF Following
<1>5. CASE n = 0
  <2>1. Following(k, h) = h
    BY <1>1, <1>4, <1>5 DEF RingAt
  <2>2. On(h) = {}
    <3>1. ASSUME NEW x \in On(h) PROVE FALSE
      <4>1. PICK j \in 1 .. Len(lists[h]) : lists[h][j] = x
        BY <1>2, OnLemma
      <4> QED BY <1>1, <1>5
    <3> QED BY <3>1
  <2> QED BY <1>1, <1>5, <2>1, <2>2
<1>6. CASE n > 0
  <2>1. m \in 1 .. n /\ Following(k, h) = lists[h][m]
    BY <1>1, <1>4, <1>6 DEF RingAt
  <2>2. lists[h][m] \in On(h) /\ lists[h][m] # h
    BY <1>1, <1>2, <2>1, OnLemma, NodesAssumption
  <2>3. ASSUME NEW a \in 1 .. n, NEW b \in 1 .. n, lists[h][b] = lists[h][m]
        PROVE  ~Earlier(k, a, b)
    <3>1. b = m
      BY <1>1, <1>2, <2>1, <2>3 DEF OncePlaced
    <3> QED BY <1>4, <3>1 DEF Earlier
  <2> QED BY <1>1, <2>1, <2>2, <2>3
<1> QED BY <1>5, <1>6

(***************************************************************************)
(* From an item a loop goes on to the next and leaves only that item       *)
(* behind.                                                                 *)
(***************************************************************************)
LEMMA FromItem ==
  ASSUME Pointers, NEW h \in Heads, NEW k \in Loops,
         NEW y \in On(h), NEW S, S \subseteq On(h), NEW T,
         Passed(k, h, y, S, T)
  PROVE  Passed(k, h, Following(k, y), S, T \cup {y})
<1>1. PICK n \in Nat : n = Len(lists[h])
  BY RingTypes
<1>2. lists \in [Heads -> Seq(Items)] /\ OncePlaced
  BY DEF Pointers
<1>3. PICK m \in 1 .. n : lists[h][m] = y
  BY <1>1, <1>2, OnLemma
<1>4. RingAt(h, m) = y /\ next[y] = RingAt(h, m + 1) /\ prev[y] = RingAt(h, m - 1)
  <2>1. RingAt(h, m) = y
    BY <1>1, <1>3 DEF RingAt
  <2>2. PICK j \in 0 .. n : j = m - 1 /\ j + 1 = m
    BY <1>3
  <2>3. next[RingAt(h, m)] = RingAt(h, m + 1) /\ prev[RingAt(h, j + 1)] = RingAt(h, j)
    BY <1>1 DEF Pointers, Rings
  <2> QED BY <2>1, <2>2, <2>3
<1>5. PICK z \in Nat : /\ Following(k, y) = RingAt(h, z)
                       /\ z = IF k \in Backward THEN m - 1 ELSE m + 1
  BY <1>4 DEF Following
<1>6. \A a \in 1 .. n : lists[h][a] \in S /\ (a = m \/ Earlier(k, a, m)) =>
                           lists[h][a] \in T \cup {y}
  BY <1>1, <1>3 DEF Passed
<1>7. CASE z \notin 1 .. n
  <2>1. Following(k, y) = h
    BY <1>1, <1>5, <1>7 DEF RingAt
  <2>2. \A a \in 1 .. n : a = m \/ Earlier(k, a, m)
    BY <1>5, <1>7 DEF Earlier
  <2>3. S \subseteq T \cup {y}
    BY <1>1, <1>2, <1>6, <2>2, OnLemma
  <2>4. \A b \in 1 .. n : lists[h][b] # h
    BY <1>1, <1>2, ElementOfSeq, NodesAssumption
  <2> QED BY <1>1, <2>1, <2>3, <2>4 DEF Passed
<1>8. CASE z \in 1 .. n
  <2>1. Following(k, y) = lists[h][z]
    BY <1>1, <1>5, <1>8 DEF RingAt
  <2>2. lists[h][z] \in On(h) /\ lists[h][z] # h
    BY <1>1, <1>2, <1>8, OnLemma, NodesAssumption
  <2>3. ASSUME NEW a \in 1 .. n, NEW b \in 1 .. n,
               lists[h][b] = lists[h][z], lists[h][a] \in S, Earlier(k, a, b)
        PROVE  lists[h][a] \in T \cup {y}
    <3>1. b = z
      BY <1>1, <1>2, <1>8, <2>3 DEF OncePlaced
    <3>2. a = m \/ Earlier(k, a, m)
      BY <1>5, <2>3, <3>1 DEF Earlier
    <3> QED BY <1>6, <2>3, <3>2
  <2> QED BY <1>1, <2>1, <2>2, <2>3 DEF Passed
<1> QED BY <1>7, <1>8

(***************************************************************************)
(* What a loop that comes to y, having set aside z, has to satisfy.        *)
(***************************************************************************)
LEMMA Arrival ==
  ASSUME UNCHANGED lists, NEW k \in Loops, NEW h \in Heads, NEW y \in Nodes, NEW z,
         NEW S, NEW T, loop' = k, head' = h, item' = y, ahead' = z,
         stayed' = S, seen' = T, S \subseteq On(h), T \subseteq Items,
         k \in Plain => z = None /\ y \in T \cup {h},
         y = h => S \subseteq T,
         Passed(k, h, IF k \in Safe THEN z ELSE y, S, T)
  PROVE  Loop'
<1>1. On(h)' = On(h)
  BY DEF On
<1>2. PICK g : g = IF k \in Safe THEN z ELSE y
  OBVIOUS
<1>3. Passed(k, h, g, S, T)'
  BY <1>1, <1>2 DEF Passed
<1>4. GoesOnFrom' = g
  BY <1>2 DEF GoesOnFrom
<1>5. Passed(loop, head, GoesOnFrom, stayed, seen)'
  BY <1>3, <1>4 DEF Passed, On
<1>6. k # None
  BY DEF Loops, Plain, Safe, None
<1>7. Looping'
  BY <1>1, <1>5 DEF Looping, On
<1> QED BY <1>6, <1>7 DEF Loop

(***************************************************************************)
(* A loop begins at the first item, with none behind it.                   *)
(***************************************************************************)
LEMMA BeginStep ==
  ASSUME Pointers, NEW k \in Loops, NEW h \in Heads, Begin(k, h)
  PROVE  Loop'
<1>1. PICK y, z : y = Following(k, h) /\ z = Aside(k, y)
  OBVIOUS
<1>2. PICK S, T : S = On(h) /\ T = {y} \ {h}
  OBVIOUS
<1>3. /\ loop' = k /\ head' = h /\ item' = y /\ ahead' = z
      /\ stayed' = S /\ seen' = T /\ UNCHANGED lists
  BY <1>1, <1>2 DEF Begin, VisitAt
<1>4. /\ y \in On(h) \cup {h} /\ (y = h => On(h) = {})
      /\ \A a, b \in 1 .. Len(lists[h]) : lists[h][b] = y => ~Earlier(k, a, b)
  BY <1>1, FromHead
<1>5. On(h) \subseteq Items /\ h \notin Items
  BY OnLemma, NodesAssumption DEF Pointers
<1>6. Passed(k, h, y, S, {}) /\ Passed(k, h, y, S, T)
  BY <1>2, <1>4 DEF Passed
<1>7. CASE k \in Plain
  <2>1. k \notin Safe /\ z = None
    BY <1>1, <1>7 DEF Plain, Safe, Aside
  <2> QED BY <1>2, <1>3, <1>4, <1>5, <1>6, <2>1, Arrival DEF Nodes
<1>8. CASE k \in Safe
  <2>1. k \notin Plain /\ z = Following(k, y)
    BY <1>1, <1>8 DEF Plain, Safe, Aside
  <2>2. CASE y = h
    <3>1. z = h /\ S = {}
      BY <1>1, <1>2, <1>4, <2>1, <2>2
    <3>2. Passed(k, h, z, S, T)
      BY <1>6, <2>2, <3>1
    <3> QED BY <1>2, <1>3, <1>4, <1>5, <1>8, <2>1, <2>2, <3>1, <3>2, Arrival DEF Nodes
  <2>3. CASE y # h
    <3>1. y \in On(h) /\ T = {} \cup {y}
      BY <1>2, <1>4, <2>3
    <3>2. Passed(k, h, Following(k, y), S, {} \cup {y})
      BY <1>2, <1>6, <3>1, FromItem
    <3>3. Passed(k, h, z, S, T)
      BY <2>1, <3>1, <3>2
    <3> QED BY <1>2, <1>3, <1>4, <1>5, <1>8, <2>1, <2>3, <3>3, Arrival DEF Nodes
  <2> QED BY <2>2, <2>3
<1> QED BY <1>7, <1>8 DEF Loops

(***************************************************************************)
(* It goes on from an item of its list or from its head, also when its     *)
(* body has taken off the item it ran for.                                 *)
(***************************************************************************)
LEMMA StepStep ==
  ASSUME Pointers, Loop, Step
  PROVE  Loop'
<1>1. Looping /\ loop \in Loops
  BY DEF Loop, Step
<1>2. PICK k \in Loops, h \in Heads : k = loop /\ h = head
  BY <1>1 DEF Looping
<1>3. PICK y, z : y = Advance(k, item, ahead) /\ z = Aside(k, y)
  OBVIOUS
<1>4. PICK S, T : S = stayed /\ T = seen \cup ({y} \ {h})
  OBVIOUS
<1>5. /\ loop' = k /\ head' = h /\ item' = y /\ ahead' = z
      /\ stayed' = S /\ seen' = T /\ UNCHANGED lists /\ item # h
  BY <1>2, <1>3, <1>4 DEF Step, VisitAt
<1>6. /\ S \subseteq On(h) /\ On(h) \subseteq Items /\ h \notin Items /\ seen \subseteq Items
      /\ Passed(k, h, GoesOnFrom, S, seen)
  BY <1>1, <1>2, <1>4, OnLemma, NodesAssumption DEF Pointers, Looping
<1>7. CASE k \in Plain
  <2>1. k \notin Safe /\ z = None /\ y = Following(k, item) /\ GoesOnFrom = item
    BY <1>2, <1>3, <1>7 DEF Plain, Safe, Aside, Advance, GoesOnFrom
  <2>2. item \in On(h) /\ item \in seen
    BY <1>1, <1>2, <1>5, <1>6, <1>7, <2>1 DEF Passed, Looping
  <2>3. Passed(k, h, y, S, seen \cup {item})
    <3>1. PICK i : i = item
      OBVIOUS
    <3>2. PICK Q : Q = seen
      OBVIOUS
    <3>3. Passed(k, h, Following(k, i), S, Q \cup {i})
      BY <1>6, <2>1, <2>2, <3>1, <3>2, FromItem
    <3> QED BY <2>1, <3>1, <3>2, <3>3
  <2>4. seen \cup {item} \subseteq T
    BY <1>4, <2>2
  <2>5. Passed(k, h, y, S, T)
    BY <2>3, <2>4 DEF Passed
  <2>6. y \in On(h) \cup {h} /\ (y = h => S \subseteq T)
    BY <2>5 DEF Passed
  <2>7. T \subseteq Items /\ y \in T \cup {h} /\ y \in Nodes
    BY <1>4, <1>6, <2>6 DEF Nodes
  <2> QED BY <1>5, <1>6, <2>1, <2>5, <2>6, <2>7, Arrival
<1>8. CASE k \in Safe
  <2>1. k \notin Plain /\ z = Following(k, y) /\ GoesOnFrom = y
    BY <1>2, <1>3, <1>8 DEF Plain, Safe, Aside, Advance, GoesOnFrom
  <2>2. y \in On(h) \cup {h} /\ (y = h => S \subseteq seen) /\ Passed(k, h, y, S, seen)
    BY <1>6, <2>1 DEF Passed
  <2>3. T \subseteq Items /\ y \in Nodes /\ (y = h => S \subseteq T)
    BY <1>4, <1>6, <2>2 DEF Nodes
  <2>4. Passed(k, h, z, S, T)
    <3>1. CASE y = h
      <4>1. z \in On(h) \cup {h}
        BY <2>1, <3>1, FromHead
      <4> QED BY <2>3, <3>1, <4>1 DEF Passed
    <3>2. CASE y # h
      <4>1. y \in On(h) /\ T = seen \cup {y}
        BY <1>4, <2>2, <3>2
      <4>2. PICK Q : Q = seen
        OBVIOUS
      <4>3. Passed(k, h, Following(k, y), S, Q \cup {y})
        BY <1>6, <2>2, <4>1, <4>2, FromItem
      <4> QED BY <2>1, <4>1, <4>2, <4>3
    <3> QED BY <3>1, <3>2
  <2> QED BY <1>5, <1>6, <1>8, <2>1, <2>3, <2>4, Arrival
<1> QED BY <1>7, <1>8 DEF Loops

----------------------------------------------------------------------------
(* The bodies of the loops.                                                *)

(***************************************************************************)
(* An item that is put anywhere leaves what a loop has come by behind it.  *)
(***************************************************************************)
LEMMA PassedPut ==
  ASSUME lists \in [Heads -> Seq(Items)], lists' \in [Heads -> Seq(Items)],
         NEW h \in Heads, NEW k \in 1 .. Len(lists[h]) + 1, NEW i \in Items,
         Inserted(h, k, i),
         \A g \in Heads : \A m \in 1 .. Len(lists[g]) : lists[g][m] # i,
         NEW g \in Heads, NEW d, NEW y, NEW S, NEW T,
         S \subseteq On(g), Passed(d, g, y, S, T)
  PROVE  On(g) \subseteq On(g)' /\ Passed(d, g, y, S, T)'
<1>1. /\ \A x : x \in On(g) <=> \E m \in 1 .. Len(lists[g]) : lists[g][m] = x
      /\ i \notin On(g) /\ i # g
  BY OnLemma, NodesAssumption
<1>2. \A x : x \in On(g)' <=> \E m \in 1 .. Len(lists'[g]) : lists'[g][m] = x
  <2>1. lists'[g] \in Seq(Items) /\ On(g)' = ToSet(lists'[g])
    BY DEF On
  <2> QED BY <2>1, ToSetLemma
<1>3. CASE g # h
  <2>1. lists'[g] = lists[g]
    BY <1>3 DEF Inserted
  <2>2. On(g)' = On(g)
    BY <2>1 DEF On
  <2> QED BY <2>1, <2>2 DEF Passed
<1>4. CASE g = h
  <2>1. PICK n \in Nat : n = Len(lists[h]) /\ Len(lists'[h]) = n + 1
    BY LenProperties DEF Inserted
  <2>2. On(g) \subseteq On(g)'
    <3>1. ASSUME NEW m \in 1 .. n
          PROVE  \E j \in 1 .. n + 1 : lists'[h][j] = lists[h][m]
      <4>1. CASE m < k
        BY <2>1, <4>1 DEF Inserted
      <4>2. CASE m >= k
        <5>1. PICK j \in 1 .. n + 1 : j = m + 1 /\ j > k /\ j - 1 = m
          BY <2>1, <4>2
        <5>2. lists'[h][j] = lists[h][j - 1]
          BY <2>1, <5>1 DEF Inserted
        <5> QED BY <5>1, <5>2
      <4> QED BY <2>1, <4>1, <4>2
    <3> QED BY <1>1, <1>2, <1>4, <2>1, <3>1
  <2>3. \A j \in 1 .. Len(lists'[h]) :
           /\ j = k => lists'[h][j] = i
           /\ j # k => \E o \in 1 .. Len(lists[h]) :
                          o = WasBehind(k, j) /\ lists'[h][j] = lists[h][o]
    BY InsertedPlaces
  <2>4. ASSUME NEW a \in 1 .. Len(lists'[h]), NEW b \in 1 .. Len(lists'[h]),
               lists'[h][b] = y, lists'[h][a] \in S, Earlier(d, a, b)
        PROVE  lists'[h][a] \in T
    <3>1. a # k /\ b # k
      BY <1>1, <1>4, <2>3, <2>4 DEF Passed
    <3>2. PICK o \in 1 .. n : o = WasBehind(k, a) /\ lists'[h][a] = lists[h][o]
      BY <2>1, <2>3, <3>1
    <3>3. PICK q \in 1 .. n : q = WasBehind(k, b) /\ lists'[h][b] = lists[h][q]
      BY <2>1, <2>3, <3>1
    <3>4. Earlier(d, o, q)
      BY <2>1, <2>4, <3>1, <3>2, <3>3 DEF Earlier, WasBehind
    <3> QED BY <1>4, <2>1, <2>4, <3>2, <3>3, <3>4 DEF Passed
  <2>5. y \in On(g)' \cup {g} /\ (y = g => S \subseteq T)
    BY <2>2 DEF Passed
  <2> QED BY <1>4, <2>2, <2>4, <2>5 DEF Passed
<1> QED BY <1>3, <1>4

(***************************************************************************)
(* So does one that is taken off, unless the loop goes on from it.         *)
(***************************************************************************)
LEMMA PassedTake ==
  ASSUME lists \in [Heads -> Seq(Items)], lists' \in [Heads -> Seq(Items)],
         NEW h \in Heads, NEW k \in 1 .. Len(lists[h]), NEW i,
         lists[h][k] = i, Removed(h, k),
         NEW g \in Heads, NEW d, NEW y, y # i, NEW S, NEW T,
         S \subseteq On(g), Passed(d, g, y, S, T)
  PROVE  On(g) \ {i} \subseteq On(g)' /\ Passed(d, g, y, S \ {i}, T)'
<1>1. \A x : x \in On(g) <=> \E m \in 1 .. Len(lists[g]) : lists[g][m] = x
  BY OnLemma
<1>2. \A x : x \in On(g)' <=> \E m \in 1 .. Len(lists'[g]) : lists'[g][m] = x
  <2>1. lists'[g] \in Seq(Items) /\ On(g)' = ToSet(lists'[g])
    BY DEF On
  <2> QED BY <2>1, ToSetLemma
<1>3. CASE g # h
  <2>1. lists'[g] = lists[g]
    BY <1>3 DEF Removed
  <2>2. On(g)' = On(g)
    BY <2>1 DEF On
  <2> QED BY <2>1, <2>2 DEF Passed
<1>4. CASE g = h
  <2>1. PICK n \in Nat : n = Len(lists[h]) /\ Len(lists'[h]) = n - 1
    BY LenProperties DEF Removed
  <2>2. On(g) \ {i} \subseteq On(g)'
    <3>1. ASSUME NEW m \in 1 .. n, m # k
          PROVE  \E j \in 1 .. n - 1 : lists'[h][j] = lists[h][m]
      <4>1. CASE m < k
        BY <2>1, <4>1 DEF Removed
      <4>2. CASE m > k
        <5>1. PICK j \in 1 .. n - 1 : j = m - 1 /\ ~(j < k) /\ j + 1 = m
          BY <2>1, <4>2
        <5> QED BY <2>1, <5>1 DEF Removed
      <4> QED BY <2>1, <3>1, <4>1, <4>2
    <3>2. ASSUME NEW x \in On(g) \ {i} PROVE x \in On(g)'
      <4>1. PICK m \in 1 .. n : lists[h][m] = x /\ m # k
        BY <1>1, <1>4, <2>1
      <4>2. PICK j \in 1 .. Len(lists'[g]) : lists'[g][j] = x
        BY <1>4, <2>1, <3>1, <4>1
      <4> QED BY <1>2, <4>2
    <3> QED BY <3>2
  <2>3. \A j \in 1 .. Len(lists'[h]) :
           \E o \in 1 .. Len(lists[h]) \ {k} :
              o = WasBefore(k, j) /\ lists'[h][j] = lists[h][o]
    BY RemovedPlaces
  <2>4. ASSUME NEW a \in 1 .. Len(lists'[h]), NEW b \in 1 .. Len(lists'[h]),
               lists'[h][b] = y, lists'[h][a] \in S \ {i}, Earlier(d, a, b)
        PROVE  lists'[h][a] \in T
    <3>1. PICK o \in 1 .. n : o = WasBefore(k, a) /\ lists'[h][a] = lists[h][o]
      BY <2>1, <2>3
    <3>2. PICK q \in 1 .. n : q = WasBefore(k, b) /\ lists'[h][b] = lists[h][q]
      BY <2>1, <2>3
    <3>3. Earlier(d, o, q)
      BY <2>1, <2>4, <3>1, <3>2 DEF Earlier, WasBefore
    <3> QED BY <1>4, <2>1, <2>4, <3>1, <3>2, <3>3 DEF Passed
  <2>5. y \in On(g)' \cup {g} /\ (y = g => S \ {i} \subseteq T)
    BY <2>2 DEF Passed
  <2> QED BY <1>4, <2>2, <2>4, <2>5 DEF Passed
<1> QED BY <1>3, <1>4

(***************************************************************************)
(* What a body has to leave as it is.                                      *)
(***************************************************************************)
LEMMA BodyLemma ==
  ASSUME Looping, loop \in Loops, UNCHANGED <<cursor, seen>>,
         NEW k, NEW h, NEW y, NEW S, NEW T,
         k = loop, h = head, y = GoesOnFrom, T = seen,
         stayed' = S, S \subseteq stayed, S \subseteq On(h)',
         Passed(k, h, y, S, T)'
  PROVE  Loop'
<1>1. /\ loop' = k /\ head' = h /\ item' = item /\ ahead' = ahead
      /\ seen' = T /\ GoesOnFrom' = y
  BY DEF cursor, GoesOnFrom
<1>2. Passed(loop, head, GoesOnFrom, stayed, seen)'
  BY <1>1 DEF Passed, On
<1>3. (stayed \subseteq On(head))'
  BY <1>1 DEF On
<1>4. Looping'
  BY <1>1, <1>2, <1>3 DEF Looping
<1>5. loop' \in Loops /\ loop' # None
  BY <1>1 DEF Loops, Plain, Safe, None
<1> QED BY <1>4, <1>5 DEF Loop

(***************************************************************************)
(* A body that puts, takes off, frees or initialises items leaves the loop *)
(* as it was.                                                              *)
(***************************************************************************)
LEMMA BodyStep ==
  ASSUME Pointers, Loop, Change
  PROVE  Loop'
<1>1. lists \in [Heads -> Seq(Items)] /\ OncePlaced
  BY DEF Pointers
<1>2. UNCHANGED <<cursor, seen>>
  BY DEF Change, sancus_list_insert, sancus_list_append, sancus_list_insert_before,
         sancus_list_del, Reuse, sancus_list_init
<1>3. CASE loop = None
  <2>1. stayed = {} /\ stayed' \subseteq stayed
    BY <1>3 DEF Loop, Change, sancus_list_insert, sancus_list_append,
                sancus_list_insert_before, sancus_list_del, Reuse, sancus_list_init
  <2> QED BY <1>2, <1>3, <2>1 DEF Loop, cursor
<1>4. CASE loop # None
  <2>1. Looping /\ loop \in Loops
    BY <1>4 DEF Loop
  <2>2. PICK d \in Loops, g \in Heads,
             y \in {GoesOnFrom}, S \in {stayed}, T \in {seen} :
           d = loop /\ g = head /\ y = GoesOnFrom /\ S = stayed /\ T = seen
    BY <2>1 DEF Looping
  <2>3. S \subseteq On(g) /\ Passed(d, g, y, S, T)
    BY <2>1, <2>2 DEF Looping
  <2>4. ASSUME NEW h \in Heads, NEW k \in 1 .. Len(lists[h]) + 1, NEW i \in Items,
               PutAt(h, k, i), UNCHANGED stayed
        PROVE  Loop'
    <3>1. /\ lists' \in [Heads -> Seq(Items)] /\ Inserted(h, k, i)
          /\ \A f \in Heads : \A m \in 1 .. Len(lists[f]) : lists[f][m] # i
      BY <1>1, <2>4, PutLemma
    <3>2. On(g) \subseteq On(g)' /\ Passed(d, g, y, S, T)'
      BY <1>1, <2>3, <3>1, PassedPut
    <3>3. stayed' = S /\ S \subseteq stayed /\ S \subseteq On(g)'
      BY <2>2, <2>3, <2>4, <3>2
    <3> QED BY <1>2, <2>1, <2>2, <3>2, <3>3, BodyLemma
  <2>5. ASSUME NEW h \in Heads, NEW i \in Items, sancus_list_insert(h, i) PROVE Loop'
    <3>1. PutAt(h, 1, i) /\ UNCHANGED stayed
      BY <2>5 DEF sancus_list_insert
    <3>2. 1 \in 1 .. Len(lists[h]) + 1
      BY RingTypes
    <3> QED BY <2>4, <3>1, <3>2
  <2>6. ASSUME NEW h \in Heads, NEW i \in Items, sancus_list_append(h, i) PROVE Loop'
    <3>1. PutAt(h, Len(lists[h]) + 1, i) /\ UNCHANGED stayed
      BY <2>6 DEF sancus_list_append
    <3>2. Len(lists[h]) + 1 \in 1 .. Len(lists[h]) + 1
      BY RingTypes
    <3> QED BY <2>4, <3>1, <3>2
  <2>7. ASSUME NEW h \in Heads, NEW i \in Items, NEW j \in Items,
               sancus_list_insert_before(h, i, j)
        PROVE  Loop'
    <3>1. PutAt(h, PlaceOf(h, j), i) /\ UNCHANGED stayed /\ j \in On(h)
      BY <2>7 DEF sancus_list_insert_before, PutBefore
    <3>2. \E m \in 1 .. Len(lists[h]) : lists[h][m] = j
      BY <1>1, <3>1, OnLemma
    <3>3. PlaceOf(h, j) \in 1 .. Len(lists[h])
      BY <3>2 DEF PlaceOf
    <3>4. PlaceOf(h, j) \in 1 .. Len(lists[h]) + 1
      BY <3>3, RingTypes
    <3> QED BY <2>4, <3>1, <3>4
  <2>8. ASSUME NEW h \in Heads, NEW i \in Items, sancus_list_del(h, i) PROVE Loop'
    <3>1. TakeOff(h, i) /\ y # i /\ stayed' = S \ {i}
      BY <1>4, <2>2, <2>8 DEF sancus_list_del
    <3>2. PICK k \in 1 .. Len(lists[h]) :
             lists[h][k] = i /\ lists' \in [Heads -> Seq(Items)] /\ Removed(h, k)
      BY <1>1, <3>1, TakeLemma
    <3>3. On(g) \ {i} \subseteq On(g)' /\ Passed(d, g, y, S \ {i}, T)'
      BY <1>1, <2>3, <3>1, <3>2, PassedTake
    <3>4. PICK R : R = S \ {i}
      OBVIOUS
    <3>5. R \subseteq On(g)' /\ R \subseteq stayed /\ stayed' = R /\ Passed(d, g, y, R, T)'
      BY <2>2, <2>3, <3>1, <3>3, <3>4
    <3> QED BY <1>2, <2>1, <2>2, <3>5, BodyLemma
  <2>9. ASSUME UNCHANGED <<lists, stayed>> PROVE Loop'
    <3>1. On(g)' = On(g)
      BY <2>9 DEF On
    <3>2. Passed(d, g, y, S, T)'
      BY <2>3, <2>9, <3>1 DEF Passed
    <3>3. stayed' = S /\ S \subseteq stayed /\ S \subseteq On(g)'
      BY <2>2, <2>3, <2>9, <3>1
    <3> QED BY <1>2, <2>1, <2>2, <3>2, <3>3, BodyLemma
  <2> QED BY <2>5, <2>6, <2>7, <2>8, <2>9 DEF Change, Reuse, sancus_list_init
<1> QED BY <1>3, <1>4

----------------------------------------------------------------------------
(* The queries.                                                            *)

(***************************************************************************)
(* A set of naturals that is not empty has a least element: what is proved *)
(* of all naturals below is proved of the least one it might not hold for. *)
(***************************************************************************)
LEMMA LeastNumber ==
    ASSUME NEW T, T \subseteq Nat, T # {}
    PROVE  \E x \in T : \A y \in T : x <= y
<1> DEFINE R == {ss \in Nat \X Nat : ss[1] < ss[2]}
<1>1. IsWellFoundedOn(R, Nat)
    BY ONLY NatLessThanWellFounded, Zenon DEF OpToRel
<1>2. PICK x \in T : \A y \in T : <<y, x>> \notin R
    BY <1>1, WFMin, Zenon
<1>3. ASSUME NEW y \in T PROVE x <= y
  <2>1. <<y, x>> \notin R
    BY <1>2
  <2>2. x \in Nat /\ y \in Nat
    OBVIOUS
  <2> QED BY <2>1, <2>2
<1> QED BY <1>3

(***************************************************************************)
(* Walking along a field any number of times is well defined.              *)
(***************************************************************************)
LEMMA WalkExists ==
    ASSUME NEW field, NEW h, NEW N \in Nat
    PROVE  \E g : g = [n \in 0 .. N |-> IF n = 0 THEN h ELSE field[g[n - 1]]]
<1> DEFINE Is(g, m) == g = [n \in 0 .. m |-> IF n = 0 THEN h ELSE field[g[n - 1]]]
<1> DEFINE T == {m \in Nat : ~ \E g : Is(g, m)}
<1>1. SUFFICES ASSUME T # {} PROVE FALSE
    OBVIOUS
<1>2. PICK m \in T : \A y \in T : m <= y
    BY <1>1, LeastNumber
<1>3. m # 0
  <2>1. Is([n \in 0 .. 0 |-> h], 0)
    OBVIOUS
  <2> QED BY <2>1
<1>4. m - 1 \in Nat /\ m - 1 \notin T
  <2>1. m \in Nat
    OBVIOUS
  <2>2. m - 1 \in Nat /\ ~ (m <= m - 1)
    BY <2>1, <1>3
  <2> HIDE DEF T
  <2> QED BY <2>2, <1>2
<1>5. PICK g : Is(g, m - 1)
    BY <1>4
<1> DEFINE f == [n \in 0 .. m |-> IF n = m THEN field[g[m - 1]] ELSE g[n]]
<1>6. Is(f, m)
    BY <1>4, <1>5
<1> QED BY <1>6, <1>2

(***************************************************************************)
(* A walk is what its recursive definition says.                           *)
(***************************************************************************)
LEMMA WalkedLemma ==
    ASSUME NEW field, NEW h
    PROVE Cardinality(Items) + 1 \in Nat /\
    Walked(field, h) = [n \in 0 .. Cardinality(Items) + 1 |-> IF n = 0 THEN h ELSE field[Walked(field,h)[n - 1]]]
<1>1. Cardinality(Items) + 1 \in Nat
   BY NodesAssumption, FS_CardinalityType
<1> QED BY <1>1, WalkExists DEF Walked

(***************************************************************************)
(* A loop that changes nothing, over elements r[1] to r[len] of which each *)
(* leads to the next and the last to h, comes by just these.               *)
(***************************************************************************)
LEMMA ForeachLemma ==
    ASSUME NEW field, NEW h, NEW len \in Nat, len <= Cardinality(Items),
           NEW r, r[0] = h, r[len + 1] = h,
           \A k \in 0 .. len : field[r[k]] = r[k + 1],
           \A k \in 1 .. len : r[k] # h
    PROVE  Foreach(field, h) = [k \in 1 .. len |-> r[k]]
<1> DEFINE w == Walked(field, h)
           max == Cardinality(Items) + 1
<1>1. /\ max \in Nat
      /\ w = [n \in 0 .. max |-> IF n = 0 THEN h ELSE field[w[n - 1]]]
    BY WalkedLemma
<1> HIDE DEF w, max
<1>2. max >= len + 1
  <2>1. Cardinality(Items) \in Nat
    BY NodesAssumption, FS_CardinalityType
  <2> QED BY <2>1 DEF max
<1>3. \A k \in 0 .. len + 1 : w[k] = r[k]
  <2> DEFINE T == {k \in 0 .. len + 1 : w[k] # r[k]}
  <2>1. SUFFICES ASSUME T # {} PROVE FALSE
    OBVIOUS
  <2>2. T \subseteq Nat
    OBVIOUS
  <2>3. PICK k \in T : \A y \in T : k <= y
    BY <2>1, <2>2, LeastNumber, Zenon
  <2>4. k \in 0 .. len + 1 /\ w[k] # r[k]
    OBVIOUS
  <2>5. k # 0
    BY <2>4, <1>1
  <2>6. k - 1 \in 0 .. len /\ ~ (k <= k - 1) /\ k - 1 \in 0 .. len + 1
    BY <2>4, <2>5
  <2>7. w[k - 1] = r[k - 1]
    BY <2>3, <2>6
  <2>8. w[k] = field[w[k - 1]]
    BY <1>1, <1>2, <2>4, <2>5
  <2>9. field[r[k - 1]] = r[(k - 1) + 1]
    BY <2>6
  <2>10. (k - 1) + 1 = k
    BY <2>4
  <2> QED BY <2>4, <2>7, <2>8, <2>9, <2>10
<1> DEFINE end == {n \in 1 .. max : w[n] = h}
<1>4. len + 1 \in end /\ \A j \in end : len + 1 <= j
  <2>1. len + 1 \in end
    <3>1. len + 1 \in 1 .. max /\ len + 1 \in 0 .. len + 1
      BY <1>1, <1>2
    <3> QED BY <1>3, <3>1
  <2>2. ASSUME NEW j \in 1 .. max, ~ (len + 1 <= j) PROVE w[j] # h
    <3>1. j \in 1 .. len /\ j \in 0 .. len + 1
      BY <1>1, <2>2
    <3> QED BY <1>3, <3>1
  <2> QED BY <2>1, <2>2
<1> DEFINE least == CHOOSE k \in end : \A j \in end : k <= j
<1>5. least = len + 1
  <2>1. least \in end /\ \A j \in end : least <= j
    BY <1>4
  <2>2. end \subseteq Int
    OBVIOUS
  <2> HIDE DEF end, least
  <2> QED BY <1>4, <2>1, <2>2
<1>6. Foreach(field, h) = [k \in 1 .. least - 1 |-> w[k]]
    BY DEF Foreach, w, max
<1> HIDE DEF end, least
<1>7. least - 1 = len
    BY <1>5
<1> QED BY <1>3, <1>6, <1>7

(***************************************************************************)
(* A list is not longer than there are items, so that a loop gets round it.*)
(***************************************************************************)
LEMMA FewItems ==
    ASSUME lists \in [Heads -> Seq(Items)], OncePlaced, NEW h \in Heads
    PROVE  Len(lists[h]) <= Cardinality(Items)
<1> DEFINE s == lists[h]
<1>1. s \in Seq(Items) /\ Len(s) \in Nat
    OBVIOUS
<1>2. s \in [1 .. Len(s) -> Items]
    BY <1>1
<1>3. \A a, b \in 1 .. Len(s) : s[a] = s[b] => a = b
    BY DEF OncePlaced
<1> HIDE DEF s
<1>4. s \in Injection(1 .. Len(s), Items)
    BY <1>2, <1>3 DEF Injection, IsInjective
<1>5. Cardinality(1 .. Len(s)) <= Cardinality(Items)
    BY <1>4, FS_Injection, NodesAssumption
<1>6. Cardinality(1 .. Len(s)) = Len(s)
  <2>1. Cardinality(1 .. Len(s)) = IF 1 > Len(s) THEN 0 ELSE Len(s) - 1 + 1
    <3>1. 1 \in Int /\ Len(s) \in Int
      BY <1>1
    <3> QED BY ONLY <3>1, FS_Interval
  <2> QED BY <2>1, <1>1
<1> QED BY <1>5, <1>6 DEF s

(***************************************************************************)
(* sancus_list_foreach comes by the items in their order,                  *)
(***************************************************************************)
LEMMA ForeachForward ==
    ASSUME Pointers, NEW h \in Heads
    PROVE  Foreach(next, h) = [k \in 1 .. Len(lists[h]) |-> lists[h][k]]
<1> DEFINE len == Len(lists[h])
           r == [k \in 0 .. len + 1 |-> RingAt(h, k)]
<1>1. lists[h] \in Seq(Items) /\ len \in Nat /\ len <= Cardinality(Items)
    BY FewItems DEF Pointers
<1>2. \A k \in 1 .. len : lists[h][k] \in Items /\ lists[h][k] # h
    BY <1>1, NodesAssumption
<1>3. r[0] = h /\ r[len + 1] = h /\ \A k \in 1 .. len : r[k] = lists[h][k]
    BY <1>1 DEF RingAt
<1>4. \A k \in 0 .. len : next[r[k]] = r[k + 1]
    BY <1>1 DEF Pointers, Rings
<1> HIDE DEF r, len
<1>5. \A k \in 1 .. len : r[k] # h
    BY <1>2, <1>3
<1>6. Foreach(next, h) = [k \in 1 .. len |-> r[k]]
    BY <1>1, <1>3, <1>4, <1>5, ForeachLemma
<1> QED BY <1>3, <1>6 DEF len

(***************************************************************************)
(* sancus_list_foreach_back from the last to the first.                    *)
(***************************************************************************)
LEMMA ForeachBackward ==
    ASSUME Pointers, NEW h \in Heads
    PROVE  Foreach(prev, h) =
             [k \in 1 .. Len(lists[h]) |-> lists[h][Len(lists[h]) + 1 - k]]
<1> DEFINE len == Len(lists[h])
           r == [k \in 0 .. len + 1 |-> RingAt(h, len + 1 - k)]
<1>1. lists[h] \in Seq(Items) /\ len \in Nat /\ len <= Cardinality(Items)
    BY FewItems DEF Pointers
<1>2. \A k \in 1 .. len : lists[h][k] \in Items /\ lists[h][k] # h
    BY <1>1, NodesAssumption
<1>3. r[0] = h /\ r[len + 1] = h /\ \A k \in 1 .. len : r[k] = lists[h][len + 1 - k]
    BY <1>1 DEF RingAt
<1>4. ASSUME NEW k \in 0 .. len PROVE prev[r[k]] = r[k + 1]
  <2> HIDE DEF len
  <2>1. len - k \in 0 .. len /\ (len - k) + 1 = len + 1 - k /\ len + 1 - (k + 1) = len - k
    BY <1>1
  <2>2. prev[RingAt(h, (len - k) + 1)] = RingAt(h, len - k)
    BY <2>1 DEF Pointers, Rings, len
  <2>3. r[k] = RingAt(h, len + 1 - k) /\ r[k + 1] = RingAt(h, len + 1 - (k + 1))
    BY <1>1
  <2> QED BY <2>1, <2>2, <2>3
<1> HIDE DEF r, len
<1>5. \A k \in 1 .. len : r[k] # h
    BY <1>1, <1>2, <1>3
<1>6. \A k \in 0 .. len : prev[r[k]] = r[k + 1]
    BY <1>4
<1>7. Foreach(prev, h) = [k \in 1 .. len |-> r[k]]
  <2>1. len \in Nat /\ len <= Cardinality(Items) /\ r[0] = h /\ r[len + 1] = h
    BY <1>1, <1>3
  <2> QED BY <2>1, <1>5, <1>6, ForeachLemma, SMTT(60)
<1> QED BY <1>3, <1>7 DEF len

(***************************************************************************)
(* What the queries answer when the pointers are as they should.           *)
(***************************************************************************)
LEMMA QueriesLemma == Pointers => QueriesAgree
<1> SUFFICES ASSUME Pointers, NEW h \in Heads
             PROVE  LET s == lists[h]
                        Nth(n) == IF n \in DOMAIN s THEN s[n] ELSE None
                    IN  /\ sancus_list_size(h) = Len(s)
                        /\ \A n \in 0 .. Len(s) : sancus_list_get(h, n) = Nth(n + 1)
                        /\ \A n \in 0 .. Len(s) : sancus_list_get(h, -n - 1) = Nth(Len(s) - n)
                        /\ sancus_list_first(h) = Nth(1)
                        /\ sancus_list_last(h) = Nth(Len(s))
                        /\ \A n \in DOMAIN s : sancus_list_next(h, s[n]) = Nth(n + 1)
                        /\ sancus_list_next(h, sancus_list_first(h)) = Nth(2)
    BY DEF QueriesAgree
<1> DEFINE s == lists[h]
           Nth(n) == IF n \in DOMAIN s THEN s[n] ELSE None
           fwd == Foreach(next, h)
           bwd == Foreach(prev, h)
<1>1. s \in Seq(Items) /\ Len(s) \in Nat /\ DOMAIN s = 1 .. Len(s)
    BY DEF Pointers
<1>2. \A k \in 1 .. Len(s) : s[k] # h
    BY <1>1, NodesAssumption
<1>3. Len(fwd) = Len(s) /\ \A k \in 1 .. Len(s) : fwd[k] = s[k]
    BY <1>1, ForeachForward
<1>4. Len(bwd) = Len(s) /\ \A k \in 1 .. Len(s) : bwd[k] = s[Len(s) + 1 - k]
    BY <1>1, ForeachBackward
<1>5. \A k \in 0 .. Len(s) : /\ next[RingAt(h, k)] = RingAt(h, k + 1)
                             /\ prev[RingAt(h, k + 1)] = RingAt(h, k)
    BY DEF Pointers, Rings
<1>6. RingAt(h, 0) = h /\ RingAt(h, Len(s) + 1) = h
    BY <1>1 DEF RingAt
<1>7. \A k \in 1 .. Len(s) : RingAt(h, k) = s[k]
    BY DEF RingAt
<1> HIDE DEF s, fwd, bwd
<1>8. sancus_list_size(h) = Len(s)
    BY <1>3 DEF sancus_list_size, fwd
<1>9. ASSUME NEW n \in 0 .. Len(s) PROVE sancus_list_get(h, n) = Nth(n + 1)
  <2>1. sancus_list_get(h, n) = IF n < Len(fwd) THEN fwd[n + 1] ELSE None
    BY <1>1 DEF sancus_list_get, fwd
  <2> QED BY <2>1, <1>1, <1>3
<1>10. ASSUME NEW n \in 0 .. Len(s) PROVE sancus_list_get(h, -n - 1) = Nth(Len(s) - n)
  <2>1. -n - 1 < 0 /\ -(-n - 1) = n + 1
    BY <1>1
  <2>2. sancus_list_get(h, -n - 1) = IF n + 1 <= Len(bwd) THEN bwd[n + 1] ELSE None
    BY <2>1 DEF sancus_list_get, bwd
  <2>3. n + 1 <= Len(s) => bwd[n + 1] = s[Len(s) - n]
    <3>1. Len(s) \in Int /\ n \in Int
      BY <1>1
    <3>2. Len(s) + 1 - (n + 1) = Len(s) - n
      BY ONLY <3>1, SMT
    <3> QED BY <3>2, <1>1, <1>4
  <2> QED BY <2>2, <2>3, <1>1, <1>4
<1>11. next[h] = IF Len(s) = 0 THEN h ELSE s[1]
    BY <1>1, <1>5, <1>6, <1>7
<1>12. prev[h] = IF Len(s) = 0 THEN h ELSE s[Len(s)]
    BY <1>1, <1>5, <1>6, <1>7
<1>13. sancus_list_first(h) = Nth(1)
    BY <1>1, <1>2, <1>11 DEF sancus_list_first, sancus_list_is_empty
<1>14. sancus_list_last(h) = Nth(Len(s))
    BY <1>1, <1>2, <1>11, <1>12 DEF sancus_list_last, sancus_list_is_empty
<1>15. ASSUME NEW n \in DOMAIN s PROVE sancus_list_next(h, s[n]) = Nth(n + 1)
  <2>1. next[s[n]] = RingAt(h, n + 1)
    BY <1>1, <1>5, <1>7
  <2>2. RingAt(h, n + 1) = IF n = Len(s) THEN h ELSE s[n + 1]
    BY <1>1, <1>6, <1>7
  <2>3. h # None /\ s[n] # None
    BY <1>1, NodesAssumption DEF Nodes
  <2> QED BY <2>1, <2>2, <2>3, <1>1, <1>2 DEF sancus_list_next
<1>16. sancus_list_next(h, sancus_list_first(h)) = Nth(2)
  <2>1. CASE Len(s) = 0
    <3>1. sancus_list_first(h) = None /\ Nth(2) = None
      BY <1>1, <1>13, <2>1
    <3> QED BY <3>1 DEF sancus_list_next
  <2>2. CASE Len(s) # 0
    <3>1. 1 \in DOMAIN s /\ sancus_list_first(h) = s[1]
      BY <1>1, <1>13, <2>2
    <3>2. sancus_list_next(h, s[1]) = Nth(1 + 1)
      BY <1>15, <3>1
    <3> QED BY <3>1, <3>2
  <2> QED BY <2>1, <2>2
<1> QED BY <1>8, <1>9, <1>10, <1>13, <1>14, <1>15, <1>16 DEF s

----------------------------------------------------------------------------
(***************************************************************************)
(* Empty lists satisfy the invariant.                                      *)
(***************************************************************************)
LEMMA InitStep == Init => IInv
<1> SUFFICES ASSUME Init PROVE IInv
  OBVIOUS
<1>1. lists \in [Heads -> Seq(Items)] /\ \A h \in Heads : lists[h] = <<>> /\ Len(lists[h]) = 0
  BY EmptySeq DEF Init, NoItems
<1>2. /\ prev \in [Nodes -> Nodes \cup {Wild}] /\ next \in [Nodes -> Nodes \cup {Wild}]
      /\ \A h \in Heads : prev[h] = h /\ next[h] = h
  BY DEF Init, Nodes
<1>3. OncePlaced
  BY <1>1 DEF OncePlaced
<1>4. Rings
  BY <1>1, <1>2 DEF Rings, RingAt
<1>5. Loop
  BY DEF Init, Loop
<1> QED BY <1>1, <1>2, <1>3, <1>4, <1>5 DEF IInv, Pointers

(***************************************************************************)
(* The inductive invariant holds whatever is done to the lists and in the  *)
(* bodies of the loops.                                                    *)
(***************************************************************************)
THEOREM ListInvariant == SafeSpec => []IInv
<1>1. IInv /\ [Next]_vars => IInv'
  <2> SUFFICES ASSUME Pointers, Loop, [Next]_vars PROVE Pointers' /\ Loop'
    BY DEF IInv
  <2>1. CASE Change
    BY <2>1, ChangeStep, BodyStep
  <2>2. ASSUME UNCHANGED <<prev, next, lists>> PROVE Pointers'
    BY <2>2 DEF Pointers, OncePlaced, Rings, RingAt
  <2>3. ASSUME NEW k \in Loops, NEW h \in Heads, Begin(k, h) PROVE Pointers' /\ Loop'
    BY <2>2, <2>3, BeginStep DEF Begin, VisitAt, pointers
  <2>4. CASE Step
    BY <2>2, <2>4, StepStep DEF Step, VisitAt, pointers
  <2>5. CASE End
    BY <2>2, <2>5 DEF End, Loop, pointers
  <2>6. CASE UNCHANGED vars
    <3>1. Pointers'
      BY <2>2, <2>6 DEF vars
    <3>2. Loop'
      BY <2>6 DEF vars, Loop, Looping, Passed, GoesOnFrom, On
    <3> QED BY <3>1, <3>2
  <2> QED BY <2>1, <2>3, <2>4, <2>5, <2>6 DEF Next
<1> QED BY <1>1, InitStep, PTL DEF SafeSpec

(***************************************************************************)
(* The state of the lists and of the loops is well typed.                  *)
(***************************************************************************)
THEOREM TypeCorrect == SafeSpec => []TypeOK
<1>1. IInv => TypeOK
  <2> SUFFICES ASSUME Pointers, Loop PROVE TypeOK
    BY DEF IInv
  <2>1. \A h \in Heads : On(h) \subseteq Items
    BY OnLemma DEF Pointers
  <2>2. CASE loop = None
    BY <2>2 DEF Pointers, Loop, TypeOK, Loops, Plain, Safe, None
  <2>3. CASE loop # None
    BY <2>1, <2>3 DEF Pointers, Loop, Looping, TypeOK, Loops, Passed, GoesOnFrom, Nodes
  <2> QED BY <2>2, <2>3
<1> QED BY <1>1, ListInvariant, PTL

(***************************************************************************)
(* sancus_list_insert, _append, _insert_before and _del leave the pointers *)
(* of every list those of the sequence they promise, in both directions.   *)
(***************************************************************************)
THEOREM PointersLinked == SafeSpec => []Linked
<1>1. IInv => Linked
  BY RingsLinked DEF IInv
<1> QED BY <1>1, ListInvariant, PTL

(***************************************************************************)
(* sancus_list_foreach and its kin run their body for every item that      *)
(* stays on the list, whatever the body does to the others, and never go   *)
(* on to memory that holds no element.                                     *)
(***************************************************************************)
THEOREM LoopsVisitAll == SafeSpec => []VisitsAll
<1>1. IInv => VisitsAll
  <2> SUFFICES ASSUME Pointers, Loop PROVE VisitsAll
    BY DEF IInv
  <2>1. CASE loop = None
    BY <2>1, NodesAssumption DEF Loop, VisitsAll, AtHead
  <2>2. CASE loop # None
    <3>1. Looping /\ loop \in Plain \cup Safe
      BY <2>2 DEF Loop, Loops
    <3>2. AtHead => stayed \subseteq seen
      BY <3>1 DEF Looping, AtHead
    <3>3. item # Wild
      BY <3>1, NodesAssumption DEF Looping
    <3>4. ahead # Wild
      <4>1. CASE loop \in Plain
        BY <3>1, <4>1, NodesAssumption DEF Looping
      <4>2. CASE loop \in Safe
        <5>1. ahead \in On(head) \cup {head} /\ head \in Heads
          BY <3>1, <4>2 DEF Looping, Passed, GoesOnFrom
        <5>2. On(head) \subseteq Items
          BY <5>1, OnLemma DEF Pointers
        <5> QED BY <5>1, <5>2, NodesAssumption DEF Nodes
      <4> QED BY <3>1, <4>1, <4>2
    <3> QED BY <3>2, <3>3, <3>4 DEF VisitsAll
  <2> QED BY <2>1, <2>2
<1> QED BY <1>1, ListInvariant, PTL

(***************************************************************************)
(* sancus_list_size, _get, _first, _last and _next, which walk along the   *)
(* pointers, answer of the list as it is, also below 0 and out of range.   *)
(***************************************************************************)
THEOREM QueriesAnswer == SafeSpec => []QueriesAgree
<1>1. IInv => QueriesAgree
  BY QueriesLemma DEF IInv
<1> QED BY <1>1, ListInvariant, PTL
=============================================================================
