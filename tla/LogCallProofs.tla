--------------------------- MODULE LogCallProofs ---------------------------
(***************************************************************************)
(* The tree of loggers and the calls of one, for any tree, masks,          *)
(* prefixes, messages, data and sizes of the buffers.                      *)
(***************************************************************************)
EXTENDS LogCall, SequenceTheorems, WellFoundedInduction, TLAPS

----------------------------------------------------------------------------
(* Induction and recursion.                                                *)

(***************************************************************************)
(* A set of naturals that is not empty has a least element.                *)
(***************************************************************************)
LEMMA LeastNumber ==
    ASSUME NEW T, T \subseteq Nat, T # {}
    PROVE  \E x \in T : \A y \in T : x <= y
<1> DEFINE R == {ss \in Nat \X Nat : ss[1] < ss[2]}
<1>1. IsWellFoundedOn(R, Nat)
  BY ONLY NatLessThanWellFounded, Zenon DEF OpToRel
<1>2. PICK x \in T : \A y \in T : <<y, x>> \notin R
  BY <1>1, WFMin, Zenon
<1>3. ASSUME NEW y \in T PROVE x <= y
  <2>1. <<y, x>> \notin R
    BY <1>2
  <2>2. x \in Nat /\ y \in Nat
    OBVIOUS
  <2> QED BY <2>1, <2>2
<1> QED BY <1>3

(***************************************************************************)
(* Induction up to n, on the set of the numbers for which a fact holds.    *)
(***************************************************************************)
LEMMA InductionUpTo ==
    ASSUME NEW n \in Nat, NEW S, 0 \in S,
           \A k \in 1 .. n : k - 1 \in S => k \in S
    PROVE  \A k \in 0 .. n : k \in S
<1> DEFINE T == {k \in 0 .. n : k \notin S}
<1>1. SUFFICES ASSUME T # {} PROVE FALSE
  OBVIOUS
<1>2. T \subseteq Nat
  OBVIOUS
<1>3. PICK k \in T : \A y \in T : k <= y
  BY <1>1, <1>2, LeastNumber, Zenon
<1>4. k \in 0 .. n /\ k \notin S
  OBVIOUS
<1>5. k \in 1 .. n /\ k - 1 \in 0 .. n /\ ~ (k <= k - 1)
  BY <1>4
<1>6. k - 1 \in S
  BY <1>3, <1>5
<1> QED BY <1>4, <1>5, <1>6

\* g has a first value, and each next value comes from the last by its step.
Follows(g, X, first, n, step) ==
    /\ g \in [0 .. n -> X]
    /\ g[0] = first
    /\ \A k \in 1 .. n : g[k] = step[k][g[k - 1]]

(***************************************************************************)
(* A function may be defined by its first value and by how each value      *)
(* gives the next.                                                         *)
(***************************************************************************)
LEMMA RecursionExists ==
    ASSUME NEW X, NEW first \in X, NEW n \in Nat, NEW step \in [1 .. n -> [X -> X]]
    PROVE  \E g : Follows(g, X, first, n, step)
<1> DEFINE Is(g, m) == Follows(g, X, first, m, step)
           S == {m \in 0 .. n : \E g : Is(g, m)}
<1>1. 0 \in S
  <2>1. Is([k \in 0 .. 0 |-> first], 0)
    BY DEF Follows
  <2> HIDE DEF Is
  <2> QED BY <2>1
<1>2. ASSUME NEW m \in 1 .. n, m - 1 \in S PROVE m \in S
  <2>1. PICK g : Is(g, m - 1)
    BY <1>2
  <2> DEFINE f == [k \in 0 .. m |-> IF k = m THEN step[m][g[m - 1]] ELSE g[k]]
  <2>2. g[m - 1] \in X /\ step[m][g[m - 1]] \in X
    BY <2>1 DEF Follows
  <2>3. f \in [0 .. m -> X]
    <3>1. ASSUME NEW k \in 0 .. m PROVE f[k] \in X
      <4>1. CASE k = m
        BY <2>2, <4>1
      <4>2. CASE k # m
        <5>1. k \in 0 .. m - 1
          BY <4>2
        <5> QED BY <2>1, <4>2, <5>1 DEF Follows
      <4> QED BY <4>1, <4>2
    <3> QED BY <3>1
  <2>4. f[0] = first
    BY <2>1 DEF Follows
  <2>5. ASSUME NEW k \in 1 .. m PROVE f[k] = step[k][f[k - 1]]
    <3>1. k - 1 \in 0 .. m /\ k - 1 # m /\ f[k - 1] = g[k - 1]
      OBVIOUS
    <3>2. CASE k = m
      BY <3>1, <3>2
    <3>3. CASE k # m
      <4>1. k \in 1 .. m - 1
        BY <3>3
      <4> QED BY <2>1, <3>1, <3>3, <4>1 DEF Follows
    <3> QED BY <3>2, <3>3
  <2>6. Is(f, m)
    BY <2>3, <2>4, <2>5 DEF Follows
  <2> HIDE DEF Is
  <2> QED BY <2>6
<1>3. n \in S
  <2>1. \A m \in 1 .. n : m - 1 \in S => m \in S
    BY <1>2
  <2>2. \A k \in 0 .. n : k \in S
    <3> HIDE DEF S
    <3> QED BY <1>1, <2>1, InductionUpTo, Zenon
  <2> QED BY <2>2
<1> QED BY <1>3

----------------------------------------------------------------------------
(* Trees.                                                                  *)

Nodes == Loggers \cup {NULL}

\* par is a tree: whoever has a parent is deeper than it.
Rooted(par) ==
    \E N \in Nat : \E depth \in [Nodes -> 0 .. N] :
        \A l \in Loggers : depth[par[l]] < depth[l]

Parents == {par \in [Loggers -> Nodes] : Rooted(par)}

(***************************************************************************)
(* Induction from the root of a tree: what holds of NULL, and of a logger  *)
(* if it holds of its parent, holds of all.                                *)
(***************************************************************************)
LEMMA TreeInduction ==
    ASSUME NEW par \in Parents, NEW S, NULL \in S,
           \A l \in Loggers : par[l] \in S => l \in S
    PROVE  \A x \in Nodes : x \in S
<1>0. PICK N \in Nat : \E depth \in [Nodes -> 0 .. N] :
         \A l \in Loggers : depth[par[l]] < depth[l]
  BY DEF Parents, Rooted
<1>1. PICK depth \in [Nodes -> 0 .. N] :
         \A l \in Loggers : depth[par[l]] < depth[l]
  BY <1>0
<1> DEFINE T == {depth[x] : x \in Nodes \ S}
<1>2. SUFFICES ASSUME NEW y \in Nodes, y \notin S PROVE FALSE
  OBVIOUS
<1>3. T \subseteq Nat /\ T # {}
  <2>1. \A x \in Nodes : depth[x] \in 0 .. N
    BY <1>1
  <2>2. depth[y] \in T
    BY <1>2
  <2> QED BY <2>1, <2>2
<1>4. PICK d \in T : \A e \in T : d <= e
  BY <1>3, LeastNumber, Zenon
<1>5. PICK x \in Nodes \ S : d = depth[x]
  OBVIOUS
<1>6. x \in Loggers /\ par[x] \in Nodes /\ par[x] \notin S
  BY <1>5 DEF Nodes, Parents
<1>7. depth[par[x]] \in T /\ depth[par[x]] < depth[x]
  BY <1>1, <1>6
<1>8. depth[x] <= depth[par[x]]
  BY <1>4, <1>5, <1>7
<1>9. depth[x] \in Nat /\ depth[par[x]] \in Nat
  BY <1>3, <1>5, <1>7
<1> QED BY <1>7, <1>8, <1>9

(***************************************************************************)
(* A function on a tree may be defined by its value for NULL and by how a  *)
(* parent's value gives that of its child.                                 *)
(***************************************************************************)
LEMMA TreeRecursion ==
    ASSUME NEW par \in Parents, NEW X, NEW first \in X, NEW step \in [Loggers -> [X -> X]]
    PROVE  \E f \in [Nodes -> X] :
              /\ f[NULL] = first
              /\ \A l \in Loggers : f[l] = step[l][f[par[l]]]
<1>0. PICK N \in Nat : \E depth \in [Nodes -> 0 .. N] :
         \A l \in Loggers : depth[par[l]] < depth[l]
  BY DEF Parents, Rooted
<1>1. PICK depth \in [Nodes -> 0 .. N] :
         \A l \in Loggers : depth[par[l]] < depth[l]
  BY <1>0
<1>2. \A l \in Loggers : par[l] \in Nodes /\ l \in Nodes /\ l # NULL
  BY LoggersAssumption DEF Parents, Nodes
<1>3. \A x \in Nodes : depth[x] \in 0 .. N
  BY <1>1
<1> DEFINE Is(f, m) ==
             /\ f \in [Nodes -> X]
             /\ f[NULL] = first
             /\ \A l \in Loggers : depth[l] <= m => f[l] = step[l][f[par[l]]]
           S == {m \in 0 .. N : \E f : Is(f, m)}
<1>4. 0 \in S
  <2> DEFINE f == [x \in Nodes |-> first]
  <2>1. f \in [Nodes -> X] /\ f[NULL] = first
    BY DEF Nodes
  <2>2. \A l \in Loggers : ~ (depth[l] <= 0)
    BY <1>1, <1>2, <1>3
  <2>3. Is(f, 0)
    BY <2>1, <2>2
  <2> HIDE DEF Is
  <2> QED BY <2>3
<1>5. ASSUME NEW m \in 1 .. N, m - 1 \in S PROVE m \in S
  <2>1. PICK f : Is(f, m - 1)
    BY <1>5
  <2> DEFINE g == [x \in Nodes |-> IF x \in Loggers /\ depth[x] = m
                                   THEN step[x][f[par[x]]] ELSE f[x]]
  <2>2. g \in [Nodes -> X]
    <3>1. ASSUME NEW x \in Nodes PROVE g[x] \in X
      <4>1. f[x] \in X
        BY <2>1
      <4>2. ASSUME x \in Loggers PROVE step[x][f[par[x]]] \in X
        BY <1>2, <2>1, <4>2
      <4> QED BY <4>1, <4>2
    <3> QED BY <3>1
  <2>3. g[NULL] = first
    BY <2>1, LoggersAssumption DEF Nodes
  <2>4. ASSUME NEW l \in Loggers, depth[l] <= m PROVE g[l] = step[l][g[par[l]]]
    <3>1. depth[par[l]] < depth[l] /\ par[l] \in Nodes /\ l \in Nodes
      BY <1>1, <1>2
    <3>2. depth[l] \in Nat /\ depth[par[l]] \in Nat
      BY <1>3, <3>1
    <3>3. depth[par[l]] # m
      BY <2>4, <3>1, <3>2
    <3>4. g[par[l]] = f[par[l]]
      BY <3>1, <3>3
    <3>5. g[l] = IF depth[l] = m THEN step[l][f[par[l]]] ELSE f[l]
      BY <3>1
    <3> HIDE DEF g
    <3>6. CASE depth[l] = m
      BY <3>4, <3>5, <3>6
    <3>7. CASE depth[l] # m
      <4>1. depth[l] <= m - 1
        BY <2>4, <3>2, <3>7
      <4>2. f[l] = step[l][f[par[l]]]
        BY <2>1, <4>1
      <4> QED BY <3>4, <3>5, <3>7, <4>2
    <3> QED BY <3>6, <3>7
  <2>5. Is(g, m)
    <3> HIDE DEF g
    <3> QED BY <2>2, <2>3, <2>4
  <2> HIDE DEF Is
  <2> QED BY <2>5
<1>6. PICK f : Is(f, N)
  <2>1. \A m \in 1 .. N : m - 1 \in S => m \in S
    BY <1>5
  <2>2. \A k \in 0 .. N : k \in S
    <3> HIDE DEF S
    <3> QED BY <1>4, <2>1, InductionUpTo, Zenon
  <2>3. N \in S
    BY <2>2
  <2> HIDE DEF Is
  <2> QED BY <2>3
<1>7. \A l \in Loggers : depth[l] <= N
  BY <1>2, <1>3
<1> QED BY <1>6, <1>7

\* A logger and its ancestors in a given tree, and the first of them in S.
Above(par, l) ==
    LET up[x \in Loggers \cup {NULL}] ==
            IF x = NULL THEN <<>> ELSE <<x>> \o up[par[x]]
    IN  up[l]

First(par, l, S) ==
    LET s == Above(par, l)
        places == {n \in 1 .. Len(s) : s[n] \in S}
    IN  IF places = {} THEN NULL ELSE s[CHOOSE n \in places : \A k \in places : n <= k]

(***************************************************************************)
(* In a tree, the lineage of a logger is itself and that of its parent.    *)
(***************************************************************************)
LEMMA AboveLemma ==
    ASSUME NEW par \in Parents
    PROVE  /\ Above(par, NULL) = <<>>
           /\ \A l \in Loggers : Above(par, l) = <<l>> \o Above(par, par[l])
           /\ \A x \in Nodes : Above(par, x) \in Seq(Loggers)
<1> DEFINE Is(up) == up = [x \in Loggers \cup {NULL} |->
                             IF x = NULL THEN <<>> ELSE <<x>> \o up[par[x]]]
           up == CHOOSE f : Is(f)
           step == [l \in Loggers |-> [s \in Seq(Loggers) |-> <<l>> \o s]]
<1>1. \A l \in Loggers : par[l] \in Nodes /\ l \in Nodes /\ l # NULL
  BY LoggersAssumption DEF Parents, Nodes
<1>2. step \in [Loggers -> [Seq(Loggers) -> Seq(Loggers)]]
  OBVIOUS
<1>3. PICK f \in [Nodes -> Seq(Loggers)] :
         f[NULL] = <<>> /\ \A l \in Loggers : f[l] = step[l][f[par[l]]]
  <2> DEFINE X == Seq(Loggers)
             none == <<>>
  <2>1. none \in X /\ step \in [Loggers -> [X -> X]]
    BY <1>2
  <2> HIDE DEF step, X, none
  <2>2. \E f \in [Nodes -> X] :
          f[NULL] = none /\ \A l \in Loggers : f[l] = step[l][f[par[l]]]
    BY <2>1, TreeRecursion
  <2> QED BY <2>2 DEF X, none
<1>4. \A l \in Loggers : f[l] = <<l>> \o f[par[l]]
  <2>1. \A l \in Loggers, t \in Seq(Loggers) : step[l][t] = <<l>> \o t
    OBVIOUS
  <2>2. \A l \in Loggers : f[par[l]] \in Seq(Loggers)
    BY <1>1, <1>3
  <2> HIDE DEF step
  <2> QED BY <1>3, <2>1, <2>2
<1>5. Is(f)
  BY <1>1, <1>3, <1>4 DEF Nodes
<1>6. Is(up)
  <2> HIDE DEF Is
  <2> QED BY <1>5
<1>7. \A x : Above(par, x) = up[x]
  BY DEF Above
<1> HIDE DEF up
<1>8. up[NULL] = <<>> /\ \A l \in Loggers : up[l] = <<l>> \o up[par[l]]
  BY <1>1, <1>6 DEF Nodes
<1>9. \A x \in Nodes : up[x] \in Seq(Loggers)
  <2> DEFINE S == {x \in Nodes : up[x] \in Seq(Loggers)}
  <2>1. NULL \in S
    <3>1. <<>> \in Seq(Loggers)
      OBVIOUS
    <3> QED BY <1>8, <3>1 DEF Nodes
  <2>2. ASSUME NEW l \in Loggers, par[l] \in S PROVE l \in S
    <3>1. up[par[l]] \in Seq(Loggers)
      BY <2>2
    <3>2. <<l>> \o up[par[l]] \in Seq(Loggers)
      BY <3>1
    <3> QED BY <1>1, <1>8, <3>2
  <2>3. \A x \in Nodes : x \in S
    <3> HIDE DEF S
    <3> QED BY <2>1, <2>2, TreeInduction, Zenon
  <2> QED BY <2>3
<1> QED BY <1>7, <1>8, <1>9

(***************************************************************************)
(* The nearest in S is the logger itself or the nearest of its parent.     *)
(***************************************************************************)
LEMMA FirstLemma ==
    ASSUME NEW par \in Parents, NEW S
    PROVE  /\ First(par, NULL, S) = NULL
           /\ \A l \in Loggers :
                 First(par, l, S) = IF l \in S THEN l ELSE First(par, par[l], S)
<1> DEFINE Places(s) == {n \in 1 .. Len(s) : s[n] \in S}
           Least(P) == CHOOSE n \in P : \A k \in P : n <= k
<1>1. First(par, NULL, S) = NULL
  <2>1. Above(par, NULL) = <<>>
    BY AboveLemma
  <2>2. Places(<<>>) = {}
    OBVIOUS
  <2> QED BY <2>1, <2>2 DEF First
<1>2. ASSUME NEW P, P \subseteq Nat, P # {}
      PROVE  Least(P) \in P /\ \A k \in P : Least(P) <= k
  <2>1. \E n \in P : \A k \in P : n <= k
    BY <1>2, LeastNumber, Zenon
  <2> QED BY <2>1
<1>3. ASSUME NEW l \in Loggers
      PROVE  First(par, l, S) = IF l \in S THEN l ELSE First(par, par[l], S)
  <2> DEFINE t == Above(par, par[l])
             s == <<l>> \o t
  <2>1. par[l] \in Nodes /\ t \in Seq(Loggers) /\ Above(par, l) = s
    BY AboveLemma DEF Parents
  <2>2. /\ First(par, l, S) = IF Places(s) = {} THEN NULL ELSE s[Least(Places(s))]
        /\ First(par, par[l], S) = IF Places(t) = {} THEN NULL ELSE t[Least(Places(t))]
    BY <2>1 DEF First
  <2> HIDE DEF t
  <2>3. /\ Len(t) \in Nat /\ Len(s) = Len(t) + 1 /\ s[1] = l
        /\ \A n \in 1 .. Len(t) : s[n + 1] = t[n]
    BY <2>1
  <2> HIDE DEF s
  <2>4. Places(s) \subseteq Nat /\ Places(t) \subseteq Nat
    BY <2>3
  <2>5. CASE l \in S
    <3>1. 1 \in Places(s) /\ \A k \in Places(s) : 1 <= k
      BY <2>3, <2>5
    <3>2. Least(Places(s)) \in Places(s) /\ \A k \in Places(s) : Least(Places(s)) <= k
      <4>1. Places(s) # {}
        BY <3>1
      <4> HIDE DEF Places, Least
      <4> QED BY <1>2, <2>4, <4>1
    <3>3. Least(Places(s)) = 1
      <4> HIDE DEF Least, Places
      <4> QED BY <2>4, <3>1, <3>2
    <3> QED BY <2>2, <2>3, <2>5, <3>1, <3>3
  <2>6. CASE l \notin S
    <3>1. \A n \in 1 .. Len(t) : n + 1 \in Places(s) <=> n \in Places(t)
      BY <2>3
    <3>2. \A n \in Places(s) : n - 1 \in 1 .. Len(t) /\ n - 1 \in Places(t)
      BY <2>3, <2>6
    <3>3. CASE Places(t) = {}
      <4>1. Places(s) = {}
        <5> HIDE DEF Places
        <5> QED BY <3>2, <3>3
      <4> QED BY <2>2, <2>6, <3>3, <4>1
    <3>4. CASE Places(t) # {}
      <4> DEFINE n == Least(Places(t))
                 m == Least(Places(s))
      <4>1. n \in Places(t) /\ \A k \in Places(t) : n <= k
        <5> HIDE DEF Places, Least
        <5> QED BY <1>2, <2>4, <3>4
      <4>2. n \in 1 .. Len(t) /\ n + 1 \in Places(s)
        <5> HIDE DEF Least
        <5>1. n \in 1 .. Len(t)
          BY <4>1
        <5> QED BY <3>1, <4>1, <5>1
      <4>3. m \in Places(s) /\ \A k \in Places(s) : m <= k
        <5> HIDE DEF Places, Least
        <5> QED BY <1>2, <2>4, <4>2
      <4> HIDE DEF Least, n, m, Places
      <4>4. m - 1 \in Places(t) /\ m - 1 \in 1 .. Len(t)
        BY <3>2, <4>3
      <4>5. m \in Nat /\ n \in Nat
        BY <2>4, <4>1, <4>3
      <4>6. m <= n + 1 /\ n <= m - 1
        BY <4>1, <4>2, <4>3, <4>4
      <4>7. m = n + 1
        BY <4>5, <4>6
      <4>8. s[m] = t[n]
        BY <2>3, <4>2, <4>7
      <4>9. Places(s) # {}
        BY <4>2
      <4> QED BY <2>2, <2>6, <3>4, <4>8, <4>9 DEF n, m
    <3> QED BY <3>3, <3>4
  <2> QED BY <2>5, <2>6
<1> QED BY <1>1, <1>3

(***************************************************************************)
(* The nearest in S is in S.                                               *)
(***************************************************************************)
LEMMA FirstIsIn ==
    ASSUME NEW par \in Parents, NEW S \in SUBSET Loggers
    PROVE  \A x \in Nodes : First(par, x, S) \in S \cup {NULL}
<1> DEFINE T == {x \in Nodes : First(par, x, S) \in S \cup {NULL}}
<1>1. NULL \in T
  BY FirstLemma DEF Nodes
<1>2. \A l \in Loggers : par[l] \in T => l \in T
  BY FirstLemma DEF Nodes
<1>3. \A x \in Nodes : x \in T
  <2> HIDE DEF T
  <2> QED BY <1>1, <1>2, TreeInduction, Zenon
<1> QED BY <1>3

----------------------------------------------------------------------------
(* The look-ups.                                                           *)

Kinds == {"solid", "blank", "colon"}

TreeInv ==
    /\ parent \in Parents
    /\ prefixer \in [Loggers -> BOOLEAN]
    /\ prefix \in [Loggers -> Seq(Kinds) \cup {NULL}]
    /\ mask \in [Loggers -> SUBSET Bits]
    /\ backend \in [Loggers -> Loggers \cup NoBackend]
    /\ default_backend \in {"fd", "common"}

Masked(m) == {x \in Loggers : m[x] # {}}
MaskOf(par, m, l) ==
    LET x == First(par, l, Masked(m)) IN IF x = NULL THEN NORMAL ELSE m[x]

Backed(b) == {x \in Loggers : b[x] \notin NoBackend}
Prefixed(f, s) == {x \in Loggers : f[x] \/ s[x] # NULL}

(***************************************************************************)
(* The reference's walk along a lineage, with the tree as an argument.     *)
(***************************************************************************)
LEMMA FirstInLemma == \A l, S : FirstIn(l, S) = First(parent, l, S)
  BY DEF FirstIn, First, Lineage, Above

(***************************************************************************)
(* sancus_logger_has_level looks at the nearest mask.                      *)
(***************************************************************************)
LEMMA LevelLemma ==
    TreeInv => \A l \in Nodes : \A m :
        sancus_logger_has_level(l, m)
            <=> (m = {} \/ ERR \in m \/ m \cap MaskOf(parent, mask, l) # {})
<1> SUFFICES ASSUME TreeInv, NEW m
             PROVE  \A l \in Nodes :
                       sancus_logger_has_level(l, m)
                         <=> (m = {} \/ ERR \in m \/ m \cap MaskOf(parent, mask, l) # {})
  OBVIOUS
<1> DEFINE Is(has) == has = [l \in Loggers \cup {NULL} |->
                               IF l = NULL THEN m \cap NORMAL # {}
                               ELSE IF mask[l] # {} THEN m \cap mask[l] # {}
                               ELSE has[parent[l]]]
           has == CHOOSE f : Is(f)
           near == [l \in Nodes |-> m \cap MaskOf(parent, mask, l) # {}]
<1>1. \A l \in Loggers : parent[l] \in Nodes /\ l \in Nodes /\ l # NULL
  BY LoggersAssumption DEF TreeInv, Parents, Nodes
<1>2. /\ MaskOf(parent, mask, NULL) = NORMAL
      /\ \A l \in Loggers : MaskOf(parent, mask, l) =
            IF mask[l] # {} THEN mask[l] ELSE MaskOf(parent, mask, parent[l])
  <2>1. parent \in Parents
    BY DEF TreeInv
  <2> QED BY <1>1, <2>1, FirstLemma DEF MaskOf, Masked
<1>3. Is(near)
  BY <1>1, <1>2 DEF Nodes
<1>4. Is(has)
  <2> HIDE DEF Is, near
  <2> QED BY <1>3
<1>5. \A l : sancus_logger_has_level(l, m) <=> (m = {} \/ ERR \in m \/ has[l])
  BY DEF sancus_logger_has_level
<1> HIDE DEF has
<1>6. \A x \in Nodes : has[x] = near[x]
  <2> DEFINE S == {x \in Nodes : has[x] = near[x]}
  <2>1. NULL \in S
    BY <1>2, <1>4 DEF Nodes
  <2>2. ASSUME NEW l \in Loggers, parent[l] \in S PROVE l \in S
    BY <1>1, <1>2, <1>4, <2>2 DEF Nodes
  <2>3. \A x \in Nodes : x \in S
    <3>1. parent \in Parents /\ \A l \in Loggers : parent[l] \in S => l \in S
      BY <2>2 DEF TreeInv
    <3> HIDE DEF S
    <3> QED BY <2>1, <3>1, TreeInduction, Zenon
  <2> QED BY <2>3
<1> QED BY <1>5, <1>6

(***************************************************************************)
(* log_find_backend gives the nearest backend that can take a line.        *)
(***************************************************************************)
LEMMA FindLemma ==
    TreeInv => \A l \in Nodes : \A fallback :
        log_find_backend(l, fallback) =
            LET x == First(parent, l, Backed(backend))
            IN  IF x = NULL THEN fallback ELSE backend[x]
<1> SUFFICES ASSUME TreeInv, NEW fallback
             PROVE  \A l \in Nodes : log_find_backend(l, fallback) =
                       LET x == First(parent, l, Backed(backend))
                       IN  IF x = NULL THEN fallback ELSE backend[x]
  OBVIOUS
<1> DEFINE Is(find) == find = [l \in Loggers \cup {NULL} |->
                                 IF l = NULL THEN fallback
                                 ELSE IF backend[l] \notin NoBackend THEN backend[l]
                                 ELSE find[parent[l]]]
           find == CHOOSE f : Is(f)
           Near(l) == IF First(parent, l, Backed(backend)) = NULL THEN fallback
                      ELSE backend[First(parent, l, Backed(backend))]
           near == [l \in Nodes |-> Near(l)]
<1>1. \A l \in Loggers : parent[l] \in Nodes /\ l \in Nodes /\ l # NULL
  BY LoggersAssumption DEF TreeInv, Parents, Nodes
<1>2. /\ Near(NULL) = fallback
      /\ \A l \in Loggers : Near(l) =
            IF backend[l] \notin NoBackend THEN backend[l] ELSE Near(parent[l])
  <2>1. parent \in Parents
    BY DEF TreeInv
  <2> QED BY <1>1, <2>1, FirstLemma DEF Backed
<1> HIDE DEF Near
<1>3. Is(near)
  BY <1>1, <1>2 DEF Nodes
<1>4. Is(find)
  <2> HIDE DEF Is, near
  <2> QED BY <1>3
<1>5. \A l : log_find_backend(l, fallback) = find[l]
  BY DEF log_find_backend
<1> HIDE DEF find
<1>6. \A x \in Nodes : find[x] = Near(x)
  <2> DEFINE S == {x \in Nodes : find[x] = Near(x)}
  <2>1. NULL \in S
    BY <1>2, <1>4 DEF Nodes
  <2>2. ASSUME NEW l \in Loggers, parent[l] \in S PROVE l \in S
    BY <1>1, <1>2, <1>4, <2>2 DEF Nodes
  <2>3. \A x \in Nodes : x \in S
    <3>1. parent \in Parents /\ \A l \in Loggers : parent[l] \in S => l \in S
      BY <2>2 DEF TreeInv
    <3> HIDE DEF S
    <3> QED BY <2>1, <3>1, TreeInduction, Zenon
  <2> QED BY <2>3
<1> QED BY <1>5, <1>6 DEF Near

(***************************************************************************)
(* The prefix is that of the nearest logger that has one.                  *)
(***************************************************************************)
LEMMA PrefixingLemma ==
    TreeInv => \A l \in Nodes : Prefixing(l) = First(parent, l, Prefixed(prefixer, prefix))
<1> SUFFICES ASSUME TreeInv
             PROVE  \A l \in Nodes : Prefixing(l) = First(parent, l, Prefixed(prefixer, prefix))
  OBVIOUS
<1> DEFINE Is(from) == from = [l \in Loggers \cup {NULL} |->
                                 IF l = NULL \/ prefixer[l] \/ prefix[l] # NULL
                                 THEN l ELSE from[parent[l]]]
           from == CHOOSE f : Is(f)
           Near(l) == First(parent, l, Prefixed(prefixer, prefix))
           near == [l \in Nodes |-> Near(l)]
<1>1. \A l \in Loggers : parent[l] \in Nodes /\ l \in Nodes /\ l # NULL
  BY LoggersAssumption DEF TreeInv, Parents, Nodes
<1>2. /\ Near(NULL) = NULL
      /\ \A l \in Loggers : Near(l) =
            IF prefixer[l] \/ prefix[l] # NULL THEN l ELSE Near(parent[l])
  <2>1. parent \in Parents
    BY DEF TreeInv
  <2> QED BY <1>1, <2>1, FirstLemma DEF Prefixed
<1> HIDE DEF Near
<1>3. Is(near)
  BY <1>1, <1>2 DEF Nodes
<1>4. Is(from)
  <2> HIDE DEF Is, near
  <2> QED BY <1>3
<1>5. \A l : Prefixing(l) = from[l]
  BY DEF Prefixing
<1> HIDE DEF from
<1>6. \A x \in Nodes : from[x] = Near(x)
  <2> DEFINE S == {x \in Nodes : from[x] = Near(x)}
  <2>1. NULL \in S
    BY <1>2, <1>4 DEF Nodes
  <2>2. ASSUME NEW l \in Loggers, parent[l] \in S PROVE l \in S
    BY <1>1, <1>2, <1>4, <2>2 DEF Nodes
  <2>3. \A x \in Nodes : x \in S
    <3>1. parent \in Parents /\ \A l \in Loggers : parent[l] \in S => l \in S
      BY <2>2 DEF TreeInv
    <3> HIDE DEF S
    <3> QED BY <2>1, <3>1, TreeInduction, Zenon
  <2> QED BY <2>3
<1> QED BY <1>5, <1>6 DEF Near

----------------------------------------------------------------------------
(* The tree stays a tree.                                                  *)

(***************************************************************************)
(* A logger hung below one that does not come from it leaves a tree.       *)
(***************************************************************************)
LEMMA GraftLemma ==
    ASSUME NEW par \in Parents, NEW l \in Loggers, NEW up \in Nodes,
           l \notin ToSet(Above(par, up))
    PROVE  [par EXCEPT ![l] = up] \in Parents
<1>0. PICK N \in Nat : \E depth \in [Nodes -> 0 .. N] :
         \A x \in Loggers : depth[par[x]] < depth[x]
  BY DEF Parents, Rooted
<1>1. PICK depth \in [Nodes -> 0 .. N] :
         \A x \in Loggers : depth[par[x]] < depth[x]
  BY <1>0
<1> DEFINE Below == {x \in Nodes : l \in ToSet(Above(par, x))}
           new == [par EXCEPT ![l] = up]
           deeper == [x \in Nodes |-> IF x \in Below THEN depth[x] + N + 1 ELSE depth[x]]
<1>2. \A x \in Loggers : par[x] \in Nodes /\ x \in Nodes
  BY DEF Parents, Nodes
<1>3. par \in [Loggers -> Nodes]
  BY DEF Parents
<1>4. ASSUME NEW x \in Loggers
      PROVE  l \in ToSet(Above(par, x)) <=> l = x \/ l \in ToSet(Above(par, par[x]))
  <2> DEFINE t == Above(par, par[x])
             s == <<x>> \o t
  <2>1. t \in Seq(Loggers) /\ Above(par, x) = s
    BY <1>2, AboveLemma
  <2> HIDE DEF t
  <2>2. /\ Len(t) \in Nat /\ Len(s) = Len(t) + 1 /\ s[1] = x
        /\ \A n \in 1 .. Len(t) : s[n + 1] = t[n]
        /\ DOMAIN s = 1 .. Len(s) /\ DOMAIN t = 1 .. Len(t)
    BY <2>1
  <2> HIDE DEF s
  <2>3. ASSUME l = x \/ l \in ToSet(t) PROVE l \in ToSet(s)
    <3>1. CASE l = x
      <4>1. 1 \in DOMAIN s
        BY <2>2
      <4> QED BY <2>2, <3>1, <4>1 DEF ToSet
    <3>2. CASE l \in ToSet(t)
      <4>1. PICK n \in 1 .. Len(t) : l = t[n]
        BY <2>2, <3>2 DEF ToSet
      <4>2. n + 1 \in DOMAIN s /\ s[n + 1] = l
        BY <2>2, <4>1
      <4> QED BY <4>2 DEF ToSet
    <3> QED BY <2>3, <3>1, <3>2
  <2>4. ASSUME l \in ToSet(s) PROVE l = x \/ l \in ToSet(t)
    <3>1. PICK n \in 1 .. Len(s) : l = s[n]
      BY <2>2, <2>4 DEF ToSet
    <3>2. CASE n = 1
      BY <2>2, <3>1, <3>2
    <3>3. CASE n # 1
      <4>1. n - 1 \in 1 .. Len(t) /\ n = (n - 1) + 1
        BY <2>2, <3>1, <3>3
      <4>2. l = t[n - 1] /\ n - 1 \in DOMAIN t
        BY <2>2, <3>1, <4>1
      <4> QED BY <4>2 DEF ToSet
    <3> QED BY <3>2, <3>3
  <2> QED BY <2>1, <2>3, <2>4 DEF t
<1>5. l \in Below /\ up \notin Below /\ \A x \in Loggers \ {l} : x \in Below <=> par[x] \in Below
  BY <1>2, <1>4
<1>6. /\ \A x \in Nodes : deeper[x] = IF x \in Below THEN depth[x] + N + 1 ELSE depth[x]
      /\ DOMAIN deeper = Nodes
  OBVIOUS
<1> HIDE DEF Below
<1>7. deeper \in [Nodes -> 0 .. 2 * N + 1] /\ 2 * N + 1 \in Nat
  <2>1. ASSUME NEW x \in Nodes PROVE deeper[x] \in 0 .. 2 * N + 1
    <3>1. depth[x] \in 0 .. N
      BY <1>1
    <3> QED BY <1>6, <3>1
  <2> QED BY <1>6, <2>1
<1>8. new \in [Loggers -> Nodes] /\ new[l] = up /\ \A x \in Loggers \ {l} : new[x] = par[x]
  BY <1>3
<1> HIDE DEF deeper, new
<1>9. ASSUME NEW x \in Loggers PROVE deeper[new[x]] < deeper[x]
  <2>1. CASE x = l
    <3>1. depth[up] \in 0 .. N /\ depth[l] \in 0 .. N
      BY <1>1, <1>2
    <3> QED BY <1>2, <1>5, <1>6, <1>8, <2>1, <3>1
  <2>2. CASE x # l
    <3>1. new[x] = par[x] /\ (x \in Below <=> par[x] \in Below)
      BY <1>5, <1>8, <2>2
    <3>2. depth[par[x]] < depth[x] /\ depth[par[x]] \in 0 .. N /\ depth[x] \in 0 .. N
      BY <1>1, <1>2
    <3> QED BY <1>2, <1>6, <3>1, <3>2
  <2> QED BY <2>1, <2>2
<1>10. Rooted(new)
  BY <1>7, <1>9 DEF Rooted
<1> QED BY <1>8, <1>10 DEF Parents, new

(***************************************************************************)
(* Prefixes are sequences of the kinds of characters.                      *)
(***************************************************************************)
LEMMA StaticPrefixLemma ==
    /\ \A n \in Nat : Solid(n) \in Seq(Kinds) /\ Len(Solid(n)) = n
    /\ \A s \in StaticPrefixes \cup {<<>>} : s \in Seq(Kinds)
<1>1. ASSUME NEW n \in Nat PROVE Solid(n) \in Seq(Kinds) /\ Len(Solid(n)) = n
  <2>1. Solid(n) \in [1 .. n -> Kinds]
    BY DEF Solid, Kinds
  <2> QED BY <2>1, LenProperties, IsASeq
<1>2. ASSUME NEW s \in StaticPrefixes PROVE s \in Seq(Kinds)
  <2>1. PICK n \in PrefixLengths : s = IF n = 0 THEN <<>> ELSE Solid(n) \o <<"blank">>
    BY DEF StaticPrefixes
  <2>2. n \in Nat
    BY PrefixAssumption
  <2>3. <<"blank">> \in Seq(Kinds)
    BY DEF Kinds
  <2>4. Solid(n) \o <<"blank">> \in Seq(Kinds)
    BY <1>1, <2>2, <2>3, ConcatProperties
  <2> QED BY <2>1, <2>4
<1>3. <<>> \in Seq(Kinds)
  OBVIOUS
<1> QED BY <1>1, <1>2, <1>3

(***************************************************************************)
(* A program starts with loggers that have no parent.                      *)
(***************************************************************************)
LEMMA TreeInitStep == TreeInit => TreeInv
<1> SUFFICES ASSUME TreeInit PROVE TreeInv
  OBVIOUS
<1>1. parent \in Parents
  <2> DEFINE depth == [x \in Nodes |-> IF x = NULL THEN 0 ELSE 1]
  <2>1. parent \in [Loggers -> Nodes] /\ \A l \in Loggers : parent[l] = NULL
    BY DEF TreeInit, Nodes
  <2>2. depth \in [Nodes -> 0 .. 1] /\ \A l \in Loggers : depth[NULL] < depth[l]
    BY LoggersAssumption DEF Nodes
  <2> HIDE DEF depth
  <2>3. Rooted(parent)
    BY <2>1, <2>2 DEF Rooted
  <2> QED BY <2>1, <2>3 DEF Parents
<1>2. Solid(1) \in Seq(Kinds)
  BY StaticPrefixLemma
<1>3. mask \in [Loggers -> SUBSET Bits]
  BY DEF TreeInit, StaticMask, NORMAL, Bits
<1> QED BY <1>1, <1>2, <1>3 DEF TreeInit, TreeInv, NoBackend

(***************************************************************************)
(* No change of a logger makes one its own ancestor.                       *)
(***************************************************************************)
LEMMA ConfigureStep ==
    ASSUME TreeInv, Configure
    PROVE  TreeInv'
<1> USE DEF TreeInv
<1>1. ASSUME NEW l \in Loggers, NEW up \in Nodes, NEW f \in BOOLEAN, NEW m \in Masks,
             NEW s \in {NULL, <<>>}, sancus_logger_init2(l, up, f, m, s)
      PROVE  TreeInv'
  <2>1. Lineage(up) = Above(parent, up)
    BY DEF Lineage, Above
  <2>2. parent' \in Parents
    BY <1>1, <2>1, GraftLemma DEF sancus_logger_init2
  <2>3. prefixer' \in [Loggers -> BOOLEAN] /\ backend' \in [Loggers -> Loggers \cup NoBackend]
    BY <1>1 DEF sancus_logger_init2, NoBackend
  <2>4. mask' \in [Loggers -> SUBSET Bits]
    BY <1>1, MasksAssumption DEF sancus_logger_init2, NORMAL, Bits
  <2>5. prefix' \in [Loggers -> Seq(Kinds) \cup {NULL}]
    BY <1>1, StaticPrefixLemma DEF sancus_logger_init2
  <2> QED BY <1>1, <2>2, <2>3, <2>4, <2>5 DEF sancus_logger_init2
<1>2. ASSUME NEW l \in Loggers, NEW s \in StaticPrefixes \cup {NULL},
             sancus_logger_set_prefix(l, s)
      PROVE  TreeInv'
  <2>1. s \in Seq(Kinds) \cup {NULL}
    BY StaticPrefixLemma
  <2> QED BY <1>2, <2>1 DEF sancus_logger_set_prefix
<1>3. ASSUME NEW l \in Loggers, NEW f \in BOOLEAN, sancus_logger_set_prefixer(l, f)
      PROVE  TreeInv'
  BY <1>3 DEF sancus_logger_set_prefixer
<1>4. ASSUME NEW l \in Loggers, NEW m \in Masks,
             \/ sancus_logger_set_mask(l, m)
             \/ sancus_logger_extend_mask(l, m)
             \/ sancus_logger_unset_mask(l, m)
      PROVE  TreeInv'
  <2>1. m \subseteq Bits /\ mask[l] \subseteq Bits
    BY MasksAssumption
  <2>2. PICK new \in SUBSET Bits : ChangeMask(l, new)
    BY <1>4, <2>1 DEF sancus_logger_set_mask, sancus_logger_extend_mask,
                      sancus_logger_unset_mask, sancus_bit_cms
  <2> QED BY <2>2 DEF ChangeMask
<1>5. ASSUME NEW l \in Loggers, NEW b \in NoBackend \cup {l}, SetBackend(l, b)
      PROVE  TreeInv'
  BY <1>5 DEF SetBackend
<1>6. ASSUME NEW b \in NoBackend \cup {"common"}, sancus_logger_set_default_backend(b)
      PROVE  TreeInv'
  BY <1>6 DEF sancus_logger_set_default_backend, NoBackend
<1> QED BY <1>1, <1>2, <1>3, <1>4, <1>5, <1>6 DEF Configure, Nodes

----------------------------------------------------------------------------
(* Text.                                                                   *)

CharKinds == Kinds \cup {"pad", "quote", "ellipsis", "suffix", "byte",
                         "hex", "ascii", "offset", "bar", "end"}
Origins == Loggers \cup Nat \cup {"func", "line", "separator", "message"}
Char == CharKinds \X Origins \X Nat
Text == Seq(Char)

(***************************************************************************)
(* A piece of text has the length asked for, and is all of one kind.       *)
(***************************************************************************)
LEMMA PieceLemma ==
    ASSUME NEW kind \in CharKinds, NEW i \in Nat, NEW n \in Nat
    PROVE  /\ Piece(kind, i, n) \in Text
           /\ Len(Piece(kind, i, n)) = n
           /\ \A c \in 1 .. n : Piece(kind, i, n)[c] = <<kind, i, c>>
           /\ \A c \in 1 .. n : Piece(kind, i, n)[c][1] = kind
<1>1. \A c \in 1 .. n : <<kind, i, c>> \in Char
  BY DEF Char, Origins
<1>2. Piece(kind, i, n) \in [1 .. n -> Char]
  BY <1>1 DEF Piece
<1>3. Piece(kind, i, n) \in Seq(Char) /\ Len(Piece(kind, i, n)) = n
  BY <1>2, IsASeq, LenProperties
<1> QED BY <1>3 DEF Piece, Text

(***************************************************************************)
(* Characters given by their kinds.                                        *)
(***************************************************************************)
LEMMA CharsLemma ==
    ASSUME NEW of \in Origins, NEW kinds \in Seq(CharKinds)
    PROVE  /\ Chars(of, kinds) \in Text
           /\ Len(Chars(of, kinds)) = Len(kinds)
           /\ \A c \in 1 .. Len(kinds) : Chars(of, kinds)[c][1] = kinds[c]
<1>1. DOMAIN kinds = 1 .. Len(kinds) /\ Len(kinds) \in Nat
  OBVIOUS
<1>2. \A c \in 1 .. Len(kinds) : <<kinds[c], of, c>> \in Char
  BY <1>1 DEF Char
<1>3. Chars(of, kinds) \in [1 .. Len(kinds) -> Char]
  BY <1>1, <1>2 DEF Chars
<1>4. Chars(of, kinds) \in Seq(Char) /\ Len(Chars(of, kinds)) = Len(kinds)
  BY <1>1, <1>3, IsASeq, LenProperties
<1> QED BY <1>1, <1>4 DEF Chars, Text

\* s is t without the characters of these kinds at its end.
Stripped(s, t, kinds) ==
    /\ s \in Text /\ Len(s) <= Len(t)
    /\ s = SubSeq(t, 1, Len(s))
    /\ \A i \in 1 .. Len(s) : s[i] = t[i]
    /\ s # <<>> => s[Len(s)][1] \notin kinds
    /\ \A n \in Len(s) + 1 .. Len(t) : t[n][1] \in kinds

(***************************************************************************)
(* Stripping takes off just what is to be stripped.                        *)
(***************************************************************************)
LEMMA StripLemma ==
    ASSUME NEW t \in Text, NEW kinds
    PROVE  Stripped(stripany(t, kinds), t, kinds)
<1> DEFINE keep == {n \in 1 .. Len(t) : t[n][1] \notin kinds}
           last == CHOOSE n \in keep : \A k \in keep : k <= n
           cut == IF keep = {} THEN 0 ELSE last
           s == SubSeq(t, 1, cut)
<1>1. Len(t) \in Nat /\ t \in Seq(Char)
  BY DEF Text
<1>2. ASSUME keep # {} PROVE last \in keep /\ \A k \in keep : k <= last
  <2> DEFINE T == {Len(t) - k : k \in keep}
  <2>1. T \subseteq Nat /\ T # {}
    BY <1>1, <1>2
  <2>2. PICK x \in T : \A y \in T : x <= y
    BY <2>1, LeastNumber, Zenon
  <2>3. PICK n \in keep : x = Len(t) - n
    BY <2>2
  <2>4. ASSUME NEW k \in keep PROVE k <= n
    <3>1. Len(t) - n <= Len(t) - k
      BY <2>2, <2>3, <2>4
    <3>2. n \in Nat /\ k \in Nat
      BY <1>1, <2>3, <2>4
    <3> QED BY <1>1, <3>1, <3>2
  <2>5. \E m \in keep : \A k \in keep : k <= m
    BY <2>3, <2>4
  <2> HIDE DEF keep
  <2> QED BY <2>5
<1>3. stripany(t, kinds) = s
  BY DEF stripany
<1>4. cut \in 0 .. Len(t)
  <2> HIDE DEF last
  <2> QED BY <1>1, <1>2
<1>5. /\ cut # 0 => t[cut][1] \notin kinds
      /\ \A n \in cut + 1 .. Len(t) : t[n][1] \in kinds
  <2>1. CASE keep = {}
    BY <1>1, <2>1
  <2>2. CASE keep # {}
    <3>1. cut \in keep /\ \A k \in keep : k <= cut
      <4> HIDE DEF last
      <4> QED BY <1>2, <2>2
    <3>2. t[cut][1] \notin kinds
      BY <3>1
    <3>3. ASSUME NEW n \in cut + 1 .. Len(t) PROVE t[n][1] \in kinds
      <4>1. cut \in Nat /\ n \in 1 .. Len(t) /\ ~ (n <= cut)
        BY <1>1, <1>4
      <4>2. n \notin keep
        BY <3>1, <4>1
      <4> QED BY <4>1, <4>2
    <3> QED BY <3>2, <3>3
  <2> QED BY <2>1, <2>2
<1> HIDE DEF cut
<1>6. s \in Seq(Char) /\ Len(s) = cut /\ \A i \in 1 .. cut : s[i] = t[i]
  BY <1>1, <1>4
<1> HIDE DEF s
<1> QED BY <1>1, <1>3, <1>4, <1>5, <1>6 DEF Stripped, Text, s

(***************************************************************************)
(* Text that does not end in what is to be stripped stays as it is.        *)
(***************************************************************************)
LEMMA StripNothing ==
    ASSUME NEW t \in Text, NEW kinds, t # <<>> => t[Len(t)][1] \notin kinds
    PROVE  stripany(t, kinds) = t
<1> DEFINE s == stripany(t, kinds)
<1>1. Stripped(s, t, kinds)
  BY StripLemma
<1> HIDE DEF s
<1>2. Len(s) \in Nat /\ Len(t) \in Nat /\ Len(s) <= Len(t) /\ s = SubSeq(t, 1, Len(s))
  BY <1>1 DEF Stripped, Text
<1>3. Len(s) = Len(t)
  <2>1. SUFFICES ASSUME Len(s) < Len(t) PROVE FALSE
    BY <1>2
  <2>2. t # <<>> /\ Len(t) \in Len(s) + 1 .. Len(t)
    BY <1>2, <2>1
  <2> QED BY <1>1, <2>2 DEF Stripped
<1>4. SubSeq(t, 1, Len(t)) = t
  BY SubSeqFull DEF Text
<1> QED BY <1>2, <1>3, <1>4 DEF s

(***************************************************************************)
(* The first characters of two pieces of text, put together, are the first *)
(* piece.                                                                  *)
(***************************************************************************)
LEMMA JoinLemma ==
    ASSUME NEW s \in Text, NEW t \in Text
    PROVE  /\ s \o t \in Text
           /\ Len(s) \in Nat /\ Len(t) \in Nat /\ Len(s \o t) = Len(s) + Len(t)
           /\ \A i \in 1 .. Len(s) : (s \o t)[i] = s[i]
           /\ \A i \in 1 .. Len(t) : (s \o t)[Len(s) + i] = t[i]
           /\ SubSeq(s \o t, 1, Len(s)) = s
<1>1. s \o t \in Text /\ Len(s) \in Nat /\ Len(t) \in Nat /\ Len(s \o t) = Len(s) + Len(t)
  BY ConcatProperties DEF Text
<1>2. \A i \in 1 .. Len(s) : (s \o t)[i] = s[i]
  BY <1>1 DEF Text
<1>3. \A i \in 1 .. Len(t) : (s \o t)[Len(s) + i] = t[i]
  BY <1>1 DEF Text
<1>4. SubSeq(s \o t, 1, Len(s)) = s
  BY SubSeqOfConcat1, SubSeqFull, <1>1 DEF Text
<1> QED BY <1>1, <1>2, <1>3, <1>4


----------------------------------------------------------------------------
(* The levels.                                                             *)

\* The levels of each logger are those of the nearest mask, and errors.
LevelsRight ==
    \A x \in Nodes : Levels(x) = {b \in Bits : b = ERR \/ b \in MaskOf(parent, mask, x)}

(***************************************************************************)
(* sancus_logger_has_level answers by the nearest mask, and to errors.     *)
(***************************************************************************)
LEMMA LevelsLemma == TreeInv => LevelsRight
<1> SUFFICES ASSUME TreeInv, NEW x \in Nodes
             PROVE  Levels(x) = {b \in Bits : b = ERR \/ b \in MaskOf(parent, mask, x)}
  BY DEF LevelsRight
<1>1. ASSUME NEW b \in Bits
      PROVE  sancus_logger_has_level(x, {b}) <=> (b = ERR \/ b \in MaskOf(parent, mask, x))
  <2>1. sancus_logger_has_level(x, {b})
           <=> ({b} = {} \/ ERR \in {b} \/ {b} \cap MaskOf(parent, mask, x) # {})
    BY LevelLemma
  <2> QED BY <2>1
<1> QED BY <1>1 DEF Levels

(***************************************************************************)
(* The same after a step.                                                  *)
(***************************************************************************)
LEMMA LevelsNext == TreeInv' => LevelsRight'
  BY LevelsLemma, PTL

TreeStep == (Configure \/ UNCHANGED tree) /\ TreeInv /\ TreeInv'

(***************************************************************************)
(* Every step of a call leaves the tree alone.                             *)
(***************************************************************************)
LEMMA TreeStepLemma == TreeInv /\ [Next]_vars => TreeStep
<1> SUFFICES ASSUME TreeInv, [Next]_vars PROVE TreeStep
  OBVIOUS
<1>1. Configure \/ UNCHANGED tree
  <2>1. CASE LogMessage
    BY <2>1 DEF LogMessage, Refuse, sancus_logger__vprintf, Enter
  <2>2. CASE LogData
    BY <2>2 DEF LogData, Refuse, NoData, sancus_logger__vdumpf, Enter
  <2>3. CASE LogHex
    BY <2>3 DEF LogHex, Refuse, NoData, sancus_logger__vhexdumpf, Enter
  <2>4. CASE FormatString
    BY <2>4 DEF FormatString, sancus_fmt_ascii_cstr
  <2>5. CASE EncodeBlock \/ AllEncoded \/ TakeBack \/ AppendEllipsis \/ AppendSuffix
    BY <2>5 DEF EncodeBlock, AllEncoded, TakeBack, AppendEllipsis, AppendSuffix
  <2>6. CASE HexRow \/ HexDone \/ Return \/ UNCHANGED vars
    BY <2>6 DEF HexRow, HexDone, Return, vars
  <2> QED BY <2>1, <2>2, <2>3, <2>4, <2>5, <2>6 DEF Next
<1>2. CASE Configure
  BY <1>2, ConfigureStep DEF TreeStep
<1>3. CASE UNCHANGED tree
  <2>1. TreeInv'
    BY <1>3 DEF tree, TreeInv
  <2> QED BY <1>3, <2>1 DEF TreeStep
<1> QED BY <1>1, <1>2, <1>3

(***************************************************************************)
(* Whatever the application does with its loggers, they are a tree.        *)
(***************************************************************************)
THEOREM TreeInvariant == Spec => []TreeInv
<1>1. Init => TreeInv
  BY TreeInitStep DEF Init
<1>2. TreeInv /\ [Next]_vars => TreeInv'
  BY TreeStepLemma DEF TreeStep
<1> QED BY <1>1, <1>2, PTL DEF Spec

\* What LevelsKept says of a step.
LevelStep ==
    \A l \in Loggers, m \in Masks, x \in Loggers :
       /\ (sancus_logger_extend_mask(l, m) /\ mask[l] # {}) =>
             Levels(x)' = Levels(x) \cup (IF Nearest(x) = l THEN m ELSE {})
       /\ (sancus_logger_unset_mask(l, m) /\ mask[l] \ m # {}) =>
             Levels(x)' = Levels(x) \ (IF Nearest(x) = l THEN m \ {ERR} ELSE {})

(***************************************************************************)
(* Masks are extended and cut for a logger and for who inherits from it.   *)
(***************************************************************************)
LEMMA LevelStepLemma == TreeStep => LevelStep
<1> SUFFICES ASSUME TreeStep, NEW l \in Loggers, NEW m \in Masks, NEW x \in Loggers
             PROVE
       /\ (sancus_logger_extend_mask(l, m) /\ mask[l] # {}) =>
             Levels(x)' = Levels(x) \cup (IF Nearest(x) = l THEN m ELSE {})
       /\ (sancus_logger_unset_mask(l, m) /\ mask[l] \ m # {}) =>
             Levels(x)' = Levels(x) \ (IF Nearest(x) = l THEN m \ {ERR} ELSE {})
  BY DEF LevelStep
<1> DEFINE near == First(parent, x, Masked(mask))
           was == MaskOf(parent, mask, x)
<1>1. m \subseteq Bits /\ mask[l] \subseteq Bits /\ x \in Nodes /\ parent \in Parents
      /\ mask \in [Loggers -> SUBSET Bits]
  BY MasksAssumption DEF TreeStep, TreeInv, Nodes
<1>2. Levels(x) = {b \in Bits : b = ERR \/ b \in was}
  BY <1>1, LevelsLemma DEF TreeStep, LevelsRight
<1>3. Levels(x)' = {b \in Bits : b = ERR \/ b \in MaskOf(parent', mask', x)}
  BY <1>1, LevelsNext DEF TreeStep, LevelsRight
<1>4. Nearest(x) = near
  BY FirstInLemma DEF Nearest, Masked
<1>5. near = l => was = mask[l]
  BY LoggersAssumption DEF MaskOf
<1>6. ASSUME NEW new \in SUBSET Bits, new # {}, mask[l] # {},
             parent' = parent, mask' = [mask EXCEPT ![l] = new]
      PROVE  MaskOf(parent', mask', x) = IF near = l THEN new ELSE was
  <2>1. Masked(mask') = Masked(mask)
    BY <1>1, <1>6 DEF Masked
  <2>2. Masked(mask) \in SUBSET Loggers
    BY DEF Masked
  <2>3. near \in Loggers \cup {NULL}
    BY <1>1, <2>2, FirstIsIn
  <2> QED BY <1>1, <1>6, <2>1, <2>3, LoggersAssumption DEF MaskOf
<1>7. ASSUME sancus_logger_extend_mask(l, m), mask[l] # {}
      PROVE  Levels(x)' = Levels(x) \cup (IF Nearest(x) = l THEN m ELSE {})
  <2> DEFINE new == mask[l] \cup m
  <2>1. parent' = parent /\ mask' = [mask EXCEPT ![l] = new]
    <3>1. sancus_bit_cms(mask[l], m, m) = new
      BY DEF sancus_bit_cms
    <3> QED BY <1>7, <3>1 DEF sancus_logger_extend_mask, ChangeMask
  <2>2. new \in SUBSET Bits /\ new # {}
    BY <1>1, <1>7
  <2>3. MaskOf(parent', mask', x) = IF near = l THEN new ELSE was
    <3> HIDE DEF new, near, was
    <3> QED BY <1>6, <1>7, <2>1, <2>2
  <2> HIDE DEF near, was
  <2>4. CASE near = l
    BY <1>1, <1>2, <1>3, <1>4, <1>5, <2>3, <2>4
  <2>5. CASE near # l
    BY <1>2, <1>3, <1>4, <2>3, <2>5
  <2> QED BY <2>4, <2>5
<1>8. ASSUME sancus_logger_unset_mask(l, m), mask[l] \ m # {}
      PROVE  Levels(x)' = Levels(x) \ (IF Nearest(x) = l THEN m \ {ERR} ELSE {})
  <2> DEFINE new == mask[l] \ m
  <2>1. parent' = parent /\ mask' = [mask EXCEPT ![l] = new]
    <3>1. sancus_bit_cms(mask[l], {}, m) = new
      BY DEF sancus_bit_cms
    <3> QED BY <1>8, <3>1 DEF sancus_logger_unset_mask, ChangeMask
  <2>2. new \in SUBSET Bits /\ new # {} /\ mask[l] # {}
    BY <1>1, <1>8
  <2>3. MaskOf(parent', mask', x) = IF near = l THEN new ELSE was
    <3> HIDE DEF new, near, was
    <3> QED BY <1>6, <2>1, <2>2
  <2> HIDE DEF near, was
  <2>4. CASE near = l
    BY <1>1, <1>2, <1>3, <1>4, <1>5, <2>3, <2>4
  <2>5. CASE near # l
    BY <1>2, <1>3, <1>4, <2>3, <2>5
  <2> QED BY <2>4, <2>5
<1> QED BY <1>7, <1>8

(***************************************************************************)
(* In a tree of any shape, extend_mask and unset_mask change the levels    *)
(* they are given, of the logger and of all that inherit its mask, and     *)
(* nothing else.                                                           *)
(***************************************************************************)
THEOREM LevelChangesKept == Spec => LevelsKept
<1>1. Init => TreeInv
  BY TreeInitStep DEF Init
<1>2. TreeInv /\ [Next]_vars => TreeInv'
  BY TreeStepLemma DEF TreeStep
<1>3. TreeInv /\ [Next]_vars => [LevelStep]_tree
  BY TreeStepLemma, LevelStepLemma
<1>4. Spec => [][LevelStep]_tree
  BY <1>1, <1>2, <1>3, PTL DEF Spec
<1> QED BY <1>4 DEF LevelsKept, LevelStep

----------------------------------------------------------------------------
(* Pieces of text put together.                                            *)

\* The first n of some sequences, put together.
Flat(F, n) == FlattenSeq([i \in 1 .. n |-> F[i]])

(***************************************************************************)
(* FlattenSeq puts its sequences together from the first to the last.      *)
(***************************************************************************)
LEMMA FlatLemma ==
    ASSUME NEW A, NEW N \in Nat, NEW F \in [1 .. N -> Seq(A)]
    PROVE  /\ Flat(F, 0) = <<>>
           /\ \A n \in 0 .. N : Flat(F, n) \in Seq(A)
           /\ \A n \in 1 .. N : Flat(F, n) = Flat(F, n - 1) \o F[n]
<1> DEFINE X == Seq(A)
           none == <<>>
           step == [k \in 1 .. N |-> [s \in X |-> s \o F[k]]]
<1>1. none \in X /\ \A k \in 1 .. N : F[k] \in X
  OBVIOUS
<1>2. step \in [1 .. N -> [X -> X]]
  <2>1. \A s \in X, t \in X : s \o t \in X
    BY ConcatProperties
  <2> HIDE DEF X
  <2> QED BY <1>1, <2>1
<1>3. \A k \in 1 .. N : \A s \in X : step[k][s] = s \o F[k]
  OBVIOUS
<1> HIDE DEF step
<1>4. PICK g : Follows(g, X, none, N, step)
  <2> HIDE DEF X, none
  <2> QED BY <1>1, <1>2, RecursionExists
<1>5. /\ g \in [0 .. N -> X]
      /\ g[0] = none
      /\ \A k \in 1 .. N : g[k] = step[k][g[k - 1]]
  BY <1>4 DEF Follows
<1>6. \A k \in 1 .. N : g[k] = g[k - 1] \o F[k]
  <2>1. \A k \in 1 .. N : k - 1 \in 0 .. N
    OBVIOUS
  <2>2. \A k \in 1 .. N : g[k - 1] \in X
    BY <1>5, <2>1
  <2> HIDE DEF X
  <2> QED BY <1>3, <1>5, <2>2
<1>7. ASSUME NEW n \in 0 .. N PROVE Flat(F, n) = g[n]
  <2> DEFINE G == [i \in 1 .. n |-> F[i]]
             Is(f) == f = [i \in 1 .. Len(G) |->
                             IF i = 1 THEN G[i] ELSE f[i - 1] \o G[i]]
             flatten == CHOOSE f : Is(f)
             h == [i \in 1 .. n |-> g[i]]
  <2>1. G \in [1 .. n -> X] /\ \A i \in 1 .. n : G[i] = F[i]
    BY <1>1
  <2>2. G \in Seq(X) /\ Len(G) = n
    <3> HIDE DEF G, X
    <3> QED BY <2>1, IsASeq, LenProperties
  <2>3. CASE n = 0
    <3>1. Flat(F, n) = G
      BY <2>2, <2>3 DEF Flat, FlattenSeq
    <3>2. G = <<>>
      <4> HIDE DEF G, X
      <4> QED BY <2>2, <2>3
    <3> QED BY <1>5, <2>3, <3>1, <3>2
  <2>4. CASE n # 0
    <3>1. Flat(F, n) = flatten[n]
      BY <2>2, <2>4 DEF Flat, FlattenSeq
    <3>2. \A i \in 1 .. n : h[i] = IF i = 1 THEN G[i] ELSE h[i - 1] \o G[i]
      <4>1. ASSUME NEW i \in 1 .. n, i = 1 PROVE h[i] = G[i]
        <5>1. 1 \in 1 .. N /\ 1 - 1 = 0
          BY <4>1
        <5>2. g[1] = <<>> \o F[1] /\ F[1] \in Seq(A)
          <6>1. g[1] = g[0] \o F[1]
            BY <1>6, <5>1
          <6> QED BY <1>1, <1>5, <5>1, <6>1
        <5>3. <<>> \o F[1] = F[1]
          BY <5>2
        <5> QED BY <2>1, <4>1, <5>2, <5>3
      <4>2. ASSUME NEW i \in 1 .. n, i # 1 PROVE h[i] = h[i - 1] \o G[i]
        <5>1. i - 1 \in 1 .. n /\ i \in 1 .. N
          BY <4>2
        <5>2. h[i] = g[i] /\ h[i - 1] = g[i - 1] /\ G[i] = F[i]
          BY <5>1
        <5> HIDE DEF h, G
        <5> QED BY <1>6, <5>1, <5>2
      <4> HIDE DEF h, G
      <4> QED BY <4>1, <4>2
    <3>3. Is(h)
      <4>1. DOMAIN h = 1 .. n /\ h = [i \in 1 .. n |-> h[i]]
        OBVIOUS
      <4> HIDE DEF h, G
      <4> QED BY <2>2, <3>2, <4>1
    <3>4. Is(flatten)
      <4> HIDE DEF Is, h
      <4> QED BY <3>3
    <3> HIDE DEF flatten
    <3>5. \A i \in 1 .. n : flatten[i] = IF i = 1 THEN G[i] ELSE flatten[i - 1] \o G[i]
      <4> HIDE DEF G
      <4> QED BY <2>2, <3>4
    <3>6. \A i \in 1 .. n : h[i] = g[i]
      OBVIOUS
    <3> HIDE DEF h, G
    <3> DEFINE a == [i \in 0 .. n |-> IF i = 0 THEN none ELSE flatten[i]]
    <3>7. /\ a[0] = none
          /\ \A i \in 1 .. n : a[i] = flatten[i]
      OBVIOUS
    <3> HIDE DEF a
    <3>8. ASSUME NEW i \in 1 .. n, a[i - 1] = g[i - 1] PROVE a[i] = g[i]
      <4>1. CASE i = 1
        BY <3>2, <3>5, <3>6, <3>7, <4>1
      <4>2. CASE i # 1
        <5>1. i - 1 \in 1 .. n
          BY <4>2
        <5>2. a[i] = flatten[i - 1] \o G[i] /\ a[i - 1] = flatten[i - 1]
          BY <3>5, <3>7, <4>2, <5>1
        <5>3. g[i] = g[i - 1] \o G[i]
          BY <3>2, <3>6, <4>2, <5>1
        <5> QED BY <3>8, <5>2, <5>3
      <4> QED BY <4>1, <4>2
    <3>9. \A i \in 0 .. n : a[i] = g[i]
      <4> DEFINE S == {i \in 0 .. n : a[i] = g[i]}
      <4>1. n \in Nat /\ 0 \in S
        BY <1>5, <3>7
      <4>2. \A i \in 1 .. n : i - 1 \in S => i \in S
        BY <3>8
      <4>3. \A i \in 0 .. n : i \in S
        <5> HIDE DEF S
        <5> QED BY <4>1, <4>2, InductionUpTo, Zenon
      <4> QED BY <4>3
    <3> QED BY <2>4, <3>1, <3>7, <3>9
  <2> QED BY <2>3, <2>4
<1>8. 0 \in 0 .. N /\ \A n \in 1 .. N : n - 1 \in 0 .. N /\ n \in 0 .. N
  OBVIOUS
<1>9. \A n \in 0 .. N : g[n] \in X
  BY <1>5
<1> QED BY <1>5, <1>6, <1>7, <1>8, <1>9, Zenon

----------------------------------------------------------------------------
(* Encoded data.                                                           *)

\* Characters that are not the opening quote.
PlainChar == (CharKinds \ {"quote"}) \X Origins \X Nat
Plain == Seq(PlainChar)

Bytes == Seq({1, 2, 4})

\* The encodings of the first n bytes of d.
EncodingsOf(d, n) == FlattenSeq([i \in 1 .. n |-> Encoded(d, i)])

(***************************************************************************)
(* Text without a quote is text.                                           *)
(***************************************************************************)
LEMMA PlainLemma ==
    /\ \A t \in Plain : t \in Text
    /\ \A t \in Plain : t # <<>> => Head(t) # Head(Quote)
    /\ \A kind \in CharKinds \ {"quote"}, i \in Nat, n \in Nat :
          Piece(kind, i, n) \in Plain /\ Len(Piece(kind, i, n)) = n
<1>1. ASSUME NEW t \in Plain PROVE t \in Text
  <2>1. t \in [1 .. Len(t) -> PlainChar] /\ Len(t) \in Nat
    BY DEF Plain
  <2>2. \A i \in 1 .. Len(t) : t[i] \in Char
    BY <2>1 DEF PlainChar, Char
  <2>3. t \in [1 .. Len(t) -> Char]
    BY <2>1, <2>2
  <2> QED BY <2>1, <2>3, IsASeq DEF Text
<1>2. ASSUME NEW t \in Plain, t # <<>> PROVE Head(t) # Head(Quote)
  <2>1. Head(t) = t[1] /\ t[1] \in PlainChar
    BY <1>2 DEF Plain
  <2>2. t[1][1] # "quote"
    BY <2>1 DEF PlainChar
  <2>3. Quote \in Text /\ Len(Quote) = 1 /\ Quote[1][1] = "quote"
    <3> DEFINE kind == "quote"
               i == 0
               n == 1
    <3>1. kind \in CharKinds /\ i \in Nat /\ n \in Nat /\ 1 \in 1 .. n
      BY DEF CharKinds
    <3>2. Quote = Piece(kind, i, n)
      BY DEF Quote
    <3> HIDE DEF kind, i, n
    <3>3. Quote \in Text /\ Len(Quote) = n /\ Quote[1][1] = kind
      BY <3>1, <3>2, PieceLemma
    <3> QED BY <3>3 DEF kind, n
  <2>4. Head(Quote) = Quote[1]
    BY <2>3 DEF Text
  <2> QED BY <2>1, <2>2, <2>3, <2>4
<1>3. ASSUME NEW kind \in CharKinds \ {"quote"}, NEW i \in Nat, NEW n \in Nat
      PROVE  Piece(kind, i, n) \in Plain /\ Len(Piece(kind, i, n)) = n
  <2>1. \A c \in 1 .. n : <<kind, i, c>> \in PlainChar
    BY DEF PlainChar, Origins
  <2>2. Piece(kind, i, n) \in [1 .. n -> PlainChar]
    BY <2>1 DEF Piece
  <2> QED BY <2>2, IsASeq, LenProperties DEF Plain
<1> QED BY <1>1, <1>2, <1>3

(***************************************************************************)
(* A byte is encoded in one to four characters.                            *)
(***************************************************************************)
LEMMA EncodedLemma ==
    ASSUME NEW d \in Bytes, NEW i \in 1 .. Len(d)
    PROVE  Encoded(d, i) \in Plain /\ d[i] \in {1, 2, 4} /\ Len(Encoded(d, i)) = d[i]
<1>1. d[i] \in {1, 2, 4} /\ i \in Nat
  BY DEF Bytes
<1>2. "byte" \in CharKinds \ {"quote"} /\ d[i] \in Nat
  BY <1>1 DEF CharKinds
<1> QED BY <1>1, <1>2, PlainLemma DEF Encoded

(***************************************************************************)
(* The encodings of n bytes are those of n - 1 and that of the last.       *)
(***************************************************************************)
LEMMA EncodingsLemma ==
    ASSUME NEW d \in Bytes
    PROVE  /\ EncodingsOf(d, 0) = <<>>
           /\ \A n \in 0 .. Len(d) : EncodingsOf(d, n) \in Plain
           /\ \A n \in 1 .. Len(d) : EncodingsOf(d, n) = EncodingsOf(d, n - 1) \o Encoded(d, n)
<1> DEFINE N == Len(d)
           F == [i \in 1 .. N |-> Encoded(d, i)]
<1>1. N \in Nat
  BY DEF Bytes
<1>2. F \in [1 .. N -> Seq(PlainChar)] /\ \A i \in 1 .. N : F[i] = Encoded(d, i)
  BY EncodedLemma DEF Plain
<1>3. ASSUME NEW n \in 0 .. N PROVE EncodingsOf(d, n) = Flat(F, n)
  <2>1. [i \in 1 .. n |-> F[i]] = [i \in 1 .. n |-> Encoded(d, i)]
    <3>1. \A i \in 1 .. n : F[i] = Encoded(d, i)
      BY <1>1, <1>2
    <3> HIDE DEF F
    <3> QED BY <3>1
  <2> QED BY <2>1 DEF EncodingsOf, Flat
<1> HIDE DEF F
<1>4. /\ Flat(F, 0) = <<>>
      /\ \A n \in 0 .. N : Flat(F, n) \in Seq(PlainChar)
      /\ \A n \in 1 .. N : Flat(F, n) = Flat(F, n - 1) \o F[n]
  <2> HIDE DEF N
  <2> QED BY <1>1, <1>2, FlatLemma
<1>5. 0 \in 0 .. N /\ \A n \in 1 .. N : n - 1 \in 0 .. N /\ n \in 0 .. N
  BY <1>1
<1> HIDE DEF N
<1>6. /\ EncodingsOf(d, 0) = <<>>
      /\ \A n \in 0 .. N : EncodingsOf(d, n) \in Plain
      /\ \A n \in 1 .. N : EncodingsOf(d, n) = EncodingsOf(d, n - 1) \o Encoded(d, n)
  BY <1>2, <1>3, <1>4, <1>5, Zenon DEF Plain
<1> QED BY <1>6 DEF N

(***************************************************************************)
(* Concatenation of text.                                                  *)
(***************************************************************************)
LEMMA TextLemma ==
    ASSUME NEW s \in Text, NEW t \in Text, NEW u \in Text
    PROVE  (s \o t) \o u = s \o (t \o u) /\ s \o <<>> = s /\ <<>> \o s = s
<1> DEFINE C == Char
<1>1. s \in Seq(C) /\ t \in Seq(C) /\ u \in Seq(C)
  BY DEF Text
<1> HIDE DEF C
<1>2. (s \o t) \o u = s \o (t \o u)
  BY ONLY <1>1, ConcatAssociative
<1>3. s \o <<>> = s /\ <<>> \o s = s
  BY <1>1, ConcatEmptySeq, Zenon
<1> QED BY <1>2, <1>3

Taken == [t : Text, taken : Nat]

\* What an encoder with this room has after byte k, when it had b before it.
EncodeNext(b, d, from, k, room) ==
    IF b.taken = k - 1 /\ Len(b.t) + d[from + k] <= room
    THEN [t |-> b.t \o Encoded(d, from + k), taken |-> k]
    ELSE b

\* g is what an encoder has after each of n bytes.
Encoder(g, t, d, from, n, room) ==
    /\ g \in [0 .. n -> Taken]
    /\ g[0] = [t |-> t, taken |-> 0]
    /\ \A k \in 1 .. n : g[k] = EncodeNext(g[k - 1], d, from, k, room)

(***************************************************************************)
(* An encoder adds text to text.                                           *)
(***************************************************************************)
LEMMA EncodeNextLemma ==
    ASSUME NEW b \in Taken, NEW d \in Bytes, NEW from \in Nat, NEW k \in Nat \ {0},
           from + k <= Len(d), NEW room
    PROVE  EncodeNext(b, d, from, k, room) \in Taken
<1>1. from + k \in 1 .. Len(d)
  BY DEF Bytes
<1>2. Encoded(d, from + k) \in Text
  BY <1>1, EncodedLemma, PlainLemma
<1>3. b.t \in Text /\ b.t \o Encoded(d, from + k) \in Text
  BY <1>2, JoinLemma DEF Taken
<1> QED BY <1>3 DEF EncodeNext, Taken

(***************************************************************************)
(* There is a function that does what the encoders' recursion says.        *)
(***************************************************************************)
LEMMA EncoderExists ==
    ASSUME NEW t \in Text, NEW d \in Bytes, NEW from \in Nat, NEW n \in Nat,
           from + n <= Len(d), NEW room
    PROVE  \E g : Encoder(g, t, d, from, n, room)
<1> DEFINE first == [t |-> t, taken |-> 0]
           step == [k \in 1 .. n |-> [b \in Taken |-> EncodeNext(b, d, from, k, room)]]
<1>1. first \in Taken
  BY DEF Taken
<1>2. ASSUME NEW k \in 1 .. n, NEW b \in Taken
      PROVE  EncodeNext(b, d, from, k, room) \in Taken
  <2>1. k \in Nat \ {0} /\ from + k <= Len(d)
    BY DEF Bytes
  <2> QED BY <2>1, EncodeNextLemma
<1>3. step \in [1 .. n -> [Taken -> Taken]]
  BY <1>2
<1>4. \A k \in 1 .. n : \A b \in Taken : step[k][b] = EncodeNext(b, d, from, k, room)
  OBVIOUS
<1> HIDE DEF first, step
<1>5. PICK g : Follows(g, Taken, first, n, step)
  BY <1>1, <1>3, RecursionExists
<1>6. /\ g \in [0 .. n -> Taken] /\ g[0] = first
      /\ \A k \in 1 .. n : g[k] = step[k][g[k - 1]]
  BY <1>5 DEF Follows
<1>7. \A k \in 1 .. n : g[k - 1] \in Taken
  BY <1>6
<1> QED BY <1>4, <1>6, <1>7 DEF Encoder, first

\* b is what an encoder has after k bytes: after q, the encodings of the bytes
\* before and of those it took, all k of them or up to one that does not fit.
TakenRight(b, k, q, d, from, room) ==
    /\ b.taken <= k
    /\ b.t = q \o EncodingsOf(d, from + b.taken)
    /\ b.taken < k => Len(b.t) + d[from + b.taken + 1] > room
    /\ Len(b.t) <= Len(q \o EncodingsOf(d, from)) + 4 * b.taken
    /\ Len(q \o EncodingsOf(d, from)) <= room => Len(b.t) <= room

(***************************************************************************)
(* One more byte is taken if it fits and all before it were.               *)
(***************************************************************************)
LEMMA TakenNext ==
    ASSUME NEW q \in Text, NEW d \in Bytes, NEW from \in Nat, NEW k \in Nat \ {0},
           from + k <= Len(d), NEW room \in Int,
           NEW b \in Taken, TakenRight(b, k - 1, q, d, from, room)
    PROVE  TakenRight(EncodeNext(b, d, from, k, room), k, q, d, from, room)
<1> DEFINE e == Encoded(d, from + k)
           now == EncodeNext(b, d, from, k, room)
           size == Len(q \o EncodingsOf(d, from))
<1>1. from + k \in 1 .. Len(d) /\ from + k - 1 \in 0 .. Len(d) /\ from \in 0 .. Len(d)
  BY DEF Bytes
<1>2. b.t \in Text /\ b.taken \in Nat /\ Len(b.t) \in Nat
  BY DEF Taken, Text
<1>3. e \in Text /\ d[from + k] \in {1, 2, 4} /\ Len(e) = d[from + k]
  BY <1>1, EncodedLemma, PlainLemma
<1>4. size \in Nat
  <2>1. EncodingsOf(d, from) \in Text
    BY <1>1, EncodingsLemma, PlainLemma
  <2> QED BY <2>1, JoinLemma
<1>5. CASE b.taken = k - 1 /\ Len(b.t) + d[from + k] <= room
  <2>1. now = [t |-> b.t \o e, taken |-> k]
    BY <1>5 DEF EncodeNext
  <2>2. now.t = b.t \o e /\ now.taken = k
    <3> HIDE DEF now, e
    <3> QED BY <2>1
  <2>3. Len(b.t \o e) = Len(b.t) + Len(e)
    BY <1>2, <1>3, JoinLemma
  <2>4. b.t \o e = q \o EncodingsOf(d, from + k)
    <3>1. from + (k - 1) = from + k - 1
      OBVIOUS
    <3>2. EncodingsOf(d, from + k) = EncodingsOf(d, from + k - 1) \o e
      BY <1>1, EncodingsLemma
    <3>3. EncodingsOf(d, from + k - 1) \in Text
      BY <1>1, EncodingsLemma, PlainLemma
    <3>4. b.t = q \o EncodingsOf(d, from + k - 1)
      BY <1>5, <3>1 DEF TakenRight
    <3> DEFINE E == EncodingsOf(d, from + k - 1)
    <3>5. (q \o E) \o e = q \o (E \o e)
      <4>1. E \in Text /\ e \in Text
        BY <1>3, <3>3
      <4> HIDE DEF e, E
      <4> QED BY <4>1, TextLemma
    <3> QED BY <3>2, <3>4, <3>5
  <2>5. Len(b.t) <= size + 4 * (k - 1)
    BY <1>5 DEF TakenRight
  <2> HIDE DEF e, now, size
  <2>6. Len(now.t) <= size + 4 * k /\ Len(now.t) <= room
    <3> DEFINE x == Len(b.t)
               y == d[from + k]
               z == Len(now.t)
    <3>1. x \in Nat /\ y \in {1, 2, 4} /\ x + y <= room /\ x <= size + 4 * (k - 1)
      BY <1>2, <1>3, <1>5, <2>5
    <3>2. z = x + y
      BY <1>3, <2>2, <2>3
    <3> HIDE DEF x, y, z
    <3>3. z <= size + 4 * k /\ z <= room
      BY <1>4, <3>1, <3>2
    <3> QED BY <3>3 DEF z
  <2>7. now.taken <= k /\ ~ (now.taken < k)
    BY <2>2
  <2>8. now.t = q \o EncodingsOf(d, from + now.taken)
    BY <2>2, <2>4
  <2> QED BY <2>2, <2>6, <2>7, <2>8 DEF TakenRight, now, size
<1>6. CASE ~ (b.taken = k - 1 /\ Len(b.t) + d[from + k] <= room)
  <2>1. now = b
    BY <1>6 DEF EncodeNext
  <2>2. b.taken <= k - 1 /\ b.taken <= k
    BY <1>2 DEF TakenRight
  <2>3. b.taken < k => Len(b.t) + d[from + b.taken + 1] > room
    <3>1. CASE b.taken = k - 1
      <4>1. from + b.taken + 1 = from + k
        BY <3>1
      <4>2. ~ (Len(b.t) + d[from + k] <= room)
        BY <1>6, <3>1
      <4> QED BY <1>2, <1>3, <4>1, <4>2
    <3>2. CASE b.taken # k - 1
      <4>1. b.taken < k - 1
        BY <1>2, <2>2, <3>2
      <4> QED BY <4>1 DEF TakenRight
    <3> QED BY <3>1, <3>2
  <2> HIDE DEF now
  <2> QED BY <2>1, <2>2, <2>3 DEF TakenRight, now
<1> QED BY <1>5, <1>6

(***************************************************************************)
(* The encoder takes bytes while they fit.                                 *)
(***************************************************************************)
LEMMA EncoderResult ==
    ASSUME NEW q \in Text, NEW d \in Bytes, NEW from \in Nat, NEW n \in Nat,
           from + n <= Len(d), NEW room \in Int,
           NEW g, Encoder(g, q \o EncodingsOf(d, from), d, from, n, room)
    PROVE  g[n] \in Taken /\ TakenRight(g[n], n, q, d, from, room)
<1> DEFINE S == {k \in 0 .. n : TakenRight(g[k], k, q, d, from, room)}
           t == q \o EncodingsOf(d, from)
<1>1. t \in Text /\ Len(t) \in Nat
  <2>1. from \in 0 .. Len(d)
    BY DEF Bytes
  <2>2. EncodingsOf(d, from) \in Text
    BY <2>1, EncodingsLemma, PlainLemma
  <2>3. t \in Text
    BY <2>2, JoinLemma
  <2> QED BY <2>3 DEF Text
<1> HIDE DEF t
<1>2. /\ \A k \in 0 .. n : g[k] \in Taken
      /\ g[0] = [t |-> t, taken |-> 0]
      /\ \A k \in 1 .. n : g[k] = EncodeNext(g[k - 1], d, from, k, room)
  BY DEF Encoder, t
<1>3. 0 \in S
  <2>1. g[0].t = t /\ g[0].taken = 0 /\ from + 0 = from
    BY <1>2
  <2>2. TakenRight(g[0], 0, q, d, from, room)
    BY <1>1, <2>1 DEF TakenRight, t
  <2> QED BY <2>2
<1>4. ASSUME NEW k \in 1 .. n, k - 1 \in S PROVE k \in S
  <2>1. k \in Nat \ {0} /\ from + k <= Len(d) /\ k - 1 \in 0 .. n
    BY DEF Bytes
  <2>2. TakenRight(g[k - 1], k - 1, q, d, from, room) /\ g[k - 1] \in Taken
    BY <1>2, <1>4, <2>1
  <2>3. TakenRight(EncodeNext(g[k - 1], d, from, k, room), k, q, d, from, room)
    BY <2>1, <2>2, TakenNext
  <2> QED BY <1>2, <2>3
<1>5. \A k \in 1 .. n : k - 1 \in S => k \in S
  BY <1>4
<1>6. \A k \in 0 .. n : k \in S
  <2> HIDE DEF S
  <2> QED BY <1>3, <1>5, InductionUpTo, Zenon
<1> QED BY <1>2, <1>6

(***************************************************************************)
(* Bytes that fit whatever they are encoded to are all encoded.            *)
(***************************************************************************)
LEMMA DumpEncLemma ==
    ASSUME NEW q \in Text, data \in Bytes, NEW from \in Nat, NEW n \in Nat,
           from + n <= Len(data), NEW t, t = q \o EncodingsOf(data, from),
           Len(t) + 4 * n <= Size
    PROVE  /\ dump_enc(t, from, n) = q \o EncodingsOf(data, from + n)
           /\ Len(dump_enc(t, from, n)) <= Len(t) + 4 * n
<1> DEFINE Is(f) ==
             f = [k \in 0 .. n |->
                    IF k = 0 THEN [t |-> t, taken |-> 0]
                    ELSE IF f[k - 1].taken = k - 1
                            /\ Len(Encoded(data, from + k)) <= Size - Len(f[k - 1].t)
                    THEN [t |-> f[k - 1].t \o Encoded(data, from + k), taken |-> k]
                    ELSE f[k - 1]]
           after == CHOOSE f : Is(f)
<1>1. from \in 0 .. Len(data) /\ Len(data) \in Nat /\ Size \in Int
  BY SizeAssumption DEF Bytes
<1>2. t \in Text /\ Len(t) \in Nat
  <2>1. EncodingsOf(data, from) \in Text
    BY <1>1, EncodingsLemma, PlainLemma
  <2>2. t \in Text
    BY <2>1, JoinLemma
  <2> QED BY <2>2 DEF Text
<1>3. PICK g : Encoder(g, t, data, from, n, Size)
  BY <1>2, EncoderExists
<1>4. /\ \A k \in 0 .. n : g[k] \in Taken
      /\ g[0] = [t |-> t, taken |-> 0]
      /\ \A k \in 1 .. n : g[k] = EncodeNext(g[k - 1], data, from, k, Size)
      /\ g = [k \in 0 .. n |-> g[k]]
  BY <1>3 DEF Encoder
<1>5. ASSUME NEW b \in Taken, NEW k \in 1 .. n
      PROVE  EncodeNext(b, data, from, k, Size) =
                IF b.taken = k - 1 /\ Len(Encoded(data, from + k)) <= Size - Len(b.t)
                THEN [t |-> b.t \o Encoded(data, from + k), taken |-> k]
                ELSE b
  <2>1. from + k \in 1 .. Len(data)
    BY <1>1
  <2>2. data[from + k] \in Nat /\ Len(Encoded(data, from + k)) = data[from + k]
    BY <2>1, EncodedLemma
  <2>3. Len(b.t) \in Nat
    BY DEF Taken, Text
  <2>4. Len(b.t) + data[from + k] <= Size <=> Len(Encoded(data, from + k)) <= Size - Len(b.t)
    <3> DEFINE x == Len(b.t)
               y == data[from + k]
               z == Len(Encoded(data, from + k))
    <3>1. x \in Nat /\ y \in Nat /\ z = y
      BY <2>2, <2>3
    <3> HIDE DEF x, y, z
    <3>2. x + y <= Size <=> z <= Size - x
      BY <1>1, <3>1
    <3> QED BY <3>2 DEF x, y, z
  <2> QED BY <2>4 DEF EncodeNext
<1>6. \A k \in 1 .. n : k - 1 \in 0 .. n /\ k \in 0 .. n /\ k # 0
  OBVIOUS
<1>7. Is(g)
  <2>1. ASSUME NEW k \in 0 .. n
        PROVE  g[k] = IF k = 0 THEN [t |-> t, taken |-> 0]
                      ELSE IF g[k - 1].taken = k - 1
                              /\ Len(Encoded(data, from + k)) <= Size - Len(g[k - 1].t)
                      THEN [t |-> g[k - 1].t \o Encoded(data, from + k), taken |-> k]
                      ELSE g[k - 1]
    <3>1. CASE k = 0
      BY <1>4, <3>1
    <3>2. CASE k # 0
      <4>1. k \in 1 .. n /\ k - 1 \in 0 .. n
        BY <3>2
      <4>2. g[k - 1] \in Taken /\ g[k] = EncodeNext(g[k - 1], data, from, k, Size)
        BY <1>4, <4>1
      <4> QED BY <1>5, <3>2, <4>1, <4>2
    <3> QED BY <3>1, <3>2
  <2> QED BY <1>4, <2>1
<1>8. Is(after)
  <2> HIDE DEF Is
  <2> QED BY <1>7
<1>9. dump_enc(t, from, n) = after[n].t
  BY DEF dump_enc, Encode, append_ok, tail_size
<1> HIDE DEF after
<1>10. after[0] = [t |-> t, taken |-> 0]
  BY <1>8
<1>11. ASSUME NEW k \in 1 .. n, after[k - 1] = g[k - 1] PROVE after[k] = g[k]
  <2>1. after[k] = IF after[k - 1].taken = k - 1
                      /\ Len(Encoded(data, from + k)) <= Size - Len(after[k - 1].t)
                   THEN [t |-> after[k - 1].t \o Encoded(data, from + k), taken |-> k]
                   ELSE after[k - 1]
    BY <1>6, <1>8
  <2>2. g[k - 1] \in Taken /\ g[k] = EncodeNext(g[k - 1], data, from, k, Size)
    BY <1>4, <1>6
  <2>3. g[k] = IF g[k - 1].taken = k - 1
                  /\ Len(Encoded(data, from + k)) <= Size - Len(g[k - 1].t)
               THEN [t |-> g[k - 1].t \o Encoded(data, from + k), taken |-> k]
               ELSE g[k - 1]
    BY <1>5, <2>2
  <2> QED BY <1>11, <2>1, <2>3
<1> HIDE DEF Is
<1>12. after[n] = g[n]
  <2> DEFINE S == {k \in 0 .. n : after[k] = g[k]}
  <2>1. 0 \in S
    <3>1. after[0] = g[0] /\ 0 \in 0 .. n
      BY <1>4, <1>10
    <3> QED BY <3>1
  <2>2. \A k \in 1 .. n : k - 1 \in S => k \in S
    BY <1>11
  <2>3. \A k \in 0 .. n : k \in S
    <3> HIDE DEF S
    <3> QED BY <2>1, <2>2, InductionUpTo, Zenon
  <2> QED BY <2>3
<1>13. g[n] \in Taken /\ TakenRight(g[n], n, q, data, from, Size)
  BY <1>1, <1>3, EncoderResult
<1>14. g[n].taken = n
  <2>1. g[n].taken \in Nat /\ Len(g[n].t) \in Nat
    BY <1>13 DEF Taken, Text
  <2>2. SUFFICES ASSUME g[n].taken < n PROVE FALSE
    BY <1>13, <2>1 DEF TakenRight
  <2>3. /\ Len(g[n].t) + data[from + g[n].taken + 1] > Size
        /\ Len(g[n].t) <= Len(t) + 4 * g[n].taken
    BY <1>13, <2>2 DEF TakenRight
  <2>4. from + g[n].taken + 1 \in 1 .. Len(data)
    <3> DEFINE z == g[n].taken
               size == Len(data)
    <3>1. z \in Nat /\ z < n /\ size \in Nat /\ from + n <= size
      BY <1>1, <2>1, <2>2 DEF Bytes
    <3> HIDE DEF z, size
    <3>2. from + z + 1 \in 1 .. size
      BY <3>1
    <3> QED BY <3>2 DEF z, size
  <2>5. data[from + g[n].taken + 1] \in {1, 2, 4}
    BY <2>4, EncodedLemma
  <2> DEFINE x == Len(g[n].t)
             y == data[from + g[n].taken + 1]
             z == g[n].taken
  <2>6. x + y > Size /\ x <= Len(t) + 4 * z /\ y \in {1, 2, 4} /\ z < n /\ x \in Nat /\ z \in Nat
    BY <2>1, <2>2, <2>3, <2>5
  <2> HIDE DEF x, y, z
  <2> QED BY <1>1, <1>2, <2>6
<1> QED BY <1>9, <1>12, <1>13, <1>14 DEF TakenRight

\* The encoder of sancus_fmt_ascii_cstr.
StringOf(size, d) ==
    Encode(<<>>, d, 0, Len(d), LAMBDA b, c : appendf_ok(size, b, c))

(***************************************************************************)
(* A C string has the encodings of as many bytes as there is room for.     *)
(***************************************************************************)
LEMMA StringLemma ==
    ASSUME NEW d \in Bytes, NEW size \in Nat \ {0}
    PROVE  LET e == StringOf(size, d)
           IN  /\ e \in Taken /\ e.taken <= Len(d)
               /\ e.t = EncodingsOf(d, e.taken)
               /\ Len(e.t) < size
               /\ e.taken < Len(d) => Len(e.t) + d[e.taken + 1] >= size
<1> DEFINE n == Len(d)
           room == size - 1
           first == [t |-> <<>>, taken |-> 0]
           Is(f) ==
             f = [k \in 0 .. n |->
                    IF k = 0 THEN [t |-> <<>>, taken |-> 0]
                    ELSE IF f[k - 1].taken = k - 1
                            /\ Len(Encoded(d, 0 + k)) < size - Len(f[k - 1].t)
                    THEN [t |-> f[k - 1].t \o Encoded(d, 0 + k), taken |-> k]
                    ELSE f[k - 1]]
           after == CHOOSE f : Is(f)
<1>1. n \in Nat /\ 0 + n <= n /\ room \in Int
  BY DEF Bytes
<1>2. <<>> \in Text /\ <<>> \o EncodingsOf(d, 0) = <<>>
  BY EncodingsLemma DEF Text
<1>3. PICK g : Encoder(g, <<>>, d, 0, n, room)
  <2> DEFINE none == <<>>
             zero == 0
  <2>1. none \in Text /\ zero \in Nat /\ zero + n <= Len(d)
    BY <1>1, <1>2
  <2> HIDE DEF n, room, none, zero
  <2>2. \E g : Encoder(g, none, d, zero, n, room)
    BY <1>1, <2>1, EncoderExists
  <2> QED BY <2>2 DEF none, zero
<1>4. /\ \A k \in 0 .. n : g[k] \in Taken
      /\ g[0] = first
      /\ \A k \in 1 .. n : g[k] = EncodeNext(g[k - 1], d, 0, k, room)
      /\ g = [k \in 0 .. n |-> g[k]]
  BY <1>3 DEF Encoder
<1>5. ASSUME NEW b \in Taken, NEW k \in 1 .. n
      PROVE  EncodeNext(b, d, 0, k, room) =
                IF b.taken = k - 1 /\ Len(Encoded(d, 0 + k)) < size - Len(b.t)
                THEN [t |-> b.t \o Encoded(d, 0 + k), taken |-> k]
                ELSE b
  <2>1. 0 + k = k /\ k \in 1 .. Len(d)
    BY <1>1
  <2>2. d[k] \in Nat /\ Len(Encoded(d, k)) = d[k]
    BY <2>1, EncodedLemma
  <2>3. Len(b.t) \in Nat
    BY DEF Taken, Text
  <2>4. Len(b.t) + d[k] <= room <=> Len(Encoded(d, k)) < size - Len(b.t)
    <3> DEFINE x == Len(b.t)
               y == d[k]
               z == Len(Encoded(d, k))
    <3>1. x \in Nat /\ y \in Nat /\ z = y
      BY <2>2, <2>3
    <3> HIDE DEF x, y, z
    <3>2. x + y <= size - 1 <=> z < size - x
      BY <1>1, <3>1
    <3> QED BY <3>2 DEF x, y, z
  <2> QED BY <2>1, <2>4 DEF EncodeNext
<1>6. \A k \in 1 .. n : k - 1 \in 0 .. n /\ k \in 0 .. n /\ k # 0
  BY <1>1
<1>7. Is(g)
  <2>1. ASSUME NEW k \in 0 .. n
        PROVE  g[k] = IF k = 0 THEN [t |-> <<>>, taken |-> 0]
                      ELSE IF g[k - 1].taken = k - 1
                              /\ Len(Encoded(d, 0 + k)) < size - Len(g[k - 1].t)
                      THEN [t |-> g[k - 1].t \o Encoded(d, 0 + k), taken |-> k]
                      ELSE g[k - 1]
    <3> HIDE DEF n
    <3>1. CASE k = 0
      BY <1>4, <3>1
    <3>2. CASE k # 0
      <4>1. k \in 1 .. n /\ k - 1 \in 0 .. n
        BY <1>1, <3>2
      <4>2. g[k - 1] \in Taken /\ g[k] = EncodeNext(g[k - 1], d, 0, k, room)
        BY <1>4, <4>1
      <4> HIDE DEF room
      <4> QED BY <1>5, <3>2, <4>1, <4>2
    <3> QED BY <3>1, <3>2
  <2> HIDE DEF n
  <2> QED BY <1>4, <2>1
<1>8. Is(after)
  <2> HIDE DEF Is
  <2> QED BY <1>7
<1>9. StringOf(size, d) = after[n]
  BY DEF StringOf, Encode, appendf_ok, tail_size
<1> HIDE DEF after, n, room
<1>10. after[0] = first
  BY <1>1, <1>8
<1>11. ASSUME NEW k \in 1 .. n, after[k - 1] = g[k - 1] PROVE after[k] = g[k]
  <2>1. after[k] = IF after[k - 1].taken = k - 1
                      /\ Len(Encoded(d, 0 + k)) < size - Len(after[k - 1].t)
                   THEN [t |-> after[k - 1].t \o Encoded(d, 0 + k), taken |-> k]
                   ELSE after[k - 1]
    BY <1>6, <1>8
  <2>2. g[k - 1] \in Taken /\ g[k] = EncodeNext(g[k - 1], d, 0, k, room)
    BY <1>4, <1>6
  <2>3. g[k] = IF g[k - 1].taken = k - 1
                  /\ Len(Encoded(d, 0 + k)) < size - Len(g[k - 1].t)
               THEN [t |-> g[k - 1].t \o Encoded(d, 0 + k), taken |-> k]
               ELSE g[k - 1]
    BY <1>5, <2>2
  <2> QED BY <1>11, <2>1, <2>3
<1> HIDE DEF Is
<1>12. after[n] = g[n]
  <2> DEFINE S == {k \in 0 .. n : after[k] = g[k]}
  <2>1. 0 \in S
    <3>1. after[0] = g[0] /\ 0 \in 0 .. n
      BY <1>1, <1>4, <1>10
    <3> QED BY <3>1
  <2>2. \A k \in 1 .. n : k - 1 \in S => k \in S
    BY <1>6, <1>11
  <2>3. \A k \in 0 .. n : k \in S
    <3> HIDE DEF S
    <3> QED BY <1>1, <2>1, <2>2, InductionUpTo, Zenon
  <2> QED BY <1>1, <2>3
<1>13. g[n] \in Taken /\ TakenRight(g[n], n, <<>>, d, 0, room)
  <2> DEFINE none == <<>>
             zero == 0
             t == <<>> \o EncodingsOf(d, 0)
  <2>1. none \in Text /\ zero \in Nat /\ zero + n <= Len(d) /\ Encoder(g, t, d, zero, n, room)
    BY <1>1, <1>2, <1>3 DEF n
  <2>2. t = none \o EncodingsOf(d, zero)
    OBVIOUS
  <2> HIDE DEF none, zero, t
  <2>3. g[n] \in Taken /\ TakenRight(g[n], n, none, d, zero, room)
    BY <1>1, <2>1, <2>2, EncoderResult
  <2> QED BY <2>3 DEF none, zero
<1> DEFINE x == Len(g[n].t)
           z == g[n].taken
<1>14. x \in Nat /\ z \in Nat /\ z <= n /\ 0 + z = z /\ g[n].t \in Text
  BY <1>13 DEF Taken, Text, TakenRight
<1>15. g[n].t = EncodingsOf(d, z)
  <2>1. g[n].t = <<>> \o EncodingsOf(d, z)
    BY <1>13, <1>14 DEF TakenRight
  <2>2. z \in 0 .. Len(d)
    BY <1>1, <1>14 DEF n
  <2>3. EncodingsOf(d, z) \in Text
    BY <2>2, EncodingsLemma, PlainLemma
  <2> QED BY <2>1, <2>3, TextLemma
<1>16. x < size
  <2>1. Len(<<>>) <= room => x <= room
    BY <1>2, <1>13 DEF TakenRight
  <2> HIDE DEF x
  <2> QED BY <1>14, <2>1 DEF room
<1>17. z < n => x + d[z + 1] >= size
  <2>1. SUFFICES ASSUME z < n PROVE x + d[z + 1] >= size
    OBVIOUS
  <2>2. x + d[0 + z + 1] > room
    BY <1>13, <2>1 DEF TakenRight
  <2>3. 0 + z + 1 = z + 1 /\ z + 1 \in 1 .. Len(d)
    BY <1>1, <1>14, <2>1 DEF n
  <2>4. d[z + 1] \in {1, 2, 4}
    BY <2>3, EncodedLemma
  <2> HIDE DEF x, z
  <2> QED BY <1>14, <2>2, <2>3, <2>4 DEF room
<1> QED BY <1>9, <1>12, <1>13, <1>14, <1>15, <1>16, <1>17 DEF n

----------------------------------------------------------------------------
(* The message and the prefix.                                             *)

(***************************************************************************)
(* The first characters of text, and those of two pieces put together.     *)
(***************************************************************************)
LEMMA CutLemma ==
    ASSUME NEW s \in Text, NEW t \in Text, NEW n \in Nat, n <= Len(t)
    PROVE  /\ SubSeq(t, 1, n) \in Text /\ Len(SubSeq(t, 1, n)) = n
           /\ \A i \in 1 .. n : SubSeq(t, 1, n)[i] = t[i]
           /\ SubSeq(s \o t, 1, Len(s) + n) = s \o SubSeq(t, 1, n)
<1> DEFINE cut == SubSeq(t, 1, n)
           st == s \o t
           a == SubSeq(st, 1, Len(s) + n)
           b == s \o cut
<1>1. cut \in Text /\ Len(cut) = n /\ \A i \in 1 .. n : cut[i] = t[i]
  BY DEF Text
<1>2. Len(s) \in Nat /\ Len(t) \in Nat /\ st \in Text /\ Len(st) = Len(s) + Len(t)
  BY JoinLemma
<1>3. /\ \A i \in 1 .. Len(s) : st[i] = s[i]
      /\ \A i \in 1 .. Len(t) : st[Len(s) + i] = t[i]
  BY JoinLemma
<1> HIDE DEF cut
<1>4. /\ b \in Text /\ Len(b) = Len(s) + n
      /\ \A i \in 1 .. Len(s) : b[i] = s[i]
      /\ \A i \in 1 .. n : b[Len(s) + i] = cut[i]
  BY <1>1, JoinLemma
<1> HIDE DEF st, b
<1>5. a \in Text /\ Len(a) = Len(s) + n /\ \A i \in 1 .. Len(s) + n : a[i] = st[i]
  <2>1. Len(s) + n \in Nat /\ Len(s) + n <= Len(st)
    BY <1>2
  <2> QED BY <1>2, <2>1 DEF Text
<1> HIDE DEF a
<1>6. ASSUME NEW i \in 1 .. Len(s) + n PROVE a[i] = b[i]
  <2>1. CASE i <= Len(s)
    BY <1>2, <1>3, <1>4, <1>5, <2>1
  <2>2. CASE ~ (i <= Len(s))
    <3>1. i - Len(s) \in 1 .. n /\ i - Len(s) \in 1 .. Len(t) /\ i = Len(s) + (i - Len(s))
      BY <1>2, <2>2
    <3> DEFINE k == i - Len(s)
    <3>2. st[Len(s) + k] = t[k] /\ b[Len(s) + k] = cut[k] /\ cut[k] = t[k]
      BY <1>1, <1>3, <1>4, <3>1
    <3>3. i = Len(s) + k
      BY <3>1
    <3> HIDE DEF k
    <3> QED BY <1>5, <3>2, <3>3
  <2> QED BY <2>1, <2>2
<1>7. a = b
  <2>1. Len(a) = Len(b) /\ \A i \in 1 .. Len(a) : a[i] = b[i]
    BY <1>4, <1>5, <1>6
  <2> QED BY <1>4, <1>5, <2>1, SeqEqual DEF Text
<1> QED BY <1>1, <1>7 DEF cut, a, b, st

(***************************************************************************)
(* What is stripped of the text there is room for comes from its start.    *)
(***************************************************************************)
LEMMA FromStartLemma ==
    ASSUME NEW s \in Text, NEW room \in Nat, NEW kinds,
           NEW whole, whole = IF Len(s) > room THEN SubSeq(s, 1, room) ELSE s
    PROVE  /\ whole \in Text
           /\ stripany(whole, kinds) \in Text
           /\ FromStart(stripany(whole, kinds), s, room, kinds)
<1> DEFINE t == stripany(whole, kinds)
<1>1. Len(s) \in Nat
  BY DEF Text
<1>2. whole \in Text
  BY <1>1, CutLemma
<1>3. Stripped(t, whole, kinds)
  BY <1>2, StripLemma
<1> HIDE DEF t
<1>4. t \in Text /\ Len(t) <= Len(whole) /\ t = SubSeq(whole, 1, Len(t))
  BY <1>3 DEF Stripped
<1>5. IsPrefix(t, whole)
  <2>1. SubSeq(t, 1, Len(t)) = t
    BY <1>4, SubSeqFull DEF Text
  <2> QED BY <1>4, <2>1 DEF IsPrefix
<1>6. t # <<>> => Last(t)[1] \notin kinds
  BY <1>3 DEF Stripped, Last
<1>7. \A n \in Len(t) + 1 .. Len(whole) : whole[n][1] \in kinds
  BY <1>3 DEF Stripped
<1> QED BY <1>2, <1>4, <1>5, <1>6, <1>7 DEF FromStart, t

\* The reference's context of a message.
Context(c) ==
    IF c.func = 0 THEN <<>>
    ELSE Name(c) \o (IF Macros[c.f].line THEN AtLine ELSE <<>>) \o Separator

MessageRight(c, msg) ==
    Len(Context(c)) < MessageSize =>
        FromStart(msg, Context(c) \o Chars("message", c.fmt), MessageSize - 1,
                  Blank \cup {"colon"})

(***************************************************************************)
(* The parts of a context.                                                 *)
(***************************************************************************)
LEMMA ContextParts ==
    /\ \A c : c.func \in Nat => Name(c) \in Text /\ Len(Name(c)) = c.func
    /\ AtLine \in Text /\ Len(AtLine) = 1 + Digits
    /\ Separator \in Text /\ Len(Separator) = 2
<1>1. \A s \in Seq(Kinds) : s \in Seq(CharKinds)
  <2>1. Kinds \subseteq CharKinds
    BY DEF CharKinds
  <2> QED BY <2>1
<1>2. {"func", "line", "separator", "message"} \subseteq Origins
  BY DEF Origins
<1>3. ASSUME NEW c, c.func \in Nat PROVE Name(c) \in Text /\ Len(Name(c)) = c.func
  <2>1. Solid(c.func) \in Seq(CharKinds) /\ Len(Solid(c.func)) = c.func
    BY <1>1, <1>3, StaticPrefixLemma
  <2> QED BY <1>2, <2>1, CharsLemma DEF Name
<1>4. AtLine \in Text /\ Len(AtLine) = 1 + Digits
  <2> DEFINE s == <<"colon">> \o Solid(Digits)
  <2>1. Solid(Digits) \in Seq(Kinds) /\ Len(Solid(Digits)) = Digits /\ Digits \in Nat
    BY MessageAssumption, StaticPrefixLemma
  <2>2. <<"colon">> \in Seq(Kinds) /\ Len(<<"colon">>) = 1
    BY DEF Kinds
  <2>3. s \in Seq(Kinds) /\ Len(s) = 1 + Digits
    BY <2>1, <2>2, ConcatProperties
  <2> HIDE DEF s
  <2>4. Chars("line", s) \in Text /\ Len(Chars("line", s)) = Len(s)
    BY <1>1, <1>2, <2>3, CharsLemma
  <2> QED BY <2>3, <2>4 DEF AtLine, s
<1>5. Separator \in Text /\ Len(Separator) = 2
  <2> DEFINE s == <<"colon", "blank">>
  <2>1. s \in Seq(Kinds) /\ Len(s) = 2
    BY DEF Kinds
  <2> HIDE DEF s
  <2>2. Chars("separator", s) \in Text /\ Len(Chars("separator", s)) = Len(s)
    BY <1>1, <1>2, <2>1, CharsLemma
  <2> QED BY <2>1, <2>2 DEF Separator, s
<1> QED BY <1>3, <1>4, <1>5

(***************************************************************************)
(* What is appended to a buffer stays inside it, and is there if it fits.  *)
(***************************************************************************)
LEMMA AppendsInside ==
    ASSUME NEW t \in Text, NEW s \in Text, Len(t) <= MessageSize
    PROVE  /\ append(MessageSize, t, s) \in Text
           /\ Len(append(MessageSize, t, s)) <= MessageSize
           /\ Len(t) + Len(s) <= MessageSize => append(MessageSize, t, s) = t \o s
           /\ appendf(MessageSize, t, s) \in Text
           /\ Len(appendf(MessageSize, t, s)) <= MessageSize
           /\ Len(t) + Len(s) < MessageSize => appendf(MessageSize, t, s) = t \o s
<1>1. t \o s \in Text /\ Len(t) \in Nat /\ Len(s) \in Nat /\ Len(t \o s) = Len(t) + Len(s)
  BY JoinLemma
<1>2. MessageSize \in Nat
  BY MessageAssumption
<1> DEFINE x == Len(t)
           y == Len(s)
<1>3. /\ y <= MessageSize - x <=> x + y <= MessageSize
      /\ y < MessageSize - x <=> x + y < MessageSize
      /\ x + y < MessageSize => x + y <= MessageSize
  <2>1. x \in Nat /\ y \in Nat
    BY <1>1
  <2> HIDE DEF x, y
  <2> QED BY <1>2, <2>1
<1>4. append(MessageSize, t, s) = IF x + y <= MessageSize THEN t \o s ELSE t
  BY <1>3 DEF append, append_ok, tail_size
<1>5. appendf(MessageSize, t, s) = IF x + y < MessageSize THEN t \o s ELSE t
  BY <1>3 DEF appendf, appendf_ok, tail_size
<1> QED BY <1>1, <1>3, <1>4, <1>5

(***************************************************************************)
(* The context is in the buffer, and all of it is if it leaves room for    *)
(* more.                                                                   *)
(***************************************************************************)
LEMMA SourceLemma ==
    ASSUME NEW c, c.func \in Nat
    PROVE  /\ SourceContext(c) \in Text
           /\ Len(SourceContext(c)) \in Nat /\ Len(SourceContext(c)) <= MessageSize
           /\ Len(Context(c)) < MessageSize => SourceContext(c) = Context(c)
<1> DEFINE name == append(MessageSize, <<>>, Name(c))
           at == IF Macros[c.f].line THEN appendf(MessageSize, name, AtLine) ELSE name
           context == append(MessageSize, at, Separator)
           place == IF Macros[c.f].line THEN AtLine ELSE <<>>
           named == Name(c) \o place
<1>1. <<>> \in Text /\ Len(<<>>) = 0 /\ 0 <= MessageSize /\ MessageSize \in Nat
  BY MessageAssumption DEF Text
<1>2. SourceContext(c) = IF c.func > 0 THEN context ELSE <<>>
  BY DEF SourceContext
<1>3. Context(c) = IF c.func = 0 THEN <<>> ELSE named \o Separator
  BY DEF Context
<1>4. /\ Name(c) \in Text /\ AtLine \in Text /\ Separator \in Text /\ Len(Separator) = 2
      /\ Len(Name(c)) = c.func
  BY ContextParts
<1>5. place \in Text
  BY <1>1, <1>4
<1>6. named \in Text /\ Len(named) = Len(Name(c)) + Len(place) /\ Len(place) \in Nat
  BY <1>4, <1>5, JoinLemma
<1>7. named \o Separator \in Text /\ Len(named \o Separator) = Len(named) + 2
  <2>1. named \in Text /\ Separator \in Text /\ Len(Separator) = 2
    BY <1>4, <1>6
  <2> HIDE DEF named
  <2>2. /\ named \o Separator \in Text
        /\ Len(named \o Separator) = Len(named) + Len(Separator)
    BY <2>1, JoinLemma
  <2> QED BY <2>1, <2>2
<1>8. name \in Text /\ Len(name) <= MessageSize
      /\ (c.func <= MessageSize => name = Name(c))
  <2>1. <<>> \o Name(c) = Name(c)
    BY <1>4, TextLemma
  <2>2. /\ name \in Text /\ Len(name) <= MessageSize
        /\ Len(<<>>) + Len(Name(c)) <= MessageSize => name = <<>> \o Name(c)
    BY <1>1, <1>4, AppendsInside
  <2> HIDE DEF name
  <2> QED BY <1>1, <1>4, <2>1, <2>2
<1>9. /\ at \in Text /\ Len(at) <= MessageSize
      /\ Len(named) < MessageSize => at = named
  <2> HIDE DEF name
  <2>1. CASE Macros[c.f].line
    <3>1. /\ at = appendf(MessageSize, name, AtLine) /\ place = AtLine
      BY <2>1
    <3>2. /\ at \in Text /\ Len(at) <= MessageSize
          /\ Len(name) + Len(AtLine) < MessageSize => at = name \o AtLine
      BY <1>4, <1>8, <3>1, AppendsInside
    <3>3. Len(AtLine) \in Nat
      BY <1>4 DEF Text
    <3>4. ASSUME Len(named) < MessageSize PROVE at = named
      <4>1. c.func + Len(AtLine) < MessageSize
        BY <1>4, <1>6, <3>1, <3>4
      <4>2. c.func <= MessageSize
        BY <1>1, <3>3, <4>1
      <4>3. name = Name(c)
        BY <1>8, <4>2
      <4> QED BY <1>4, <3>1, <3>2, <4>1, <4>3
    <3> QED BY <3>2, <3>4
  <2>2. CASE ~Macros[c.f].line
    <3>1. at = name /\ place = <<>>
      BY <2>2
    <3>2. Name(c) \o <<>> = Name(c)
      BY <1>4, TextLemma
    <3>3. ASSUME Len(named) < MessageSize PROVE at = named
      <4>1. named = Name(c)
        BY <3>1, <3>2
      <4>2. c.func <= MessageSize
        BY <1>1, <1>4, <3>3, <4>1
      <4> QED BY <1>8, <3>1, <4>1, <4>2
    <3> QED BY <1>8, <3>1, <3>3
  <2> QED BY <2>1, <2>2
<1> HIDE DEF at, named
<1>10. /\ context \in Text /\ Len(context) <= MessageSize
       /\ Len(at) + 2 <= MessageSize => context = at \o Separator
  BY <1>4, <1>9, AppendsInside
<1>11. ASSUME Len(named \o Separator) < MessageSize PROVE context = named \o Separator
  <2>1. Len(named) \in Nat
    BY <1>6 DEF Text
  <2>2. Len(named) + 2 < MessageSize
    BY <1>7, <1>11
  <2>3. Len(named) < MessageSize /\ Len(named) + 2 <= MessageSize
    BY <1>1, <2>1, <2>2
  <2> QED BY <1>9, <1>10, <2>3
<1> HIDE DEF context
<1>12. CASE c.func = 0
  BY <1>1, <1>2, <1>3, <1>12
<1>13. CASE c.func > 0
  <2>1. Len(context) \in Nat
    BY <1>10 DEF Text
  <2>2. SourceContext(c) = context /\ Context(c) = named \o Separator
    BY <1>2, <1>3, <1>13
  <2> QED BY <1>10, <1>11, <2>1, <2>2
<1> QED BY <1>12, <1>13

(***************************************************************************)
(* If the context leaves room for a message, the message after it is cut   *)
(* where the buffer ends.                                                  *)
(***************************************************************************)
LEMMA MessageLemma ==
    ASSUME NEW c, c.func \in Nat, c.fmt \in Seq(Kinds),
           c.fmt # <<>> => tail_size(MessageSize, SourceContext(c)) # 0
    PROVE  /\ log_buffer_trim(log_fmt(c)) \in Text
           /\ MessageRight(c, log_buffer_trim(log_fmt(c)))
<1> DEFINE msg == Chars("message", c.fmt)
           context == SourceContext(c)
           whole == IF c.fmt = <<>> THEN context ELSE appendv(MessageSize, context, msg)
           kinds == {"colon"} \cup Blank
           t == stripany(whole, kinds)
           all == context \o msg
           room == MessageSize - 1
<1>1. /\ context \in Text /\ Len(context) \in Nat /\ Len(context) <= MessageSize
      /\ Len(Context(c)) < MessageSize => context = Context(c)
  BY SourceLemma
<1>2. msg \in Text /\ Len(msg) \in Nat /\ Len(msg) = Len(c.fmt)
  <2>1. c.fmt \in Seq(CharKinds) /\ "message" \in Origins
    BY DEF CharKinds, Origins
  <2>2. msg \in Text /\ Len(msg) = Len(c.fmt)
    BY <2>1, CharsLemma
  <2> QED BY <2>2 DEF Text
<1>3. MessageSize \in Nat /\ room \in Nat
  BY MessageAssumption
<1>4. log_fmt(c) = t
  BY DEF log_fmt
<1>5. c.fmt # <<>> => Len(context) < MessageSize
  <2>1. c.fmt # <<>> => MessageSize - Len(context) # 0
    BY DEF tail_size
  <2> HIDE DEF context
  <2> QED BY <1>1, <1>3, <2>1
<1> HIDE DEF msg, context
<1>6. all \in Text /\ Len(all) = Len(context) + Len(msg)
  BY <1>1, <1>2, JoinLemma
<1>7. ASSUME Len(context) < MessageSize
      PROVE  whole = IF Len(all) > room THEN SubSeq(all, 1, room) ELSE all
  <2>1. CASE c.fmt = <<>>
    <3>1. Len(msg) = 0
      BY <1>2, <2>1
    <3>2. msg = <<>>
      BY <1>2, <3>1 DEF Text
    <3>3. all = context
      BY <1>1, <3>2, TextLemma
    <3>4. ~ (Len(context) > room)
      BY <1>1, <1>3, <1>7
    <3>5. whole = context
      BY <2>1
    <3> HIDE DEF whole, all, room
    <3> QED BY <3>3, <3>4, <3>5
  <2>2. CASE c.fmt # <<>> /\ Len(msg) < MessageSize - Len(context)
    <3>1. whole = all
      BY <2>2 DEF appendv, appendf_ok, tail_size
    <3>2. ~ (Len(all) > room)
      BY <1>1, <1>2, <1>3, <1>6, <2>2
    <3> HIDE DEF whole, all, room
    <3> QED BY <3>1, <3>2
  <2>3. CASE c.fmt # <<>> /\ ~ (Len(msg) < MessageSize - Len(context))
    <3> DEFINE n == MessageSize - Len(context) - 1
    <3>1. whole = context \o SubSeq(msg, 1, n)
      BY <2>3 DEF appendv, appendf_ok, tail_size
    <3>2. n \in Nat /\ n <= Len(msg) /\ Len(context) + n = room /\ Len(all) > room
      <4> DEFINE x == Len(context)
                 y == Len(msg)
                 z == Len(all)
      <4>1. x \in Nat /\ y \in Nat /\ x < MessageSize /\ ~ (y < MessageSize - x) /\ z = x + y
        BY <1>1, <1>2, <1>6, <1>7, <2>3
      <4>2. n = MessageSize - x - 1
        OBVIOUS
      <4> HIDE DEF x, y, z, n
      <4>3. n \in Nat /\ n <= y /\ x + n = MessageSize - 1 /\ z > MessageSize - 1
        BY <1>3, <4>1, <4>2
      <4> QED BY <4>3 DEF x, y, z
    <3> HIDE DEF n
    <3>3. SubSeq(all, 1, Len(context) + n) = context \o SubSeq(msg, 1, n)
      BY <1>1, <1>2, <3>2, CutLemma
    <3> HIDE DEF whole, all, room
    <3> QED BY <3>1, <3>2, <3>3
  <2> QED BY <2>1, <2>2, <2>3
<1> HIDE DEF all, room, kinds
<1>8. /\ whole \in Text
      /\ Len(context) < MessageSize => FromStart(t, all, room, kinds)
  <2>1. CASE Len(context) < MessageSize
    <3>1. whole = IF Len(all) > room THEN SubSeq(all, 1, room) ELSE all
      BY <1>7, <2>1
    <3> HIDE DEF whole
    <3> QED BY <1>3, <1>6, <3>1, FromStartLemma
  <2>2. CASE ~ (Len(context) < MessageSize)
    <3>1. whole = context
      BY <1>5, <2>2
    <3> QED BY <1>1, <2>2, <3>1
  <2> QED BY <2>1, <2>2
<1> HIDE DEF whole
<1>9. Stripped(t, whole, kinds)
  BY <1>8, StripLemma
<1> HIDE DEF t
<1>10. t \in Text
  BY <1>9 DEF Stripped
<1>11. log_buffer_trim(t) = t
  <2>1. t # <<>> => t[Len(t)][1] \notin Blank
    BY <1>9 DEF Stripped, kinds
  <2> QED BY <1>10, <2>1, StripNothing DEF log_buffer_trim
<1>12. MessageRight(c, t)
  <2>1. Blank \cup {"colon"} = kinds
    BY DEF kinds
  <2> QED BY <1>1, <1>8, <2>1 DEF MessageRight, all, room, msg
<1> QED BY <1>4, <1>10, <1>11, <1>12

----------------------------------------------------------------------------
(* The line.  The tree T is <<parent, prefix, prefixer, mask, backend,     *)
(* default_backend, changes>>: what holds of a call in it holds as long as *)
(* it does not change.                                                     *)

CallOK(c) ==
    /\ c.kind \in {"printf", "dump", "hexdump"}
    /\ c.log \in Nodes
    /\ c.f \in DOMAIN Macros
    /\ c.func \in Nat
    /\ c.fmt \in Seq(Kinds)
    /\ c.answer \in Int
    /\ c.suffix \in Nat

PassesIn(T, c) ==
    c.gate = {} \/ ERR \in c.gate \/ c.gate \cap MaskOf(T[1], T[4], c.log) # {}

\* The logger that gives the prefix.
PrefixingIn(T, c) == First(T[1], c.log, Prefixed(T[3], T[2]))

FaultyIn(T, c) ==
    LET l == PrefixingIn(T, c)
    IN  \/ l # NULL /\ T[3][l] /\ c.answer < 0
        \/ ~c.formats
        \/ c.fmt # <<>> /\ tail_size(MessageSize, SourceContext(c)) = 0

BackendIn(T, c) ==
    LET l == First(T[1], c.log, Backed(T[5])) IN IF l = NULL THEN T[6] ELSE T[5][l]

PrefixRight(T, c, pre) ==
    LET l == PrefixingIn(T, c)
    IN  IF l = NULL THEN pre = <<>>
        ELSE IF T[3][l] THEN Len(pre) = (IF c.answer > PrefixSize THEN 0 ELSE c.answer)
        ELSE Len(T[2][l]) # PrefixSize =>
                FromStart(pre, Chars(l, T[2][l]), PrefixSize - 1, Blank)

LineRight(T, c, line) ==
    line.to = BackendIn(T, c) /\ PrefixRight(T, c, line.prefix) /\ MessageRight(c, line.msg)

(***************************************************************************)
(* The logger that gives a prefix is a logger, and has one or the other.   *)
(***************************************************************************)
LEMMA GivesPrefix ==
    ASSUME TreeInv, NEW c, CallOK(c)
    PROVE  LET l == PrefixingIn(tree, c)
           IN  /\ Prefixing(c.log) = l
               /\ l # NULL => /\ l \in Loggers /\ prefixer[l] \in BOOLEAN
                              /\ ~prefixer[l] => prefix[l] \in Seq(Kinds)
<1> DEFINE S == Prefixed(prefixer, prefix)
           l == PrefixingIn(tree, c)
<1>1. l = First(parent, c.log, S)
  BY DEF PrefixingIn, tree
<1>2. Prefixing(c.log) = l
  BY <1>1, PrefixingLemma DEF CallOK
<1>3. S \in SUBSET Loggers /\ parent \in Parents
  BY DEF Prefixed, TreeInv
<1> HIDE DEF S, l
<1>4. l \in S \cup {NULL}
  BY <1>1, <1>3, FirstIsIn DEF CallOK
<1>5. ASSUME l # NULL
      PROVE  /\ l \in Loggers /\ prefixer[l] \in BOOLEAN
             /\ ~prefixer[l] => prefix[l] \in Seq(Kinds)
  <2>1. l \in Loggers /\ (prefixer[l] \/ prefix[l] # NULL)
    BY <1>4, <1>5 DEF S, Prefixed
  <2>2. prefixer[l] \in BOOLEAN /\ prefix[l] \in Seq(Kinds) \cup {NULL}
    BY <2>1 DEF TreeInv
  <2> QED BY <2>1, <2>2
<1> QED BY <1>2, <1>5 DEF l

(***************************************************************************)
(* The macros let through what the nearest mask does, and a call fails if  *)
(* its prefixer or vsnprintf() does, or has no room.                       *)
(***************************************************************************)
LEMMA PassesLemma ==
    ASSUME TreeInv, NEW c, CallOK(c)
    PROVE  /\ Passes(c) <=> PassesIn(tree, c)
           /\ LetsThrough(c.log, c.gate) <=> PassesIn(tree, c)
           /\ Faulty(c) <=> FaultyIn(tree, c)
<1>1. Passes(c) <=> PassesIn(tree, c)
  <2>1. sancus_logger_has_level(c.log, c.gate)
          <=> (c.gate = {} \/ ERR \in c.gate \/ c.gate \cap MaskOf(parent, mask, c.log) # {})
    BY LevelLemma DEF CallOK
  <2> QED BY <2>1 DEF Passes, PassesIn, tree
<1>2. LetsThrough(c.log, c.gate) <=> PassesIn(tree, c)
  <2>1. Nearest(c.log) = First(parent, c.log, Masked(mask))
    BY FirstInLemma DEF Nearest, Masked
  <2> QED BY <2>1 DEF LetsThrough, PassesIn, tree, MaskOf
<1>3. Faulty(c) <=> FaultyIn(tree, c)
  <2> DEFINE l == PrefixingIn(tree, c)
             n == log_ctx_prefix(c.log, c.answer)
  <2>1. n = IF l = NULL THEN 0
            ELSE IF prefixer[l] THEN c.answer
            ELSE IF PrefixSize < Len(prefix[l]) THEN PrefixSize - 1
            ELSE Len(prefix[l])
    BY GivesPrefix DEF log_ctx_prefix
  <2>2. l # NULL /\ ~prefixer[l] => Len(prefix[l]) \in Nat
    BY GivesPrefix
  <2>3. PrefixSize \in Nat \ {0, 1} /\ c.answer \in Int
    BY PrefixAssumption DEF CallOK
  <2> HIDE DEF l, n
  <2>4. n < 0 <=> l # NULL /\ prefixer[l] /\ c.answer < 0
    BY <2>1, <2>2, <2>3
  <2> QED BY <2>4 DEF Faulty, FaultyIn, tree, l, n
<1> QED BY <1>1, <1>2, <1>3

(***************************************************************************)
(* A call that does not fail has the nearest prefix.                       *)
(***************************************************************************)
LEMMA PrefixLemma ==
    ASSUME TreeInv, NEW c, CallOK(c), ~FaultyIn(tree, c)
    PROVE  LET pre == log_buffer_trim(log_ctx_prefix2(c.log, c.answer))
           IN  pre \in Text /\ PrefixRight(tree, c, pre)
<1> DEFINE l == PrefixingIn(tree, c)
           n == log_ctx_prefix(c.log, c.answer)
           buffer == log_ctx_prefix2(c.log, c.answer)
           pre == log_buffer_trim(buffer)
<1>1. n = IF l = NULL THEN 0
          ELSE IF prefixer[l] THEN c.answer
          ELSE IF PrefixSize < Len(prefix[l]) THEN PrefixSize - 1
          ELSE Len(prefix[l])
  BY GivesPrefix DEF log_ctx_prefix
<1>2. buffer = IF n > 0 /\ n <= PrefixSize
               THEN SubSeq(Chars(l, IF prefixer[l] THEN Solid(n) ELSE prefix[l]), 1, n)
               ELSE <<>>
  BY GivesPrefix DEF log_ctx_prefix2, PrefixOf
<1>3. /\ PrefixSize \in Nat \ {0, 1} /\ c.answer \in Int
      /\ l # NULL /\ prefixer[l] => ~ (c.answer < 0)
      /\ l # NULL => l \in Origins /\ prefixer[l] \in BOOLEAN
      /\ l # NULL /\ ~prefixer[l] =>
            prefix[l] \in Seq(Kinds) /\ Len(prefix[l]) \in Nat
  <2>1. tree[3] = prefixer
    BY DEF tree
  <2>2. l # NULL /\ prefixer[l] => ~ (c.answer < 0)
    BY <2>1 DEF FaultyIn
  <2>3. PrefixSize \in Nat \ {0, 1} /\ c.answer \in Int
    BY PrefixAssumption DEF CallOK
  <2>4. /\ l # NULL => l \in Loggers /\ prefixer[l] \in BOOLEAN
        /\ l # NULL /\ ~prefixer[l] => prefix[l] \in Seq(Kinds)
    BY GivesPrefix
  <2> HIDE DEF l
  <2> QED BY <2>2, <2>3, <2>4 DEF Origins
<1>4. <<>> \in Text /\ log_buffer_trim(<<>>) = <<>> /\ Len(<<>>) = 0
  <2>1. <<>> \in Text
    BY DEF Text
  <2> QED BY <2>1, StripNothing DEF log_buffer_trim
<1>5. \A pr : PrefixRight(tree, c, pr) <=>
         IF l = NULL THEN pr = <<>>
         ELSE IF prefixer[l] THEN Len(pr) = (IF c.answer > PrefixSize THEN 0 ELSE c.answer)
         ELSE Len(prefix[l]) # PrefixSize =>
                 FromStart(pr, Chars(l, prefix[l]), PrefixSize - 1, Blank)
  BY DEF PrefixRight, tree
<1> HIDE DEF l, n, buffer
<1>6. CASE l = NULL
  <2>1. buffer = <<>>
    BY <1>1, <1>2, <1>6
  <2> QED BY <1>4, <1>5, <1>6, <2>1 DEF buffer
<1>7. CASE l # NULL /\ prefixer[l]
  <2>1. n = c.answer /\ n \in Nat
    BY <1>1, <1>3, <1>7
  <2>2. CASE n > 0 /\ n <= PrefixSize
    <3> DEFINE s == Solid(n)
               t == Chars(l, s)
    <3>1. s \in Seq(CharKinds) /\ Len(s) = n /\ s[n] = "solid"
      <4>1. s \in Seq(Kinds) /\ Len(s) = n
        BY <2>1, StaticPrefixLemma
      <4>2. s[n] = "solid"
        BY <2>1, <2>2 DEF Solid
      <4> HIDE DEF s
      <4> QED BY <4>1, <4>2 DEF CharKinds
    <3>2. t \in Text /\ Len(t) = n /\ t[n][1] = "solid"
      <4> HIDE DEF s
      <4> QED BY <1>3, <1>7, <2>1, <2>2, <3>1, CharsLemma
    <3>3. buffer = SubSeq(t, 1, n)
      BY <1>2, <1>7, <2>2
    <3> HIDE DEF t
    <3>4. buffer = t
      BY <3>2, <3>3, SubSeqFull DEF Text
    <3>5. log_buffer_trim(t) = t
      <4>1. "solid" \notin Blank
        BY DEF Blank
      <4> QED BY <3>2, <4>1, StripNothing DEF log_buffer_trim
    <3>6. Len(t) = IF c.answer > PrefixSize THEN 0 ELSE c.answer
      BY <1>3, <2>1, <2>2, <3>2
    <3>7. pre = t
      BY <3>4, <3>5
    <3> HIDE DEF pre
    <3> QED BY <1>5, <1>7, <3>2, <3>6, <3>7 DEF pre, buffer
  <2>3. CASE ~ (n > 0 /\ n <= PrefixSize)
    <3>1. buffer = <<>>
      BY <1>2, <2>3
    <3>2. 0 = IF c.answer > PrefixSize THEN 0 ELSE c.answer
      BY <1>3, <2>1, <2>3
    <3> QED BY <1>4, <1>5, <1>7, <3>1, <3>2 DEF buffer
  <2> QED BY <2>2, <2>3
<1>8. CASE l # NULL /\ ~prefixer[l]
  <2> DEFINE s == prefix[l]
             t == Chars(l, s)
             room == PrefixSize - 1
             whole == IF Len(t) > room THEN SubSeq(t, 1, room) ELSE t
  <2>1. s \in Seq(CharKinds) /\ Len(s) \in Nat
    BY <1>3, <1>8 DEF CharKinds
  <2> HIDE DEF s
  <2>2. t \in Text /\ Len(t) = Len(s)
    BY <1>3, <1>8, <2>1, CharsLemma
  <2>3. n = (IF PrefixSize < Len(s) THEN PrefixSize - 1 ELSE Len(s)) /\ n \in Nat /\ room \in Nat
    BY <1>1, <1>3, <1>8, <2>1 DEF s
  <2>4. buffer = IF n > 0 /\ n <= PrefixSize THEN SubSeq(t, 1, n) ELSE <<>>
    BY <1>2, <1>8 DEF s
  <2>5. SubSeq(t, 1, Len(t)) = t /\ (Len(t) = 0 => t = <<>>)
    BY <2>2, SubSeqFull DEF Text
  <2> HIDE DEF t
  <2>6. ASSUME Len(s) # PrefixSize PROVE buffer = whole
    <3>1. CASE PrefixSize < Len(s)
      <4>1. n = room /\ n > 0 /\ n <= PrefixSize /\ Len(t) > room
        BY <1>3, <2>1, <2>2, <2>3, <3>1
      <4> HIDE DEF room
      <4> QED BY <2>4, <4>1
    <3>2. CASE ~ (PrefixSize < Len(s))
      <4>1. n = Len(t) /\ n <= PrefixSize /\ ~ (Len(t) > room)
        BY <1>3, <2>1, <2>2, <2>3, <2>6, <3>2
      <4>2. CASE n > 0
        BY <2>4, <2>5, <4>1, <4>2
      <4>3. CASE n = 0
        BY <2>4, <2>5, <4>1, <4>3
      <4>4. n > 0 \/ n = 0
        <5>1. n \in Nat
          BY <2>3
        <5> HIDE DEF room
        <5> QED BY ONLY <5>1
      <4> HIDE DEF whole
      <4> QED BY <4>2, <4>3, <4>4
    <3> QED BY <3>1, <3>2
  <2>7. stripany(whole, Blank) \in Text /\ FromStart(stripany(whole, Blank), t, room, Blank)
    <3> HIDE DEF room
    <3> QED BY <2>2, <2>3, FromStartLemma
  <2>8. CASE Len(s) # PrefixSize
    <3>1. pre = stripany(whole, Blank)
      BY <2>6, <2>8 DEF log_buffer_trim
    <3> HIDE DEF pre, whole
    <3> QED BY <1>5, <1>8, <2>7, <3>1 DEF pre, buffer, t, s, room
  <2>9. CASE Len(s) = PrefixSize
    <3>1. n = Len(t) /\ n > 0 /\ n <= PrefixSize
      BY <1>3, <2>2, <2>3, <2>9
    <3>2. buffer = t
      BY <2>4, <2>5, <3>1
    <3>3. pre \in Text
      BY <2>2, <3>2, StripLemma DEF log_buffer_trim, Stripped
    <3> HIDE DEF pre
    <3> QED BY <1>5, <1>8, <2>9, <3>3 DEF pre, buffer, s
  <2> QED BY <2>8, <2>9
<1> QED BY <1>3, <1>6, <1>7, <1>8

Line == [to : Loggers \cup {"fd", "common"}, prefix : Text, msg : Text, data : Text]

(***************************************************************************)
(* The line of a call that does not fail is right, and written unless all  *)
(* of it is empty.                                                         *)
(***************************************************************************)
LEMMA WrittenLemma ==
    ASSUME TreeInv, NEW c, CallOK(c), ~FaultyIn(tree, c), NEW dbuf \in Text
    PROVE  \E line \in Line :
              /\ LineRight(tree, c, line)
              /\ line.data = log_buffer_trim(dbuf)
              /\ \/ Written(c, dbuf) = <<line>>
                 \/ /\ Written(c, dbuf) = <<>>
                    /\ line.prefix = <<>> /\ line.msg = <<>> /\ line.data = <<>>
<1> DEFINE to == log_find_backend(c.log, default_backend)
           pre == log_buffer_trim(log_ctx_prefix2(c.log, c.answer))
           msg == log_buffer_trim(log_fmt(c))
           dat == log_buffer_trim(dbuf)
           line == [to |-> to, prefix |-> pre, msg |-> msg, data |-> dat]
<1>1. Written(c, dbuf) = IF line.prefix \o line.msg \o line.data = <<>> THEN <<>> ELSE <<line>>
  BY DEF Written, log_write
<1>2. pre \in Text /\ PrefixRight(tree, c, pre)
  BY PrefixLemma
<1>3. msg \in Text /\ MessageRight(c, msg)
  BY MessageLemma DEF CallOK, FaultyIn
<1>4. dat \in Text
  BY StripLemma DEF Stripped, log_buffer_trim
<1>5. to = BackendIn(tree, c) /\ to \in Loggers \cup {"fd", "common"}
  <2> DEFINE l == First(parent, c.log, Backed(backend))
  <2>1. to = IF l = NULL THEN default_backend ELSE backend[l]
    BY FindLemma DEF CallOK
  <2>2. BackendIn(tree, c) = IF l = NULL THEN default_backend ELSE backend[l]
    BY DEF BackendIn, tree
  <2>3. l \in Backed(backend) \cup {NULL}
    <3>1. Backed(backend) \in SUBSET Loggers /\ parent \in Parents
      BY DEF Backed, TreeInv
    <3> QED BY <3>1, FirstIsIn DEF CallOK
  <2> HIDE DEF to, l
  <2>4. l # NULL => backend[l] \in Loggers
    BY <2>3 DEF Backed, TreeInv
  <2> QED BY <2>1, <2>2, <2>4 DEF TreeInv
<1> HIDE DEF to, pre, msg, dat
<1>6. line \in Line /\ line.to = to /\ line.prefix = pre /\ line.msg = msg /\ line.data = dat
  BY <1>2, <1>3, <1>4, <1>5 DEF Line
<1> HIDE DEF line
<1>7. LineRight(tree, c, line)
  BY <1>2, <1>3, <1>5, <1>6 DEF LineRight
<1>8. pre \o msg \o dat = <<>> => pre = <<>> /\ msg = <<>> /\ dat = <<>>
  <2>1. pre \o msg \in Text /\ Len(pre \o msg) = Len(pre) + Len(msg)
    BY <1>2, <1>3, JoinLemma
  <2> DEFINE pm == pre \o msg
  <2>2. pm \in Text
    BY <2>1
  <2> HIDE DEF pm
  <2>3. Len(pm \o dat) = Len(pm) + Len(dat)
    BY <1>4, <2>2, JoinLemma
  <2>4. /\ Len(pre) \in Nat /\ Len(msg) \in Nat /\ Len(dat) \in Nat /\ Len(<<>>) = 0
        /\ Len(pre) = 0 => pre = <<>>
        /\ Len(msg) = 0 => msg = <<>>
        /\ Len(dat) = 0 => dat = <<>>
    BY <1>2, <1>3, <1>4 DEF Text
  <2>5. SUFFICES ASSUME pm \o dat = <<>>
                 PROVE  pre = <<>> /\ msg = <<>> /\ dat = <<>>
    BY DEF pm
  <2>6. Len(pre) + Len(msg) + Len(dat) = 0
    BY <2>1, <2>3, <2>4, <2>5 DEF pm
  <2> QED BY <2>4, <2>6
<1>9. \/ Written(c, dbuf) = <<line>>
      \/ /\ Written(c, dbuf) = <<>>
         /\ line.prefix = <<>> /\ line.msg = <<>> /\ line.data = <<>>
  BY <1>1, <1>6, <1>8
<1> QED BY <1>6, <1>7, <1>9 DEF dat

----------------------------------------------------------------------------
(* The lines of a hexdump.                                                 *)

\* g is what a buffer has after each of n pieces, added where there is room.
Appender(g, t, P, n, room) ==
    /\ g \in [0 .. n -> Plain]
    /\ g[0] = t
    /\ \A k \in 1 .. n :
          g[k] = IF Len(g[k - 1]) + Len(P[k]) <= room THEN g[k - 1] \o P[k] ELSE g[k - 1]

(***************************************************************************)
(* Plain text put together is plain.                                       *)
(***************************************************************************)
LEMMA PlainJoin ==
    ASSUME NEW s \in Plain, NEW t \in Plain
    PROVE  /\ s \o t \in Plain /\ Len(s) \in Nat /\ Len(t) \in Nat
           /\ Len(s \o t) = Len(s) + Len(t)
           /\ s \o <<>> = s /\ <<>> \o s = s
<1> DEFINE C == PlainChar
<1>1. s \in Seq(C) /\ t \in Seq(C)
  BY DEF Plain
<1> HIDE DEF C
<1>2. s \o t \in Seq(C) /\ Len(s \o t) = Len(s) + Len(t) /\ Len(s) \in Nat /\ Len(t) \in Nat
  BY <1>1, ConcatProperties
<1>3. s \o <<>> = s /\ <<>> \o s = s
  BY <1>1, ConcatEmptySeq
<1> QED BY <1>2, <1>3 DEF Plain, C

(***************************************************************************)
(* There is a function that does what the appenders' recursion says.       *)
(***************************************************************************)
LEMMA AppenderExists ==
    ASSUME NEW t \in Plain, NEW n \in Nat, NEW P \in [1 .. n -> Plain], NEW room
    PROVE  \E g : Appender(g, t, P, n, room)
<1> DEFINE Add(b, k) == IF Len(b) + Len(P[k]) <= room THEN b \o P[k] ELSE b
           step == [k \in 1 .. n |-> [b \in Plain |-> Add(b, k)]]
<1>1. ASSUME NEW k \in 1 .. n, NEW b \in Plain PROVE Add(b, k) \in Plain
  <2>1. P[k] \in Plain
    OBVIOUS
  <2> QED BY <2>1, PlainJoin
<1> HIDE DEF Add
<1>2. step \in [1 .. n -> [Plain -> Plain]]
  BY <1>1
<1>3. \A k \in 1 .. n : \A b \in Plain : step[k][b] = Add(b, k)
  OBVIOUS
<1> HIDE DEF step
<1>4. PICK g : Follows(g, Plain, t, n, step)
  BY <1>2, RecursionExists
<1>5. /\ g \in [0 .. n -> Plain] /\ g[0] = t
      /\ \A k \in 1 .. n : g[k] = step[k][g[k - 1]]
  BY <1>4 DEF Follows
<1>6. \A k \in 1 .. n : g[k - 1] \in Plain
  BY <1>5
<1>7. \A k \in 1 .. n : g[k] = Add(g[k - 1], k)
  BY <1>3, <1>5, <1>6
<1> QED BY <1>5, <1>7 DEF Appender, Add

\* r is t and all of the pieces, if there is room for them.
AllAdded(r, t, P, n, size, room) ==
    /\ r \in Plain
    /\ FlattenSeq(P) \in Plain
    /\ Len(t) + size * n <= room =>
          r = t \o FlattenSeq(P) /\ Len(r) = Len(t) + size * n

(***************************************************************************)
(* Pieces of the same size for which there is room are all added.          *)
(***************************************************************************)
LEMMA AppenderResult ==
    ASSUME NEW t \in Plain, NEW n \in Nat, NEW P \in [1 .. n -> Plain], NEW room \in Int,
           NEW g, Appender(g, t, P, n, room),
           NEW size \in {1, 3}, \A k \in 1 .. n : Len(P[k]) = size
    PROVE  AllAdded(g[n], t, P, n, size, room)
<1> DEFINE Right(k) == g[k] = t \o Flat(P, k) /\ Len(g[k]) = Len(t) + size * k
           S == {k \in 0 .. n : Right(k)}
<1>1. /\ \A k \in 0 .. n : g[k] \in Plain
      /\ g[0] = t
      /\ \A k \in 1 .. n :
            g[k] = IF Len(g[k - 1]) + Len(P[k]) <= room THEN g[k - 1] \o P[k] ELSE g[k - 1]
  BY DEF Appender
<1>2. /\ Flat(P, 0) = <<>>
      /\ \A k \in 0 .. n : Flat(P, k) \in Plain
      /\ \A k \in 1 .. n : Flat(P, k) = Flat(P, k - 1) \o P[k]
  <2>1. P \in [1 .. n -> Seq(PlainChar)]
    BY DEF Plain
  <2> QED BY <2>1, FlatLemma DEF Plain
<1>3. Flat(P, n) = FlattenSeq(P)
  <2>1. [i \in 1 .. n |-> P[i]] = P
    OBVIOUS
  <2> QED BY <2>1 DEF Flat
<1>4. n \in 0 .. n /\ Len(t) \in Nat
  BY DEF Plain
<1>5. ASSUME Len(t) + size * n <= room PROVE Right(n)
  <2>1. 0 \in S
    <3>1. t \o <<>> = t /\ size * 0 = 0
      BY PlainJoin
    <3>2. g[0] = t \o Flat(P, 0)
      BY <1>1, <1>2, <3>1
    <3>3. Len(g[0]) = Len(t) + size * 0
      <4>1. Len(t) = Len(t) + 0
        BY <1>4
      <4> QED BY <1>1, <3>1, <4>1
    <3> QED BY <3>2, <3>3
  <2>2. ASSUME NEW k \in 1 .. n, k - 1 \in S PROVE k \in S
    <3>1. k - 1 \in 0 .. n /\ Right(k - 1)
      BY <2>2
    <3>2. g[k - 1] \in Plain /\ P[k] \in Plain /\ Flat(P, k - 1) \in Plain
      BY <1>1, <1>2, <3>1
    <3>3. Len(P[k]) = size
      OBVIOUS
    <3>4. Len(g[k - 1]) = Len(t) + size * (k - 1)
      BY <3>1
    <3>5. Len(t) + size * (k - 1) + size = Len(t) + size * k
          /\ Len(t) + size * (k - 1) + size <= room
      <4>1. CASE size = 1
        BY <1>4, <1>5, <4>1
      <4>2. CASE size = 3
        BY <1>4, <1>5, <4>2
      <4> QED BY <4>1, <4>2
    <3>6. g[k] = g[k - 1] \o P[k]
      <4>1. Len(g[k - 1]) + Len(P[k]) <= room
        BY <3>3, <3>4, <3>5
      <4> QED BY <1>1, <4>1
    <3>7. Len(g[k]) = Len(t) + size * k
      <4>1. Len(g[k]) = Len(g[k - 1]) + Len(P[k])
        BY <3>2, <3>6, PlainJoin
      <4> QED BY <3>3, <3>4, <3>5, <4>1
    <3>8. g[k] = t \o Flat(P, k)
      <4> DEFINE E == Flat(P, k - 1)
                 e == P[k]
      <4>1. t \in Text /\ E \in Text /\ e \in Text
        BY <3>2, PlainLemma
      <4>2. g[k] = (t \o E) \o e /\ Flat(P, k) = E \o e
        BY <1>2, <3>1, <3>6
      <4> HIDE DEF E, e
      <4>3. (t \o E) \o e = t \o (E \o e)
        BY <4>1, TextLemma
      <4> QED BY <4>2, <4>3
    <3>9. Right(k)
      BY <3>7, <3>8
    <3> HIDE DEF Right
    <3> QED BY <3>9
  <2>3. \A k \in 1 .. n : k - 1 \in S => k \in S
    BY <2>2
  <2>4. \A k \in 0 .. n : k \in S
    <3> HIDE DEF S
    <3> QED BY <2>1, <2>3, InductionUpTo, Zenon
  <2> HIDE DEF Right
  <2> QED BY <1>4, <2>4
<1> QED BY <1>1, <1>2, <1>3, <1>4, <1>5 DEF AllAdded

(***************************************************************************)
(* The bytes in hexadecimal, where there is room.                          *)
(***************************************************************************)
LEMMA HexLemma ==
    ASSUME NEW t \in Plain, NEW from \in Nat, NEW n \in Nat
    PROVE  LET P == [k \in 1 .. n |-> Piece("hex", from + k, 3)]
           IN  /\ Hex(t, from, n) \in Plain
               /\ FlattenSeq(P) \in Plain
               /\ Len(t) + 3 * n <= Size - 1 =>
                     /\ Hex(t, from, n) = t \o FlattenSeq(P)
                     /\ Len(Hex(t, from, n)) = Len(t) + 3 * n
<1> DEFINE P == [k \in 1 .. n |-> Piece("hex", from + k, 3)]
           size == 3
           room == Size - 1
           Is(f) ==
             f = [k \in 0 .. n |->
                    IF k = 0 THEN t
                    ELSE IF Len(Piece("hex", from + k, 3)) < Size - Len(f[k - 1])
                    THEN f[k - 1] \o Piece("hex", from + k, 3)
                    ELSE f[k - 1]]
           after == CHOOSE f : Is(f)
<1>1. /\ P \in [1 .. n -> Plain]
      /\ \A k \in 1 .. n : P[k] = Piece("hex", from + k, 3) /\ Len(P[k]) = size
  <2>1. "hex" \in CharKinds \ {"quote"} /\ 0 \in Nat /\ size \in Nat
    BY DEF CharKinds
  <2>2. ASSUME NEW k \in 1 .. n
        PROVE  Piece("hex", from + k, 3) \in Plain /\ Len(Piece("hex", from + k, 3)) = size
    <3>1. from + k \in Nat
      OBVIOUS
    <3> QED BY <2>1, <3>1, PlainLemma
  <2> QED BY <2>2
<1>2. size \in {1, 3} /\ room \in Int /\ Size \in Int
  BY SizeAssumption
<1> HIDE DEF P
<1>3. PICK g : Appender(g, t, P, n, room)
  <2> HIDE DEF room
  <2> QED BY <1>1, AppenderExists
<1>4. /\ \A k \in 0 .. n : g[k] \in Plain
      /\ g[0] = t
      /\ \A k \in 1 .. n :
            g[k] = IF Len(g[k - 1]) + Len(P[k]) <= room THEN g[k - 1] \o P[k] ELSE g[k - 1]
      /\ g = [k \in 0 .. n |-> g[k]]
  BY <1>3 DEF Appender
<1>5. ASSUME NEW k \in 1 .. n
      PROVE  g[k] = IF Len(Piece("hex", from + k, 3)) < Size - Len(g[k - 1])
                    THEN g[k - 1] \o Piece("hex", from + k, 3)
                    ELSE g[k - 1]
  <2>1. k - 1 \in 0 .. n /\ P[k] = Piece("hex", from + k, 3) /\ Len(P[k]) = size
    BY <1>1
  <2>2. Len(g[k - 1]) \in Nat
    BY <1>4, <2>1 DEF Plain
  <2> DEFINE x == Len(g[k - 1])
             y == Len(P[k])
  <2>3. x + y <= room <=> y < Size - x
    <3>1. x \in Nat /\ y = size
      BY <2>1, <2>2
    <3> HIDE DEF x, y
    <3> QED BY <1>2, <3>1
  <2> HIDE DEF room
  <2> QED BY <1>4, <2>1, <2>3
<1>6. \A k \in 1 .. n : k - 1 \in 0 .. n /\ k \in 0 .. n /\ k # 0
  OBVIOUS
<1>7. Is(g)
  <2>1. ASSUME NEW k \in 0 .. n
        PROVE  g[k] = IF k = 0 THEN t
                      ELSE IF Len(Piece("hex", from + k, 3)) < Size - Len(g[k - 1])
                      THEN g[k - 1] \o Piece("hex", from + k, 3)
                      ELSE g[k - 1]
    <3>1. CASE k = 0
      BY <1>4, <3>1
    <3>2. CASE k # 0
      <4>1. k \in 1 .. n
        BY <3>2
      <4> QED BY <1>5, <3>2, <4>1
    <3> QED BY <3>1, <3>2
  <2> QED BY <1>4, <2>1
<1>8. Is(after)
  <2> HIDE DEF Is
  <2> QED BY <1>7
<1>9. Hex(t, from, n) = after[n]
  BY DEF Hex, EachOf, appendf, appendf_ok, tail_size
<1> HIDE DEF after
<1>10. after[0] = t
  BY <1>8
<1>11. ASSUME NEW k \in 1 .. n, after[k - 1] = g[k - 1] PROVE after[k] = g[k]
  <2>1. after[k] = IF Len(Piece("hex", from + k, 3)) < Size - Len(after[k - 1])
                   THEN after[k - 1] \o Piece("hex", from + k, 3)
                   ELSE after[k - 1]
    BY <1>6, <1>8
  <2> HIDE DEF Is
  <2> QED BY <1>5, <1>11, <2>1
<1> HIDE DEF Is
<1>12. after[n] = g[n]
  <2> DEFINE S == {k \in 0 .. n : after[k] = g[k]}
  <2>1. 0 \in S
    <3>1. after[0] = g[0] /\ 0 \in 0 .. n
      BY <1>4, <1>10
    <3> QED BY <3>1
  <2>2. \A k \in 1 .. n : k - 1 \in S => k \in S
    BY <1>11
  <2>3. \A k \in 0 .. n : k \in S
    <3> HIDE DEF S
    <3> QED BY <2>1, <2>2, InductionUpTo, Zenon
  <2> QED BY <2>3
<1>13. AllAdded(g[n], t, P, n, size, room)
  <2>1. \A k \in 1 .. n : Len(P[k]) = size
    BY <1>1
  <2> HIDE DEF size, room
  <2> QED BY <1>1, <1>2, <1>3, <2>1, AppenderResult
<1> QED BY <1>9, <1>12, <1>13 DEF P, AllAdded

(***************************************************************************)
(* The padding of a line, where there is room.                             *)
(***************************************************************************)
LEMMA PaddingLemma ==
    ASSUME NEW t \in Plain, NEW n \in Nat
    PROVE  LET P == [k \in 1 .. n |-> Piece("pad", 0, 3)]
           IN  /\ Padding(t, n) \in Plain
               /\ FlattenSeq(P) \in Plain
               /\ Len(t) + 3 * n <= Size =>
                     /\ Padding(t, n) = t \o FlattenSeq(P)
                     /\ Len(Padding(t, n)) = Len(t) + 3 * n
<1> DEFINE P == [k \in 1 .. n |-> Piece("pad", 0, 3)]
           size == 3
           room == Size
           Is(f) ==
             f = [k \in 0 .. n |->
                    IF k = 0 THEN t
                    ELSE IF Len(Piece("pad", 0, 3)) <= Size - Len(f[k - 1])
                    THEN f[k - 1] \o Piece("pad", 0, 3)
                    ELSE f[k - 1]]
           after == CHOOSE f : Is(f)
<1>1. /\ P \in [1 .. n -> Plain]
      /\ \A k \in 1 .. n : P[k] = Piece("pad", 0, 3) /\ Len(P[k]) = size
  <2>1. "pad" \in CharKinds \ {"quote"} /\ 0 \in Nat /\ size \in Nat
    BY DEF CharKinds
  <2>2. ASSUME NEW k \in 1 .. n
        PROVE  Piece("pad", 0, 3) \in Plain /\ Len(Piece("pad", 0, 3)) = size
    <3>1. 0 \in Nat
      OBVIOUS
    <3> QED BY <2>1, <3>1, PlainLemma
  <2> QED BY <2>2
<1>2. size \in {1, 3} /\ room \in Int /\ Size \in Int
  BY SizeAssumption
<1> HIDE DEF P
<1>3. PICK g : Appender(g, t, P, n, room)
  <2> HIDE DEF room
  <2> QED BY <1>1, AppenderExists
<1>4. /\ \A k \in 0 .. n : g[k] \in Plain
      /\ g[0] = t
      /\ \A k \in 1 .. n :
            g[k] = IF Len(g[k - 1]) + Len(P[k]) <= room THEN g[k - 1] \o P[k] ELSE g[k - 1]
      /\ g = [k \in 0 .. n |-> g[k]]
  BY <1>3 DEF Appender
<1>5. ASSUME NEW k \in 1 .. n
      PROVE  g[k] = IF Len(Piece("pad", 0, 3)) <= Size - Len(g[k - 1])
                    THEN g[k - 1] \o Piece("pad", 0, 3)
                    ELSE g[k - 1]
  <2>1. k - 1 \in 0 .. n /\ P[k] = Piece("pad", 0, 3) /\ Len(P[k]) = size
    BY <1>1
  <2>2. Len(g[k - 1]) \in Nat
    BY <1>4, <2>1 DEF Plain
  <2> DEFINE x == Len(g[k - 1])
             y == Len(P[k])
  <2>3. x + y <= room <=> y <= Size - x
    <3>1. x \in Nat /\ y = size
      BY <2>1, <2>2
    <3> HIDE DEF x, y
    <3> QED BY <1>2, <3>1
  <2> HIDE DEF room
  <2> QED BY <1>4, <2>1, <2>3
<1>6. \A k \in 1 .. n : k - 1 \in 0 .. n /\ k \in 0 .. n /\ k # 0
  OBVIOUS
<1>7. Is(g)
  <2>1. ASSUME NEW k \in 0 .. n
        PROVE  g[k] = IF k = 0 THEN t
                      ELSE IF Len(Piece("pad", 0, 3)) <= Size - Len(g[k - 1])
                      THEN g[k - 1] \o Piece("pad", 0, 3)
                      ELSE g[k - 1]
    <3>1. CASE k = 0
      BY <1>4, <3>1
    <3>2. CASE k # 0
      <4>1. k \in 1 .. n
        BY <3>2
      <4> QED BY <1>5, <3>2, <4>1
    <3> QED BY <3>1, <3>2
  <2> QED BY <1>4, <2>1
<1>8. Is(after)
  <2> HIDE DEF Is
  <2> QED BY <1>7
<1>9. Padding(t, n) = after[n]
  BY DEF Padding, EachOf, append, append_ok, tail_size
<1> HIDE DEF after
<1>10. after[0] = t
  BY <1>8
<1>11. ASSUME NEW k \in 1 .. n, after[k - 1] = g[k - 1] PROVE after[k] = g[k]
  <2>1. after[k] = IF Len(Piece("pad", 0, 3)) <= Size - Len(after[k - 1])
                   THEN after[k - 1] \o Piece("pad", 0, 3)
                   ELSE after[k - 1]
    BY <1>6, <1>8
  <2> HIDE DEF Is
  <2> QED BY <1>5, <1>11, <2>1
<1> HIDE DEF Is
<1>12. after[n] = g[n]
  <2> DEFINE S == {k \in 0 .. n : after[k] = g[k]}
  <2>1. 0 \in S
    <3>1. after[0] = g[0] /\ 0 \in 0 .. n
      BY <1>4, <1>10
    <3> QED BY <3>1
  <2>2. \A k \in 1 .. n : k - 1 \in S => k \in S
    BY <1>11
  <2>3. \A k \in 0 .. n : k \in S
    <3> HIDE DEF S
    <3> QED BY <2>1, <2>2, InductionUpTo, Zenon
  <2> QED BY <2>3
<1>13. AllAdded(g[n], t, P, n, size, room)
  <2>1. \A k \in 1 .. n : Len(P[k]) = size
    BY <1>1
  <2> HIDE DEF size, room
  <2> QED BY <1>1, <1>2, <1>3, <2>1, AppenderResult
<1> QED BY <1>9, <1>12, <1>13 DEF P, AllAdded

(***************************************************************************)
(* The bytes as characters, where there is room.                           *)
(***************************************************************************)
LEMMA AsciiLemma ==
    ASSUME NEW t \in Plain, NEW from \in Nat, NEW n \in Nat
    PROVE  LET P == [k \in 1 .. n |-> Piece("ascii", from + k, 1)]
           IN  /\ Ascii(t, from, n) \in Plain
               /\ FlattenSeq(P) \in Plain
               /\ Len(t) + 1 * n <= Size =>
                     /\ Ascii(t, from, n) = t \o FlattenSeq(P)
                     /\ Len(Ascii(t, from, n)) = Len(t) + 1 * n
<1> DEFINE P == [k \in 1 .. n |-> Piece("ascii", from + k, 1)]
           size == 1
           room == Size
           Is(f) ==
             f = [k \in 0 .. n |->
                    IF k = 0 THEN t
                    ELSE IF Len(Piece("ascii", from + k, 1)) <= Size - Len(f[k - 1])
                    THEN f[k - 1] \o Piece("ascii", from + k, 1)
                    ELSE f[k - 1]]
           after == CHOOSE f : Is(f)
<1>1. /\ P \in [1 .. n -> Plain]
      /\ \A k \in 1 .. n : P[k] = Piece("ascii", from + k, 1) /\ Len(P[k]) = size
  <2>1. "ascii" \in CharKinds \ {"quote"} /\ 0 \in Nat /\ size \in Nat
    BY DEF CharKinds
  <2>2. ASSUME NEW k \in 1 .. n
        PROVE  Piece("ascii", from + k, 1) \in Plain /\ Len(Piece("ascii", from + k, 1)) = size
    <3>1. from + k \in Nat
      OBVIOUS
    <3> QED BY <2>1, <3>1, PlainLemma
  <2> QED BY <2>2
<1>2. size \in {1, 3} /\ room \in Int /\ Size \in Int
  BY SizeAssumption
<1> HIDE DEF P
<1>3. PICK g : Appender(g, t, P, n, room)
  <2> HIDE DEF room
  <2> QED BY <1>1, AppenderExists
<1>4. /\ \A k \in 0 .. n : g[k] \in Plain
      /\ g[0] = t
      /\ \A k \in 1 .. n :
            g[k] = IF Len(g[k - 1]) + Len(P[k]) <= room THEN g[k - 1] \o P[k] ELSE g[k - 1]
      /\ g = [k \in 0 .. n |-> g[k]]
  BY <1>3 DEF Appender
<1>5. ASSUME NEW k \in 1 .. n
      PROVE  g[k] = IF Len(Piece("ascii", from + k, 1)) <= Size - Len(g[k - 1])
                    THEN g[k - 1] \o Piece("ascii", from + k, 1)
                    ELSE g[k - 1]
  <2>1. k - 1 \in 0 .. n /\ P[k] = Piece("ascii", from + k, 1) /\ Len(P[k]) = size
    BY <1>1
  <2>2. Len(g[k - 1]) \in Nat
    BY <1>4, <2>1 DEF Plain
  <2> DEFINE x == Len(g[k - 1])
             y == Len(P[k])
  <2>3. x + y <= room <=> y <= Size - x
    <3>1. x \in Nat /\ y = size
      BY <2>1, <2>2
    <3> HIDE DEF x, y
    <3> QED BY <1>2, <3>1
  <2> HIDE DEF room
  <2> QED BY <1>4, <2>1, <2>3
<1>6. \A k \in 1 .. n : k - 1 \in 0 .. n /\ k \in 0 .. n /\ k # 0
  OBVIOUS
<1>7. Is(g)
  <2>1. ASSUME NEW k \in 0 .. n
        PROVE  g[k] = IF k = 0 THEN t
                      ELSE IF Len(Piece("ascii", from + k, 1)) <= Size - Len(g[k - 1])
                      THEN g[k - 1] \o Piece("ascii", from + k, 1)
                      ELSE g[k - 1]
    <3>1. CASE k = 0
      BY <1>4, <3>1
    <3>2. CASE k # 0
      <4>1. k \in 1 .. n
        BY <3>2
      <4> QED BY <1>5, <3>2, <4>1
    <3> QED BY <3>1, <3>2
  <2> QED BY <1>4, <2>1
<1>8. Is(after)
  <2> HIDE DEF Is
  <2> QED BY <1>7
<1>9. Ascii(t, from, n) = after[n]
  BY DEF Ascii, EachOf, append, append_ok, tail_size
<1> HIDE DEF after
<1>10. after[0] = t
  BY <1>8
<1>11. ASSUME NEW k \in 1 .. n, after[k - 1] = g[k - 1] PROVE after[k] = g[k]
  <2>1. after[k] = IF Len(Piece("ascii", from + k, 1)) <= Size - Len(after[k - 1])
                   THEN after[k - 1] \o Piece("ascii", from + k, 1)
                   ELSE after[k - 1]
    BY <1>6, <1>8
  <2> HIDE DEF Is
  <2> QED BY <1>5, <1>11, <2>1
<1> HIDE DEF Is
<1>12. after[n] = g[n]
  <2> DEFINE S == {k \in 0 .. n : after[k] = g[k]}
  <2>1. 0 \in S
    <3>1. after[0] = g[0] /\ 0 \in 0 .. n
      BY <1>4, <1>10
    <3> QED BY <3>1
  <2>2. \A k \in 1 .. n : k - 1 \in S => k \in S
    BY <1>11
  <2>3. \A k \in 0 .. n : k \in S
    <3> HIDE DEF S
    <3> QED BY <2>1, <2>2, InductionUpTo, Zenon
  <2> QED BY <2>3
<1>13. AllAdded(g[n], t, P, n, size, room)
  <2>1. \A k \in 1 .. n : Len(P[k]) = size
    BY <1>1
  <2> HIDE DEF size, room
  <2> QED BY <1>1, <1>2, <1>3, <2>1, AppenderResult
<1> QED BY <1>9, <1>12, <1>13 DEF P, AllAdded

(***************************************************************************)
(* An append is done if there is room.                                     *)
(***************************************************************************)
LEMMA AppendLemma ==
    ASSUME NEW t \in Plain, NEW s \in Plain
    PROVE  /\ append(Size, t, s) \in Plain /\ appendf(Size, t, s) \in Plain
           /\ Len(t) + Len(s) <= Size => append(Size, t, s) = t \o s
           /\ Len(t) + Len(s) < Size => appendf(Size, t, s) = t \o s
<1>1. t \o s \in Plain /\ Len(t) \in Nat /\ Len(s) \in Nat /\ Size \in Int
  BY PlainJoin, SizeAssumption
<1> DEFINE x == Len(t)
           y == Len(s)
<1>2. (x + y <= Size => y <= Size - x) /\ (x + y < Size => y < Size - x)
  <2> HIDE DEF x, y
  <2> QED BY <1>1 DEF x, y
<1> QED BY <1>1, <1>2 DEF append, append_ok, appendf, appendf_ok, tail_size

\* The reference's line, for a given width.
Expected(w, from, n) ==
    (IF w = 0 THEN <<>> ELSE Piece("offset", 0, 9))
    \o FlattenSeq([k \in 1 .. n |-> Piece("hex", from + k, 3)])
    \o FlattenSeq([k \in 1 .. (IF w = 0 THEN 0 ELSE w - n) |-> Piece("pad", 0, 3)])
    \o Piece("bar", 0, 2)
    \o FlattenSeq([k \in 1 .. n |-> Piece("ascii", from + k, 1)])
    \o Piece("end", 0, 1)

(***************************************************************************)
(* A line that fits is whole, and has nothing at its end to be stripped.   *)
(***************************************************************************)
LEMMA RowLemma ==
    ASSUME width \in Nat, NEW from \in Nat, NEW n \in Nat, width > 0 => n <= width
    PROVE  /\ Row(<<>>, from, n) \in Plain
           /\ (IF width = 0 THEN 4 * n + 3 ELSE 9 + 4 * width + 3) <= Size =>
                 /\ Row(<<>>, from, n) = Expected(width, from, n)
                 /\ Row(<<>>, from, n) # <<>>
                 /\ log_buffer_trim(Row(<<>>, from, n)) = Row(<<>>, from, n)
<1> DEFINE offset == Piece("offset", 0, 9)
           bar == Piece("bar", 0, 2)
           end == Piece("end", 0, 1)
           pads == IF width = 0 THEN 0 ELSE width - n
           O == IF width = 0 THEN <<>> ELSE offset
           H == FlattenSeq([k \in 1 .. n |-> Piece("hex", from + k, 3)])
           D == FlattenSeq([k \in 1 .. pads |-> Piece("pad", 0, 3)])
           A == FlattenSeq([k \in 1 .. n |-> Piece("ascii", from + k, 1)])
           a0 == IF width > 0 THEN appendf(Size, <<>>, offset) ELSE <<>>
           a1 == Hex(a0, from, n)
           a2 == IF width > 0 THEN Padding(a1, width - n) ELSE a1
           a3 == append(Size, a2, bar)
           a4 == Ascii(a3, from, n)
           a5 == append(Size, a4, end)
           fits == (IF width = 0 THEN 4 * n + 3 ELSE 9 + 4 * width + 3) <= Size
<1>1. Row(<<>>, from, n) = a5
  BY DEF Row
<1>2. Expected(width, from, n) = ((((O \o H) \o D) \o bar) \o A) \o end
  BY DEF Expected
<1>3. /\ offset \in Plain /\ Len(offset) = 9
      /\ bar \in Plain /\ Len(bar) = 2
      /\ end \in Plain /\ Len(end) = 1 /\ end[1][1] = "end"
      /\ <<>> \in Plain /\ Len(<<>>) = 0
  <2>1. {"offset", "bar", "end"} \subseteq CharKinds \ {"quote"} /\ {0, 1, 2, 9} \subseteq Nat
    BY DEF CharKinds
  <2>2. offset \in Plain /\ Len(offset) = 9 /\ bar \in Plain /\ Len(bar) = 2
        /\ end \in Plain /\ Len(end) = 1
    BY <2>1, PlainLemma
  <2>3. end[1] = <<"end", 0, 1>>
    BY DEF Piece
  <2>4. <<>> \in Plain /\ Len(<<>>) = 0
    BY DEF Plain
  <2> HIDE DEF end
  <2> QED BY <2>2, <2>3, <2>4
<1>4. Size \in Nat /\ pads \in Nat
  BY SizeAssumption
<1> HIDE DEF offset, bar, end
<1>5. O \in Plain /\ Len(O) = (IF width = 0 THEN 0 ELSE 9)
  BY <1>3
<1>6. a0 \in Plain /\ (fits => a0 = O)
  <2>1. CASE width = 0
    BY <1>3, <2>1
  <2>2. CASE width # 0
    <3>1. appendf(Size, <<>>, offset) \in Plain
      BY <1>3, AppendLemma
    <3>2. ASSUME fits PROVE appendf(Size, <<>>, offset) = offset
      <4>1. 0 + 9 < Size
        BY <1>4, <2>2, <3>2
      <4>2. Len(<<>>) + Len(offset) < Size
        BY <1>3, <4>1
      <4>3. appendf(Size, <<>>, offset) = <<>> \o offset
        BY <1>3, <4>2, AppendLemma
      <4>4. <<>> \o offset = offset
        BY <1>3, PlainJoin
      <4> QED BY <4>3, <4>4
    <3>3. width > 0
      BY <2>2
    <3> QED BY <2>2, <3>1, <3>2, <3>3
  <2> QED BY <2>1, <2>2
<1> HIDE DEF a0, O
<1>7. a1 \in Plain /\ H \in Plain
  BY <1>6, HexLemma
<1>8. fits => a1 = O \o H /\ Len(O \o H) = Len(O) + 3 * n
  <2> SUFFICES ASSUME fits PROVE a1 = O \o H /\ Len(O \o H) = Len(O) + 3 * n
    OBVIOUS
  <2>1. Len(a0) + 3 * n <= Size - 1
    <3>1. a0 = O
      BY <1>6
    <3>2. (IF width = 0 THEN 0 ELSE 9) + 3 * n <= Size - 1
      BY <1>4
    <3> QED BY <1>5, <3>1, <3>2
  <2>2. a1 = a0 \o H /\ Len(a1) = Len(a0) + 3 * n
    BY <1>6, <2>1, HexLemma
  <2> HIDE DEF fits, a1, H
  <2> QED BY <1>6, <2>2
<1> HIDE DEF a1, H
<1>9. a2 \in Plain /\ D \in Plain
  <2>1. D \in Plain
    <3> HIDE DEF pads
    <3> QED BY <1>4, <1>7, PaddingLemma
  <2>2. CASE width = 0
    BY <1>7, <2>1, <2>2
  <2>3. CASE width # 0
    <3>1. width > 0 /\ width - n \in Nat
      BY <2>3
    <3> DEFINE m == width - n
    <3> HIDE DEF m, D
    <3>2. Padding(a1, m) \in Plain
      BY <1>7, <3>1, PaddingLemma DEF m
    <3> QED BY <2>1, <3>1, <3>2 DEF m
  <2> QED BY <2>2, <2>3
<1>10. fits => a2 = (O \o H) \o D /\ Len((O \o H) \o D) = Len(O) + 3 * n + 3 * pads
  <2> SUFFICES ASSUME fits
               PROVE  a2 = (O \o H) \o D /\ Len((O \o H) \o D) = Len(O) + 3 * n + 3 * pads
    OBVIOUS
  <2>0. a1 = O \o H /\ Len(a1) = Len(O) + 3 * n
    BY <1>8
  <2>1. CASE width = 0
    <3>1. pads = 0 /\ a2 = a1
      BY <2>1
    <3>2. D = <<>>
      <4> DEFINE P == [k \in 1 .. 0 |-> Piece("pad", 0, 3)]
      <4>1. P = <<>>
        OBVIOUS
      <4>2. FlattenSeq(P) = P
        BY <4>1 DEF FlattenSeq
      <4> QED BY <2>1, <4>1, <4>2
    <3>3. a1 \o <<>> = a1
      BY <1>7, PlainJoin
    <3>4. Len(a1) = Len(O) + 3 * n + 3 * 0
      BY <1>5, <2>0
    <3> HIDE DEF D, pads, fits, a2
    <3> QED BY <2>0, <3>1, <3>2, <3>3, <3>4
  <2>2. CASE width # 0
    <3>1. width > 0 /\ width - n \in Nat /\ pads = width - n /\ a2 = Padding(a1, pads)
      BY <2>2
    <3>2. Len(O) + 3 * n + 3 * pads <= Size
      BY <1>4, <1>5, <2>2, <3>1
    <3> HIDE DEF pads, fits, a2
    <3>3. Len(a1) + 3 * pads <= Size
      BY <2>0, <3>2
    <3>4. Padding(a1, pads) = a1 \o D /\ Len(Padding(a1, pads)) = Len(a1) + 3 * pads
      BY <1>4, <1>7, <3>3, PaddingLemma
    <3> HIDE DEF D
    <3> QED BY <2>0, <3>1, <3>4
  <2> QED BY <2>1, <2>2
<1> HIDE DEF D, a2
<1>11. a3 \in Plain
  BY <1>3, <1>9, AppendLemma
<1> DEFINE B == ((O \o H) \o D) \o bar
<1>12. fits => a3 = B /\ Len(a3) = Len(O) + 3 * n + 3 * pads + 2
  <2> SUFFICES ASSUME fits PROVE a3 = B /\ Len(a3) = Len(O) + 3 * n + 3 * pads + 2
    OBVIOUS
  <2>1. Len(O) + 3 * n + 3 * pads + 2 <= Size
    BY <1>4, <1>5
  <2> HIDE DEF fits, pads
  <2>2. a2 = (O \o H) \o D /\ Len(a2) = Len(O) + 3 * n + 3 * pads
    BY <1>10
  <2>3. Len(a2) + Len(bar) <= Size
    BY <1>3, <2>1, <2>2
  <2>4. a3 = a2 \o bar /\ Len(a2 \o bar) = Len(a2) + Len(bar)
    BY <1>3, <1>9, <2>3, AppendLemma, PlainJoin
  <2> HIDE DEF a3
  <2> QED BY <1>3, <2>2, <2>4
<1> HIDE DEF a3, B
<1>13. a4 \in Plain /\ A \in Plain
  BY <1>11, AsciiLemma
<1>14. fits => a4 = B \o A /\ Len(a4) = Len(O) + 3 * n + 3 * pads + 2 + n
  <2> SUFFICES ASSUME fits PROVE a4 = B \o A /\ Len(a4) = Len(O) + 3 * n + 3 * pads + 2 + n
    OBVIOUS
  <2>1. Len(O) + 3 * n + 3 * pads + 2 + 1 * n <= Size /\ 1 * n = n
    BY <1>4, <1>5
  <2> HIDE DEF fits, pads
  <2>2. a3 = B /\ Len(a3) = Len(O) + 3 * n + 3 * pads + 2
    BY <1>12
  <2>3. Len(a3) + 1 * n <= Size
    BY <2>1, <2>2
  <2>4. a4 = a3 \o A /\ Len(a4) = Len(a3) + 1 * n
    BY <1>11, <2>3, AsciiLemma
  <2> HIDE DEF a4, A
  <2> QED BY <2>1, <2>2, <2>4
<1> HIDE DEF a4, A
<1>15. a5 \in Plain
  BY <1>3, <1>13, AppendLemma
<1>16. ASSUME fits
       PROVE  a5 = (B \o A) \o end /\ a5 # <<>> /\ log_buffer_trim(a5) = a5
  <2>1. Len(O) + 3 * n + 3 * pads + 2 + n + 1 <= Size
    BY <1>4, <1>5, <1>16
  <2> HIDE DEF fits, pads
  <2>2. Len(a4) + Len(end) <= Size
    BY <1>3, <1>14, <1>16, <2>1
  <2>3. a5 = a4 \o end
    BY <1>3, <1>13, <2>2, AppendLemma
  <2> HIDE DEF a5
  <2>4. a4 \in Text /\ end \in Text /\ a5 \in Text
    BY <1>3, <1>13, <1>15, PlainLemma
  <2>5. Len(a5) = Len(a4) + 1 /\ a5[Len(a4) + 1] = end[1] /\ Len(a4) \in Nat
    <3>1. /\ Len(a4) \in Nat /\ Len(a5) = Len(a4) + Len(end)
          /\ \A i \in 1 .. Len(end) : a5[Len(a4) + i] = end[i]
      BY <2>3, <2>4, JoinLemma
    <3>2. 1 \in 1 .. Len(end)
      BY <1>3
    <3> QED BY <1>3, <3>1, <3>2
  <2>6. a5 # <<>> /\ a5[Len(a5)][1] \notin Blank
    <3>1. Len(a5) # 0
      BY <2>5
    <3>2. a5[Len(a5)][1] = "end"
      BY <1>3, <2>5
    <3> QED BY <3>1, <3>2 DEF Blank
  <2>7. log_buffer_trim(a5) = a5
    BY <2>4, <2>6, StripNothing DEF log_buffer_trim
  <2> QED BY <1>14, <1>16, <2>3, <2>6, <2>7
<1> HIDE DEF a5
<1> QED BY <1>1, <1>2, <1>15, <1>16 DEF B

----------------------------------------------------------------------------
(* The invariant of a call.                                                *)

BufferInv ==
    /\ data \in Bytes /\ p \in 0 .. Len(data)
    /\ width \in Nat
    /\ text \in Text
    /\ lines \in Seq(Line)

IdleInv ==
    phase = "idle" =>
        /\ data = <<>> /\ width = 0 /\ text = <<>> /\ p = 0
        /\ lines = <<>>

\* A dump that is under way was let through, and did not fail.
Dumping == {"encode", "truncate", "suffix", "hex"}

CallInv ==
    /\ phase \in Dumping \cup {"idle", "returned"}
    /\ phase \in Dumping => /\ CallOK(call) /\ call.kind # "printf"
                            /\ PassesIn(tree, call) /\ ~FaultyIn(tree, call)
    /\ phase \in {"encode", "truncate", "suffix"} => call.suffix >= 5
    /\ phase = "returned" => CallOK(call) \/ call.kind = "cstr"

LinesRight(T, c, ls) ==
    \A k \in 1 .. Len(ls) : PassesIn(T, c) /\ LineRight(T, c, ls[k])

\* A message that is let through is a line, unless there is nothing to write.
MessageWritten(T, c, ls) ==
    (c.kind = "printf" /\ PassesIn(T, c) /\ ~FaultyIn(T, c)) =>
        Len(ls) = 1 \/ (ls = <<>> /\ PrefixRight(T, c, <<>>) /\ MessageRight(c, <<>>))

LinesInv ==
    /\ phase \in {"encode", "truncate", "suffix"} => lines = <<>>
    /\ phase = "hex" => LinesRight(tree, call, lines)
    /\ (phase = "returned" /\ call.kind # "cstr") =>
          LinesRight(tree, call, lines) /\ MessageWritten(tree, call, lines)

\* The quote, the encodings of n bytes of d, and an ellipsis if there are more.
Quoted(d, n) == Quote \o EncodingsOf(d, n)
Shown(d, n) == Quoted(d, n) \o (IF n < Len(d) THEN Ellipsis ELSE <<>>)

DumpDone(c, d, n, t, ls, r) ==
    (t # <<>> /\ Head(t) = Head(Quote)) =>
        \/ /\ Len(ls) = 1 /\ ls[1].data = t
           /\ t = Shown(d, n) \o Closing(c)
           /\ Len(t) < Size
        \/ ls = <<>> /\ r = -1 /\ c.suffix >= min_suffix

StringDone(c, d, n, t, r) ==
    c.kind = "cstr" =>
        /\ t = EncodingsOf(d, n) /\ r = Len(t) /\ Len(t) < c.size
        /\ n < Len(d) => Len(t) + d[n + 1] >= c.size

\* There are always min_suffix bytes for the suffix.
DumpInv ==
    /\ phase \in {"encode", "truncate"} => text = Quoted(data, p)
    /\ phase \in {"encode", "truncate", "suffix"} => Len(text) <= Size - min_suffix
    /\ phase = "truncate" => p < Len(data)
    /\ phase = "suffix" => text = Shown(data, p)
    /\ phase = "hex" => text = <<>>
    /\ phase = "returned" =>
          DumpDone(call, data, p, text, lines, rc) /\ StringDone(call, data, p, text, rc)

\* The lines show the first q of n bytes, w on each line.
RowsRight(w, n, q, ls) ==
    /\ \A k \in 1 .. Len(ls) :
          LET from == (k - 1) * w
              size == IF w = 0 \/ n - from < w THEN n - from ELSE w
          IN  size > 0 /\ ls[k].data = Expected(w, from, size)
    /\ q = (IF w = 0 \/ Len(ls) * w > n THEN (IF ls = <<>> THEN 0 ELSE n) ELSE Len(ls) * w)

RowSizeOf(w, n) == IF w = 0 THEN 4 * n + 3 ELSE 9 + 4 * w + 3

HexInv ==
    (phase = "hex" /\ RowSizeOf(width, Len(data)) <= Size) =>
        RowsRight(width, Len(data), p, lines)

LocalInv == BufferInv /\ IdleInv /\ CallInv /\ LinesInv /\ DumpInv /\ HexInv
Inv == TreeInv /\ LocalInv

(***************************************************************************)
(* The application's calls are well formed.                                *)
(***************************************************************************)
LEMMA CallLemma ==
    /\ \A kind \in {"printf", "dump", "hexdump"}, l \in Nodes, f \in DOMAIN Macros,
          func \in Nat, s \in Seq(Kinds), answer \in Int, suffix \in Nat : \A gate, formats :
          LET c == Call(kind, l, f, func, gate, s, answer, formats, suffix)
          IN  CallOK(c) /\ c.kind = kind /\ c.suffix = suffix
    /\ \A f : Names(f) \subseteq Nat
    /\ \A s \in Messages \cup {<<>>, Solid(1), Solid(2)} : s \in Seq(Kinds)
    /\ \A l : Answers(l) \subseteq Int
    /\ {"error", "warn", "info", "debug", "trace"} \subseteq DOMAIN Macros
    /\ Data \subseteq Bytes
<1>1. ASSUME NEW kind \in {"printf", "dump", "hexdump"}, NEW l \in Nodes,
             NEW f \in DOMAIN Macros, NEW func \in Nat, NEW s \in Seq(Kinds),
             NEW answer \in Int, NEW suffix \in Nat, NEW gate, NEW formats
      PROVE  LET c == Call(kind, l, f, func, gate, s, answer, formats, suffix)
             IN  CallOK(c) /\ c.kind = kind /\ c.suffix = suffix
  BY DEF Call, CallOK
<1>2. \A n \in Nat : Solid(n) \in Seq(Kinds)
  BY StaticPrefixLemma
<1>3. ASSUME NEW s \in Messages PROVE s \in Seq(Kinds)
  <2>1. PICK n \in Lengths, t \in {<<>>, <<"colon", "blank">>} : s = Solid(n) \o t
    BY DEF Messages
  <2>2. Solid(n) \in Seq(Kinds) /\ t \in Seq(Kinds)
    <3>1. Solid(n) \in Seq(Kinds)
      BY <1>2, BoundsAssumption
    <3>2. <<>> \in Seq(Kinds) /\ <<"colon", "blank">> \in Seq(Kinds)
      BY DEF Kinds
    <3> QED BY <2>1, <3>1, <3>2
  <2> QED BY <2>1, <2>2, ConcatProperties
<1>4. <<>> \in Seq(Kinds) /\ Solid(1) \in Seq(Kinds) /\ Solid(2) \in Seq(Kinds)
  BY <1>2
<1>5. \A l : Answers(l) \subseteq Int
  BY PrefixAssumption DEF Answers
<1>6. {"error", "warn", "info", "debug", "trace"} \subseteq DOMAIN Macros
  BY DEF Macros
<1>7. Data \subseteq Bytes
  <2>1. ASSUME NEW d \in Data PROVE d \in Bytes
    <3>1. PICK n \in 0 .. MaxData : d \in [1 .. n -> {1, 2, 4}]
      BY DEF Data
    <3>2. n \in Nat
      OBVIOUS
    <3> QED BY <3>1, <3>2, IsASeq DEF Bytes
  <2> QED BY <2>1
<1>8. \A f : Names(f) \subseteq Nat
  BY MessageAssumption DEF Names
<1> QED BY <1>1, <1>3, <1>4, <1>5, <1>6, <1>7, <1>8

(***************************************************************************)
(* One more line of a hexdump.                                             *)
(***************************************************************************)
LEMMA RowsNext ==
    ASSUME NEW w \in Nat, NEW n \in Nat, NEW q \in Nat, q < n,
           NEW ls \in Seq(Line), RowsRight(w, n, q, ls),
           NEW size, size = IF w = 0 \/ n - q < w THEN n - q ELSE w,
           NEW line \in Line, line.data = Expected(w, q, size)
    PROVE  RowsRight(w, n, q + size, ls \o <<line>>)
<1> DEFINE new == ls \o <<line>>
           m == Len(ls)
<1>1. /\ m \in Nat /\ Len(new) = m + 1 /\ new[m + 1] = line /\ new # <<>>
      /\ \A k \in 1 .. m : new[k] = ls[k]
      /\ ls = <<>> <=> m = 0
  OBVIOUS
<1>2. q = m * w /\ (w = 0 => ls = <<>>) /\ (m + 1) * w = m * w + w
      /\ m * w \in Nat /\ ~ (m * w > n)
  <2>1. q = (IF w = 0 \/ m * w > n THEN (IF ls = <<>> THEN 0 ELSE n) ELSE m * w)
    BY DEF RowsRight
  <2>2. (m + 1) * w = m * w + w /\ m * w \in Nat
    BY <1>1
  <2>3. CASE w = 0
    <3>1. ls = <<>> /\ q = 0
      BY <2>1, <2>3
    <3>2. m * w = 0
      BY <1>1, <2>3
    <3> QED BY <2>2, <3>1, <3>2
  <2>4. CASE w # 0
    <3>1. m = 0 => m * w = 0
      OBVIOUS
    <3> HIDE DEF m
    <3>2. ~ (m * w > n)
      <4>1. SUFFICES ASSUME m * w > n PROVE FALSE
        OBVIOUS
      <4>2. m # 0
        BY <2>2, <3>1, <4>1
      <4>3. q = n
        BY <1>1, <2>1, <4>1, <4>2
      <4> QED BY <4>3
    <3> QED BY <2>1, <2>2, <2>4, <3>2
  <2> QED BY <2>3, <2>4
<1>3. size > 0 /\ size \in Nat
  BY <1>2
<1> HIDE DEF new, m
<1>4. ASSUME NEW k \in 1 .. Len(new)
      PROVE  LET from == (k - 1) * w
                 sz == IF w = 0 \/ n - from < w THEN n - from ELSE w
             IN  sz > 0 /\ new[k].data = Expected(w, from, sz)
  <2>1. CASE k = m + 1
    <3>1. (k - 1) * w = q
      BY <1>1, <1>2, <2>1
    <3> QED BY <1>1, <1>3, <2>1, <3>1
  <2>2. CASE k # m + 1
    <3>1. k \in 1 .. m
      BY <1>1, <2>2
    <3>2. new[k] = ls[k]
      BY <1>1, <3>1
    <3> QED BY <3>1, <3>2 DEF RowsRight, m
  <2> QED BY <2>1, <2>2
<1>5. q + size = (IF w = 0 \/ Len(new) * w > n THEN (IF new = <<>> THEN 0 ELSE n)
                  ELSE Len(new) * w)
  <2>1. Len(new) * w = q + w
    BY <1>1, <1>2
  <2>2. CASE w = 0 \/ n - q < w
    <3>1. q + size = n /\ (w = 0 \/ q + w > n)
      BY <2>2
    <3> QED BY <1>1, <2>1, <3>1
  <2>3. CASE ~ (w = 0 \/ n - q < w)
    <3>1. q + size = q + w /\ ~ (w = 0 \/ q + w > n)
      BY <2>3
    <3> QED BY <2>1, <3>1
  <2> QED BY <2>2, <2>3
<1> QED BY <1>4, <1>5 DEF RowsRight, new

----------------------------------------------------------------------------
(* One lemma per step: the step keeps the invariant of a call.             *)

(***************************************************************************)
(* A call that has returned with no lines and no text.                     *)
(***************************************************************************)
LEMMA NothingDone ==
    ASSUME NEW T, NEW c, NEW d, NEW n, NEW r
    PROVE  /\ LinesRight(T, c, <<>>)
           /\ DumpDone(c, d, n, <<>>, <<>>, r)
           /\ c.kind # "cstr" => StringDone(c, d, n, <<>>, r)
           /\ c.kind # "printf" => MessageWritten(T, c, <<>>)
  BY DEF LinesRight, DumpDone, StringDone, MessageWritten

(***************************************************************************)
(* No call is under way at the start.                                      *)
(***************************************************************************)
LEMMA InitStep == Init => LocalInv
<1> SUFFICES ASSUME Init PROVE LocalInv
  OBVIOUS
<1>1. <<>> \in Bytes /\ Len(<<>>) = 0 /\ <<>> \in Text /\ <<>> \in Seq(Line) /\ 0 \in 0 .. 0
  BY DEF Bytes, Text
<1>2. BufferInv
  BY <1>1 DEF Init, BufferInv
<1> QED BY <1>2 DEF Init, LocalInv, IdleInv, CallInv, LinesInv, DumpInv, HexInv, Dumping

(***************************************************************************)
(* The tree changes only between calls.                                    *)
(***************************************************************************)
LEMMA ConfiguredStep ==
    ASSUME LocalInv, phase = "idle", UNCHANGED locals
    PROVE  LocalInv'
  BY DEF LocalInv, BufferInv, IdleInv, CallInv, LinesInv, DumpInv, HexInv, Dumping, locals

(***************************************************************************)
(* A call that is not let through, or fails, writes nothing.               *)
(***************************************************************************)
LEMMA RefuseStep ==
    ASSUME Inv, NEW c, CallOK(c), Refuse(c) \/ (NoData(c) /\ c.kind # "printf")
    PROVE  LocalInv'
<1>1. /\ phase = "idle" /\ phase' = "returned" /\ call' = c /\ tree' = tree
      /\ UNCHANGED <<data, width, text, p, lines>>
  BY DEF Refuse, NoData, Enter
<1>2. text = <<>> /\ lines = <<>>
  BY <1>1 DEF Inv, LocalInv, IdleInv
<1>3. c.kind # "cstr"
  BY DEF CallOK
<1>4. MessageWritten(tree, c, <<>>)
  <2>1. CASE c.kind # "printf"
    BY <2>1, NothingDone
  <2>2. CASE c.kind = "printf"
    <3>1. ~Passes(c) \/ Faulty(c)
      BY <2>2 DEF Refuse
    <3>2. ~ (PassesIn(tree, c) /\ ~FaultyIn(tree, c))
      BY <3>1, PassesLemma DEF Inv
    <3> QED BY <3>2 DEF MessageWritten
  <2> QED BY <2>1, <2>2
<1>5. BufferInv'
  BY <1>1 DEF Inv, LocalInv, BufferInv
<1>6. IdleInv' /\ CallInv' /\ HexInv'
  BY <1>1 DEF IdleInv, CallInv, HexInv, Dumping
<1>7. LinesInv'
  BY <1>1, <1>2, <1>4, NothingDone DEF LinesInv
<1>8. DumpInv'
  BY <1>1, <1>2, <1>3, NothingDone DEF DumpInv
<1> QED BY <1>5, <1>6, <1>7, <1>8 DEF LocalInv

(***************************************************************************)
(* What a call writes is right.                                            *)
(***************************************************************************)
LEMMA WrittenRight ==
    ASSUME TreeInv, NEW c, CallOK(c), PassesIn(tree, c), ~FaultyIn(tree, c), NEW dbuf \in Text
    PROVE  /\ Written(c, dbuf) \in Seq(Line)
           /\ LinesRight(tree, c, Written(c, dbuf))
           /\ dbuf = <<>> => MessageWritten(tree, c, Written(c, dbuf))
           /\ log_buffer_trim(dbuf) # <<>> =>
                 /\ Len(Written(c, dbuf)) = 1
                 /\ Written(c, dbuf)[1] \in Line
                 /\ Written(c, dbuf) = <<Written(c, dbuf)[1]>>
                 /\ Written(c, dbuf)[1].data = log_buffer_trim(dbuf)
<1>1. PICK line \in Line :
         /\ LineRight(tree, c, line)
         /\ line.data = log_buffer_trim(dbuf)
         /\ \/ Written(c, dbuf) = <<line>>
            \/ /\ Written(c, dbuf) = <<>>
               /\ line.prefix = <<>> /\ line.msg = <<>> /\ line.data = <<>>
  BY WrittenLemma
<1> DEFINE ls == Written(c, dbuf)
<1>2. CASE ls = <<line>>
  <2>1. ls \in Seq(Line) /\ Len(ls) = 1 /\ ls[1] = line /\ ls = <<ls[1]>>
    BY <1>2
  <2> HIDE DEF ls
  <2>2. LinesRight(tree, c, ls)
    <3>1. \A k \in 1 .. Len(ls) : ls[k] = line
      BY <2>1
    <3> QED BY <1>1, <3>1 DEF LinesRight
  <2>3. MessageWritten(tree, c, ls)
    BY <2>1 DEF MessageWritten
  <2> QED BY <1>1, <2>1, <2>2, <2>3 DEF ls
<1>3. CASE ls = <<>> /\ line.prefix = <<>> /\ line.msg = <<>> /\ line.data = <<>>
  <2>1. ls \in Seq(Line) /\ LinesRight(tree, c, ls)
    <3>1. <<>> \in Seq(Line)
      OBVIOUS
    <3>2. LinesRight(tree, c, <<>>)
      BY DEF LinesRight
    <3> QED BY ONLY <1>3, <3>1, <3>2
  <2>2. MessageWritten(tree, c, ls)
    BY <1>1, <1>3 DEF MessageWritten, LineRight
  <2> QED BY <1>1, <1>3, <2>1, <2>2
<1> QED BY <1>1, <1>2, <1>3

(***************************************************************************)
(* A message that is let through is one line.                              *)
(***************************************************************************)
LEMMA PrintfStep ==
    ASSUME Inv, NEW c, CallOK(c), sancus_logger__vprintf(c)
    PROVE  LocalInv'
<1>1. /\ phase = "idle" /\ phase' = "returned" /\ call' = c /\ tree' = tree
      /\ lines' = Written(c, <<>>)
      /\ UNCHANGED <<data, width, text, p>>
  BY DEF sancus_logger__vprintf, Enter
<1>2. text = <<>> /\ TreeInv
  BY <1>1 DEF Inv, LocalInv, IdleInv
<1>3. PassesIn(tree, c) /\ ~FaultyIn(tree, c) /\ c.kind # "cstr"
  BY PassesLemma DEF sancus_logger__vprintf, Inv, CallOK
<1>4. <<>> \in Text
  BY DEF Text
<1>5. /\ lines' \in Seq(Line)
      /\ LinesRight(tree, c, lines') /\ MessageWritten(tree, c, lines')
  BY <1>1, <1>2, <1>3, <1>4, WrittenRight
<1>6. BufferInv'
  BY <1>1, <1>5 DEF Inv, LocalInv, BufferInv
<1>7. IdleInv' /\ CallInv' /\ HexInv'
  BY <1>1 DEF IdleInv, CallInv, HexInv, Dumping
<1>8. LinesInv'
  BY <1>1, <1>5 DEF LinesInv
<1>9. DumpInv'
  BY <1>1, <1>2, <1>3 DEF DumpInv, DumpDone, StringDone
<1> QED BY <1>6, <1>7, <1>8, <1>9 DEF LocalInv

(***************************************************************************)
(* The quote, the ellipsis and the suffix; text of which they are part.    *)
(***************************************************************************)
LEMMA QuotedLemma ==
    ASSUME NEW d \in Bytes, NEW n \in 0 .. Len(d)
    PROVE  /\ Quote \in Text /\ Len(Quote) = 1
           /\ Ellipsis \in Text /\ Len(Ellipsis) = 3
           /\ EncodingsOf(d, n) \in Text
           /\ Quoted(d, n) \in Text /\ Shown(d, n) \in Text
           /\ Quoted(d, 0) = Quote
           /\ n = Len(d) => Shown(d, n) = Quoted(d, n)
<1> DEFINE quote == "quote"
           ellipsis == "ellipsis"
           zero == 0
           one == 1
           three == 3
<1>1. /\ quote \in CharKinds /\ ellipsis \in CharKinds
      /\ zero \in Nat /\ one \in Nat /\ three \in Nat
  BY DEF CharKinds
<1>2. Quote = Piece(quote, zero, one) /\ Ellipsis = Piece(ellipsis, zero, three)
  BY DEF Quote, Ellipsis
<1>3. one = 1 /\ three = 3
  OBVIOUS
<1> HIDE DEF quote, ellipsis, zero, one, three
<1>4. /\ Quote \in Text /\ Len(Quote) = one
      /\ Ellipsis \in Text /\ Len(Ellipsis) = three
  <2>1. Quote \in Text /\ Len(Quote) = one
    BY <1>1, <1>2, PieceLemma
  <2>2. Ellipsis \in Text /\ Len(Ellipsis) = three
    BY <1>1, <1>2, PieceLemma
  <2> QED BY <2>1, <2>2
<1>6. EncodingsOf(d, n) \in Text /\ EncodingsOf(d, 0) = <<>>
  BY EncodingsLemma, PlainLemma
<1>7. Quoted(d, n) \in Text
  BY <1>4, <1>6, JoinLemma DEF Quoted
<1>8. Quoted(d, 0) = Quote
  BY <1>4, <1>6, TextLemma DEF Quoted
<1>9. <<>> \in Text
  BY DEF Text
<1>10. Shown(d, n) \in Text
  BY <1>4, <1>7, <1>9, JoinLemma DEF Shown
<1>11. n = Len(d) => Shown(d, n) = Quoted(d, n)
  <2>1. Quoted(d, n) \o <<>> = Quoted(d, n)
    BY <1>7, TextLemma
  <2>2. n = Len(d) => ~ (n < Len(d))
    OBVIOUS
  <2> QED BY <2>1, <2>2 DEF Shown
<1> QED BY <1>3, <1>4, <1>6, <1>7, <1>8, <1>10, <1>11

(***************************************************************************)
(* The suffix of a dump.                                                   *)
(***************************************************************************)
LEMMA ClosingLemma ==
    ASSUME NEW c, c.suffix \in Nat, c.suffix >= 5
    PROVE  /\ Closing(c) \in Text /\ Len(Closing(c)) = c.suffix
           /\ Closing(c)[c.suffix][1] = "suffix"
<1> DEFINE suffix == "suffix"
           zero == 0
<1>1. suffix \in CharKinds /\ zero \in Nat
  BY DEF CharKinds
<1>2. Closing(c) = Piece(suffix, zero, c.suffix)
  BY DEF Closing
<1>3. suffix = "suffix"
  OBVIOUS
<1> HIDE DEF suffix, zero
<1>4. PICK n \in Nat : n = c.suffix
  OBVIOUS
<1>5. /\ Closing(c) \in Text /\ Len(Closing(c)) = n
      /\ \A i \in 1 .. n : Closing(c)[i][1] = suffix
  BY <1>1, <1>2, <1>4, PieceLemma
<1>6. n \in 1 .. n
  BY <1>4
<1> QED BY <1>3, <1>4, <1>5, <1>6

(***************************************************************************)
(* A dump begins with its quote.                                           *)
(***************************************************************************)
LEMMA DumpStep ==
    ASSUME Inv, NEW c, CallOK(c), c.kind # "printf", c.suffix >= 5, NEW d \in Bytes,
           sancus_logger__vdumpf(c, d)
    PROVE  LocalInv'
<1>1. /\ phase = "idle" /\ phase' = "encode" /\ call' = c /\ tree' = tree
      /\ data' = d /\ text' = append(Size, <<>>, Quote)
      /\ UNCHANGED <<width, p, lines>>
  BY DEF sancus_logger__vdumpf, Enter
<1>2. width = 0 /\ p = 0 /\ lines = <<>> /\ TreeInv
  BY <1>1 DEF Inv, LocalInv, IdleInv
<1>3. PassesIn(tree, c) /\ ~FaultyIn(tree, c)
  BY PassesLemma DEF sancus_logger__vdumpf, Inv
<1>4. Len(d) \in Nat /\ 0 \in 0 .. Len(d)
  BY DEF Bytes
<1>5. Quote \in Text /\ Len(Quote) = 1 /\ Quoted(d, 0) = Quote
  BY <1>4, QuotedLemma
<1>6. text' = Quote
  <2>1. <<>> \o Quote = Quote
    BY <1>5, TextLemma
  <2>2. Len(Quote) <= Size - Len(<<>>)
    BY <1>5, SizeAssumption DEF max_suffix, min_suffix
  <2> QED BY <1>1, <2>1, <2>2 DEF append, append_ok, tail_size
<1>7. Len(Quote) <= Size - min_suffix
  BY <1>5, SizeAssumption DEF max_suffix, min_suffix
<1>8. BufferInv'
  <2>1. <<>> \in Seq(Line)
    OBVIOUS
  <2> QED BY <1>1, <1>2, <1>4, <1>5, <1>6, <2>1 DEF BufferInv
<1>9. IdleInv' /\ CallInv' /\ LinesInv' /\ HexInv'
  BY <1>1, <1>2, <1>3 DEF IdleInv, CallInv, LinesInv, HexInv, Dumping
<1>10. DumpInv'
  BY <1>1, <1>2, <1>5, <1>6, <1>7 DEF DumpInv
<1> QED BY <1>8, <1>9, <1>10 DEF LocalInv

(***************************************************************************)
(* A block of bytes leaves room for the suffix, whatever the bytes are.    *)
(***************************************************************************)
LEMMA EncodeStep ==
    ASSUME Inv, EncodeBlock
    PROVE  LocalInv'
<1> DEFINE left == Len(data) - p
           bytes == IF left > Block(text) THEN Block(text) ELSE left
<1>1. /\ phase = "encode" /\ p < Len(data) /\ tree' = tree
      /\ UNCHANGED <<call, data, width, lines>>
      /\ IF bytes = 0
         THEN phase' = "truncate" /\ UNCHANGED <<text, p>>
         ELSE text' = dump_enc(text, p, bytes) /\ p' = p + bytes /\ phase' = phase
  BY DEF EncodeBlock
<1>2. /\ data \in Bytes /\ p \in Nat /\ Len(data) \in Nat /\ p \in 0 .. Len(data)
      /\ text \in Text /\ Len(text) \in Nat
      /\ text = Quoted(data, p) /\ Len(text) <= Size - min_suffix /\ lines = <<>>
  BY <1>1 DEF Inv, LocalInv, BufferInv, LinesInv, DumpInv, Bytes, Text
<1>3. /\ bytes \in Nat /\ p + bytes \in 0 .. Len(data)
      /\ Len(text) + 4 * bytes <= Size - min_suffix
  <2> DEFINE room == Size - Len(text) - min_suffix
  <2>1. room \in Nat /\ room < Span /\ Span \in Nat
    BY <1>2, SizeAssumption, SpanAssumption DEF min_suffix
  <2>2. room % Span = room
    <3> HIDE DEF room
    <3> QED BY <2>1
  <2>3. Block(text) = room \div 4
    BY <2>2 DEF Block, tail_size
  <2> HIDE DEF room
  <2>4. room \div 4 \in Nat /\ 4 * (room \div 4) <= room
    BY <2>1
  <2>5. bytes \in Nat /\ bytes <= room \div 4 /\ bytes <= Len(data) - p
    BY <1>1, <1>2, <2>3, <2>4
  <2> HIDE DEF bytes
  <2>6. 4 * bytes <= room
    <3> DEFINE quarter == room \div 4
    <3>1. quarter \in Nat /\ 4 * quarter <= room /\ bytes <= quarter
      BY <2>4, <2>5
    <3> HIDE DEF quarter
    <3> QED BY <2>1, <2>5, <3>1
  <2> QED BY <1>2, <2>5, <2>6, SizeAssumption DEF room, min_suffix
<1> HIDE DEF bytes
<1>4. CASE bytes = 0
  <2>1. /\ phase' = "truncate" /\ tree' = tree
        /\ UNCHANGED <<call, data, width, lines, text, p>>
    BY <1>1, <1>4
  <2> QED BY <1>1, <1>2, <2>1 DEF Inv, LocalInv, BufferInv, IdleInv, CallInv, LinesInv,
             DumpInv, HexInv, Dumping
<1>5. CASE bytes # 0
  <2>1. /\ phase' = "encode" /\ tree' = tree /\ text' = dump_enc(text, p, bytes)
        /\ p' = p + bytes /\ UNCHANGED <<call, data, width, lines>>
    BY <1>1, <1>5
  <2>2. Quote \in Text
    BY <1>2, QuotedLemma
  <2>3. p + bytes <= Len(data) /\ Len(text) + 4 * bytes <= Size
    BY <1>2, <1>3, SizeAssumption DEF min_suffix
  <2>4. /\ text' = Quote \o EncodingsOf(data, p + bytes)
        /\ Len(text') <= Len(text) + 4 * bytes
    <3>1. text = Quote \o EncodingsOf(data, p)
      BY <1>2 DEF Quoted
    <3> QED BY <1>2, <1>3, <2>1, <2>2, <2>3, <3>1, DumpEncLemma
  <2>5. text' = Quoted(data, p') /\ text' \in Text /\ p' \in 0 .. Len(data)
    BY <1>2, <1>3, <2>1, <2>4, QuotedLemma DEF Quoted
  <2>6. Len(text') <= Size - min_suffix
    <3>1. Len(text') \in Nat
      BY <2>5 DEF Text
    <3> QED BY <1>2, <1>3, <2>4, <3>1, SizeAssumption DEF min_suffix
  <2>7. BufferInv'
    BY <2>1, <2>5 DEF Inv, LocalInv, BufferInv
  <2>8. IdleInv' /\ CallInv' /\ LinesInv' /\ HexInv'
    BY <1>1, <1>2, <2>1 DEF Inv, LocalInv, IdleInv, CallInv, LinesInv, HexInv, Dumping
  <2>9. DumpInv'
    BY <2>1, <2>5, <2>6 DEF DumpInv
  <2> QED BY <2>7, <2>8, <2>9 DEF LocalInv
<1> QED BY <1>4, <1>5

(***************************************************************************)
(* With all bytes encoded there is no ellipsis.                            *)
(***************************************************************************)
LEMMA AllEncodedStep ==
    ASSUME Inv, AllEncoded
    PROVE  LocalInv'
<1>1. /\ phase = "encode" /\ p = Len(data) /\ phase' = "suffix" /\ tree' = tree
      /\ UNCHANGED <<call, data, width, text, p, lines>>
  BY DEF AllEncoded
<1>2. /\ data \in Bytes /\ p \in 0 .. Len(data)
      /\ text = Quoted(data, p) /\ Len(text) <= Size - min_suffix /\ lines = <<>>
  BY <1>1 DEF Inv, LocalInv, BufferInv, LinesInv, DumpInv
<1>3. text = Shown(data, p)
  BY <1>1, <1>2, QuotedLemma
<1>4. BufferInv'
  BY <1>1 DEF Inv, LocalInv, BufferInv
<1>5. IdleInv' /\ CallInv' /\ LinesInv' /\ HexInv'
  BY <1>1, <1>2 DEF Inv, LocalInv, IdleInv, CallInv, LinesInv, HexInv, Dumping
<1>6. DumpInv'
  BY <1>1, <1>2, <1>3 DEF DumpInv
<1> QED BY <1>4, <1>5, <1>6 DEF LocalInv

(***************************************************************************)
(* What is taken back is the whole encoding of the last byte.              *)
(***************************************************************************)
LEMMA TakeBackStep ==
    ASSUME Inv, TakeBack
    PROVE  LocalInv'
<1>1. /\ phase = "truncate" /\ p > 0 /\ phase' = "truncate" /\ tree' = tree
      /\ text' = stripn(text, data[p]) /\ p' = p - 1
      /\ UNCHANGED <<call, data, width, lines>>
  BY DEF TakeBack, StripLast
<1>2. /\ data \in Bytes /\ p \in 1 .. Len(data) /\ Len(data) \in Nat /\ text \in Text
      /\ text = Quoted(data, p) /\ Len(text) <= Size - min_suffix /\ lines = <<>>
      /\ p - 1 \in 0 .. Len(data) /\ p - 1 < Len(data) /\ p \in 0 .. Len(data)
  BY <1>1 DEF Inv, LocalInv, BufferInv, LinesInv, DumpInv, Bytes
<1> DEFINE q == Quoted(data, p - 1)
           e == Encoded(data, p)
<1>3. q \in Text /\ Quote \in Text /\ Len(Quote) = 1
  BY <1>2, QuotedLemma
<1>4. e \in Text /\ Len(e) = data[p] /\ data[p] \in Nat
  BY <1>2, EncodedLemma, PlainLemma DEF Bytes
<1>5. text = q \o e
  <2>1. EncodingsOf(data, p) = EncodingsOf(data, p - 1) \o e
    BY <1>2, EncodingsLemma
  <2>2. EncodingsOf(data, p - 1) \in Text
    BY <1>2, QuotedLemma
  <2>3. text = Quote \o EncodingsOf(data, p) /\ q = Quote \o EncodingsOf(data, p - 1)
    BY <1>2 DEF Quoted
  <2> DEFINE x == EncodingsOf(data, p - 1)
  <2> HIDE DEF e, q, x
  <2>4. (Quote \o x) \o e = Quote \o (x \o e)
    BY <1>3, <1>4, <2>2, TextLemma DEF x
  <2> QED BY <2>1, <2>3, <2>4 DEF x
<1>6. Len(q) \in Nat /\ Len(q) > 0
  <2>1. EncodingsOf(data, p - 1) \in Text
    BY <1>2, QuotedLemma
  <2>2. Len(q) = Len(Quote) + Len(EncodingsOf(data, p - 1))
        /\ Len(EncodingsOf(data, p - 1)) \in Nat
    BY <1>3, <2>1, JoinLemma DEF Quoted
  <2> HIDE DEF q
  <2> QED BY <1>3, <2>2
<1> HIDE DEF q, e
<1>7. Len(text) = Len(q) + data[p] /\ SubSeq(text, 1, Len(q)) = q /\ Len(text) \in Nat
  <2>1. Len(q \o e) = Len(q) + Len(e) /\ SubSeq(q \o e, 1, Len(q)) = q
    BY <1>3, <1>4, JoinLemma
  <2> QED BY <1>4, <1>5, <1>6, <2>1
<1>8. text' = q
  <2>1. data[p] < Len(text) /\ Len(text) - data[p] = Len(q)
    BY <1>4, <1>6, <1>7
  <2> QED BY <1>1, <1>7, <2>1 DEF stripn
<1>9. Len(q) <= Size - min_suffix
  BY <1>2, <1>4, <1>6, <1>7, SizeAssumption DEF min_suffix
<1>10. BufferInv'
  BY <1>1, <1>2, <1>3, <1>8 DEF Inv, LocalInv, BufferInv
<1>11. IdleInv' /\ CallInv' /\ LinesInv' /\ HexInv'
  BY <1>1, <1>2 DEF Inv, LocalInv, IdleInv, CallInv, LinesInv, HexInv, Dumping
<1>12. DumpInv'
  BY <1>1, <1>2, <1>8, <1>9 DEF DumpInv, q
<1> QED BY <1>10, <1>11, <1>12 DEF LocalInv

(***************************************************************************)
(* There is room for the ellipsis, and then for the suffix.                *)
(***************************************************************************)
LEMMA EllipsisStep ==
    ASSUME Inv, AppendEllipsis
    PROVE  LocalInv'
<1>1. /\ phase = "truncate" /\ (p = 0 \/ HasRoom(text)) /\ tree' = tree
      /\ text' = append(Size, text, Ellipsis)
      /\ append_ok(Size, text, Ellipsis) => phase' = "suffix"
      /\ UNCHANGED <<call, data, width, p, lines>>
  BY DEF AppendEllipsis
<1>2. /\ data \in Bytes /\ p \in 0 .. Len(data) /\ text \in Text
      /\ text = Quoted(data, p) /\ p < Len(data) /\ lines = <<>>
  BY <1>1 DEF Inv, LocalInv, BufferInv, LinesInv, DumpInv
<1>3. /\ Quote \in Text /\ Len(Quote) = 1 /\ Ellipsis \in Text /\ Len(Ellipsis) = 3
      /\ Quoted(data, 0) = Quote
  BY <1>2, QuotedLemma
<1>4. Len(text) \in Nat /\ Len(text) + max_suffix <= Size
  <2>1. Len(text) \in Nat
    BY <1>2 DEF Text
  <2>2. CASE p = 0
    <3>1. Len(text) = 1
      BY <1>2, <1>3, <2>2
    <3> QED BY <3>1, SizeAssumption DEF max_suffix, min_suffix
  <2>3. CASE HasRoom(text)
    BY <2>1, <2>3, SizeAssumption DEF HasRoom, tail_size, max_suffix, min_suffix
  <2> QED BY <1>1, <2>1, <2>2, <2>3
<1>5. append_ok(Size, text, Ellipsis)
  BY <1>3, <1>4, SizeAssumption DEF append_ok, tail_size, max_suffix, min_suffix
<1>6. text' = text \o Ellipsis /\ phase' = "suffix"
  BY <1>1, <1>5 DEF append
<1>7. text' = Shown(data, p) /\ text' \in Text
  BY <1>2, <1>3, <1>6, QuotedLemma DEF Shown
<1>8. Len(text') <= Size - min_suffix
  <2>1. Len(text') = Len(text) + 3
    <3>1. Len(text \o Ellipsis) = Len(text) + Len(Ellipsis)
      BY <1>2, <1>3, JoinLemma
    <3> QED BY <1>3, <1>6, <3>1
  <2> QED BY <1>4, <2>1, SizeAssumption DEF max_suffix, min_suffix
<1>9. BufferInv'
  BY <1>1, <1>7 DEF Inv, LocalInv, BufferInv
<1>10. IdleInv' /\ CallInv' /\ LinesInv' /\ HexInv'
  BY <1>1, <1>2, <1>6 DEF Inv, LocalInv, IdleInv, CallInv, LinesInv, HexInv, Dumping
<1>11. DumpInv'
  BY <1>1, <1>6, <1>7, <1>8 DEF DumpInv
<1> QED BY <1>9, <1>10, <1>11 DEF LocalInv

(***************************************************************************)
(* The suffix fits, and the line is written; if it does not, it is longer  *)
(* than what was kept for it.                                              *)
(***************************************************************************)
LEMMA SuffixStep ==
    ASSUME Inv, AppendSuffix
    PROVE  LocalInv'
<1> DEFINE closing == Closing(call)
           n == call.suffix
<1>1. /\ phase = "suffix" /\ phase' = "returned" /\ tree' = tree
      /\ appendf_ok(Size, text, closing) =>
            text' = text \o closing /\ lines' = Written(call, text')
      /\ ~appendf_ok(Size, text, closing) => rc' = -1 /\ UNCHANGED <<text, lines>>
      /\ UNCHANGED <<call, data, width, p>>
  BY DEF AppendSuffix
<1>2. /\ data \in Bytes /\ p \in 0 .. Len(data) /\ text \in Text /\ TreeInv
      /\ text = Shown(data, p) /\ Len(text) <= Size - min_suffix
      /\ lines = <<>> /\ lines \in Seq(Line)
  BY <1>1 DEF Inv, LocalInv, BufferInv, LinesInv, DumpInv
<1>3. /\ CallOK(call) /\ call.kind # "printf" /\ call.kind # "cstr"
      /\ PassesIn(tree, call) /\ ~FaultyIn(tree, call) /\ n \in Nat /\ n >= 5
  BY <1>1 DEF Inv, LocalInv, CallInv, Dumping, CallOK
<1>4. /\ closing \in Text /\ Len(closing) = n /\ closing[n][1] = "suffix"
      /\ Len(text) \in Nat
  BY <1>2, <1>3, ClosingLemma DEF Text
<1> HIDE DEF closing, n
<1>5. CASE appendf_ok(Size, text, closing)
  <2>1. text' = text \o closing /\ lines' = Written(call, text')
    BY <1>1, <1>5
  <2>2. /\ text' \in Text /\ Len(text') = Len(text) + n
        /\ text'[Len(text) + n] = closing[n]
    <3> DEFINE new == text \o closing
    <3>1. /\ new \in Text /\ Len(new) = Len(text) + Len(closing)
          /\ \A i \in 1 .. Len(closing) : new[Len(text) + i] = closing[i]
      BY <1>2, <1>4, JoinLemma
    <3>2. n \in 1 .. Len(closing)
      BY <1>3, <1>4
    <3> HIDE DEF new
    <3>3. new[Len(text) + n] = closing[n]
      BY <3>1, <3>2
    <3> QED BY <1>4, <2>1, <3>1, <3>3 DEF new
  <2>3. Len(text') < Size /\ text' # <<>> /\ text'[Len(text')][1] \notin Blank
    <3>1. n < Size - Len(text)
      BY <1>4, <1>5 DEF appendf_ok, tail_size
    <3>2. Len(text') < Size /\ Len(text') # 0
      BY <1>3, <1>4, <2>2, <3>1, SizeAssumption
    <3>3. text'[Len(text')][1] = "suffix"
      BY <1>4, <2>2
    <3> QED BY <3>2, <3>3 DEF Blank
  <2>4. log_buffer_trim(text') = text'
    BY <2>2, <2>3, StripNothing DEF log_buffer_trim
  <2>5. /\ lines' \in Seq(Line) /\ LinesRight(tree, call, lines')
        /\ Len(lines') = 1 /\ lines'[1].data = text'
    BY <1>2, <1>3, <2>1, <2>2, <2>3, <2>4, WrittenRight
  <2>6. BufferInv'
    BY <1>1, <2>2, <2>5 DEF Inv, LocalInv, BufferInv
  <2>7. IdleInv' /\ CallInv' /\ HexInv'
    BY <1>1, <1>3 DEF IdleInv, CallInv, HexInv, Dumping
  <2>8. LinesInv'
    BY <1>1, <1>3, <2>5 DEF LinesInv, MessageWritten
  <2>9. DumpInv'
    BY <1>1, <1>2, <1>3, <2>1, <2>3, <2>5 DEF DumpInv, DumpDone, StringDone, closing
  <2> QED BY <2>6, <2>7, <2>8, <2>9 DEF LocalInv
<1>6. CASE ~appendf_ok(Size, text, closing)
  <2>1. rc' = -1 /\ text' = text /\ lines' = <<>>
    BY <1>1, <1>2, <1>6
  <2>2. n >= min_suffix
    <3>1. ~ (n < Size - Len(text))
      BY <1>4, <1>6 DEF appendf_ok, tail_size
    <3> QED BY <1>2, <1>3, <1>4, <3>1, SizeAssumption DEF min_suffix
  <2>3. BufferInv'
    BY <1>1, <1>2, <2>1 DEF Inv, LocalInv, BufferInv
  <2>4. IdleInv' /\ CallInv' /\ HexInv'
    BY <1>1, <1>3 DEF IdleInv, CallInv, HexInv, Dumping
  <2>5. LinesInv'
    BY <1>1, <1>3, <2>1, NothingDone DEF LinesInv
  <2>6. DumpInv'
    BY <1>1, <1>3, <2>1, <2>2 DEF DumpInv, DumpDone, StringDone, n
  <2> QED BY <2>3, <2>4, <2>5, <2>6 DEF LocalInv
<1> QED BY <1>5, <1>6

(***************************************************************************)
(* A hexdump of nothing is a message; another has its lines before it.     *)
(***************************************************************************)
LEMMA HexdumpStep ==
    ASSUME Inv, NEW c, CallOK(c), c.kind # "printf", NEW n \in Nat, NEW w \in Nat,
           sancus_logger__vhexdumpf(c, n, w)
    PROVE  LocalInv'
<1> DEFINE d == [i \in 1 .. n |-> 1]
<1>1. /\ phase = "idle" /\ call' = c /\ tree' = tree
      /\ data' = d /\ width' = w /\ UNCHANGED <<text, p>>
      /\ n = 0 => lines' = Written(c, <<>>) /\ phase' = "returned"
      /\ n # 0 => phase' = "hex" /\ lines' = lines
  BY DEF sancus_logger__vhexdumpf, Enter
<1>2. text = <<>> /\ p = 0 /\ lines = <<>> /\ TreeInv
  BY <1>1 DEF Inv, LocalInv, IdleInv
<1>3. PassesIn(tree, c) /\ ~FaultyIn(tree, c) /\ c.kind # "cstr"
  BY PassesLemma DEF sancus_logger__vhexdumpf, Inv, CallOK
<1>4. d \in Bytes /\ Len(d) = n /\ 0 \in 0 .. n
  <2>1. d \in [1 .. n -> {1, 2, 4}]
    OBVIOUS
  <2> QED BY <2>1, IsASeq DEF Bytes
<1>5. <<>> \in Text /\ <<>> \in Seq(Line)
  BY DEF Text
<1> HIDE DEF d
<1>6. CASE n = 0
  <2>1. /\ phase' = "returned" /\ call' = c /\ tree' = tree /\ data' = d /\ width' = w
        /\ text' = <<>> /\ p' = 0 /\ lines' = Written(c, <<>>)
    BY <1>1, <1>2, <1>6
  <2>2. lines' \in Seq(Line) /\ LinesRight(tree, c, lines')
    BY <1>2, <1>3, <1>5, <2>1, WrittenRight
  <2>3. BufferInv'
    BY <1>4, <1>5, <2>1, <2>2 DEF BufferInv
  <2>4. IdleInv' /\ CallInv' /\ HexInv'
    BY <2>1 DEF IdleInv, CallInv, HexInv, Dumping
  <2>5. LinesInv'
    BY <2>1, <2>2 DEF LinesInv, MessageWritten
  <2>6. DumpInv'
    BY <1>3, <2>1 DEF DumpInv, DumpDone, StringDone
  <2> QED BY <2>3, <2>4, <2>5, <2>6 DEF LocalInv
<1>7. CASE n # 0
  <2>1. /\ phase' = "hex" /\ call' = c /\ tree' = tree /\ data' = d /\ width' = w
        /\ text' = <<>> /\ p' = 0 /\ lines' = <<>>
    BY <1>1, <1>2, <1>7
  <2>2. RowsRight(w, n, 0, <<>>)
    <3>1. Len(<<>>) * w = 0 /\ 1 .. Len(<<>>) = {}
      OBVIOUS
    <3> QED BY <3>1 DEF RowsRight
  <2>3. LinesRight(tree, c, <<>>)
    BY DEF LinesRight
  <2>4. BufferInv'
    BY <1>4, <1>5, <2>1 DEF BufferInv
  <2>5. IdleInv' /\ CallInv' /\ LinesInv'
    BY <1>3, <2>1, <2>3 DEF IdleInv, CallInv, LinesInv, Dumping
  <2>6. DumpInv'
    BY <2>1 DEF DumpInv
  <2>7. HexInv'
    BY <1>4, <2>1, <2>2 DEF HexInv
  <2> QED BY <2>4, <2>5, <2>6, <2>7 DEF LocalInv
<1> QED BY <1>6, <1>7

(***************************************************************************)
(* The lines of two right sequences.                                       *)
(***************************************************************************)
LEMMA LinesJoin ==
    ASSUME NEW T, NEW c, NEW ls \in Seq(Line), NEW more \in Seq(Line),
           LinesRight(T, c, ls), LinesRight(T, c, more)
    PROVE  ls \o more \in Seq(Line) /\ LinesRight(T, c, ls \o more)
<1> DEFINE new == ls \o more
           m == Len(ls)
<1>1. /\ new \in Seq(Line) /\ m \in Nat /\ Len(more) \in Nat
      /\ Len(new) = m + Len(more)
      /\ \A k \in 1 .. m + Len(more) : new[k] = IF k <= m THEN ls[k] ELSE more[k - m]
  OBVIOUS
<1> HIDE DEF new, m
<1>2. ASSUME NEW k \in 1 .. Len(new) PROVE PassesIn(T, c) /\ LineRight(T, c, new[k])
  <2>1. CASE k <= m
    <3>1. k \in 1 .. Len(ls) /\ new[k] = ls[k]
      BY <1>1, <2>1 DEF m
    <3> QED BY <3>1 DEF LinesRight
  <2>2. CASE ~ (k <= m)
    <3>1. k - m \in 1 .. Len(more) /\ new[k] = more[k - m]
      BY <1>1, <2>2
    <3> QED BY <3>1 DEF LinesRight
  <2> QED BY <2>1, <2>2
<1>3. LinesRight(T, c, new)
  BY <1>2 DEF LinesRight
<1> QED BY <1>1, <1>3 DEF new

(***************************************************************************)
(* One more line of a hexdump; if its lines fit, it shows its bytes.       *)
(***************************************************************************)
LEMMA HexRowStep ==
    ASSUME Inv, HexRow
    PROVE  LocalInv'
<1> DEFINE left == Len(data) - p
           n == IF width = 0 \/ left < width THEN left ELSE width
           row == Row(text, p, n)
<1>1. /\ phase = "hex" /\ p < Len(data) /\ tree' = tree
      /\ lines' = lines \o Written(call, row) /\ p' = p + n
      /\ \/ phase' = "returned" /\ text' = row
         \/ phase' = "hex" /\ text' = <<>>
      /\ UNCHANGED <<call, data, width>>
  BY DEF HexRow, sancus_buffer_reset
<1>2. /\ data \in Bytes /\ Len(data) \in Nat /\ p \in Nat /\ width \in Nat /\ TreeInv
      /\ text = <<>> /\ lines \in Seq(Line) /\ LinesRight(tree, call, lines)
  BY <1>1 DEF Inv, LocalInv, BufferInv, LinesInv, DumpInv, Bytes
<1>3. /\ CallOK(call) /\ call.kind # "printf" /\ call.kind # "cstr"
      /\ PassesIn(tree, call) /\ ~FaultyIn(tree, call)
  BY <1>1 DEF Inv, LocalInv, CallInv, Dumping, CallOK
<1>4. /\ n \in Nat /\ (width > 0 => n <= width) /\ n <= Len(data)
      /\ p + n \in 0 .. Len(data)
      /\ n = IF width = 0 \/ Len(data) - p < width THEN Len(data) - p ELSE width
  BY <1>1, <1>2
<1> HIDE DEF n
<1>5. /\ row \in Plain
      /\ (IF width = 0 THEN 4 * n + 3 ELSE 9 + 4 * width + 3) <= Size =>
            /\ row = Expected(width, p, n) /\ row # <<>> /\ log_buffer_trim(row) = row
  BY <1>2, <1>4, RowLemma
<1> HIDE DEF row
<1>6. row \in Text /\ (row # <<>> => Head(row) # Head(Quote))
  BY <1>5, PlainLemma
<1> DEFINE more == Written(call, row)
<1>7. /\ more \in Seq(Line) /\ LinesRight(tree, call, more)
      /\ log_buffer_trim(row) # <<>> =>
            more[1] \in Line /\ more = <<more[1]>> /\ more[1].data = log_buffer_trim(row)
  BY <1>2, <1>3, <1>6, WrittenRight
<1> HIDE DEF more
<1>8. lines' \in Seq(Line) /\ LinesRight(tree, call, lines')
  BY <1>1, <1>2, <1>7, LinesJoin DEF more
<1>9. BufferInv'
  <2>1. text' \in Text
    <3>1. <<>> \in Text
      BY DEF Text
    <3> QED BY <1>1, <1>6, <3>1
  <2> QED BY <1>1, <1>2, <1>4, <1>8, <2>1 DEF BufferInv
<1>10. IdleInv' /\ CallInv'
  BY <1>1, <1>3 DEF IdleInv, CallInv, Dumping
<1>11. LinesInv'
  BY <1>1, <1>3, <1>8 DEF LinesInv, MessageWritten
<1>12. DumpInv'
  BY <1>1, <1>3, <1>6 DEF DumpInv, DumpDone, StringDone
<1>13. HexInv'
  <2> SUFFICES ASSUME phase' = "hex", RowSizeOf(width, Len(data)) <= Size
               PROVE  RowsRight(width, Len(data), p + n, lines')
    BY <1>1 DEF HexInv
  <2>1. RowsRight(width, Len(data), p, lines)
    BY <1>1 DEF Inv, LocalInv, HexInv
  <2>2. (IF width = 0 THEN 4 * n + 3 ELSE 9 + 4 * width + 3) <= Size
    <3>1. (IF width = 0 THEN 4 * Len(data) + 3 ELSE 9 + 4 * width + 3) <= Size
      BY DEF RowSizeOf
    <3>2. 4 * n <= 4 * Len(data)
      BY <1>2, <1>4
    <3> QED BY <1>2, <1>4, <3>1, <3>2, SizeAssumption
  <2>3. /\ more[1] \in Line /\ more = <<more[1]>>
        /\ more[1].data = Expected(width, p, n)
    BY <1>5, <1>7, <2>2
  <2>4. RowsRight(width, Len(data), p + n, lines \o <<more[1]>>)
    BY <1>1, <1>2, <1>4, <2>1, <2>3, RowsNext
  <2> QED BY <1>1, <2>3, <2>4 DEF more
<1> QED BY <1>9, <1>10, <1>11, <1>12, <1>13 DEF LocalInv

(***************************************************************************)
(* A hexdump is done.                                                      *)
(***************************************************************************)
LEMMA HexDoneStep ==
    ASSUME Inv, HexDone
    PROVE  LocalInv'
<1>1. /\ phase = "hex" /\ phase' = "returned" /\ tree' = tree
      /\ UNCHANGED <<call, data, width, text, p, lines>>
  BY DEF HexDone
<1>2. text = <<>> /\ LinesRight(tree, call, lines)
  BY <1>1 DEF Inv, LocalInv, LinesInv, DumpInv
<1>3. CallOK(call) /\ call.kind # "printf" /\ call.kind # "cstr"
  BY <1>1 DEF Inv, LocalInv, CallInv, Dumping, CallOK
<1>4. BufferInv'
  BY <1>1 DEF Inv, LocalInv, BufferInv
<1>5. IdleInv' /\ CallInv' /\ HexInv'
  BY <1>1, <1>3 DEF IdleInv, CallInv, HexInv, Dumping
<1>6. LinesInv'
  BY <1>1, <1>2, <1>3 DEF LinesInv, MessageWritten
<1>7. DumpInv'
  BY <1>1, <1>2, <1>3 DEF DumpInv, DumpDone, StringDone
<1> QED BY <1>4, <1>5, <1>6, <1>7 DEF LocalInv

(***************************************************************************)
(* A C string is formatted in one step.                                    *)
(***************************************************************************)
LEMMA StringStep ==
    ASSUME Inv, NEW n \in Nat \ {0}, NEW d \in Bytes, sancus_fmt_ascii_cstr(n, d)
    PROVE  LocalInv'
<1> DEFINE e == StringOf(n, d)
           c == [kind |-> "cstr", size |-> n]
<1>1. /\ phase = "idle" /\ phase' = "returned" /\ call' = c /\ data' = d
      /\ text' = e.t /\ p' = e.taken /\ rc' = Len(e.t)
      /\ UNCHANGED <<width, lines>>
  BY DEF sancus_fmt_ascii_cstr, StringOf
<1>2. width = 0 /\ lines = <<>>
  BY <1>1 DEF Inv, LocalInv, IdleInv
<1>3. /\ e \in Taken /\ e.taken <= Len(d) /\ e.t = EncodingsOf(d, e.taken)
      /\ Len(e.t) < n
      /\ e.taken < Len(d) => Len(e.t) + d[e.taken + 1] >= n
  BY StringLemma
<1>4. c.kind = "cstr" /\ c.size = n
  OBVIOUS
<1> HIDE DEF e, c
<1>5. e.taken \in 0 .. Len(d)
  BY <1>3 DEF Taken, Bytes
<1>6. e.t \in Text /\ (e.t # <<>> => Head(e.t) # Head(Quote))
  BY <1>3, <1>5, EncodingsLemma, PlainLemma
<1>7. BufferInv'
  <2>1. <<>> \in Seq(Line)
    OBVIOUS
  <2> QED BY <1>1, <1>2, <1>5, <1>6, <2>1 DEF BufferInv
<1>8. IdleInv' /\ CallInv' /\ HexInv' /\ LinesInv'
  BY <1>1, <1>4 DEF IdleInv, CallInv, HexInv, LinesInv, Dumping
<1>9. DumpInv'
  BY <1>1, <1>3, <1>4, <1>6 DEF DumpInv, DumpDone, StringDone
<1> QED BY <1>7, <1>8, <1>9 DEF LocalInv

(***************************************************************************)
(* The call returns.                                                       *)
(***************************************************************************)
LEMMA ReturnStep ==
    ASSUME Return
    PROVE  LocalInv'
<1>1. /\ phase' = "idle" /\ data' = <<>> /\ width' = 0 /\ text' = <<>> /\ p' = 0
      /\ lines' = <<>>
  BY DEF Return
<1>2. <<>> \in Bytes /\ Len(<<>>) = 0 /\ <<>> \in Text /\ <<>> \in Seq(Line) /\ 0 \in 0 .. 0
  BY DEF Bytes, Text
<1>3. BufferInv'
  BY <1>1, <1>2 DEF BufferInv
<1> QED BY <1>1, <1>3 DEF LocalInv, IdleInv, CallInv, LinesInv, DumpInv, HexInv, Dumping

----------------------------------------------------------------------------
(* The theorems about a call.                                              *)

(***************************************************************************)
(* A message, whoever logs it.                                             *)
(***************************************************************************)
LEMMA MessageStep ==
    ASSUME Inv, LogMessage
    PROVE  LocalInv'
<1>1. PICK l \in Loggers \cup {NULL},
           f \in IF changes <= MaxFull THEN DOMAIN Macros ELSE {"error", "warn", "info", "debug"} :
        \E func \in Names(f), gate \in Gates(f), answer \in Answers(l),
           s \in IF changes <= MaxFull THEN Messages ELSE {<<>>, Solid(1)},
           formats \in {TRUE, changes > MaxFull} :
            /\ s = <<>> => formats
            /\ LET c == Call("printf", l, f, func, gate, s, answer, formats, 0)
               IN  Refuse(c) \/ sancus_logger__vprintf(c)
  BY DEF LogMessage
<1>2. PICK func \in Names(f), gate \in Gates(f), answer \in Answers(l),
           s \in IF changes <= MaxFull THEN Messages ELSE {<<>>, Solid(1)},
           formats \in {TRUE, changes > MaxFull} :
              LET c == Call("printf", l, f, func, gate, s, answer, formats, 0)
              IN  Refuse(c) \/ sancus_logger__vprintf(c)
  BY <1>1
<1>3. f \in DOMAIN Macros
  <2>1. {"error", "warn", "info", "debug"} \subseteq DOMAIN Macros
    BY CallLemma
  <2> QED BY <1>1, <2>1
<1>4. s \in Seq(Kinds) /\ answer \in Int /\ l \in Nodes /\ func \in Nat
  BY <1>2, CallLemma DEF Nodes
<1> DEFINE printf == "printf"
           c == Call(printf, l, f, func, gate, s, answer, formats, 0)
<1>5. printf \in {"printf", "dump", "hexdump"} /\ (Refuse(c) \/ sancus_logger__vprintf(c))
  BY <1>2
<1> HIDE DEF printf
<1>6. CallOK(c)
  BY <1>3, <1>4, <1>5, CallLemma
<1> HIDE DEF c
<1>7. CASE Refuse(c)
  BY <1>6, <1>7, RefuseStep
<1>8. CASE sancus_logger__vprintf(c)
  BY <1>6, <1>8, PrintfStep
<1> QED BY <1>5, <1>7, <1>8

(***************************************************************************)
(* A dump.                                                                 *)
(***************************************************************************)
LEMMA DataStep ==
    ASSUME Inv, LogData
    PROVE  LocalInv'
<1> DEFINE dump == "dump"
           error == "error"
           gate == {ERR}
           s == Solid(2)
<1>1. PICK l \in Loggers \cup {NULL}, formats \in BOOLEAN, suffix \in Endings :
      \E answer \in Answers(l) :
        LET c == Call(dump, l, error, 0, gate, s, answer, formats, suffix)
        IN  Refuse(c) \/ NoData(c) \/ \E d \in Data : sancus_logger__vdumpf(c, d)
  BY DEF LogData
<1>2. PICK answer \in Answers(l) :
        LET c == Call(dump, l, error, 0, gate, s, answer, formats, suffix)
        IN  Refuse(c) \/ NoData(c) \/ \E d \in Data : sancus_logger__vdumpf(c, d)
  BY <1>1
<1>3. /\ dump \in {"printf", "dump", "hexdump"} /\ dump # "printf" /\ l \in Nodes
      /\ s \in Seq(Kinds) /\ answer \in Int /\ error \in DOMAIN Macros
      /\ suffix \in Nat /\ suffix >= 5
  BY CallLemma, SuffixAssumption DEF Nodes
<1> DEFINE c == Call(dump, l, error, 0, gate, s, answer, formats, suffix)
<1> HIDE DEF dump, error, gate, s
<1>4. CallOK(c) /\ c.kind # "printf" /\ c.suffix >= 5
  BY <1>3, CallLemma
<1>5. Refuse(c) \/ NoData(c) \/ \E d \in Data : sancus_logger__vdumpf(c, d)
  BY <1>2
<1> HIDE DEF c
<1>6. CASE Refuse(c) \/ NoData(c)
  BY <1>4, <1>6, RefuseStep
<1>7. CASE \E d \in Data : sancus_logger__vdumpf(c, d)
  <2>1. PICK d \in Data : sancus_logger__vdumpf(c, d)
    BY <1>7
  <2>2. d \in Bytes
    BY CallLemma
  <2> QED BY <1>4, <2>1, <2>2, DumpStep
<1> QED BY <1>5, <1>6, <1>7

(***************************************************************************)
(* A hexdump.                                                              *)
(***************************************************************************)
LEMMA HexStep ==
    ASSUME Inv, LogHex
    PROVE  LocalInv'
<1> DEFINE hexdump == "hexdump"
           gate == {WARN}
           s == Solid(2)
<1>1. PICK l \in Loggers \cup {NULL}, f \in {"warn", "trace"}, formats \in BOOLEAN :
      \E func \in Names(f), answer \in Answers(l) :
        LET c == Call(hexdump, l, f, func, gate, s, answer, formats, 0)
        IN  \/ Refuse(c) \/ NoData(c)
            \/ \E n \in 0 .. MaxData, w \in Widths : sancus_logger__vhexdumpf(c, n, w)
  BY DEF LogHex
<1>2. PICK func \in Names(f), answer \in Answers(l) :
        LET c == Call(hexdump, l, f, func, gate, s, answer, formats, 0)
        IN  \/ Refuse(c) \/ NoData(c)
            \/ \E n \in 0 .. MaxData, w \in Widths : sancus_logger__vhexdumpf(c, n, w)
  BY <1>1
<1>3. /\ hexdump \in {"printf", "dump", "hexdump"} /\ hexdump # "printf" /\ l \in Nodes
      /\ s \in Seq(Kinds) /\ answer \in Int /\ f \in DOMAIN Macros /\ func \in Nat
  BY CallLemma DEF Nodes
<1> DEFINE c == Call(hexdump, l, f, func, gate, s, answer, formats, 0)
<1> HIDE DEF hexdump, gate, s
<1>4. CallOK(c) /\ c.kind # "printf"
  BY <1>3, CallLemma
<1>5. \/ Refuse(c) \/ NoData(c)
      \/ \E n \in 0 .. MaxData, w \in Widths : sancus_logger__vhexdumpf(c, n, w)
  BY <1>2
<1> HIDE DEF c
<1>6. CASE Refuse(c) \/ NoData(c)
  BY <1>4, <1>6, RefuseStep
<1>7. CASE \E n \in 0 .. MaxData, w \in Widths : sancus_logger__vhexdumpf(c, n, w)
  <2>1. PICK n \in 0 .. MaxData, w \in Widths : sancus_logger__vhexdumpf(c, n, w)
    BY <1>7
  <2>2. n \in Nat /\ w \in Nat
    BY BoundsAssumption
  <2> QED BY <1>4, <2>1, <2>2, HexdumpStep
<1> QED BY <1>5, <1>6, <1>7

(***************************************************************************)
(* Every step keeps the invariant.                                         *)
(***************************************************************************)
LEMMA InvStep == Inv /\ [Next]_vars => Inv'
<1> SUFFICES ASSUME Inv, [Next]_vars PROVE Inv'
  OBVIOUS
<1>1. TreeInv'
  BY TreeStepLemma DEF TreeStep, Inv
<1>2. LocalInv'
  <2>1. CASE phase = "idle" /\ Configure /\ UNCHANGED locals
    BY <2>1, ConfiguredStep DEF Inv
  <2>2. CASE LogMessage
    BY <2>2, MessageStep
  <2>3. CASE LogData
    BY <2>3, DataStep
  <2>4. CASE LogHex
    BY <2>4, HexStep
  <2>5. CASE FormatString
    <3>1. PICK n \in 1 .. 2 * MaxData, d \in Data : sancus_fmt_ascii_cstr(n, d)
      BY <2>5 DEF FormatString
    <3>2. n \in Nat \ {0} /\ d \in Bytes
      BY CallLemma, BoundsAssumption
    <3> QED BY <3>1, <3>2, StringStep
  <2>6. CASE EncodeBlock
    BY <2>6, EncodeStep
  <2>7. CASE AllEncoded
    BY <2>7, AllEncodedStep
  <2>8. CASE TakeBack
    BY <2>8, TakeBackStep
  <2>9. CASE AppendEllipsis
    BY <2>9, EllipsisStep
  <2>10. CASE AppendSuffix
    BY <2>10, SuffixStep
  <2>11. CASE HexRow
    BY <2>11, HexRowStep
  <2>12. CASE HexDone
    BY <2>12, HexDoneStep
  <2>13. CASE Return
    BY <2>13, ReturnStep
  <2>14. CASE UNCHANGED vars
    BY <2>14 DEF vars, locals, tree, Inv, LocalInv, BufferInv, IdleInv, CallInv, LinesInv,
       DumpInv, HexInv
  <2> QED BY <2>1, <2>2, <2>3, <2>4, <2>5, <2>6, <2>7, <2>8, <2>9, <2>10, <2>11, <2>12,
             <2>13, <2>14 DEF Next
<1> QED BY <1>1, <1>2 DEF Inv

(***************************************************************************)
(* The inductive invariant of the logger: the tree is a tree, and each     *)
(* phase of a call has in its buffer, its lines and its result what it     *)
(* should.                                                                 *)
(***************************************************************************)
THEOREM LogCallInvariant == Spec => []Inv
<1>1. Init => Inv
  BY TreeInitStep, InitStep DEF Init, Inv
<1> QED BY <1>1, InvStep, PTL DEF Spec

(***************************************************************************)
(* Whatever the tree of loggers and the sizes of the buffers, what is      *)
(* logged at a level that is let through arrives at the nearest backend    *)
(* that can take it, with the nearest prefix, unless that is as long as    *)
(* its buffer, and its message, unless its context fills the buffer; what  *)
(* is not let through arrives nowhere (sancus_logger__vprintf, log_write). *)
(***************************************************************************)
THEOREM EveryLineDelivered == Spec => []LineDelivered
<1>1. Inv => LineDelivered
  <2> SUFFICES ASSUME Inv, phase = "returned", call.kind # "cstr"
               PROVE  /\ \A k \in DOMAIN lines :
                            LetsThrough(call.log, call.gate) /\ RightBackend(lines[k])
                            /\ RightPrefix(lines[k]) /\ RightMessage(lines[k])
                      /\ (call.kind = "printf" /\ LetsThrough(call.log, call.gate)
                          /\ ~Faulty(call)) =>
                            \/ Len(lines) = 1
                            \/ LET nothing == [to |-> NULL, prefix |-> <<>>, msg |-> <<>>]
                               IN  lines = <<>> /\ RightPrefix(nothing) /\ RightMessage(nothing)
    BY DEF LineDelivered
  <2>1. /\ CallOK(call) /\ TreeInv /\ lines \in Seq(Line)
        /\ LinesRight(tree, call, lines) /\ MessageWritten(tree, call, lines)
    BY DEF Inv, LocalInv, CallInv, LinesInv, BufferInv
  <2>2. /\ LetsThrough(call.log, call.gate) <=> PassesIn(tree, call)
        /\ Faulty(call) <=> FaultyIn(tree, call)
    BY <2>1, PassesLemma
  <2>3. \A line : PrefixRight(tree, call, line.prefix) => RightPrefix(line)
    <3>1. FirstIn(call.log, {x \in Loggers : prefixer[x] \/ prefix[x] # NULL})
            = PrefixingIn(tree, call)
      BY FirstInLemma DEF PrefixingIn, Prefixed, tree
    <3> QED BY <3>1 DEF RightPrefix, PrefixRight, tree
  <2>4. \A line : MessageRight(call, line.msg) => RightMessage(line)
    BY DEF RightMessage, MessageRight, Context
  <2>5. \A line : line.to = BackendIn(tree, call) => RightBackend(line)
    <3>1. FirstIn(call.log, {x \in Loggers : backend[x] \notin NoBackend})
            = First(parent, call.log, Backed(backend))
      BY FirstInLemma DEF Backed
    <3> QED BY <3>1 DEF RightBackend, BackendIn, tree
  <2>6. ASSUME NEW k \in DOMAIN lines
        PROVE  LetsThrough(call.log, call.gate) /\ RightBackend(lines[k])
               /\ RightPrefix(lines[k]) /\ RightMessage(lines[k])
    <3>1. k \in 1 .. Len(lines)
      BY <2>1
    <3>2. PassesIn(tree, call) /\ LineRight(tree, call, lines[k])
      BY <2>1, <3>1 DEF LinesRight
    <3> QED BY <2>2, <2>3, <2>4, <2>5, <3>2 DEF LineRight
  <2>7. ASSUME call.kind = "printf", LetsThrough(call.log, call.gate), ~Faulty(call)
        PROVE  \/ Len(lines) = 1
               \/ LET nothing == [to |-> NULL, prefix |-> <<>>, msg |-> <<>>]
                  IN  lines = <<>> /\ RightPrefix(nothing) /\ RightMessage(nothing)
    <3> DEFINE nothing == [to |-> NULL, prefix |-> <<>>, msg |-> <<>>]
    <3>1. \/ Len(lines) = 1
          \/ lines = <<>> /\ PrefixRight(tree, call, <<>>) /\ MessageRight(call, <<>>)
      BY <2>1, <2>2, <2>7 DEF MessageWritten
    <3>2. nothing.prefix = <<>> /\ nothing.msg = <<>>
      OBVIOUS
    <3> HIDE DEF nothing
    <3>3. \/ Len(lines) = 1
          \/ lines = <<>> /\ RightPrefix(nothing) /\ RightMessage(nothing)
      BY <2>3, <2>4, <3>1, <3>2
    <3> QED BY <3>3 DEF nothing
  <2> QED BY <2>6, <2>7
<1> QED BY <1>1, LogCallInvariant, PTL

(***************************************************************************)
(* Whatever the bytes and the size of the buffer, a dump of less than      *)
(* 100000 bytes, whose suffix has less than the min_suffix of              *)
(* sancus_logger__vdumpf, reaches the backend with its quote, whole        *)
(* encodings, an ellipsis exactly if bytes are missing, and its suffix; a  *)
(* larger one does or fails with nothing written; a C string has as many   *)
(* whole encodings as there is room for (sancus_fmt_ascii_cstr).           *)
(***************************************************************************)
THEOREM DumpsComplete == Spec => []DumpComplete
<1>1. Inv => DumpComplete
  <2> SUFFICES ASSUME Inv, phase = "returned"
               PROVE  /\ (text # <<>> /\ Head(text) = Head(Quote)) =>
                            \/ /\ Len(lines) = 1 /\ lines[1].data = text
                               /\ text = Quote \o Encodings(p)
                                           \o (IF p < Len(data) THEN Ellipsis ELSE <<>>)
                                           \o Closing(call)
                               /\ Len(text) < Size
                            \/ lines = <<>> /\ rc = -1 /\ call.suffix >= min_suffix
                      /\ call.kind = "cstr" =>
                            /\ text = Encodings(p) /\ rc = Len(text) /\ Len(text) < call.size
                            /\ p < Len(data) => Len(text) + data[p + 1] >= call.size
    BY DEF DumpComplete
  <2>1. DumpDone(call, data, p, text, lines, rc) /\ StringDone(call, data, p, text, rc)
    BY DEF Inv, LocalInv, DumpInv
  <2>2. Encodings(p) = EncodingsOf(data, p)
    BY DEF Encodings, EncodingsOf
  <2> QED BY <2>1, <2>2 DEF DumpDone, StringDone, Shown, Quoted
<1> QED BY <1>1, LogCallInvariant, PTL

(***************************************************************************)
(* Whatever the bytes per line, a hexdump whose lines fit the buffer shows *)
(* every byte, up to the line whose writing failed                         *)
(* (sancus_logger__vhexdumpf).                                             *)
(***************************************************************************)
THEOREM HexdumpsComplete == Spec => []HexComplete
<1>1. Inv => HexComplete
  <2> SUFFICES ASSUME Inv, phase = "hex", RowSize <= Size
               PROVE  /\ \A k \in 1 .. Len(lines) :
                            LET from == (k - 1) * width
                                n == IF width = 0 \/ Len(data) - from < width
                                     THEN Len(data) - from ELSE width
                            IN  n > 0 /\ lines[k].data = ExpectedRow(from, n)
                      /\ p = (IF width = 0 \/ Len(lines) * width > Len(data)
                              THEN (IF lines = <<>> THEN 0 ELSE Len(data))
                              ELSE Len(lines) * width)
    BY DEF HexComplete
  <2>1. RowSizeOf(width, Len(data)) <= Size
    BY DEF RowSize, RowSizeOf
  <2>2. RowsRight(width, Len(data), p, lines)
    BY <2>1 DEF Inv, LocalInv, HexInv
  <2>3. \A from, n : ExpectedRow(from, n) = Expected(width, from, n)
    BY DEF ExpectedRow, Expected
  <2> QED BY <2>2, <2>3 DEF RowsRight
<1> QED BY <1>1, LogCallInvariant, PTL
=============================================================================
