---------------------------- MODULE LoggerProofs ----------------------------
(***************************************************************************)
(* Any number of threads that log any lines to any descriptors write each  *)
(* line in one piece and in its length, whatever part of it writev() takes *)
(* at a time.                                                              *)
(***************************************************************************)
EXTENDS Logger, FiniteSetTheorems, SequenceTheorems, WellFoundedInduction, TLAPS

----------------------------------------------------------------------------
(* The inductive invariant.                                                *)

Elements == [base : Nat, len : Nat \ {0}]
Pieces == [call : Nat, n : Nat]

Types ==
    /\ backend \in Fds /\ mutex \in Threads \cup {None}
    /\ pc \in [Threads -> {"idle", "lock", "write", "unlock"}]
    /\ call \in [Threads -> Nat]
    /\ iov \in [Threads -> Seq(Elements)]
    /\ fd \in [Threads -> Fds \cup {NoFd}]
    /\ size \in Seq(Nat \ {0}) /\ Len(size) <= MaxCalls
    /\ out \in [Fds -> Seq(Pieces)]
    /\ \A f \in Fds : \A i \in 1 .. Len(out[f]) : out[f][i].call \in 1 .. Len(size)
    /\ intact \subseteq 1 .. Len(size) /\ done \subseteq 1 .. Len(size)

\* Who is in writev() has the mutex, and every thread a call of its own.
Exclusive ==
    /\ \A t \in Threads : pc[t] \in {"write", "unlock"} => mutex = t
    /\ \A t \in Threads : pc[t] = "idle" => call[t] = 0
    /\ \A t \in Threads : pc[t] # "idle" => call[t] \in 1 .. Len(size)
    /\ \A t, u \in Threads :
          pc[t] # "idle" /\ pc[u] # "idle" /\ call[t] = call[u] => t = u

\* No call has two pieces.
OnePiece ==
    \A f, g \in Fds :
        \A i \in 1 .. Len(out[f]), j \in 1 .. Len(out[g]) :
            out[f][i].call = out[g][j].call => f = g /\ i = j

\* Nothing of a call is written: all of it is left.
Untouched(c, v) ==
    /\ Total(v) = size[c]
    /\ \A f \in Fds : \A i \in 1 .. Len(out[f]) : out[f][i].call # c

\* Some of a call is written, last of all: the rest is left.
Begun(c, v, o) ==
    /\ Len(o) > 0 /\ o[Len(o)].call = c
    /\ o[Len(o)].n + Total(v) = size[c]

LineOf(t) ==
    /\ pc[t] = "lock" => call[t] \notin done /\ Untouched(call[t], iov[t])
    /\ pc[t] = "write" =>
          /\ call[t] \notin done /\ fd[t] \in Fds
          /\ \/ Untouched(call[t], iov[t])
             \/ Begun(call[t], iov[t], out[fd[t]])

Lines == \A t \in Threads : LineOf(t)

Finished ==
    \A c \in done :
        \E f \in Fds : \E i \in 1 .. Len(out[f]) :
            out[f][i].call = c /\ out[f][i].n = size[c]

IInv == Types /\ Exclusive /\ OnePiece /\ Lines /\ Finished

----------------------------------------------------------------------------
(* Lengths and vectors.                                                    *)

(***************************************************************************)
(* A set of naturals that is not empty has a least element: what is proved *)
(* of all naturals below is proved of the least one it might not hold for. *)
(***************************************************************************)
LEMMA LeastNumber ==
    ASSUME NEW T, T \subseteq Nat, T # {}
    PROVE  \E x \in T : \A y \in T : x <= y
<1> DEFINE R == {ss \in Nat \X Nat : ss[1] < ss[2]}
<1>1. IsWellFoundedOn(R, Nat)
  BY ONLY NatLessThanWellFounded, Zenon DEF OpToRel
<1>2. PICK x \in T : \A y \in T : <<y, x>> \notin R
  BY <1>1, WFMin, Zenon
<1>3. ASSUME NEW y \in T PROVE x <= y
  <2>1. <<y, x>> \notin R
    BY <1>2
  <2>2. x \in Nat /\ y \in Nat
    OBVIOUS
  <2> QED BY <2>1, <2>2
<1> QED BY <1>3

(***************************************************************************)
(* Sums of any number of lengths are well defined.                         *)
(***************************************************************************)
LEMMA SumsExist ==
    ASSUME NEW lens, NEW max \in Nat
    PROVE  \E g : g = [k \in 0 .. max |-> IF k = 0 THEN 0 ELSE g[k - 1] + lens[k]]
<1> DEFINE Is(g, m) == g = [k \in 0 .. m |-> IF k = 0 THEN 0 ELSE g[k - 1] + lens[k]]
           T == {m \in Nat : ~ \E g : Is(g, m)}
<1>1. SUFFICES ASSUME T # {} PROVE FALSE
  OBVIOUS
<1>2. PICK m \in T : \A y \in T : m <= y
  BY <1>1, LeastNumber
<1>3. m # 0
  <2>1. Is([k \in 0 .. 0 |-> 0], 0)
    OBVIOUS
  <2> QED BY <2>1
<1>4. m - 1 \in Nat /\ m - 1 \notin T
  <2>1. m \in Nat
    OBVIOUS
  <2>2. m - 1 \in Nat /\ ~ (m <= m - 1)
    BY <2>1, <1>3
  <2> HIDE DEF T
  <2> QED BY <2>2, <1>2
<1>5. PICK g : Is(g, m - 1)
  BY <1>4
<1> DEFINE f == [k \in 0 .. m |-> IF k = m THEN g[m - 1] + lens[m] ELSE g[k]]
<1>6. Is(f, m)
  BY <1>4, <1>5
<1> QED BY <1>6, <1>2

(***************************************************************************)
(* Sums is what its recursive definition says, and its values natural.     *)
(***************************************************************************)
LEMMA SumsLemma ==
    ASSUME NEW lens, Len(lens) \in Nat, \A k \in 1 .. Len(lens) : lens[k] \in Nat
    PROVE  /\ Sums(lens)[0] = 0
           /\ \A k \in 1 .. Len(lens) : Sums(lens)[k] = Sums(lens)[k - 1] + lens[k]
           /\ \A k \in 0 .. Len(lens) : Sums(lens)[k] \in Nat
<1> DEFINE s == Sums(lens)
           max == Len(lens)
<1>1. s = [k \in 0 .. max |-> IF k = 0 THEN 0 ELSE s[k - 1] + lens[k]]
  BY SumsExist DEF Sums
<1> HIDE DEF s
<1>2. s[0] = 0 /\ \A k \in 1 .. max : s[k] = s[k - 1] + lens[k]
  BY <1>1
<1>3. \A k \in 0 .. max : s[k] \in Nat
  <2> DEFINE T == {k \in 0 .. max : s[k] \notin Nat}
  <2>1. SUFFICES ASSUME T # {} PROVE FALSE
    OBVIOUS
  <2>2. PICK k \in T : \A y \in T : k <= y
    <3>1. T \subseteq Nat
      OBVIOUS
    <3> QED BY <2>1, <3>1, LeastNumber, Zenon
  <2>3. k \in 0 .. max /\ s[k] \notin Nat
    OBVIOUS
  <2>4. k \in 1 .. max /\ k - 1 \in 0 .. max /\ ~ (k <= k - 1)
    BY <2>3, <1>2
  <2>5. s[k - 1] \in Nat
    BY <2>2, <2>4
  <2> QED BY <1>2, <2>3, <2>4, <2>5
<1> QED BY <1>2, <1>3 DEF s

(***************************************************************************)
(* Nothing else adds up the lengths.                                       *)
(***************************************************************************)
LEMMA SumsUnique ==
    ASSUME NEW lens, Len(lens) \in Nat, \A k \in 1 .. Len(lens) : lens[k] \in Nat,
           NEW g, g[0] = 0,
           \A k \in 1 .. Len(lens) : g[k] = g[k - 1] + lens[k]
    PROVE  \A k \in 0 .. Len(lens) : Sums(lens)[k] = g[k]
<1> DEFINE s == Sums(lens)
           max == Len(lens)
           T == {k \in 0 .. max : s[k] # g[k]}
<1>1. s[0] = 0 /\ \A k \in 1 .. max : s[k] = s[k - 1] + lens[k]
  BY SumsLemma
<1> HIDE DEF s
<1>2. SUFFICES ASSUME T # {} PROVE FALSE
  BY DEF s
<1>3. PICK k \in T : \A y \in T : k <= y
  <2>1. T \subseteq Nat
    OBVIOUS
  <2> QED BY <1>2, <2>1, LeastNumber, Zenon
<1>4. k \in 0 .. max /\ s[k] # g[k]
  OBVIOUS
<1>5. k \in 1 .. max /\ k - 1 \in 0 .. max /\ ~ (k <= k - 1)
  BY <1>4, <1>1
<1>6. s[k - 1] = g[k - 1]
  BY <1>3, <1>5
<1> QED BY <1>1, <1>4, <1>5, <1>6

(***************************************************************************)
(* The bytes of a vector: each element adds its own.                       *)
(***************************************************************************)
LEMMA BytesLemma ==
    ASSUME NEW v \in Seq(Elements)
    PROVE  /\ Len(v) \in Nat
           /\ Bytes(v)[0] = 0
           /\ \A k \in 1 .. Len(v) : /\ v[k].len \in Nat \ {0}
                                     /\ v[k].base \in Nat
                                     /\ Bytes(v)[k] = Bytes(v)[k - 1] + v[k].len
           /\ \A k \in 0 .. Len(v) : Bytes(v)[k] \in Nat
           /\ Total(v) \in Nat
<1> DEFINE lens == [i \in 1 .. Len(v) |-> v[i].len]
<1>1. Len(v) \in Nat /\ \A k \in 1 .. Len(v) : v[k] \in Elements
  OBVIOUS
<1>2. \A k \in 1 .. Len(v) : v[k].len \in Nat \ {0} /\ v[k].base \in Nat
  BY <1>1 DEF Elements
<1>3. Len(lens) = Len(v) /\ \A k \in 1 .. Len(v) : lens[k] = v[k].len
  BY <1>1
<1>4. Bytes(v) = Sums(lens)
  BY DEF Bytes
<1> HIDE DEF lens
<1>5. /\ Sums(lens)[0] = 0
      /\ \A k \in 1 .. Len(v) : Sums(lens)[k] = Sums(lens)[k - 1] + lens[k]
      /\ \A k \in 0 .. Len(v) : Sums(lens)[k] \in Nat
  BY <1>1, <1>2, <1>3, SumsLemma
<1> QED BY <1>1, <1>2, <1>3, <1>4, <1>5 DEF Total

(***************************************************************************)
(* What adds up like the bytes of a vector, is the bytes of the vector.    *)
(***************************************************************************)
LEMMA BytesUnique ==
    ASSUME NEW v \in Seq(Elements), NEW g, g[0] = 0,
           \A k \in 1 .. Len(v) : g[k] = g[k - 1] + v[k].len
    PROVE  Total(v) = g[Len(v)]
<1> DEFINE lens == [i \in 1 .. Len(v) |-> v[i].len]
<1>1. Len(v) \in Nat /\ \A k \in 1 .. Len(v) : v[k].len \in Nat
  BY BytesLemma
<1>2. Len(lens) = Len(v) /\ \A k \in 1 .. Len(v) : lens[k] = v[k].len
  BY <1>1
<1>3. Bytes(v) = Sums(lens)
  BY DEF Bytes
<1> HIDE DEF lens
<1>4. \A k \in 0 .. Len(lens) : Sums(lens)[k] = g[k]
  BY <1>1, <1>2, SumsUnique
<1> QED BY <1>1, <1>2, <1>3, <1>4 DEF Total

(***************************************************************************)
(* A vector that is not empty has bytes, an empty one has none.            *)
(***************************************************************************)
LEMMA TotalPositive ==
    ASSUME NEW v \in Seq(Elements)
    PROVE  /\ v = <<>> => Total(v) = 0
           /\ v # <<>> => Total(v) > 0
<1> DEFINE b == Bytes(v)
           len == Len(v)
<1>1. /\ len \in Nat /\ b[0] = 0
      /\ \A k \in 1 .. len : v[k].len \in Nat \ {0} /\ b[k] = b[k - 1] + v[k].len
      /\ \A k \in 0 .. len : b[k] \in Nat
  BY BytesLemma
<1>2. Total(v) = b[len]
  BY DEF Total
<1>3. len = 0 <=> v = <<>>
  BY EmptySeq
<1> HIDE DEF b, len
<1>4. ASSUME len # 0 PROVE Total(v) > 0
  <2>1. len \in 1 .. len /\ len - 1 \in 0 .. len
    BY <1>1, <1>4
  <2>2. b[len] = b[len - 1] + v[len].len /\ b[len - 1] \in Nat /\ v[len].len \in Nat \ {0}
    BY <1>1, <2>1
  <2> QED BY <1>2, <2>2
<1> QED BY <1>1, <1>2, <1>3, <1>4

(***************************************************************************)
(* wc bytes of a vector cover some elements entirely, and end in the next. *)
(***************************************************************************)
LEMMA WholeLemma ==
    ASSUME NEW v \in Seq(Elements), NEW wc \in 0 .. Total(v)
    PROVE  /\ Whole(v, wc) \in 0 .. Len(v)
           /\ Bytes(v)[Whole(v, wc)] <= wc
           /\ Whole(v, wc) < Len(v) => wc < Bytes(v)[Whole(v, wc) + 1]
<1> DEFINE b == Bytes(v)
           max == Len(v)
           P(k) == b[k] <= wc /\ (k < max => wc < b[k + 1])
<1>1. max \in Nat /\ b[0] = 0 /\ \A k \in 0 .. max : b[k] \in Nat
  BY BytesLemma
<1>2. b[max] \in Nat /\ wc \in 0 .. b[max]
  BY <1>1 DEF Total
<1> HIDE DEF b, max
<1>3. \E k \in 0 .. max : P(k)
  <2> DEFINE T == {k \in 1 .. max : wc < b[k]}
  <2>1. CASE T = {}
    <3>1. max = 0 \/ max \in 1 .. max
      BY <1>1
    <3>2. b[max] <= wc
      BY <1>1, <1>2, <2>1, <3>1
    <3>3. max \in 0 .. max /\ ~ (max < max)
      BY <1>1
    <3> QED BY <3>2, <3>3
  <2>2. CASE T # {}
    <3>1. PICK k \in T : \A y \in T : k <= y
      <4>1. T \subseteq Nat
        OBVIOUS
      <4> QED BY <2>2, <4>1, LeastNumber, Zenon
    <3>2. k \in 1 .. max /\ wc < b[k]
      OBVIOUS
    <3>3. k - 1 \in 0 .. max /\ ~ (k <= k - 1) /\ (k - 1) + 1 = k
      BY <1>1, <3>2
    <3>4. b[k - 1] <= wc
      <4>1. CASE k = 1
        BY <4>1, <1>1, <1>2
      <4>2. CASE k # 1
        <5>1. k - 1 \in 1 .. max
          BY <4>2, <1>1, <3>2
        <5>2. ~ (wc < b[k - 1])
          BY <5>1, <3>1, <3>3
        <5> QED BY <5>2, <3>3, <1>1, <1>2
      <4> QED BY <4>1, <4>2
    <3>5. P(k - 1)
      BY <3>2, <3>3, <3>4
    <3> QED BY <3>3, <3>5
  <2> QED BY <2>1, <2>2
<1>4. Whole(v, wc) = CHOOSE k \in 0 .. max : P(k)
  BY DEF Whole, b, max
<1> HIDE DEF P
<1>5. Whole(v, wc) \in 0 .. max /\ P(Whole(v, wc))
  BY <1>3, <1>4
<1> QED BY <1>5 DEF P, b, max

(***************************************************************************)
(* "consume accordingly": wc bytes fewer are left, wherever they end.      *)
(***************************************************************************)
LEMMA ConsumeLemma ==
    ASSUME NEW v \in Seq(Elements), NEW wc \in 1 .. Total(v)
    PROVE  /\ Consume(v, wc) \in Seq(Elements)
           /\ Total(Consume(v, wc)) = Total(v) - wc
<1> DEFINE b == Bytes(v)
           max == Len(v)
           k == Whole(v, wc)
           rest == SubSeq(v, k + 1, max)
           m == max - k
<1>1. /\ max \in Nat /\ b[0] = 0
      /\ \A i \in 1 .. max : /\ v[i].len \in Nat \ {0} /\ v[i].base \in Nat
                             /\ b[i] = b[i - 1] + v[i].len
      /\ \A i \in 0 .. max : b[i] \in Nat
      /\ Total(v) = b[max]
  BY BytesLemma DEF Total
<1>2. wc \in Nat \ {0} /\ wc <= b[max] /\ wc \in 0 .. Total(v)
  BY <1>1
<1>3. k \in 0 .. max /\ b[k] <= wc /\ (k < max => wc < b[k + 1])
  BY <1>2, WholeLemma
<1> HIDE DEF k
<1>4. m \in Nat /\ k + m = max
  BY <1>1, <1>3
<1>5. /\ rest \in Seq(Elements) /\ Len(rest) = m
      /\ \A i \in 1 .. m : rest[i] = v[k + i]
  <2>1. k + 1 \in 1 .. max + 1 /\ max \in k .. max
    BY <1>1, <1>3
  <2>2. rest \in Seq(Elements)
    BY <2>1, <1>1, <1>3
  <2>3. Len(rest) = m
    BY <2>1, <1>1, <1>3
  <2>4. ASSUME NEW i \in 1 .. m PROVE rest[i] = v[k + i]
    BY <2>1, <2>4, <1>1, <1>3
  <2> QED BY <2>2, <2>3, <2>4
<1> HIDE DEF b, max, rest, m
<1>6. \A i \in 1 .. m : /\ k + i \in 1 .. max /\ (k + i) - 1 = k + (i - 1)
                        /\ k + (i - 1) \in 0 .. max
                        /\ i - 1 \in 0 .. m
  BY <1>1, <1>3, <1>4
<1>7. \A i \in 1 .. m : /\ rest[i].len = v[k + i].len
                        /\ rest[i].len \in Nat \ {0} /\ rest[i].base \in Nat
                        /\ b[k + i] = b[k + (i - 1)] + rest[i].len
  BY <1>1, <1>5, <1>6
<1> DEFINE n == wc - b[k]
<1>8. n \in Nat /\ b[k] \in Nat /\ b[max] \in Nat
  BY <1>1, <1>2, <1>3
<1>9. Consume(v, wc) = IF n = 0 THEN rest
                       ELSE [rest EXCEPT ![1] = [base |-> @.base + wc, len |-> @.len - n]]
  BY DEF Consume, k, b, rest, max
<1>10. CASE n = 0
  <2> DEFINE g == [i \in 0 .. m |-> b[k + i] - b[k]]
  <2>1. b[k] = wc /\ Consume(v, wc) = rest
    BY <1>2, <1>8, <1>9, <1>10
  <2>2. g[0] = 0 /\ g[m] = b[max] - wc
    BY <1>3, <1>4, <1>8, <2>1
  <2>3. ASSUME NEW i \in 1 .. m PROVE g[i] = g[i - 1] + rest[i].len
    <3>1. i \in 0 .. m /\ i - 1 \in 0 .. m
      BY <1>4, <1>6
    <3>2. /\ b[k + (i - 1)] \in Nat /\ rest[i].len \in Nat
          /\ b[k + i] = b[k + (i - 1)] + rest[i].len
      BY <1>1, <1>6, <1>7
    <3>3. g[i] = b[k + i] - b[k] /\ g[i - 1] = b[k + (i - 1)] - b[k]
      BY <3>1
    <3> HIDE DEF g
    <3> QED BY <3>2, <3>3, <1>8
  <2> HIDE DEF g
  <2>4. Total(rest) = g[m]
    BY <1>5, <2>2, <2>3, BytesUnique
  <2> QED BY <1>1, <1>5, <2>1, <2>2, <2>4
<1>11. CASE n # 0
  <2>1. k < max /\ wc < b[k + 1] /\ m >= 1 /\ 1 \in 1 .. m
    BY <1>1, <1>2, <1>3, <1>4, <1>8, <1>11
  <2>2. b[k + 1] = b[k] + rest[1].len /\ rest[1].len \in Nat /\ rest[1].base \in Nat
    <3>1. k + (1 - 1) = k
      BY <1>3
    <3> QED BY <1>7, <2>1, <3>1
  <2> DEFINE first == [base |-> rest[1].base + wc, len |-> rest[1].len - n]
             new == [rest EXCEPT ![1] = first]
             g == [i \in 0 .. m |-> IF i = 0 THEN 0 ELSE b[k + i] - wc]
  <2>3. first \in Elements /\ first.len = b[k + 1] - wc
    <3>1. first.len = rest[1].len - n /\ first.base = rest[1].base + wc
      OBVIOUS
    <3>2. rest[1].len - n = b[k + 1] - wc
      BY <1>2, <1>8, <2>1, <2>2
    <3>3. b[k + 1] - wc \in Nat \ {0}
      BY <1>2, <1>8, <2>1, <2>2
    <3>4. rest[1].base + wc \in Nat
      BY <1>2, <2>2
    <3> QED BY <3>1, <3>2, <3>3, <3>4 DEF Elements
  <2> HIDE DEF first
  <2>4. new \in Seq(Elements) /\ Len(new) = m
    BY <1>5, <2>1, <2>3
  <2>5. new[1] = first /\ \A i \in 2 .. m : new[i] = rest[i]
    BY <1>4, <1>5, <2>1
  <2>6. Consume(v, wc) = new
    BY <1>9, <1>11 DEF first
  <2>7. g[0] = 0 /\ g[m] = b[max] - wc
    BY <1>4, <2>1
  <2>8. ASSUME NEW i \in 1 .. m PROVE g[i] = g[i - 1] + new[i].len
    <3>1. CASE i = 1
      <4>1. g[1] = b[k + 1] - wc /\ g[0] = 0
        BY <2>1, <1>4
      <4>2. 1 - 1 = 0
        OBVIOUS
      <4>3. b[k + 1] - wc \in Int
        BY <1>2, <1>8, <2>2
      <4> HIDE DEF g, new
      <4> QED BY <3>1, <4>1, <4>2, <4>3, <2>3, <2>5
    <3>2. CASE i # 1
      <4>1. i \in 2 .. m /\ i \in 0 .. m /\ i - 1 \in 0 .. m /\ i - 1 # 0
        BY <3>2, <1>4
      <4>2. /\ b[k + (i - 1)] \in Nat /\ rest[i].len \in Nat
            /\ b[k + i] = b[k + (i - 1)] + rest[i].len
        BY <1>1, <1>6, <1>7
      <4>3. g[i] = b[k + i] - wc /\ g[i - 1] = b[k + (i - 1)] - wc
        BY <4>1
      <4>4. new[i] = rest[i]
        BY <2>5, <4>1
      <4> HIDE DEF g, new
      <4> QED BY <4>2, <4>3, <4>4, <1>2
    <3> QED BY <3>1, <3>2
  <2> HIDE DEF g, new
  <2>9. Total(new) = g[m]
    BY <2>4, <2>7, <2>8, BytesUnique
  <2> QED BY <1>1, <2>4, <2>6, <2>7, <2>9
<1> QED BY <1>10, <1>11

(***************************************************************************)
(* The vector of a line is never empty: it has at least the prelude.       *)
(***************************************************************************)
LEMMA VectorLemma ==
    ASSUME NEW plen \in Lengths, NEW mlen \in Lengths, NEW dlen \in Lengths
    PROVE  LET v == Vector(Parts(plen, mlen, dlen))
           IN  v \in Seq(Elements) /\ Total(v) \in Nat \ {0}
<1> DEFINE lens == Parts(plen, mlen, dlen)
           v == Vector(lens)
<1>1. plen \in Nat /\ mlen \in Nat /\ dlen \in Nat /\ Prelude \in Nat \ {0}
  BY LengthsAssumption
<1>2. lens \in Seq(Nat \ {0}) /\ Len(lens) # 0
  <2> DEFINE If(cond, len) == IF cond THEN <<len>> ELSE <<>>
             Ls == Seq(Nat \ {0})
             a == If(plen > 0, plen)
             b == If(plen > 0 /\ mlen + dlen > 0, 2)
             c == If(mlen > 0, mlen)
             d == If(mlen > 0 /\ dlen > 0, 2)
             e == If(dlen > 0, dlen)
  <2>1. <<Prelude>> \in Ls /\ <<1>> \in Ls
    BY <1>1
  <2>2. a \in Ls /\ b \in Ls /\ c \in Ls /\ d \in Ls /\ e \in Ls
    <3>1. <<>> \in Ls /\ \A x \in Nat \ {0} : <<x>> \in Ls
      OBVIOUS
    <3>2. 2 \in Nat \ {0} /\ \A x \in Nat : x > 0 => x \in Nat \ {0}
      OBVIOUS
    <3> HIDE DEF Ls
    <3> QED BY <1>1, <3>1, <3>2
  <2>3. lens = <<Prelude>> \o a \o b \o c \o d \o e \o <<1>>
    BY DEF Parts
  <2>4. \A s, t \in Ls : s \o t \in Ls /\ Len(s \o t) = Len(s) + Len(t)
    OBVIOUS
  <2>5. Len(<<1>>) = 1 /\ \A s \in Ls : Len(s) \in Nat
    OBVIOUS
  <2> HIDE DEF Ls, a, b, c, d, e, lens
  <2>6. <<Prelude>> \o a \o b \o c \o d \o e \in Ls
    BY <2>1, <2>2, <2>4
  <2>7. lens \in Ls /\ Len(lens) = Len(<<Prelude>> \o a \o b \o c \o d \o e) + Len(<<1>>)
    BY <2>1, <2>3, <2>4, <2>6
  <2> QED BY <2>5, <2>6, <2>7 DEF Ls
<1> HIDE DEF lens
<1>3. Len(lens) \in Nat /\ \A i \in 1 .. Len(lens) : lens[i] \in Nat \ {0}
  BY <1>2
<1>4. \A i \in 0 .. Len(lens) : Sums(lens)[i] \in Nat
  BY <1>3, SumsLemma
<1>5. v \in Seq(Elements) /\ Len(v) = Len(lens)
  <2>1. \A i \in 1 .. Len(lens) : i - 1 \in 0 .. Len(lens)
    BY <1>3
  <2>2. v \in [1 .. Len(lens) -> Elements]
    BY <1>3, <1>4, <2>1 DEF Vector, Elements
  <2> QED BY <1>3, <2>2
<1> HIDE DEF v
<1>6. v # <<>>
  BY <1>2, <1>5
<1>7. Total(v) \in Nat /\ Total(v) > 0
  BY <1>5, <1>6, BytesLemma, TotalPositive
<1> QED BY <1>5, <1>7 DEF v, lens

----------------------------------------------------------------------------
(* The steps.                                                              *)

LEMMA InitStep == Init => IInv
<1> SUFFICES ASSUME Init PROVE IInv
  OBVIOUS
<1>1. Types
  BY FdsAssumption, MaxCallsAssumption, EmptySeq DEF Init, Types, NoFd, None
<1>2. Exclusive
  BY DEF Init, Exclusive
<1>3. OnePiece
  BY DEF Init, OnePiece
<1>4. Lines
  BY DEF Init, Lines, LineOf
<1>5. Finished
  BY DEF Init, Finished
<1> QED BY <1>1, <1>2, <1>3, <1>4, <1>5 DEF IInv

(***************************************************************************)
(* Pieces stay one when nothing is written, and so do finished lines.      *)
(***************************************************************************)
LEMMA SamePieces ==
    ASSUME out' = out
    PROVE  /\ OnePiece => OnePiece'
           /\ Finished /\ size' = size /\ done' = done => Finished'
<1>1. OnePiece => OnePiece'
  BY DEF OnePiece
<1>2. Finished /\ size' = size /\ done' = done => Finished'
  BY DEF Finished
<1> QED BY <1>1, <1>2

(***************************************************************************)
(* A thread's line is as it was when nothing is written and the thread     *)
(* does nothing; other calls may begin and end.                            *)
(***************************************************************************)
LEMMA OtherLine ==
    ASSUME Exclusive, NEW u \in Threads, LineOf(u),
           pc'[u] = pc[u], call'[u] = call[u], iov'[u] = iov[u], fd'[u] = fd[u],
           out' = out, \A i \in 1 .. Len(size) : size'[i] = size[i],
           pc[u] # "idle" /\ call[u] \in done' => call[u] \in done
    PROVE  LineOf(u)'
<1>1. pc[u] # "idle" => size'[call[u]] = size[call[u]]
  BY DEF Exclusive
<1>2. CASE pc[u] = "lock"
  BY <1>1, <1>2 DEF LineOf, Untouched
<1>3. CASE pc[u] = "write"
  BY <1>1, <1>3 DEF LineOf, Untouched, Begun
<1> QED BY <1>2, <1>3 DEF LineOf

(***************************************************************************)
(* A new call has a number and a line of its own.                          *)
(***************************************************************************)
LEMMA LogWriteStep ==
    ASSUME IInv, NEW t \in Threads,
           NEW plen \in Lengths, NEW mlen \in Lengths, NEW dlen \in Lengths,
           log_write(t, plen, mlen, dlen)
    PROVE  IInv'
<1> DEFINE v == Vector(Parts(plen, mlen, dlen))
           c == Len(size) + 1
<1>1. v \in Seq(Elements) /\ Total(v) \in Nat \ {0}
  BY VectorLemma
<1> HIDE DEF v
<1>2. /\ pc[t] = "idle" /\ Len(size) < MaxCalls
      /\ iov' = [iov EXCEPT ![t] = v] /\ size' = Append(size, Total(v))
      /\ call' = [call EXCEPT ![t] = Len(size')] /\ intact' = intact \cup {Len(size')}
      /\ pc' = [pc EXCEPT ![t] = "lock"]
      /\ backend' = backend /\ out' = out /\ mutex' = mutex /\ fd' = fd /\ done' = done
  BY DEF log_write, v, shared
<1>3. Types /\ Exclusive /\ OnePiece /\ Lines /\ Finished
  BY DEF IInv
<1>4. Len(size) \in Nat /\ size \in Seq(Nat \ {0})
  BY <1>3 DEF Types
<1>5. /\ Len(size') = c /\ c \in Nat /\ c <= MaxCalls /\ size' \in Seq(Nat \ {0})
      /\ size'[c] = Total(v) /\ \A i \in 1 .. Len(size) : size'[i] = size[i]
  BY <1>1, <1>2, <1>4, MaxCallsAssumption
<1>6. 1 .. Len(size') = 1 .. Len(size) \cup {c} /\ c \notin 1 .. Len(size)
  BY <1>4, <1>5
<1> HIDE DEF c
<1>7. call'[t] = c /\ pc'[t] = "lock" /\ iov'[t] = v
  BY <1>2, <1>3, <1>5 DEF Types
<1>8. \A u \in Threads \ {t} : call'[u] = call[u] /\ pc'[u] = pc[u] /\ iov'[u] = iov[u]
  BY <1>2, <1>3 DEF Types
<1>9. Types'
  <2>1. pc' \in [Threads -> {"idle", "lock", "write", "unlock"}]
    BY <1>2, <1>3 DEF Types
  <2>2. call' \in [Threads -> Nat] /\ iov' \in [Threads -> Seq(Elements)]
    BY <1>1, <1>2, <1>3, <1>5 DEF Types
  <2>3. \A f \in Fds : \A i \in 1 .. Len(out[f]) : out[f][i].call \in 1 .. Len(size')
    BY <1>3, <1>6 DEF Types
  <2>4. intact' \subseteq 1 .. Len(size') /\ done \subseteq 1 .. Len(size')
    BY <1>2, <1>3, <1>5, <1>6 DEF Types
  <2> QED BY <1>2, <1>3, <1>5, <2>1, <2>2, <2>3, <2>4 DEF Types
<1>10. Exclusive'
  <2>1. \A u \in Threads : pc'[u] \in {"write", "unlock"} => mutex' = u
    BY <1>2, <1>3, <1>7, <1>8 DEF Exclusive
  <2>2. \A u \in Threads : pc'[u] # "idle" => call'[u] \in 1 .. Len(size')
    BY <1>3, <1>6, <1>7, <1>8 DEF Exclusive
  <2>3. \A u \in Threads \ {t} : pc'[u] # "idle" => call'[u] # call'[t]
    BY <1>3, <1>6, <1>7, <1>8 DEF Exclusive
  <2>4. \A u, w \in Threads \ {t} :
           pc'[u] # "idle" /\ pc'[w] # "idle" /\ call'[u] = call'[w] => u = w
    BY <1>3, <1>8 DEF Exclusive
  <2>5. \A u \in Threads : pc'[u] = "idle" => call'[u] = 0
    BY <1>3, <1>7, <1>8 DEF Exclusive
  <2> QED BY <2>1, <2>2, <2>3, <2>4, <2>5 DEF Exclusive
<1>11. OnePiece'
  BY <1>2, <1>3, SamePieces
<1>12. Lines'
  <2>1. LineOf(t)'
    <3>1. c \notin done /\ \A f \in Fds : \A i \in 1 .. Len(out[f]) : out[f][i].call # c
      BY <1>3, <1>6 DEF Types
    <3> QED BY <3>1, <1>2, <1>5, <1>7 DEF LineOf, Untouched
  <2>2. ASSUME NEW u \in Threads \ {t} PROVE LineOf(u)'
    BY <1>2, <1>3, <1>5, <1>8, OtherLine DEF Lines
  <2> QED BY <2>1, <2>2 DEF Lines
<1>13. Finished'
  <2>1. \A x \in done : size'[x] = size[x]
    BY <1>3, <1>5 DEF Types
  <2>2. ASSUME NEW x \in done
        PROVE  \E f \in Fds : \E i \in 1 .. Len(out[f]) :
                  out[f][i].call = x /\ out[f][i].n = size'[x]
    BY <1>3, <2>1 DEF Finished
  <2> QED BY <1>2, <2>2 DEF Finished
<1> QED BY <1>9, <1>10, <1>11, <1>12, <1>13 DEF IInv

(***************************************************************************)
(* The mutex is taken when no thread writes.                               *)
(***************************************************************************)
LEMMA LockStep ==
    ASSUME IInv, NEW t \in Threads, pthread_mutex_lock(t)
    PROVE  IInv'
<1>1. /\ pc[t] = "lock" /\ mutex = None /\ mutex' = t
      /\ fd' = [fd EXCEPT ![t] = backend] /\ pc' = [pc EXCEPT ![t] = "write"]
      /\ backend' = backend /\ out' = out /\ call' = call /\ iov' = iov /\ size' = size
      /\ intact' = intact /\ done' = done
  BY DEF pthread_mutex_lock, MutexFree, shared
<1>2. Types /\ Exclusive /\ OnePiece /\ Lines /\ Finished
  BY DEF IInv
<1>3. pc'[t] = "write" /\ fd'[t] = backend /\ backend \in Fds
  BY <1>1, <1>2 DEF Types
<1>4. \A u \in Threads \ {t} : pc'[u] = pc[u] /\ fd'[u] = fd[u]
  BY <1>1, <1>2 DEF Types
<1>5. Types'
  BY <1>1, <1>2 DEF Types
<1>6. Exclusive'
  <2>1. \A u \in Threads : pc[u] \notin {"write", "unlock"}
    BY <1>1, <1>2, ThreadsAssumption DEF Exclusive
  <2> QED BY <1>1, <1>2, <1>3, <1>4, <2>1 DEF Exclusive
<1>7. OnePiece' /\ Finished'
  BY <1>1, <1>2, SamePieces
<1>8. Lines'
  <2>1. LineOf(t)'
    BY <1>1, <1>2, <1>3 DEF Lines, LineOf, Untouched
  <2>2. ASSUME NEW u \in Threads \ {t} PROVE LineOf(u)'
    BY <1>1, <1>2, <1>4, OtherLine DEF Lines
  <2> QED BY <2>1, <2>2 DEF Lines
<1> QED BY <1>5, <1>6, <1>7, <1>8 DEF IInv

(***************************************************************************)
(* sancus_writev ends, having failed or with nothing left.                 *)
(***************************************************************************)
LEMMA EndStep ==
    ASSUME IInv, NEW t \in Threads, Fails(t) \/ Complete(t)
    PROVE  IInv'
<1>1. /\ pc[t] = "write" /\ pc' = [pc EXCEPT ![t] = "unlock"]
      /\ backend' = backend /\ mutex' = mutex /\ call' = call /\ iov' = iov /\ fd' = fd
      /\ size' = size /\ out' = out /\ intact' = intact
      /\ done' = done \/ (done' = done \cup {call[t]} /\ iov[t] = <<>>)
  BY DEF Fails, FailEnds, Complete, shared
<1>2. Types /\ Exclusive /\ OnePiece /\ Lines /\ Finished
  BY DEF IInv
<1>3. call[t] \in 1 .. Len(size)
  BY <1>1, <1>2 DEF Exclusive
<1>4. pc'[t] = "unlock" /\ \A u \in Threads \ {t} : pc'[u] = pc[u]
  BY <1>1, <1>2 DEF Types
<1>5. Types'
  <2>1. done' \subseteq 1 .. Len(size')
    BY <1>1, <1>2, <1>3 DEF Types
  <2> QED BY <1>1, <1>2, <2>1 DEF Types
<1>6. Exclusive'
  BY <1>1, <1>2, <1>4 DEF Exclusive
<1>7. OnePiece'
  BY <1>1, <1>2, SamePieces
<1>8. Lines'
  <2>1. LineOf(t)'
    BY <1>4 DEF LineOf
  <2>2. ASSUME NEW u \in Threads \ {t} PROVE LineOf(u)'
    <3>1. pc[u] # "idle" => call[u] # call[t]
      BY <1>1, <1>2 DEF Exclusive
    <3>2. pc[u] # "idle" /\ call[u] \in done' => call[u] \in done
      BY <1>1, <3>1
    <3> QED BY <1>1, <1>2, <1>4, <3>2, OtherLine DEF Lines
  <2> QED BY <2>1, <2>2 DEF Lines
<1>9. Finished'
  <2>1. CASE done' = done
    BY <1>1, <1>2, <2>1, SamePieces
  <2>2. CASE done' = done \cup {call[t]} /\ iov[t] = <<>>
    <3> DEFINE c == call[t]
               o == out[fd[t]]
    <3>1. Total(iov[t]) = 0
      <4>1. iov[t] \in Seq(Elements)
        BY <1>2 DEF Types
      <4> QED BY <2>2, <4>1, TotalPositive
    <3>2. size[c] # 0
      BY <1>2, <1>3 DEF Types
    <3>3. fd[t] \in Fds /\ Begun(c, iov[t], o)
      BY <1>1, <1>2, <3>1, <3>2 DEF Lines, LineOf, Untouched
    <3>4. o \in Seq(Pieces) /\ Len(o) \in 1 .. Len(o) /\ o[Len(o)].n \in Nat
      <4>1. o \in Seq(Pieces)
        BY <1>2, <3>3 DEF Types
      <4>2. Len(o) \in 1 .. Len(o)
        BY <4>1, <3>3 DEF Begun
      <4>3. o[Len(o)] \in Pieces
        BY <4>1, <4>2
      <4> QED BY <4>1, <4>2, <4>3 DEF Pieces
    <3>5. o[Len(o)].call = c /\ o[Len(o)].n = size[c]
      BY <3>1, <3>3, <3>4 DEF Begun
    <3> HIDE DEF c
    <3>6. \E f \in Fds : \E i \in 1 .. Len(out[f]) :
             out[f][i].call = c /\ out[f][i].n = size[c]
      BY <3>3, <3>4, <3>5
    <3> QED BY <1>1, <1>2, <2>2, <3>6 DEF Finished, c
  <2> QED BY <1>1, <2>1, <2>2
<1> QED BY <1>5, <1>6, <1>7, <1>8, <1>9 DEF IInv

(***************************************************************************)
(* The mutex is given back and the call returns.                           *)
(***************************************************************************)
LEMMA UnlockStep ==
    ASSUME IInv, NEW t \in Threads, pthread_mutex_unlock(t)
    PROVE  IInv'
<1>1. /\ pc[t] = "unlock" /\ mutex' = None /\ pc' = [pc EXCEPT ![t] = "idle"]
      /\ iov' = [iov EXCEPT ![t] = <<>>] /\ fd' = [fd EXCEPT ![t] = NoFd]
      /\ call' = [call EXCEPT ![t] = 0]
      /\ backend' = backend /\ out' = out /\ size' = size /\ intact' = intact /\ done' = done
  BY DEF pthread_mutex_unlock, shared
<1>2. Types /\ Exclusive /\ OnePiece /\ Lines /\ Finished
  BY DEF IInv
<1>3. /\ pc'[t] = "idle" /\ call'[t] = 0
      /\ \A u \in Threads \ {t} : /\ pc'[u] = pc[u] /\ iov'[u] = iov[u]
                                  /\ fd'[u] = fd[u] /\ call'[u] = call[u]
  BY <1>1, <1>2 DEF Types
<1>4. Types'
  <2>1. <<>> \in Seq(Elements)
    OBVIOUS
  <2>2. /\ pc' \in [Threads -> {"idle", "lock", "write", "unlock"}]
        /\ iov' \in [Threads -> Seq(Elements)] /\ fd' \in [Threads -> Fds \cup {NoFd}]
        /\ call' \in [Threads -> Nat]
    BY <1>1, <1>2, <2>1 DEF Types
  <2> QED BY <1>1, <1>2, <2>2 DEF Types
<1>5. Exclusive'
  <2>1. \A u \in Threads \ {t} : pc[u] \notin {"write", "unlock"}
    BY <1>1, <1>2 DEF Exclusive
  <2> QED BY <1>1, <1>2, <1>3, <2>1 DEF Exclusive
<1>6. OnePiece' /\ Finished'
  BY <1>1, <1>2, SamePieces
<1>7. Lines'
  <2>1. LineOf(t)'
    BY <1>3 DEF LineOf
  <2>2. ASSUME NEW u \in Threads \ {t} PROVE LineOf(u)'
    BY <1>1, <1>2, <1>3, OtherLine DEF Lines
  <2> QED BY <2>1, <2>2 DEF Lines
<1> QED BY <1>4, <1>5, <1>6, <1>7 DEF IInv

(***************************************************************************)
(* What a descriptor has after it got wc more bytes of a call that is the  *)
(* last one there or not there at all.                                     *)
(***************************************************************************)
LEMMA GotLemma ==
    ASSUME NEW o \in Seq(Pieces), NEW c \in Nat, NEW wc \in Nat,
           (Len(o) > 0 /\ o[Len(o)].call = c) \/ (\A i \in 1 .. Len(o) : o[i].call # c)
    PROVE  LET p == Got(o, c, wc)
               last == Len(p)
           IN  /\ p \in Seq(Pieces) /\ last \in Nat \ {0} /\ last \in {Len(o), Len(o) + 1}
               /\ p[last].call = c
               /\ p[last].n = wc + (IF last = Len(o) THEN o[last].n ELSE 0)
               /\ last = Len(o) => o[last].call = c
               /\ last # Len(o) => \A i \in 1 .. Len(o) : o[i].call # c
               /\ \A i \in 1 .. last - 1 : i \in 1 .. Len(o) /\ p[i] = o[i]
<1> DEFINE p == Got(o, c, wc)
           max == Len(o)
<1>1. max \in Nat /\ \A i \in 1 .. max : o[i] \in Pieces /\ o[i].call \in Nat /\ o[i].n \in Nat
  <2>1. max \in Nat /\ \A i \in 1 .. max : o[i] \in Pieces
    OBVIOUS
  <2> QED BY <2>1 DEF Pieces
<1>2. o # <<>> <=> max > 0
  BY <1>1, EmptySeq
<1>3. CASE max > 0 /\ o[max].call = c
  <2> DEFINE x == [o[max] EXCEPT !.n = @ + wc]
  <2>1. p = [o EXCEPT ![max] = x]
    BY <1>2, <1>3 DEF Got
  <2>2. max \in 1 .. max
    BY <1>1, <1>3
  <2>3. x \in Pieces /\ x.call = c /\ x.n = wc + o[max].n
    BY <1>1, <1>3, <2>2 DEF Pieces
  <2> HIDE DEF x, p
  <2>4. p \in Seq(Pieces) /\ Len(p) = max /\ p[max] = x /\ \A i \in 1 .. max - 1 : p[i] = o[i]
    BY <1>1, <2>1, <2>2, <2>3
  <2>5. \A i \in 1 .. max - 1 : i \in 1 .. max
    BY <1>1
  <2> QED BY <1>1, <1>3, <2>3, <2>4, <2>5 DEF p
<1>4. CASE ~ (max > 0 /\ o[max].call = c)
  <2> DEFINE x == [call |-> c, n |-> wc]
  <2>1. p = Append(o, x)
    BY <1>2, <1>4 DEF Got
  <2>2. x \in Pieces /\ x.call = c /\ x.n = wc
    BY DEF Pieces
  <2> HIDE DEF x, p
  <2>3. /\ p \in Seq(Pieces) /\ Len(p) = max + 1 /\ p[max + 1] = x
        /\ \A i \in 1 .. max : p[i] = o[i]
    BY <1>1, <2>1, <2>2
  <2>4. (max + 1) - 1 = max /\ max + 1 # max /\ max + 1 \in Nat \ {0}
    BY <1>1
  <2>5. Len(p) = max + 1 /\ Len(p) - 1 = max
    BY <2>3, <2>4
  <2>6. p[Len(p)].n = wc + 0
    BY <2>2, <2>3
  <2>7. \A i \in 1 .. max : o[i].call # c
    BY <1>4
  <2> QED BY <2>2, <2>3, <2>4, <2>5, <2>6, <2>7 DEF p
<1> QED BY <1>3, <1>4

(***************************************************************************)
(* writev() takes any part of what is left of a line.                      *)
(***************************************************************************)
LEMMA WrittenStep ==
    ASSUME IInv, NEW t \in Threads, NEW wc \in 1 .. Total(iov[t]), Written(t, wc)
    PROVE  IInv'
<1> DEFINE v == iov[t]
           c == call[t]
           d == fd[t]
           o == out[d]
           p == Got(o, c, wc)
           last == Len(p)
<1>1. /\ pc[t] = "write" /\ iov' = [iov EXCEPT ![t] = Consume(v, wc)]
      /\ out' = [out EXCEPT ![d] = p]
      /\ intact' \subseteq intact
      /\ backend' = backend /\ mutex' = mutex /\ pc' = pc /\ call' = call /\ fd' = fd
      /\ size' = size /\ done' = done
  BY DEF Written
<1>2. Types /\ Exclusive /\ OnePiece /\ Lines /\ Finished
  BY DEF IInv
<1>3. /\ v \in Seq(Elements) /\ Total(v) \in Nat /\ wc \in Nat \ {0} /\ wc <= Total(v)
      /\ Consume(v, wc) \in Seq(Elements) /\ Total(Consume(v, wc)) = Total(v) - wc
  <2>1. v \in Seq(Elements)
    BY <1>2 DEF Types
  <2>2. Total(v) \in Nat
    BY <2>1, BytesLemma
  <2>3. wc \in Nat \ {0} /\ wc <= Total(v)
    BY <2>2
  <2> QED BY <2>1, <2>2, <2>3, ConsumeLemma
<1>4. /\ c \in 1 .. Len(size) /\ c \notin done /\ d \in Fds /\ size[c] \in Nat
      /\ Untouched(c, v) \/ Begun(c, v, o)
  <2>1. c \in 1 .. Len(size)
    BY <1>1, <1>2 DEF Exclusive
  <2>2. size[c] \in Nat
    BY <2>1, <1>2 DEF Types
  <2> QED BY <2>1, <2>2, <1>1, <1>2 DEF Lines, LineOf
<1>5. o \in Seq(Pieces) /\ Len(o) \in Nat /\ c \in Nat
  BY <1>2, <1>4 DEF Types
<1>6. /\ p \in Seq(Pieces) /\ last \in Nat \ {0} /\ last \in {Len(o), Len(o) + 1}
      /\ p[last].call = c
      /\ p[last].n = wc + (IF last = Len(o) THEN o[last].n ELSE 0)
      /\ last = Len(o) => o[last].call = c
      /\ last # Len(o) => \A i \in 1 .. Len(o) : o[i].call # c
      /\ \A i \in 1 .. last - 1 : i \in 1 .. Len(o) /\ p[i] = o[i]
  <2>1. (Len(o) > 0 /\ o[Len(o)].call = c) \/ (\A i \in 1 .. Len(o) : o[i].call # c)
    BY <1>4 DEF Untouched, Begun
  <2>2. wc \in Nat
    BY <1>3
  <2> HIDE DEF o, c
  <2> QED BY <1>5, <2>1, <2>2, GotLemma
<1> HIDE DEF p
<1>7. Begun(c, v, o) => last = Len(o)
  <2>1. Begun(c, v, o) => Len(o) \in 1 .. Len(o) /\ o[Len(o)].call = c
    BY <1>5 DEF Begun
  <2> QED BY <1>6, <2>1
<1>8. out'[d] = p /\ \A f \in Fds \ {d} : out'[f] = out[f]
  BY <1>1, <1>2, <1>4 DEF Types
<1>9. iov'[t] = Consume(v, wc) /\ \A u \in Threads \ {t} : iov'[u] = iov[u]
  BY <1>1, <1>2 DEF Types
\* Every piece is one of before, or the last of d, which is of c.
<1>10. ASSUME NEW f \in Fds, NEW i \in 1 .. Len(out'[f])
      PROVE  \/ f = d /\ i = last /\ out'[f][i].call = c
             \/ i \in 1 .. Len(out[f]) /\ out'[f][i] = out[f][i] /\ out[f][i].call # c
  <2>1. CASE f = d
    <3>1. out'[f] = p /\ i \in 1 .. last
      BY <1>8, <2>1
    <3>2. i = last \/ i \in 1 .. last - 1
      BY <1>6, <3>1
    <3>3. ASSUME i \in 1 .. last - 1 PROVE i \in 1 .. Len(o) /\ p[i] = o[i] /\ o[i].call # c
      <4>1. i \in 1 .. Len(o) /\ p[i] = o[i]
        BY <1>6, <3>3
      <4>2. CASE Untouched(c, v)
        BY <1>4, <4>1, <4>2 DEF Untouched
      <4>3. CASE Begun(c, v, o)
        <5>1. Len(o) \in 1 .. Len(o) /\ o[Len(o)].call = c
          BY <1>5, <4>3 DEF Begun
        <5>2. i # Len(o)
          BY <1>5, <1>7, <3>3, <4>3
        <5> QED BY <1>2, <1>4, <4>1, <5>1, <5>2 DEF OnePiece
      <4> QED BY <1>4, <4>1, <4>2, <4>3
    <3> QED BY <1>6, <2>1, <3>1, <3>2, <3>3
  <2>2. CASE f # d
    <3>1. out'[f] = out[f]
      BY <1>8, <2>2
    <3>2. CASE Untouched(c, v)
      BY <3>1, <3>2 DEF Untouched
    <3>3. CASE Begun(c, v, o)
      <4>1. Len(o) \in 1 .. Len(o) /\ o[Len(o)].call = c
        BY <1>5, <3>3 DEF Begun
      <4> QED BY <1>2, <1>4, <2>2, <3>1, <4>1 DEF OnePiece
    <3> QED BY <1>4, <3>2, <3>3
  <2> QED BY <2>1, <2>2
<1>11. Types'
  <2>1. iov' \in [Threads -> Seq(Elements)]
    BY <1>1, <1>2, <1>3 DEF Types
  <2>2. out' \in [Fds -> Seq(Pieces)]
    BY <1>1, <1>2, <1>6 DEF Types
  <2>3. \A f \in Fds : \A i \in 1 .. Len(out'[f]) : out'[f][i].call \in 1 .. Len(size)
    BY <1>2, <1>4, <1>10 DEF Types
  <2> QED BY <1>1, <1>2, <2>1, <2>2, <2>3 DEF Types
<1>12. Exclusive'
  BY <1>1, <1>2 DEF Exclusive
<1>13. OnePiece'
  <2> SUFFICES ASSUME NEW f \in Fds, NEW g \in Fds,
                      NEW i \in 1 .. Len(out'[f]), NEW j \in 1 .. Len(out'[g]),
                      out'[f][i].call = out'[g][j].call
               PROVE  f = g /\ i = j
    BY DEF OnePiece
  <2>1. \/ f = d /\ i = last /\ out'[f][i].call = c
        \/ i \in 1 .. Len(out[f]) /\ out'[f][i] = out[f][i] /\ out[f][i].call # c
    BY <1>10
  <2>2. \/ g = d /\ j = last /\ out'[g][j].call = c
        \/ j \in 1 .. Len(out[g]) /\ out'[g][j] = out[g][j] /\ out[g][j].call # c
    BY <1>10
  <2>3. CASE out'[f][i].call = c
    BY <2>1, <2>2, <2>3
  <2>4. CASE out'[f][i].call # c
    <3>1. /\ i \in 1 .. Len(out[f]) /\ out'[f][i] = out[f][i]
          /\ j \in 1 .. Len(out[g]) /\ out'[g][j] = out[g][j]
      BY <2>1, <2>2, <2>4
    <3>2. out[f][i].call = out[g][j].call
      BY <3>1
    <3> QED BY <1>2, <3>1, <3>2 DEF OnePiece
  <2> QED BY <2>3, <2>4
<1>14. Lines'
  <2>1. Begun(c, Consume(v, wc), p)
    <3>1. last > 0
      BY <1>6
    <3>2. p[last].n + Total(Consume(v, wc)) = size[c]
      <4>1. CASE Begun(c, v, o)
        <5>1. o[last] \in Pieces
          <6>1. last \in 1 .. Len(o)
            BY <1>5, <1>7, <4>1, <3>1
          <6> QED BY <6>1, <1>5
        <5>2. o[last].n \in Nat /\ o[last].n + Total(v) = size[c] /\ p[last].n = wc + o[last].n
          BY <1>6, <1>7, <4>1, <5>1 DEF Begun, Pieces
        <5>3. \A a, b \in Nat : (wc + a) + (b - wc) = a + b
          BY <1>3
        <5> HIDE DEF v, c, o, last
        <5> QED BY <1>3, <5>2, <5>3
      <4>2. CASE Untouched(c, v)
        <5>1. last # Len(o)
          <6>1. SUFFICES ASSUME last = Len(o) PROVE FALSE
            OBVIOUS
          <6>2. last \in 1 .. Len(o) /\ o[last].call = c
            BY <1>6, <6>1
          <6> QED BY <1>4, <4>2, <6>2 DEF Untouched
        <5>2. p[last].n = wc + 0 /\ Total(v) = size[c]
          BY <1>6, <4>2, <5>1 DEF Untouched
        <5> QED BY <1>3, <5>2
      <4> QED BY <1>4, <4>1, <4>2
    <3> QED BY <1>6, <3>1, <3>2 DEF Begun
  <2>2. LineOf(t)'
    BY <1>1, <1>4, <1>8, <1>9, <2>1 DEF LineOf, Begun
  <2>3. ASSUME NEW u \in Threads \ {t} PROVE LineOf(u)'
    <3>1. pc[u] # "idle" => call[u] # c
      BY <1>1, <1>2 DEF Exclusive
    <3>2. pc[u] # "write"
      BY <1>1, <1>2 DEF Exclusive
    <3>3. ASSUME pc[u] = "lock"
          PROVE  /\ call[u] \notin done /\ Total(iov[u]) = size[call[u]]
                 /\ \A f \in Fds : \A i \in 1 .. Len(out[f]) : out[f][i].call # call[u]
      BY <1>2, <3>3 DEF Lines, LineOf, Untouched
    <3>4. ASSUME pc[u] = "lock"
          PROVE  \A f \in Fds : \A i \in 1 .. Len(out'[f]) : out'[f][i].call # call[u]
      BY <1>10, <3>1, <3>3, <3>4
    <3> QED BY <1>1, <1>9, <3>2, <3>3, <3>4 DEF LineOf, Untouched
  <2> QED BY <2>2, <2>3 DEF Lines
<1>15. Finished'
  <2> SUFFICES ASSUME NEW x \in done
               PROVE  \E f \in Fds : \E i \in 1 .. Len(out'[f]) :
                         out'[f][i].call = x /\ out'[f][i].n = size[x]
    BY <1>1 DEF Finished
  <2>1. PICK f \in Fds : \E i \in 1 .. Len(out[f]) :
               out[f][i].call = x /\ out[f][i].n = size[x]
    BY <1>2 DEF Finished
  <2>2. PICK i \in 1 .. Len(out[f]) : out[f][i].call = x /\ out[f][i].n = size[x]
    BY <2>1
  <2>3. x # c
    BY <1>4
  <2>4. i \in 1 .. Len(out'[f]) /\ out'[f][i] = out[f][i]
    <3>1. CASE f # d
      BY <1>8, <3>1
    <3>2. CASE f = d
      <4>1. i \in 1 .. last - 1
        BY <1>5, <1>6, <2>2, <2>3, <3>2
      <4> QED BY <1>6, <1>8, <3>2, <4>1
    <3> QED BY <3>1, <3>2
  <2> QED BY <2>2, <2>4
<1> QED BY <1>11, <1>12, <1>13, <1>14, <1>15 DEF IInv

----------------------------------------------------------------------------
(***************************************************************************)
(* The inductive invariant of threads that log, write, fail and redirect.  *)
(***************************************************************************)
THEOREM LoggerInvariant == SafeSpec => []IInv
<1>1. IInv /\ [Next]_vars => IInv'
  <2> SUFFICES ASSUME IInv, [Next]_vars PROVE IInv'
    OBVIOUS
  <2>1. ASSUME NEW t \in Threads, NEW plen \in Lengths, NEW mlen \in Lengths,
               NEW dlen \in Lengths, log_write(t, plen, mlen, dlen)
        PROVE  IInv'
    BY <2>1, LogWriteStep
  <2>2. ASSUME NEW t \in Threads, pthread_mutex_lock(t) PROVE IInv'
    BY <2>2, LockStep
  <2>3. ASSUME NEW t \in Threads, Progress(t) PROVE IInv'
    BY <2>3, WrittenStep, EndStep DEF Progress
  <2>4. ASSUME NEW t \in Threads, pthread_mutex_unlock(t) PROVE IInv'
    BY <2>4, UnlockStep
  <2>5. ASSUME UNCHANGED <<mutex, pc, call, iov, fd, size, out, intact, done>>,
               backend' \in Fds
        PROVE  IInv'
    <3>1. /\ mutex' = mutex /\ pc' = pc /\ call' = call /\ iov' = iov /\ fd' = fd
          /\ size' = size /\ out' = out /\ intact' = intact /\ done' = done
      BY <2>5
    <3>2. Types' /\ Exclusive'
      BY <2>5, <3>1 DEF IInv, Types, Exclusive
    <3>3. OnePiece' /\ Finished'
      BY <3>1, SamePieces DEF IInv
    <3>4. Lines'
      BY <3>1, OtherLine DEF IInv, Lines
    <3> QED BY <3>2, <3>3, <3>4 DEF IInv
  <2>6. ASSUME NEW f \in Fds, sancus_logger_set_fd_backend(f) PROVE IInv'
    BY <2>5, <2>6 DEF sancus_logger_set_fd_backend
  <2>7. ASSUME UNCHANGED vars \/ \E t \in Threads : Interrupted(t) PROVE IInv'
    <3>1. UNCHANGED vars
      BY <2>7 DEF Interrupted
    <3> QED BY <2>5, <3>1 DEF vars, IInv, Types
  <2> QED BY <2>1, <2>2, <2>3, <2>4, <2>6, <2>7 DEF Next
<1> QED BY <1>1, InitStep, PTL DEF SafeSpec

(***************************************************************************)
(* The state of the threads, the mutex and the descriptors is well typed.  *)
(***************************************************************************)
THEOREM TypeCorrect == SafeSpec => []TypeOK
<1>1. IInv => TypeOK
  <2> SUFFICES ASSUME Types, Exclusive PROVE TypeOK
    BY DEF IInv
  <2>1. /\ Len(size) \in Nat /\ Len(size) <= MaxCalls
        /\ Calls = 1 .. Len(size) /\ size \in Seq(Nat)
    BY DEF Types, Calls
  <2>2. call \in [Threads -> 0 .. MaxCalls]
    <3>1. \A t \in Threads : call[t] = 0 \/ call[t] \in 1 .. Len(size)
      BY DEF Exclusive
    <3>2. \A t \in Threads : call[t] \in 0 .. MaxCalls
      <4>1. \A n \in 1 .. Len(size) : n \in 0 .. MaxCalls
        BY <2>1, MaxCallsAssumption
      <4>2. 0 \in 0 .. MaxCalls
        BY MaxCallsAssumption
      <4> QED BY <3>1, <4>1, <4>2
    <3> QED BY <3>2 DEF Types
  <2>3. \A t \in Threads : \A i \in 1 .. Len(iov[t]) :
           iov[t][i].base \in Nat /\ iov[t][i].len \in Nat \ {0}
    BY BytesLemma DEF Types
  <2>4. ASSUME NEW f \in Fds PROVE out[f] \in Seq([call : Calls, n : Nat])
    <3>1. out[f] \in Seq(Pieces) /\ \A i \in 1 .. Len(out[f]) : out[f][i].call \in Calls
      BY <2>1 DEF Types
    <3> DEFINE o == out[f]
    <3>2. Len(o) \in Nat /\ o \in [1 .. Len(o) -> Pieces]
      BY <3>1
    <3>3. ASSUME NEW i \in 1 .. Len(o) PROVE o[i] \in [call : Calls, n : Nat]
      <4>1. o[i] \in Pieces /\ o[i].call \in Calls
        BY <3>1, <3>2
      <4> QED BY <4>1 DEF Pieces
    <3>4. o \in [1 .. Len(o) -> [call : Calls, n : Nat]]
      BY <3>2, <3>3
    <3>5. o \in Seq([call : Calls, n : Nat])
      <4> DEFINE R == [call : Calls, n : Nat]
      <4>1. Len(o) \in Nat /\ o \in [1 .. Len(o) -> R]
        BY <3>2, <3>4
      <4> HIDE DEF o, R
      <4>2. o \in Seq(R)
        BY <4>1
      <4> QED BY <4>2 DEF R
    <3> QED BY <3>5
  <2> QED BY <2>1, <2>2, <2>3, <2>4 DEF Types, TypeOK
<1> QED BY <1>1, LoggerInvariant, PTL

(***************************************************************************)
(* fd_logger_write and sancus_writev write every line in one piece, to one *)
(* descriptor, and a call that reports success has written as many bytes   *)
(* as its line has.                                                        *)
(***************************************************************************)
THEOREM LinesInOnePiece == SafeSpec => []LinesWhole
<1>1. IInv => LinesWhole
  <2> SUFFICES ASSUME Types, OnePiece, Finished PROVE LinesWhole
    BY DEF IInv
  <2> DEFINE places(c) == {x \in Fds \X (1 .. MaxCalls) :
                             x[2] <= Len(out[x[1]]) /\ out[x[1]][x[2]].call = c}
  <2>1. Len(size) \in Nat /\ Calls = 1 .. Len(size) /\ Len(size) <= MaxCalls
    BY DEF Types, Calls
  <2>2. ASSUME NEW f \in Fds PROVE Len(out[f]) \in Nat /\ Len(out[f]) <= MaxCalls
    <3> DEFINE o == out[f]
               own == [i \in 1 .. Len(o) |-> o[i].call]
    <3>1. Len(o) \in Nat
      BY DEF Types
    <3>2. own \in Injection(1 .. Len(o), 1 .. Len(size))
      BY DEF Types, OnePiece, Injection, IsInjective
    <3>3. Len(o) = Cardinality(1 .. Len(o)) /\ Len(size) = Cardinality(1 .. Len(size))
          /\ IsFiniteSet(1 .. Len(size))
      <4>1. ASSUME NEW n \in Nat PROVE Cardinality(1 .. n) = n /\ IsFiniteSet(1 .. n)
        <5>1. 1 \in Int /\ n \in Int
          OBVIOUS
        <5>2. IsFiniteSet(1 .. n) /\ Cardinality(1 .. n) = IF 1 > n THEN 0 ELSE n - 1 + 1
          BY ONLY <5>1, FS_Interval
        <5> QED BY <5>2
      <4> HIDE DEF o
      <4> QED BY <2>1, <3>1, <4>1
    <3> HIDE DEF own
    <3>4. Cardinality(1 .. Len(o)) <= Cardinality(1 .. Len(size))
      BY <3>2, <3>3, FS_Injection
    <3> HIDE DEF o
    <3>5. Len(o) <= Len(size)
      BY <3>3, <3>4
    <3> QED BY <2>1, <3>1, <3>5, MaxCallsAssumption DEF o
  <2>3. ASSUME NEW c \in Calls, NEW x \in places(c), NEW y \in places(c) PROVE x = y
    <3>1. /\ x \in Fds \X (1 .. MaxCalls) /\ y \in Fds \X (1 .. MaxCalls)
          /\ x[2] <= Len(out[x[1]]) /\ out[x[1]][x[2]].call = c
          /\ y[2] <= Len(out[y[1]]) /\ out[y[1]][y[2]].call = c
      OBVIOUS
    <3>2. x = <<x[1], x[2]>> /\ y = <<y[1], y[2]>> /\ x[1] \in Fds /\ y[1] \in Fds
          /\ x[2] \in 1 .. MaxCalls /\ y[2] \in 1 .. MaxCalls
      BY <3>1
    <3>3. x[2] \in 1 .. Len(out[x[1]]) /\ y[2] \in 1 .. Len(out[y[1]])
      BY <2>2, <3>1, <3>2, MaxCallsAssumption
    <3>4. x[1] = y[1] /\ x[2] = y[2]
      BY <3>1, <3>2, <3>3 DEF OnePiece
    <3> QED BY <3>2, <3>4
  <2>4. ASSUME NEW c \in done PROVE \E x \in places(c) : out[x[1]][x[2]].n = size[c]
    <3>1. PICK f \in Fds : \E i \in 1 .. Len(out[f]) :
                 out[f][i].call = c /\ out[f][i].n = size[c]
      BY DEF Finished
    <3>2. PICK i \in 1 .. Len(out[f]) : out[f][i].call = c /\ out[f][i].n = size[c]
      BY <3>1
    <3>3. i \in 1 .. MaxCalls /\ i <= Len(out[f])
      BY <2>2, <3>2, MaxCallsAssumption
    <3>4. <<f, i>> \in places(c)
      BY <3>2, <3>3
    <3> QED BY <3>2, <3>4
  <2> QED BY <2>2, <2>3, <2>4 DEF LinesWhole
<1> QED BY <1>1, LoggerInvariant, PTL
=============================================================================
