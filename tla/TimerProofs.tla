---------------------------- MODULE TimerProofs ----------------------------
(***************************************************************************)
(* The timespec arithmetic is exact on non-negative times, whatever the    *)
(* units, as long as the times are within an int's count of seconds.       *)
(***************************************************************************)
EXTENDS Timer, TLAPS

----------------------------------------------------------------------------
(* Division.                                                               *)

(***************************************************************************)
(* A second is some number of nanoseconds.                                 *)
(***************************************************************************)
LEMMA NsLemma == NsPerSec \in Nat \ {0}
  BY UnitsAssumption DEF NsPerSec

(***************************************************************************)
(* Quotient and remainder.                                                 *)
(***************************************************************************)
LEMMA DivLemma ==
  ASSUME NEW n \in Nat, NEW m \in Nat \ {0}
  PROVE  /\ n = m * (n \div m) + (n % m)
         /\ n % m \in 0 .. m - 1 /\ n \div m \in Nat
  OBVIOUS

(***************************************************************************)
(* Less than one unit is no unit, of either sign.                          *)
(***************************************************************************)
LEMMA SmallLemma ==
  ASSUME NEW n \in Int, NEW m \in Nat \ {0}, -m < n, n < m
  PROVE  CDiv(n, m) = 0
<1>1. ASSUME NEW k \in Nat, k < m PROVE k \div m = 0
  BY <1>1
<1>2. CASE n >= 0
  BY <1>1, <1>2 DEF CDiv
<1>3. CASE n < 0
  <2>1. -n \in Nat /\ -n < m
    BY <1>3
  <2>2. (-n) \div m = 0
    BY <1>1, <2>1
  <2> QED BY <1>3, <2>2 DEF CDiv
<1> QED BY <1>2, <1>3

(***************************************************************************)
(* The conversion to int is harmless within its range.                     *)
(***************************************************************************)
LEMMA IntLemma ==
  ASSUME NEW x \in Int, -IntSpan <= x, x < IntSpan
  PROVE  ToInt(x) = x
<1>1. IntSpan \in Nat /\ x + IntSpan \in Nat /\ 2 * IntSpan \in Nat \ {0}
      /\ x + IntSpan < 2 * IntSpan
  BY IntAssumption
<1>2. ASSUME NEW k \in Nat, NEW m \in Nat \ {0}, k < m PROVE k % m = k
  BY <1>2
<1>3. (x + IntSpan) % (2 * IntSpan) = x + IntSpan
  BY <1>1, <1>2
<1> QED BY <1>1, <1>3 DEF ToInt

----------------------------------------------------------------------------
(* Non-negative canonical times.                                           *)

(***************************************************************************)
(* Such a time is seconds and less than a second of nanoseconds.           *)
(***************************************************************************)
LEMMA PositiveLemma ==
  ASSUME NEW ts
  PROVE  Positive(ts) <=> \E s \in Nat, n \in 0 .. NsPerSec - 1 :
                             ts = Timespec(s, n)
<1>1. ASSUME Positive(ts)
      PROVE  \E s \in Nat, n \in 0 .. NsPerSec - 1 : ts = Timespec(s, n)
  BY <1>1, NsLemma DEF Positive, Canonical, Timespec
<1>2. ASSUME NEW s \in Nat, NEW n \in 0 .. NsPerSec - 1, ts = Timespec(s, n)
      PROVE  Positive(ts)
  BY <1>2, NsLemma DEF Positive, Canonical, Timespec
<1> QED BY <1>1, <1>2

(***************************************************************************)
(* What it is worth.                                                       *)
(***************************************************************************)
LEMMA ValueLemma ==
  ASSUME NEW s \in Nat, NEW n \in Int
  PROVE  Value(Timespec(s, n)) = s * NsPerSec + n
  BY DEF Value, Timespec

(***************************************************************************)
(* sancus_time_fix carries whole seconds over and changes no value.        *)
(***************************************************************************)
LEMMA FixLemma ==
  ASSUME NEW s \in Nat, NEW n \in Nat
  PROVE  LET f == sancus_time_fix(Timespec(s, n))
         IN  Positive(f) /\ Value(f) = s * NsPerSec + n
<1>1. PICK d \in Nat, r \in 0 .. NsPerSec - 1 :
         d = n \div NsPerSec /\ n = NsPerSec * d + r
  BY NsLemma, DivLemma
<1>2. CDiv(n, NsPerSec) = d
  BY <1>1 DEF CDiv
<1>3. CASE d > 0
  <2>1. sancus_time_fix(Timespec(s, n)) = Timespec(s + d, n - d * NsPerSec)
    BY <1>2, <1>3 DEF sancus_time_fix, Timespec
  <2>2. n - d * NsPerSec = r
    BY <1>1, NsLemma
  <2>3. (s + d) * NsPerSec + r = s * NsPerSec + n
    BY <1>1, NsLemma
  <2>4. s + d \in Nat /\ r \in Int
    BY NsLemma
  <2>5. Value(Timespec(s + d, r)) = (s + d) * NsPerSec + r
    BY <2>4, ValueLemma
  <2>6. Positive(Timespec(s + d, r))
    BY <2>4, PositiveLemma
  <2> QED BY <2>1, <2>2, <2>3, <2>5, <2>6
<1>4. CASE d = 0
  <2>1. sancus_time_fix(Timespec(s, n)) = Timespec(s, n)
    BY <1>2, <1>4 DEF sancus_time_fix, Timespec
  <2>2. n \in 0 .. NsPerSec - 1
    BY <1>1, <1>4, NsLemma
  <2> QED BY <2>1, <2>2, PositiveLemma, ValueLemma
<1> QED BY <1>3, <1>4

(***************************************************************************)
(* Addition is exact.                                                      *)
(***************************************************************************)
LEMMA AddLemma ==
  ASSUME NEW a, NEW b, Positive(a), Positive(b)
  PROVE  LET c == sancus_time_add(a, b)
         IN  Positive(c) /\ Value(c) = Value(a) + Value(b)
<1>1. PICK s \in Nat, n \in 0 .. NsPerSec - 1 : a = Timespec(s, n)
  BY PositiveLemma
<1>2. PICK t \in Nat, m \in 0 .. NsPerSec - 1 : b = Timespec(t, m)
  BY PositiveLemma
<1>3. sancus_time_add(a, b) = sancus_time_fix(Timespec(s + t, n + m))
  BY <1>1, <1>2 DEF sancus_time_add, time_add, Timespec
<1>4. s + t \in Nat /\ n + m \in Nat
  OBVIOUS
<1>5. (s + t) * NsPerSec + (n + m)
        = (s * NsPerSec + n) + (t * NsPerSec + m)
  BY NsLemma
<1> QED BY <1>1, <1>2, <1>3, <1>4, <1>5, FixLemma, ValueLemma

(***************************************************************************)
(* Whole seconds decide, then nanoseconds.                                 *)
(***************************************************************************)
LEMMA OrderLemma ==
  ASSUME NEW s \in Nat, NEW n \in 0 .. NsPerSec - 1,
         NEW t \in Nat, NEW m \in 0 .. NsPerSec - 1
  PROVE  (s * NsPerSec + n > t * NsPerSec + m) <=> (s > t \/ (s = t /\ n > m))
<1> DEFINE N == NsPerSec
<1>1. N \in Nat \ {0}
  BY NsLemma
<1>2. CASE s > t
  <2>1. PICK k \in Nat : s = t + 1 + k
    <3>1. s - t - 1 \in Nat /\ s = t + 1 + (s - t - 1)
      BY <1>2
    <3> QED BY <3>1
  <2>2. s * N = t * N + N + k * N /\ k * N >= 0
    BY <1>1, <2>1
  <2> QED BY <1>1, <1>2, <2>2
<1>3. CASE s < t
  <2>1. PICK k \in Nat : t = s + 1 + k
    <3>1. t - s - 1 \in Nat /\ t = s + 1 + (t - s - 1)
      BY <1>3
    <3> QED BY <3>1
  <2>2. t * N = s * N + N + k * N /\ k * N >= 0
    BY <1>1, <2>1
  <2> QED BY <1>1, <1>3, <2>2
<1>4. CASE s = t
  BY <1>1, <1>4
<1> QED BY <1>2, <1>3, <1>4

(***************************************************************************)
(* The subtraction of a smaller time is exact, through either branch of    *)
(* time_add and with or without a borrow.                                  *)
(***************************************************************************)
LEMMA SubLemma ==
  ASSUME NEW a, NEW b, Positive(a), Positive(b), Value(a) > Value(b)
  PROVE  LET c == sancus_time_sub(a, b)
         IN  Positive(c) /\ Value(c) = Value(a) - Value(b)
<1> DEFINE N == NsPerSec
<1>0. N \in Nat \ {0}
  BY NsLemma
<1>1. PICK s \in Nat, n \in 0 .. N - 1 : a = Timespec(s, n)
  BY PositiveLemma
<1>2. PICK t \in Nat, m \in 0 .. N - 1 : b = Timespec(t, m)
  BY PositiveLemma
<1>3. Value(a) = s * N + n /\ Value(b) = t * N + m
  BY <1>1, <1>2, ValueLemma
<1>4. s > t \/ (s = t /\ n > m)
  BY <1>1, <1>2, <1>3, OrderLemma
<1>5. n - m \in Int /\ -N < n - m /\ n - m < N /\ CDiv(n - m, N) = 0
  BY <1>0, SmallLemma
<1> HIDE DEF N
<1>6. ASSUME n >= m
      PROVE  /\ s - t \in Nat /\ n - m \in 0 .. N - 1
             /\ sancus_time_sub(a, b) = Timespec(s - t, n - m)
  <2>1. s - t \in Nat /\ n - m \in 0 .. N - 1 /\ n - m >= 0
    BY <1>0, <1>4, <1>6
  <2>2. sancus_time_fix(Timespec(s - t, n - m)) = Timespec(s - t, n - m)
    BY <1>5, <2>1 DEF sancus_time_fix, Timespec, N
  <2>3. CASE t = 0
    <3>1. sancus_time_sub(a, b) = sancus_time_fix(Timespec(s, n - m))
      BY <1>1, <1>2, <2>3
      DEF sancus_time_sub, sancus_time_neg, time_add, Timespec
    <3> QED BY <2>1, <2>2, <2>3, <3>1
  <2>4. CASE t # 0
    <3>1. sancus_time_sub(a, b) = sancus_time_fix(Borrow(s - t, n - m))
      BY <1>1, <1>2, <2>4
      DEF sancus_time_sub, sancus_time_neg, time_add, Timespec
    <3>2. Borrow(s - t, n - m) = Timespec(s - t, n - m)
      BY <2>1 DEF Borrow
    <3> QED BY <2>1, <2>2, <3>1, <3>2
  <2> QED BY <2>3, <2>4
<1>7. ASSUME n < m
      PROVE  /\ s - t - 1 \in Nat /\ n - m + N \in 0 .. N - 1
             /\ sancus_time_sub(a, b) = Timespec(s - t - 1, n - m + N)
  <2>1. /\ s - t - 1 \in Nat /\ s > t
        /\ n - m + N \in 0 .. N - 1 /\ n - m < 0
    BY <1>0, <1>4, <1>7
  <2>2. CASE t = 0
    <3>1. sancus_time_sub(a, b) = sancus_time_fix(Timespec(s, n - m))
      BY <1>1, <1>2, <2>2
      DEF sancus_time_sub, sancus_time_neg, time_add, Timespec
    <3>2. sancus_time_fix(Timespec(s, n - m)) = Timespec(s - 1, n - m + 1 * N)
      BY <1>5, <2>1, <2>2 DEF sancus_time_fix, Timespec, N
    <3>3. 1 * N = N
      BY <1>0
    <3> QED BY <2>1, <2>2, <3>1, <3>2, <3>3
  <2>3. CASE t # 0
    <3>1. sancus_time_sub(a, b) = sancus_time_fix(Borrow(s - t, n - m))
      BY <1>1, <1>2, <2>3
      DEF sancus_time_sub, sancus_time_neg, time_add, Timespec
    <3>2. Borrow(s - t, n - m) = Timespec(s - t - 1, n - m + N)
      BY <1>0, <1>5, <2>1 DEF Borrow, N
    <3>3. CDiv(n - m + N, N) = 0
      BY <1>0, <2>1, SmallLemma
    <3>4. sancus_time_fix(Timespec(s - t - 1, n - m + N))
            = Timespec(s - t - 1, n - m + N)
      BY <2>1, <3>3 DEF sancus_time_fix, Timespec, N
    <3> QED BY <2>1, <3>1, <3>2, <3>4
  <2> QED BY <2>2, <2>3
<1>8. CASE n >= m
  <2>1. (s - t) * N + (n - m) = (s * N + n) - (t * N + m)
    BY <1>0
  <2> QED BY <1>3, <1>6, <1>8, <2>1, PositiveLemma, ValueLemma DEF N
<1>9. CASE n < m
  <2>1. (s - t - 1) * N + (n - m + N) = (s * N + n) - (t * N + m)
    BY <1>0
  <2> QED BY <1>3, <1>7, <1>9, <2>1, PositiveLemma, ValueLemma DEF N
<1> QED BY <1>8, <1>9

(***************************************************************************)
(* sancus_time_is_gt is the order of the values, within an int's count of  *)
(* seconds.                                                                *)
(***************************************************************************)
LEMMA GtLemma ==
  ASSUME NEW a, NEW b, Positive(a), Positive(b),
         Value(a) < IntSpan * NsPerSec, Value(b) < IntSpan * NsPerSec
  PROVE  sancus_time_is_gt(a, b) <=> Value(a) > Value(b)
<1> DEFINE N == NsPerSec
<1>0. N \in Nat \ {0} /\ IntSpan \in Nat /\ N <= IntSpan
  BY NsLemma, IntAssumption
<1>1. PICK s \in Nat, n \in 0 .. N - 1 : a = Timespec(s, n)
  BY PositiveLemma
<1>2. PICK t \in Nat, m \in 0 .. N - 1 : b = Timespec(t, m)
  BY PositiveLemma
<1>3. Value(a) = s * N + n /\ Value(b) = t * N + m
  BY <1>1, <1>2, ValueLemma
<1>4. s < IntSpan /\ t < IntSpan
  <2>1. ASSUME NEW k \in Nat, NEW r \in 0 .. N - 1, k * N + r < IntSpan * N
        PROVE  k < IntSpan
    <3>1. ~(k * N + r > IntSpan * N + 0) /\ ~(k = IntSpan)
      BY <1>0, <2>1
    <3>2. 0 \in 0 .. N - 1
      BY <1>0
    <3>3. ~(k > IntSpan)
      BY <1>0, <3>1, <3>2, OrderLemma
    <3> QED BY <1>0, <3>1, <3>3
  <2> QED BY <1>3, <2>1
<1>5. Value(a) > Value(b) <=> (s > t \/ (s = t /\ n > m))
  BY <1>3, OrderLemma
<1> HIDE DEF N
<1>6. CASE s # t
  <2>1. sancus_time_cmp(a, b) = ToInt(s - t)
    BY <1>1, <1>2, <1>6 DEF sancus_time_cmp, Timespec
  <2>2. ToInt(s - t) = s - t
    BY <1>0, <1>4, IntLemma
  <2> QED BY <1>5, <1>6, <2>1, <2>2 DEF sancus_time_is_gt
<1>7. CASE s = t
  <2>1. sancus_time_cmp(a, b) = ToInt(n - m)
    BY <1>1, <1>2, <1>7 DEF sancus_time_cmp, Timespec
  <2>2. ToInt(n - m) = n - m
    BY <1>0, IntLemma
  <2> QED BY <1>5, <1>7, <2>1, <2>2 DEF sancus_time_is_gt
<1> QED BY <1>6, <1>7

(***************************************************************************)
(* sancus_time_elapsed and sancus_time_left are exact.                     *)
(***************************************************************************)
LEMMA ElapsedLemma ==
  ASSUME NEW a, NEW b, Positive(a), Positive(b),
         Value(a) < IntSpan * NsPerSec, Value(b) < IntSpan * NsPerSec
  PROVE  LET e == IF sancus_time_is_gt(a, b) THEN sancus_time_sub(a, b)
                                             ELSE Zero
         IN  /\ Positive(e)
             /\ Value(e) = IF Value(a) > Value(b) THEN Value(a) - Value(b)
                                                  ELSE 0
<1>1. sancus_time_is_gt(a, b) <=> Value(a) > Value(b)
  BY GtLemma
<1>2. CASE Value(a) > Value(b)
  BY <1>1, <1>2, SubLemma
<1>3. CASE ~(Value(a) > Value(b))
  <2>1. Positive(Zero) /\ Value(Zero) = 0
    <3>1. Value(Timespec(0, 0)) = 0 * NsPerSec + 0
      BY ValueLemma
    <3>2. 0 \in 0 .. NsPerSec - 1 /\ 0 * NsPerSec + 0 = 0
      BY NsLemma
    <3> QED BY <3>1, <3>2, PositiveLemma DEF Zero
  <2> QED BY <1>1, <1>3, <2>1
<1> QED BY <1>2, <1>3

(***************************************************************************)
(* sancus_time_ts_to_ms is off by half a millisecond at most.              *)
(***************************************************************************)
LEMMA MsLemma ==
  ASSUME NEW ts, Positive(ts),
         NEW error, error = sancus_time_ts_to_ms(ts) * NsPerMs - Value(ts)
  PROVE  -NsPerMs <= 2 * error /\ 2 * error <= NsPerMs
<1>1. PICK P \in Nat \ {0}, M \in Nat \ {0} : P = NsPerMs /\ M = MsPerSec
  BY UnitsAssumption
<1>2. PICK s \in Nat, n \in Nat : ts = Timespec(s, n)
  BY NsLemma, PositiveLemma
<1>3. PICK h \in Nat, b \in 0 .. 1 : h = P \div 2 /\ P = 2 * h + b
  <2>1. P = 2 * (P \div 2) + (P % 2) /\ P % 2 \in 0 .. 1 /\ P \div 2 \in Nat
    BY DivLemma
  <2> QED BY <2>1
<1>4. PICK q \in Nat, r \in 0 .. P - 1 : q = (n + h) \div P /\ n + h = P * q + r
  <2>1. n + h \in Nat
    OBVIOUS
  <2>2. /\ n + h = P * ((n + h) \div P) + ((n + h) % P)
        /\ (n + h) % P \in 0 .. P - 1 /\ (n + h) \div P \in Nat
    BY <2>1, DivLemma
  <2> QED BY <2>2
<1>5. NS_TO_MS_ROUNDED(n) = q
  BY <1>1, <1>3, <1>4 DEF NS_TO_MS_ROUNDED, CDiv
<1>6. sancus_time_ts_to_ms(ts) = s * M + q
  BY <1>1, <1>2, <1>5 DEF sancus_time_ts_to_ms, Timespec
<1>7. Value(ts) = s * (P * M) + n
  BY <1>1, <1>2, ValueLemma DEF NsPerSec
<1>8. (s * M + q) * P - (s * (P * M) + n) = P * q - n
  <2>1. (s * M + q) * P = s * (P * M) + P * q
    OBVIOUS
  <2> QED BY <2>1
<1>9. error = h - r
  <2>1. error = (s * M + q) * P - (s * (P * M) + n)
    BY <1>1, <1>6, <1>7
  <2>2. error = P * q - n
    BY <1>8, <2>1
  <2> QED BY <1>4, <2>2
<1>10. -P <= 2 * (h - r) /\ 2 * (h - r) <= P
  BY <1>3
<1> QED BY <1>1, <1>9, <1>10

----------------------------------------------------------------------------
(* The invariant.                                                          *)

Limit == IntSpan * NsPerSec

IInv ==
    /\ TypeOK
    /\ DeadlineExact
    /\ xnow <= MaxClock /\ xsince <= MaxClock /\ xuntil < Limit

(***************************************************************************)
(* The bounds are numbers, and within the range.                           *)
(***************************************************************************)
LEMMA LimitLemma ==
  /\ MaxClock \in Nat /\ MaxDelay \in Nat /\ Limit \in Nat
  /\ MaxClock < Limit /\ 2 * MaxClock < Limit
  /\ MaxClock + MaxDelay * NsPerMs < Limit
  /\ \A ms \in 0 .. MaxDelay : ms * NsPerMs <= MaxDelay * NsPerMs
                               /\ ms * NsPerMs \in Nat
<1>1. MaxClock \in Nat /\ MaxDelay \in Nat /\ Limit \in Nat /\ NsPerMs \in Nat
  BY BoundsAssumption, NsLemma, IntAssumption, UnitsAssumption DEF Limit
<1>2. ASSUME NEW ms \in 0 .. MaxDelay
      PROVE  ms * NsPerMs <= MaxDelay * NsPerMs /\ ms * NsPerMs \in Nat
  <2>1. PICK k \in Nat : MaxDelay = ms + k
    <3>1. MaxDelay - ms \in Nat /\ MaxDelay = ms + (MaxDelay - ms)
      BY <1>1
    <3> QED BY <3>1
  <2>2. MaxDelay * NsPerMs = ms * NsPerMs + k * NsPerMs /\ k * NsPerMs \in Nat
    BY <1>1, <2>1
  <2> QED BY <1>1, <2>2
<1>3. MaxClock < Limit /\ 2 * MaxClock < Limit
      /\ MaxClock + MaxDelay * NsPerMs < Limit
  BY <1>1, RangeAssumption DEF Limit
<1> QED BY <1>1, <1>2, <1>3

(***************************************************************************)
(* The differences are exact wherever the invariant holds.                 *)
(***************************************************************************)
LEMMA DifferencesLemma == IInv => DifferencesExact
<1> SUFFICES ASSUME IInv PROVE DifferencesExact
  OBVIOUS
<1>1. /\ Value(now) < IntSpan * NsPerSec /\ Value(since) < IntSpan * NsPerSec
      /\ Value(until) < IntSpan * NsPerSec
  BY LimitLemma DEF IInv, DeadlineExact, TypeOK, Limit
<1>2. LET e == sancus_time_elapsed(now, since)
      IN  /\ Positive(e)
          /\ Value(e) = IF Value(now) > Value(since)
                          THEN Value(now) - Value(since) ELSE 0
  BY <1>1, ElapsedLemma DEF IInv, TypeOK, sancus_time_elapsed
<1>3. LET l == sancus_time_left(now, until)
      IN  /\ Positive(l)
          /\ Value(l) = IF Value(until) > Value(now)
                          THEN Value(until) - Value(now) ELSE 0
  BY <1>1, ElapsedLemma DEF IInv, TypeOK, sancus_time_left
<1> QED BY <1>2, <1>3 DEF IInv, DeadlineExact, DifferencesExact

(***************************************************************************)
(* Every step keeps the times exact.                                       *)
(***************************************************************************)
LEMMA TimerInvariant == Spec => []IInv
<1>1. Init => IInv
  <2> SUFFICES ASSUME Init PROVE IInv
    OBVIOUS
  <2>1. Value(Timespec(0, 0)) = 0 * NsPerSec + 0
    BY ValueLemma
  <2>2. 0 \in 0 .. NsPerSec - 1 /\ 0 * NsPerSec + 0 = 0
    BY NsLemma
  <2>3. Positive(Zero) /\ Value(Zero) = 0
    BY <2>1, <2>2, PositiveLemma DEF Zero
  <2>4. 0 <= MaxClock /\ 0 < Limit
    BY LimitLemma
  <2> QED BY <2>3, <2>4 DEF Init, IInv, TypeOK, DeadlineExact
<1>2. IInv /\ [Next]_vars => IInv'
  <2> SUFFICES ASSUME IInv, [Next]_vars PROVE IInv'
    OBVIOUS
  <2>1. CASE sancus_now
    <3>1. xnow' \in Nat /\ xnow' <= MaxClock
      BY <2>1, LimitLemma DEF sancus_now
    <3>2. PICK q \in Nat, r \in 0 .. NsPerSec - 1 :
             now' = Timespec(q, r) /\ xnow' = NsPerSec * q + r
      BY <2>1, <3>1, NsLemma, DivLemma DEF sancus_now, Reading
    <3>3. Positive(now') /\ Value(now') = q * NsPerSec + r
      BY <3>2, PositiveLemma, ValueLemma
    <3>4. q * NsPerSec + r = xnow'
      BY <3>2, NsLemma
    <3> QED BY <2>1, <3>1, <3>3, <3>4
            DEF sancus_now, IInv, TypeOK, DeadlineExact, Positive, Canonical, Value
  <2>2. CASE ClockFails
    <3>1. Value(Timespec(0, 0)) = 0 * NsPerSec + 0
      BY ValueLemma
    <3>2. 0 \in 0 .. NsPerSec - 1 /\ 0 * NsPerSec + 0 = 0 /\ 0 <= MaxClock
      BY NsLemma, LimitLemma
    <3>3. Positive(Zero) /\ Value(Zero) = 0
      BY <3>1, <3>2, PositiveLemma DEF Zero
    <3> QED BY <2>2, <3>2, <3>3
            DEF ClockFails, IInv, TypeOK, DeadlineExact, Positive, Canonical, Value
  <2>3. CASE Touch
    BY <2>3 DEF Touch, IInv, TypeOK, DeadlineExact, Positive, Canonical, Value
  <2>4. ASSUME NEW ms \in 0 .. MaxDelay, Arm(ms)
        PROVE  IInv'
    <3>1. ms * NsPerMs \in Nat /\ xnow + ms * NsPerMs < Limit
          /\ xnow + ms * NsPerMs \in Nat
      BY LimitLemma DEF IInv, TypeOK
    <3>2. LET d == sancus_time_new_ms(ms)
          IN  Positive(d) /\ Value(d) = 0 * NsPerSec + ms * NsPerMs
      BY <3>1, FixLemma DEF sancus_time_new_ms
    <3>3. 0 * NsPerSec + ms * NsPerMs = ms * NsPerMs
      BY <3>1, NsLemma
    <3>4. Positive(until') /\ Value(until') = Value(now) + ms * NsPerMs
      BY <2>4, <3>2, <3>3, AddLemma DEF Arm, sancus_time_add_ms, IInv, TypeOK
    <3> QED BY <2>4, <3>1, <3>4
            DEF Arm, IInv, TypeOK, DeadlineExact, Positive, Canonical, Value
  <2>5. CASE Extend
    <3>1. PICK e : /\ e = sancus_time_elapsed(now, since) /\ Positive(e)
                   /\ Value(e) = IF xnow > xsince THEN xnow - xsince ELSE 0
      BY DifferencesLemma DEF DifferencesExact
    <3>2. Positive(until') /\ Value(until') = Value(until) + Value(e)
      BY <2>5, <3>1, AddLemma DEF Extend, IInv, TypeOK
    <3>3. xuntil' = xuntil + Value(e) /\ xuntil' <= 2 * MaxClock
      BY <2>5, <3>1 DEF Extend
    <3>4. xuntil' \in Nat /\ xuntil' < Limit
      BY <3>1, <3>3, LimitLemma DEF IInv, TypeOK
    <3> QED BY <2>5, <3>2, <3>3, <3>4
            DEF Extend, IInv, TypeOK, DeadlineExact, Positive, Canonical, Value
  <2>6. CASE UNCHANGED vars
    BY <2>6 DEF vars, IInv, TypeOK, DeadlineExact, Positive, Canonical, Value
  <2> QED BY <2>1, <2>2, <2>3, <2>4, <2>5, <2>6 DEF Next
<1> QED BY <1>1, <1>2, PTL DEF Spec

----------------------------------------------------------------------------
(***************************************************************************)
(* The times a program keeps stay canonical and non-negative.              *)
(***************************************************************************)
THEOREM TimerTypeCorrect == Spec => []TypeOK
<1>1. IInv => TypeOK
  BY DEF IInv
<1> QED BY <1>1, TimerInvariant, PTL

(***************************************************************************)
(* Deadlines armed and put off with sancus_time_add are exact.             *)
(***************************************************************************)
THEOREM TimerDeadlineExact == Spec => []DeadlineExact
<1>1. IInv => DeadlineExact
  BY DEF IInv
<1> QED BY <1>1, TimerInvariant, PTL

(***************************************************************************)
(* The time elapsed and the time left are exact, for all units of time, as *)
(* long as no two times are an int's range of seconds apart.               *)
(***************************************************************************)
THEOREM TimerDifferencesExact == Spec => []DifferencesExact
  BY DifferencesLemma, TimerInvariant, PTL

(***************************************************************************)
(* The milliseconds given to poll() are the nearest to the time left.      *)
(***************************************************************************)
THEOREM TimerLeftInMs == Spec => []LeftInMs
<1>1. IInv => LeftInMs
  <2> SUFFICES ASSUME IInv PROVE LeftInMs
    OBVIOUS
  <2>1. Positive(sancus_time_left(now, until))
    BY DifferencesLemma DEF DifferencesExact
  <2> QED BY <2>1, MsLemma DEF LeftInMs
<1> QED BY <1>1, TimerInvariant, PTL
============================================================================
