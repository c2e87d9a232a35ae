-------------------------------- MODULE Time --------------------------------
(***************************************************************************)
(* The timespec arithmetic of src/sancus/time.c and include/sancus/time.h. *)
(*                                                                         *)
(* A duration is kept as sign and magnitude: when tv_sec is negative the   *)
(* magnitude is -tv_sec seconds and tv_nsec nanoseconds, and only when     *)
(* tv_sec is zero does tv_nsec carry the sign (src/tests/time.c expects    *)
(* the negative of 1.002s to be (-1, 2ms)).                                *)
(*                                                                         *)
(* tv_sec and tv_nsec are long and are taken as unbounded; the conversion  *)
(* of a difference to int by sancus_time_cmp keeps its width.              *)
(***************************************************************************)
EXTENDS Integers

CONSTANTS NsPerMs,   \* MS_TO_NS(1), 10^6 in the code
          MsPerSec,  \* SEC_TO_MS(1), 1000 in the code
          IntSpan    \* an int holds -IntSpan .. IntSpan - 1: 2^31

ASSUME UnitsAssumption == NsPerMs \in Nat \ {0} /\ MsPerSec \in Nat \ {0}

NsPerSec == NsPerMs * MsPerSec

\* The smallest difference of nanoseconds fits in an int.
ASSUME IntAssumption == IntSpan \in Nat /\ NsPerSec <= IntSpan

Timespec(s, n) == [tv_sec |-> s, tv_nsec |-> n]
Zero == Timespec(0, 0)

Value(ts) ==
    IF ts.tv_sec < 0 THEN ts.tv_sec * NsPerSec - ts.tv_nsec
                     ELSE ts.tv_sec * NsPerSec + ts.tv_nsec

Canonical(ts) ==
    /\ ts \in [tv_sec : Int, tv_nsec : Int]
    /\ IF ts.tv_sec = 0 THEN -NsPerSec < ts.tv_nsec ELSE 0 <= ts.tv_nsec
    /\ ts.tv_nsec < NsPerSec

\* C's division truncates towards zero.
CDiv(a, n) == IF a >= 0 THEN a \div n ELSE -((-a) \div n)

\* (int) of a long
ToInt(x) == ((x + IntSpan) % (2 * IntSpan)) - IntSpan

----------------------------------------------------------------------------
(* Deliberate bugs, used only to show that the properties notice them.     *)

FixOneSecond(ts) ==
    IF ts.tv_nsec > NsPerSec
      THEN Timespec(ts.tv_sec + 1, ts.tv_nsec - NsPerSec) ELSE ts

FixLosesCarry(ts) ==
    Timespec(ts.tv_sec, ts.tv_nsec - CDiv(ts.tv_nsec, NsPerSec) * NsPerSec)

CmpSecondsOnly(a, b) == ToInt(a.tv_sec - b.tv_sec)

MsTruncated(ns) == ns \div NsPerMs

----------------------------------------------------------------------------
sancus_time_fix(ts) ==
    LET d == CDiv(ts.tv_nsec, NsPerSec)
        e == -d + 1
    IN  IF d > 0
          THEN Timespec(ts.tv_sec + d, ts.tv_nsec - d * NsPerSec)
        ELSE IF ts.tv_nsec < 0 /\ (e # 1 \/ ts.tv_sec # 0)
          THEN Timespec(ts.tv_sec - e, ts.tv_nsec + e * NsPerSec)
        ELSE ts

\* The borrow of time_add when the signs of the seconds differ.
Borrow(s, n) ==
    LET d == 1 - CDiv(n, NsPerSec)
        m == n + d * NsPerSec
    IN  IF n >= 0 THEN Timespec(s, n)
        ELSE IF s = -d THEN Timespec(0, -m)
        ELSE IF s >= d THEN Timespec(s - d, m)
        ELSE Timespec(s + d, m)

time_add(a, b) ==
    LET s == a.tv_sec + b.tv_sec
    IN  sancus_time_fix(
          IF (a.tv_sec < 0) # (b.tv_sec < 0)
            THEN Borrow(s, a.tv_nsec - b.tv_nsec)
            ELSE Timespec(s, a.tv_nsec + b.tv_nsec))

sancus_time_neg(a) ==
    IF a.tv_sec = 0 THEN Timespec(0, -a.tv_nsec)
                    ELSE Timespec(-a.tv_sec, a.tv_nsec)

\* sancus_time_add, _add2, _sub and _sub2: in place or of copies
sancus_time_add(a, b) == time_add(a, b)
sancus_time_sub(a, b) == time_add(a, sancus_time_neg(b))

sancus_time_new_ms(ms) == sancus_time_fix(Timespec(0, ms * NsPerMs))
sancus_time_add_ms(a, ms) == sancus_time_add(a, sancus_time_new_ms(ms))

sancus_time_cmp(a, b) ==
    ToInt(IF a.tv_sec # b.tv_sec THEN a.tv_sec - b.tv_sec
          ELSE IF a.tv_sec < 0 THEN b.tv_nsec - a.tv_nsec
          ELSE a.tv_nsec - b.tv_nsec)

sancus_time_is_gt(a, b) == sancus_time_cmp(a, b) > 0

sancus_time_elapsed(now, since) ==
    IF sancus_time_is_gt(now, since) THEN sancus_time_sub(now, since) ELSE Zero

sancus_time_left(now, until) ==
    IF sancus_time_is_gt(until, now) THEN sancus_time_sub(until, now) ELSE Zero

NS_TO_MS_ROUNDED(ns) == CDiv(ns + NsPerMs \div 2, NsPerMs)

\* The saturation at LONG_MIN and LONG_MAX is out of reach of a time.
sancus_time_ts_to_ms(ts) ==
    IF ts.tv_sec < 0 THEN ts.tv_sec * MsPerSec - NS_TO_MS_ROUNDED(ts.tv_nsec)
                     ELSE ts.tv_sec * MsPerSec + NS_TO_MS_ROUNDED(ts.tv_nsec)
============================================================================
