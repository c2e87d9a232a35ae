------------------------------- MODULE Timer -------------------------------
(***************************************************************************)
(* How a program keeps time with this library: it reads sancus_now()       *)
(* (src/sancus/clock.c), notes when something last happened, arms and      *)
(* extends a deadline, and asks how long ago the one was and how long is   *)
(* left to the other (include/sancus/time.h).  The clock is                *)
(* CLOCK_REALTIME or one set by sancus_set_now_clock: it may be set back,  *)
(* and a reading that fails is (0, 0).                                     *)
(*                                                                         *)
(* Each time is paired with its exact value in nanoseconds.                *)
(***************************************************************************)
EXTENDS Time

CONSTANTS MaxClock,  \* bound: the largest reading, in nanoseconds
          MaxDelay   \* bound: the longest delay, in milliseconds

ASSUME BoundsAssumption == MaxClock \in Nat /\ MaxDelay \in Nat

\* No two times are further apart than an int can count in seconds (68
\* years): past that, sancus_time_cmp gives the wrong sign.
ASSUME RangeAssumption ==
    /\ 2 * MaxClock < IntSpan * NsPerSec
    /\ MaxClock + MaxDelay * NsPerMs < IntSpan * NsPerSec

VARIABLES now, since, until,   \* timespecs of the program
          xnow, xsince, xuntil \* their exact values

vars == <<now, since, until, xnow, xsince, xuntil>>

Init ==
    /\ now = Zero /\ since = Zero /\ until = Zero
    /\ xnow = 0 /\ xsince = 0 /\ xuntil = 0

\* clock_gettime() answers with a canonical time.
Reading(x) == Timespec(x \div NsPerSec, x % NsPerSec)

sancus_now ==
    /\ xnow' \in 0 .. MaxClock
    /\ now' = Reading(xnow')
    /\ UNCHANGED <<since, until, xsince, xuntil>>

ClockFails ==
    /\ now' = Zero /\ xnow' = 0
    /\ UNCHANGED <<since, until, xsince, xuntil>>

Touch ==
    /\ since' = now /\ xsince' = xnow
    /\ UNCHANGED <<now, until, xnow, xuntil>>

Arm(ms) ==
    /\ until' = sancus_time_add_ms(now, ms)
    /\ xuntil' = xnow + ms * NsPerMs
    /\ UNCHANGED <<now, since, xnow, xsince>>

\* The deadline is put off by what has elapsed since the last activity.
Extend ==
    /\ until' = sancus_time_add(until, sancus_time_elapsed(now, since))
    /\ xuntil' = xuntil + (IF xnow > xsince THEN xnow - xsince ELSE 0)
    /\ xuntil' <= 2 * MaxClock
    /\ UNCHANGED <<now, since, xnow, xsince>>

Next ==
    \/ sancus_now
    \/ ClockFails
    \/ Touch
    \/ \E ms \in 0 .. MaxDelay : Arm(ms)
    \/ Extend

Spec == Init /\ [][Next]_vars

----------------------------------------------------------------------------
(* Properties.                                                             *)

Positive(ts) == Canonical(ts) /\ ts.tv_sec >= 0 /\ ts.tv_nsec >= 0

TypeOK ==
    /\ Positive(now) /\ Positive(since) /\ Positive(until)
    /\ xnow \in Nat /\ xsince \in Nat /\ xuntil \in Nat

(***************************************************************************)
(* A deadline armed from any reading and put off any number of times is    *)
(* exact: no carry between nanoseconds and seconds is lost or doubled.     *)
(***************************************************************************)
DeadlineExact ==
    Value(now) = xnow /\ Value(since) = xsince /\ Value(until) = xuntil

(***************************************************************************)
(* "NOW > SINCE ? NOW - SINCE : 0", and its mirror for a deadline: the     *)
(* time elapsed and the time left are canonical and exact, and zero when   *)
(* the clock was set back or the deadline is past.                         *)
(***************************************************************************)
DifferencesExact ==
    LET e == sancus_time_elapsed(now, since)
        l == sancus_time_left(now, until)
    IN  /\ Positive(e)
        /\ Value(e) = IF xnow > xsince THEN xnow - xsince ELSE 0
        /\ Positive(l)
        /\ Value(l) = IF xuntil > xnow THEN xuntil - xnow ELSE 0

(***************************************************************************)
(* The milliseconds left, as sancus_time_ts_to_ms gives them to a poll(),  *)
(* are the nearest to the time left.                                       *)
(***************************************************************************)
LeftInMs ==
    LET l == sancus_time_left(now, until)
        error == sancus_time_ts_to_ms(l) * NsPerMs - Value(l)
    IN  -NsPerMs <= 2 * error /\ 2 * error <= NsPerMs
============================================================================
