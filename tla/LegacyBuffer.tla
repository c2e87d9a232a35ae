---------------------------- MODULE LegacyBuffer ----------------------------
(***************************************************************************)
(* The read buffer of src/sancus/buffer_legacy.c and                       *)
(* include/sancus/buffer_legacy.h as operators on the value of a           *)
(* `struct sancus_buffer'.  `buf' is the bound byte array, indexed from 0  *)
(* as in C; its cells keep whatever was last stored in them, so a stale    *)
(* or misplaced byte is visible.  The fields are uint_fast16_t in C, 64    *)
(* or 32 bits wide in every supported build, and never exceed the size of  *)
(* an array in memory: no sum below can wrap.                              *)
(***************************************************************************)
EXTENDS Naturals

\* sancus_buffer_skip() rebases below a RebaseRatio-th of the size: 10 in the
\* code.  A small instance scales the array and the ratio down together.
CONSTANT RebaseRatio

ASSUME RatioAssumption == RebaseRatio \in Nat \ {0}

Buffer(size, Byte) ==
    [buf : [0 .. size - 1 -> Byte], base : Nat, len : Nat, size : {size}]

sancus_buffer_bind(mem, size) ==
    [buf |-> mem, base |-> 0, len |-> 0, size |-> size]

\* The buffer with its window moved to [base, base + len).
Window(b, base, len) ==
    [buf |-> b.buf, base |-> base, len |-> len, size |-> b.size]

sancus_buffer_available(b) == b.size - b.base - b.len

sancus_buffer_reset(b) == Window(b, 0, 0)

----------------------------------------------------------------------------
(* Deliberate bugs, used only to show that the properties notice them.     *)

RebaseWithoutMove(b) == Window(b, 0, b.len)

SkipWithoutReset(b, step) ==
    LET n == IF step > b.len THEN b.len ELSE step
    IN  Window(b, b.base + n, b.len - n)

SkipPastEnd(b, step) == Window(b, b.base + step, b.len - step)

ReadAtBase(b, first, n) ==
    [Window(b, b.base, b.len + n) EXCEPT
        !.buf = [i \in DOMAIN b.buf |->
                   IF b.base <= i /\ i < b.base + n
                     THEN first + (i - b.base) ELSE b.buf[i]]]

----------------------------------------------------------------------------
\* The n bytes that read(2) stores behind the data are first, first+1, ...
sancus_buffer_read(b, first, n) ==
    LET tail == b.base + b.len
    IN  [buf |-> [i \in DOMAIN b.buf |->
                    IF tail <= i /\ i < tail + n
                      THEN first + (i - tail) ELSE b.buf[i]],
         base |-> b.base, len |-> b.len + n, size |-> b.size]

\* memmove() copies as if through a temporary: every right-hand side is old.
sancus_buffer_rebase(b) ==
    IF b.base > 0
      THEN [buf |-> [i \in DOMAIN b.buf |->
                       IF i < b.len THEN b.buf[b.base + i] ELSE b.buf[i]],
            base |-> 0, len |-> b.len, size |-> b.size]
      ELSE b

sancus_buffer_skip(b, step) ==
    IF step >= b.len
      THEN sancus_buffer_reset(b)
      ELSE LET s == Window(b, b.base + step, b.len - step)
           IN  IF sancus_buffer_available(s) < s.size \div RebaseRatio
                 THEN sancus_buffer_rebase(s) ELSE s
============================================================================
