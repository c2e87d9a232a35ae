---------------------------- MODULE StreamProofs ----------------------------
(***************************************************************************)
(* The safety invariants of Stream hold, and it implements ByteChannel,    *)
(* for every buffer size, every rebase ratio and every number of bytes,    *)
(* nested callbacks and reopened streams.                                  *)
(***************************************************************************)
EXTENDS Stream, SequenceTheorems, TLAPS

----------------------------------------------------------------------------
(* The buffer operators.                                                   *)

\* The window of b lies within the array and starts at 0 when it is empty.
WellFormed(b) ==
    /\ b \in Buffer(Size, Byte)
    /\ b.base + b.len <= b.size
    /\ b.len = 0 => b.base = 0

\* The window of b holds the bytes that follow number c.
Holds(b, c) == \A i \in 0 .. b.len - 1 : b.buf[b.base + i] = c + i + 1

(***************************************************************************)
(* A buffer is its four fields.                                            *)
(***************************************************************************)
LEMMA FieldsLemma ==
  ASSUME NEW b \in Buffer(Size, Byte)
  PROVE  \E m \in [0 .. Size - 1 -> Nat], p \in Nat, l \in Nat :
            b = [buf |-> m, base |-> p, len |-> l, size |-> Size]
  BY DEF Buffer, Byte

(***************************************************************************)
(* sancus_buffer_bind makes an empty, well-formed buffer of any array.     *)
(***************************************************************************)
LEMMA BindLemma ==
  ASSUME NEW mem \in [0 .. Size - 1 -> Byte], NEW c \in Nat
  PROVE  LET b == sancus_buffer_bind(mem, Size)
         IN  WellFormed(b) /\ b.len = 0 /\ Holds(b, c)
  BY SizeAssumption
  DEF WellFormed, Holds, Buffer, Byte, sancus_buffer_bind

(***************************************************************************)
(* sancus_buffer_reset empties the buffer.                                 *)
(***************************************************************************)
LEMMA ResetLemma ==
  ASSUME NEW b \in Buffer(Size, Byte), NEW c \in Nat
  PROVE  LET r == sancus_buffer_reset(b)
         IN  WellFormed(r) /\ r.len = 0 /\ Holds(r, c)
  BY SizeAssumption
  DEF WellFormed, Holds, Buffer, Byte, sancus_buffer_reset, Window

(***************************************************************************)
(* sancus_buffer_read extends the window with the next bytes.              *)
(***************************************************************************)
LEMMA ReadLemma ==
  ASSUME NEW b, WellFormed(b), NEW c \in Nat, Holds(b, c),
         NEW n \in Nat \ {0}, n <= sancus_buffer_available(b)
  PROVE  LET r == sancus_buffer_read(b, c + b.len + 1, n)
         IN  WellFormed(r) /\ r.len = b.len + n /\ Holds(r, c)
<1>1. PICK m \in [0 .. Size - 1 -> Nat], p \in Nat, l \in Nat :
         b = [buf |-> m, base |-> p, len |-> l, size |-> Size]
  BY FieldsLemma DEF WellFormed
<1>2. p + l + n <= Size
  BY <1>1, SizeAssumption DEF sancus_buffer_available
<1>3. \A i \in 0 .. l - 1 : m[p + i] = c + i + 1
  BY <1>1 DEF Holds
<1>4. PICK mem : mem = [i \in 0 .. Size - 1 |->
                          IF p + l <= i /\ i < p + l + n
                            THEN c + l + 1 + (i - (p + l)) ELSE m[i]]
  OBVIOUS
<1>5. sancus_buffer_read(b, c + b.len + 1, n)
        = [buf |-> mem, base |-> p, len |-> l + n, size |-> Size]
  BY <1>1, <1>4 DEF sancus_buffer_read
<1>6. mem \in [0 .. Size - 1 -> Nat]
  BY <1>4, SizeAssumption
<1>7. ASSUME NEW i \in 0 .. l + n - 1
      PROVE  mem[p + i] = c + i + 1
  <2>1. p + i \in 0 .. Size - 1
    BY <1>2, SizeAssumption
  <2>2. CASE i < l
    BY <1>3, <1>4, <2>1, <2>2
  <2>3. CASE i >= l
    BY <1>4, <2>1, <2>3
  <2> QED BY <2>2, <2>3
<1>8. l + n \in Nat \ {0} /\ p + (l + n) <= Size
  BY <1>2
<1>9. PICK r : r = [buf |-> mem, base |-> p, len |-> l + n, size |-> Size]
  OBVIOUS
<1>10. WellFormed(r)
  BY <1>6, <1>8, <1>9 DEF WellFormed, Buffer, Byte
<1>11. Holds(r, c)
  <2>1. r.len = l + n /\ r.base = p /\ r.buf = mem
    BY <1>9
  <2>2. ASSUME NEW i \in 0 .. r.len - 1
        PROVE  r.buf[r.base + i] = c + i + 1
    <3>1. i \in 0 .. l + n - 1
      BY <2>1
    <3>2. mem[p + i] = c + i + 1
      BY <1>7, <3>1
    <3> QED BY <2>1, <3>2
  <2> QED BY <2>2 DEF Holds
<1> QED BY <1>1, <1>5, <1>9, <1>10, <1>11

(***************************************************************************)
(* sancus_buffer_rebase moves the window and keeps what it holds.          *)
(***************************************************************************)
LEMMA RebaseLemma ==
  ASSUME NEW b \in Buffer(Size, Byte), b.base + b.len <= b.size,
         NEW c \in Nat, Holds(b, c)
  PROVE  LET r == sancus_buffer_rebase(b)
         IN  WellFormed(r) /\ r.len = b.len /\ Holds(r, c)
<1>1. PICK m \in [0 .. Size - 1 -> Nat], p \in Nat, l \in Nat :
         b = [buf |-> m, base |-> p, len |-> l, size |-> Size]
  BY FieldsLemma
<1>2. p + l <= Size
  BY <1>1
<1>3. CASE p = 0
  <2>1. sancus_buffer_rebase(b) = b
    BY <1>1, <1>3 DEF sancus_buffer_rebase
  <2> QED BY <1>1, <1>3, <2>1 DEF WellFormed
<1>4. CASE p > 0
  <2>1. PICK mem : mem = [i \in 0 .. Size - 1 |->
                            IF i < l THEN m[p + i] ELSE m[i]]
    OBVIOUS
  <2>2. sancus_buffer_rebase(b)
          = [buf |-> mem, base |-> 0, len |-> l, size |-> Size]
    BY <1>1, <1>4, <2>1 DEF sancus_buffer_rebase
  <2>3. mem \in [0 .. Size - 1 -> Nat]
    BY <1>2, <2>1, SizeAssumption
  <2>4. ASSUME NEW i \in 0 .. l - 1
        PROVE  mem[i] = c + i + 1
    <3>1. m[p + i] = c + i + 1
      BY <1>1 DEF Holds
    <3>2. i \in 0 .. Size - 1 /\ i < l
      BY <1>2, SizeAssumption
    <3> QED BY <2>1, <3>1, <3>2
  <2>5. PICK r : r = [buf |-> mem, base |-> 0, len |-> l, size |-> Size]
    OBVIOUS
  <2>6. WellFormed(r)
    BY <1>2, <2>3, <2>5, SizeAssumption DEF WellFormed, Buffer, Byte
  <2>7. Holds(r, c)
    <3>1. r.len = l /\ r.base = 0 /\ r.buf = mem
      BY <2>5
    <3>2. \A i \in 0 .. l - 1 : 0 + i = i
      OBVIOUS
    <3> QED BY <2>4, <3>1, <3>2 DEF Holds
  <2> QED BY <1>1, <2>2, <2>5, <2>6, <2>7
<1> QED BY <1>3, <1>4

(***************************************************************************)
(* sancus_buffer_skip drops `step' bytes from the front of the window, all *)
(* of them if there are not as many, and leaves the rest in place.         *)
(***************************************************************************)
LEMMA SkipLemma ==
  ASSUME NEW b, WellFormed(b), NEW c \in Nat, Holds(b, c),
         NEW step \in Nat \ {0},
         NEW gone, gone = IF step >= b.len THEN b.len ELSE step
  PROVE  LET r == sancus_buffer_skip(b, step)
         IN  /\ WellFormed(r) /\ gone \in Nat
             /\ r.len + gone = b.len /\ Holds(r, c + gone)
<1>1. PICK m \in [0 .. Size - 1 -> Nat], p \in Nat, l \in Nat :
         b = [buf |-> m, base |-> p, len |-> l, size |-> Size]
  BY FieldsLemma DEF WellFormed
<1>2. p + l <= Size
  BY <1>1 DEF WellFormed
<1>3. CASE step >= l
  <2>1. sancus_buffer_skip(b, step) = sancus_buffer_reset(b)
    BY <1>1, <1>3 DEF sancus_buffer_skip
  <2>2. gone = l /\ c + gone \in Nat
    BY <1>1, <1>3
  <2>3. b \in Buffer(Size, Byte)
    BY DEF WellFormed
  <2> QED BY <1>1, <2>1, <2>2, <2>3, ResetLemma
<1>4. CASE step < l
  <2>1. PICK s : s = [buf |-> m, base |-> p + step, len |-> l - step,
                      size |-> Size]
    OBVIOUS
  <2>2. gone = step /\ c + gone \in Nat /\ l - step \in Nat \ {0}
    BY <1>1, <1>4
  <2>3. \/ sancus_buffer_skip(b, step) = s
        \/ sancus_buffer_skip(b, step) = sancus_buffer_rebase(s)
    BY <1>1, <1>4, <2>1 DEF sancus_buffer_skip, Window
  <2>4. s \in Buffer(Size, Byte) /\ s.base + s.len <= s.size /\ WellFormed(s)
    BY <1>1, <1>2, <2>1, <2>2 DEF WellFormed, Buffer, Byte
  <2>5. Holds(s, c + gone)
    <3>1. ASSUME NEW i \in 0 .. (l - step) - 1
          PROVE  m[(p + step) + i] = (c + gone) + i + 1
      <4>1. step + i \in 0 .. l - 1
        BY <1>4
      <4>2. m[p + (step + i)] = c + (step + i) + 1
        BY <1>1, <4>1 DEF Holds
      <4> QED BY <2>2, <4>2
    <3> QED BY <2>1, <3>1 DEF Holds
  <2>6. s.len + gone = b.len
    BY <1>1, <2>1, <2>2
  <2>7. LET q == sancus_buffer_rebase(s)
        IN  WellFormed(q) /\ q.len = s.len /\ Holds(q, c + gone)
    BY <2>2, <2>4, <2>5, RebaseLemma
  <2> QED BY <2>2, <2>3, <2>4, <2>5, <2>6, <2>7
<1> QED BY <1>3, <1>4

----------------------------------------------------------------------------
(* The inductive invariant.                                                *)

BufferInv ==
    /\ WellFormed(rbuf)
    /\ sent \in Nat /\ received \in Nat /\ consumed \in Nat /\ asked \in Nat
    /\ consumed + rbuf.len = received /\ received <= sent
    /\ Holds(rbuf, consumed)

ControlInv ==
    /\ fd \in Fds \cup {Closed}
    /\ active \in BOOLEAN
    /\ stack \in Seq(Callbacks)
    /\ peer \in {"open", "eof", "reset"}
    /\ closes \in Nat /\ inits \in Nat
    /\ WatchedFdOpen
    /\ CloseOnce

IInv == BufferInv /\ ControlInv

(***************************************************************************)
(* The inductive invariant is the conjunction of what the runs check.      *)
(***************************************************************************)
LEMMA IInvImplies ==
  IInv => TypeOK /\ ByteOrder /\ EmptyIsRebased /\ WatchedFdOpen /\ CloseOnce
<1> SUFFICES ASSUME IInv
             PROVE  TypeOK /\ ByteOrder /\ EmptyIsRebased
  BY DEF IInv, ControlInv
<1>1. TypeOK
  BY DEF IInv, BufferInv, ControlInv, WellFormed, TypeOK
<1>2. ByteOrder
  BY DEF IInv, BufferInv, WellFormed, Holds, ByteOrder
<1>3. EmptyIsRebased
  BY SizeAssumption DEF IInv, BufferInv, WellFormed, Buffer, EmptyIsRebased,
                        sancus_buffer_available
<1> QED BY <1>1, <1>2, <1>3

(***************************************************************************)
(* on_read's answer, from read_cb or sancus_stream_process, is applied to  *)
(* the window as it is by then, whatever the callback did to it.           *)
(***************************************************************************)
LEMMA ConsumeLemma ==
  ASSUME BufferInv, NEW l \in Nat \ {0}, Consume(l),
         UNCHANGED <<sent, received>>
  PROVE  BufferInv'
<1>1. PICK gone : gone = IF l >= rbuf.len THEN rbuf.len ELSE l
  OBVIOUS
<1>2. rbuf' = sancus_buffer_skip(rbuf, l) /\ consumed' = consumed + gone
      /\ asked' = l
  BY <1>1 DEF Consume
<1>3. /\ WellFormed(rbuf') /\ gone \in Nat
      /\ rbuf'.len + gone = rbuf.len /\ Holds(rbuf', consumed + gone)
  BY <1>1, <1>2, SkipLemma DEF BufferInv
<1>4. rbuf'.len \in Nat
  BY <1>3 DEF WellFormed, Buffer
<1> QED BY <1>2, <1>3, <1>4 DEF BufferInv, WellFormed, Holds

(***************************************************************************)
(* The data side of every step.                                            *)
(***************************************************************************)
LEMMA BufferStep == IInv /\ [Next]_vars => BufferInv'
<1> SUFFICES ASSUME IInv, [Next]_vars PROVE BufferInv'
  OBVIOUS
<1> USE DEF IInv
<1>0. rbuf \in Buffer(Size, Byte) /\ rbuf.len \in Nat
  BY DEF BufferInv, WellFormed, Buffer
<1>1. ASSUME UNCHANGED <<rbuf, sent, received, consumed, asked>>
      PROVE  BufferInv'
  BY <1>1 DEF BufferInv, WellFormed, Holds
<1>2. ASSUME ReadBufferAvailable
      PROVE  BufferInv'
  <2>1. ASSUME NEW n \in 1 .. Size, ReadBytes(n)
        PROVE  BufferInv'
    <3>1. /\ n \in Nat \ {0} /\ n <= sancus_buffer_available(rbuf)
          /\ n <= sent - received
          /\ received' = received + n /\ sent' = sent /\ consumed' = consumed
          /\ asked' = asked
      BY <1>2, <2>1, SizeAssumption DEF ReadBytes, ReadBufferAvailable, Pending
    <3>2. received + 1 = consumed + rbuf.len + 1
      BY <1>0 DEF BufferInv
    <3>3. rbuf' = sancus_buffer_read(rbuf, consumed + rbuf.len + 1, n)
      BY <2>1, <3>2 DEF ReadBytes
    <3>4. WellFormed(rbuf') /\ rbuf'.len = rbuf.len + n /\ Holds(rbuf', consumed)
      BY <3>1, <3>3, ReadLemma DEF BufferInv
    <3> QED BY <1>0, <3>1, <3>4 DEF BufferInv, WellFormed, Holds
  <2>2. CASE ReadFull \/ ReadEOF \/ ReadAgain \/ ReadError
    <3>1. UNCHANGED <<rbuf, sent, received, consumed, asked>>
      BY <1>2, <2>2 DEF ReadFull, ReadEOF, ReadAgain, ReadError, kernel,
                        ReadBufferAvailable
    <3> QED BY <1>1, <3>1
  <2> QED BY <1>2, <2>1, <2>2 DEF ReadBufferAvailable
<1>3. CASE read_cb
  BY <1>2, <1>3 DEF read_cb
<1>4. ASSUME NEW l \in -1 .. Size, OnReadReturns(l)
      PROVE  BufferInv'
  <2>1. CASE l > 0
    <3>1. l \in Nat \ {0} /\ Consume(l) /\ UNCHANGED <<sent, received>>
      BY <1>4, <2>1 DEF OnReadReturns, kernel
    <3> QED BY <3>1, ConsumeLemma
  <2>2. CASE ~(l > 0)
    <3>1. UNCHANGED <<rbuf, sent, received, consumed, asked>>
      BY <1>4, <2>2 DEF OnReadReturns, kernel
    <3> QED BY <1>1, <3>1
  <2> QED BY <2>1, <2>2
<1>5. ASSUME NEW l \in -1 .. Size, ProcessReturns(l)
      PROVE  BufferInv'
  <2>1. CASE l > 0
    <3>1. l \in Nat \ {0} /\ Consume(l) /\ UNCHANGED <<sent, received>>
      BY <1>5, <2>1 DEF ProcessReturns, kernel
    <3> QED BY <3>1, ConsumeLemma
  <2>2. CASE ~(l > 0)
    <3>1. UNCHANGED <<rbuf, sent, received, consumed, asked>>
      BY <1>5, <2>2 DEF ProcessReturns, kernel
    <3> QED BY <1>1, <3>1
  <2> QED BY <2>1, <2>2
<1>6. ASSUME NEW b \in BOOLEAN, OnErrorReturns(b)
      PROVE  BufferInv'
  <2>1. \/ ReadBufferAvailable
        \/ UNCHANGED <<rbuf, sent, received, consumed, asked>>
    BY <1>6 DEF OnErrorReturns, kernel
  <2> QED BY <1>1, <1>2, <2>1
<1>7. CASE sancus_stream_reset_readbuffer
  <2>1. /\ rbuf' = sancus_buffer_reset(rbuf)
        /\ consumed' = consumed + rbuf.len /\ asked' = rbuf.len
        /\ UNCHANGED <<sent, received>>
    BY <1>7 DEF sancus_stream_reset_readbuffer, kernel
  <2>2. consumed + rbuf.len \in Nat
    BY <1>0 DEF BufferInv
  <2>3. WellFormed(rbuf') /\ rbuf'.len = 0 /\ Holds(rbuf', consumed')
    BY <1>0, <2>1, <2>2, ResetLemma
  <2> QED BY <1>0, <2>1, <2>2, <2>3 DEF BufferInv, WellFormed, Holds
<1>8. CASE RebaseReadBuffer
  <2>1. /\ rbuf' = sancus_buffer_rebase(rbuf)
        /\ UNCHANGED <<sent, received, consumed, asked>>
    BY <1>8 DEF RebaseReadBuffer, kernel
  <2>2. WellFormed(rbuf') /\ rbuf'.len = rbuf.len /\ Holds(rbuf', consumed)
    BY <1>0, <2>1, RebaseLemma DEF BufferInv, WellFormed
  <2> QED BY <2>1, <2>2 DEF BufferInv, WellFormed, Holds
<1>9. CASE sancus_stream_init
  <2>1. /\ rbuf' = sancus_buffer_bind(rbuf.buf, Size)
        /\ received' = sent /\ consumed' = sent /\ sent' = sent
        /\ asked' = asked
    BY <1>9 DEF sancus_stream_init
  <2>2. rbuf.buf \in [0 .. Size - 1 -> Byte] /\ sent \in Nat
    BY <1>0 DEF Buffer, BufferInv
  <2>3. WellFormed(rbuf') /\ rbuf'.len = 0 /\ Holds(rbuf', consumed')
    BY <2>1, <2>2, BindLemma
  <2> QED BY <2>1, <2>2, <2>3 DEF BufferInv, WellFormed, Holds
<1>10. CASE PeerSends
  BY <1>10 DEF PeerSends, BufferInv, WellFormed, Holds
<1>11. CASE \/ OnCloseReturns \/ sancus_stream_process \/ sancus_stream_start
            \/ sancus_stream_stop \/ sancus_stream_close
            \/ (\E how \in {"eof", "reset"} : PeerEnds(how))
            \/ UNCHANGED vars
  <2>1. UNCHANGED <<rbuf, sent, received, consumed, asked>>
    BY <1>11 DEF OnCloseReturns, sancus_stream_process, sancus_stream_start,
                 sancus_stream_stop, sancus_stream_close, PeerEnds, kernel, vars
  <2> QED BY <1>1, <2>1
<1> QED
  BY <1>3, <1>4, <1>5, <1>6, <1>7, <1>8, <1>9, <1>10, <1>11
  DEF Next, CallbackReturns, Application, Peer

(***************************************************************************)
(* Closing, from read_cb or by the application, of a stream that is not    *)
(* watched (any more).                                                     *)
(***************************************************************************)
LEMMA CloseLemma ==
  ASSUME ControlInv, NEW caller \in Seq(Callbacks),
         Close(FALSE, caller), active' = FALSE, UNCHANGED inits,
         peer' \in {"open", "eof", "reset"}
  PROVE  ControlInv'
<1>1. CASE fd >= 0
  <2>1. fd' = Closed /\ closes' = closes + 1 /\ stack' = Append(caller, "close")
    BY <1>1 DEF Close, MayClose
  <2>2. Append(caller, "close") \in Seq(Callbacks)
    BY DEF Callbacks
  <2>3. closes = 0
    BY <1>1 DEF ControlInv, CloseOnce, Closed
  <2>4. closes' \in Nat /\ CloseOnce'
    BY <2>1, <2>3 DEF CloseOnce
  <2>5. WatchedFdOpen'
    BY Zenon DEF WatchedFdOpen
  <2> QED BY <2>1, <2>2, <2>4, <2>5 DEF ControlInv
<1>2. CASE ~(fd >= 0)
  <2>1. fd' = fd /\ closes' = closes /\ stack' = caller
    BY <1>2 DEF Close, MayClose
  <2> QED BY <2>1 DEF ControlInv, WatchedFdOpen, CloseOnce
<1> QED BY <1>1, <1>2

(***************************************************************************)
(* The control side of every step.                                         *)
(***************************************************************************)
LEMMA ControlStep == IInv /\ [Next]_vars => ControlInv'
<1> SUFFICES ASSUME ControlInv, [Next]_vars PROVE ControlInv'
  BY DEF IInv
<1>0. /\ <<>> \in Seq(Callbacks)
      /\ \A f \in Callbacks : <<f>> \in Seq(Callbacks)
      /\ \A s \in Seq(Callbacks), f \in Callbacks : Append(s, f) \in Seq(Callbacks)
      /\ stack # <<>> => Below \in Seq(Callbacks)
  BY DEF ControlInv, Below
<1>1. ASSUME UNCHANGED <<fd, active, closes, inits>>,
             peer' \in {"open", "eof", "reset"}, stack' \in Seq(Callbacks)
      PROVE  ControlInv'
  BY <1>1 DEF ControlInv, WatchedFdOpen, CloseOnce
<1>2. ASSUME CloseStream, UNCHANGED peer
      PROVE  ControlInv'
  BY <1>0, <1>2, CloseLemma DEF CloseStream, ControlInv
<1>3. ASSUME ReadBufferAvailable
      PROVE  ControlInv'
  <2>1. /\ UNCHANGED <<fd, active, closes, inits>>
        /\ peer' \in {"open", "eof", "reset"}
        /\ stack' \in {<<>>, <<"full">>, <<"read">>, <<"eof">>, <<"error">>}
    BY <1>3 DEF ControlInv, ReadBufferAvailable, ReadFull, ReadBytes, ReadEOF,
                ReadAgain, ReadError, kernel
  <2>2. stack' \in Seq(Callbacks)
    BY <1>0, <2>1 DEF Callbacks
  <2> QED BY <1>1, <2>1, <2>2
<1>4. CASE read_cb
  BY <1>3, <1>4 DEF read_cb
<1>5. ASSUME NEW l \in -1 .. Size, OnReadReturns(l)
      PROVE  ControlInv'
  <2>1. UNCHANGED peer
    BY <1>5 DEF OnReadReturns, kernel
  <2>2. CASE l < 0
    <3>1. CloseStream
      BY <1>5, <2>2 DEF OnReadReturns
    <3> QED BY <1>2, <2>1, <3>1
  <2>3. CASE ~(l < 0)
    <3>1. UNCHANGED <<fd, active, closes, inits>> /\ stack' \in {<<>>, <<"read">>}
      BY <1>5, <2>3 DEF OnReadReturns
    <3> QED BY <1>0, <1>1, <2>1, <3>1 DEF ControlInv, Callbacks
  <2> QED BY <2>2, <2>3
<1>6. ASSUME NEW b \in BOOLEAN, OnErrorReturns(b)
      PROVE  ControlInv'
  <2>1. CASE CloseStream /\ UNCHANGED kernel
    BY <1>2, <2>1 DEF kernel
  <2>2. CASE UNCHANGED <<fd, active, closes, inits, kernel>> /\ stack' = <<>>
    BY <1>0, <1>1, <2>2 DEF kernel, ControlInv
  <2> QED BY <1>3, <1>6, <2>1, <2>2 DEF OnErrorReturns
<1>7. CASE OnCloseReturns \/ \E l \in -1 .. Size : ProcessReturns(l)
  <2>1. UNCHANGED <<fd, active, closes, inits, peer>>
    BY <1>7 DEF OnCloseReturns, ProcessReturns, kernel
  <2>2. stack # <<>> /\ stack' = Below
    BY <1>7 DEF OnCloseReturns, ProcessReturns
  <2> QED BY <1>0, <1>1, <2>1, <2>2 DEF ControlInv
<1>8. CASE sancus_stream_process
  BY <1>0, <1>1, <1>8 DEF sancus_stream_process, ControlInv, Callbacks, kernel
<1>9. CASE sancus_stream_start \/ sancus_stream_stop
  BY <1>9 DEF sancus_stream_start, sancus_stream_stop, kernel,
              ControlInv, WatchedFdOpen, CloseOnce
<1>10. CASE sancus_stream_close
  <2>1. active = FALSE /\ Close(FALSE, stack) /\ UNCHANGED <<active, inits, peer>>
    BY <1>10 DEF sancus_stream_close, MayClose, ControlInv, kernel
  <2> QED BY <2>1, CloseLemma DEF ControlInv
<1>11. CASE sancus_stream_init
  BY <1>11, FdsAssumption
  DEF sancus_stream_init, ControlInv, WatchedFdOpen, CloseOnce, Closed
<1>12. CASE \/ sancus_stream_reset_readbuffer \/ RebaseReadBuffer
            \/ PeerSends \/ UNCHANGED vars
  <2>1. UNCHANGED <<fd, active, closes, inits, peer, stack>>
    BY <1>12 DEF sancus_stream_reset_readbuffer, RebaseReadBuffer, PeerSends,
                 vars, kernel
  <2> QED BY <1>1, <2>1 DEF ControlInv
<1>13. ASSUME NEW how \in {"eof", "reset"}, PeerEnds(how)
       PROVE  ControlInv'
  BY <1>1, <1>13 DEF PeerEnds, ControlInv
<1> QED
  BY <1>4, <1>5, <1>6, <1>7, <1>8, <1>9, <1>10, <1>11, <1>12, <1>13
  DEF Next, CallbackReturns, Application, Peer

(***************************************************************************)
(* The invariant holds initially.                                          *)
(***************************************************************************)
LEMMA InitStep == Init => IInv
<1> SUFFICES ASSUME Init PROVE IInv
  OBVIOUS
<1>1. BufferInv
  <2>1. [i \in 0 .. Size - 1 |-> 0] \in [0 .. Size - 1 -> Byte]
    BY DEF Byte
  <2>2. WellFormed(rbuf) /\ rbuf.len = 0 /\ Holds(rbuf, 0)
    BY <2>1, BindLemma DEF Init
  <2> QED BY <2>2 DEF Init, BufferInv
<1>2. ControlInv
  <2>1. fd \in Fds /\ fd # Closed /\ <<>> \in Seq(Callbacks)
    BY FdsAssumption DEF Init, Closed
  <2> QED BY <2>1 DEF Init, ControlInv, WatchedFdOpen, CloseOnce
<1> QED BY <1>1, <1>2 DEF IInv

(***************************************************************************)
(* The invariant holds always.                                             *)
(***************************************************************************)
LEMMA StreamInvariant == SafeSpec => []IInv
<1>1. IInv /\ [Next]_vars => IInv'
  BY BufferStep, ControlStep DEF IInv
<1> QED BY <1>1, InitStep, PTL DEF SafeSpec

----------------------------------------------------------------------------
(***************************************************************************)
(* Type correctness, for every value of the constants.                     *)
(***************************************************************************)
THEOREM StreamTypeCorrect == SafeSpec => []TypeOK
  BY StreamInvariant, IInvImplies, PTL

(***************************************************************************)
(* No sequence of reads, skips, rebases, re-entrant calls and reopenings   *)
(* loses, repeats or reorders a byte of the read buffer.                   *)
(***************************************************************************)
THEOREM StreamByteOrder == SafeSpec => []ByteOrder
  BY StreamInvariant, IInvImplies, PTL

(***************************************************************************)
(* READ_FULL is never raised on an empty buffer.                           *)
(***************************************************************************)
THEOREM StreamEmptyIsRebased == SafeSpec => []EmptyIsRebased
  BY StreamInvariant, IInvImplies, PTL

(***************************************************************************)
(* A descriptor is never closed, nor a closed one watched, under the event *)
(* library's feet.                                                         *)
(***************************************************************************)
THEOREM StreamWatchedFdOpen == SafeSpec => []WatchedFdOpen
  BY StreamInvariant, IInvImplies, PTL

(***************************************************************************)
(* One close(2) and one on_close per stream.                               *)
(***************************************************************************)
THEOREM StreamCloseOnce == SafeSpec => []CloseOnce
  BY StreamInvariant, IInvImplies, PTL

(***************************************************************************)
(* A closed stream is not watched, so that read_cb neither runs for it nor *)
(* goes on calling on_read; of all the other steps none calls on_read or   *)
(* on_error.                                                               *)
(***************************************************************************)
THEOREM StreamSilentOnceClosed == SafeSpec => SilentOnceClosed
<1> DEFINE Silent == fd = Closed => ~OnReadCalled /\ ~OnErrorCalled
<1>1. IInv /\ [Next]_vars => [Silent]_vars
  <2> SUFFICES ASSUME IInv, Next, fd = Closed, OnReadCalled \/ OnErrorCalled
               PROVE  FALSE
    OBVIOUS
  <2>0. ~active /\ consumed \in Nat
    BY DEF IInv, BufferInv, ControlInv, WatchedFdOpen, Closed
  <2>1. stack \in {<<>>, <<"full">>, <<"read">>} /\ stack' # <<>>
    BY DEF OnReadCalled, OnErrorCalled
  <2>2. stack # <<>> => OnReadCalled /\ Top # "process" /\ Top # "close"
    BY <2>1 DEF OnErrorCalled, Top
  <2>3. stack = <<"read">> => consumed' # consumed /\ rbuf'.len > 0
    <3>1. stack = <<"read">> => consumed' > consumed /\ rbuf'.len > 0
      BY DEF OnReadCalled, OnErrorCalled
    <3> QED BY <2>0, <3>1
  <2>4. ASSUME ReadBufferAvailable, stack = <<"full">> PROVE FALSE
    <3>1. stack' = <<"read">>
      BY <2>2, <2>4 DEF OnReadCalled
    <3>2. stack' \in {<<"full">>, <<"error">>}
      BY <2>4 DEF ReadBufferAvailable, ReadFull, ReadBytes, Reading, ReadEOF,
                  ReadAgain, AtEnd, ReadError, Closed
    <3> QED BY <3>1, <3>2
  <2>5. CASE read_cb
    BY <2>0, <2>5 DEF read_cb
  <2>6. ASSUME NEW l \in -1 .. Size, OnReadReturns(l) PROVE FALSE
    <3>1. stack = <<"read">> /\ consumed' # consumed
      BY <2>3, <2>6 DEF OnReadReturns
    <3>2. stack' = <<>>
      BY <2>0, <2>6, <3>1 DEF OnReadReturns, CallAgain
    <3> QED BY <2>1, <3>2
  <2>7. ASSUME NEW b \in BOOLEAN, OnErrorReturns(b) PROVE FALSE
    <3>1. stack = <<"full">>
      BY <2>1, <2>7 DEF OnErrorReturns
    <3>2. CASE CloseStream
      BY <2>1, <3>2 DEF CloseStream, Close, MayClose, Closed
    <3> QED BY <2>4, <2>7, <3>1, <3>2 DEF OnErrorReturns
  <2>8. ASSUME NEW l \in -1 .. Size, ProcessReturns(l) PROVE FALSE
    BY <2>2, <2>8 DEF ProcessReturns
  <2>9. CASE OnCloseReturns
    BY <2>2, <2>9 DEF OnCloseReturns
  <2>10. CASE sancus_stream_process
    <3>1. stack' = Append(stack, "process")
      BY <2>10 DEF sancus_stream_process
    <3>2. stack' \in {<<"read">>, <<"full">>, <<"eof">>, <<"error">>}
      BY DEF OnReadCalled, OnErrorCalled
    <3>3. stack \in Seq(Callbacks)
      BY DEF IInv, ControlInv
    <3>4. Len(stack') = Len(stack) + 1 /\ stack'[Len(stack) + 1] = "process"
      BY <3>1, <3>3
    <3>5. Len(stack') = 1 /\ stack'[1] # "process"
      BY <3>2
    <3>6. Len(stack) = 0
      BY <3>3, <3>4, <3>5
    <3> QED BY <3>4, <3>5, <3>6
  <2>11. CASE sancus_stream_reset_readbuffer \/ sancus_stream_init
    <3>1. stack' = stack /\ rbuf'.len = 0
      BY <2>11 DEF sancus_stream_reset_readbuffer, sancus_buffer_reset, Window,
                   sancus_stream_init, sancus_buffer_bind
    <3>2. stack = <<"full">>
      BY <2>1, <2>3, <3>1
    <3> QED BY <2>2, <3>1, <3>2 DEF OnReadCalled
  <2>12. CASE \/ sancus_stream_start \/ sancus_stream_stop
              \/ sancus_stream_close \/ RebaseReadBuffer
              \/ PeerSends \/ (\E how \in {"eof", "reset"} : PeerEnds(how))
    <3>1. stack' = stack /\ consumed' = consumed
      BY <2>12 DEF sancus_stream_start, sancus_stream_stop,
         sancus_stream_close, MayClose, Closed, RebaseReadBuffer, PeerSends,
         PeerEnds
    <3>2. stack = <<"full">>
      BY <2>1, <2>3, <3>1
    <3> QED BY <2>2, <3>1, <3>2 DEF OnReadCalled
  <2> QED BY <2>5, <2>6, <2>7, <2>8, <2>9, <2>10, <2>11, <2>12
          DEF Next, CallbackReturns, Application, Peer
<1> QED BY <1>1, StreamInvariant, PTL DEF SafeSpec, SilentOnceClosed

----------------------------------------------------------------------------
(* The stream implements the channel.                                      *)

\* The n bytes that follow number c.
Numbered(c, n) == [i \in 1 .. n |-> c + i]

\* The channel's window, as the application is shown it.
Shown == [i \in 1 .. rbuf.len |-> rbuf.buf[rbuf.base + i - 1]]

(***************************************************************************)
(* A run of numbered bytes is a sequence, grows by the bytes that follow   *)
(* it and shrinks from the front.                                          *)
(***************************************************************************)
LEMMA NumberedLemma ==
  ASSUME NEW c \in Nat, NEW n \in Nat
  PROVE  /\ Numbered(c, n) \in Seq(Nat) /\ Len(Numbered(c, n)) = n
         /\ Numbered(c, 0) = <<>>
         /\ \A k \in Nat : Numbered(c, n) \o Numbered(c + n, k)
                              = Numbered(c, n + k)
         /\ \A m \in 0 .. n : SubSeq(Numbered(c, n), n - m + 1, n)
                              = Numbered(c + (n - m), m)
<1>1. \A d, k \in Nat : Numbered(d, k) \in Seq(Nat) /\ Len(Numbered(d, k)) = k
  BY DEF Numbered
<1>2. Numbered(c, 0) = <<>>
  BY DEF Numbered
<1>3. ASSUME NEW k \in Nat
      PROVE  Numbered(c, n) \o Numbered(c + n, k) = Numbered(c, n + k)
  <2>1. PICK s : s = Numbered(c, n)
    OBVIOUS
  <2>2. PICK t : t = Numbered(c + n, k)
    OBVIOUS
  <2>3. PICK u : u = Numbered(c, n + k)
    OBVIOUS
  <2>4. /\ s \in Seq(Nat) /\ Len(s) = n /\ t \in Seq(Nat) /\ Len(t) = k
        /\ u \in Seq(Nat) /\ Len(u) = n + k
    <3>1. c + n \in Nat /\ n + k \in Nat
      OBVIOUS
    <3> QED BY <1>1, <2>1, <2>2, <2>3, <3>1
  <2>5. /\ s \o t \in Seq(Nat) /\ Len(s \o t) = n + k
        /\ \A i \in 1 .. n + k : (s \o t)[i] = IF i <= n THEN s[i] ELSE t[i - n]
    BY <2>4, ConcatProperties
  <2>6. ASSUME NEW i \in 1 .. n + k PROVE (s \o t)[i] = u[i]
    <3>1. u[i] = c + i
      BY <2>3 DEF Numbered
    <3>2. CASE i <= n
      BY <2>1, <2>5, <3>1, <3>2 DEF Numbered
    <3>3. CASE i > n
      <4>1. i - n \in 1 .. k /\ (c + n) + (i - n) = c + i
        BY <3>3
      <4>2. t[i - n] = (c + n) + (i - n)
        BY <2>2, <4>1 DEF Numbered
      <4> QED BY <2>5, <3>1, <3>3, <4>1, <4>2
    <3>4. i <= n \/ i > n
      OBVIOUS
    <3> QED BY <3>2, <3>3, <3>4
  <2>7. s \o t = u
    BY <2>4, <2>5, <2>6, SeqEqual
  <2> QED BY <2>1, <2>2, <2>3, <2>7
<1>4. ASSUME NEW m \in 0 .. n
      PROVE  SubSeq(Numbered(c, n), n - m + 1, n) = Numbered(c + (n - m), m)
  <2>1. PICK s : s = Numbered(c, n)
    OBVIOUS
  <2>2. PICK u : u = Numbered(c + (n - m), m)
    OBVIOUS
  <2>3. PICK t : t = SubSeq(s, n - m + 1, n)
    OBVIOUS
  <2>4. u \in Seq(Nat) /\ Len(u) = m
    <3>1. c + (n - m) \in Nat /\ m \in Nat
      OBVIOUS
    <3> QED BY <1>1, <2>2, <3>1
  <2>5. n - m + 1 \in Int /\ n \in Int
        /\ \A i \in n - m + 1 .. n : s[i] \in Nat
    BY <2>1 DEF Numbered
  <2>6. /\ t \in Seq(Nat)
        /\ Len(t) = IF n - m + 1 <= n THEN n - (n - m + 1) + 1 ELSE 0
        /\ \A i \in 1 .. n - (n - m + 1) + 1 : t[i] = s[(n - m + 1) + i - 1]
    BY <2>3, <2>5, SubSeqProperties
  <2>7. Len(t) = m
    BY <2>6
  <2>8. ASSUME NEW i \in 1 .. m PROVE t[i] = u[i]
    <3>1. /\ (n - m + 1) + i - 1 \in 1 .. n /\ i \in 1 .. n - (n - m + 1) + 1
          /\ c + ((n - m + 1) + i - 1) = c + (n - m) + i
      OBVIOUS
    <3>2. t[i] = s[(n - m + 1) + i - 1]
      BY <2>6, <3>1
    <3>3. s[(n - m + 1) + i - 1] = c + ((n - m + 1) + i - 1)
      BY <2>1, <3>1 DEF Numbered
    <3>4. u[i] = c + (n - m) + i
      BY <2>2 DEF Numbered
    <3> QED BY <3>1, <3>2, <3>3, <3>4
  <2>9. t = u
    BY <2>4, <2>6, <2>7, <2>8, SeqEqual
  <2> QED BY <2>1, <2>2, <2>3, <2>9
<1> QED BY <1>1, <1>2, <1>3, <1>4

(***************************************************************************)
(* The window is the run of bytes between those disposed of and the last   *)
(* one received.                                                           *)
(***************************************************************************)
LEMMA WindowLemma ==
  BufferInv => \E d \in Nat, k \in Nat :
                  /\ consumed = d /\ received = d + k
                  /\ Shown = Numbered(d, k)
<1> SUFFICES ASSUME BufferInv
             PROVE  \E d \in Nat, k \in Nat :
                       /\ consumed = d /\ received = d + k
                       /\ Shown = Numbered(d, k)
  OBVIOUS
<1>1. PICK m \in [0 .. Size - 1 -> Nat], p \in Nat, l \in Nat :
         rbuf = [buf |-> m, base |-> p, len |-> l, size |-> Size]
  BY FieldsLemma DEF BufferInv, WellFormed
<1>2. consumed \in Nat /\ received = consumed + l
  BY <1>1 DEF BufferInv
<1>3. ASSUME NEW i \in 1 .. l PROVE m[p + i - 1] = consumed + i
  <2>1. i - 1 \in 0 .. l - 1
    OBVIOUS
  <2>2. m[p + (i - 1)] = consumed + (i - 1) + 1
    BY <1>1, <2>1 DEF BufferInv, Holds
  <2>3. p + (i - 1) = p + i - 1 /\ consumed + (i - 1) + 1 = consumed + i
    BY <1>2
  <2> QED BY <2>2, <2>3
<1>4. Shown = [i \in 1 .. l |-> m[p + i - 1]]
  BY <1>1 DEF Shown
<1> QED BY <1>2, <1>3, <1>4 DEF Numbered

(***************************************************************************)
(* The things a step may do to the channel, if any.                        *)
(***************************************************************************)
Idles == UNCHANGED <<fd, received, consumed, asked>>

Arrives ==
    /\ fd >= 0 /\ UNCHANGED <<fd, consumed, asked>>
    /\ received' > received

Disposes ==
    /\ UNCHANGED <<fd, received>>
    /\ asked' \in Nat \ {0}
    /\ consumed' = consumed + (IF asked' >= rbuf.len THEN rbuf.len ELSE asked')

Shuts ==
    /\ fd >= 0 /\ fd' = Closed
    /\ UNCHANGED <<received, consumed, asked>>

Reopens ==
    /\ fd = Closed /\ fd' >= 0
    /\ received' >= received /\ consumed' = received'
    /\ UNCHANGED asked

(***************************************************************************)
(* Closing shuts the channel, once.                                        *)
(***************************************************************************)
LEMMA CloseShuts ==
  ASSUME NEW watched, NEW caller, Close(watched, caller),
         UNCHANGED <<received, consumed, asked>>
  PROVE  Shuts \/ Idles
  BY DEF Close, MayClose, Shuts, Idles

(***************************************************************************)
(* Consuming disposes, of nothing if the window is empty.                  *)
(***************************************************************************)
LEMMA ConsumeDisposes ==
  ASSUME BufferInv, NEW l \in Nat \ {0}, Consume(l), UNCHANGED <<fd, received>>
  PROVE  Disposes
  BY DEF Consume, Disposes

(***************************************************************************)
(* Every step of the stream does one of them or nothing.                   *)
(***************************************************************************)
LEMMA StepKinds ==
  ASSUME IInv, [Next]_vars
  PROVE  Idles \/ Arrives \/ Disposes \/ Shuts \/ Reopens
<1>0. consumed \in Nat /\ received \in Nat /\ sent \in Nat /\ rbuf.len \in Nat
  BY DEF IInv, BufferInv, WellFormed, Buffer
<1>1. ASSUME UNCHANGED <<fd, received, consumed, asked>> PROVE Idles
  BY <1>1 DEF Idles
<1>2. ASSUME ReadBufferAvailable PROVE Arrives \/ Idles
  <2>1. CASE \E n \in 1 .. Size : ReadBytes(n)
    BY <1>0, <1>2, <2>1, SizeAssumption
    DEF ReadBufferAvailable, ReadBytes, Reading, Arrives
  <2>2. CASE UNCHANGED received
    BY <1>1, <1>2, <2>2 DEF ReadBufferAvailable
  <2> QED BY <1>2, <2>1, <2>2
          DEF ReadBufferAvailable, ReadFull, ReadEOF, ReadAgain, ReadError,
              kernel
<1>3. CASE read_cb
  BY <1>2, <1>3 DEF read_cb
<1>4. ASSUME NEW l \in -1 .. Size, OnReadReturns(l)
      PROVE  Idles \/ Disposes \/ Shuts
  <2>1. UNCHANGED received
    BY <1>4 DEF OnReadReturns, kernel
  <2>2. CASE l > 0
    <3>1. l \in Nat \ {0} /\ Consume(l) /\ UNCHANGED fd
      BY <1>4, <2>2 DEF OnReadReturns
    <3> QED BY <2>1, <3>1, ConsumeDisposes DEF IInv
  <2>3. CASE l = 0
    BY <1>1, <1>4, <2>1, <2>3 DEF OnReadReturns
  <2>4. CASE l < 0
    <3>1. Close(FALSE, <<>>) /\ UNCHANGED <<consumed, asked>>
      <4>1. ~(l > 0) /\ l # 0
        BY <2>4
      <4> QED BY <1>4, <4>1, Zenon DEF OnReadReturns, CloseStream
    <3> QED BY <1>0, <2>1, <3>1, CloseShuts
  <2> QED BY <2>2, <2>3, <2>4
<1>5. ASSUME NEW l \in -1 .. Size, ProcessReturns(l)
      PROVE  Idles \/ Disposes
  <2>1. UNCHANGED <<fd, received>>
    BY <1>5 DEF ProcessReturns, kernel
  <2>2. CASE l > 0
    <3>1. l \in Nat \ {0} /\ Consume(l)
      BY <1>5, <2>2 DEF ProcessReturns
    <3> QED BY <2>1, <3>1, ConsumeDisposes DEF IInv
  <2>3. CASE ~(l > 0)
    BY <1>1, <1>5, <2>1, <2>3 DEF ProcessReturns
  <2> QED BY <2>2, <2>3
<1>6. ASSUME NEW b \in BOOLEAN, OnErrorReturns(b)
      PROVE  Arrives \/ Idles \/ Shuts
  <2>1. CASE CloseStream /\ UNCHANGED <<consumed, asked, kernel>>
    BY <1>0, <2>1, CloseShuts DEF CloseStream, kernel
  <2>2. CASE UNCHANGED <<fd, consumed, asked, kernel>>
    BY <1>1, <2>2 DEF kernel
  <2> QED BY <1>2, <1>6, <2>1, <2>2 DEF OnErrorReturns
<1>7. CASE sancus_stream_close
  BY <1>0, <1>7, CloseShuts DEF sancus_stream_close, kernel
<1>8. CASE sancus_stream_reset_readbuffer
  BY <1>0, <1>8 DEF sancus_stream_reset_readbuffer, kernel, Disposes
<1>9. CASE sancus_stream_init
  BY <1>9, FdsAssumption DEF sancus_stream_init, Reopens, IInv, BufferInv
<1>10. CASE \/ OnCloseReturns \/ sancus_stream_process \/ sancus_stream_start
            \/ sancus_stream_stop \/ RebaseReadBuffer \/ PeerSends
            \/ (\E how \in {"eof", "reset"} : PeerEnds(how))
            \/ UNCHANGED vars
  <2>1. UNCHANGED <<fd, received, consumed, asked>>
    BY <1>10 DEF OnCloseReturns, sancus_stream_process, sancus_stream_start,
                 sancus_stream_stop, RebaseReadBuffer, PeerSends, PeerEnds,
                 kernel, vars
  <2> QED BY <1>1, <2>1
<1> QED BY <1>3, <1>4, <1>5, <1>6, <1>7, <1>8, <1>9, <1>10
        DEF Next, CallbackReturns, Application, Peer

(***************************************************************************)
(* Each of these is a step of the channel, or leaves it alone.             *)
(***************************************************************************)
LEMMA ChannelStep ==
  IInv /\ IInv' /\ [Next]_vars
     => [Channel!ChannelNext]_(Channel!channel)
<1> SUFFICES ASSUME IInv, IInv', [Next]_vars
             PROVE  Channel!ChannelNext \/ UNCHANGED Channel!channel
  OBVIOUS
<1>1. PICK c \in Nat, n \in Nat :
         consumed = c /\ received = c + n /\ Shown = Numbered(c, n)
  BY WindowLemma DEF IInv
<1>2. PICK d \in Nat, k \in Nat :
         consumed' = d /\ received' = d + k /\ Shown' = Numbered(d, k)
  <2>1. (BufferInv => \E d \in Nat, k \in Nat :
            /\ consumed = d /\ received = d + k
            /\ Shown = Numbered(d, k))'
    BY WindowLemma, PTL
  <2> QED BY <2>1 DEF IInv
<1>3. Channel!channel = <<fd >= 0, Shown, received, asked>>
      /\ Channel!channel' = <<fd' >= 0, Shown', received', asked'>>
  BY DEF Channel!channel, Shown
<1>4. CASE Arrives
  <2>1. fd >= 0 /\ fd' = fd /\ d = c /\ d + k > c + n /\ asked' = asked
    BY <1>1, <1>2, <1>4 DEF Arrives
  <2>2. PICK g \in Nat \ {0} : k = n + g
    <3>1. k - n \in Nat \ {0} /\ k = n + (k - n)
      BY <2>1
    <3> QED BY <3>1
  <2>3. (d + k) - (c + n) = g
    BY <2>1, <2>2
  <2>4. Numbered(c, n) \o Numbered(c + n, g) = Numbered(c, n + g)
    BY NumberedLemma
  <2>5. Shown' = Shown \o Numbered(received, g)
    BY <1>1, <1>2, <2>1, <2>2, <2>4
  <2>6. Shown' = Shown \o [i \in 1 .. received' - received |-> received + i]
    BY <1>1, <1>2, <2>3, <2>5 DEF Numbered
  <2>7. received' > received
    BY <1>1, <1>2, <2>1
  <2>8. Channel!Arrive
    BY <2>1, <2>6, <2>7 DEF Channel!Arrive, Shown
  <2> QED BY <2>8 DEF Channel!ChannelNext
<1>5. CASE Disposes
  <2>0. rbuf.len = n
    <3>1. rbuf.len \in Nat /\ consumed + rbuf.len = received
      BY DEF IInv, BufferInv, WellFormed, Buffer
    <3> QED BY <1>1, <3>1
  <2>1. fd' = fd /\ received' = received /\ d + k = c + n
    BY <1>1, <1>2, <1>5 DEF Disposes
  <2>2. PICK a \in Nat \ {0} :
           asked' = a /\ d = c + (IF a >= n THEN n ELSE a)
    BY <1>1, <1>2, <1>5, <2>0 DEF Disposes
  <2>3. Shown' = SubSeq(Shown, a + 1, Len(Shown))
    <3>1. Len(Shown) = n /\ Shown \in Seq(Nat)
      BY <1>1, NumberedLemma
    <3>2. CASE a < n
      <4>0. k \in 0 .. n
        BY <2>1, <2>2, <3>2
      <4>1. c + (n - k) = d /\ n - k + 1 = a + 1
        BY <2>1, <2>2, <3>2
      <4>2. SubSeq(Numbered(c, n), n - k + 1, n) = Numbered(c + (n - k), k)
        BY <4>0, NumberedLemma
      <4> QED BY <1>1, <1>2, <3>1, <4>1, <4>2
    <3>3. CASE a >= n
      <4>1. k = 0
        BY <2>1, <2>2, <3>3
      <4>2. Shown' = <<>>
        BY <1>2, <4>1, NumberedLemma
      <4>3. SubSeq(Shown, a + 1, n) = <<>>
        BY <3>1, <3>3
      <4> QED BY <3>1, <4>2, <4>3
    <3> QED BY <3>2, <3>3
  <2>4. asked' > 0
    BY <2>2
  <2>5. Channel!Dispose
    BY <2>1, <2>2, <2>3, <2>4 DEF Channel!Dispose, Shown
  <2> QED BY <2>5 DEF Channel!ChannelNext
<1>6. CASE Shuts
  <2>1. fd >= 0 /\ ~(fd' >= 0) /\ received' = received /\ asked' = asked
        /\ d = c /\ d + k = c + n
    BY <1>1, <1>2, <1>6 DEF Shuts, Closed
  <2>2. Shown' = Shown
    <3>1. k = n
      BY <2>1
    <3> QED BY <1>1, <1>2, <2>1, <3>1
  <2>3. Channel!Shut
    BY <2>1, <2>2 DEF Channel!Shut, Shown
  <2> QED BY <2>3 DEF Channel!ChannelNext
<1>7. CASE Reopens
  <2>1. ~(fd >= 0) /\ fd' >= 0 /\ received' >= received /\ d = d + k
        /\ asked' = asked
    BY <1>1, <1>2, <1>7 DEF Reopens, Closed
  <2>2. Shown' = <<>>
    <3>1. k = 0
      BY <2>1
    <3> QED BY <1>2, <3>1, NumberedLemma
  <2>3. Channel!Reopen
    BY <2>1, <2>2 DEF Channel!Reopen, Shown
  <2> QED BY <2>3 DEF Channel!ChannelNext
<1>8. CASE Idles
  <2>1. d = c /\ d + k = c + n
    BY <1>1, <1>2, <1>8 DEF Idles
  <2>2. k = n
    BY <2>1
  <2>3. Shown' = Shown
    BY <1>1, <1>2, <2>1, <2>2
  <2> QED BY <1>3, <1>8, <2>3 DEF Idles
<1> QED BY <1>4, <1>5, <1>6, <1>7, <1>8, StepKinds

(***************************************************************************)
(* The stream implements the channel: whatever the sizes and the order of  *)
(* calls, callbacks and reopenings, the application sees a queue of the    *)
(* bytes that arrived, and the buffer's moves are invisible to it.         *)
(***************************************************************************)
THEOREM StreamIsChannel == SafeSpec => IsChannel
<1>1. Init => Channel!ChannelInit
  <2> SUFFICES ASSUME Init PROVE Channel!ChannelInit
    OBVIOUS
  <2>1. fd >= 0 /\ received = 0 /\ asked = 0
    BY FdsAssumption DEF Init
  <2>2. rbuf.len = 0
    BY DEF Init, sancus_buffer_bind
  <2>3. Shown = <<>>
    BY <2>2 DEF Shown
  <2> QED BY <2>1, <2>3 DEF Channel!ChannelInit, Shown
<1> QED BY <1>1, ChannelStep, StreamInvariant, PTL
        DEF SafeSpec, IsChannel, Channel!ChannelSpec
=============================================================================
