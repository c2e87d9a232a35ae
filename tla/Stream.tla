------------------------------- MODULE Stream -------------------------------
(***************************************************************************)
(* A sancus_stream (src/sancus/stream.c): one watched descriptor, one read *)
(* buffer and the application's callbacks on_read, on_error and on_close.  *)
(*                                                                         *)
(* The library and the application run in one thread, that of the event    *)
(* loop, but the callbacks may call the library again: `stack' holds the   *)
(* callbacks that are running, innermost last.  A library function is      *)
(* atomic between two callbacks, so the steps below start where the        *)
(* library is entered (a call of the API, or a callback returning) and end *)
(* where it leaves (a return, or the next callback).  The application is   *)
(* free to call anything at any time within the documented preconditions.  *)
(*                                                                         *)
(* The bytes of the connection are numbered 1, 2, ... in the order the     *)
(* peer sends them; a reopened stream goes on counting.                    *)
(***************************************************************************)
EXTENDS Integers, Sequences, LegacyBuffer

CONSTANTS Fds,       \* the descriptors a stream may be opened with
          Size,      \* read_buf_size
          MaxBytes,  \* bound: bytes sent by the peer
          MaxInits,  \* bound: calls of sancus_stream_init
          MaxDepth   \* bound: nesting of callbacks

ASSUME FdsAssumption == Fds \subseteq Nat
ASSUME SizeAssumption == Size \in Nat \ {0}
ASSUME BoundsAssumption == /\ MaxBytes \in Nat
                           /\ MaxInits \in Nat
                           /\ MaxDepth \in Nat \ {0}

VARIABLES
    fd,        \* read_watcher.fd, -1 once closed
    active,    \* sancus_ev_is_active(&read_watcher)
    rbuf,      \* read_buffer
    stack,     \* the callbacks that are running
    peer,      \* what a read of the drained socket meets: open, eof, reset
    sent,      \* bytes sent by the peer
    received,  \* bytes read(2) has returned
    consumed,  \* bytes the application has disposed of
    asked,     \* how many it last asked to dispose of
    closes,    \* calls of on_close since the last init
    inits      \* calls of sancus_stream_init

vars == <<fd, active, rbuf, stack, peer, sent, received, consumed, asked,
          closes, inits>>

kernel == <<peer, sent, received>>

Callbacks == {"read", "process", "full", "eof", "error", "close"}

Closed == -1
Byte == Nat
Pending == sent - received

Top == stack[Len(stack)]
Below == SubSeq(stack, 1, Len(stack) - 1)

Init ==
    /\ fd \in Fds
    /\ active = FALSE
    /\ rbuf = sancus_buffer_bind([i \in 0 .. Size - 1 |-> 0], Size)
    /\ stack = <<>>
    /\ peer = "open"
    /\ sent = 0 /\ received = 0 /\ consumed = 0 /\ asked = 0
    /\ closes = 0
    /\ inits = 1

----------------------------------------------------------------------------
(* Deliberate bugs, used only to show that the properties notice them.     *)

CloseWhileWatched(f, watched) == f >= 0
CloseTwice(f, watched) == ~watched
CallAgainAfterStop == rbuf'.len > 0

FullIgnored ==
    /\ sancus_buffer_available(rbuf) = 0
    /\ stack' = <<>>
    /\ UNCHANGED <<rbuf, kernel>>

----------------------------------------------------------------------------
(* Closing.  sancus_stream_close does nothing on a watched or a closed     *)
(* stream; otherwise it closes the descriptor and then calls on_close.     *)

MayClose(f, watched) == f >= 0 /\ ~watched

Close(watched, caller) ==
    IF MayClose(fd, watched)
      THEN /\ fd' = Closed
           /\ closes' = closes + 1
           /\ stack' = Append(caller, "close")
      ELSE /\ stack' = caller
           /\ UNCHANGED <<fd, closes>>

\* close_stream: in read_cb
CloseStream ==
    /\ active' = FALSE
    /\ Close(FALSE, <<>>)
    /\ UNCHANGED inits

----------------------------------------------------------------------------
(* read_cb.  It runs on an empty stack, so the callbacks it makes are      *)
(* always the first frame.                                                 *)

Reading == fd >= 0 /\ Pending > 0
AtEnd(state) == fd >= 0 /\ Pending = 0 /\ peer = state

ReadBytes(n) ==
    /\ Reading
    /\ n <= Pending /\ n <= sancus_buffer_available(rbuf)
    /\ rbuf' = sancus_buffer_read(rbuf, received + 1, n)
    /\ received' = received + n
    /\ stack' = <<"read">>
    /\ UNCHANGED <<peer, sent>>

ReadEOF ==
    /\ AtEnd("eof")
    /\ stack' = <<"eof">>
    /\ UNCHANGED <<rbuf, kernel>>

ReadAgain ==
    /\ AtEnd("open")
    /\ stack' = <<>>
    /\ UNCHANGED <<rbuf, kernel>>

\* A closed descriptor (EBADF), or the pending error of the socket, which
\* read(2) reports once.
ReadError ==
    /\ fd = Closed \/ AtEnd("reset")
    /\ stack' = <<"error">>
    /\ peer' = IF fd = Closed THEN peer ELSE "eof"
    /\ UNCHANGED <<rbuf, sent, received>>

ReadFull ==
    /\ sancus_buffer_available(rbuf) = 0
    /\ stack' = <<"full">>
    /\ UNCHANGED <<rbuf, kernel>>

\* from the label read_buffer_available: to the next callback or the return
ReadBufferAvailable ==
    /\ \/ ReadFull
       \/ /\ sancus_buffer_available(rbuf) > 0
          /\ \/ \E n \in 1 .. Size : ReadBytes(n)
             \/ ReadEOF
             \/ ReadAgain
             \/ ReadError
    /\ UNCHANGED <<fd, active, consumed, asked, closes, inits>>

read_cb ==
    /\ stack = <<>> /\ active
    /\ ReadBufferAvailable

----------------------------------------------------------------------------
(* The callbacks return.  l and b stand for what the application answers.  *)

Consume(l) ==
    /\ rbuf' = sancus_buffer_skip(rbuf, l)
    /\ consumed' = consumed + (IF l >= rbuf.len THEN rbuf.len ELSE l)
    /\ asked' = l

CallAgain == active /\ rbuf'.len > 0

OnReadReturns(l) ==
    /\ stack = <<"read">>
    /\ \/ /\ l > 0
          /\ Consume(l)
          /\ stack' = IF CallAgain THEN <<"read">> ELSE <<>>
          /\ UNCHANGED <<fd, active, closes, inits>>
       \/ /\ l = 0
          /\ stack' = <<>>
          /\ UNCHANGED <<fd, active, rbuf, consumed, asked, closes, inits>>
       \/ /\ l < 0
          /\ CloseStream
          /\ UNCHANGED <<rbuf, consumed, asked>>
    /\ UNCHANGED kernel

OnErrorReturns(b) ==
    \/ /\ b
       /\ stack \in {<<"full">>, <<"eof">>, <<"error">>}
       /\ CloseStream
       /\ UNCHANGED <<rbuf, consumed, asked, kernel>>
    \/ /\ ~b
       /\ stack = <<"full">>
       /\ ReadBufferAvailable
    \/ /\ ~b
       /\ stack \in {<<"eof">>, <<"error">>}
       /\ stack' = <<>>
       /\ UNCHANGED <<fd, active, rbuf, consumed, asked, closes, inits,
                      kernel>>

OnCloseReturns ==
    /\ stack # <<>> /\ Top = "close"
    /\ stack' = Below
    /\ UNCHANGED <<fd, active, rbuf, consumed, asked, closes, inits, kernel>>

\* on_read called from sancus_stream_process
ProcessReturns(l) ==
    /\ stack # <<>> /\ Top = "process"
    /\ stack' = Below
    /\ IF l > 0 THEN Consume(l) ELSE UNCHANGED <<rbuf, consumed, asked>>
    /\ UNCHANGED <<fd, active, closes, inits, kernel>>

----------------------------------------------------------------------------
(* The API, called by the application at rest or from a callback.          *)

sancus_stream_process ==
    /\ rbuf.len > 0
    /\ Len(stack) < MaxDepth
    /\ stack' = Append(stack, "process")
    /\ UNCHANGED <<fd, active, rbuf, consumed, asked, closes, inits, kernel>>

sancus_stream_start ==
    /\ ~active /\ fd >= 0
    /\ active' = TRUE
    /\ UNCHANGED <<fd, rbuf, stack, consumed, asked, closes, inits, kernel>>

sancus_stream_stop ==
    /\ active
    /\ active' = FALSE
    /\ UNCHANGED <<fd, rbuf, stack, consumed, asked, closes, inits, kernel>>

sancus_stream_close ==
    /\ Len(stack) < MaxDepth
    /\ MayClose(fd, active)
    /\ Close(active, stack)
    /\ UNCHANGED <<active, rbuf, consumed, asked, inits, kernel>>

sancus_stream_reset_readbuffer ==
    /\ rbuf.len > 0
    /\ rbuf' = sancus_buffer_reset(rbuf)
    /\ consumed' = consumed + rbuf.len /\ asked' = rbuf.len
    /\ UNCHANGED <<fd, active, stack, closes, inits, kernel>>

RebaseReadBuffer ==
    /\ rbuf.base > 0
    /\ rbuf' = sancus_buffer_rebase(rbuf)
    /\ UNCHANGED <<fd, active, stack, consumed, asked, closes, inits, kernel>>

\* The structure is used again for a new connection, with the same array;
\* what the old one had not delivered is gone with it.
sancus_stream_init ==
    /\ fd = Closed /\ ~active
    /\ inits < MaxInits
    /\ inits' = inits + 1
    /\ fd' \in Fds
    /\ rbuf' = sancus_buffer_bind(rbuf.buf, Size)
    /\ received' = sent /\ consumed' = sent
    /\ closes' = 0
    /\ peer' = "open"
    /\ UNCHANGED <<active, stack, sent, asked>>

----------------------------------------------------------------------------
(* The peer.                                                               *)

PeerSends ==
    /\ peer = "open" /\ fd # Closed
    /\ sent < MaxBytes
    /\ sent' = sent + 1
    /\ UNCHANGED <<fd, active, rbuf, stack, peer, received, consumed, asked,
                   closes, inits>>

PeerEnds(how) ==
    /\ peer = "open" /\ fd # Closed
    /\ peer' = how
    /\ UNCHANGED <<fd, active, rbuf, stack, sent, received, consumed, asked,
                   closes, inits>>

----------------------------------------------------------------------------
CallbackReturns ==
    \/ \E l \in -1 .. Size : OnReadReturns(l) \/ ProcessReturns(l)
    \/ \E b \in BOOLEAN : OnErrorReturns(b)
    \/ OnCloseReturns

Application ==
    \/ sancus_stream_process
    \/ sancus_stream_start
    \/ sancus_stream_stop
    \/ sancus_stream_close
    \/ sancus_stream_reset_readbuffer
    \/ RebaseReadBuffer
    \/ sancus_stream_init

Peer == PeerSends \/ \E how \in {"eof", "reset"} : PeerEnds(how)

Next == read_cb \/ CallbackReturns \/ Application \/ Peer

\* The READ_FULL handler gives up or made room before it said "go on".
FullHandled ==
    /\ stack = <<"full">>
    /\ \/ OnErrorReturns(TRUE)
       \/ sancus_buffer_available(rbuf) > 0 /\ OnErrorReturns(FALSE)

(***************************************************************************)
(* Every callback returns (at each depth: a handler makes finitely many    *)
(* calls), the loop dispatches a watched descriptor that is ready, and the *)
(* READ_FULL handler does not for ever answer "go on" without making room, *)
(* which is what read_cb asks of it.                                       *)
(***************************************************************************)
Fairness ==
    /\ SF_vars(read_cb)
    /\ \A d \in 1 .. MaxDepth : SF_vars(Len(stack) = d /\ CallbackReturns)
    /\ SF_vars(FullHandled)

SafeSpec == Init /\ [][Next]_vars
Spec == SafeSpec /\ Fairness

----------------------------------------------------------------------------
(* Properties.                                                             *)

TypeOK ==
    /\ fd \in Fds \cup {Closed}
    /\ active \in BOOLEAN
    /\ rbuf \in Buffer(Size, Byte)
    /\ stack \in Seq(Callbacks)
    /\ peer \in {"open", "eof", "reset"}
    /\ sent \in Nat /\ received \in Nat /\ consumed \in Nat /\ asked \in Nat
    /\ closes \in Nat /\ inits \in Nat

(***************************************************************************)
(* The window the application is shown (sancus_buffer_data, _len) holds    *)
(* exactly the bytes received and not yet disposed of, in order: no read,  *)
(* partial skip, rebase or re-entrant call loses, repeats or reorders one. *)
(***************************************************************************)
ByteOrder ==
    /\ consumed + rbuf.len = received /\ received <= sent
    /\ rbuf.base + rbuf.len <= rbuf.size
    /\ \A i \in 0 .. rbuf.len - 1 : rbuf.buf[rbuf.base + i] = consumed + i + 1

(***************************************************************************)
(* An emptied buffer has its whole array available again, however it was   *)
(* emptied: read_cb reports READ_FULL only while there is data to dispose  *)
(* of, so a handler that consumes everything always makes room.            *)
(***************************************************************************)
EmptyIsRebased == rbuf.len = 0 => sancus_buffer_available(rbuf) = Size

(***************************************************************************)
(* A watched stream has an open descriptor, whichever callback stopped,    *)
(* closed or restarted it: the event library never reports EV_ERROR for    *)
(* it, which read_cb asserts.                                              *)
(***************************************************************************)
WatchedFdOpen == active => fd >= 0

(***************************************************************************)
(* The descriptor is closed and on_close called once per stream, though    *)
(* handlers may close the stream themselves and then ask read_cb to.       *)
(***************************************************************************)
CloseOnce == closes = (IF fd = Closed THEN 1 ELSE 0)

(***************************************************************************)
(* on_close is the last the owner of a stream hears: of a stream that some *)
(* callback stopped and closed, read_cb shows no more of the bytes it has  *)
(* already read, and makes no further call of on_error, but for the one    *)
(* that a READ_FULL handler asks for: it closes the stream, answers "go    *)
(* on", and read_cb reads descriptor -1 (or finds the buffer full still).  *)
(***************************************************************************)
OnReadCalled ==
    /\ stack' = <<"read">>
    /\ \/ stack \in {<<>>, <<"full">>}
       \/ stack = <<"read">> /\ consumed' > consumed /\ rbuf'.len > 0

OnErrorCalled ==
    /\ stack' \in {<<"full">>, <<"eof">>, <<"error">>}
    /\ stack = <<>>

SilentOnceClosed ==
    [][ fd = Closed => ~OnReadCalled /\ ~OnErrorCalled ]_vars

(***************************************************************************)
(* The buffer, the watcher and the callbacks implement a channel of bytes: *)
(* data enters only while the descriptor is open, is shown in order, and   *)
(* is disposed of from the front, by exactly what on_read answered or the  *)
(* application reset, or all there is if that is less.                     *)
(***************************************************************************)
Channel ==
    INSTANCE ByteChannel WITH
        open <- fd >= 0,
        window <- [i \in 1 .. rbuf.len |-> rbuf.buf[rbuf.base + i - 1]],
        arrived <- received

IsChannel == Channel!ChannelSpec

(***************************************************************************)
(* What the peer sends is read, unless the stream is stopped.              *)
(***************************************************************************)
BytesReceived ==
    \A n \in 1 .. MaxBytes :
        (active /\ sent >= n) ~> (received >= n \/ ~active)
============================================================================
