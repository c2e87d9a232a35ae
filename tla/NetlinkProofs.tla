--------------------------- MODULE NetlinkProofs ---------------------------
(***************************************************************************)
(* The netlink receiver's descriptor and its refusals, for any             *)
(* descriptors, ports, message lengths, datagrams and queues; and what it  *)
(* shows of datagrams of one message, which is all that it can walk.       *)
(*                                                                         *)
(* Attributes are laid out within the buffer, found again by the parser    *)
(* and read within their payload, for any buffer, types and sizes, as long *)
(* as the message stays within what SANCUS_NL_ALIGN can count.             *)
(***************************************************************************)
EXTENDS NlReceiver, NlAttr, WellFoundedInduction, TLAPS

----------------------------------------------------------------------------
(* The receiver.                                                           *)

(***************************************************************************)
(* Neither property is inductive.  A receiver that has a descriptor is one *)
(* the application takes for open, so that it does not listen over it; the *)
(* converse does not hold (see AssertsHold).  Datagrams wait on an open    *)
(* descriptor only.  And what is left of the datagram being walked is      *)
(* shown to an application that has the receiver open, or has answered     *)
(* "true" to an earlier message of it.                                     *)
(***************************************************************************)
FdKnown == fd # None => known
QueueOpen == fd = None => queue = <<>>
WalkKnown == running = "walk" => known \/ ret = 1

ReceiverInv ==
    /\ fd \in Fds \cup {None}
    /\ OneDescriptor
    /\ FdKnown
    /\ QueueOpen
    /\ WalkKnown

----------------------------------------------------------------------------
(***************************************************************************)
(* Closing the receiver's descriptor leaves none.                          *)
(***************************************************************************)
LEMMA CloseLemma ==
  ASSUME ReceiverInv, sancus_close2
  PROVE  fd' = None /\ table' = {} /\ queue' = <<>>
  BY DEF ReceiverInv, OneDescriptor, sancus_close2

(***************************************************************************)
(* The invariant holds of a zeroed receiver.                               *)
(***************************************************************************)
LEMMA ReceiverInitStep == Init => ReceiverInv
  BY DEF Init, ReceiverInv, OneDescriptor, FdKnown, QueueOpen, WalkKnown

(***************************************************************************)
(* The API keeps the invariant: a listen that fails leaves no descriptor   *)
(* behind, and one that succeeds takes the place of none.                  *)
(***************************************************************************)
LEMMA ApplicationStep == ReceiverInv /\ Application => ReceiverInv'
<1> SUFFICES ASSUME ReceiverInv, Application PROVE ReceiverInv'
  OBVIOUS
<1> USE DEF ReceiverInv, OneDescriptor, FdKnown, QueueOpen, WalkKnown, Idle, walk, kernel
<1>1. ASSUME NEW port \in Ports, sancus_nl_receiver_listen(port)
      PROVE  ReceiverInv'
  <2>1. fd = None /\ table = {} /\ running' # "walk" /\ queue' = <<>>
    BY <1>1 DEF sancus_nl_receiver_listen
  <2>2. PICK new \in Fds : (Binds(new) /\ known' = TRUE) \/ BindFails(new)
    BY <1>1 DEF sancus_nl_receiver_listen
  <2>3. CASE Binds(new) /\ known' = TRUE
    <3>1. new # None
      BY FdsAssumption DEF None
    <3> QED BY <2>1, <2>3, <3>1 DEF Binds
  <2>4. CASE BindFails(new)
    BY <2>1, <2>4 DEF BindFails
  <2> QED BY <2>2, <2>3, <2>4
<1>2. CASE sancus_nl_receiver_start
  BY <1>2 DEF sancus_nl_receiver_start
<1>3. CASE sancus_nl_receiver_stop
  BY <1>3 DEF sancus_nl_receiver_stop
<1>4. CASE sancus_nl_receiver_close
  <2>1. running' # "walk"
    BY <1>4 DEF sancus_nl_receiver_close
  <2>2. CASE sancus_close2
    BY <2>1, <2>2, CloseLemma
  <2>3. CASE fd < 0 /\ UNCHANGED <<fd, kernel>>
    <3>1. fd = None
      BY <2>3, FdsAssumption
    <3> QED BY <2>1, <2>3, <3>1
  <2> QED BY <1>4, <2>2, <2>3 DEF sancus_nl_receiver_close
<1> QED BY <1>1, <1>2, <1>3, <1>4 DEF Application

(***************************************************************************)
(* So do recv_cb, its walk over a datagram and the callbacks' answers.     *)
(***************************************************************************)
LEMMA ReceiveStep ==
  ASSUME ReceiverInv,
         \/ \E revents \in Revents : recv_cb(revents)
         \/ extract_netlink_message \/ CallbackReturns \/ WatcherError
  PROVE  ReceiverInv'
<1> USE DEF ReceiverInv, OneDescriptor, FdKnown, QueueOpen, WalkKnown, walk, kernel
<1>1. ASSUME NEW revents \in Revents, recv_cb(revents) PROVE ReceiverInv'
  <2>1. UNCHANGED <<fd, table, known>> /\ running' \in {"walk", "on_recvfrom_error", "failing"}
    BY <1>1 DEF recv_cb, sancus_nl_recvfrom, RecvFails
  <2>2. running' = "walk" => queue # <<>>
    BY <1>1 DEF recv_cb, sancus_nl_recvfrom, RecvFails
  <2>3. running' = "walk" => known
    BY <2>2
  <2>4. queue = <<>> => queue' = <<>>
    BY <1>1 DEF recv_cb, sancus_nl_recvfrom, RecvFails
  <2> QED BY <2>1, <2>3, <2>4
<1>2. CASE extract_netlink_message
  <2>1. PICK h : NoMore(h) \/ Foreign(h) \/ Shows(h)
    BY <1>2 DEF extract_netlink_message
  <2>2. ASSUME NEW answer, Extracted(answer)
        PROVE  ReceiverInv'
    <3>1. CASE sancus_close2
      BY <1>2, <2>2, <3>1, CloseLemma DEF extract_netlink_message, Extracted, HasRead
    <3>2. CASE UNCHANGED <<fd, kernel>>
      BY <1>2, <2>2, <3>2 DEF extract_netlink_message, Extracted, HasRead
    <3> QED BY <2>2, <3>1, <3>2 DEF Extracted, CloseReceiver
  <2>3. CASE Shows(h)
    BY <1>2, <2>3 DEF extract_netlink_message, Shows
  <2> QED BY <2>1, <2>2, <2>3 DEF NoMore, Foreign
<1>3. ASSUME NEW go_on \in BOOLEAN, OnMessageReturns(go_on)
      PROVE  ReceiverInv'
  <2>1. CASE go_on
    BY <1>3, <2>1 DEF OnMessageReturns
  <2>2. CASE ~go_on
    <3>1. running' # "walk" /\ sancus_close2
      BY <1>3, <2>2 DEF OnMessageReturns, Extracted, CloseReceiver, HasRead
    <3> QED BY <3>1, CloseLemma
  <2> QED BY <2>1, <2>2
<1>4. CASE OnErrorReturns
  BY <1>4 DEF OnErrorReturns, HasRead
<1>5. CASE WatcherError
  <2>1. CASE sancus_close2 /\ running' = "on_watcher_error"
    BY <2>1, CloseLemma
  <2>2. CASE UNCHANGED <<fd, kernel, running, known>>
    BY <1>5, <2>2 DEF WatcherError
  <2> QED BY <1>5, <2>1, <2>2 DEF WatcherError
<1> QED BY <1>1, <1>2, <1>3, <1>4, <1>5 DEF CallbackReturns

(***************************************************************************)
(* The inductive invariant of the receiver.                                *)
(***************************************************************************)
THEOREM ReceiverInvariant == SafeSpec => []ReceiverInv
<1>1. ReceiverInv /\ [Next]_vars => ReceiverInv'
  <2> SUFFICES ASSUME ReceiverInv, [Next]_vars PROVE ReceiverInv'
    OBVIOUS
  <2>1. CASE UNCHANGED vars \/ \E d \in Datagram : KernelSends(d)
    BY <2>1 DEF vars, walk, kernel, KernelSends, ReceiverInv, OneDescriptor, FdKnown,
                QueueOpen, WalkKnown, None
  <2> QED BY <2>1, ApplicationStep, ReceiveStep DEF Next
<1> QED BY <1>1, ReceiverInitStep, PTL DEF SafeSpec

(***************************************************************************)
(* The receiver leaks no descriptor and closes none that is not its own.   *)
(***************************************************************************)
THEOREM ReceiverOneDescriptor == SafeSpec => []OneDescriptor
  BY ReceiverInvariant, PTL DEF ReceiverInv

(***************************************************************************)
(* An on_message that has answered "false" hears no more.                  *)
(***************************************************************************)
THEOREM ReceiverRefusedStaysSilent == SafeSpec => RefusedStaysSilent
<1>1. ReceiverInv /\ [Next]_vars =>
         [(running = "walk" /\ running' = "on_message") => known \/ ret = 1]_vars
  BY DEF ReceiverInv, WalkKnown
<1> QED BY <1>1, ReceiverInvariant, PTL DEF SafeSpec, RefusedStaysSilent

----------------------------------------------------------------------------
(* Datagrams of one message.                                               *)

Single == [1 .. 1 -> Message]

\* The message of the datagram is not looked at yet, or has been for the
\* port that the receiver had when it came.
Ahead ==
    /\ running = "walk" /\ pos = 0 /\ portid = dport
    /\ left = SANCUS_NL_ALIGN(dgram[1].len) /\ shown = <<>>

Behind ==
    /\ left = 0 /\ sancus_nl_msg_portid_ok(dgram[1], dport)
    /\ shown = IF dgram[1].data THEN <<dgram[1]>> ELSE <<>>

Walking ==
    /\ queue \in Seq(Single)
    /\ running \in {"walk", "on_message"} => dgram \in Single /\ (Ahead \/ Behind)


(***************************************************************************)
(* SANCUS_NL_ALIGN does not shorten a message, and leaves it a length.     *)
(***************************************************************************)
LEMMA MessageAlignLemma ==
  ASSUME NEW n \in Lens
  PROVE  /\ n \in Nat /\ 16 <= n
         /\ SANCUS_NL_ALIGN(n) \in Nat /\ n <= SANCUS_NL_ALIGN(n)
         /\ \E q \in Nat : SANCUS_NL_ALIGN(n) = 4 * q /\ 4 * q <= n + 3
<1>1. PICK top \in Nat : top = 2^12
  BY SMT
<1>2. top = 4096
  BY <1>1, SMT
<1>3. Lens \subseteq HDRLEN .. top
  BY <1>1, LensAssumption, Zenon
<1>4. n \in Nat /\ 16 <= n /\ n <= 4096
  BY <1>2, <1>3 DEF HDRLEN
<1>5. PICK q \in Nat : (n + 3) \div 4 = q /\ 4 * q <= n + 3 /\ n <= 4 * q
  BY <1>4, SMT
<1>6. (q * 4) % 65536 = 4 * q
  BY <1>4, <1>5, SMT
<1>7. 2^16 = 65536
  BY SMT
<1>8. SANCUS_NL_ALIGN(n) = 4 * q
  BY <1>5, <1>6, <1>7 DEF SANCUS_NL_ALIGN
<1> QED BY <1>4, <1>5, <1>8

(***************************************************************************)
(* What there is to a datagram of one message: it begins at offset 0, its  *)
(* length is the aligned one, and the data messages for a port are this    *)
(* one or none.                                                            *)
(***************************************************************************)
LEMMA SingleLemma ==
  ASSUME NEW d \in Single
  PROVE  /\ d[1] \in Message /\ Len(d) = 1
         /\ Bytes(d) = SANCUS_NL_ALIGN(d[1].len)
         /\ HeadersAt(d, 0, Garbage) = {d[1]}
         /\ \A port :
               Own(d, port) = IF d[1].data /\ sancus_nl_msg_portid_ok(d[1], port)
                              THEN <<d[1]>> ELSE <<>>
<1>1. d[1] \in Message /\ Len(d) = 1 /\ DOMAIN d = 1 .. 1
  <2>1. d \in [1 .. 1 -> Message] /\ 1 \in Nat /\ 1 \in 1 .. 1
    BY DEF Single
  <2>2. d = <<d[1]>>
    BY <2>1
  <2>3. Len(<<d[1]>>) = 1
    OBVIOUS
  <2> QED BY <2>1, <2>2, <2>3
<1>2. d[1].len \in Lens /\ d[1].pid \in Ports /\ d[1].data \in BOOLEAN
  BY <1>1 DEF Message, Header
<1> DEFINE length == SANCUS_NL_ALIGN(d[1].len)
<1>3. length \in Nat /\ length # 0
  BY <1>2, MessageAlignLemma
<1> HIDE DEF length
<1>4. End(d)[0] = 0 /\ End(d)[1] = length
  <2> DEFINE Is(e) == e = [i \in 0 .. 1 |-> IF i = 0 THEN 0
                                            ELSE e[i - 1] + SANCUS_NL_ALIGN(d[i].len)]
  <2>1. End(d) = CHOOSE e : Is(e)
    BY <1>1 DEF End
  <2>2. Is([i \in 0 .. 1 |-> IF i = 0 THEN 0 ELSE length])
    BY <1>3 DEF length
  <2>3. Is(End(d))
    BY <2>1, <2>2
  <2>4. End(d)[0] = 0
    BY <2>3
  <2>5. End(d)[1] = End(d)[0] + length
    BY <2>3 DEF length
  <2> QED BY <1>3, <2>4, <2>5
<1>5. Bytes(d) = length
  BY <1>1, <1>4 DEF Bytes
<1>6. HeadersAt(d, 0, Garbage) = {d[1]}
  BY <1>1, <1>4 DEF HeadersAt
<1>7. Data(d)[0] = <<>> /\ Data(d)[1] = IF d[1].data THEN <<d[1]>> ELSE <<>>
  <2> DEFINE Is(e) == e = [n \in 0 .. 1 |->
                             IF n = 0 THEN <<>>
                             ELSE IF d[n].data THEN Append(e[n - 1], d[n]) ELSE e[n - 1]]
             x == IF d[1].data THEN <<d[1]>> ELSE <<>>
  <2>1. Data(d) = CHOOSE e : Is(e)
    BY <1>1 DEF Data
  <2>2. Append(<<>>, d[1]) = <<d[1]>>
    OBVIOUS
  <2>3. Is([n \in 0 .. 1 |-> IF n = 0 THEN <<>> ELSE x])
    BY <2>2
  <2>4. Is(Data(d))
    BY <2>1, <2>3
  <2>5. Data(d)[0] = <<>>
    BY <2>4
  <2>6. Data(d)[1] = IF d[1].data THEN Append(Data(d)[0], d[1]) ELSE Data(d)[0]
    <3>1. 1 - 1 = 0 /\ 1 # 0 /\ 1 \in 0 .. 1
      OBVIOUS
    <3> QED BY ONLY <2>4, <3>1, Zenon
  <2> QED BY <2>2, <2>5, <2>6
<1>8. ASSUME NEW port
      PROVE  Own(d, port) = IF d[1].data /\ sancus_nl_msg_portid_ok(d[1], port)
                            THEN <<d[1]>> ELSE <<>>
  <2> DEFINE ours == {n \in 0 .. 1 : \A i \in 1 .. n : port = 0 \/ d[i].pid \in {0, port}}
             most == CHOOSE n \in ours : \A k \in ours : k <= n
  <2>1. Own(d, port) = Data(d)[most]
    BY <1>1 DEF Own
  <2>2. 0 \in ours /\ \A n \in ours : n = 0 \/ n = 1
    OBVIOUS
  <2>3. 1 \in ours <=> sancus_nl_msg_portid_ok(d[1], port)
    BY DEF sancus_nl_msg_portid_ok
  <2> HIDE DEF ours
  <2>4. most = IF 1 \in ours THEN 1 ELSE 0
    BY <2>2
  <2> HIDE DEF most
  <2> QED BY <1>7, <2>1, <2>3, <2>4
<1> QED BY <1>1, <1>5, <1>6, <1>8 DEF length

(***************************************************************************)
(* Walking is kept as long as every datagram has one message.              *)
(***************************************************************************)
LEMMA WalkingStep ==
  ASSUME MaxMsgs = 1, Walking, [Next]_vars
  PROVE  Walking'
<1> USE DEF walk, kernel
<1>1. <<>> \in Seq(Single)
  OBVIOUS
<1>2. ASSUME NEW revents \in Revents, recv_cb(revents) PROVE Walking'
  <2>1. queue \in Seq(Single)
    BY DEF Walking
  <2>2. queue # <<>> => Head(queue) \in Single /\ Tail(queue) \in Seq(Single)
    BY <2>1
  <2>3. CASE running' = "walk"
    <3>1. /\ queue # <<>> /\ dgram' = Head(queue) /\ pos' = 0
          /\ left' = Bytes(Head(queue)) /\ shown' = <<>>
          /\ dport' = portid /\ queue' = Tail(queue) /\ portid' = portid
      BY <1>2, <2>3 DEF recv_cb, sancus_nl_recvfrom, RecvFails
    <3>2. left' = SANCUS_NL_ALIGN(dgram'[1].len)
      BY <2>2, <3>1, SingleLemma
    <3> QED BY <2>2, <2>3, <3>1, <3>2 DEF Walking, Ahead
  <2>4. CASE running' # "walk"
    <3>1. /\ running' \in {"on_recvfrom_error", "failing"}
          /\ queue' = queue \/ (queue # <<>> /\ queue' = Tail(queue))
      BY <1>2, <2>4 DEF recv_cb, sancus_nl_recvfrom, RecvFails
    <3> QED BY <2>1, <2>2, <3>1 DEF Walking
  <2> QED BY <2>3, <2>4
<1>3. CASE extract_netlink_message
  <2>1. /\ running = "walk" /\ dgram \in Single /\ (Ahead \/ Behind)
        /\ queue \in Seq(Single) /\ portid' = portid
    BY <1>3 DEF extract_netlink_message, Walking
  <2>2. PICK h \in HeadersAt(dgram, pos, Garbage) : NoMore(h) \/ Foreign(h) \/ Shows(h)
    BY <1>3 DEF extract_netlink_message
  <2>3. CASE NoMore(h) \/ Foreign(h)
    <3>1. running' \notin {"walk", "on_message"} /\ queue' \in {queue, <<>>}
      BY <2>3 DEF NoMore, Foreign, Extracted, CloseReceiver, sancus_close2, HasRead
    <3> QED BY <1>1, <2>1, <3>1 DEF Walking
  <2>4. CASE Shows(h)
    <3>1. ~ Behind
      BY <2>4 DEF Shows, sancus_nl_msg_ok, HDRLEN, Behind
    <3>2. Ahead /\ h = dgram[1]
      BY <2>1, <2>2, <3>1, SingleLemma DEF Ahead
    <3>3. /\ dgram' = dgram /\ dport' = dport /\ queue' = queue
          /\ left' = left - SANCUS_NL_ALIGN(h.len)
          /\ sancus_nl_msg_portid_ok(h, portid)
          /\ shown' = IF h.data THEN Append(shown, h) ELSE shown
      BY <2>4 DEF Shows, MoveOn, sancus_nl_msg_left
    <3>4. left' = 0
      <4>1. dgram[1].len \in Lens
        BY <2>1, SingleLemma DEF Message, Header
      <4>2. SANCUS_NL_ALIGN(dgram[1].len) \in Nat
        BY <4>1, MessageAlignLemma
      <4> QED BY <3>2, <3>3, <4>2 DEF Ahead
    <3>5. Append(<<>>, h) = <<h>>
      OBVIOUS
    <3>6. Behind'
      BY <3>2, <3>3, <3>4, <3>5 DEF Ahead, Behind
    <3> QED BY <2>1, <3>3, <3>6 DEF Walking
  <2> QED BY <2>2, <2>3, <2>4
<1>4. ASSUME NEW go_on \in BOOLEAN, OnMessageReturns(go_on) PROVE Walking'
  <2>1. /\ running = "on_message" /\ dgram \in Single /\ Behind /\ queue \in Seq(Single)
        /\ dgram' = dgram /\ left' = left /\ shown' = shown /\ dport' = dport
    BY <1>4 DEF OnMessageReturns, Walking, Ahead
  <2>2. Behind'
    BY <2>1 DEF Behind
  <2>3. queue' \in {queue, <<>>}
    BY <1>4 DEF OnMessageReturns, Extracted, CloseReceiver, sancus_close2
  <2> QED BY <1>1, <2>1, <2>2, <2>3 DEF Walking
\* Whatever else is done is not done in the middle of a walk.
<1>5. ASSUME UNCHANGED walk, queue' \in Seq(Single),
             \/ running' = running /\ (running = "walk" => portid' = portid)
             \/ running' \notin {"walk", "on_message"}
      PROVE  Walking'
  <2>1. CASE running' \notin {"walk", "on_message"}
    BY <1>5, <2>1 DEF Walking
  <2>2. CASE running' = running /\ (running = "walk" => portid' = portid)
    <3>1. Behind => Behind'
      BY <1>5 DEF Behind
    <3>2. Ahead => Ahead'
      BY <1>5, <2>2 DEF Ahead
    <3> QED BY <1>5, <2>2, <3>1, <3>2 DEF Walking
  <2> QED BY <1>5, <2>1, <2>2
<1>6. queue \in Seq(Single)
  BY DEF Walking
<1>7. CASE Application
  <2>1. running # "walk" /\ UNCHANGED <<walk, running>> /\ queue' \in {queue, <<>>}
    BY <1>7 DEF Application, Idle, sancus_nl_receiver_listen, sancus_nl_receiver_start,
                sancus_nl_receiver_stop, sancus_nl_receiver_close, sancus_close2
  <2> QED BY <1>1, <1>5, <1>6, <2>1
<1>8. CASE OnErrorReturns
  BY <1>5, <1>6, <1>8 DEF OnErrorReturns, HasRead
<1>9. CASE WatcherError
  <2>1. /\ UNCHANGED <<walk, portid>> /\ queue' \in {queue, <<>>}
        /\ running' \in {running, "on_watcher_error"}
    BY <1>9 DEF WatcherError, sancus_close2
  <2> QED BY <1>1, <1>5, <1>6, <2>1
<1>10. ASSUME NEW m \in Datagram, KernelSends(m) PROVE Walking'
  <2>1. m \in Single
    BY DEF Datagram, Single
  <2>2. queue' \in Seq(Single) /\ UNCHANGED <<walk, running, portid>>
    BY <1>6, <1>10, <2>1 DEF KernelSends
  <2> QED BY <1>5, <2>2
<1>11. CASE UNCHANGED vars
  BY <1>5, <1>6, <1>11 DEF vars
<1> QED BY <1>2, <1>3, <1>4, <1>7, <1>8, <1>9, <1>10, <1>11 DEF Next, CallbackReturns

(***************************************************************************)
(* "callback triggered on each new message", for datagrams of one message, *)
(* which is what multicast notifications are: on_message is shown a data   *)
(* message for this receiver, once, and no other.  With more than one it   *)
(* is not (sancus_nl_msg_next).                                            *)
(***************************************************************************)
THEOREM ReceiverMessagesShown ==
  ASSUME MaxMsgs = 1
  PROVE  SafeSpec => MessagesShown
<1>1. Init => Walking
  BY DEF Init, Walking
<1>2. Walking /\ [Next]_vars => Walking'
  BY WalkingStep
<1>3. Walking /\ [Next]_vars =>
         [ (running = "walk" /\ running' \in {"none", "failing"} /\ portid = dport) =>
             shown = Own(dgram, dport) ]_vars
  <2> SUFFICES ASSUME Walking, Next, running = "walk", running' \in {"none", "failing"},
                      portid = dport
               PROVE  shown = Own(dgram, dport)
    OBVIOUS
  <2>1. dgram \in Single /\ (Ahead \/ Behind)
    BY DEF Walking
  <2>2. PICK h \in HeadersAt(dgram, pos, Garbage) : NoMore(h) \/ Foreign(h)
    BY DEF Next, Application, Idle, sancus_nl_receiver_listen, sancus_nl_receiver_start,
           sancus_nl_receiver_stop, sancus_nl_receiver_close, recv_cb, CallbackReturns,
           OnMessageReturns, OnErrorReturns, WatcherError, KernelSends,
           extract_netlink_message, Shows
  <2>3. Own(dgram, dport) = IF dgram[1].data /\ sancus_nl_msg_portid_ok(dgram[1], dport)
                            THEN <<dgram[1]>> ELSE <<>>
    BY <2>1, SingleLemma
  <2>4. CASE Behind
    BY <2>3, <2>4 DEF Behind
  <2>5. CASE Ahead
    <3>1. h = dgram[1] /\ left = SANCUS_NL_ALIGN(h.len) /\ shown = <<>>
      BY <2>1, <2>2, <2>5, SingleLemma DEF Ahead
    <3>2. h.len \in Lens
      BY <2>1, <3>1, SingleLemma DEF Message, Header
    <3>3. sancus_nl_msg_ok(h, left)
      BY <3>1, <3>2, MessageAlignLemma DEF sancus_nl_msg_ok, HDRLEN
    <3>4. ~ sancus_nl_msg_portid_ok(dgram[1], dport)
      BY <2>2, <3>1, <3>3 DEF NoMore, Foreign
    <3> QED BY <2>3, <3>1, <3>4
  <2> QED BY <2>1, <2>4, <2>5
<1> QED BY <1>1, <1>2, <1>3, PTL DEF SafeSpec, MessagesShown

----------------------------------------------------------------------------
(* Datagrams of any number of messages.                                    *)

\* Whole words of four bytes.
Whole == {x \in Nat : \E q \in Nat : x = 4 * q}

(***************************************************************************)
(* Sums and differences of whole words; a length that fits in whole words  *)
(* fits there with its padding.                                            *)
(***************************************************************************)
LEMMA WholeLemma ==
  /\ 0 \in Whole
  /\ \A x \in Whole, y \in Whole : x + y \in Whole
  /\ \A x \in Whole, y \in Whole : y <= x => x - y \in Whole
  /\ \A n \in Int : SANCUS_NL_ALIGN(n) \in Whole /\ SANCUS_NL_ALIGN(n) < 65536
  /\ \A n \in Nat, x \in Whole : n <= x => SANCUS_NL_ALIGN(n) <= x
<1>1. 0 \in Whole
  <2>1. 0 = 4 * 0
    OBVIOUS
  <2> QED BY <2>1 DEF Whole
<1>2. ASSUME NEW x \in Whole, NEW y \in Whole
      PROVE  x + y \in Whole /\ (y <= x => x - y \in Whole)
  <2>1. PICK q \in Nat : x = 4 * q
    BY DEF Whole
  <2>2. PICK r \in Nat : y = 4 * r
    BY DEF Whole
  <2>3. x + y = 4 * (q + r) /\ q + r \in Nat /\ x + y \in Nat
    BY <2>1, <2>2
  <2>4. y <= x => x - y = 4 * (q - r) /\ q - r \in Nat /\ x - y \in Nat
    BY <2>1, <2>2
  <2> QED BY <2>3, <2>4 DEF Whole
<1>3. ASSUME NEW n \in Int
      PROVE  \E q \in Nat : /\ SANCUS_NL_ALIGN(n) = 4 * q /\ 4 * q < 65536
                            /\ n >= 0 => 4 * q <= n + 3
  <2>1. PICK k \in Int : (n + 3) \div 4 = k /\ 4 * k <= n + 3 /\ n <= 4 * k
    BY SMT
  <2>2. PICK m \in Nat : m = (k * 4) % 65536 /\ m < 65536 /\ (k >= 0 => m <= 4 * k)
    BY SMT
  <2>3. PICK q \in Nat : m = 4 * q
    BY <2>2, SMT
  <2>4. 2^16 = 65536
    BY SMT
  <2>5. SANCUS_NL_ALIGN(n) = 4 * q
    BY <2>1, <2>2, <2>3, <2>4 DEF SANCUS_NL_ALIGN
  <2>6. n >= 0 => 4 * q <= n + 3
    BY <2>1, <2>2, <2>3
  <2> QED BY <2>2, <2>3, <2>5, <2>6
<1>4. ASSUME NEW n \in Nat, NEW x \in Whole, n <= x PROVE SANCUS_NL_ALIGN(n) <= x
  <2>1. PICK q \in Nat : SANCUS_NL_ALIGN(n) = 4 * q /\ 4 * q <= n + 3
    BY <1>3
  <2>2. PICK r \in Nat : x = 4 * r
    BY DEF Whole
  <2>3. q <= r
    BY <1>4, <2>1, <2>2
  <2> QED BY <2>1, <2>2, <2>3
<1>5. ASSUME NEW n \in Int
      PROVE  SANCUS_NL_ALIGN(n) \in Whole /\ SANCUS_NL_ALIGN(n) < 65536
  BY <1>3 DEF Whole
<1> QED BY <1>1, <1>2, <1>4, <1>5

(***************************************************************************)
(* Induction up to n, on the set of the numbers for which a fact holds: by *)
(* its least counterexample.                                               *)
(***************************************************************************)
LEMMA CountUp ==
  ASSUME NEW n \in Nat, NEW S, 0 \in S, \A k \in 1 .. n : k - 1 \in S => k \in S
  PROVE  \A k \in 0 .. n : k \in S
<1> DEFINE R == {ss \in Nat \X Nat : ss[1] < ss[2]}
           T == {k \in 0 .. n : k \notin S}
<1>1. SUFFICES ASSUME T # {} PROVE FALSE
  OBVIOUS
<1>2. IsWellFoundedOn(R, Nat)
  BY ONLY NatLessThanWellFounded, Zenon DEF OpToRel
<1>3. T \subseteq Nat
  OBVIOUS
<1>4. PICK k \in T : \A y \in T : <<y, k>> \notin R
  <2> HIDE DEF T, R
  <2> QED BY <1>1, <1>2, <1>3, WFMin, Zenon
<1>5. k \in 1 .. n /\ k \notin S
  OBVIOUS
<1>6. k - 1 \in 0 .. n /\ <<k - 1, k>> \in R
  BY <1>5
<1>7. k - 1 \notin T
  BY <1>4, <1>6
<1> QED BY <1>5, <1>6, <1>7

\* e has the ends of the first n messages of d.
EndsOf(e, d, n) ==
    /\ e \in [0 .. n -> Whole]
    /\ e[0] = 0
    /\ \A i \in 1 .. n : e[i] = e[i - 1] + SANCUS_NL_ALIGN(d[i].len)

(***************************************************************************)
(* A datagram is whole words long, whatever its messages are.              *)
(***************************************************************************)
LEMMA EndLemma ==
  ASSUME NEW d \in Seq(Message)
  PROVE  Bytes(d) \in Whole
<1> DEFINE n == Len(d)
           S == {m \in 0 .. n : \E e : EndsOf(e, d, m)}
<1>1. n \in Nat
  OBVIOUS
<1>2. \A i \in 1 .. n : SANCUS_NL_ALIGN(d[i].len) \in Whole
  <2>1. \A i \in 1 .. n : d[i].len \in Int
    <3>1. \A i \in 1 .. n : d[i] \in Message
      OBVIOUS
    <3>2. \A i \in 1 .. n : d[i].len \in Lens
      BY <3>1 DEF Message, Header
    <3> QED BY <3>2, MessageAlignLemma
  <2> QED BY <2>1, WholeLemma
<1>3. 0 \in S
  <2>1. EndsOf([i \in 0 .. 0 |-> 0], d, 0)
    BY WholeLemma DEF EndsOf
  <2> QED BY <1>1, <2>1
<1>4. ASSUME NEW m \in 1 .. n, m - 1 \in S PROVE m \in S
  <2>1. PICK e : EndsOf(e, d, m - 1)
    BY <1>4
  <2> DEFINE new == e[m - 1] + SANCUS_NL_ALIGN(d[m].len)
             f == [i \in 0 .. m |-> IF i = m THEN new ELSE e[i]]
  <2>2. new \in Whole
    <3>1. e[m - 1] \in Whole
      BY <2>1 DEF EndsOf
    <3> QED BY <1>2, <3>1, WholeLemma
  <2> HIDE DEF new
  <2>3. f \in [0 .. m -> Whole] /\ f[0] = 0
    BY <2>1, <2>2 DEF EndsOf
  <2>4. ASSUME NEW i \in 1 .. m PROVE f[i] = f[i - 1] + SANCUS_NL_ALIGN(d[i].len)
    <3>1. i - 1 \in 0 .. m /\ i - 1 # m /\ f[i - 1] = e[i - 1]
      OBVIOUS
    <3>2. CASE i = m
      BY <3>1, <3>2 DEF new
    <3>3. CASE i # m
      <4>1. i \in 1 .. m - 1 /\ f[i] = e[i]
        BY <3>3
      <4> QED BY <2>1, <3>1, <4>1 DEF EndsOf
    <3> QED BY <3>2, <3>3
  <2>5. EndsOf(f, d, m)
    BY <2>3, <2>4 DEF EndsOf
  <2> QED BY <2>5
<1>5. n \in S
  <2>1. \A m \in 1 .. n : m - 1 \in S => m \in S
    BY <1>4
  <2>2. \A k \in 0 .. n : k \in S
    <3> HIDE DEF S
    <3> QED BY <1>1, <1>3, <2>1, CountUp, Zenon
  <2> QED BY <1>1, <2>2
<1>6. PICK e : EndsOf(e, d, n)
  BY <1>5
<1> DEFINE Is(f) == f = [i \in 0 .. n |-> IF i = 0 THEN 0
                                          ELSE f[i - 1] + SANCUS_NL_ALIGN(d[i].len)]
           end == End(d)
<1>7. Is(e)
  <2>1. \A i \in 0 .. n : e[i] = IF i = 0 THEN 0 ELSE e[i - 1] + SANCUS_NL_ALIGN(d[i].len)
    BY <1>6 DEF EndsOf
  <2> QED BY <1>6, <2>1 DEF EndsOf
<1>8. Is(end)
  <2>1. end = CHOOSE f : Is(f)
    BY DEF End
  <2> HIDE DEF Is
  <2> QED BY <1>7, <2>1
<1>9. end[0] = 0 /\ \A i \in 1 .. n : end[i] = end[i - 1] + SANCUS_NL_ALIGN(d[i].len)
  BY <1>1, <1>8
<1> HIDE DEF end, Is
<1> DEFINE T == {k \in 0 .. n : end[k] = e[k]}
<1>10. 0 \in T
  BY <1>1, <1>6, <1>9 DEF EndsOf
<1>11. \A k \in 1 .. n : k - 1 \in T => k \in T
  BY <1>6, <1>9 DEF EndsOf
<1>12. \A k \in 0 .. n : k \in T
  <2> HIDE DEF T
  <2> QED BY <1>1, <1>10, <1>11, CountUp, Zenon
<1>13. end[n] = e[n] /\ e[n] \in Whole
  BY <1>1, <1>6, <1>12 DEF EndsOf
<1> QED BY <1>13 DEF end, Bytes

\* What is left of a datagram, if anything is, is whole words.
WholeLeft == left >= 0 => left \in Whole

RecvInv == TypeOK /\ WholeLeft

(***************************************************************************)
(* A header that is read is a message or garbage; its length is that of a  *)
(* message, unless it passes for negative.                                 *)
(***************************************************************************)
LEMMA ReadLemma ==
  ASSUME TypeOK, NEW h \in HeadersAt(dgram, pos, Garbage)
  PROVE  h \in Garbage /\ h.len \in Int /\ (Huge = {} => h.len \in Nat)
<1>1. Lens \subseteq Nat
  BY MessageAlignLemma
<1>2. Message \subseteq Garbage
  BY DEF Message, Garbage, Header
<1>3. h \in Garbage
  <2>1. \A i \in 1 .. Len(dgram) : dgram[i] \in Message
    BY DEF TypeOK
  <2> QED BY <1>2, <2>1 DEF HeadersAt
<1>4. h.len \in Lens \cup Strays \cup {-n : n \in Huge}
  BY <1>3 DEF Garbage, Header
<1>5. h.len \in Nat \/ \E n \in Huge : h.len = -n
  BY <1>1, <1>4, StraysAssumption
<1> QED BY <1>3, <1>5, StraysAssumption

(***************************************************************************)
(* Taking a message off what is left leaves no less than nothing, or, if   *)
(* its length passed for negative, what a uint16_t can take off.           *)
(***************************************************************************)
LEMMA ExtractStep ==
  ASSUME RecvInv, extract_netlink_message
  PROVE  RecvInv'
<1> USE DEF walk, kernel
<1>1. PICK h \in HeadersAt(dgram, pos, Garbage) : NoMore(h) \/ Foreign(h) \/ Shows(h)
  BY DEF extract_netlink_message
<1>2. UNCHANGED <<active, portid, erred, known, aborted>>
  BY DEF extract_netlink_message
<1>3. ASSUME NEW answer, Extracted(answer), UNCHANGED walk PROVE RecvInv'
  <2>1. /\ running' \in {"none", "failing"}
        /\ fd' \in {fd, None} /\ table' \in {table, table \ {fd}} /\ queue' \in {queue, <<>>}
    BY <1>3 DEF Extracted, CloseReceiver, sancus_close2, HasRead
  <2>2. queue' \in Seq(Seq(Message)) /\ table' \subseteq Fds /\ fd' \in Fds \cup {None}
    <3>1. queue \in Seq(Seq(Message)) /\ table \subseteq Fds /\ fd \in Fds \cup {None}
      BY DEF RecvInv, TypeOK
    <3>2. <<>> \in Seq(Seq(Message)) /\ table \ {fd} \subseteq Fds
      BY <3>1
    <3> QED BY <2>1, <3>1, <3>2
  <2> QED BY <1>2, <1>3, <2>1, <2>2 DEF RecvInv, TypeOK, WholeLeft
<1>4. CASE Shows(h)
  <2>1. /\ UNCHANGED <<dgram, ret, dport, fd, table, queue>>
        /\ left' = left - SANCUS_NL_ALIGN(h.len)
        /\ pos' = pos + SANCUS_NL_ALIGN(h.len) * HDRLEN
        /\ running' \in {running, "on_message"} /\ shown' \in {shown, Append(shown, h)}
        /\ sancus_nl_msg_ok(h, left)
    BY <1>4 DEF Shows, MoveOn, sancus_nl_msg_left, sancus_nl_msg_next
  <2>2. h \in Garbage /\ h.len \in Int /\ (Huge = {} => h.len \in Nat)
    BY ReadLemma DEF RecvInv
  <2>3. left \in Whole /\ left >= 16 /\ h.len <= left
    <3>1. left >= 16 /\ h.len <= left /\ left \in Int
      BY <2>1 DEF sancus_nl_msg_ok, HDRLEN, RecvInv, TypeOK
    <3> QED BY <3>1 DEF RecvInv, WholeLeft
  <2> DEFINE size == SANCUS_NL_ALIGN(h.len)
  <2>4. size \in Whole /\ size < 65536 /\ (Huge = {} => size <= left)
    BY <2>2, <2>3, WholeLemma
  <2>5. size \in Nat /\ left \in Nat /\ (size <= left => left - size \in Whole)
    <3>1. size <= left => left - size \in Whole
      BY <2>3, <2>4, WholeLemma
    <3> QED BY <2>3, <2>4, <3>1 DEF Whole
  <2> HIDE DEF size
  <2>6. left' = left - size /\ pos' = pos + size * HDRLEN
    BY <2>1 DEF size
  <2>7. left' \in -(2^16) .. Bytes(dgram) /\ (Huge = {} => left' >= 0) /\ WholeLeft'
    <3>1. Bytes(dgram) \in Nat /\ left <= Bytes(dgram)
      BY EndLemma DEF RecvInv, TypeOK, Whole
    <3>2. -(2^16) = -65536
      BY SMT
    <3>3. left' \in Int /\ -65536 <= left' /\ left' <= Bytes(dgram)
      BY <2>3, <2>4, <2>5, <2>6, <3>1
    <3>4. left' \in -(2^16) .. Bytes(dgram)
      BY <3>1, <3>2, <3>3
    <3>5. Huge = {} => left' >= 0
      BY <2>4, <2>5, <2>6
    <3>6. WholeLeft'
      BY <2>5, <2>6 DEF WholeLeft
    <3> QED BY <3>4, <3>5, <3>6
  <2>8. pos' \in Nat
    <3>1. pos \in Nat /\ size * 16 \in Nat
      BY <2>5 DEF RecvInv, TypeOK
    <3> QED BY <2>6, <3>1 DEF HDRLEN
  <2>9. shown' \in Seq(Garbage)
    <3>1. shown \in Seq(Garbage)
      BY DEF RecvInv, TypeOK
    <3>2. Append(shown, h) \in Seq(Garbage)
      BY <2>2, <3>1
    <3> QED BY <2>1, <3>1, <3>2
  <2>10. Bytes(dgram') = Bytes(dgram)
    BY <2>1
  <2> QED BY <1>2, <2>1, <2>7, <2>8, <2>9, <2>10 DEF RecvInv, TypeOK
<1> QED BY <1>1, <1>3, <1>4 DEF NoMore, Foreign

(***************************************************************************)
(* Every step keeps the types, and what is left in whole words.            *)
(***************************************************************************)
LEMMA RecvStep == RecvInv /\ [Next]_vars => RecvInv'
<1> SUFFICES ASSUME RecvInv, [Next]_vars PROVE RecvInv'
  OBVIOUS
<1> USE DEF walk, kernel
<1>1. <<>> \in Seq(Seq(Message))
  OBVIOUS
\* Whatever the walk does not touch.
<1>2. ASSUME UNCHANGED walk,
             fd' \in Fds \cup {None}, table' \subseteq Fds, queue' \in Seq(Seq(Message)),
             active' \in BOOLEAN, known' \in BOOLEAN, aborted' \in BOOLEAN, erred' \in BOOLEAN,
             portid' \in Ports \cup {0},
             running' \in {running, "none", "on_recvfrom_error", "failing",
                           "on_watcher_error"}
      PROVE  RecvInv'
  BY <1>2 DEF RecvInv, TypeOK, WholeLeft
<1>3. CASE Application
  <2>1. ASSUME NEW port \in Ports, sancus_nl_receiver_listen(port) PROVE RecvInv'
    <3>1. PICK new \in Fds : \/ Binds(new) /\ known' = TRUE
                             \/ BindFails(new) /\ UNCHANGED known
      BY <2>1 DEF sancus_nl_receiver_listen
    <3>2. fd' \in Fds \cup {None} /\ table' \subseteq Fds /\ known' \in BOOLEAN
      BY <3>1 DEF Binds, BindFails, RecvInv, TypeOK
    <3> QED BY <1>1, <1>2, <2>1, <3>2 DEF sancus_nl_receiver_listen, RecvInv, TypeOK
  <2>2. CASE sancus_nl_receiver_start \/ sancus_nl_receiver_stop
    BY <1>2, <2>2 DEF sancus_nl_receiver_start, sancus_nl_receiver_stop, RecvInv, TypeOK
  <2>3. CASE sancus_nl_receiver_close
    BY <1>1, <1>2, <2>3 DEF sancus_nl_receiver_close, sancus_close2, RecvInv, TypeOK
  <2> QED BY <1>3, <2>1, <2>2, <2>3 DEF Application
<1>4. ASSUME NEW revents \in Revents, recv_cb(revents) PROVE RecvInv'
  <2>1. queue \in Seq(Seq(Message)) /\ UNCHANGED <<fd, portid, table, known, aborted>>
    BY <1>4 DEF recv_cb, RecvInv, TypeOK
  <2>2. queue # <<>> => Head(queue) \in Seq(Message) /\ Tail(queue) \in Seq(Seq(Message))
    BY <2>1
  <2>3. active' \in BOOLEAN /\ erred' \in BOOLEAN
    <3>1. active' = ("ERROR" \notin revents) /\ erred' = ("ERROR" \in revents)
      BY <1>4 DEF recv_cb
    <3>2. ("ERROR" \notin revents) \in BOOLEAN /\ ("ERROR" \in revents) \in BOOLEAN
      OBVIOUS
    <3> QED BY <3>1, <3>2, Zenon
  <2>4. CASE running' # "walk"
    <3>1. /\ UNCHANGED walk /\ running' \in {"on_recvfrom_error", "failing"}
          /\ queue' = queue \/ (queue # <<>> /\ queue' = Tail(queue))
      BY <1>4, <2>4 DEF recv_cb, sancus_nl_recvfrom, RecvFails
    <3> QED BY <1>2, <2>1, <2>2, <2>3, <3>1 DEF RecvInv, TypeOK
  <2>5. CASE running' = "walk"
    <3>1. /\ queue # <<>> /\ dgram' = Head(queue) /\ pos' = 0 /\ left' = Bytes(Head(queue))
          /\ ret' = 0 /\ shown' = <<>> /\ dport' = portid
          /\ queue' = Tail(queue)
      BY <1>4, <2>5 DEF recv_cb, sancus_nl_recvfrom, RecvFails
    <3> DEFINE bytes == Bytes(dgram')
    <3>2. bytes \in Whole
      BY <2>2, <3>1, EndLemma
    <3>3. bytes \in Nat /\ left' = bytes
      BY <3>1, <3>2 DEF Whole
    <3> HIDE DEF bytes
    <3>4. -(2^16) = -65536
      BY SMT
    <3>5. left' \in -(2^16) .. bytes /\ left' >= 0 /\ WholeLeft'
      BY <3>2, <3>3, <3>4 DEF WholeLeft
    <3>6. <<>> \in Seq(Garbage) /\ 0 \in Nat
      OBVIOUS
    <3> QED BY <2>1, <2>2, <2>3, <2>5, <3>1, <3>5, <3>6 DEF RecvInv, TypeOK, bytes
  <2> QED BY <2>4, <2>5
<1>5. CASE extract_netlink_message
  BY <1>5, ExtractStep
<1>6. ASSUME NEW go_on \in BOOLEAN, OnMessageReturns(go_on) PROVE RecvInv'
  <2>1. /\ UNCHANGED <<active, portid, erred, dgram, pos, left, shown, dport, aborted>>
        /\ ret' \in {0, 1} /\ running' \in {"walk", "none", "failing"}
        /\ known' \in {known, FALSE}
        /\ fd' \in {fd, None} /\ table' \in {table, table \ {fd}} /\ queue' \in {queue, <<>>}
    BY <1>6 DEF OnMessageReturns, Extracted, CloseReceiver, sancus_close2, HasRead
  <2>2. /\ fd' \in Fds \cup {None} /\ table' \subseteq Fds /\ queue' \in Seq(Seq(Message))
        /\ known' \in BOOLEAN
    BY <1>1, <2>1 DEF RecvInv, TypeOK
  <2> QED BY <2>1, <2>2 DEF RecvInv, TypeOK, WholeLeft
<1>7. CASE OnErrorReturns
  BY <1>2, <1>7 DEF OnErrorReturns, RecvInv, TypeOK, HasRead
<1>8. CASE WatcherError
  <2>1. /\ fd' \in {fd, None} /\ table' \in {table, table \ {fd}} /\ queue' \in {queue, <<>>}
        /\ running' \in {running, "on_watcher_error"} /\ known' \in {known, FALSE}
        /\ active' = FALSE /\ erred' = FALSE /\ aborted' \in {aborted, TRUE}
        /\ UNCHANGED <<portid, walk>>
    BY <1>8 DEF WatcherError, sancus_close2
  <2>2. /\ fd' \in Fds \cup {None} /\ table' \subseteq Fds /\ queue' \in Seq(Seq(Message))
        /\ known' \in BOOLEAN /\ aborted' \in BOOLEAN
    BY <1>1, <2>1 DEF RecvInv, TypeOK
  <2> QED BY <1>2, <2>1, <2>2 DEF RecvInv, TypeOK
<1>9. ASSUME NEW m \in Datagram, KernelSends(m) PROVE RecvInv'
  <2>1. PICK n \in 1 .. MaxMsgs : m \in [1 .. n -> Message]
    BY DEF Datagram
  <2>2. n \in Nat
    BY BoundsAssumption
  <2>3. m \in Seq(Message)
    BY <2>1, <2>2
  <2>4. queue' \in Seq(Seq(Message))
    BY <1>9, <2>3 DEF KernelSends, RecvInv, TypeOK
  <2> QED BY <1>2, <1>9, <2>4 DEF KernelSends, RecvInv, TypeOK
<1>10. CASE UNCHANGED vars
  BY <1>2, <1>10 DEF vars, RecvInv, TypeOK
<1> QED BY <1>3, <1>4, <1>5, <1>6, <1>7, <1>8, <1>9, <1>10 DEF Next, CallbackReturns

(***************************************************************************)
(* The receiver is type-correct for datagrams of any number of messages,   *)
(* although sancus_nl_msg_next misses all but the first: what is left      *)
(* never exceeds what was received, and is never less than nothing, unless *)
(* a header of 2^31 or more is read where no message starts; that one      *)
(* passes for a message, and what it takes off is what a uint16_t holds.   *)
(***************************************************************************)
THEOREM ReceiverTypeCorrect == SafeSpec => []TypeOK
<1>1. Init => RecvInv
  <2> SUFFICES ASSUME Init PROVE RecvInv
    OBVIOUS
  <2>1. /\ dgram = <<>> /\ left = 0 /\ shown = <<>> /\ queue = <<>> /\ pos = 0
        /\ fd = None /\ active = FALSE /\ portid = 0 /\ running = "none" /\ ret = 0
        /\ dport = 0 /\ table = {} /\ known = FALSE /\ aborted = FALSE /\ erred = FALSE
    BY DEF Init
  <2>2. <<>> \in Seq(Message) /\ <<>> \in Seq(Garbage) /\ <<>> \in Seq(Seq(Message))
    OBVIOUS
  <2>3. Bytes(dgram) \in Nat
    BY <2>1, <2>2, EndLemma DEF Whole
  <2>4. left \in -(2^16) .. Bytes(dgram) /\ left >= 0 /\ left \in Whole
    <3>1. -(2^16) = -65536
      BY SMT
    <3> QED BY <2>1, <2>3, <3>1, WholeLemma
  <2> QED BY <2>1, <2>2, <2>4 DEF RecvInv, TypeOK, WholeLeft
<1> QED BY <1>1, RecvStep, PTL DEF SafeSpec, RecvInv

----------------------------------------------------------------------------
(* The attributes: alignment.                                              *)

(***************************************************************************)
(* SANCUS_NL_ALIGN rounds up to the next multiple of four, short of the    *)
(* end of a uint16_t.                                                      *)
(***************************************************************************)
LEMMA AlignLemma ==
  ASSUME NEW n \in Nat, n <= 65532
  PROVE  \E q \in Nat : /\ SANCUS_NL_ALIGN(n) = 4 * q /\ q <= 16383
                        /\ n <= 4 * q /\ 4 * q <= n + 3
<1>1. PICK q \in Nat : (n + 3) \div 4 = q /\ 4 * q <= n + 3 /\ n <= 4 * q
  BY SMT
<1>2. (q * 4) % 65536 = 4 * q /\ q <= 16383
  BY <1>1, SMT
<1>3. 2^16 = 65536
  BY SMT
<1>4. SANCUS_NL_ALIGN(n) = (q * 4) % 65536
  BY <1>1, <1>3 DEF SANCUS_NL_ALIGN
<1> QED BY <1>1, <1>2, <1>4

(***************************************************************************)
(* What is aligned stays, and a header of four bytes moves the rest by     *)
(* four.                                                                   *)
(***************************************************************************)
LEMMA HeaderLemma ==
  /\ HDR = 4 /\ HDRLEN = 16 /\ SANCUS_NL_ALIGN(HDRLEN) = 16
  /\ \A q \in Nat : q <= 16383 => SANCUS_NL_ALIGN(4 * q) = 4 * q
  /\ \A n \in Nat : n <= 65528 => SANCUS_NL_ALIGN(4 + n) = 4 + SANCUS_NL_ALIGN(n)
<1>1. ASSUME NEW q \in Nat, q <= 16383 PROVE SANCUS_NL_ALIGN(4 * q) = 4 * q
  <2>1. PICK n \in Nat : n = 4 * q /\ n <= 65532
    BY <1>1
  <2>2. PICK r \in Nat : SANCUS_NL_ALIGN(n) = 4 * r /\ n <= 4 * r /\ 4 * r <= n + 3
    BY <2>1, AlignLemma
  <2>3. r = q
    BY <2>1, <2>2
  <2> QED BY <2>1, <2>2, <2>3
<1>2. SANCUS_NL_ALIGN(4) = 4
  <2>1. 4 = 4 * 1
    OBVIOUS
  <2> QED BY <1>1, <2>1
<1>3. SANCUS_NL_ALIGN(16) = 16
  <2>1. 16 = 4 * 4
    OBVIOUS
  <2> QED BY <1>1, <2>1
<1>4. ASSUME NEW n \in Nat, n <= 65528
      PROVE  SANCUS_NL_ALIGN(4 + n) = 4 + SANCUS_NL_ALIGN(n)
  <2>1. PICK q \in Nat : SANCUS_NL_ALIGN(n) = 4 * q /\ n <= 4 * q /\ 4 * q <= n + 3
    BY <1>4, AlignLemma
  <2>2. PICK m \in Nat : m = 4 + n /\ m <= 65532
    BY <1>4
  <2>3. PICK r \in Nat : SANCUS_NL_ALIGN(m) = 4 * r /\ m <= 4 * r /\ 4 * r <= m + 3
    BY <2>2, AlignLemma
  <2>4. r = q + 1
    BY <2>1, <2>2, <2>3
  <2> QED BY <2>1, <2>2, <2>3, <2>4
<1> QED BY <1>1, <1>2, <1>3, <1>4 DEF HDR, HDRLEN

(***************************************************************************)
(* The integers are of one to eight bytes.                                 *)
(***************************************************************************)
LEMMA SizeLemma ==
  \A int \in DOMAIN SizeOf : SizeOf[int] \in Nat /\ 1 <= SizeOf[int] /\ SizeOf[int] <= 8
  BY DEF SizeOf

(***************************************************************************)
(* The constants, as numbers.                                              *)
(***************************************************************************)
LEMMA LimitsLemma ==
  /\ BufLen \in Nat /\ 16 <= BufLen
  /\ \A n \in Sizes : n \in Nat
  /\ \A n \in Extras \cup {0} : n \in Nat /\ n <= 4096
  /\ \A l \in Nat : Counted(l) <=> l <= 65532
<1>1. 2^16 - 4 = 65532 /\ 2^12 = 4096
  BY SMT
<1>2. BufLen \in Nat /\ 16 <= BufLen
  BY BufLenAssumption DEF HDRLEN
<1>3. PICK top \in Nat : top = 2^16 - 1
  BY SMT
<1>4. PICK most \in Nat : most = 2^12
  BY SMT
<1>5. Sizes \subseteq 0 .. top /\ Extras \subseteq 0 .. most
  BY <1>3, <1>4, SizesAssumption, ExtrasAssumption, Zenon
<1>6. most = 4096
  BY <1>1, <1>4
<1>7. \A l \in Nat : Counted(l) <=> l <= 65532
  BY <1>1 DEF Counted
<1>8. \A n \in Sizes : n \in Nat
  BY <1>5
<1>9. \A n \in Extras \cup {0} : n \in Nat /\ n <= 4096
  BY <1>5, <1>6
<1> QED BY <1>2, <1>7, <1>8, <1>9

----------------------------------------------------------------------------
(* The inductive invariant.                                                *)

\* Where the attributes start, and where the one after a starts.
Base == HDRLEN + SANCUS_NL_ALIGN(offset)
Ends(a) == a.at + SANCUS_NL_ALIGN(a.len)

\* Where the k-th attribute starts, or the message ends.
At(k) == IF k <= Len(attrs) THEN attrs[k].at ELSE len

Placed(a) ==
    /\ a.at \in Nat /\ a.at >= Base
    /\ a.bytes \in Nat /\ a.bytes <= 65528
    /\ a.len = 4 + a.bytes
    /\ Ends(a) <= len

\* The message is a chain of attributes without gaps.
Chain ==
    /\ \A i \in 1 .. Len(attrs) : Placed(attrs[i])
    /\ \A i, j \in 1 .. Len(attrs) : i < j => Ends(attrs[i]) <= attrs[j].at
    /\ \A i \in 1 .. Len(attrs) : Ends(attrs[i]) = At(i + 1)
    /\ phase \notin {"empty", "header"} => At(1) = Base

Layout ==
    /\ len \in Nat /\ len <= BufLen /\ len <= 65532 /\ len % 4 = 0
    /\ offset \in Extras \cup {0}
    /\ attrs \in Seq(Attr)
    /\ phase \in {"empty", "header", "build", "parse", "done", "wrapped"}
    /\ phase \in {"empty", "header"} => attrs = <<>> /\ offset = 0
    /\ phase = "header" => len = 16
    /\ phase \notin {"empty", "header"} => Base <= len

\* The parser is behind the attributes it has seen.
Parser ==
    /\ cur \in Nat /\ cur <= BufLen
    /\ seen \in Seq(Nat) /\ Len(seen) <= Len(attrs)
    /\ \A i \in 1 .. Len(seen) : seen[i] = i
    /\ result \in {-1, Stop, Ok}
    /\ phase # "done" => result = Ok
    /\ phase = "parse" => cur = At(Len(seen) + 1)
    /\ phase \in {"empty", "header", "build"} => seen = <<>>
    /\ (phase = "done" /\ result = Ok) => Len(seen) = Len(attrs)

Getter ==
    /\ got \in [attr : Nat, n : Nat, short : BOOLEAN]
    /\ got.attr <= Len(attrs)
    /\ phase \in {"empty", "header", "build"} => got.attr = 0
    /\ ReadsInside

AttrInv == Layout /\ Chain /\ Parser /\ Getter

\* An attribute that starts at p, holds b bytes and takes up 4 * q.
Shape(a, p, b, q) ==
    /\ a.at = p /\ a.bytes = b /\ a.len = 4 + b
    /\ b <= 65528 /\ 4 + b <= 4 * q
    /\ SANCUS_NL_ALIGN(a.len) = 4 * q /\ Ends(a) = p + 4 * q

(***************************************************************************)
(* The attributes start at a whole word, behind the headers.               *)
(***************************************************************************)
LEMMA BaseLemma ==
  ASSUME Layout
  PROVE  \E r \in Nat : Base = 16 + 4 * r /\ offset \in Nat /\ offset <= 4 * r
<1>1. offset \in Extras \cup {0}
  BY DEF Layout
<1>2. offset \in Nat /\ offset <= 4096
  BY <1>1, LimitsLemma
<1>3. PICK m \in Nat : m = offset /\ m <= 65532
  BY <1>2
<1>4. PICK r \in Nat : SANCUS_NL_ALIGN(m) = 4 * r /\ m <= 4 * r
  BY <1>3, AlignLemma
<1>5. Base = 16 + 4 * r
  BY <1>3, <1>4, HeaderLemma DEF Base
<1> QED BY <1>3, <1>4, <1>5

(***************************************************************************)
(* What an attribute in its place takes up.                                *)
(***************************************************************************)
LEMMA PlacedLemma ==
  ASSUME NEW a, Placed(a)
  PROVE  \E p, b, q \in Nat : Shape(a, p, b, q)
<1>1. PICK p, b \in Nat : a.at = p /\ a.bytes = b /\ a.len = 4 + b /\ b <= 65528
  BY DEF Placed
<1>2. PICK m \in Nat : m = 4 + b /\ m <= 65532
  BY <1>1
<1>3. PICK q \in Nat : SANCUS_NL_ALIGN(m) = 4 * q /\ m <= 4 * q
  BY <1>2, AlignLemma
<1> QED BY <1>1, <1>2, <1>3 DEF Ends, Shape

(***************************************************************************)
(* The invariant gives what the run checks.                                *)
(***************************************************************************)
LEMMA IInvImplies == AttrInv => AttrTypeOK /\ InsideBuffer /\ RoundTrip /\ ReadsInside
<1> SUFFICES ASSUME AttrInv PROVE AttrTypeOK /\ InsideBuffer /\ RoundTrip
  BY DEF AttrInv, Getter
<1>1. AttrTypeOK
  BY LimitsLemma DEF AttrInv, Layout, Parser, Getter, AttrTypeOK
<1>2. InsideBuffer
  <2>1. len <= BufLen /\ len \in Nat
    BY DEF AttrInv, Layout
  <2>2. ASSUME NEW i \in 1 .. Len(attrs)
        PROVE  /\ attrs[i].at >= HDRLEN + offset
               /\ attrs[i].at + HDR + attrs[i].bytes <= len
               /\ i < Len(attrs) =>
                     attrs[i].at + HDR + attrs[i].bytes <= attrs[i + 1].at
    <3>1. Placed(attrs[i])
      BY DEF AttrInv, Chain
    <3>2. PICK p, b, q \in Nat : Shape(attrs[i], p, b, q)
      BY <3>1, PlacedLemma
    <3>3. p >= Base /\ p + 4 * q <= len
      BY <3>1, <3>2 DEF Placed, Shape
    <3>4. p >= HDRLEN + offset
      <4>1. PICK r \in Nat : Base = 16 + 4 * r /\ offset \in Nat /\ offset <= 4 * r
        BY BaseLemma DEF AttrInv
      <4> QED BY <3>3, <4>1, HeaderLemma
    <3>5. p + HDR + b <= p + 4 * q
      BY <3>2, HeaderLemma DEF Shape
    <3>6. p + HDR + b <= len
      BY <2>1, <3>3, <3>5, HeaderLemma
    <3>7. ASSUME i < Len(attrs) PROVE attrs[i + 1].at = p + 4 * q
      <4>1. Len(attrs) \in Nat
        BY DEF AttrInv, Layout
      <4> QED BY <3>2, <3>7, <4>1 DEF AttrInv, Chain, At, Shape
    <3> QED BY <3>2, <3>4, <3>5, <3>6, <3>7 DEF Shape
  <2> QED BY <2>1, <2>2 DEF InsideBuffer
<1>3. RoundTrip
  BY DEF AttrInv, Parser, RoundTrip
<1> QED BY <1>1, <1>2, <1>3

(***************************************************************************)
(* It holds of the empty buffer.                                           *)
(***************************************************************************)
LEMMA AttrInitStep == AttrInit => AttrInv
<1> SUFFICES ASSUME AttrInit PROVE AttrInv
  OBVIOUS
<1>1. Layout
  BY LimitsLemma DEF AttrInit, Layout
<1>2. Chain
  BY DEF AttrInit, Chain
<1>3. Parser
  BY LimitsLemma DEF AttrInit, Parser
<1>4. Getter
  BY DEF AttrInit, Getter, ReadsInside
<1> QED BY <1>1, <1>2, <1>3, <1>4 DEF AttrInv

----------------------------------------------------------------------------
(* The steps of the builder.                                               *)

(***************************************************************************)
(* The headers leave the first attribute's place behind them.              *)
(***************************************************************************)
LEMMA HeadersStep ==
  ASSUME AttrInv,
         \/ sancus_nl_msg_put_header
         \/ \E size \in Extras : sancus_nl_msg_put_extra_header(size)
  PROVE  AttrInv'
<1>1. CASE sancus_nl_msg_put_header
  <2> USE <1>1 DEF sancus_nl_msg_put_header
  <2>1. len' = 16 /\ phase' = "header" /\ attrs' = <<>> /\ offset' = 0
    BY HeaderLemma DEF AttrInv, Layout
  <2>2. 16 % 4 = 0 /\ Len(<<>>) = 0
    OBVIOUS
  <2>3. Layout'
    BY <2>1, <2>2, LimitsLemma DEF AttrInv, Layout
  <2>4. Chain'
    BY <2>1 DEF Chain
  <2>5. Parser'
    BY DEF AttrInv, Parser, Layout
  <2>6. Getter'
    BY DEF AttrInv, Getter, ReadsInside
  <2> QED BY <2>3, <2>4, <2>5, <2>6 DEF AttrInv
<1>2. ASSUME NEW size \in Extras, sancus_nl_msg_put_extra_header(size)
      PROVE  AttrInv'
  <2> USE <1>2 DEF sancus_nl_msg_put_extra_header
  <2>1. PICK r \in Nat : SANCUS_NL_ALIGN(size) = 4 * r /\ 4 * r <= 4099
    <3>1. size \in Nat /\ size <= 4096
      BY LimitsLemma
    <3> QED BY <3>1, AlignLemma
  <2>2. PICK l \in Nat : len' = l /\ l = 16 + 4 * r /\ l <= BufLen /\ l <= 65532
    BY <2>1 DEF AttrInv, Layout
  <2>3. l % 4 = 0
    BY <2>2
  <2>4. phase' = "build" /\ attrs' = <<>> /\ offset' = size
    BY DEF AttrInv, Layout
  <2>5. Base' = l
    BY <2>1, <2>2, <2>4, HeaderLemma DEF Base
  <2>6. Layout'
    BY <2>2, <2>3, <2>4, <2>5 DEF AttrInv, Layout
  <2>7. Len(attrs') = 0
    BY <2>4
  <2>8. Chain'
    BY <2>2, <2>4, <2>5, <2>7 DEF Chain, At
  <2>9. Parser'
    BY DEF AttrInv, Parser, Layout
  <2>10. Getter'
    BY DEF AttrInv, Getter, ReadsInside
  <2> QED BY <2>6, <2>8, <2>9, <2>10 DEF AttrInv
<1> QED BY <1>1, <1>2

(***************************************************************************)
(* An attribute is put where the message ends, and ends where it then ends.*)
(***************************************************************************)
LEMMA NewAttr ==
  ASSUME AttrInv, NEW type \in Types, NEW n \in Nat, NEW nul \in BOOLEAN,
         Fits(n), Counted(len + HDR + n), put_nocheck(type, n, nul)
  PROVE  \E a \in Attr, l \in Nat :
            /\ attrs' = Append(attrs, a) /\ len' = l
            /\ a.at = len /\ a.bytes = n /\ a.len = 4 + n /\ n <= 65528
            /\ Ends(a) = l /\ len < l /\ l <= BufLen /\ l <= 65532 /\ l % 4 = 0
<1> USE DEF put_nocheck
<1> DEFINE a == [at |-> SANCUS_NL_ALIGN(len), type |-> type,
                 len |-> (HDR + n) % 2^16, bytes |-> n, nul |-> nul]
<1>1. attrs' = Append(attrs, a) /\ len' = len + SANCUS_NL_ALIGN(HDR + n)
  OBVIOUS
<1>2. PICK q \in Nat : len = 4 * q /\ q <= 16383
  BY DEF AttrInv, Layout
<1>3. SANCUS_NL_ALIGN(len) = len
  BY <1>2, HeaderLemma
<1>4. PICK m \in Nat : m = 4 + n /\ 4 * q + m <= 65532 /\ m = HDR + n
  <2>1. PICK m \in Nat : m = 4 + n /\ m = HDR + n
    BY HeaderLemma
  <2>2. 4 * q + m \in Nat /\ len + HDR + n = 4 * q + m
    BY <1>2, <2>1, HeaderLemma
  <2>3. 4 * q + m <= 65532
    BY <2>2, LimitsLemma
  <2> QED BY <2>1, <2>3
<1>5. (HDR + n) % 2^16 = m
  <2>1. HDR = 4
    BY HeaderLemma
  <2> QED BY <1>4, <2>1, SMT
<1>6. PICK r \in Nat : SANCUS_NL_ALIGN(n) = 4 * r /\ 4 * r <= n + 3
  <2>1. n <= 65532
    BY <1>4
  <2> QED BY <2>1, AlignLemma
<1>7. SANCUS_NL_ALIGN(m) = 4 + 4 * r
  <2>1. n <= 65528
    BY <1>4
  <2> QED BY <1>4, <1>6, <2>1, HeaderLemma
<1>8. PICK l \in Nat : l = 4 * q + 4 + 4 * r
  OBVIOUS
<1>9. len' = l /\ len < l
  BY <1>1, <1>2, <1>4, <1>7, <1>8
<1>10. l <= BufLen /\ l <= 65532
  <2>1. l <= BufLen
    BY <1>2, <1>6, <1>8, HeaderLemma DEF Fits
  <2>2. l <= 65532
    BY <1>4, <1>6, <1>8
  <2> QED BY <2>1, <2>2
<1>11. l % 4 = 0
  BY <1>8
<1>12. a.at = len /\ a.bytes = n /\ a.len = 4 + n /\ n <= 65528
  BY <1>3, <1>4, <1>5
<1>13. Ends(a) = l
  BY <1>2, <1>4, <1>7, <1>8, <1>12 DEF Ends
<1>14. a \in Attr
  <2>1. m \in 0 .. 2^16 - 1
    BY <1>4, SMT
  <2>2. SANCUS_NL_ALIGN(len) \in Nat
    BY <1>2, <1>3
  <2> DEFINE lens == 0 .. 2^16 - 1
  <2>3. Attr = [at : Nat, type : Types, len : lens, bytes : Nat, nul : BOOLEAN]
    BY DEF Attr
  <2>4. (HDR + n) % 2^16 \in lens
    BY <1>5, <2>1
  <2> HIDE DEF lens
  <2> QED BY <2>2, <2>3, <2>4
<1> HIDE DEF a
<1> QED BY <1>1, <1>9, <1>10, <1>11, <1>12, <1>13, <1>14

(***************************************************************************)
(* The chain grows by one attribute and leaves no gap.                     *)
(***************************************************************************)
LEMMA GrowStep ==
  ASSUME AttrInv, NEW type \in Types, NEW n \in Nat, NEW nul \in BOOLEAN,
         put_check(type, n, nul), Counted(len + HDR + n)
  PROVE  AttrInv'
<1>1. PICK a \in Attr, l \in Nat :
         /\ attrs' = Append(attrs, a) /\ len' = l
         /\ a.at = len /\ a.bytes = n /\ a.len = 4 + n /\ n <= 65528
         /\ Ends(a) = l /\ len < l /\ l <= BufLen /\ l <= 65532 /\ l % 4 = 0
  BY NewAttr DEF put_check
<1>2. /\ phase = "build"
      /\ UNCHANGED <<offset, phase, cur, seen, result, got>>
  BY DEF put_check
<1>3. PICK k \in Nat : k = Len(attrs)
  BY DEF AttrInv, Layout
<1>4. /\ Len(attrs') = k + 1 /\ attrs'[k + 1] = a
      /\ \A i \in 1 .. k : attrs'[i] = attrs[i]
  BY <1>1, <1>3 DEF AttrInv, Layout
<1>5. PICK b \in Nat : b = Base /\ b <= len
  <2>1. Base \in Nat
    BY BaseLemma DEF AttrInv
  <2> QED BY <1>2, <2>1 DEF AttrInv, Layout
<1>6. Base' = b
  BY <1>2, <1>5 DEF Base
<1>7. len \in Nat
  BY DEF AttrInv, Layout
<1>8. Layout'
  BY <1>1, <1>2, <1>5, <1>6, <1>7 DEF AttrInv, Layout
<1>9. Chain'
  <2>1. ASSUME NEW i \in 1 .. k + 1 PROVE Placed(attrs[i])'
    <3>1. CASE i = k + 1
      <4>1. attrs[i]' = a /\ Ends(attrs[i])' = l
        BY <1>1, <1>4, <3>1 DEF Ends
      <4> QED BY <1>1, <1>5, <1>6, <1>7, <4>1 DEF Placed
    <3>2. CASE i # k + 1
      <4>1. i \in 1 .. k /\ Placed(attrs[i])
        BY <1>3, <3>2 DEF AttrInv, Chain
      <4>2. PICK p, c, q \in Nat : Shape(attrs[i], p, c, q)
        BY <4>1, PlacedLemma
      <4>3. p + 4 * q <= len /\ p >= b
        BY <1>5, <4>1, <4>2 DEF Placed, Shape
      <4>4. p + 4 * q <= l
        BY <1>1, <1>7, <4>3
      <4>5. attrs[i]' = attrs[i] /\ Ends(attrs[i])' = p + 4 * q
        BY <1>4, <4>1, <4>2 DEF Shape, Ends
      <4>6. attrs[i].at = p /\ attrs[i].bytes = c /\ attrs[i].len = 4 + c /\ c <= 65528
        BY <4>2 DEF Shape
      <4>7. len' = l
        BY <1>1
      <4> QED BY <1>6, <4>3, <4>4, <4>5, <4>6, <4>7 DEF Placed
    <3> QED BY <3>1, <3>2
  <2>2. ASSUME NEW i \in 1 .. k + 1, NEW j \in 1 .. k + 1, i < j
        PROVE  (Ends(attrs[i]) <= attrs[j].at)'
    <3>1. i \in 1 .. k
      BY <2>2
    <3>2. Ends(attrs[i])' = Ends(attrs[i])
      BY <1>4, <3>1 DEF Ends
    <3>3. CASE j = k + 1
      <4>1. attrs[j]' = a /\ Ends(attrs[i]) <= len
        BY <1>3, <1>4, <3>1, <3>3 DEF AttrInv, Chain, Placed
      <4> QED BY <1>1, <3>2, <4>1
    <3>4. CASE j # k + 1
      <4>1. j \in 1 .. k /\ attrs[j]' = attrs[j]
        BY <1>4, <3>4
      <4>2. Ends(attrs[i]) <= attrs[j].at
        BY <1>3, <2>2, <3>1, <4>1 DEF AttrInv, Chain
      <4> QED BY <3>2, <4>1, <4>2
    <3> QED BY <3>3, <3>4
  <2>3. ASSUME NEW i \in 1 .. k + 1 PROVE (Ends(attrs[i]) = At(i + 1))'
    <3>1. CASE i = k + 1
      BY <1>1, <1>4, <3>1 DEF At, Ends
    <3>2. CASE i = k
      BY <1>1, <1>3, <1>4, <3>2 DEF AttrInv, Chain, At, Ends
    <3>3. CASE i < k
      BY <1>1, <1>3, <1>4, <3>3 DEF AttrInv, Chain, At, Ends
    <3> QED BY <3>1, <3>2, <3>3
  <2>4. At(1)' = b
    <3>1. At(1) = b
      BY <1>2, <1>5 DEF AttrInv, Chain
    <3>2. CASE k = 0
      BY <1>1, <1>3, <1>4, <3>1, <3>2 DEF At
    <3>3. CASE k > 0
      BY <1>1, <1>3, <1>4, <3>1, <3>3 DEF At
    <3> QED BY <3>2, <3>3
  <2>5. Len(attrs)' = k + 1 /\ At(1)' = Base'
    BY <1>4, <1>6, <2>4
  <2> QED BY <2>1, <2>2, <2>3, <2>5 DEF Chain
<1>10. Parser'
  <2>1. seen' = <<>> /\ Len(seen') = 0
    BY <1>2 DEF AttrInv, Parser
  <2> QED BY <1>2, <1>4, <2>1 DEF AttrInv, Parser
<1>11. Getter'
  BY <1>2, <1>3, <1>4 DEF AttrInv, Getter, ReadsInside
<1> QED BY <1>8, <1>9, <1>10, <1>11 DEF AttrInv

(***************************************************************************)
(* A message that is asked to grow further than it can be counted is not   *)
(* followed further.                                                       *)
(***************************************************************************)
LEMMA PutStep ==
  ASSUME AttrInv, NEW type \in Types, NEW n \in Nat, NEW nul \in BOOLEAN,
         put_check(type, n, nul)
  PROVE  AttrInv'
<1>1. CASE Counted(len + HDR + n)
  BY <1>1, GrowStep
<1>2. CASE ~Counted(len + HDR + n)
  <2>1. /\ phase = "build" /\ phase' = "wrapped"
        /\ UNCHANGED <<len, offset, attrs, cur, seen, result, got>>
    BY <1>2 DEF put_check
  <2>2. Layout'
    BY <2>1 DEF AttrInv, Layout, Base
  <2>3. Chain'
    BY <2>1 DEF AttrInv, Chain, Placed, Base, Ends, At
  <2>4. Parser'
    BY <2>1 DEF AttrInv, Parser, At
  <2>5. Getter'
    BY <2>1 DEF AttrInv, Getter, ReadsInside
  <2> QED BY <2>2, <2>3, <2>4, <2>5 DEF AttrInv
<1> QED BY <1>1, <1>2

(***************************************************************************)
(* Every function of the builder is such a step.                           *)
(***************************************************************************)
LEMMA BuildStep ==
  ASSUME AttrInv, Put
  PROVE  AttrInv'
<1>1. PICK type \in Types :
         \/ \E n \in Sizes : \/ sancus_nl_attr_put(type, n)
                             \/ sancus_nl_attr_put_string(type, n)
                             \/ sancus_nl_attr_put_nul_string(type, n)
         \/ \E int \in DOMAIN SizeOf : sancus_nl_attr_put_uint(type, int)
  BY DEF Put
<1>2. ASSUME NEW n \in Sizes, sancus_nl_attr_put(type, n)
      PROVE  AttrInv'
  <2>1. PICK nul \in BOOLEAN : put_check(type, n, nul)
    BY <1>2 DEF sancus_nl_attr_put
  <2>2. n \in Nat
    BY LimitsLemma
  <2> QED BY <2>1, <2>2, PutStep
<1>3. ASSUME NEW n \in Sizes, sancus_nl_attr_put_string(type, n)
      PROVE  AttrInv'
  <2>1. PICK nul \in BOOLEAN : put_check(type, n, nul)
    BY <1>3, Zenon DEF sancus_nl_attr_put_string
  <2>2. n \in Nat
    BY LimitsLemma
  <2> QED BY <2>1, <2>2, PutStep
<1>4. ASSUME NEW n \in Sizes, sancus_nl_attr_put_nul_string(type, n)
      PROVE  AttrInv'
  <2>1. PICK m \in Nat : m = n + 1
    BY LimitsLemma
  <2>2. PICK nul \in BOOLEAN : put_check(type, m, nul)
    <3>1. \E nul \in BOOLEAN : put_check(type, n + 1, nul)
      BY <1>4, Zenon DEF sancus_nl_attr_put_nul_string
    <3>2. n + 1 = m
      BY <2>1
    <3> QED BY <3>1, <3>2
  <2> QED BY <2>1, <2>2, PutStep
<1>5. ASSUME NEW int \in DOMAIN SizeOf, sancus_nl_attr_put_uint(type, int)
      PROVE  AttrInv'
  <2>1. PICK m \in Nat : m = SizeOf[int]
    BY SizeLemma
  <2>2. PICK nul \in BOOLEAN : put_check(type, m, nul)
    BY <1>5, <2>1 DEF sancus_nl_attr_put_uint
  <2> QED BY <2>1, <2>2, PutStep
<1> QED BY <1>1, <1>2, <1>3, <1>4, <1>5

----------------------------------------------------------------------------
(* The steps of the parser.                                                *)

(***************************************************************************)
(* The parser leaves the message as it is.                                 *)
(***************************************************************************)
LEMMA SameChain ==
  ASSUME Chain, UNCHANGED <<len, offset, attrs>>, phase \notin {"empty", "header"}
  PROVE  Chain'
<1>1. Len(attrs)' = Len(attrs) /\ At(1)' = At(1) /\ Base' = Base
  BY DEF At, Base
<1>2. ASSUME NEW i \in 1 .. Len(attrs)
      PROVE  /\ attrs[i]' = attrs[i] /\ Ends(attrs[i])' = Ends(attrs[i])
             /\ At(i + 1)' = At(i + 1)
  BY DEF Ends, At
<1>3. ASSUME NEW i \in 1 .. Len(attrs) PROVE Placed(attrs[i])'
  <2>1. Placed(attrs[i])
    BY DEF Chain
  <2> QED BY <1>1, <1>2, <2>1 DEF Placed
<1>4. At(1) = Base
  BY DEF Chain
<1>5. ASSUME NEW i \in 1 .. Len(attrs), NEW j \in 1 .. Len(attrs), i < j
      PROVE  (Ends(attrs[i]) <= attrs[j].at)'
  BY <1>2, <1>5 DEF Chain
<1>6. ASSUME NEW i \in 1 .. Len(attrs) PROVE (Ends(attrs[i]) = At(i + 1))'
  BY <1>2 DEF Chain
<1> QED BY <1>1, <1>3, <1>4, <1>5, <1>6 DEF Chain

(***************************************************************************)
(* A parse starts at the first attribute, or at the end of the message.    *)
(***************************************************************************)
LEMMA StartStep ==
  ASSUME AttrInv, sancus_nl_attr_parse
  PROVE  AttrInv'
<1> USE DEF sancus_nl_attr_parse
<1>1. cur' = Base /\ Base = At(1) /\ Base <= len
  BY DEF Base, AttrInv, Layout, Chain
<1>2. seen = <<>> /\ Len(seen) = 0
  BY DEF AttrInv, Parser
<1>3. At(1)' = At(1) /\ Base' = Base /\ Len(seen)' = 0
  BY <1>2 DEF At, Base
<1>4. PICK r \in Nat : Base = 16 + 4 * r
  BY BaseLemma DEF AttrInv
<1>5. Layout'
  BY <1>3 DEF AttrInv, Layout
<1>6. Chain'
  BY SameChain DEF AttrInv
<1>7. Parser'
  <2>1. cur' \in Nat /\ cur' <= BufLen
    BY <1>1, <1>4, LimitsLemma DEF AttrInv, Layout
  <2>2. cur' = At(Len(seen) + 1)'
    BY <1>1, <1>2, <1>3
  <2> QED BY <2>1, <2>2 DEF AttrInv, Parser
<1>8. Getter'
  BY DEF AttrInv, Getter, ReadsInside
<1> QED BY <1>5, <1>6, <1>7, <1>8 DEF AttrInv

(***************************************************************************)
(* The parser is at the attribute after those it has seen, which is the    *)
(* only one there and passes sancus_nl_attr_ok, or at the end.             *)
(***************************************************************************)
LEMMA HereLemma ==
  ASSUME AttrInv, phase = "parse"
  PROVE  /\ Len(seen) = Len(attrs) => Here = 0
         /\ Len(seen) < Len(attrs) =>
               /\ Here = Len(seen) + 1
               /\ cur = attrs[Here].at
               /\ sancus_nl_attr_ok(attrs[Here], PayloadTail - cur)
<1>1. PICK k, m \in Nat : k = Len(seen) /\ m = Len(attrs) /\ k <= m
  BY DEF AttrInv, Layout, Parser
<1>2. \A i \in 1 .. m : \E p, b, q \in Nat : Shape(attrs[i], p, b, q)
  BY <1>1, PlacedLemma DEF AttrInv, Chain
<1>3. cur = At(k + 1)
  BY <1>1 DEF AttrInv, Parser
<1>4. PICK l \in Nat : l = len
  BY DEF AttrInv, Layout
<1>5. CASE k = m
  <2>1. cur = l
    BY <1>1, <1>3, <1>4, <1>5 DEF At
  <2>2. ASSUME NEW i \in 1 .. Len(attrs) PROVE attrs[i].at # cur
    <3>1. PICK p, b, q \in Nat : Shape(attrs[i], p, b, q)
      BY <1>1, <1>2
    <3>2. p + 4 * q <= l
      BY <1>4, <3>1 DEF AttrInv, Chain, Placed, Shape
    <3> QED BY <2>1, <3>1, <3>2 DEF Shape
  <2> QED BY <1>1, <1>5, <2>2 DEF Here
<1>6. CASE k < m
  <2>1. k + 1 \in 1 .. m /\ cur = attrs[k + 1].at
    BY <1>1, <1>3, <1>6 DEF At
  <2>2. PICK p, b, q \in Nat : Shape(attrs[k + 1], p, b, q)
    BY <1>2, <2>1
  <2>3. ASSUME NEW i \in 1 .. Len(attrs), attrs[i].at = cur PROVE i = k + 1
    <3>1. PICK p1, b1, q1 \in Nat : Shape(attrs[i], p1, b1, q1)
      BY <1>1, <1>2
    <3>2. p1 = p
      BY <2>1, <2>2, <2>3, <3>1 DEF Shape
    <3>3. i < k + 1 => p1 + 4 * q1 <= p
      BY <1>1, <2>1, <2>2, <3>1 DEF AttrInv, Chain, Shape
    <3>4. k + 1 < i => p + 4 * q <= p1
      BY <1>1, <2>1, <2>2, <3>1 DEF AttrInv, Chain, Shape
    <3>5. 4 + b <= 4 * q /\ 4 + b1 <= 4 * q1
      BY <2>2, <3>1 DEF Shape
    <3> QED BY <3>2, <3>3, <3>4, <3>5
  <2>4. {i \in 1 .. Len(attrs) : attrs[i].at = cur} = {k + 1}
    BY <1>1, <2>1, <2>3
  <2>5. Here = k + 1
    BY <2>4 DEF Here
  <2>6. PayloadTail = l
    <3>1. PICK c \in Nat : l = 4 * c /\ c <= 16383
      BY <1>4 DEF AttrInv, Layout
    <3> QED BY <1>4, <3>1, HeaderLemma DEF PayloadTail
  <2>7. p + 4 * q <= l
    BY <1>1, <1>4, <2>1, <2>2 DEF AttrInv, Chain, Placed, Shape
  <2>8. /\ cur = p /\ attrs[Here].len = 4 + b /\ 4 + b <= 4 * q
    BY <2>1, <2>2, <2>5 DEF Shape
  <2>9. sancus_nl_attr_ok(attrs[Here], PayloadTail - cur)
    BY <2>6, <2>7, <2>8 DEF sancus_nl_attr_ok
  <2> QED BY <1>1, <1>6, <2>1, <2>5, <2>9
<1> QED BY <1>1, <1>5, <1>6

(***************************************************************************)
(* A getter called on what was accepted, for a length with room for what   *)
(* it reads, reads no more than was put.                                   *)
(***************************************************************************)
LEMMA ReadsLemma ==
  ASSUME NEW a, Placed(a), NEW type \in DataTypes,
         NEW expected \in Nat, validate_attr(a, type, expected)
  PROVE  /\ Reads(a, type) \in Nat
         /\ ~Short(type, expected) => Reads(a, type) <= a.bytes
<1>1. PICK b \in Nat : a.bytes = b /\ a.len = 4 + b /\ b <= 65528
  BY DEF Placed
<1>2. sancus_nl_attr_get_payload_len(a) = b
  <2>1. a.len - HDR = b
    BY <1>1, HeaderLemma
  <2>2. b % 2^16 = b
    BY <1>1, SMT
  <2> QED BY <2>1, <2>2, Zenon DEF sancus_nl_attr_get_payload_len
<1>3. CASE type \in DOMAIN SizeOf
  <2>1. Reads(a, type) = SizeOf[type] /\ SizeOf[type] \in Nat
    <3>1. type # "NUL_STRING"
      BY <1>3 DEF SizeOf
    <3> QED BY <1>3, <3>1, SizeLemma DEF Reads
  <2>2. ~Short(type, expected) => SizeOf[type] <= expected
    BY <1>3, <2>1 DEF Short
  <2>3. b >= expected
    BY <1>2 DEF validate_attr
  <2> QED BY <1>1, <2>1, <2>2, <2>3
<1>4. CASE type \notin DOMAIN SizeOf
  <2>1. ~(type = "NUL_STRING" /\ ~a.nul)
    BY DEF validate_attr
  <2>2. Reads(a, type) = sancus_nl_attr_get_payload_len(a)
    BY <1>4, <2>1 DEF Reads
  <2> QED BY <1>1, <1>2, <2>2
<1> QED BY <1>3, <1>4

(***************************************************************************)
(* The minimal length of a type has room for what its getter reads.        *)
(***************************************************************************)
LEMMA MinlenLemma ==
  ASSUME NEW type \in DataTypes
  PROVE  minlen(type) \in Nat /\ ~Short(type, minlen(type))
<1>1. CASE type \in DOMAIN SizeOf
  <2>1. type \notin {"STRING", "NUL_STRING"}
    BY <1>1 DEF SizeOf
  <2>2. minlen(type) = SizeOf[type]
    BY <1>1, <2>1 DEF minlen
  <2> QED BY <1>1, <2>2, SizeLemma DEF Short
<1>2. CASE type \notin DOMAIN SizeOf
  <2>1. minlen(type) \in {0, 1}
    BY <1>2 DEF minlen
  <2> QED BY <1>2, <2>1 DEF Short
<1> QED BY <1>1, <1>2

(***************************************************************************)
(* The parser shows an attribute and goes on to the next.                  *)
(***************************************************************************)
LEMMA ParseOneStep ==
  ASSUME AttrInv, NEW answer \in {-1, Stop, Ok}, ParseOne(answer)
  PROVE  AttrInv'
<1> USE DEF ParseOne
<1>1. PICK k, m \in Nat : k = Len(seen) /\ m = Len(attrs) /\ k <= m
  BY DEF AttrInv, Layout, Parser
<1>2. k < m /\ Here = k + 1 /\ cur = attrs[k + 1].at
  BY <1>1, HereLemma
<1>3. Placed(attrs[k + 1]) /\ Ends(attrs[k + 1]) = At(k + 2)
  BY <1>1, <1>2 DEF AttrInv, Chain
<1>4. PICK p, b, q \in Nat : Shape(attrs[k + 1], p, b, q)
  BY <1>3, PlacedLemma
<1>5. PICK c \in Nat : cur' = c /\ c = p + 4 * q
  BY <1>2, <1>4 DEF sancus_nl_attr_next, Shape
<1>6. c <= len /\ c = At(k + 2)
  BY <1>3, <1>4, <1>5 DEF Placed, Shape
<1>7. /\ seen' = Append(seen, k + 1) /\ Len(seen') = k + 1
      /\ seen' \in Seq(Nat) /\ \A i \in 1 .. k + 1 : seen'[i] = i
  <2>1. seen' = Append(seen, k + 1) /\ seen \in Seq(Nat)
    BY <1>2 DEF AttrInv, Parser
  <2>2. Len(seen') = k + 1 /\ seen' \in Seq(Nat)
    BY <1>1, <2>1
  <2>3. ASSUME NEW i \in 1 .. k + 1 PROVE seen'[i] = i
    BY <1>1, <2>1 DEF AttrInv, Parser
  <2> QED BY <2>1, <2>2, <2>3
<1>8. Base' = Base /\ phase' \in {"parse", "done"}
  BY DEF Base
<1>9. Layout'
  BY <1>8 DEF AttrInv, Layout
<1>10. Chain'
  BY SameChain DEF AttrInv
<1>11. Parser'
  <2>1. cur' \in Nat /\ cur' <= BufLen
    BY <1>5, <1>6, LimitsLemma DEF AttrInv, Layout
  <2>2. Len(seen') <= Len(attrs')
    BY <1>1, <1>2, <1>7
  <2>3. cur' = At(Len(seen) + 1)'
    BY <1>5, <1>6, <1>7 DEF At
  <2>4. phase' = "done" => result' # Ok
    BY DEF Stop, Ok
  <2>5. phase' # "done" => result' = Ok
    BY DEF Stop, Ok
  <2> QED BY <1>7, <1>8, <2>1, <2>2, <2>3, <2>4, <2>5 DEF Parser
<1>12. Getter'
  <2>1. CASE UNCHANGED got
    BY <1>8, <2>1 DEF AttrInv, Getter, ReadsInside
  <2>2. CASE ~UNCHANGED got
    <3> DEFINE a == attrs[k + 1]
    <3>1. PICK type \in DataTypes, expected \in Nat, short \in BOOLEAN :
             /\ validate_attr(a, type, expected)
             /\ got' = [attr |-> k + 1, n |-> Reads(a, type), short |-> short]
             /\ ~short => ~Short(type, expected)
      <4>1. PICK type : \/ /\ sancus_nl_attr_validate_minlen(a, type)
                           /\ Gets(k + 1, type, FALSE)
                        \/ \E explen \in Sizes :
                              /\ sancus_nl_attr_validate_explen(a, type, explen)
                              /\ Gets(k + 1, type, Short(type, explen))
        BY <1>2, <2>2 DEF Callback
      <4>2. CASE sancus_nl_attr_validate_minlen(a, type) /\ Gets(k + 1, type, FALSE)
        <5>1. type \in DataTypes /\ validate_attr(a, type, minlen(type))
          BY <4>2 DEF sancus_nl_attr_validate_minlen
        <5>2. minlen(type) \in Nat /\ ~Short(type, minlen(type))
          BY <5>1, MinlenLemma
        <5>3. got' = [attr |-> k + 1, n |-> Reads(a, type), short |-> FALSE]
          BY <4>2 DEF Gets
        <5> QED BY <5>1, <5>2, <5>3, Zenon
      <4>3. ASSUME NEW explen \in Sizes,
                   sancus_nl_attr_validate_explen(a, type, explen),
                   Gets(k + 1, type, Short(type, explen))
            PROVE  /\ type \in DataTypes /\ explen \in Nat
                   /\ validate_attr(a, type, explen)
                   /\ Short(type, explen) \in BOOLEAN
                   /\ got' = [attr |-> k + 1, n |-> Reads(a, type),
                              short |-> Short(type, explen)]
        <5>1. type \in DataTypes /\ validate_attr(a, type, explen) /\ explen \in Nat
          BY <4>3, LimitsLemma DEF sancus_nl_attr_validate_explen
        <5>2. Short(type, explen) \in BOOLEAN
          BY Zenon DEF Short
        <5>3. got' = [attr |-> k + 1, n |-> Reads(a, type), short |-> Short(type, explen)]
          BY <4>3, Zenon DEF Gets
        <5> QED BY <5>1, <5>2, <5>3, Zenon
      <4> QED BY <4>1, <4>2, <4>3, Zenon
    <3>2. Reads(a, type) \in Nat /\ (~short => Reads(a, type) <= a.bytes)
      BY <1>3, <3>1, ReadsLemma
    <3>3. PICK x \in Nat : x = Reads(a, type)
      BY <3>2
    <3>4. /\ got' \in [attr : Nat, n : Nat, short : BOOLEAN]
          /\ got'.attr = k + 1 /\ got'.n = x /\ got'.short = short
      BY <3>1, <3>3
    <3> QED BY <1>1, <1>2, <1>8, <3>2, <3>3, <3>4 DEF Getter, ReadsInside
  <2> QED BY <2>1, <2>2
<1> QED BY <1>9, <1>10, <1>11, <1>12 DEF AttrInv

(***************************************************************************)
(* It stops of itself only behind the last attribute.                      *)
(***************************************************************************)
LEMMA ParseEndStep ==
  ASSUME AttrInv, ParseEnd
  PROVE  AttrInv'
<1> USE DEF ParseEnd
<1>1. PICK k, m \in Nat : k = Len(seen) /\ m = Len(attrs) /\ k <= m
  BY DEF AttrInv, Layout, Parser
<1>2. k = m
  BY <1>1, HereLemma
<1>3. Base' = Base
  BY DEF Base
<1>4. Layout'
  BY <1>3 DEF AttrInv, Layout
<1>5. Chain'
  BY SameChain DEF AttrInv
<1>6. Parser'
  BY <1>1, <1>2 DEF AttrInv, Parser
<1>7. Getter'
  BY DEF AttrInv, Getter, ReadsInside
<1> QED BY <1>4, <1>5, <1>6, <1>7 DEF AttrInv

----------------------------------------------------------------------------
(***************************************************************************)
(* The inductive invariant holds of every message built and parsed.        *)
(***************************************************************************)
THEOREM AttrInvariant == AttrSpec => []AttrInv
<1>1. AttrInv /\ [AttrNext]_attrVars => AttrInv'
  <2> SUFFICES ASSUME AttrInv, [AttrNext]_attrVars PROVE AttrInv'
    OBVIOUS
  <2>1. CASE \/ sancus_nl_msg_put_header
             \/ \E size \in Extras : sancus_nl_msg_put_extra_header(size)
    BY <2>1, HeadersStep
  <2>2. CASE Put
    BY <2>2, BuildStep
  <2>3. CASE sancus_nl_attr_parse
    BY <2>3, StartStep
  <2>4. CASE Parse
    BY <2>4, ParseOneStep, ParseEndStep DEF Parse
  <2>5. CASE UNCHANGED attrVars
    <3> USE <2>5 DEF attrVars
    <3>1. Layout'
      BY DEF AttrInv, Layout, Base
    <3>2. Chain'
      BY DEF AttrInv, Chain, Placed, Base, Ends, At
    <3>3. Parser'
      BY DEF AttrInv, Parser, At
    <3>4. Getter'
      BY DEF AttrInv, Getter, ReadsInside
    <3> QED BY <3>1, <3>2, <3>3, <3>4 DEF AttrInv
  <2> QED BY <2>1, <2>2, <2>3, <2>4, <2>5 DEF AttrNext
<1> QED BY <1>1, AttrInitStep, PTL DEF AttrSpec

(***************************************************************************)
(* The state of the builder and of the parser is well typed.               *)
(***************************************************************************)
THEOREM AttrTypeCorrect == AttrSpec => []AttrTypeOK
  BY AttrInvariant, IInvImplies, PTL

(***************************************************************************)
(* No sequence of headers and attributes is laid out beyond the buffer or  *)
(* over one another: sancus_nl_attr_put and its kin check enough, as long  *)
(* as the message is not asked to grow beyond 65532 bytes.                 *)
(***************************************************************************)
THEOREM LaidOutInside == AttrSpec => []InsideBuffer
  BY AttrInvariant, IInvImplies, PTL

(***************************************************************************)
(* sancus_nl_attr_parse finds what was put: each attribute once and in     *)
(* order, and all of them unless its callback stops it.                    *)
(***************************************************************************)
THEOREM ParsesWhatWasPut == AttrSpec => []RoundTrip
  BY AttrInvariant, IInvImplies, PTL

(***************************************************************************)
(* A payload accepted by sancus_nl_attr_validate_minlen as any type, or by *)
(* _explen for a length with room for the integer that is read, is read no *)
(* further than it goes, whatever it was put as.                           *)
(***************************************************************************)
THEOREM ReadsStayInside == AttrSpec => []ReadsInside
  BY AttrInvariant, IInvImplies, PTL
=============================================================================
