----------------------------- MODULE NlReceiver -----------------------------
(***************************************************************************)
(* A netlink socket and its watcher (src/netlink/netlink_io.c), with the   *)
(* kernel's queue of datagrams and an application that may call the        *)
(* receiver again from on_message and on_error.                            *)
(*                                                                         *)
(* A step runs from one entry of the library to its next callback or its   *)
(* return, except that the loop over the messages of a datagram takes one  *)
(* step per message; nothing else runs meanwhile.                          *)
(***************************************************************************)
EXTENDS NlMsg

CONSTANTS Fds,       \* the descriptors socket() may return
          Ports,     \* port ids; 0 stands for any
          Lens,      \* values of nlmsg_len in the kernel's messages
          Strays,    \* what may be read for it where no message starts
          Huge,      \* the same, of 2^31 and more: what they lack to 2^32
          Revents,   \* what the event library may call recv_cb with
          MaxMsgs,   \* bound: messages in a datagram
          MaxQueue   \* bound: datagrams in the socket's queue

ASSUME FdsAssumption == Fds \subseteq Nat
ASSUME PortsAssumption == Ports \subseteq Nat
ASSUME LensAssumption == Lens \subseteq HDRLEN .. 2^12
ASSUME StraysAssumption == Strays \subseteq Nat /\ Huge \subseteq Nat
ASSUME ReventsAssumption == Revents \subseteq SUBSET {"READ", "ERROR"}
ASSUME BoundsAssumption == MaxMsgs \in Nat /\ MaxQueue \in Nat

VARIABLES
    fd,       \* recv_watcher.fd, -1 when there is none
    active,   \* sancus_ev_is_active(&recv_watcher)
    portid,   \* self->portid
    running,  \* what of the receiver is on the stack
    erred,    \* SANCUS_EV_ERROR is among recv_cb's revents, still to be seen to
    dgram,    \* the datagram in recv_cb's buffer
    pos,      \* nlh, as an offset into the buffer
    left,     \* `len' of extract_netlink_message
    ret,      \* its `ret'
    shown,    \* the headers on_message was shown of dgram
    dport,    \* self->portid when dgram was received
    table,    \* the descriptors open in the kernel
    queue,    \* datagrams waiting in the kernel
    known,    \* the application takes the receiver for open
    aborted   \* an assert() has failed

walk == <<dgram, pos, left, ret, shown, dport>>
kernel == <<table, queue>>
vars == <<fd, active, portid, running, erred, walk, kernel, known, aborted>>

None == -1
Message == Header(Lens, Ports)
Garbage == Header(Lens \cup Strays \cup {-n : n \in Huge}, Ports \cup {0})
Datagram == UNION {[1 .. n -> Message] : n \in 1 .. MaxMsgs}

Init ==
    /\ fd = None /\ active = FALSE /\ portid = 0
    /\ running = "none" /\ erred = FALSE
    /\ dgram = <<>> /\ pos = 0 /\ left = 0 /\ ret = 0 /\ shown = <<>>
    /\ dport = 0
    /\ table = {} /\ queue = <<>>
    /\ known = FALSE
    /\ aborted = FALSE

----------------------------------------------------------------------------
(* Deliberate bugs, used only to show that the properties notice them.     *)

BindFailsUnclosed(new) == fd' = None /\ table' = table \cup {new}

KeepsOpen == UNCHANGED <<fd, kernel>>

ErrorUnreported == UNCHANGED running

----------------------------------------------------------------------------
(* sancus_close2 on the receiver's descriptor; the kernel forgets what was *)
(* queued on the socket.                                                   *)

sancus_close2 ==
    /\ fd' = None
    /\ table' = table \ {fd}
    /\ queue' = <<>>

----------------------------------------------------------------------------
(* The API.  The application keeps to it: it listens on a receiver that is *)
(* closed and stopped, starts one that it takes for open, and closes one   *)
(* it has stopped.                                                         *)

Idle == ~aborted /\ running \notin {"walk", "failing"}

Binds(new) == fd' = new /\ table' = table \cup {new}
BindFails(new) == fd' = None /\ UNCHANGED table

sancus_nl_receiver_listen(port) ==
    /\ Idle /\ ~known /\ ~active
    /\ portid' = port
    /\ \E new \in Fds \ table :
          \/ Binds(new) /\ known' = TRUE
          \/ BindFails(new) /\ UNCHANGED known
    /\ queue' = <<>>
    /\ UNCHANGED <<active, running, erred, walk, aborted>>

sancus_nl_receiver_start ==
    /\ Idle /\ known /\ ~active
    /\ active' = TRUE
    /\ UNCHANGED <<fd, portid, running, erred, walk, kernel, known, aborted>>

sancus_nl_receiver_stop ==
    /\ Idle /\ active
    /\ active' = FALSE
    /\ UNCHANGED <<fd, portid, running, erred, walk, kernel, known, aborted>>

sancus_nl_receiver_close ==
    /\ Idle /\ known /\ ~active
    /\ \/ fd >= 0 /\ sancus_close2 /\ UNCHANGED aborted
       \/ fd < 0 /\ aborted' = TRUE /\ UNCHANGED <<fd, kernel>>
    /\ known' = FALSE
    /\ UNCHANGED <<active, portid, running, erred, walk>>

----------------------------------------------------------------------------
(* recv_cb: the event library calls it for a readable descriptor, or after *)
(* it has given up on the watcher and stopped it, or for both at once.     *)
(* sancus_nl_recvfrom takes a datagram, fails without taking one, or       *)
(* refuses one that is truncated or has no proper address.  After reading, *)
(* recv_cb sees to the error, if there is one ("failing").                 *)

Readable == active /\ fd >= 0 /\ queue # <<>>

RecvFails == running' = "on_recvfrom_error"

sancus_nl_recvfrom ==
    \/ /\ queue # <<>>
       /\ dgram' = Head(queue) /\ pos' = 0 /\ left' = Bytes(Head(queue))
       /\ ret' = 0 /\ shown' = <<>> /\ dport' = portid
       /\ queue' = Tail(queue)
       /\ running' = "walk"
    \/ /\ RecvFails
       /\ queue' = queue \/ (queue # <<>> /\ queue' = Tail(queue))
       /\ UNCHANGED walk

recv_cb(revents) ==
    /\ ~aborted /\ running = "none"
    /\ IF "ERROR" \in revents THEN active ELSE Readable
    /\ active' = ("ERROR" \notin revents)
    /\ erred' = ("ERROR" \in revents)
    /\ IF "READ" \in revents
       THEN sancus_nl_recvfrom
       ELSE running' = "failing" /\ UNCHANGED <<walk, queue>>
    /\ UNCHANGED <<fd, portid, table, known, aborted>>

\* Where recv_cb is once it has read.
HasRead == IF erred THEN "failing" ELSE "none"

----------------------------------------------------------------------------
(* extract_netlink_message: one step per message.  nlh and len are moved   *)
(* on with the call of on_message, which reads neither.                    *)

CloseReceiver == sancus_close2

Extracted(result) ==
    /\ running' = HasRead
    /\ IF result = 0 THEN CloseReceiver ELSE UNCHANGED <<fd, kernel>>

MoveOn(h) ==
    /\ pos' = sancus_nl_msg_next(h, pos)
    /\ left' = sancus_nl_msg_left(h, left)

NoMore(h) ==
    /\ ~sancus_nl_msg_ok(h, left)
    /\ Extracted(ret)
    /\ UNCHANGED walk

\* The result is -1, which recv_cb takes for success.
Foreign(h) ==
    /\ sancus_nl_msg_ok(h, left) /\ ~sancus_nl_msg_portid_ok(h, portid)
    /\ Extracted(-1)
    /\ UNCHANGED walk

Shows(h) ==
    /\ sancus_nl_msg_ok(h, left) /\ sancus_nl_msg_portid_ok(h, portid)
    /\ IF h.data
       THEN running' = "on_message" /\ shown' = Append(shown, h)
       ELSE UNCHANGED <<running, shown>>
    /\ MoveOn(h)
    /\ UNCHANGED <<dgram, ret, dport, fd, kernel>>

extract_netlink_message ==
    /\ ~aborted /\ running = "walk"
    /\ \E h \in HeadersAt(dgram, pos, Garbage) :
          NoMore(h) \/ Foreign(h) \/ Shows(h)
    /\ UNCHANGED <<active, portid, erred, known, aborted>>

\* An application that answers "false" has asked for the receiver to be
\* closed and knows that it is.
OnMessageReturns(go_on) ==
    /\ ~aborted /\ running = "on_message"
    /\ IF go_on
       THEN /\ running' = "walk" /\ ret' = 1
            /\ UNCHANGED <<fd, kernel, known>>
       ELSE /\ ret' = 0
            /\ Extracted(0)
            /\ known' = FALSE
    /\ UNCHANGED <<active, portid, erred, dgram, pos, left, shown, dport,
                   aborted>>

----------------------------------------------------------------------------
(* The event library has given up on the watcher: recv_cb stops and closes *)
(* the receiver, whatever reading did to it, then tells the application.   *)

WatcherError ==
    /\ ~aborted /\ running = "failing"
    /\ active' = FALSE /\ erred' = FALSE
    /\ IF fd >= 0
       THEN /\ sancus_close2
            /\ running' = "on_watcher_error" /\ known' = FALSE
            /\ UNCHANGED aborted
       ELSE aborted' = TRUE /\ UNCHANGED <<fd, kernel, running, known>>
    /\ UNCHANGED <<portid, walk>>

OnErrorReturns ==
    /\ ~aborted /\ running \in {"on_recvfrom_error", "on_watcher_error"}
    /\ running' = HasRead
    /\ UNCHANGED <<fd, active, portid, erred, walk, kernel, known, aborted>>

KernelSends(d) ==
    /\ ~aborted /\ fd >= 0 /\ Len(queue) < MaxQueue
    /\ queue' = Append(queue, d)
    /\ UNCHANGED <<fd, active, portid, running, erred, walk, table, known,
                   aborted>>

----------------------------------------------------------------------------
Application ==
    \/ \E port \in Ports : sancus_nl_receiver_listen(port)
    \/ sancus_nl_receiver_start
    \/ sancus_nl_receiver_stop
    \/ sancus_nl_receiver_close

CallbackReturns ==
    (\E go_on \in BOOLEAN : OnMessageReturns(go_on)) \/ OnErrorReturns

Next ==
    \/ Application
    \/ \E revents \in Revents : recv_cb(revents)
    \/ extract_netlink_message
    \/ CallbackReturns
    \/ WatcherError
    \/ \E d \in Datagram : KernelSends(d)

\* The loop dispatches, recv_cb runs on, and the callbacks return.
Fairness ==
    /\ SF_vars(recv_cb({"READ"}))
    /\ WF_vars(extract_netlink_message)
    /\ WF_vars(WatcherError)
    /\ WF_vars(CallbackReturns)

SafeSpec == Init /\ [][Next]_vars
Spec == SafeSpec /\ Fairness

----------------------------------------------------------------------------
(* Properties.                                                             *)

\* What is left is not negative, unless a stray length of 2^31 or more
\* may pass for a message (sancus_nl_msg_ok).
TypeOK ==
    /\ fd \in Fds \cup {None}
    /\ active \in BOOLEAN /\ known \in BOOLEAN /\ aborted \in BOOLEAN
    /\ portid \in Ports \cup {0} /\ dport \in Ports \cup {0}
    /\ running \in {"none", "walk", "on_message", "on_recvfrom_error",
                    "failing", "on_watcher_error"}
    /\ erred \in BOOLEAN
    /\ dgram \in Seq(Message) /\ shown \in Seq(Garbage)
    /\ pos \in Nat /\ ret \in {0, 1}
    /\ left \in -(2^16) .. Bytes(dgram)
    /\ Huge = {} => left >= 0
    /\ table \subseteq Fds
    /\ queue \in Seq(Seq(Message))

(***************************************************************************)
(* The receiver has the one descriptor it knows of: a failed bind, a       *)
(* refusing on_message, the watcher's error and a re-entrant close or      *)
(* listen leak none and close none that is not its own.                    *)
(***************************************************************************)
OneDescriptor == table = {fd} \ {None}

\* The data messages among the first n of a datagram.
Data(d) ==
    LET data[n \in 0 .. Len(d)] ==
            IF n = 0 THEN <<>>
            ELSE IF d[n].data THEN Append(data[n - 1], d[n]) ELSE data[n - 1]
    IN  data

(***************************************************************************)
(* "callback triggered on each new message": when recv_cb is through with  *)
(* a datagram, on_message has been shown its data messages, each once and  *)
(* in order, up to the first that is meant for another port.  (Not if      *)
(* on_message moved the receiver to another port meanwhile.)               *)
(***************************************************************************)
Own(d, port) ==
    LET ours == {n \in 0 .. Len(d) :
                   \A i \in 1 .. n : port = 0 \/ d[i].pid \in {0, port}}
    IN  Data(d)[CHOOSE n \in ours : \A k \in ours : k <= n]

MessagesShown ==
    [][ (running = "walk" /\ running' \in {"none", "failing"} /\ portid = dport) =>
            shown = Own(dgram, dport) ]_vars

(***************************************************************************)
(* After on_message has answered "false" the application hears nothing     *)
(* more of the receiver's messages until it listens again.  (An on_message *)
(* that closes the receiver itself and answers "true" is shown the rest of *)
(* the datagram it is at, and no other; with one message to a datagram     *)
(* there is no rest.)                                                      *)
(***************************************************************************)
RefusedStaysSilent ==
    [][ (running = "walk" /\ running' = "on_message") =>
            known \/ ret = 1 ]_vars

(***************************************************************************)
(* A datagram that starts with a message for this receiver is shown to     *)
(* on_message, or its loss is reported, unless the receiver is stopped or  *)
(* closed.                                                                 *)
(***************************************************************************)
ForUs(d) == d[1].data /\ sancus_nl_msg_portid_ok(d[1], portid)

DatagramReported ==
    (Readable /\ ForUs(Head(queue)))
        ~> (running \in {"on_message", "on_recvfrom_error"} \/ ~active
               \/ fd = None \/ aborted)

(***************************************************************************)
(* The assertion of sancus_nl_receiver_close, that there is a descriptor   *)
(* to close, holds for an application that stops the receiver and then     *)
(* closes it, once, and for recv_cb itself.                                *)
(***************************************************************************)
AssertsHold == ~aborted
=============================================================================
