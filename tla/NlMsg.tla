------------------------------- MODULE NlMsg -------------------------------
(***************************************************************************)
(* Netlink messages in a buffer (src/netlink/netlink_msg.c): the layout of *)
(* a datagram and the walk from one message to the next.  Offsets and      *)
(* lengths are in bytes.  A message is its header: nlmsg_len, nlmsg_pid    *)
(* and whether nlmsg_type is at least NLMSG_MIN_TYPE (data) or a control   *)
(* message.                                                                *)
(*                                                                         *)
(* nlmsg_len is an unsigned of 32 bits that the code also reads as an int; *)
(* `len' is its value as an int, and so negative for lengths of 2^31 and   *)
(* more.                                                                   *)
(***************************************************************************)
EXTENDS Integers, Sequences

HDRLEN == 16  \* sizeof(struct nlmsghdr)

SANCUS_NL_ALIGN(len) == (((len + 3) \div 4) * 4) % 2^16

Header(lens, pids) == [len : lens, pid : pids, data : BOOLEAN]

----------------------------------------------------------------------------
(* Deliberate bugs, used only to show that the properties notice them.     *)

PortidEqual(h, portid) == h.pid = portid

----------------------------------------------------------------------------
\* The second comparison is one of unsigneds, the third one of ints: a
\* length of 2^31 or more passes both, whatever is left.
sancus_nl_msg_ok(h, left) ==
    /\ left >= HDRLEN
    /\ h.len >= HDRLEN \/ h.len < 0
    /\ h.len <= left

\* `nlh + n' counts headers, not bytes: the pointer moves by n * HDRLEN.
sancus_nl_msg_next(h, pos) == pos + SANCUS_NL_ALIGN(h.len) * HDRLEN

sancus_nl_msg_left(h, left) == left - SANCUS_NL_ALIGN(h.len)

sancus_nl_msg_portid_ok(h, portid) ==
    (h.pid # 0 /\ portid # 0) => h.pid = portid

----------------------------------------------------------------------------
(* A datagram, as the kernel fills it: each message padded to four bytes.  *)

End(d) ==
    LET end[i \in 0 .. Len(d)] ==
            IF i = 0 THEN 0 ELSE end[i - 1] + SANCUS_NL_ALIGN(d[i].len)
    IN  end

Bytes(d) == End(d)[Len(d)]

\* The header read at an offset: a message of the datagram, or whatever is
\* found where none starts (payload, the uninitialised rest of the buffer,
\* or beyond it).
HeadersAt(d, pos, garbage) ==
    LET here == {i \in 1 .. Len(d) : End(d)[i - 1] = pos}
    IN  IF here = {} THEN garbage ELSE {d[i] : i \in here}
============================================================================
