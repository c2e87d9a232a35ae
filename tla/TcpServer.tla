----------------------------- MODULE TcpServer -----------------------------
(***************************************************************************)
(* A listening socket and its watcher (src/sancus/tcp_server.c), with the  *)
(* process's descriptor table, the kernel's queue of connections and an    *)
(* application that may call the server again from its callbacks.          *)
(*                                                                         *)
(* A step runs from one entry of the library to its next callback or its   *)
(* return.  Event masks are sets of bits, so that `a & b' is an            *)
(* intersection; the values of the three flags are constants because       *)
(* include/sancus/ev.h and the event library it stands for differ.         *)
(***************************************************************************)
EXTENDS Integers

CONSTANTS EvRead, EvError,  \* SANCUS_EV_READ and SANCUS_EV_ERROR, as bits
          MaxFd,            \* the largest descriptor the process may have
          Backlog           \* the kernel's limit of waiting connections

ASSUME FlagsAssumption == EvRead \subseteq Nat /\ EvError \subseteq Nat
ASSUME LimitsAssumption == MaxFd \in Nat /\ Backlog \in Nat

VARIABLES
    fd,       \* connect.fd, -1 when there is none
    active,   \* sancus_ev_is_active(&connect)
    revents,  \* what the loop has found pending for the watcher
    running,  \* the callback that is running: none, on_connect or on_error
    conn,     \* the local `fd' of connect_cb, -1 outside of it
    table,    \* the open descriptors of the process
    owned,    \* those the application has taken over
    waiting   \* connections in the kernel's queue

vars == <<fd, active, revents, running, conn, table, owned, waiting>>

None == -1
Free == (0 .. MaxFd) \ table
Lowest(s) == CHOOSE f \in s : \A g \in s : f <= g

\* A daemon may start with its standard descriptors closed.
Init ==
    /\ fd = None
    /\ active = FALSE
    /\ revents = {}
    /\ running = "none"
    /\ conn = None
    /\ table = {} /\ owned = {}
    /\ waiting = 0

----------------------------------------------------------------------------
(* Deliberate bugs, used only to show that the properties notice them.     *)

BindFailsUnclosed(new) ==
    /\ fd' = None
    /\ table' = table \cup {new}

CloseWatched ==
    /\ fd >= 0
    /\ table' = table \ {fd}
    /\ fd' = None
    /\ waiting' = 0
    /\ UNCHANGED <<active, revents, running, conn, owned>>

RefusedUnclosed == UNCHANGED <<table, owned>>

IgnoreReadable(mask) == FALSE

----------------------------------------------------------------------------
(* sancus_tcp_ipv4_listen, _ipv6_listen and _local_listen: init_tcp, once  *)
(* the address is converted.  A bad address, a full table or a descriptor  *)
(* whose flags cannot be set changes nothing.  pre_bind may only tweak     *)
(* socket options.                                                         *)

BindFails(new) ==
    /\ fd' = None
    /\ UNCHANGED table

Listens(new) ==
    /\ fd' = new
    /\ table' = table \cup {new}

init_tcp ==
    /\ fd = None /\ ~active
    /\ Free # {}
    /\ LET new == Lowest(Free)
       IN  Listens(new) \/ BindFails(new)
    /\ waiting' = 0
    /\ UNCHANGED <<active, revents, running, conn, owned>>

sancus_tcp_server_start ==
    /\ ~active /\ fd >= 0
    /\ active' = TRUE
    /\ UNCHANGED <<fd, revents, running, conn, table, owned, waiting>>

\* Stopping a watcher discards what the loop had pending for it.
sancus_tcp_server_stop ==
    /\ active
    /\ active' = FALSE
    /\ revents' = {}
    /\ UNCHANGED <<fd, running, conn, table, owned, waiting>>

\* The kernel drops the connections that wait on a closed socket.
sancus_tcp_server_close ==
    /\ fd >= 0
    /\ ~active
    /\ table' = table \ {fd}
    /\ fd' = None
    /\ waiting' = 0
    /\ UNCHANGED <<active, revents, running, conn, owned>>

----------------------------------------------------------------------------
(* The event loop and connect_cb.  A connection may be gone again by the   *)
(* time the callback runs, the table may be full, and accept() may fail    *)
(* for reasons of its own.                                                 *)

Poll ==
    /\ running = "none" /\ active /\ revents = {}
    /\ waiting > 0
    /\ revents' = EvRead
    /\ UNCHANGED <<fd, active, running, conn, table, owned, waiting>>

Readable(mask) == mask \cap EvRead # {}

AcceptFails ==
    /\ running' = "on_error"
    /\ UNCHANGED <<conn, table, waiting>>

Accepted(new) ==
    /\ conn' = new
    /\ running' = "on_connect"
    /\ table' = table \cup {new}
    /\ waiting' = waiting - 1

connect_cb ==
    /\ running = "none" /\ active /\ revents # {}
    /\ revents \cap EvError = {}
    /\ revents' = {}
    /\ \/ /\ Readable(revents)
          /\ \/ AcceptFails
             \/ waiting > 0 /\ Free # {} /\ Accepted(Lowest(Free))
       \/ /\ ~Readable(revents)
          /\ UNCHANGED <<running, conn, table, waiting>>
    /\ UNCHANGED <<fd, active, owned>>

OnErrorReturns ==
    /\ running = "on_error"
    /\ running' = "none"
    /\ UNCHANGED <<fd, active, revents, conn, table, owned, waiting>>

Kept == owned' = owned \cup {conn} /\ UNCHANGED table
Refused == table' = table \ {conn} /\ UNCHANGED owned

OnConnectReturns(keep) ==
    /\ running = "on_connect"
    /\ running' = "none"
    /\ conn' = None
    /\ IF keep THEN Kept ELSE Refused
    /\ UNCHANGED <<fd, active, revents, waiting>>

----------------------------------------------------------------------------
(* The application's own descriptors, and the clients.                     *)

CloseOwned(f) ==
    /\ f \in owned
    /\ owned' = owned \ {f}
    /\ table' = table \ {f}
    /\ UNCHANGED <<fd, active, revents, running, conn, waiting>>

ClientConnects ==
    /\ fd >= 0 /\ waiting < Backlog
    /\ waiting' = waiting + 1
    /\ UNCHANGED <<fd, active, revents, running, conn, table, owned>>

ClientLeaves ==
    /\ waiting > 0
    /\ waiting' = waiting - 1
    /\ UNCHANGED <<fd, active, revents, running, conn, table, owned>>

Next ==
    \/ init_tcp
    \/ sancus_tcp_server_start
    \/ sancus_tcp_server_stop
    \/ sancus_tcp_server_close
    \/ Poll
    \/ connect_cb
    \/ OnErrorReturns
    \/ \E keep \in BOOLEAN : OnConnectReturns(keep)
    \/ \E f \in 0 .. MaxFd : CloseOwned(f)
    \/ ClientConnects
    \/ ClientLeaves

\* The loop polls and dispatches, and the callbacks return.  The
\* application and the clients owe nothing.
Fairness ==
    /\ SF_vars(Poll)
    /\ SF_vars(connect_cb)
    /\ WF_vars(OnErrorReturns)
    /\ WF_vars(\E keep \in BOOLEAN : OnConnectReturns(keep))

SafeSpec == Init /\ [][Next]_vars
Spec == SafeSpec /\ Fairness

----------------------------------------------------------------------------
(* Properties.                                                             *)

TypeOK ==
    /\ fd \in 0 .. MaxFd \cup {None}
    /\ active \in BOOLEAN
    /\ revents \in {{}, EvRead}
    /\ running \in {"none", "on_connect", "on_error"}
    /\ conn \in 0 .. MaxFd \cup {None}
    /\ table \subseteq 0 .. MaxFd /\ owned \subseteq 0 .. MaxFd
    /\ waiting \in 0 .. Backlog

(***************************************************************************)
(* Every open descriptor has one owner: the server, connect_cb while       *)
(* on_connect decides, or the application.  A failed bind or listen, a     *)
(* connection on_connect turns down, and closing or reopening the server   *)
(* from a callback neither leak a descriptor nor close one twice.          *)
(***************************************************************************)
OneOwner ==
    /\ table = owned \cup ({fd, conn} \ {None})
    /\ fd \notin owned /\ conn \notin owned
    /\ fd = conn => fd = None

(***************************************************************************)
(* The descriptor is watched only while the server has it open: nothing    *)
(* the callbacks do lets the loop report EV_ERROR, which connect_cb        *)
(* asserts, or accept() run on a descriptor that now belongs to another.   *)
(***************************************************************************)
WatchedFdOpen ==
    /\ active => fd \in table
    /\ revents # {} => active

(***************************************************************************)
(* connect_cb is called when there is a connection to take: while one      *)
(* waits on a watched server the application hears of it again and again,  *)
(* by on_connect or, whenever accept() cannot take it, by on_error.        *)
(***************************************************************************)
IncomingIsOffered ==
    (active /\ waiting > 0 /\ running = "none")
        ~> (running \in {"on_connect", "on_error"} \/ ~active \/ waiting = 0)
============================================================================
