------------------------------ MODULE TcpConn ------------------------------
(***************************************************************************)
(* An outgoing connection and its watcher (src/sancus/tcp_conn.c): the     *)
(* non-blocking connect(), io_cb and the API, with the kernel's socket,    *)
(* the event loop and the application's callbacks.                         *)
(*                                                                         *)
(* A step runs from one entry of the library to its next callback or its   *)
(* return; the application may call the API from a callback.  What the     *)
(* library leaves to the application is kept to here: it closes a stopped  *)
(* connection only, connects a closed one, and does not leave a failed     *)
(* connection watched ("fix your app!").  It may connect anew from within  *)
(* any callback, on_connect included.                                      *)
(***************************************************************************)
EXTENDS Integers

CONSTANTS Fds,         \* the descriptors socket() may return
          MaxTime,     \* bound: the loop's clock
          MaxAttempts  \* bound: calls of sancus_tcp_*_connect

ASSUME FdsAssumption == Fds \subseteq Nat /\ Fds # {}
ASSUME BoundsAssumption == MaxTime \in Nat /\ MaxAttempts \in Nat

VARIABLES
    fd,             \* io.fd, -1 when there is none
    mode,           \* the events io was initialised with
    active,         \* sancus_ev_is_active(&io)
    revents,        \* what the loop has found pending for io
    state,          \* enum sancus_tcp_conn_state
    last_activity,  \* 0 until it is first set
    running,        \* the callback that is running
    socket,         \* the kernel's view of the connection
    input,          \* there is something to read
    now,            \* sancus_ev_now()
    told,           \* the outcome the application was told of this attempt
    since,          \* when it was told
    attempts,       \* calls of connect()
    nested          \* this attempt was made from within on_connect

vars == <<fd, mode, active, revents, state, last_activity, running, socket,
          input, now, told, since, attempts, nested>>

kernel == <<socket, input, now>>
ghosts == <<told, since, attempts, nested>>

None == -1
READ == "read"
WRITE == "write"

States == {"INPROGRESS", "CONNECTED", "RUNNING", "FAILED"}
Running == {"none", "on_connect", "on_read", "on_error", "on_watcher_error"}

\* The structure is zeroed, as every static or calloc'ed one is; the enum's
\* zero is INPROGRESS.
Init ==
    /\ fd = None /\ mode = {} /\ active = FALSE /\ revents = {}
    /\ state = "INPROGRESS" /\ last_activity = 0
    /\ running = "none"
    /\ socket = "none" /\ input = FALSE /\ now = 1
    /\ told = "nothing" /\ since = 0 /\ attempts = 0 /\ nested = FALSE

----------------------------------------------------------------------------
(* Deliberate bugs, used only to show that the properties notice them.     *)

NoTouch == UNCHANGED last_activity
ConnectInterest == {READ}
CloseWatched == fd >= 0
KeepWriting == mode' = {READ, WRITE} /\ revents' = {}
WrongFlag == mode' = {WRITE} /\ revents' = {}
ReadableIsFailed == TRUE
StaysInProgress == UNCHANGED state

----------------------------------------------------------------------------
(* sancus_tcp_ipv4_connect, _ipv6_connect and _local_connect: init_tcp,    *)
(* once the address is converted and there is a descriptor: until then     *)
(* nothing changes.  connect() completes at once, goes on in the           *)
(* background, or fails and the descriptor is closed.                      *)

sancus_tcp_conn_touch == last_activity' = now

Interest == {READ, WRITE}

init_tcp ==
    /\ fd = None /\ ~active
    /\ attempts < MaxAttempts
    /\ attempts' = attempts + 1
    /\ \/ fd' \in Fds /\ state' = "INPROGRESS" /\ socket' = "connecting"
       \/ fd' \in Fds /\ state' = "CONNECTED" /\ socket' = "established"
       \/ fd' = None /\ socket' = "none" /\ UNCHANGED state
    /\ mode' = Interest
    /\ told' = "nothing" /\ since' = 0 /\ nested' = (running = "on_connect")
    /\ input' = FALSE
    /\ UNCHANGED <<active, revents, last_activity, running, now>>

TouchIfNew ==
    IF last_activity = 0 THEN sancus_tcp_conn_touch ELSE UNCHANGED last_activity

sancus_tcp_conn_start ==
    /\ ~active /\ fd >= 0
    /\ active' = TRUE
    /\ TouchIfNew
    /\ UNCHANGED <<fd, mode, revents, state, running, kernel, ghosts>>

\* Stopping a watcher discards what the loop had pending for it.
DropPending == revents' = {}

sancus_tcp_conn_stop ==
    /\ active
    /\ active' = FALSE
    /\ DropPending
    /\ UNCHANGED <<fd, mode, state, last_activity, running, kernel, ghosts>>

MayClose == fd >= 0 /\ ~active

sancus_tcp_conn_close ==
    /\ MayClose
    /\ fd' = None
    /\ socket' = "none" /\ input' = FALSE
    /\ UNCHANGED <<mode, active, revents, state, last_activity, running, now,
                   ghosts>>

----------------------------------------------------------------------------
(* The kernel and the event loop.  A socket in error is both readable and  *)
(* writable.                                                               *)

Ready ==
    (IF socket \in {"refused", "reset"} \/ input THEN {READ} ELSE {})
        \cup (IF socket \in {"none", "connecting"} THEN {} ELSE {WRITE})

\* The loop looks at the socket now and calls io_cb later.
Poll ==
    /\ running = "none" /\ active
    /\ revents = {} /\ Ready \cap mode # {}
    /\ revents' = Ready \cap mode
    /\ UNCHANGED <<fd, mode, active, state, last_activity, running, kernel,
                   ghosts>>

Tick ==
    /\ now < MaxTime
    /\ now' = now + 1
    /\ UNCHANGED <<fd, mode, active, revents, state, last_activity, running,
                   socket, input, ghosts>>

PeerAnswers(outcome) ==
    /\ socket = "connecting"
    /\ socket' = outcome
    /\ UNCHANGED <<fd, mode, active, revents, state, last_activity, running,
                   input, now, ghosts>>

PeerSends ==
    /\ socket = "established" /\ ~input
    /\ input' = TRUE
    /\ UNCHANGED <<fd, mode, active, revents, state, last_activity, running,
                   socket, now, ghosts>>

PeerResets ==
    /\ socket = "established"
    /\ socket' = "reset"
    /\ UNCHANGED <<fd, mode, active, revents, state, last_activity, running,
                   input, now, ghosts>>

----------------------------------------------------------------------------
(* io_cb.                                                                  *)

\* The library could not watch the descriptor: it stops the watcher and
\* reports SANCUS_EV_ERROR.
WatcherError ==
    /\ running = "none" /\ active
    /\ active' = FALSE /\ DropPending
    /\ running' = "on_watcher_error"
    /\ UNCHANGED <<fd, mode, state, last_activity, kernel, ghosts>>

\* What getsockopt(SO_ERROR) finds, if it does not fail itself.
SocketError == socket \in {"refused", "reset"}

ReadOnly == mode' = {READ} /\ revents' = {}

\* connect_done: the watcher is stopped, set up for reading and started.
ConnectDone ==
    /\ ReadOnly
    /\ running' = "on_connect"
    /\ told' = "connected" /\ since' = now
    /\ UNCHANGED <<fd, active, state, last_activity, kernel, attempts, nested>>

SetFailed == state' = "FAILED"

\* CONNECT_ERROR with errno that of the connection, or that of getsockopt():
\* then the application is told of a failure, and not of which.
ConnectFailed(outcome) ==
    /\ SetFailed
    /\ running' = "on_error"
    /\ told' = outcome /\ since' = now
    /\ DropPending
    /\ UNCHANGED <<fd, mode, active, last_activity, kernel, attempts, nested>>

InProgress ==
    /\ state = "INPROGRESS" /\ WRITE \in revents
    /\ \/ (READ \in revents => ~SocketError) /\ ConnectDone
       \/ READ \in revents /\ SocketError /\ ConnectFailed("failed")
       \/ READ \in revents /\ ConnectFailed("unknown")

Connected ==
    /\ state = "CONNECTED" /\ WRITE \in revents
    /\ ConnectDone

Reads ==
    /\ state = "RUNNING"
    /\ running' = IF READ \in revents THEN "on_read" ELSE "none"
    /\ DropPending
    /\ UNCHANGED <<fd, mode, active, state, last_activity, kernel, ghosts>>

io_cb ==
    /\ running = "none" /\ active /\ revents # {}
    /\ InProgress \/ Connected \/ Reads

\* self->state is assigned after on_connect, whatever the callback did.
SetRunning == state' = "RUNNING"

OnConnectReturns ==
    /\ running = "on_connect"
    /\ running' = "none"
    /\ SetRunning
    /\ sancus_tcp_conn_touch
    /\ UNCHANGED <<fd, mode, active, revents, kernel, ghosts>>

\* on_read has read some or all of the input.
OnReadReturns ==
    /\ running = "on_read"
    /\ running' = "none"
    /\ sancus_tcp_conn_touch
    /\ input' \in {input, FALSE}
    /\ UNCHANGED <<fd, mode, active, revents, state, socket, now, ghosts>>

OnErrorReturns ==
    /\ running \in {"on_error", "on_watcher_error"}
    /\ ~(active /\ state = "FAILED")
    /\ running' = "none"
    /\ UNCHANGED <<fd, mode, active, revents, state, last_activity, kernel,
                   ghosts>>

----------------------------------------------------------------------------
\* A failed connection is stopped before anything else is done with it.
Application ==
    \/ init_tcp
    \/ state # "FAILED" /\ sancus_tcp_conn_start
    \/ sancus_tcp_conn_stop
    \/ sancus_tcp_conn_close

CallbackReturns == OnConnectReturns \/ OnReadReturns \/ OnErrorReturns

Kernel ==
    \/ Tick
    \/ \E outcome \in {"established", "refused"} : PeerAnswers(outcome)
    \/ PeerSends
    \/ PeerResets

Next == Application \/ Poll \/ io_cb \/ WatcherError \/ CallbackReturns \/ Kernel

\* The loop polls and dispatches, and the callbacks return.
Fairness ==
    /\ SF_vars(Poll)
    /\ SF_vars(io_cb)
    /\ WF_vars(CallbackReturns)

SafeSpec == Init /\ [][Next]_vars
Spec == SafeSpec /\ Fairness

----------------------------------------------------------------------------
(* Properties.                                                             *)

TypeOK ==
    /\ fd \in Fds \cup {None}
    /\ mode \subseteq {READ, WRITE} /\ revents \subseteq {READ, WRITE}
    /\ active \in BOOLEAN /\ input \in BOOLEAN
    /\ state \in States
    /\ running \in Running
    /\ socket \in {"none", "connecting", "established", "refused", "reset"}
    /\ last_activity \in Nat /\ now \in Nat /\ since \in Nat /\ attempts \in Nat
    /\ told \in {"nothing", "connected", "failed", "unknown"}
    /\ nested \in BOOLEAN

(***************************************************************************)
(* io_cb's assertions hold: it is never called on a failed connection, and *)
(* before on_connect never without EV_WRITE, though the loop may have      *)
(* looked at the socket before the application stopped, closed, reopened   *)
(* or restarted the connection.                                            *)
(***************************************************************************)
AssertsHold ==
    (running = "none" /\ active /\ revents # {}) =>
        /\ state # "FAILED"
        /\ state \in {"INPROGRESS", "CONNECTED"} => WRITE \in revents

(***************************************************************************)
(* What the application is told of an attempt is what happened to it: data *)
(* that arrives before io_cb runs is not taken for a failure, nor a        *)
(* refused connection for an established one.  (When getsockopt() itself   *)
(* fails, io_cb reports a failure without knowing: that is not counted.)   *)
(***************************************************************************)
OutcomeTruthful ==
    fd # None =>
        /\ told = "connected" => socket \in {"established", "reset"}
        /\ told = "failed" => socket \in {"refused", "reset"}

(***************************************************************************)
(* "only reads from now on": an established connection is not watched for  *)
(* writing, which would wake the loop all the time.  The one exception is  *)
(* an attempt made from within on_connect: io_cb overwrites its state when *)
(* on_connect returns, and it goes on as RUNNING with the interest of a    *)
(* connection in progress.                                                 *)
(***************************************************************************)
QuietWhenIdle ==
    (state = "RUNNING" /\ running = "none" /\ active) =>
        mode = {READ} \/ nested

(***************************************************************************)
(* The connection is watched only while its descriptor is open.            *)
(***************************************************************************)
WatchedFdOpen == active => fd >= 0

(***************************************************************************)
(* The clock that sancus_tcp_conn_elapsed counts from is set as soon as a  *)
(* connection is started, never in the future, and no older than the       *)
(* connection once it is running.                                          *)
(***************************************************************************)
ActivityKnown ==
    /\ active => last_activity > 0
    /\ last_activity <= now
    /\ (running = "none" /\ state = "RUNNING") => last_activity >= since

(***************************************************************************)
(* Each attempt has one outcome, on_connect or CONNECT_ERROR, and on_read  *)
(* comes only after on_connect.  Only for an attempt made from within      *)
(* on_connect, RUNNING since that returned, may on_read come first.        *)
(***************************************************************************)
CallbackOrder ==
    [][ running = "none" =>
            /\ running' \in {"on_connect", "on_error"} => told = "nothing"
            /\ running' = "on_read" => told = "connected" \/ nested ]_vars

(***************************************************************************)
(* An attempt the network has decided is reported, unless it is stopped or *)
(* was made from within on_connect.                                        *)
(***************************************************************************)
OutcomeReported ==
    (/\ active /\ ~nested
     /\ told = "nothing" /\ socket \in {"established", "refused"})
        ~> (told # "nothing" \/ ~active)

(***************************************************************************)
(* Input on a running connection reaches on_read, unless it is stopped.    *)
(***************************************************************************)
InputReported ==
    (active /\ state = "RUNNING" /\ input) ~> (running = "on_read" \/ ~active)
============================================================================
