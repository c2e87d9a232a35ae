--------------------------- MODULE TcpConnProofs ---------------------------
(***************************************************************************)
(* The connection's life cycle, for any descriptors and however long the   *)
(* clock runs and the application goes on connecting.                      *)
(***************************************************************************)
EXTENDS TcpConn, TLAPS

(***************************************************************************)
(* While a descriptor is open, the state, the callback that runs and the   *)
(* watcher's mode say together what the application has been told, and the *)
(* socket agrees.  An attempt made from within on_connect is RUNNING once  *)
(* that returns and is told of nothing.                                    *)
(***************************************************************************)
Untold ==
    (fd # None /\ told = "nothing") =>
        /\ state = "RUNNING" \/ running = "on_connect" => nested
        /\ state # "FAILED"
        /\ mode = {READ, WRITE}
        /\ state = "CONNECTED" => socket \in {"established", "reset"}

ToldConnected ==
    (fd # None /\ told = "connected") =>
        /\ state = "RUNNING" \/ running = "on_connect"
        /\ mode = {READ}
        /\ socket \in {"established", "reset"}

ToldFailed ==
    (fd # None /\ told \in {"failed", "unknown"}) =>
        /\ state = "FAILED"
        /\ told = "failed" => socket \in {"refused", "reset"}

Nested ==
    nested => /\ told = "nothing"
              /\ state = "RUNNING" \/ running = "on_connect" \/ fd = None

\* on_connect runs before the state says so, and a failed connection is not
\* watched once on_error has returned.
CallbackState ==
    /\ running = "on_connect" => state \in {"INPROGRESS", "CONNECTED"}
    /\ state = "FAILED" => running = "on_error" \/ (running = "none" /\ ~active)

\* Input comes on an established connection only.
SocketKnown ==
    /\ fd = None <=> socket = "none"
    /\ input => socket \in {"established", "reset"}

\* What the loop saw before io_cb runs: the outcome was known, and until it
\* is told EV_WRITE is there, with EV_READ if the connection was refused.
SeenKnown ==
    revents # {} =>
        /\ active
        /\ socket \notin {"none", "connecting"}
        /\ state # "FAILED"
        /\ told = "nothing" => WRITE \in revents
        /\ (told = "nothing" /\ socket = "refused") => READ \in revents

ClockKnown ==
    /\ now > 0 /\ last_activity <= now /\ since <= now
    /\ active => last_activity > 0
    /\ state = "RUNNING" => last_activity >= since

ControlInv ==
    /\ active => fd # None
    /\ Untold /\ ToldConnected /\ ToldFailed /\ Nested
    /\ CallbackState /\ SocketKnown /\ SeenKnown

IInv == TypeOK /\ ControlInv /\ ClockKnown

----------------------------------------------------------------------------
(***************************************************************************)
(* The invariant holds of a zeroed connection.                             *)
(***************************************************************************)
LEMMA InitStep == Init => IInv
<1> SUFFICES ASSUME Init PROVE IInv
  OBVIOUS
<1>1. active \in BOOLEAN /\ input \in BOOLEAN /\ nested \in BOOLEAN
  BY Zenon DEF Init
<1>2. TypeOK
  BY <1>1 DEF Init, TypeOK, States, Running
<1>3. ControlInv
  BY DEF Init, ControlInv, Untold, ToldConnected, ToldFailed, Nested,
         CallbackState, SocketKnown, SeenKnown
<1>4. ClockKnown
  BY DEF Init, ClockKnown
<1> QED BY <1>2, <1>3, <1>4 DEF IInv

(***************************************************************************)
(* What each action may do to the variables' types.                        *)
(***************************************************************************)
LEMMA TypeStep == TypeOK /\ Next => TypeOK'
<1> SUFFICES ASSUME TypeOK, Next PROVE TypeOK'
  OBVIOUS
<1> USE DEF TypeOK, States, Running, None, READ, WRITE, kernel, ghosts,
        sancus_tcp_conn_touch
<1>1. CASE init_tcp
  <2>1. active' \in BOOLEAN /\ input' \in BOOLEAN /\ nested' \in BOOLEAN
    BY <1>1, Zenon DEF init_tcp
  <2>2. fd' \in Fds \cup {None} /\ state' \in States
    BY <1>1 DEF init_tcp
  <2> QED BY <1>1, <2>1, <2>2 DEF init_tcp, Interest
<1>2. CASE sancus_tcp_conn_start
  BY <1>2 DEF sancus_tcp_conn_start, TouchIfNew
<1>3. CASE sancus_tcp_conn_stop
  BY <1>3 DEF sancus_tcp_conn_stop, DropPending
<1>4. CASE sancus_tcp_conn_close
  BY <1>4 DEF sancus_tcp_conn_close, MayClose
<1>5. CASE Poll
  BY <1>5 DEF Poll
<1>6. CASE io_cb
  <2>1. CASE ConnectDone
    BY <2>1 DEF ConnectDone, ReadOnly
  <2>2. CASE \E outcome \in {"failed", "unknown"} : ConnectFailed(outcome)
    BY <2>2 DEF ConnectFailed, SetFailed, DropPending
  <2>3. CASE Reads
    BY <2>3 DEF Reads, DropPending
  <2> QED BY <1>6, <2>1, <2>2, <2>3 DEF io_cb, InProgress, Connected
<1>7. CASE WatcherError
  BY <1>7 DEF WatcherError, DropPending
<1>8. CASE CallbackReturns
  <2>1. CASE OnConnectReturns
    BY <2>1 DEF OnConnectReturns, SetRunning
  <2>2. CASE OnReadReturns
    BY <2>2 DEF OnReadReturns
  <2>3. CASE OnErrorReturns
    BY <2>3 DEF OnErrorReturns
  <2> QED BY <1>8, <2>1, <2>2, <2>3 DEF CallbackReturns
<1>9. CASE Kernel
  <2>1. active' \in BOOLEAN /\ input' \in BOOLEAN
    BY <1>9, Zenon DEF Kernel, Tick, PeerAnswers, PeerSends, PeerResets
  <2>2. CASE Tick
    BY <2>1, <2>2 DEF Tick
  <2>3. CASE \E outcome \in {"established", "refused"} : PeerAnswers(outcome)
    BY <2>1, <2>3 DEF PeerAnswers
  <2>4. CASE PeerSends
    BY <2>1, <2>4 DEF PeerSends
  <2>5. CASE PeerResets
    BY <2>1, <2>5 DEF PeerResets
  <2> QED BY <1>9, <2>2, <2>3, <2>4, <2>5 DEF Kernel
<1> QED BY <1>1, <1>2, <1>3, <1>4, <1>5, <1>6, <1>7, <1>8, <1>9
        DEF Next, Application

(***************************************************************************)
(* What the loop sees of a watched connection is what became of it: before *)
(* the application is told, EV_WRITE and, of a refused one, EV_READ.       *)
(***************************************************************************)
LEMMA PollStep == TypeOK /\ ControlInv /\ Poll => ControlInv'
<1> SUFFICES ASSUME TypeOK, ControlInv, Poll PROVE ControlInv'
  OBVIOUS
<1> USE DEF ControlInv, CallbackState, None
<1>1. active /\ running = "none" /\ state # "FAILED" /\ fd # None
  BY Zenon DEF Poll
<1>2. socket # "none" /\ revents' = Ready \cap mode /\ revents' # {}
  BY <1>1 DEF Poll, SocketKnown
<1>3. socket # "connecting"
  BY <1>2 DEF Ready, SocketKnown
<1>4. WRITE \in Ready
  BY <1>2, <1>3 DEF Ready
<1>5. socket = "refused" => READ \in Ready
  BY DEF Ready
<1>6. told = "nothing" => mode = {READ, WRITE}
  BY <1>1 DEF Untold
<1>7. SeenKnown'
  BY <1>1, <1>2, <1>3, <1>4, <1>5, <1>6 DEF SeenKnown, Poll, kernel, ghosts
<1> QED BY <1>7 DEF Poll, kernel, ghosts, Untold, ToldConnected, ToldFailed,
                    Nested, SocketKnown

(***************************************************************************)
(* io_cb reports what is so: it finds the connection in a state that       *)
(* agrees with what was told, and takes the branch the socket is in.       *)
(***************************************************************************)
LEMMA IoStep == TypeOK /\ ControlInv /\ io_cb => ControlInv'
<1> SUFFICES ASSUME TypeOK, ControlInv, io_cb PROVE ControlInv'
  OBVIOUS
<1> USE DEF ControlInv, CallbackState, None
<1>1. active /\ running = "none" /\ revents # {} /\ fd # None
  BY DEF io_cb
<1>2. socket \notin {"none", "connecting"} /\ state # "FAILED"
  BY <1>1 DEF SeenKnown
<1>3. CASE InProgress
  <2>1. state = "INPROGRESS" /\ told = "nothing" /\ ~nested
    BY <1>1, <1>3 DEF InProgress, ToldConnected, ToldFailed, Nested, TypeOK
  <2>2. ASSUME NEW outcome \in {"failed", "unknown"}, ConnectFailed(outcome),
               outcome = "failed" => SocketError
        PROVE  ControlInv'
    BY <1>1, <1>2, <2>1, <2>2
    DEF ConnectFailed, SetFailed, DropPending, SocketError, kernel, Untold,
        ToldConnected, ToldFailed, Nested, SocketKnown, SeenKnown
  <2>3. CASE ConnectDone /\ ~(READ \in revents /\ SocketError)
    <3>1. socket \in {"established", "reset"}
      BY <1>1, <1>2, <2>1, <2>3 DEF SeenKnown, SocketError, TypeOK
    <3> QED BY <1>1, <2>1, <2>3, <3>1
            DEF ConnectDone, ReadOnly, kernel, Untold, ToldConnected,
                ToldFailed, Nested, SocketKnown, SeenKnown
  <2>4. \/ ConnectFailed("failed") /\ SocketError
        \/ ConnectFailed("unknown")
        \/ ConnectDone /\ ~(READ \in revents /\ SocketError)
    BY <1>3, Zenon DEF InProgress
  <2> QED BY <2>2, <2>3, <2>4
<1>4. CASE Connected
  <2>1. told = "nothing" /\ ~nested
    BY <1>1, <1>4 DEF Connected, ToldConnected, ToldFailed, Nested, TypeOK
  <2>2. socket \in {"established", "reset"}
    BY <1>1, <1>4, <2>1 DEF Connected, Untold
  <2> QED BY <1>1, <1>4, <2>1, <2>2
          DEF Connected, ConnectDone, ReadOnly, kernel, Untold, ToldConnected,
              ToldFailed, Nested, SocketKnown, SeenKnown
<1>5. CASE Reads
  BY <1>1, <1>5
  DEF Reads, DropPending, kernel, ghosts, Untold, ToldConnected,
      ToldFailed, Nested, SocketKnown, SeenKnown
<1> QED BY <1>3, <1>4, <1>5 DEF io_cb

(***************************************************************************)
(* Every step keeps the control part of the invariant.                     *)
(***************************************************************************)
LEMMA ControlStep == TypeOK /\ ControlInv /\ Next => ControlInv'
<1> SUFFICES ASSUME TypeOK, ControlInv, Next PROVE ControlInv'
  OBVIOUS
<1> USE DEF ControlInv, Untold, ToldConnected, ToldFailed, Nested, CallbackState,
        SocketKnown, SeenKnown, TypeOK, None, kernel, ghosts
<1>1. CASE init_tcp
  <2>1. (nested' => running = "on_connect") /\ (running = "on_connect" => nested')
    BY <1>1, Zenon DEF init_tcp
  <2>2. told' = "nothing" /\ mode' = {READ, WRITE} /\ running' = running
    BY <1>1 DEF init_tcp, Interest
  <2>3. ~active' /\ revents' = {} /\ ~input'
    BY <1>1, Zenon DEF init_tcp
  <2>4. fd' # None =>
           \/ state' = "INPROGRESS" /\ socket' = "connecting"
           \/ state' = "CONNECTED" /\ socket' = "established"
    BY <1>1 DEF init_tcp
  <2>5. fd' = None => state' = state /\ socket' = "none"
    BY <1>1, FdsAssumption DEF init_tcp
  <2>6. running = "on_connect" => state' \in {"INPROGRESS", "CONNECTED"}
    BY <2>4, <2>5
  <2> QED BY <2>1, <2>2, <2>3, <2>4, <2>5, <2>6
<1>2. CASE state # "FAILED" /\ sancus_tcp_conn_start
  BY <1>2 DEF sancus_tcp_conn_start
<1>3. CASE sancus_tcp_conn_stop
  BY <1>3 DEF sancus_tcp_conn_stop, DropPending
<1>4. CASE sancus_tcp_conn_close
  BY <1>4 DEF sancus_tcp_conn_close, MayClose
<1>5. CASE Poll
  BY <1>5, PollStep
<1>6. CASE io_cb
  BY <1>6, IoStep
<1>7. CASE WatcherError
  BY <1>7 DEF WatcherError, DropPending
<1>8. CASE CallbackReturns
  <2>1. CASE OnConnectReturns
    BY <2>1 DEF OnConnectReturns, SetRunning
  <2>2. CASE OnReadReturns
    <3>1. input' => input
      BY <2>2, Zenon DEF OnReadReturns
    <3> QED BY <2>2, <3>1 DEF OnReadReturns
  <2>3. CASE OnErrorReturns
    BY <2>3 DEF OnErrorReturns
  <2> QED BY <1>8, <2>1, <2>2, <2>3 DEF CallbackReturns
<1>9. CASE Kernel
  <2>1. CASE Tick
    BY <2>1 DEF Tick
  <2>2. CASE \E outcome \in {"established", "refused"} : PeerAnswers(outcome)
    BY <2>2 DEF PeerAnswers
  <2>3. CASE PeerSends
    BY <2>3 DEF PeerSends
  <2>4. CASE PeerResets
    BY <2>4 DEF PeerResets
  <2> QED BY <1>9, <2>1, <2>2, <2>3, <2>4 DEF Kernel
<1> QED BY <1>1, <1>2, <1>3, <1>4, <1>5, <1>6, <1>7, <1>8, <1>9
        DEF Next, Application

(***************************************************************************)
(* And the clock part: last_activity is set by a start and by on_connect's *)
(* return, and nothing turns it back.                                      *)
(***************************************************************************)
LEMMA ClockStep == TypeOK /\ ControlInv /\ ClockKnown /\ Next => ClockKnown'
<1> SUFFICES ASSUME TypeOK, ControlInv, ClockKnown, Next PROVE ClockKnown'
  OBVIOUS
<1> USE DEF ClockKnown, TypeOK, kernel, ghosts, sancus_tcp_conn_touch
<1>1. CASE init_tcp
  BY <1>1 DEF init_tcp
<1>2. CASE sancus_tcp_conn_start
  BY <1>2 DEF sancus_tcp_conn_start, TouchIfNew
<1>3. CASE sancus_tcp_conn_stop
  BY <1>3 DEF sancus_tcp_conn_stop
<1>4. CASE sancus_tcp_conn_close
  BY <1>4 DEF sancus_tcp_conn_close
<1>5. CASE Poll
  BY <1>5 DEF Poll
<1>6. CASE io_cb
  <2>1. CASE ConnectDone /\ state # "RUNNING"
    BY <2>1 DEF ConnectDone
  <2>2. CASE \E outcome \in {"failed", "unknown"} : ConnectFailed(outcome)
    BY <2>2 DEF ConnectFailed, SetFailed
  <2>3. CASE Reads
    BY <2>3 DEF Reads
  <2>4. \/ ConnectDone /\ state # "RUNNING"
        \/ \E outcome \in {"failed", "unknown"} : ConnectFailed(outcome)
        \/ Reads
    BY <1>6 DEF io_cb, InProgress, Connected
  <2> QED BY <2>1, <2>2, <2>3, <2>4
<1>7. CASE WatcherError
  BY <1>7 DEF WatcherError
<1>8. CASE CallbackReturns
  <2>1. CASE OnConnectReturns
    BY <2>1 DEF OnConnectReturns
  <2>2. CASE OnReadReturns
    BY <2>2 DEF OnReadReturns
  <2>3. CASE OnErrorReturns
    BY <2>3 DEF OnErrorReturns
  <2> QED BY <1>8, <2>1, <2>2, <2>3 DEF CallbackReturns
<1>9. CASE Kernel
  BY <1>9 DEF Kernel, Tick, PeerAnswers, PeerSends, PeerResets
<1> QED BY <1>1, <1>2, <1>3, <1>4, <1>5, <1>6, <1>7, <1>8, <1>9
        DEF Next, Application

----------------------------------------------------------------------------
(***************************************************************************)
(* The inductive invariant of the connection.                              *)
(***************************************************************************)
THEOREM ConnInvariant == SafeSpec => []IInv
<1>1. IInv /\ [Next]_vars => IInv'
  <2> SUFFICES ASSUME IInv, [Next]_vars PROVE IInv'
    OBVIOUS
  <2>1. CASE UNCHANGED vars
    BY <2>1 DEF vars, IInv, TypeOK, ControlInv, Untold, ToldConnected,
      ToldFailed, Nested, CallbackState, SocketKnown, SeenKnown, ClockKnown
  <2>2. CASE Next
    BY <2>2, TypeStep, ControlStep, ClockStep DEF IInv
  <2> QED BY <2>1, <2>2
<1> QED BY <1>1, InitStep, PTL DEF SafeSpec

(***************************************************************************)
(* The variables have their types, however often the application connects. *)
(***************************************************************************)
THEOREM TypeCorrect == SafeSpec => []TypeOK
  BY ConnInvariant, PTL DEF IInv

(***************************************************************************)
(* io_cb's assertions cannot fail: not on a connection stopped, closed or  *)
(* reopened between the loop's look at the socket and the callback.        *)
(***************************************************************************)
THEOREM AssertionsHold == SafeSpec => []AssertsHold
<1>1. IInv => AssertsHold
  <2> SUFFICES ASSUME IInv, running = "none", active, revents # {}
               PROVE  /\ state # "FAILED"
                      /\ state \in {"INPROGRESS", "CONNECTED"}
                            => WRITE \in revents
    BY DEF AssertsHold
  <2> QED BY DEF IInv, TypeOK, ControlInv, ToldConnected, ToldFailed,
                 SeenKnown
<1> QED BY <1>1, ConnInvariant, PTL

(***************************************************************************)
(* The application is told of each attempt what became of it.              *)
(***************************************************************************)
THEOREM TellsTheTruth == SafeSpec => []OutcomeTruthful
<1>1. IInv => OutcomeTruthful
  BY DEF IInv, ControlInv, ToldConnected, ToldFailed, OutcomeTruthful
<1> QED BY <1>1, ConnInvariant, PTL

(***************************************************************************)
(* Once it runs the connection is watched for reading only, an attempt     *)
(* made from within on_connect excepted.                                   *)
(***************************************************************************)
THEOREM QuietOnceRunning == SafeSpec => []QuietWhenIdle
<1>1. IInv => QuietWhenIdle
  BY DEF IInv, TypeOK, ControlInv, Untold, ToldConnected, ToldFailed,
         QuietWhenIdle
<1> QED BY <1>1, ConnInvariant, PTL

(***************************************************************************)
(* The watched descriptor is open.                                         *)
(***************************************************************************)
THEOREM WatchesOpen == SafeSpec => []WatchedFdOpen
<1>1. IInv => WatchedFdOpen
  BY FdsAssumption DEF IInv, TypeOK, ControlInv, WatchedFdOpen, None
<1> QED BY <1>1, ConnInvariant, PTL

(***************************************************************************)
(* sancus_tcp_conn_elapsed counts from a time that was set, is past, and   *)
(* is no older than the connection.                                        *)
(***************************************************************************)
THEOREM ActivityRecorded == SafeSpec => []ActivityKnown
<1>1. IInv => ActivityKnown
  BY DEF IInv, ClockKnown, ActivityKnown
<1> QED BY <1>1, ConnInvariant, PTL

(***************************************************************************)
(* An attempt has one outcome, and on_read comes after on_connect only,    *)
(* except for an attempt on_connect itself made.                           *)
(***************************************************************************)
THEOREM CallbacksInOrder == SafeSpec => CallbackOrder
<1> DEFINE Ordered ==
       running = "none" =>
            /\ running' \in {"on_connect", "on_error"} => told = "nothing"
            /\ running' = "on_read" => told = "connected" \/ nested
<1>1. ASSUME IInv, Next PROVE Ordered
  <2> SUFFICES ASSUME running = "none",
                      running' \in {"on_connect", "on_error", "on_read"}
               PROVE  /\ running' \in {"on_connect", "on_error"}
                            => told = "nothing"
                      /\ running' = "on_read" => told = "connected" \/ nested
    OBVIOUS
  <2>1. io_cb
    BY <1>1 DEF Next, Application, init_tcp, sancus_tcp_conn_start,
      sancus_tcp_conn_stop, sancus_tcp_conn_close, Poll, WatcherError,
      CallbackReturns, OnConnectReturns, OnReadReturns, OnErrorReturns,
      Kernel, Tick, PeerAnswers, PeerSends, PeerResets
  <2>2. fd # None /\ told \in {"nothing", "connected", "failed", "unknown"}
    BY <1>1, <2>1 DEF io_cb, IInv, ControlInv, TypeOK
  <2>3. CASE InProgress \/ Connected
    BY <1>1, <2>2, <2>3
    DEF InProgress, Connected, ConnectDone, ConnectFailed, IInv, ControlInv,
        ToldConnected, ToldFailed
  <2>4. CASE Reads
    BY <1>1, <2>2, <2>4 DEF Reads, IInv, ControlInv, Untold, ToldFailed
  <2> QED BY <2>1, <2>3, <2>4 DEF io_cb
<1>2. IInv /\ [Next]_vars => [Ordered]_vars
  BY <1>1
<1> QED BY <1>2, ConnInvariant, PTL DEF SafeSpec, CallbackOrder
============================================================================
