------------------------------- MODULE Logger -------------------------------
(***************************************************************************)
(* Threads that log through the default backend (log_write and             *)
(* fd_logger_write of src/sancus/logger.c, sancus_writev of                *)
(* src/sancus/fd.c) while the descriptor is redirected: the line is built  *)
(* as an I/O vector, then written under a mutex, by a writev() that may    *)
(* take any part of it, be interrupted or fail.                            *)
(*                                                                         *)
(* An element of the vector is a stretch [base, base + len) of the line as *)
(* it would be in one piece, so that what is written can be compared with  *)
(* what should be.                                                         *)
(***************************************************************************)
EXTENDS Integers, Sequences, SequencesExt

CONSTANTS Threads,
          Fds,       \* descriptors the application redirects the log to
          Prelude,   \* length of the time and level that begin a line
          Lengths,   \* lengths of a prefix, a message and extra data
          MaxCalls   \* bound: calls of the logger

None == "none"
NoFd == -1

ASSUME ThreadsAssumption == None \notin Threads
ASSUME FdsAssumption == Fds \subseteq Nat /\ Fds # {}
ASSUME LengthsAssumption == Prelude \in Nat \ {0} /\ Lengths \subseteq Nat
ASSUME MaxCallsAssumption == MaxCalls \in Nat

VARIABLES
    backend,  \* fd_backend_data.fd
    mutex,    \* the thread that has fd_backend_data.mutex, or None
    pc,       \* where each thread is
    call,     \* the call each thread is in, by its number
    iov,      \* sancus_writev's iov, consumed from the front
    fd,       \* its fd
    size,     \* the length of the line of each call
    out,      \* what each descriptor got: the calls in order, with lengths
    intact,   \* the calls all of whose bytes were those of the line
    done      \* the calls that returned a length

shared == <<backend, out>>
vars == <<backend, mutex, pc, call, iov, fd, size, out, intact, done>>

Calls == DOMAIN size

Init ==
    /\ backend \in Fds
    /\ mutex = None
    /\ pc = [t \in Threads |-> "idle"]
    /\ call = [t \in Threads |-> 0]
    /\ iov = [t \in Threads |-> <<>>]
    /\ fd = [t \in Threads |-> NoFd]
    /\ size = <<>>
    /\ out = [f \in Fds |-> <<>>]
    /\ intact = {}
    /\ done = {}

\* The sum of the first k lengths, for every k.
Sums(lens) ==
    LET sum[k \in 0 .. Len(lens)] == IF k = 0 THEN 0 ELSE sum[k - 1] + lens[k]
    IN  sum

\* The bytes in the first k elements of a vector, and in all of it.
Bytes(v) == Sums([i \in 1 .. Len(v) |-> v[i].len])
Total(v) == Bytes(v)[Len(v)]

----------------------------------------------------------------------------
(* Deliberate bugs, used only to show that the properties notice them.     *)

NoLock(t) == TRUE

FailKeepsMutex(t) ==
    /\ pc' = [pc EXCEPT ![t] = "idle"]
    /\ UNCHANGED <<backend, mutex, call, iov, fd, size, out, intact, done>>

----------------------------------------------------------------------------
(* log_write calls the backend if anything is left of the three parts      *)
(* after trimming; the backend joins them with ": " and ends the line.     *)

Parts(plen, mlen, dlen) ==
    LET If(cond, len) == IF cond THEN <<len>> ELSE <<>>
    IN  <<Prelude>>
        \o If(plen > 0, plen) \o If(plen > 0 /\ mlen + dlen > 0, 2)
        \o If(mlen > 0, mlen) \o If(mlen > 0 /\ dlen > 0, 2)
        \o If(dlen > 0, dlen)
        \o <<1>>

\* The parts, laid end to end.
Vector(lens) ==
    [i \in 1 .. Len(lens) |-> [base |-> Sums(lens)[i - 1], len |-> lens[i]]]

log_write(t, plen, mlen, dlen) ==
    /\ pc[t] = "idle"
    /\ plen + mlen + dlen > 0
    /\ Len(size) < MaxCalls
    /\ LET v == Vector(Parts(plen, mlen, dlen))
       IN  /\ iov' = [iov EXCEPT ![t] = v]
           /\ size' = Append(size, Total(v))
    /\ call' = [call EXCEPT ![t] = Len(size')]
    /\ intact' = intact \cup {Len(size')}
    /\ pc' = [pc EXCEPT ![t] = "lock"]
    /\ UNCHANGED <<shared, mutex, fd, done>>

\* pthread_mutex_lock returns once nobody holds the mutex of the backend.
MutexFree(t) == mutex = None

\* The descriptor is read once, with the mutex held.
pthread_mutex_lock(t) ==
    /\ pc[t] = "lock"
    /\ MutexFree(t)
    /\ mutex' = t
    /\ fd' = [fd EXCEPT ![t] = backend]
    /\ pc' = [pc EXCEPT ![t] = "write"]
    /\ UNCHANGED <<shared, call, iov, size, intact, done>>

----------------------------------------------------------------------------
(* sancus_writev.                                                          *)

\* The elements that wc bytes cover entirely.
Whole(v, wc) ==
    CHOOSE k \in 0 .. Len(v) :
        /\ Bytes(v)[k] <= wc
        /\ k < Len(v) => wc < Bytes(v)[k + 1]

\* The element that is cut is moved on by all that was written, not by what
\* was written of it.
Consume(v, wc) ==
    LET k == Whole(v, wc)
        n == wc - Bytes(v)[k]
        rest == SubSeq(v, k + 1, Len(v))
    IN  IF n = 0 THEN rest
        ELSE [rest EXCEPT ![1] = [base |-> @.base + wc, len |-> @.len - n]]

\* Where each of the first wc bytes of the vector is read from.
Sources(v, wc) ==
    SubSeq(FlattenSeq([i \in 1 .. Len(v) |->
                         [j \in 1 .. v[i].len |-> v[i].base + j - 1]]), 1, wc)

\* A descriptor gets wc more bytes of a call.
Got(o, c, wc) ==
    IF o # <<>> /\ o[Len(o)].call = c
    THEN [o EXCEPT ![Len(o)].n = @ + wc]
    ELSE Append(o, [call |-> c, n |-> wc])

Written(t, wc) ==
    LET v == iov[t]
        c == call[t]
        from == size[c] - Total(v)
    IN  /\ pc[t] = "write" /\ v # <<>>
        /\ iov' = [iov EXCEPT ![t] = Consume(v, wc)]
        /\ out' = [out EXCEPT ![fd[t]] = Got(@, c, wc)]
        /\ intact' = IF Sources(v, wc) = [j \in 1 .. wc |-> from + j - 1]
                     THEN intact ELSE intact \ {c}
        /\ UNCHANGED <<backend, mutex, pc, call, fd, size, done>>

\* A signal: writev() is called again.
Interrupted(t) == pc[t] = "write" /\ iov[t] # <<>> /\ UNCHANGED vars

FailEnds(t) ==
    /\ pc' = [pc EXCEPT ![t] = "unlock"]
    /\ UNCHANGED <<backend, mutex, call, iov, fd, size, out, intact, done>>

Fails(t) ==
    /\ pc[t] = "write" /\ iov[t] # <<>>
    /\ FailEnds(t)

Complete(t) ==
    /\ pc[t] = "write" /\ iov[t] = <<>>
    /\ pc' = [pc EXCEPT ![t] = "unlock"]
    /\ done' = done \cup {call[t]}
    /\ UNCHANGED <<shared, mutex, call, iov, fd, size, intact>>

\* Also the return from the call.
pthread_mutex_unlock(t) ==
    /\ pc[t] = "unlock"
    /\ mutex' = None
    /\ pc' = [pc EXCEPT ![t] = "idle"]
    /\ iov' = [iov EXCEPT ![t] = <<>>]
    /\ fd' = [fd EXCEPT ![t] = NoFd]
    /\ call' = [call EXCEPT ![t] = 0]
    /\ UNCHANGED <<shared, size, intact, done>>

sancus_logger_set_fd_backend(f) ==
    /\ backend' = f
    /\ UNCHANGED <<mutex, pc, call, iov, fd, size, out, intact, done>>

----------------------------------------------------------------------------
Progress(t) ==
    \/ \E wc \in 1 .. Total(iov[t]) : Written(t, wc)
    \/ Fails(t)
    \/ Complete(t)

Next ==
    \/ \E t \in Threads :
          \/ \E plen, mlen, dlen \in Lengths : log_write(t, plen, mlen, dlen)
          \/ pthread_mutex_lock(t)
          \/ Progress(t)
          \/ Interrupted(t)
          \/ pthread_mutex_unlock(t)
    \/ \E f \in Fds : sancus_logger_set_fd_backend(f)

\* Threads run, the mutex is handed out fairly, and writev() is not
\* interrupted for ever.
Fairness ==
    \A t \in Threads :
        /\ SF_vars(pthread_mutex_lock(t))
        /\ WF_vars(Progress(t))
        /\ WF_vars(pthread_mutex_unlock(t))

SafeSpec == Init /\ [][Next]_vars
Spec == SafeSpec /\ Fairness

----------------------------------------------------------------------------
(* Properties.                                                             *)

TypeOK ==
    /\ backend \in Fds /\ mutex \in Threads \cup {None}
    /\ pc \in [Threads -> {"idle", "lock", "write", "unlock"}]
    /\ call \in [Threads -> 0 .. MaxCalls]
    /\ \A t \in Threads : \A i \in 1 .. Len(iov[t]) :
          iov[t][i].base \in Nat /\ iov[t][i].len \in Nat \ {0}
    /\ fd \in [Threads -> Fds \cup {NoFd}]
    /\ size \in Seq(Nat)
    /\ \A f \in Fds : out[f] \in Seq([call : Calls, n : Nat])
    /\ intact \subseteq Calls /\ done \subseteq Calls

(***************************************************************************)
(* A line is written in one piece: to one descriptor, with nothing of      *)
(* another thread's line inside it, though it may take several writev()    *)
(* calls and the log may be redirected meanwhile; and a call that reports  *)
(* success has written as many bytes as the line has.                      *)
(***************************************************************************)
LinesWhole ==
    LET places(c) == {x \in Fds \X (1 .. MaxCalls) :
                        x[2] <= Len(out[x[1]]) /\ out[x[1]][x[2]].call = c}
    IN  /\ \A f \in Fds : Len(out[f]) <= MaxCalls
        /\ \A c \in Calls : \A x, y \in places(c) : x = y
        /\ \A c \in done : \E x \in places(c) : out[x[1]][x[2]].n = size[c]

(***************************************************************************)
(* Every call of the logger returns, whatever writev() answers.            *)
(***************************************************************************)
CallsReturn == \A t \in Threads : pc[t] = "lock" ~> pc[t] = "idle"

(***************************************************************************)
(* "consume accordingly": after a writev() that took part of the vector,   *)
(* sancus_writev goes on where it stopped, so that what is written is the  *)
(* line.                                                                   *)
(***************************************************************************)
LineIntact == intact = Calls
=============================================================================
