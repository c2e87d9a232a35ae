-------------------------- MODULE TcpServerProofs --------------------------
(***************************************************************************)
(* The server's descriptors, for any number of descriptors, any backlog    *)
(* and any event flags.                                                    *)
(***************************************************************************)
EXTENDS TcpServer, WellFoundedInduction, TLAPS

(***************************************************************************)
(* OneOwner and WatchedFdOpen hold together with the fact that connect_cb  *)
(* holds a descriptor exactly while on_connect runs: without it a callback *)
(* that returns could hand the application, or close, what is not there.   *)
(***************************************************************************)
ConnHeld == (running = "on_connect") <=> (conn # None)

IInv == TypeOK /\ OneOwner /\ WatchedFdOpen /\ ConnHeld

----------------------------------------------------------------------------
(***************************************************************************)
(* The kernel's choice of a descriptor is one of the free ones: a set of   *)
(* numbers that is not empty has a least member.                           *)
(***************************************************************************)
LEMMA LowestLemma ==
  ASSUME NEW S \in SUBSET (0 .. MaxFd), S # {}
  PROVE  Lowest(S) \in S
<1>1. S \subseteq Nat
  BY LimitsAssumption
<1>2. PICK f \in S : \A g \in S : <<g, f>> \notin OpToRel(<, Nat)
  BY <1>1, NatLessThanWellFounded, WFMin
<1>3. \A g, h \in Nat : g < h => <<g, h>> \in OpToRel(<, Nat)
  BY DEF OpToRel
<1>4. \A g \in S : ~ (g < f)
  BY <1>1, <1>2, <1>3
<1>5. \A g \in S : f <= g
  BY <1>1, <1>4
<1> QED BY <1>5 DEF Lowest

(***************************************************************************)
(* A new descriptor is in range and belonged to nobody.                    *)
(***************************************************************************)
LEMMA FreshLemma ==
  ASSUME IInv, Free # {}
  PROVE  /\ Lowest(Free) \in 0 .. MaxFd
         /\ Lowest(Free) \notin table \cup owned \cup {fd, conn}
<1>1. Lowest(Free) \in Free
  BY LowestLemma DEF Free
<1> QED BY <1>1 DEF Free, IInv, TypeOK, OneOwner, None

(***************************************************************************)
(* The invariant holds at the start.                                       *)
(***************************************************************************)
LEMMA InitStep == Init => IInv
<1> SUFFICES ASSUME Init PROVE IInv
  OBVIOUS
<1>1. TypeOK
  <2>1. active \in BOOLEAN
    BY Zenon DEF Init
  <2>2. waiting \in 0 .. Backlog
    BY LimitsAssumption DEF Init
  <2> QED BY <2>1, <2>2 DEF Init, TypeOK
<1>2. OneOwner
  BY DEF Init, OneOwner, None
<1>3. WatchedFdOpen /\ ConnHeld
  BY DEF Init, WatchedFdOpen, ConnHeld
<1> QED BY <1>1, <1>2, <1>3 DEF IInv

(***************************************************************************)
(* The application's operations on the server keep it.                     *)
(***************************************************************************)
LEMMA ServerStep ==
  ASSUME IInv,
         \/ init_tcp \/ sancus_tcp_server_start
         \/ sancus_tcp_server_stop \/ sancus_tcp_server_close
  PROVE  IInv'
<1> USE DEF IInv, TypeOK, OneOwner, WatchedFdOpen, ConnHeld, None
<1>1. CASE init_tcp
  <2>1. PICK new \in 0 .. MaxFd :
           /\ new \notin table \cup owned \cup {conn}
           /\ Listens(new) \/ BindFails(new)
    BY <1>1, FreshLemma DEF init_tcp
  <2>2. CASE Listens(new)
    BY <1>1, <2>1, <2>2, LimitsAssumption DEF init_tcp, Listens
  <2>3. CASE BindFails(new)
    BY <1>1, <2>3, LimitsAssumption DEF init_tcp, BindFails
  <2> QED BY <2>1, <2>2, <2>3
<1>2. CASE sancus_tcp_server_start
  BY <1>2 DEF sancus_tcp_server_start
<1>3. CASE sancus_tcp_server_stop
  BY <1>3 DEF sancus_tcp_server_stop
<1>4. CASE sancus_tcp_server_close
  BY <1>4, LimitsAssumption DEF sancus_tcp_server_close
<1> QED BY <1>1, <1>2, <1>3, <1>4

(***************************************************************************)
(* So do the loop, the callback and its returns.                           *)
(***************************************************************************)
LEMMA CallbackStep ==
  ASSUME IInv,
         \/ Poll \/ connect_cb \/ OnErrorReturns
         \/ \E keep \in BOOLEAN : OnConnectReturns(keep)
  PROVE  IInv'
<1> USE DEF IInv, TypeOK, OneOwner, WatchedFdOpen, ConnHeld, None
<1>1. CASE Poll
  BY <1>1 DEF Poll
<1>2. CASE connect_cb
  <2>1. CASE AcceptFails
    BY <1>2, <2>1 DEF connect_cb, AcceptFails
  <2>2. CASE waiting > 0 /\ Free # {} /\ Accepted(Lowest(Free))
    <3>1. PICK new \in 0 .. MaxFd :
             new \notin table \cup owned \cup {fd} /\ Accepted(new)
      BY <2>2, FreshLemma
    <3> QED BY <1>2, <2>2, <3>1, LimitsAssumption DEF connect_cb, Accepted
  <2>3. CASE UNCHANGED <<running, conn, table, waiting>>
    BY <1>2, <2>3 DEF connect_cb
  <2> QED BY <1>2, <2>1, <2>2, <2>3 DEF connect_cb
<1>3. CASE OnErrorReturns
  BY <1>3 DEF OnErrorReturns
<1>4. CASE \E keep \in BOOLEAN : OnConnectReturns(keep)
  <2>1. running = "on_connect" /\ conn # None /\ (Kept \/ Refused)
    BY <1>4 DEF OnConnectReturns
  <2>2. CASE Kept
    BY <1>4, <2>1, <2>2 DEF OnConnectReturns, Kept
  <2>3. CASE Refused
    BY <1>4, <2>1, <2>3 DEF OnConnectReturns, Refused
  <2> QED BY <2>1, <2>2, <2>3
<1> QED BY <1>1, <1>2, <1>3, <1>4

(***************************************************************************)
(* So do the application's own descriptors and the clients.                *)
(***************************************************************************)
LEMMA OutsideStep ==
  ASSUME IInv,
         \/ \E f \in 0 .. MaxFd : CloseOwned(f)
         \/ ClientConnects \/ ClientLeaves
  PROVE  IInv'
<1> USE DEF IInv, TypeOK, OneOwner, WatchedFdOpen, ConnHeld, None
<1>1. CASE \E f \in 0 .. MaxFd : CloseOwned(f)
  BY <1>1 DEF CloseOwned
<1>2. CASE ClientConnects
  BY <1>2, LimitsAssumption DEF ClientConnects
<1>3. CASE ClientLeaves
  BY <1>3, LimitsAssumption DEF ClientLeaves
<1> QED BY <1>1, <1>2, <1>3

(***************************************************************************)
(* The inductive invariant of the server.                                  *)
(***************************************************************************)
THEOREM ServerInvariant == SafeSpec => []IInv
<1>1. IInv /\ [Next]_vars => IInv'
  <2> SUFFICES ASSUME IInv, [Next]_vars PROVE IInv'
    OBVIOUS
  <2>1. CASE UNCHANGED vars
    BY <2>1 DEF vars, IInv, TypeOK, OneOwner, WatchedFdOpen, ConnHeld
  <2>2. CASE Next
    BY <2>2, ServerStep, CallbackStep, OutsideStep DEF Next
  <2> QED BY <2>1, <2>2
<1> QED BY <1>1, InitStep, PTL DEF SafeSpec

(***************************************************************************)
(* The variables have their types.  In particular the kernel's queue never *)
(* counts below zero, whatever leaves it: a client, accept() or a close.   *)
(***************************************************************************)
THEOREM TypeCorrect == SafeSpec => []TypeOK
  BY ServerInvariant, PTL DEF IInv

(***************************************************************************)
(* Every open descriptor has one owner, through failed binds, refused      *)
(* connections and a server closed or reopened by its own callbacks.       *)
(***************************************************************************)
THEOREM DescriptorsOwned == SafeSpec => []OneOwner
  BY ServerInvariant, PTL DEF IInv

(***************************************************************************)
(* The loop watches the listening descriptor only while it is open, so     *)
(* that connect_cb's assertion cannot fail.                                *)
(***************************************************************************)
THEOREM WatchesOpen == SafeSpec => []WatchedFdOpen
  BY ServerInvariant, PTL DEF IInv
============================================================================
