---------------------------- MODULE ByteChannel ----------------------------
(***************************************************************************)
(* What a stream promises the application, with no buffer, watcher or      *)
(* callback in sight: a queue of numbered bytes that grows at one end      *)
(* while the channel is open and is disposed of at the other, in order and *)
(* by as many bytes as the application asked for.                          *)
(***************************************************************************)
EXTENDS Naturals, Sequences

VARIABLES open,     \* the channel has its descriptor
          window,   \* the bytes the application is shown
          arrived,  \* the number of the last byte that arrived
          asked     \* how many the application last asked to dispose of

channel == <<open, window, arrived, asked>>

ChannelInit == open = TRUE /\ window = <<>> /\ arrived = 0 /\ asked = 0

Arrive ==
    /\ open
    /\ arrived' > arrived
    /\ window' = window \o [i \in 1 .. arrived' - arrived |-> arrived + i]
    /\ UNCHANGED <<open, asked>>

\* All there is, if that is less.
Dispose ==
    /\ asked' > 0
    /\ window' = SubSeq(window, asked' + 1, Len(window))
    /\ UNCHANGED <<open, arrived>>

Shut ==
    /\ open
    /\ open' = FALSE
    /\ UNCHANGED <<window, arrived, asked>>

\* A new connection; what the old one had not delivered is skipped.
Reopen ==
    /\ ~open
    /\ open' = TRUE
    /\ window' = <<>>
    /\ arrived' >= arrived
    /\ UNCHANGED asked

ChannelNext == Arrive \/ Dispose \/ Shut \/ Reopen

ChannelSpec == ChannelInit /\ [][ChannelNext]_channel
============================================================================
