---------------------------- MODULE MCRudpStream ----------------------------
(***************************************************************************)
(* What carries data, on small instances: the stream of an R-UDP session   *)
(* and the receive queue of a connection.  They share no state: a          *)
(* behaviour follows one of them (part) while the other keeps its initial  *)
(* state.                                                                  *)
(*                                                                         *)
(* A load of the stream exercises one direction, so the states of the two  *)
(* add up too: three segments of the server against a receive FIFO that    *)
(* holds one, and three units of the application behind the greeting       *)
(* through a window of two segments.                                       *)
(***************************************************************************)
EXTENDS RudpStream

CONSTANTS
    QueueSize, BatchPackets, RoomFor, Extra, Kinds, MaxBlocks, MaxSent  \* of the queue

\* A queue holds a frame at least, a batch returns one at least, and the sources
\* of frames are told apart.
ASSUME QueueAssumption ==
    /\ {QueueSize, BatchPackets, RoomFor} \subseteq Nat \ {0} /\ MaxBlocks \in Nat
    /\ "primary" \notin Extra /\ "udp" \notin Extra /\ "garbage" \notin Extra
    /\ Kinds \subseteq {"ip", "other", "empty", "large"}

VARIABLES
    part,
    phase, rpc, links, wire, udp, cur, left, inSync, ring, head, tail, recvCount,
    batch, skippedBlocks, fate, setupFailed, garbage

Down == [app |-> 0, server |-> 3, seq |-> 1, up |-> 1, down |-> 2]
Up == [app |-> 3, server |-> 0, seq |-> 4, up |-> 2, down |-> 2]

BothLoads == {Down, Up}

\* Units of half a segment, which do not all fit the FIFO.
HalfSegments == {[app |-> 6, server |-> 0, seq |-> 4, up |-> 2, down |-> 1]}

Queue == INSTANCE ReceiveQueue

queueVars == <<phase, rpc, links, wire, udp, cur, left, inSync, ring, head, tail,
    recvCount, batch, skippedBlocks, fate, setupFailed, garbage>>
mcVars == <<part, vars, queueVars>>

MCInit ==
    /\ part \in {"stream", "queue"}
    /\ Init /\ (part # "stream" => load = CHOOSE l \in Loads : TRUE)
    /\ Queue!Init

MCNext ==
    \/ part = "stream" /\ Next /\ UNCHANGED <<part, queueVars>>
    \/ part = "queue" /\ Queue!Next /\ UNCHANGED <<part, vars>>

MCSpec == MCInit /\ [][MCNext]_mcVars

-----------------------------------------------------------------------------
\* The frames of every link, and of UDP, reach the TUN in order, once and as
\* they were sent; one is dropped only with a link that failed or when the queue
\* is full, which is counted; a batch that returns nothing leaves nothing queued.
FramesAreDelivered ==
    /\ [](/\ Queue!TypeOK
          /\ Queue!RingIsQueue
          /\ Queue!DeliveredInOrder
          /\ Queue!DropsAreCounted
          /\ Queue!NoGarbage)
    /\ Queue!ZeroMeansEmpty
=============================================================================
