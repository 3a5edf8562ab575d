---------------------------- MODULE ReceiveQueue ----------------------------
(***************************************************************************)
(* The receive queue of a connection: softether_fill_recv_queue            *)
(* (packet_handler.c) reads one message of one TCP link, or what UDP       *)
(* acceleration has decoded, into a ring of RECV_QUEUE_SIZE frames;        *)
(* softether_receive_raw (during DHCP and gateway resolution) and          *)
(* softether_receive_batch (the receive loop of ConnectionController) take *)
(* frames out.  One thread does both, so the ring has no lock.             *)
(*                                                                         *)
(* A TCP link is a stream of messages of blocks, read block by block; any  *)
(* read may fail.  A failed read retires an additional link.  On the       *)
(* primary it returns -1, on which the receive loop stops and reconnects,  *)
(* while DHCP and gateway resolution go on reading: then the stream may be *)
(* in the middle of a message, and what is read next is whatever the       *)
(* misread lengths make of it ("garbage").                                 *)
(*                                                                         *)
(* A block is its source, its number there and its kind: "ip", "other"     *)
(* (ARP, which is answered if it asks for our address, and what else is    *)
(* not for the TUN), "large" (over MAX_QUEUED_FRAME) or "empty".           *)
(* Compression is left out: what a block decompresses to, or its bytes if  *)
(* that fails, is stored in the slot.                                      *)
(***************************************************************************)
EXTENDS Naturals, Sequences, FiniteSets, SequencesExt

CONSTANTS
    QueueSize,     \* RECV_QUEUE_SIZE, 64 in the code
    BatchPackets,  \* RX_BATCH_MAX_PACKETS, 32 in the code
    RoomFor,       \* frames of MAX_QUEUED_FRAME the batch buffer holds, 32 in the code
    Extra,         \* the additional links that may receive
    Kinds,         \* kinds of blocks the server sends
    MaxBlocks,     \* blocks of a message
    MaxSent        \* bound on the blocks sent, by all sources

VARIABLES
    phase,      \* "setup": raw reads, "data": the receive loop, "stopped": it ended
    rpc,        \* the step of the call: "idle", "fill", "blocks" or "take"
    links,      \* open links
    wire,       \* per link, the messages not yet read
    udp,        \* frames decoded by UDP acceleration
    cur, left,  \* the link being read and the blocks left of its message
    inSync,     \* the primary's stream stands at the start of a message
    ring, head, tail, recvCount,  \* recv_queue, recv_queue_head, _tail, _count
    batch,      \* packets of the current batch
    skippedBlocks,  \* rx_skipped_blocks
    fate,       \* per source, what became of each block
    setupFailed,    \* a raw read has failed
    garbage     \* a garbage frame was passed to the TUN

vars == <<phase, rpc, links, wire, udp, cur, left, inSync, ring, head, tail, recvCount,
          batch, skippedBlocks, fate, setupFailed, garbage>>
ringVars == <<ring, head, tail, recvCount, skippedBlocks>>

Primary == "primary"
Links == {Primary} \union Extra
Sources == Links \union {"udp"}
Block == [src : Sources \union {"garbage"}, n : Nat, kind : Kinds]
NoBlock == [src |-> "garbage", n |-> 0, kind |-> "other"]
Fates == {"sent", "queued", "delivered", "consumed", "skipped", "lost"}

\* The type of every variable.
TypeOK ==
    /\ phase \in {"setup", "data", "stopped"}
    /\ rpc \in {"idle", "fill", "blocks", "take"}
    /\ links \subseteq Links /\ cur \in Links
    /\ wire \in [Links -> Seq(Seq(Block))] /\ udp \in Seq(Block) /\ left \in Seq(Block)
    /\ ring \in [0 .. QueueSize - 1 -> Block \union {NoBlock}]
    /\ head \in 0 .. QueueSize - 1 /\ tail \in 0 .. QueueSize - 1
    /\ recvCount \in 0 .. QueueSize /\ batch \in 0 .. BatchPackets
    /\ skippedBlocks \in Nat
    /\ fate \in [Sources -> Seq(Fates)]
    /\ inSync \in BOOLEAN /\ setupFailed \in BOOLEAN /\ garbage \in BOOLEAN

Init ==
    /\ phase = "setup" /\ rpc = "idle"
    /\ links = Links /\ wire = [l \in Links |-> <<>>] /\ udp = <<>>
    /\ cur = Primary /\ left = <<>> /\ inSync = TRUE
    /\ ring = [i \in 0 .. QueueSize - 1 |-> NoBlock]
    /\ head = 0 /\ tail = 0 /\ recvCount = 0 /\ batch = 0 /\ skippedBlocks = 0
    /\ fate = [s \in Sources |-> <<>>]
    /\ setupFailed = FALSE /\ garbage = FALSE

-----------------------------------------------------------------------------
\* The bookkeeping of the model: the blocks bs met the fate f.
Becomes(bs, f) ==
    [s \in Sources |->
        [i \in DOMAIN fate[s] |->
            IF \E b \in bs : b.src = s /\ b.n = i THEN f ELSE fate[s][i]]]

NextSlot(i) == (i + 1) % QueueSize

\* A block goes to the slot at the tail.
Enqueue(b) ==
    /\ ring' = [ring EXCEPT ![tail] = b]
    /\ tail' = NextSlot(tail) /\ recvCount' = recvCount + 1
    /\ UNCHANGED <<head, skippedBlocks>>

\* The frame at the head is taken out of the ring.  The code leaves its bytes in
\* the slot, where nothing reads them.
Dequeue ==
    /\ ring' = [ring EXCEPT ![head] = NoBlock]
    /\ head' = NextSlot(head) /\ recvCount' = recvCount - 1
    /\ UNCHANGED <<tail, skippedBlocks>>

-----------------------------------------------------------------------------
\* softether_receive_raw and softether_receive_batch: fill only an empty queue.
Call ==
    /\ phase # "stopped" /\ rpc = "idle"
    /\ rpc' = IF recvCount = 0 THEN "fill" ELSE "take"
    /\ UNCHANGED <<phase, links, wire, udp, cur, left, inSync, ringVars, batch, fate,
                   setupFailed, garbage>>

\* The fill returned without error.  The raw call returns as well when the
\* fill had nothing (0), the batch takes what is in the queue either way.
Filled(n) ==
    /\ rpc' = IF phase = "setup" /\ n = 0 THEN "idle" ELSE "take"
    /\ UNCHANGED <<phase, setupFailed>>

\* The fill returned -1.
FillError ==
    /\ rpc' = "idle"
    /\ IF phase = "setup"
       THEN setupFailed' = TRUE /\ UNCHANGED phase
       ELSE phase' = "stopped" /\ UNCHANGED setupFailed

\* drain_rudp_into_recv_queue: as many decoded frames as fit.
FillUdp ==
    /\ rpc = "fill" /\ udp # <<>>
    /\ LET n == IF Len(udp) < QueueSize THEN Len(udp) ELSE QueueSize
       IN /\ ring' = [i \in 0 .. QueueSize - 1 |->
                        LET k == 1 + ((i + QueueSize - tail) % QueueSize)
                        IN IF k <= n THEN udp[k] ELSE ring[i]]
          /\ tail' = (tail + n) % QueueSize /\ recvCount' = n
          /\ udp' = SubSeq(udp, n + 1, Len(udp))
          /\ fate' = Becomes({udp[k] : k \in 1 .. n}, "queued")
          /\ Filled(n)
    /\ UNCHANGED <<links, wire, cur, left, inSync, head, batch, skippedBlocks, garbage>>

\* The poll times out.
FillIdle ==
    /\ rpc = "fill" /\ udp = <<>> /\ \A l \in links : wire[l] = <<>>
    /\ Filled(0)
    /\ UNCHANGED <<links, wire, udp, cur, left, inSync, ringVars, batch, fate, garbage>>

\* The poll fails, or reports an error of the primary.
PollFails ==
    /\ rpc = "fill" /\ udp = <<>>
    /\ FillError
    /\ UNCHANGED <<links, wire, udp, cur, left, inSync, ringVars, batch, fate, garbage>>

\* A link with data is next to be read.
Readable(l) ==
    /\ rpc = "fill" /\ udp = <<>> /\ l \in links /\ wire[l] # <<>>
    /\ l = Primary => inSync

\* A link with data is selected and its block count read: a keepalive, which is
\* answered, and an empty message end the fill.
Select(l) ==
    /\ Readable(l)
    /\ cur' = l /\ left' = Head(wire[l])
    /\ wire' = [wire EXCEPT ![l] = Tail(@)]
    /\ IF Head(wire[l]) = <<>>
       THEN Filled(0)
       ELSE rpc' = "blocks" /\ UNCHANGED <<phase, setupFailed>>
    /\ UNCHANGED <<links, udp, inSync, ringVars, batch, fate, garbage>>

\* Mutant: a full queue is not looked at.
StoresAlways(b) == b.kind # "large"

\* A block that fits into a slot, while there is one.
Stores(b) == b.kind # "large" /\ recvCount < QueueSize

\* One block of the message: stored, or read and dropped.
ReadBlock ==
    /\ rpc = "blocks" /\ left # <<>>
    /\ LET b == Head(left)
       IN CASE b.kind = "empty" -> UNCHANGED ringVars /\ fate' = Becomes({b}, "consumed")
            [] b.kind # "empty" /\ Stores(b) -> Enqueue(b) /\ fate' = Becomes({b}, "queued")
            [] OTHER -> /\ skippedBlocks' = skippedBlocks + 1
                        /\ fate' = Becomes({b}, "skipped")
                        /\ UNCHANGED <<ring, head, tail, recvCount>>
    /\ left' = Tail(left)
    /\ IF Len(left) = 1
       THEN Filled(recvCount')
       ELSE UNCHANGED <<rpc, phase, setupFailed>>
    /\ UNCHANGED <<links, wire, udp, cur, inSync, batch, garbage>>

\* What had been sent on a link and is not going to be read as it was sent.
Unread(l) == Range(left) \union UNION {Range(m) : m \in Range(wire[l])}

\* A read fails at the count of a message or at one of its blocks.  An additional
\* link is closed and the frames read so far stay queued; the primary stays open,
\* out of step.
ReadFails(l) ==
    /\ Readable(l) \/ (rpc = "blocks" /\ l = cur)
    /\ cur' = l /\ left' = <<>>
    /\ IF l = Primary
       THEN /\ inSync' = FALSE /\ FillError
            /\ UNCHANGED <<links, wire>>
            /\ fate' = Becomes(Unread(Primary), "lost")
       ELSE /\ links' = links \ {l} /\ wire' = [wire EXCEPT ![l] = <<>>]
            /\ fate' = Becomes(Unread(l), "lost")
            /\ Filled(0)
            /\ UNCHANGED inSync
    /\ UNCHANGED <<udp, ringVars, batch, garbage>>

\* A primary that is out of step: a length that is too large or a read that
\* fails, or some frame.
Misread ==
    /\ rpc = "fill" /\ udp = <<>> /\ ~inSync
    /\ \/ FillError /\ UNCHANGED ringVars
       \/ \E k \in Kinds \ {"large", "empty"} :
            Enqueue([src |-> "garbage", n |-> 0, kind |-> k]) /\ Filled(1)
    /\ wire' = [wire EXCEPT ![Primary] = <<>>]
    /\ UNCHANGED <<links, udp, cur, left, inSync, batch, fate, garbage>>

-----------------------------------------------------------------------------
\* softether_receive_raw returns the frame at the head.
TakeRaw ==
    /\ rpc = "take" /\ phase = "setup"
    /\ rpc' = "idle"
    /\ Dequeue /\ fate' = Becomes({ring[head]}, "consumed")
    /\ UNCHANGED <<phase, links, wire, udp, cur, left, inSync, batch, setupFailed, garbage>>

\* A frame of the TUN for which the batch has no room.
NoRoom(b) == b.kind = "ip" /\ batch >= RoomFor

\* One frame of a batch: IP goes to the TUN, ARP is answered, the rest dropped.
TakeFrame ==
    /\ rpc = "take" /\ phase = "data"
    /\ recvCount > 0 /\ batch < BatchPackets
    /\ LET b == ring[head]
       IN /\ ~NoRoom(b)
          /\ Dequeue
          /\ batch' = IF b.kind = "ip" THEN batch + 1 ELSE batch
          /\ garbage' = (garbage \/ (b.src = "garbage" /\ b.kind = "ip"))
          /\ fate' = Becomes({b}, IF b.kind = "ip" THEN "delivered" ELSE "consumed")
    /\ UNCHANGED <<phase, rpc, links, wire, udp, cur, left, inSync, setupFailed>>

\* The batch is full, has no room, or the queue is empty.
BatchReturns ==
    /\ rpc = "take" /\ phase = "data"
    /\ recvCount = 0 \/ batch = BatchPackets \/ NoRoom(ring[head])
    /\ rpc' = "idle" /\ batch' = 0
    /\ UNCHANGED <<phase, links, wire, udp, cur, left, inSync, ringVars, fate,
                   setupFailed, garbage>>

\* DHCP and gateway resolution are over; the receive loop starts.
SetupEnds ==
    /\ phase = "setup" /\ rpc = "idle"
    /\ phase' = "data"
    /\ UNCHANGED <<rpc, links, wire, udp, cur, left, inSync, ringVars, batch, fate,
                   setupFailed, garbage>>

-----------------------------------------------------------------------------
SentBlocks == FoldFunction(LAMBDA f, total : Len(f) + total, 0, fate)

\* The server writes a message; one without blocks stands for a keepalive too.
\* Only a fill looks at what has arrived, so nothing need arrive before one, and
\* a link holds one message.  What is written after the stream got out of step is
\* never read as a message.
ServerSends(l) ==
    /\ rpc = "fill" /\ l \in links /\ wire[l] = <<>>
    /\ \E ks \in SeqOf(Kinds, MaxBlocks) :
        /\ SentBlocks + Len(ks) <= MaxSent
        /\ wire' = [wire EXCEPT ![l] = Append(@,
              [i \in DOMAIN ks |-> [src |-> l, n |-> Len(fate[l]) + i, kind |-> ks[i]]])]
        /\ fate' = [fate EXCEPT ![l] = @ \o [i \in DOMAIN ks |->
              IF l = Primary /\ ~inSync THEN "lost" ELSE "sent"]]
    /\ UNCHANGED <<phase, rpc, links, udp, cur, left, inSync, ringVars, batch,
                   setupFailed, garbage>>

UdpArrives ==
    /\ rpc = "fill" /\ SentBlocks < MaxSent
    /\ \E k \in Kinds \ {"large", "empty"} :
        udp' = Append(udp, [src |-> "udp", n |-> Len(fate["udp"]) + 1, kind |-> k])
    /\ fate' = [fate EXCEPT !["udp"] = Append(@, "sent")]
    /\ UNCHANGED <<phase, rpc, links, wire, cur, left, inSync, ringVars, batch,
                   setupFailed, garbage>>

Receiver ==
    \/ Call \/ FillUdp \/ FillIdle \/ PollFails \/ ReadBlock \/ Misread
    \/ TakeRaw \/ TakeFrame \/ BatchReturns \/ SetupEnds
    \/ \E l \in Links : Select(l) \/ ReadFails(l)

Next == Receiver \/ UdpArrives \/ \E l \in Links : ServerSends(l)

Spec == Init /\ [][Next]_vars

-----------------------------------------------------------------------------
\* The frames of the ring, from head to tail.
Queued == [i \in 1 .. recvCount |-> ring[(head + i - 1) % QueueSize]]

\* The ring is a queue: its frames lie between head and tail, none was
\* overwritten or forgotten, and those of a source are in its order.
RingIsQueue ==
    /\ tail = (head + recvCount) % QueueSize
    /\ \A s \in Sources : \A i \in DOMAIN fate[s] :
        fate[s][i] = "queued" <=> \E b \in Range(Queued) : b.src = s /\ b.n = i
    /\ \A i, j \in DOMAIN Queued :
        i < j /\ Queued[i].src = Queued[j].src /\ Queued[i].src # "garbage"
            => Queued[i].n < Queued[j].n

\* The TUN gets the frames of a source in order: none passes an earlier one
\* that is still waiting.
DeliveredInOrder ==
    \A s \in Sources : \A i, j \in DOMAIN fate[s] :
        i < j /\ fate[s][j] = "delivered" => fate[s][i] \notin {"sent", "queued"}

\* A block disappears only with a link that failed; what the full queue made
\* the client drop is counted.
SkippedAt(s) == {i \in DOMAIN fate[s] : fate[s][i] = "skipped"}
Skipped == UNION {{<<s, i>> : i \in SkippedAt(s)} : s \in Sources}
DropsAreCounted ==
    /\ skippedBlocks = Cardinality(Skipped)
    /\ \A l \in Links : \A i \in DOMAIN fate[l] :
        fate[l][i] = "lost" => l \notin links \/ setupFailed \/ phase = "stopped"

\* The receive loop passes nothing to the TUN that the server did not send as a
\* frame, unless a read failed during DHCP or gateway resolution.
NoGarbage == garbage => setupFailed

\* A batch that returns no packet leaves no frame behind: the receive loop takes
\* 0 for an idle tunnel.
ZeroMeansEmpty ==
    [][rpc = "take" /\ rpc' = "idle" /\ phase = "data" /\ batch = 0 => recvCount = 0]_vars
=============================================================================
