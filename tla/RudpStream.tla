----------------------------- MODULE RudpStream -----------------------------
(***************************************************************************)
(* The byte stream of an R-UDP session (rudp_transport.c) over datagrams   *)
(* that are lost, duplicated and reordered: the client's worker, the       *)
(* application at the other end of the socket pair, and the server         *)
(* (external: a peer that keeps to the protocol).                          *)
(*                                                                         *)
(* The session belongs to the worker, so handling one datagram and one     *)
(* rt_interrupt pass are one step each.  Keepalive and retransmission      *)
(* timers may fire at any time.  Encryption, signatures and the DNS and    *)
(* ICMP framing are left out: a datagram that reaches the session is one   *)
(* the server sent.  How sessions begin and end is RudpTransport.tla's: a  *)
(* disconnected session takes no further step.                             *)
(***************************************************************************)
EXTENDS RudpSession, FiniteSets

CONSTANTS
    Loads       \* what a behaviour is bounded by: records of
                \*   app: units the application writes,
                \*   server: segments the server sends,
                \*   seq: segments the client queues,
                \*   up, down: datagrams in flight to the server, to the client

ASSUME LoadAssumption ==
    Loads \subseteq [app : Nat, server : Nat, seq : Nat, up : Nat, down : Nat]

VARIABLES
    load,           \* chosen at the start, never changed
    established,    \* the first valid segment was received
    send_fifo, recv_fifo, send_segments, next_send_seq,
    recv_segments, last_recv_complete_seq, reply_acks,
    pair, written, delivered,            \* the application's end
    toServer, toClient,                  \* datagrams in flight
    serverGot, serverSent, serverAcked

sessionVars == <<established, send_fifo, recv_fifo, send_segments, next_send_seq,
                 recv_segments, last_recv_complete_seq, reply_acks>>
appVars == <<pair, written, delivered>>
serverVars == <<serverGot, serverSent, serverAcked>>
vars == <<load, sessionVars, appVars, toServer, toClient, serverVars>>

\* The first upstream payload is the value of Magic_Disconnect.
Greeting == 0

\* The server's segments: a keepalive request, then data.
ServerPayload(seq) == IF seq = 1 THEN magic_req ELSE <<seq>>

\* rt_send_segment_now: header fields the session reads, and the payload.
Segment(seq, data, max_ack, acks) ==
    [seq |-> seq, data |-> data, max_ack |-> max_ack, acks |-> acks]

Init ==
    /\ load \in Loads
    /\ established = FALSE
    /\ send_fifo = <<Greeting>>
    /\ recv_fifo = <<>>
    /\ send_segments = <<>>
    /\ next_send_seq = 1
    /\ recv_segments = <<>>
    /\ last_recv_complete_seq = 0
    /\ reply_acks = {}
    /\ pair = <<>>
    /\ written = 0
    /\ delivered = <<>>
    /\ toServer = {}
    /\ toClient = {}
    /\ serverGot = {}
    /\ serverSent = 0
    /\ serverAcked = {}

\* Some of the datagrams sent are lost.
Send(pkts) ==
    \E kept \in SUBSET pkts :
        /\ Cardinality(toServer \cup kept) <= load.up
        /\ toServer' = toServer \cup kept

-----------------------------------------------------------------------------
(* The worker. *)

\* rt_handle_udp_packet: acks first, then the payload, if any.
HandlePacket(p) ==
    /\ p \in toClient
    /\ toClient' \in {toClient, toClient \ {p}}
    /\ established' = TRUE
    /\ send_segments' = ProcessAcks(send_segments, p.max_ack, p.acks)
    /\ IF p.data # <<>>
         THEN /\ recv_segments' = RecvPayload(recv_segments, last_recv_complete_seq,
                                              p.seq, p.data)
              /\ reply_acks' =
                   IF AcksSegment(recv_segments, last_recv_complete_seq, p.seq)
                     THEN AddAck(reply_acks, p.seq, Cardinality(reply_acks))
                     ELSE reply_acks
         ELSE UNCHANGED <<recv_segments, reply_acks>>
    /\ UNCHANGED <<send_fifo, recv_fifo, next_send_seq, last_recv_complete_seq,
                   appVars, toServer, serverVars>>

\* rt_interrupt on an established session: drain what is in sequence, deliver
\* it, take the application's bytes, cut segments, keep alive, retransmit what
\* is due, acknowledge.  `accepts` is how much the pair takes, `idle` whether
\* the keepalive interval is over (which matters with nothing queued only), `due`
\* which segments' timers are.
Interrupt(accepts, idle, due) ==
    LET n == DrainCount(recv_segments, last_recv_complete_seq, recv_fifo)
        asked == send_segments = <<>>
                 /\ \E i \in 1..n : recv_segments[i].data = magic_req
        fifo == recv_fifo \o DrainedData(recv_segments, n)
        segs0 == IF asked THEN QueueSegment(send_segments, next_send_seq, magic_resp)
                          ELSE send_segments
        next0 == IF asked THEN next_send_seq + 1 ELSE next_send_seq
        in == PumpPairToSend(send_fifo, pair)
        cut == SegmentSendFifo(segs0, next0, in.fifo)
        segs == IF idle THEN QueueSegment(cut.segs, cut.next, magic_req) ELSE cut.segs
        next == IF idle THEN cut.next + 1 ELSE cut.next
        complete == last_recv_complete_seq + n
        sending == {i \in 1..Len(segs) : ~segs[i].sent \/ i \in due}
        carrier == IF sending = {} THEN 0
                   ELSE CHOOSE i \in sending : \A j \in sending : i <= j
    IN  /\ established
        /\ idle => cut.segs = <<>>
        /\ next <= load.seq + 1
        /\ accepts \in 0..Len(fifo)
        /\ due \subseteq 1..Len(segs)
        /\ recv_segments' = Drop(recv_segments, n)
        /\ last_recv_complete_seq' = complete
        /\ delivered' = delivered \o Take(fifo, accepts)
        /\ recv_fifo' = Drop(fifo, accepts)
        /\ pair' = in.pair
        /\ send_fifo' = cut.fifo
        /\ next_send_seq' = next
        /\ send_segments' = [i \in 1..Len(segs) |->
                               [segs[i] EXCEPT !.sent = @ \/ i \in sending]]
        /\ reply_acks' = {}
        /\ Send(
                {Segment(segs[i].seq, segs[i].data, complete,
                         IF i = carrier THEN reply_acks ELSE {}) : i \in sending}
                \cup (IF sending = {} /\ reply_acks # {}
                        THEN {Segment(next, <<>>, complete, reply_acks)} ELSE {}))
        /\ UNCHANGED <<established, written, serverVars, toClient>>

-----------------------------------------------------------------------------
(* The application and the server (external), and the network. *)

AppWrites ==
    /\ written < load.app
    /\ written' = written + 1
    /\ pair' = Append(pair, written + 1)
    /\ UNCHANGED <<sessionVars, delivered, toServer, toClient, serverVars>>

ServerReceives(p) ==
    /\ p \in toServer
    /\ toServer' \in {toServer, toServer \ {p}}
    /\ serverGot' = IF p.data = <<>> THEN serverGot
                    ELSE serverGot \cup {[seq |-> p.seq, data |-> p.data]}
    /\ serverAcked' = serverAcked \cup p.acks \cup 1..p.max_ack
    /\ UNCHANGED <<sessionVars, appVars, serverSent, toClient>>

\* The server's own cumulative ack.
ServerComplete ==
    CHOOSE n \in 0..load.seq :
        /\ \A i \in 1..n : \E g \in serverGot : g.seq = i
        /\ ~\E g \in serverGot : g.seq = n + 1

\* A new segment, within the window, one not acknowledged yet, or only acks.
\* It acknowledges everything it has, again and again.
ServerSends(seq) ==
    /\ seq \in 0..Least(serverSent + 1, load.server)
    /\ seq \notin serverAcked
    /\ \A i \in 1..(seq - Window) : i \in serverAcked
    /\ serverSent' = IF seq > serverSent THEN seq ELSE serverSent
    /\ toClient' = toClient \cup
         {Segment(IF seq = 0 THEN serverSent + 1 ELSE seq,
                  IF seq = 0 THEN <<>> ELSE ServerPayload(seq),
                  ServerComplete, {g.seq : g \in serverGot})}
    /\ Cardinality(toClient') <= load.down
    /\ UNCHANGED <<sessionVars, appVars, serverGot, serverAcked, toServer>>

Lose ==
    /\ \E p \in toClient : toClient' = toClient \ {p}
    /\ UNCHANGED <<sessionVars, appVars, toServer, serverVars>>

Next ==
    /\ \/ \E p \in toClient : HandlePacket(p)
       \/ \E accepts \in 0..FifoUnits, idle \in BOOLEAN, due \in SUBSET (1..Window) :
             Interrupt(accepts, idle, due)
       \/ AppWrites
       \/ \E p \in toServer : ServerReceives(p)
       \/ \E seq \in 0..load.server : ServerSends(seq)
       \/ Lose
    /\ UNCHANGED load

Spec == Init /\ [][Next]_vars

-----------------------------------------------------------------------------
Payloads == Seq(-2..(load.app + load.server))

\* The types, with the capacities of the queues.
TypeOK ==
    /\ load \in Loads
    /\ established \in BOOLEAN
    /\ send_fifo \in Payloads /\ Len(send_fifo) <= FifoUnits
    /\ recv_fifo \in Payloads /\ Len(recv_fifo) <= FifoUnits
    /\ Len(send_segments) <= Window
    /\ \A i \in 1..Len(send_segments) :
          send_segments[i] \in [seq : 1..load.seq, data : Payloads, sent : BOOLEAN]
    /\ next_send_seq \in 1..(load.seq + 1)
    /\ Len(recv_segments) <= Window
    /\ \A i \in 1..Len(recv_segments) :
          recv_segments[i] \in [seq : 1..load.server, data : Payloads]
    /\ last_recv_complete_seq \in 0..load.server
    /\ reply_acks \subseteq 1..load.server /\ Cardinality(reply_acks) <= Window
    /\ pair \in Payloads /\ written \in 0..load.app
    /\ delivered \in Payloads

\* What the application reads is a prefix of what the server sent: in order,
\* nothing twice, nothing missing in between, whatever the network does.
DownstreamIsPrefix ==
    /\ Len(delivered) <= load.server
    /\ \A i \in 1..Len(delivered) : delivered[i] = i + 1

\* rt_process_recv_payload acknowledges only what it keeps: the server drops a
\* segment from its queue only if the client has it.
AcknowledgedIsKept ==
    serverAcked \cap (1..load.server) \subseteq
        1..last_recv_complete_seq \cup SeqsOf(recv_segments)

\* A queued segment stays queued until the server has it: neither the window
\* (rt_queue_segment's silent return) nor an ack loses one.
QueuedUntilReceived ==
    \A seq \in 1..(next_send_seq - 1) :
        \/ seq \in SeqsOf(send_segments)
        \/ \E g \in serverGot : g.seq = seq

\* The units the server has seen in sequence, keepalives left out.
UpstreamData ==
    LET data[n \in 0..ServerComplete] ==
          IF n = 0 THEN <<>>
          ELSE LET g == CHOOSE g \in serverGot : g.seq = n
               IN  data[n - 1] \o (IF IsKeepAlive(g.data) THEN <<>> ELSE g.data)
    IN  data[ServerComplete]

\* "The caller treats that fd like an already-connected TCP socket": the server
\* reads the greeting and then the application's bytes, none missing.
UpstreamIsPrefix ==
    \A i \in 1..Len(UpstreamData) : UpstreamData[i] = i - 1

\* Both streams are intact, and the queues within their capacities: whatever the
\* network does, what either side reads is a prefix of what the other wrote.
StreamsAreIntact == TypeOK /\ DownstreamIsPrefix /\ UpstreamIsPrefix

\* Acknowledgements are true in both directions: nothing is dropped by its
\* sender that its receiver does not have.
AcksAreTrue == AcknowledgedIsKept /\ QueuedUntilReceived

\* "Drain in-order received segments": after a pass that acknowledges segments
\* the next one in sequence is not left in the receive reorder buffer, unless the FIFO has no room.
DrainsWhatIsInOrder ==
    [][reply_acks # {} /\ reply_acks' = {} =>
         \/ FifoUnits - Len(recv_fifo') < SegmentUnits
         \/ last_recv_complete_seq' + 1 \notin SeqsOf(recv_segments')]_vars
=============================================================================
