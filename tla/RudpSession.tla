---------------------------- MODULE RudpSession ----------------------------
(***************************************************************************)
(* What one pass of the R-UDP worker (rudp_transport.c) does to the byte   *)
(* queues, the send window and the receive buffer of its session, as       *)
(* operators on their values.  RudpTransport.tla puts them in the order    *)
(* rt_interrupt calls them.                                                *)
(*                                                                         *)
(* A unit stands for a run of bytes.  A FIFO is the sequence of its units; *)
(* the ring indices of rt_fifo_t are left out, the capacity is not.        *)
(***************************************************************************)
EXTENDS Integers, Sequences

CONSTANTS
    Window,         \* RUDP_T_MAX_NUM_ACK: segments in flight, pending acks
    SegmentUnits,   \* RUDP_T_MAX_SEGMENT_SIZE, in units
    FifoUnits       \* RUDP_T_MAX_FIFO_SIZE, in units

ASSUME SessionAssumption ==
    Window \in Nat \ {0} /\ SegmentUnits \in Nat \ {0} /\ FifoUnits \in Nat \ {0}

\* Payloads of keepalive segments: recognised by content when drained.
magic_req == <<-1>>
magic_resp == <<-2>>

Least(a, b) == IF a < b THEN a ELSE b

Take(s, n) == SubSeq(s, 1, Least(n, Len(s)))
Drop(s, n) == SubSeq(s, Least(n, Len(s)) + 1, Len(s))

\* rt_fifo_write: all or nothing.
FifoWrite(fifo, data) ==
    IF Len(data) > FifoUnits - Len(fifo) THEN fifo ELSE fifo \o data

-----------------------------------------------------------------------------
(* The send window. *)

\* rt_queue_segment: silently does nothing when the queue is full.
QueueSegment(segs, seq, data) ==
    IF Len(segs) >= Window THEN segs
    ELSE Append(segs, [seq |-> seq, data |-> data, sent |-> FALSE])

\* Mutant: the window check is off by one against the queue's capacity.
WindowFullLate(segs, next) ==
    segs # <<>> /\ segs[1].seq + Window - 1 < next - 1

\* rt_segment_send_fifo's test before it cuts another segment.
WindowFull(segs, next) ==
    segs # <<>> /\ segs[1].seq + Window - 1 < next

\* rt_segment_send_fifo: cut segments while the window and the FIFO allow.
SegmentSendFifo(segs, next, fifo) ==
    LET cut[k \in 0..Len(fifo)] ==
          IF k = 0 THEN [segs |-> segs, next |-> next, fifo |-> fifo]
          ELSE LET c == cut[k - 1] IN
               IF c.fifo = <<>> \/ WindowFull(c.segs, c.next) THEN c
               ELSE [segs |-> QueueSegment(c.segs, c.next, Take(c.fifo, SegmentUnits)),
                     next |-> IF Len(c.segs) >= Window THEN c.next ELSE c.next + 1,
                     fifo |-> Drop(c.fifo, SegmentUnits)]
    IN  cut[Len(fifo)]

\* rt_process_ack2 and rt_process_ack: cumulative, then exact.
ProcessAcks(segs, max_ack, acks) ==
    LET kept[k \in 0..Len(segs)] ==
          IF k = 0 THEN <<>>
          ELSE IF segs[k].seq > max_ack /\ segs[k].seq \notin acks
                 THEN Append(kept[k - 1], segs[k])
                 ELSE kept[k - 1]
    IN  kept[Len(segs)]

\* rt_pump_pair_to_send: the write's result is not looked at.
PumpPairToSend(fifo, pair) ==
    LET read[k \in 0..Len(pair)] ==
          IF k = 0 THEN [fifo |-> fifo, pair |-> pair]
          ELSE LET r == read[k - 1] IN
               IF r.pair = <<>> \/ Len(r.fifo) >= FifoUnits THEN r
               ELSE [fifo |-> FifoWrite(r.fifo, Take(r.pair, SegmentUnits)),
                     pair |-> Drop(r.pair, SegmentUnits)]
    IN  read[Len(pair)]

-----------------------------------------------------------------------------
(* The receive buffer. *)

SeqsOf(segs) == {segs[i].seq : i \in 1..Len(segs)}

\* Mutant: a segment the window refuses is acknowledged all the same.
AcksSegmentAlways(segs, complete, seq) == TRUE

\* rt_process_recv_payload: duplicates are acknowledged again, what lies
\* beyond the window or does not fit is neither kept nor acknowledged.
AcksSegment(segs, complete, seq) ==
    /\ seq <= complete + Window
    /\ seq <= complete \/ seq \in SeqsOf(segs) \/ Len(segs) < Window

\* What is new, in the window and fits is kept, ...
KeepsSegment(segs, complete, seq) ==
    /\ seq > complete
    /\ seq <= complete + Window
    /\ seq \notin SeqsOf(segs)
    /\ Len(segs) < Window

\* ... which is appended: the buffer is in order of arrival.
RecvPayload(segs, complete, seq, data) ==
    IF KeepsSegment(segs, complete, seq)
      THEN Append(segs, [seq |-> seq, data |-> data])
      ELSE segs

\* rt_add_ack
AddAck(acks, seq, n) == IF n >= Window THEN acks ELSE acks \cup {seq}

IsKeepAlive(data) == data \in {magic_req, magic_resp}

\* What draining the first n segments appends to the receive FIFO.
DrainedData(segs, n) ==
    LET data[k \in 0..n] ==
          IF k = 0 THEN <<>>
          ELSE data[k - 1] \o (IF IsKeepAlive(segs[k].data) THEN <<>> ELSE segs[k].data)
    IN  data[n]

\* The drain loop of rt_interrupt passes the first n segments: each is the next
\* in sequence and fits the FIFO.
Drains(segs, complete, fifo, n) ==
    /\ \A i \in 1..n : segs[i].seq = complete + i
    /\ Len(fifo) + Len(DrainedData(segs, n)) <= FifoUnits

DrainCount(segs, complete, fifo) ==
    CHOOSE n \in 0..Len(segs) :
        /\ Drains(segs, complete, fifo, n)
        /\ \A m \in (n + 1)..Len(segs) : ~Drains(segs, complete, fifo, m)
=============================================================================
