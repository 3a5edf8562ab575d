-------------------------- MODULE RudpStream_proofs --------------------------
(***************************************************************************)
(* The R-UDP byte stream is intact in both directions and acknowledgements *)
(* are true, for every window, segment size, FIFO size and load.           *)
(*                                                                         *)
(* StreamInv is inductive by itself; the upstream order needs UpstreamInv  *)
(* as well, which says which unit each segment carries.  The loops of      *)
(* RudpSession.tla are recursive functions, so first come an induction     *)
(* principle, then what each loop does, then one lemma per action.         *)
(*                                                                         *)
(* The receive queue, the other half of MCRudpStream, comes last: its      *)
(* frames reach the TUN in order for every size of the queue and of a      *)
(* batch.                                                                  *)
(***************************************************************************)
EXTENDS MCRudpStream, FiniteSetTheorems, SequenceTheorems, WellFoundedInduction, TLAPS

-----------------------------------------------------------------------------
(* Induction.  The library's induction theorems have an operator for a       *)
(* parameter; that the naturals are well-founded is stated for a set.        *)

LEMMA LeastElement ==
    ASSUME NEW T \in SUBSET Nat, T # {}
    PROVE  \E n \in T : \A m \in T : n <= m
<1>1. \E n \in T : \A m \in T : ~(<<m, n>> \in OpToRel(<, Nat))
    BY WFMin, NatLessThanWellFounded, Zenon
<1>2. PICK n \in T : \A m \in T : ~(<<m, n>> \in OpToRel(<, Nat))
    BY <1>1
<1>3. ASSUME NEW m \in T PROVE n <= m
  <2>1. m \in Nat /\ n \in Nat
      OBVIOUS
  <2>2. ~(m < n)
      BY <1>2, <2>1 DEF OpToRel
  <2> QED BY <2>1, <2>2
<1> QED BY <1>3

LEMMA SetInduction ==
    ASSUME NEW n \in Nat, NEW S, 0 \in S,
           \A k \in 1..n : k - 1 \in S => k \in S
    PROVE  \A k \in 0..n : k \in S
<1> DEFINE T == {k \in 0..n : k \notin S}
<1> SUFFICES ASSUME T # {} PROVE FALSE
    OBVIOUS
<1>1. T \in SUBSET Nat
    OBVIOUS
<1>2. PICK k \in T : \A m \in T : k <= m
    BY LeastElement, <1>1
<1>3. k \in 1..n /\ k - 1 \in 0..n /\ k - 1 \notin T
    BY <1>2
<1> QED BY <1>3

Steps(n, St) == [1..n -> [St -> St]]

\* f starts with `init` and goes on by `step`.
Iterates(f, n, St, init, step) ==
    /\ f \in [0..n -> St]
    /\ f[0] = init
    /\ \A k \in 1..n : f[k] = step[k][f[k - 1]]

LEMMA Recursion ==
    ASSUME NEW n \in Nat, NEW St, NEW init \in St, NEW step \in Steps(n, St)
    PROVE  \E f : Iterates(f, n, St, init, step)
<1> USE DEF Steps, Iterates
<1> DEFINE Upto(m) == \E f \in [0..m -> St] :
               f[0] = init /\ \A k \in 1..m : f[k] = step[k][f[k - 1]]
           S == {m \in 0..n : Upto(m)}
<1>1. 0 \in S
  <2> DEFINE f == [k \in 0..0 |-> init]
  <2>1. f \in [0..0 -> St] /\ f[0] = init
      OBVIOUS
  <2>2. \A k \in 1..0 : f[k] = step[k][f[k - 1]]
      OBVIOUS
  <2>3. 0 \in 0..n
      OBVIOUS
  <2> HIDE DEF f
  <2>4. Upto(0)
      BY <2>1, <2>2
  <2> QED BY <2>3, <2>4
<1>2. ASSUME NEW m \in 1..n, m - 1 \in S PROVE m \in S
  <2>1. PICK f \in [0..(m - 1) -> St] :
            f[0] = init /\ \A k \in 1..(m - 1) : f[k] = step[k][f[k - 1]]
      BY <1>2
  <2> DEFINE g == [k \in 0..m |-> IF k = m THEN step[m][f[m - 1]] ELSE f[k]]
  <2>2. f[m - 1] \in St /\ step[m] \in [St -> St]
      OBVIOUS
  <2>3. step[m][f[m - 1]] \in St
      BY <2>2
  <2>4. g \in [0..m -> St]
      BY <2>3
  <2>5. g[0] = init
      BY <2>1
  <2>6. ASSUME NEW k \in 1..m PROVE g[k] = step[k][g[k - 1]]
    <3>1. CASE k = m
        BY <3>1
    <3>2. CASE k \in 1..(m - 1)
        BY <2>1, <3>2
    <3> QED BY <3>1, <3>2
  <2> HIDE DEF g
  <2>7. Upto(m)
      BY <2>4, <2>5, <2>6
  <2>8. m \in 0..n
      OBVIOUS
  <2> HIDE DEF Upto
  <2> QED BY <2>7, <2>8
<1> HIDE DEF S
<1>3. \A k \in 0..n : k \in S
    BY <1>1, <1>2, SetInduction
<1>4. Upto(n)
    BY <1>3 DEF S
<1> QED BY <1>4

-----------------------------------------------------------------------------
(* The invariant. *)

Unit == -2..(load.app + load.server)

SendSegment(U) == [seq : Nat, data : Seq(U), sent : BOOLEAN]

\* The send queue: sequence numbers rise, and all lie within one window of the
\* first.
SendQueue(U, segs, next) ==
    /\ next \in Nat \ {0}
    /\ segs \in Seq(SendSegment(U))
    /\ \A i \in 1..Len(segs) : segs[i].seq \in 1..(next - 1)
    /\ \A i, j \in 1..Len(segs) : i <= j => segs[j].seq - segs[i].seq >= j - i
    /\ segs # <<>> => next <= segs[1].seq + Window

HasSeq(seq) == \E g \in serverGot : g.seq = seq

\* What the client has of the server's segments.
Kept(seq) == seq \in 1..last_recv_complete_seq \/ seq \in SeqsOf(recv_segments)

Basics ==
    /\ load \in Loads
    /\ established \in BOOLEAN
    /\ send_fifo \in Seq(Unit) /\ Len(send_fifo) <= FifoUnits
    /\ pair \in Seq(Unit)
    /\ written \in 0..load.app
    /\ next_send_seq <= load.seq + 1
    /\ reply_acks \subseteq 1..load.server /\ Cardinality(reply_acks) <= Window

Sending ==
    /\ SendQueue(Unit, send_segments, next_send_seq)
    /\ \A g \in serverGot : g.seq \in 1..(next_send_seq - 1)
    /\ \A p \in toServer : p.data # <<>> => p.seq \in 1..(next_send_seq - 1)
    /\ QueuedUntilReceived
    /\ \A p \in toClient :
         /\ p.max_ack \in Nat
         /\ \A seq \in p.acks \cup 1..p.max_ack : HasSeq(seq)

\* How many units of data there are up to segment c of the server.
Below(c) == IF c = 0 THEN 0 ELSE c - 1

RecvSegment(U, last) == [seq : 1..last, data : Seq(U)]

Receiving ==
    /\ recv_segments \in Seq(RecvSegment(Unit, load.server))
    /\ Len(recv_segments) <= Window
    /\ \A i \in 1..Len(recv_segments) :
         recv_segments[i].data = ServerPayload(recv_segments[i].seq)
    /\ \A p \in toClient : p.data # <<>> =>
         p.seq \in 1..load.server /\ p.data = ServerPayload(p.seq)
    /\ last_recv_complete_seq \in 0..load.server
    /\ recv_fifo \in Seq(Unit) /\ Len(recv_fifo) <= FifoUnits
    /\ delivered \in Seq(Unit)
    /\ Len(delivered) + Len(recv_fifo) = Below(last_recv_complete_seq)
    /\ \A i \in 1..Len(delivered) : delivered[i] = i + 1
    /\ \A i \in 1..Len(recv_fifo) : recv_fifo[i] = Len(delivered) + i + 1

Acking ==
    /\ \A seq \in reply_acks : Kept(seq)
    /\ \A p \in toServer :
         /\ \A seq \in p.acks : Kept(seq)
         /\ p.max_ack \in 0..last_recv_complete_seq
    /\ \A seq \in serverAcked : Kept(seq)

StreamInv == Basics /\ Sending /\ Receiving /\ Acking

\* C[s] is how many units of data the segments up to s carry.
Counts(C, next) ==
    /\ C \in [0..(next - 1) -> Nat]
    /\ C[0] = 0
    /\ \A s \in 1..(next - 1) : C[s] \in {C[s - 1], C[s - 1] + 1}

\* Segment x carries the unit that is its turn, or is a keepalive.
Carries(C, x) ==
    IF C[x.seq] = C[x.seq - 1] THEN IsKeepAlive(x.data) ELSE x.data = <<C[x.seq - 1]>>

\* From unit c on, the FIFO and then the pair hold everything up to the last one.
Run(fifo, rest, c, last) ==
    /\ \A i \in 1..Len(fifo) : fifo[i] = c + i - 1
    /\ \A i \in 1..Len(rest) : rest[i] = c + Len(fifo) + i - 1
    /\ c + Len(fifo) + Len(rest) = last + 1

AllCarry(C, segs) == \A i \in 1..Len(segs) : Carries(C, segs[i])

Feeds(C, segs, next, fifo, rest, last) ==
    /\ Counts(C, next)
    /\ AllCarry(C, segs)
    /\ Run(fifo, rest, C[next - 1], last)

Upstream(C) ==
    /\ Feeds(C, send_segments, next_send_seq, send_fifo, pair, written)
    /\ \A p \in toServer : p.data # <<>> => Carries(C, p)
    /\ \A g \in serverGot : Carries(C, g)

UpstreamInv == \E C : Upstream(C)

-----------------------------------------------------------------------------
(* The operators. *)

LEMMA LeastOf ==
    ASSUME NEW a \in Nat, NEW b \in Nat
    PROVE  /\ Least(a, b) \in Nat
           /\ Least(a, b) <= a /\ Least(a, b) <= b
           /\ Least(a, b) = a \/ Least(a, b) = b
    BY DEF Least

LEMMA Concat ==
    ASSUME NEW S, NEW a \in Seq(S), NEW b \in Seq(S)
    PROVE  /\ a \o b \in Seq(S)
           /\ Len(a \o b) = Len(a) + Len(b)
           /\ \A i \in 1..Len(a) : (a \o b)[i] = a[i]
           /\ \A i \in 1..Len(b) : (a \o b)[Len(a) + i] = b[i]
    OBVIOUS

\* A sequence of one element at the end.
LEMMA ConcatOne ==
    ASSUME NEW S, NEW a \in Seq(S), NEW b \in Seq(S), Len(b) = 1
    PROVE  /\ a \o b \in Seq(S)
           /\ Len(a \o b) = Len(a) + 1
           /\ \A i \in 1..Len(a) : (a \o b)[i] = a[i]
           /\ (a \o b)[Len(a) + 1] = b[1]
    BY ConcatProperties

LEMMA Single ==
    ASSUME NEW S, NEW c \in S
    PROVE  <<c>> \in Seq(S) /\ Len(<<c>>) = 1 /\ <<c>>[1] = c
    OBVIOUS

Rises(r, b) == \A i \in 1..Len(r) : r[i] = b + i

\* One more of a run of consecutive numbers.
LEMMA ExtendRun ==
    ASSUME NEW S, NEW r \in Seq(S), NEW b \in Int, NEW c \in S, c = b + Len(r) + 1,
           Rises(r, b)
    PROVE  Len(r \o <<c>>) = Len(r) + 1 /\ Rises(r \o <<c>>, b)
<1>1. PICK x \in Seq(S) : x = <<c>> /\ Len(x) = 1 /\ x[1] = c
    BY Single
<1>2. PICK new : new = r \o x
    OBVIOUS
<1>3. /\ Len(new) = Len(r) + 1
      /\ \A i \in 1..Len(r) : new[i] = r[i]
      /\ new[Len(r) + 1] = c
    BY <1>1, <1>2, ConcatOne
<1>4. PICK l \in Nat : l = Len(r)
    OBVIOUS
<1>5. \A i \in 1..(l + 1) : new[i] = b + i
  <2> TAKE i \in 1..(l + 1)
  <2>1. CASE i \in 1..l
      BY <1>3, <1>4, <2>1 DEF Rises
  <2>2. CASE i = l + 1
      BY <1>3, <1>4, <2>2
  <2> QED BY <2>1, <2>2
<1>6. r \o <<c>> = new
    BY <1>1, <1>2
<1> QED BY <1>3, <1>4, <1>5, <1>6 DEF Rises

LEMMA TakeDrop ==
    ASSUME NEW S, NEW s \in Seq(S), NEW n \in Nat
    PROVE  /\ Take(s, n) \in Seq(S)
           /\ Len(Take(s, n)) = Least(n, Len(s))
           /\ \A i \in 1..Least(n, Len(s)) : Take(s, n)[i] = s[i]
           /\ Drop(s, n) \in Seq(S)
           /\ Len(Drop(s, n)) = Len(s) - Least(n, Len(s))
           /\ \A i \in 1..(Len(s) - Least(n, Len(s))) :
                 Drop(s, n)[i] = s[Least(n, Len(s)) + i]
<1>1. Least(n, Len(s)) \in 0..Len(s)
    BY DEF Least
<1> QED BY <1>1 DEF Take, Drop

\* s is x, of length a, and then y.
Split(S, s, a, x, y) ==
    /\ x \in Seq(S) /\ Len(x) = a
    /\ \A i \in 1..a : x[i] = s[i]
    /\ y \in Seq(S) /\ Len(y) = Len(s) - a
    /\ \A i \in 1..(Len(s) - a) : y[i] = s[a + i]

LEMMA TakeSome ==
    ASSUME NEW S, NEW s \in Seq(S), NEW a \in 0..Len(s)
    PROVE  Split(S, s, a, Take(s, a), Drop(s, a))
<1>0. PICK m \in Nat : m = Len(s)
    OBVIOUS
<1>1. a \in Nat /\ a <= m /\ Least(a, m) = a
    BY <1>0 DEF Least
<1>2. Take(s, a) = SubSeq(s, 1, a) /\ Drop(s, a) = SubSeq(s, a + 1, m)
    BY <1>0, <1>1 DEF Take, Drop
<1>3. /\ SubSeq(s, 1, a) \in Seq(S) /\ Len(SubSeq(s, 1, a)) = a
      /\ \A i \in 1..a : SubSeq(s, 1, a)[i] = s[i]
    BY <1>0, <1>1
<1>4. SubSeq(s, a + 1, m) \in Seq(S) /\ Len(SubSeq(s, a + 1, m)) = m - a
    BY <1>0, <1>1
<1>5. \A i \in 1..(m - a) : SubSeq(s, a + 1, m)[i] = s[a + i]
    BY <1>0, <1>1
<1> QED BY <1>0, <1>2, <1>3, <1>4, <1>5 DEF Split

LEMMA TakeOne ==
    ASSUME NEW S, NEW s \in Seq(S), s # <<>>
    PROVE  /\ Take(s, 1) \in Seq(S) /\ Len(Take(s, 1)) = 1 /\ Take(s, 1)[1] = s[1]
           /\ Drop(s, 1) \in Seq(S) /\ Len(Drop(s, 1)) = Len(s) - 1
           /\ \A i \in 1..(Len(s) - 1) : Drop(s, 1)[i] = s[1 + i]
<1>1. Len(s) \in Nat \ {0}
    OBVIOUS
<1>2. Least(1, Len(s)) = 1
    BY <1>1, LeastOf
<1>3. Take(s, 1) = SubSeq(s, 1, 1) /\ Drop(s, 1) = SubSeq(s, 2, Len(s))
  <2>1. Least(1, Len(s)) + 1 = 2
      BY <1>2
  <2> QED BY <1>2, <2>1 DEF Take, Drop
<1>4. /\ SubSeq(s, 1, 1) \in Seq(S) /\ Len(SubSeq(s, 1, 1)) = 1
      /\ SubSeq(s, 1, 1)[1] = s[1]
    BY <1>1
<1>5. SubSeq(s, 2, Len(s)) \in Seq(S) /\ Len(SubSeq(s, 2, Len(s))) = Len(s) - 1
  <2>1. SubSeq(s, 2, Len(s)) \in Seq(S)
      BY <1>1
  <2>2. CASE Len(s) = 1
      BY <1>1, <2>1, <2>2
  <2>3. CASE Len(s) > 1
      BY <1>1, <2>1, <2>3
  <2>4. PICK l \in Nat \ {0} : l = Len(s)
      BY <1>1
  <2>5. l = 1 \/ l > 1
      OBVIOUS
  <2> QED BY <2>2, <2>3, <2>4, <2>5
<1>6. \A i \in 1..(Len(s) - 1) : SubSeq(s, 2, Len(s))[i] = s[1 + i]
    BY <1>1
<1> QED BY <1>3, <1>4, <1>5, <1>6

\* rt_fifo_write keeps to the capacity.
LEMMA FifoWriteFits ==
    ASSUME NEW S, NEW fifo \in Seq(S), NEW data \in Seq(S), Len(fifo) <= FifoUnits
    PROVE  /\ FifoWrite(fifo, data) \in Seq(S)
           /\ Len(FifoWrite(fifo, data)) <= FifoUnits
    BY SessionAssumption DEF FifoWrite

\* The loop of rt_pump_pair_to_send.
Pumps(f, S, fifo, rest) ==
    /\ f \in [0..Len(rest) -> [fifo : Seq(S), pair : Seq(S)]]
    /\ f[0] = [fifo |-> fifo, pair |-> rest]
    /\ \A k \in 1..Len(rest) : f[k] =
         IF f[k - 1].pair = <<>> \/ Len(f[k - 1].fifo) >= FifoUnits THEN f[k - 1]
         ELSE [fifo |-> FifoWrite(f[k - 1].fifo, Take(f[k - 1].pair, SegmentUnits)),
               pair |-> Drop(f[k - 1].pair, SegmentUnits)]
    /\ PumpPairToSend(fifo, rest) = f[Len(rest)]

LEMMA PumpLoop ==
    ASSUME NEW S, NEW fifo \in Seq(S), NEW rest \in Seq(S)
    PROVE  \E f : Pumps(f, S, fifo, rest)
<1> DEFINE n == Len(rest)
           St == [fifo : Seq(S), pair : Seq(S)]
           init == [fifo |-> fifo, pair |-> rest]
           Step(k, r) ==
             IF r.pair = <<>> \/ Len(r.fifo) >= FifoUnits THEN r
             ELSE [fifo |-> FifoWrite(r.fifo, Take(r.pair, SegmentUnits)),
                   pair |-> Drop(r.pair, SegmentUnits)]
           step == [k \in 1..n |-> [r \in St |-> Step(k, r)]]
           Solves(f) == f = [k \in 0..n |-> IF k = 0 THEN init ELSE Step(k, f[k - 1])]
           sol == CHOOSE f : Solves(f)
<1>1. ASSUME NEW k \in 1..n, NEW r \in St PROVE Step(k, r) \in St
  <2>1. r.fifo \in Seq(S) /\ r.pair \in Seq(S)
      OBVIOUS
  <2>2. Take(r.pair, SegmentUnits) \in Seq(S) /\ Drop(r.pair, SegmentUnits) \in Seq(S)
      BY <2>1, TakeDrop, SessionAssumption
  <2>3. FifoWrite(r.fifo, Take(r.pair, SegmentUnits)) \in Seq(S)
      BY <2>1, <2>2 DEF FifoWrite
  <2> QED BY <2>2, <2>3
<1>2. PumpPairToSend(fifo, rest) = sol[n]
    BY DEF PumpPairToSend
<1> HIDE DEF Step, sol
<1>3. n \in Nat /\ init \in St /\ step \in Steps(n, St)
  <2>1. n \in Nat /\ init \in St
      OBVIOUS
  <2> HIDE DEF n, St, init
  <2> QED BY <2>1, <1>1 DEF Steps
<1> HIDE DEF n, St, init
<1>4. PICK f : Iterates(f, n, St, init, step)
  <2> HIDE DEF step
  <2> QED BY <1>3, Recursion
<1>5. Solves(f)
  <2>1. \A k \in 1..n : f[k] = Step(k, f[k - 1])
      BY <1>3, <1>4 DEF Iterates
  <2> QED BY <1>4, <2>1 DEF Iterates
<1>6. Solves(sol)
  <2> HIDE DEF Solves
  <2> QED BY <1>5 DEF sol
<1>7. sol[0] = init /\ \A k \in 1..n : sol[k] = Step(k, sol[k - 1])
  <2>1. \A k \in 0..n : sol[k] = IF k = 0 THEN init ELSE Step(k, sol[k - 1])
      BY <1>6
  <2> QED BY <2>1, <1>3
<1>8. \A k \in 0..n : sol[k] \in St
  <2> DEFINE T == {k \in Nat : sol[k] \in St}
  <2>1. 0 \in T
      BY <1>7, <1>3
  <2>2. ASSUME NEW k \in 1..n, k - 1 \in T PROVE k \in T
      BY <2>2, <1>1, <1>3, <1>7
  <2>3. \A k \in 0..n : k \in T
    <3> HIDE DEF T
    <3> QED BY <2>1, <2>2, <1>3, SetInduction
  <2> QED BY <2>3
<1>9. sol \in [0..n -> St]
    BY <1>6, <1>8
<1> QED BY <1>2, <1>7, <1>9 DEF Step, St, init, n, Pumps

\* The loop of rt_segment_send_fifo.
Cuts(f, U, segs, next, fifo) ==
    /\ f \in [0..Len(fifo) -> [segs : Seq(SendSegment(U)), next : Nat, fifo : Seq(U)]]
    /\ f[0] = [segs |-> segs, next |-> next, fifo |-> fifo]
    /\ \A k \in 1..Len(fifo) : f[k] =
         IF f[k - 1].fifo = <<>> \/ WindowFull(f[k - 1].segs, f[k - 1].next) THEN f[k - 1]
         ELSE [segs |-> QueueSegment(f[k - 1].segs, f[k - 1].next,
                                     Take(f[k - 1].fifo, SegmentUnits)),
               next |-> IF Len(f[k - 1].segs) >= Window THEN f[k - 1].next
                        ELSE f[k - 1].next + 1,
               fifo |-> Drop(f[k - 1].fifo, SegmentUnits)]
    /\ SegmentSendFifo(segs, next, fifo) = f[Len(fifo)]

LEMMA CutLoop ==
    ASSUME NEW U, NEW segs \in Seq(SendSegment(U)), NEW next \in Nat, NEW fifo \in Seq(U)
    PROVE  \E f : Cuts(f, U, segs, next, fifo)
<1> DEFINE n == Len(fifo)
           St == [segs : Seq(SendSegment(U)), next : Nat, fifo : Seq(U)]
           init == [segs |-> segs, next |-> next, fifo |-> fifo]
           Step(k, r) ==
             IF r.fifo = <<>> \/ WindowFull(r.segs, r.next) THEN r
             ELSE [segs |-> QueueSegment(r.segs, r.next, Take(r.fifo, SegmentUnits)),
                   next |-> IF Len(r.segs) >= Window THEN r.next ELSE r.next + 1,
                   fifo |-> Drop(r.fifo, SegmentUnits)]
           step == [k \in 1..n |-> [r \in St |-> Step(k, r)]]
           Solves(f) == f = [k \in 0..n |-> IF k = 0 THEN init ELSE Step(k, f[k - 1])]
           sol == CHOOSE f : Solves(f)
<1>1. ASSUME NEW k \in 1..n, NEW r \in St PROVE Step(k, r) \in St
  <2>1. r.fifo \in Seq(U) /\ r.segs \in Seq(SendSegment(U)) /\ r.next \in Nat
      OBVIOUS
  <2>2. Take(r.fifo, SegmentUnits) \in Seq(U) /\ Drop(r.fifo, SegmentUnits) \in Seq(U)
      BY <2>1, TakeDrop, SessionAssumption
  <2>3. [seq |-> r.next, data |-> Take(r.fifo, SegmentUnits), sent |-> FALSE] \in SendSegment(U)
      BY <2>1, <2>2 DEF SendSegment
  <2>4. QueueSegment(r.segs, r.next, Take(r.fifo, SegmentUnits)) \in Seq(SendSegment(U))
      BY <2>1, <2>3 DEF QueueSegment
  <2> QED BY <2>1, <2>2, <2>4
<1>2. SegmentSendFifo(segs, next, fifo) = sol[n]
    BY DEF SegmentSendFifo
<1> HIDE DEF Step, sol
<1>3. n \in Nat /\ init \in St /\ step \in Steps(n, St)
  <2>1. n \in Nat /\ init \in St
      OBVIOUS
  <2> HIDE DEF n, St, init
  <2> QED BY <2>1, <1>1 DEF Steps
<1> HIDE DEF n, St, init
<1>4. PICK f : Iterates(f, n, St, init, step)
  <2> HIDE DEF step
  <2> QED BY <1>3, Recursion
<1>5. Solves(f)
  <2>1. \A k \in 1..n : f[k] = Step(k, f[k - 1])
      BY <1>3, <1>4 DEF Iterates
  <2> QED BY <1>4, <2>1 DEF Iterates
<1>6. Solves(sol)
  <2> HIDE DEF Solves
  <2> QED BY <1>5 DEF sol
<1>7. sol[0] = init /\ \A k \in 1..n : sol[k] = Step(k, sol[k - 1])
  <2>1. \A k \in 0..n : sol[k] = IF k = 0 THEN init ELSE Step(k, sol[k - 1])
      BY <1>6
  <2> QED BY <2>1, <1>3
<1>8. \A k \in 0..n : sol[k] \in St
  <2> DEFINE T == {k \in Nat : sol[k] \in St}
  <2>1. 0 \in T
      BY <1>7, <1>3
  <2>2. ASSUME NEW k \in 1..n, k - 1 \in T PROVE k \in T
      BY <2>2, <1>1, <1>3, <1>7
  <2>3. \A k \in 0..n : k \in T
    <3> HIDE DEF T
    <3> QED BY <2>1, <2>2, <1>3, SetInduction
  <2> QED BY <2>3
<1>9. sol \in [0..n -> St]
    BY <1>6, <1>8
<1> QED BY <1>2, <1>7, <1>9 DEF Step, St, init, n, Cuts

\* The loop over the send queue in rt_process_ack.
Acks(f, S, segs, max_ack, acks) ==
    /\ f \in [0..Len(segs) -> Seq(S)]
    /\ f[0] = <<>>
    /\ \A k \in 1..Len(segs) : f[k] =
         IF segs[k].seq > max_ack /\ segs[k].seq \notin acks
           THEN Append(f[k - 1], segs[k]) ELSE f[k - 1]
    /\ ProcessAcks(segs, max_ack, acks) = f[Len(segs)]

LEMMA AckLoop ==
    ASSUME NEW S, NEW segs \in Seq(S), NEW max_ack, NEW acks
    PROVE  \E f : Acks(f, S, segs, max_ack, acks)
<1> DEFINE n == Len(segs)
           St == Seq(S)
           init == <<>>
           Step(k, r) ==
             IF segs[k].seq > max_ack /\ segs[k].seq \notin acks
               THEN Append(r, segs[k]) ELSE r
           step == [k \in 1..n |-> [r \in St |-> Step(k, r)]]
           Solves(f) == f = [k \in 0..n |-> IF k = 0 THEN init ELSE Step(k, f[k - 1])]
           sol == CHOOSE f : Solves(f)
<1>1. ASSUME NEW k \in 1..n, NEW r \in St PROVE Step(k, r) \in St
    OBVIOUS
<1>2. ProcessAcks(segs, max_ack, acks) = sol[n]
    BY DEF ProcessAcks
<1> HIDE DEF Step, sol
<1>3. n \in Nat /\ init \in St /\ step \in Steps(n, St)
  <2>1. n \in Nat /\ init \in St
      OBVIOUS
  <2> HIDE DEF n, St, init
  <2> QED BY <2>1, <1>1 DEF Steps
<1> HIDE DEF n, St, init
<1>4. PICK f : Iterates(f, n, St, init, step)
  <2> HIDE DEF step
  <2> QED BY <1>3, Recursion
<1>5. Solves(f)
  <2>1. \A k \in 1..n : f[k] = Step(k, f[k - 1])
      BY <1>3, <1>4 DEF Iterates
  <2> QED BY <1>4, <2>1 DEF Iterates
<1>6. Solves(sol)
  <2> HIDE DEF Solves
  <2> QED BY <1>5 DEF sol
<1>7. sol[0] = init /\ \A k \in 1..n : sol[k] = Step(k, sol[k - 1])
  <2>1. \A k \in 0..n : sol[k] = IF k = 0 THEN init ELSE Step(k, sol[k - 1])
      BY <1>6
  <2> QED BY <2>1, <1>3
<1>8. \A k \in 0..n : sol[k] \in St
  <2> DEFINE T == {k \in Nat : sol[k] \in St}
  <2>1. 0 \in T
      BY <1>7, <1>3
  <2>2. ASSUME NEW k \in 1..n, k - 1 \in T PROVE k \in T
      BY <2>2, <1>1, <1>3, <1>7
  <2>3. \A k \in 0..n : k \in T
    <3> HIDE DEF T
    <3> QED BY <2>1, <2>2, <1>3, SetInduction
  <2> QED BY <2>3
<1>9. sol \in [0..n -> St]
    BY <1>6, <1>8
<1> QED BY <1>2, <1>7, <1>9 DEF Step, St, init, n, Acks

\* The data of the drained segments, one after the other.
Unpacks(f, S, segs, m) ==
    /\ f \in [0..m -> Seq(S)]
    /\ f[0] = <<>>
    /\ \A k \in 1..m : f[k] =
         f[k - 1] \o (IF IsKeepAlive(segs[k].data) THEN <<>> ELSE segs[k].data)
    /\ DrainedData(segs, m) = f[m]

HoldData(S, segs, m) == \A i \in 1..m : segs[i].data \in Seq(S)

LEMMA DrainLoop ==
    ASSUME NEW S, NEW segs, NEW m \in Nat, HoldData(S, segs, m)
    PROVE  \E f : Unpacks(f, S, segs, m)
<1> DEFINE n == m
           St == Seq(S)
           init == <<>>
           Step(k, r) ==
             r \o (IF IsKeepAlive(segs[k].data) THEN <<>> ELSE segs[k].data)
           step == [k \in 1..n |-> [r \in St |-> Step(k, r)]]
           Solves(f) == f = [k \in 0..n |-> IF k = 0 THEN init ELSE Step(k, f[k - 1])]
           sol == CHOOSE f : Solves(f)
<1>1. ASSUME NEW k \in 1..n, NEW r \in St PROVE Step(k, r) \in St
    BY DEF HoldData
<1>2. DrainedData(segs, m) = sol[n]
    BY DEF DrainedData
<1> HIDE DEF Step, sol
<1>3. n \in Nat /\ init \in St /\ step \in Steps(n, St)
  <2>1. n \in Nat /\ init \in St
      OBVIOUS
  <2> HIDE DEF n, St, init
  <2> QED BY <2>1, <1>1 DEF Steps
<1> HIDE DEF n, St, init
<1>4. PICK f : Iterates(f, n, St, init, step)
  <2> HIDE DEF step
  <2> QED BY <1>3, Recursion
<1>5. Solves(f)
  <2>1. \A k \in 1..n : f[k] = Step(k, f[k - 1])
      BY <1>3, <1>4 DEF Iterates
  <2> QED BY <1>4, <2>1 DEF Iterates
<1>6. Solves(sol)
  <2> HIDE DEF Solves
  <2> QED BY <1>5 DEF sol
<1>7. sol[0] = init /\ \A k \in 1..n : sol[k] = Step(k, sol[k - 1])
  <2>1. \A k \in 0..n : sol[k] = IF k = 0 THEN init ELSE Step(k, sol[k - 1])
      BY <1>6
  <2> QED BY <2>1, <1>3
<1>8. \A k \in 0..n : sol[k] \in St
  <2> DEFINE T == {k \in Nat : sol[k] \in St}
  <2>1. 0 \in T
      BY <1>7, <1>3
  <2>2. ASSUME NEW k \in 1..n, k - 1 \in T PROVE k \in T
      BY <2>2, <1>1, <1>3, <1>7
  <2>3. \A k \in 0..n : k \in T
    <3> HIDE DEF T
    <3> QED BY <2>1, <2>2, <1>3, SetInduction
  <2> QED BY <2>3
<1>9. sol \in [0..n -> St]
    BY <1>6, <1>8
<1> QED BY <1>2, <1>7, <1>9 DEF Step, St, init, n, Unpacks


-----------------------------------------------------------------------------
(* Draining. *)

InOrder(segs, c, m) == \A i \in 1..m : segs[i].seq = c + i

FromServer(segs) == \A i \in 1..Len(segs) : segs[i].data = ServerPayload(segs[i].seq)

\* The server's segments from c + 1 on carry its units, one after the other.
LEMMA DrainedUnits ==
    ASSUME NEW U, NEW last \in Nat, NEW segs \in Seq(RecvSegment(U, last)),
           NEW c \in Nat, NEW m \in 0..Len(segs),
           InOrder(segs, c, m), FromServer(segs)
    PROVE  /\ DrainedData(segs, m) \in Seq(U)
           /\ Len(DrainedData(segs, m)) = Below(c + m) - Below(c)
           /\ \A i \in 1..Len(DrainedData(segs, m)) :
                 DrainedData(segs, m)[i] = Below(c) + i + 1
<1>1. m \in Nat /\ \A i \in 1..m : segs[i] \in RecvSegment(U, last)
    OBVIOUS
<1>2. HoldData(U, segs, m)
    BY <1>1 DEF RecvSegment, HoldData
<1>3. PICK f : Unpacks(f, U, segs, m)
    BY <1>1, <1>2, DrainLoop
<1> DEFINE Good(k) == /\ Len(f[k]) = Below(c + k) - Below(c)
                      /\ \A i \in 1..Len(f[k]) : f[k][i] = Below(c) + 1 + i
           T == {k \in Nat : Good(k)}
<1>4. f \in [0..m -> Seq(U)] /\ f[0] = <<>> /\ Below(c) \in Nat
    BY <1>3 DEF Unpacks, Below
<1>5. 0 \in T
    BY <1>4
<1>6. ASSUME NEW k \in 1..m, k - 1 \in T PROVE k \in T
  <2>1. PICK r \in Seq(U) : r = f[k - 1]
    <3> HIDE DEF T
    <3>1. k - 1 \in 0..m
        BY <1>1
    <3> QED BY <1>4, <3>1
  <2>2. f[k] = r \o (IF IsKeepAlive(segs[k].data) THEN <<>> ELSE segs[k].data)
      BY <1>3, <2>1 DEF Unpacks
  <2>3. Len(r) = Below(c + (k - 1)) - Below(c) /\ \A i \in 1..Len(r) : r[i] = Below(c) + 1 + i
      BY <1>6, <2>1
  <2>4. segs[k].data = ServerPayload(c + k)
    <3>1. k \in 1..Len(segs) /\ segs[k].seq = c + k
        BY <1>1 DEF InOrder
    <3> QED BY <3>1 DEF FromServer
  <2>5. CASE c + k = 1
    <3>1. IsKeepAlive(segs[k].data)
        BY <2>4, <2>5 DEF IsKeepAlive, ServerPayload
    <3>2. f[k] = r \o <<>>
        BY <2>2, <3>1
    <3>3. f[k] = r
        BY <3>2
    <3>4. Below(c + k) = Below(c + (k - 1))
        BY <2>5 DEF Below
    <3>5. Good(k)
        BY <2>3, <3>3, <3>4
    <3> QED BY <3>5
  <2>6. CASE c + k # 1
    <3>1. segs[k].data = <<c + k>>
        BY <2>4, <2>6 DEF ServerPayload
    <3>2. ~IsKeepAlive(segs[k].data)
        BY <3>1 DEF IsKeepAlive, magic_req, magic_resp
    <3>3. f[k] = r \o <<c + k>>
        BY <2>2, <3>1, <3>2
    <3>4. c + k \in U
      <4>1. <<c + k>> \in Seq(U)
          BY <1>2, <3>1 DEF HoldData
      <4> QED BY <4>1
    <3>5. Below(c + k) = Below(c + (k - 1)) + 1 /\ c + k = Below(c + k) + 1
        BY <2>6 DEF Below
    <3>6. PICK b \in Int : b = Below(c) + 1
        BY <1>4
    <3>7. c + k = b + Len(r) + 1
      <4>1. Below(c + (k - 1)) \in Nat
          BY DEF Below
      <4> QED BY <1>4, <2>3, <3>5, <3>6, <4>1
    <3>8. Rises(r, b)
        BY <2>3, <3>6 DEF Rises
    <3>9. Len(f[k]) = Len(r) + 1 /\ Rises(f[k], b)
      <4>1. PICK v \in U : v = c + k
          BY <3>4
      <4>2. v = b + Len(r) + 1 /\ f[k] = r \o <<v>>
          BY <3>3, <3>7, <4>1
      <4>3. Len(r \o <<v>>) = Len(r) + 1 /\ Rises(r \o <<v>>, b)
          BY <3>8, <4>2, ExtendRun, Zenon
      <4> QED BY <4>2, <4>3
    <3>10. Len(f[k]) = Below(c + k) - Below(c)
      <4>1. Below(c + (k - 1)) \in Nat
          BY DEF Below
      <4> QED BY <1>4, <2>3, <3>5, <3>9, <4>1
    <3>11. Good(k)
        BY <3>6, <3>9, <3>10 DEF Rises
    <3> QED BY <3>11
  <2> QED BY <2>5, <2>6
<1>7. \A k \in 0..m : k \in T
  <2> HIDE DEF T
  <2> QED BY <1>1, <1>5, <1>6, SetInduction
<1>8. Good(m)
  <2> HIDE DEF Good
  <2> QED BY <1>1, <1>7
<1>9. DrainedData(segs, m) = f[m] /\ f[m] \in Seq(U)
    BY <1>1, <1>3, <1>4 DEF Unpacks
<1>10. \A i \in 1..Len(f[m]) : f[m][i] = Below(c) + i + 1
  <2> TAKE i \in 1..Len(f[m])
  <2>1. f[m][i] = Below(c) + 1 + i
      BY <1>8
  <2> QED BY <1>4, <2>1
<1> QED BY <1>8, <1>9, <1>10

\* The drain loop stops somewhere.
LEMMA DrainStops ==
    ASSUME NEW U, NEW last \in Nat, NEW segs \in Seq(RecvSegment(U, last)),
           NEW c \in Nat, NEW fifo \in Seq(U), Len(fifo) <= FifoUnits,
           FromServer(segs)
    PROVE  /\ DrainCount(segs, c, fifo) \in 0..Len(segs)
           /\ Drains(segs, c, fifo, DrainCount(segs, c, fifo))
<1> DEFINE len == Len(segs)
           D(m) == Drains(segs, c, fifo, m)
           T == {k \in 0..len : D(len - k)}
<1>1. D(0)
  <2>1. 0 \in 0..Len(segs) /\ InOrder(segs, c, 0)
      BY DEF InOrder
  <2>2. Len(DrainedData(segs, 0)) = Below(c + 0) - Below(c)
      BY <2>1, DrainedUnits
  <2>3. Len(DrainedData(segs, 0)) = 0
      BY <2>2 DEF Below
  <2> QED BY <2>1, <2>3 DEF Drains, InOrder
<1> HIDE DEF D
<1>2. len \in Nat /\ len \in T /\ T \in SUBSET Nat
    BY <1>1
<1>3. PICK k \in T : \A j \in T : k <= j
    BY <1>2, LeastElement
<1> DEFINE n == len - k
<1>4. n \in 0..len /\ D(n) /\ \A m \in (n + 1)..len : ~D(m)
  <2>1. n \in 0..len /\ D(n)
      BY <1>2
  <2>2. ASSUME NEW m \in (n + 1)..len, D(m) PROVE FALSE
    <3>1. len - m \in 0..len /\ len - (len - m) = m
        BY <1>2, <2>1
    <3>2. len - m \in T
        BY <3>1, <2>2
    <3> QED BY <3>2, <1>3, <1>2, <2>1
  <2> QED BY <2>1, <2>2
<1> HIDE DEF n
<1>5. \E j \in 0..len : D(j) /\ \A m \in (j + 1)..len : ~D(m)
    BY <1>4
<1> QED BY <1>5 DEF DrainCount, D

-----------------------------------------------------------------------------
(* Taking the application's bytes. *)

\* rt_pump_pair_to_send keeps to the FIFO's capacity.
LEMMA PumpFits ==
    ASSUME NEW U, NEW fifo \in Seq(U), NEW rest \in Seq(U), Len(fifo) <= FifoUnits
    PROVE  /\ PumpPairToSend(fifo, rest).fifo \in Seq(U)
           /\ Len(PumpPairToSend(fifo, rest).fifo) <= FifoUnits
           /\ PumpPairToSend(fifo, rest).pair \in Seq(U)
<1> DEFINE n == Len(rest)
<1>1. PICK f : Pumps(f, U, fifo, rest)
    BY PumpLoop
<1> DEFINE T == {k \in Nat : Len(f[k].fifo) <= FifoUnits}
<1>2. n \in Nat /\ 0 \in T
    BY <1>1 DEF Pumps
<1>3. ASSUME NEW k \in 1..n, k - 1 \in T PROVE k \in T
  <2>1. PICK r \in [fifo : Seq(U), pair : Seq(U)] : r = f[k - 1]
    <3> HIDE DEF T
    <3>1. k - 1 \in 0..n
        BY <1>2
    <3> QED BY <1>1, <3>1 DEF Pumps
  <2>2. f[k] = IF r.pair = <<>> \/ Len(r.fifo) >= FifoUnits THEN r
               ELSE [fifo |-> FifoWrite(r.fifo, Take(r.pair, SegmentUnits)),
                     pair |-> Drop(r.pair, SegmentUnits)]
      BY <1>1, <2>1 DEF Pumps
  <2>3. r.fifo \in Seq(U) /\ r.pair \in Seq(U) /\ Len(r.fifo) <= FifoUnits
      BY <1>3, <2>1
  <2>4. Take(r.pair, SegmentUnits) \in Seq(U)
      BY <2>3, TakeDrop, SessionAssumption
  <2>5. Len(FifoWrite(r.fifo, Take(r.pair, SegmentUnits))) <= FifoUnits
      BY <2>3, <2>4, FifoWriteFits
  <2> QED BY <2>2, <2>3, <2>5
<1>4. \A k \in 0..n : k \in T
  <2> HIDE DEF T
  <2> QED BY <1>2, <1>3, SetInduction
<1> QED BY <1>1, <1>2, <1>4 DEF Pumps

\* With segments of one unit what it reads fits.
LEMMA PumpStep ==
    ASSUME SegmentUnits = 1,
           NEW U, NEW a \in Seq(U), NEW b \in Seq(U),
           NEW c \in Nat, NEW last \in Nat, Run(a, b, c, last),
           b # <<>>, Len(a) < FifoUnits
    PROVE  Run(FifoWrite(a, Take(b, SegmentUnits)), Drop(b, SegmentUnits), c, last)
<1> DEFINE x == Take(b, 1)
           a1 == FifoWrite(a, x)
           b1 == Drop(b, 1)
<1>1. Len(b) \in Nat \ {0} /\ Len(a) \in Nat
    OBVIOUS
<1>3. /\ x \in Seq(U) /\ Len(x) = 1 /\ x[1] = b[1]
      /\ b1 \in Seq(U) /\ Len(b1) = Len(b) - 1
      /\ \A i \in 1..(Len(b) - 1) : b1[i] = b[1 + i]
    BY TakeOne
<1> HIDE DEF x, b1
<1>4. a1 = a \o x
    BY <1>1, <1>3, SessionAssumption DEF FifoWrite
<1> HIDE DEF a1
<1>5. /\ Len(a1) = Len(a) + 1
      /\ \A i \in 1..Len(a) : a1[i] = a[i]
      /\ a1[Len(a) + 1] = b[1]
    BY <1>3, <1>4, ConcatOne
<1>6. b[1] = c + Len(a) /\ c + Len(a1) + Len(b1) = last + 1
  <2>1. 1 \in 1..Len(b)
      BY <1>1
  <2>2. b[1] = c + Len(a) + 1 - 1
      BY <2>1 DEF Run
  <2> QED BY <2>2, <1>1, <1>3, <1>5 DEF Run
<1>7. \A i \in 1..Len(a1) : a1[i] = c + i - 1
  <2> TAKE i \in 1..Len(a1)
  <2>1. CASE i \in 1..Len(a)
      BY <2>1, <1>5 DEF Run
  <2>2. CASE i = Len(a) + 1
      BY <2>2, <1>1, <1>5, <1>6
  <2> QED BY <2>1, <2>2, <1>1, <1>5
<1>8. \A i \in 1..Len(b1) : b1[i] = c + Len(a1) + i - 1
  <2> TAKE i \in 1..Len(b1)
  <2>1. b1[i] = b[1 + i] /\ 1 + i \in 1..Len(b)
      BY <1>1, <1>3
  <2>2. b[1 + i] = c + Len(a) + (1 + i) - 1
      BY <2>1 DEF Run
  <2> QED BY <2>1, <2>2, <1>1, <1>5
<1>9. Run(a1, b1, c, last)
    BY <1>6, <1>7, <1>8 DEF Run
<1> QED BY <1>9 DEF a1, b1, x

\* So rt_pump_pair_to_send loses nothing.
LEMMA PumpRun ==
    ASSUME SegmentUnits = 1,
           NEW U, NEW fifo \in Seq(U), NEW rest \in Seq(U),
           NEW c \in Nat, NEW last \in Nat, Run(fifo, rest, c, last)
    PROVE  Run(PumpPairToSend(fifo, rest).fifo, PumpPairToSend(fifo, rest).pair, c, last)
<1> DEFINE n == Len(rest)
<1>1. PICK f : Pumps(f, U, fifo, rest)
    BY PumpLoop
<1> DEFINE T == {k \in Nat : Run(f[k].fifo, f[k].pair, c, last)}
<1>2. n \in Nat /\ 0 \in T
    BY <1>1 DEF Pumps
<1>3. ASSUME NEW k \in 1..n, k - 1 \in T PROVE k \in T
  <2>1. PICK r \in [fifo : Seq(U), pair : Seq(U)] : r = f[k - 1]
    <3> HIDE DEF T
    <3>1. k - 1 \in 0..n
        BY <1>2
    <3> QED BY <1>1, <3>1 DEF Pumps
  <2>2. f[k] = IF r.pair = <<>> \/ Len(r.fifo) >= FifoUnits THEN r
               ELSE [fifo |-> FifoWrite(r.fifo, Take(r.pair, SegmentUnits)),
                     pair |-> Drop(r.pair, SegmentUnits)]
      BY <1>1, <2>1 DEF Pumps
  <2>3. r.fifo \in Seq(U) /\ r.pair \in Seq(U) /\ Run(r.fifo, r.pair, c, last)
      BY <1>3, <2>1
  <2>4. CASE r.pair = <<>> \/ Len(r.fifo) >= FifoUnits
      BY <2>2, <2>3, <2>4
  <2>5. CASE r.pair # <<>> /\ Len(r.fifo) < FifoUnits
    <3>1. Run(FifoWrite(r.fifo, Take(r.pair, SegmentUnits)), Drop(r.pair, SegmentUnits), c, last)
        BY <2>3, <2>5, PumpStep
    <3>2. /\ f[k].fifo = FifoWrite(r.fifo, Take(r.pair, SegmentUnits))
          /\ f[k].pair = Drop(r.pair, SegmentUnits)
        BY <2>2, <2>3, <2>5, SessionAssumption
    <3> QED BY <3>1, <3>2
  <2> QED BY <2>3, <2>4, <2>5, SessionAssumption
<1>4. \A k \in 0..n : k \in T
  <2> HIDE DEF T
  <2> QED BY <1>2, <1>3, SetInduction
<1> QED BY <1>1, <1>2, <1>4 DEF Pumps

-----------------------------------------------------------------------------
(* The send queue. *)

\* The queue never holds more than a window, and has room when
\* rt_segment_send_fifo's test passes: rt_queue_segment's silent return is
\* never taken.
LEMMA QueueRoom ==
    ASSUME NEW U, NEW segs, NEW next, SendQueue(U, segs, next)
    PROVE  /\ Len(segs) <= Window
           /\ ~WindowFull(segs, next) => Len(segs) < Window
<1> DEFINE n == Len(segs)
<1>1. n \in Nat /\ next \in Nat /\ Window \in Nat \ {0}
    BY SessionAssumption DEF SendQueue
<1>2. CASE segs = <<>>
    BY <1>1, <1>2
<1>3. CASE segs # <<>>
  <2>1. n \in 1..n /\ 1 \in 1..n
      BY <1>1, <1>3 DEF SendQueue
  <2>2. segs[1].seq \in Nat /\ segs[n].seq \in Nat /\ segs[n].seq <= next - 1
      BY <1>1, <2>1 DEF SendQueue
  <2>3. segs[n].seq - segs[1].seq >= n - 1
      BY <2>1 DEF SendQueue
  <2>4. next <= segs[1].seq + Window
      BY <1>3 DEF SendQueue
  <2>5. ASSUME ~WindowFull(segs, next) PROVE next <= segs[1].seq + Window - 1
      BY <1>1, <1>3, <2>2, <2>5 DEF WindowFull
  <2> HIDE DEF n
  <2>6. n <= Window
      BY <1>1, <2>2, <2>3, <2>4
  <2>7. ASSUME ~WindowFull(segs, next) PROVE n < Window
      BY <1>1, <2>2, <2>3, <2>5, <2>7
  <2> QED BY <2>6, <2>7 DEF n
<1> QED BY <1>2, <1>3

\* From one queue to a longer one, with every sequence number in between.
Grown(segs, next, new, m) ==
    /\ next <= m
    /\ Len(segs) <= Len(new)
    /\ \A i \in 1..Len(segs) : new[i] = segs[i]
    /\ \A s \in next..(m - 1) : s \in SeqsOf(new)

LEMMA Enqueue ==
    ASSUME NEW U, NEW segs, NEW next, SendQueue(U, segs, next), NEW data \in Seq(U),
           ~WindowFull(segs, next)
    PROVE  /\ QueueSegment(segs, next, data) =
                Append(segs, [seq |-> next, data |-> data, sent |-> FALSE])
           /\ SendQueue(U, QueueSegment(segs, next, data), next + 1)
           /\ Grown(segs, next, QueueSegment(segs, next, data), next + 1)
<1> DEFINE n == Len(segs)
           x == [seq |-> next, data |-> data, sent |-> FALSE]
           new == Append(segs, x)
<1>1. n \in Nat /\ next \in Nat \ {0} /\ Window \in Nat \ {0} /\ n < Window
  <2>1. n \in Nat /\ next \in Nat \ {0}
      BY DEF SendQueue
  <2>2. n < Window
      BY QueueRoom
  <2> QED BY <2>1, <2>2, SessionAssumption
<1>2. QueueSegment(segs, next, data) = new
    BY <1>1 DEF QueueSegment
<1>3. x \in SendSegment(U) /\ x.seq = next
    BY <1>1 DEF SendSegment
<1> HIDE DEF x
<1>4. segs \in Seq(SendSegment(U))
    BY DEF SendQueue
<1>5. /\ new \in Seq(SendSegment(U)) /\ Len(new) = n + 1
      /\ \A i \in 1..n : new[i] = segs[i]
      /\ new[n + 1] = x
    BY <1>3, <1>4
<1> HIDE DEF new
<1>6. \A i \in 1..n : segs[i].seq \in 1..(next - 1)
    BY DEF SendQueue
<1>7. \A i \in 1..(n + 1) : new[i].seq \in 1..next
  <2> TAKE i \in 1..(n + 1)
  <2>1. CASE i \in 1..n
      BY <2>1, <1>1, <1>5, <1>6
  <2>2. CASE i = n + 1
      BY <2>2, <1>1, <1>3, <1>5
  <2> QED BY <1>1, <2>1, <2>2
<1>8. \A i \in 1..n : next - segs[i].seq >= n + 1 - i
  <2> TAKE i \in 1..n
  <2>1. n \in 1..n /\ i \in Nat /\ i <= n
      BY <1>1
  <2>2. segs[n].seq - segs[i].seq >= n - i
      BY <2>1 DEF SendQueue
  <2>3. segs[n].seq \in 1..(next - 1) /\ segs[i].seq \in 1..(next - 1)
      BY <1>6, <2>1
  <2> HIDE DEF n
  <2> QED BY <1>1, <2>1, <2>2, <2>3
<1>9. \A i, j \in 1..(n + 1) : i <= j => new[j].seq - new[i].seq >= j - i
  <2> TAKE i, j \in 1..(n + 1)
  <2> HAVE i <= j
  <2>1. CASE j \in 1..n
    <3>1. i \in 1..n
        BY <1>1, <2>1
    <3>2. segs[j].seq - segs[i].seq >= j - i
        BY <2>1, <3>1 DEF SendQueue
    <3> QED BY <1>5, <2>1, <3>1, <3>2
  <2>2. CASE j = n + 1 /\ i \in 1..n
      BY <1>1, <1>3, <1>5, <1>8, <2>2
  <2>3. CASE j = n + 1 /\ i = n + 1
      BY <1>1, <1>3, <1>5, <2>3
  <2> QED BY <1>1, <2>1, <2>2, <2>3
<1>10. next + 1 <= new[1].seq + Window
  <2>1. CASE segs = <<>>
    <3>1. n = 0
        BY <2>1
    <3>2. new[1] = x
        BY <1>5, <3>1
    <3> QED BY <1>1, <1>3, <3>2
  <2>2. CASE segs # <<>>
    <3>1. 1 \in 1..n
        BY <1>1, <1>4, <2>2
    <3>2. new[1] = segs[1] /\ segs[1].seq \in Nat
        BY <1>1, <1>5, <1>6, <3>1
    <3>3. next <= segs[1].seq + Window - 1
        BY <1>1, <2>2, <3>2 DEF WindowFull
    <3> QED BY <1>1, <3>2, <3>3
  <2> QED BY <2>1, <2>2
<1>11. SendQueue(U, new, next + 1)
  <2>1. next + 1 \in Nat \ {0} /\ (next + 1) - 1 = next
      BY <1>1
  <2> QED BY <1>5, <1>7, <1>9, <1>10, <2>1 DEF SendQueue
<1>12. Grown(segs, next, new, next + 1)
  <2>1. next \in SeqsOf(new)
      BY <1>1, <1>3, <1>5 DEF SeqsOf
  <2>2. \A s \in next..((next + 1) - 1) : s = next
      BY <1>1
  <2> QED BY <1>1, <1>5, <2>1, <2>2 DEF Grown
<1> QED BY <1>2, <1>11, <1>12 DEF new, x

LEMMA GrownTwice ==
    ASSUME NEW a, NEW b, NEW c, NEW l \in Nat, NEW m \in Nat, NEW n \in Nat,
           Len(a) \in Nat, Len(b) \in Nat, Len(c) \in Nat,
           Grown(a, l, b, m), Grown(b, m, c, n)
    PROVE  Grown(a, l, c, n)
<1>1. SeqsOf(b) \subseteq SeqsOf(c)
    BY DEF Grown, SeqsOf
<1>2. l <= n /\ Len(a) <= Len(c)
    BY DEF Grown
<1>3. \A i \in 1..Len(a) : c[i] = a[i]
    BY DEF Grown
<1>4. \A s \in l..(n - 1) : s \in SeqsOf(c)
  <2> TAKE s \in l..(n - 1)
  <2>1. CASE s \in l..(m - 1)
      BY <1>1, <2>1 DEF Grown
  <2>2. CASE s \in m..(n - 1)
      BY <2>2 DEF Grown
  <2> QED BY <2>1, <2>2
<1> QED BY <1>2, <1>3, <1>4 DEF Grown

LEMMA GrownNot ==
    ASSUME NEW a, NEW l \in Nat, Len(a) \in Nat
    PROVE  Grown(a, l, a, l)
    BY DEF Grown

\* What rt_segment_send_fifo makes of the queue.
LEMMA CutGrows ==
    ASSUME NEW U, NEW segs, NEW next, SendQueue(U, segs, next), NEW fifo \in Seq(U)
    PROVE  /\ SendQueue(U, SegmentSendFifo(segs, next, fifo).segs,
                       SegmentSendFifo(segs, next, fifo).next)
           /\ Grown(segs, next, SegmentSendFifo(segs, next, fifo).segs,
                                SegmentSendFifo(segs, next, fifo).next)
           /\ SegmentSendFifo(segs, next, fifo).fifo \in Seq(U)
           /\ Len(SegmentSendFifo(segs, next, fifo).fifo) <= Len(fifo)
<1> DEFINE n == Len(fifo)
           St == [segs : Seq(SendSegment(U)), next : Nat, fifo : Seq(U)]
<1>1. segs \in Seq(SendSegment(U)) /\ next \in Nat /\ n \in Nat
    BY DEF SendQueue
<1>2. PICK f : Cuts(f, U, segs, next, fifo)
    BY <1>1, CutLoop
<1> DEFINE Good(r) == /\ SendQueue(U, r.segs, r.next)
                      /\ Grown(segs, next, r.segs, r.next)
                      /\ Len(r.fifo) <= n
           T == {k \in Nat : Good(f[k])}
<1>3. f \in [0..n -> St] /\ f[0] = [segs |-> segs, next |-> next, fifo |-> fifo]
    BY <1>2 DEF Cuts
<1>4. 0 \in T
  <2>1. Len(segs) \in Nat
      BY <1>1
  <2>2. Grown(segs, next, segs, next)
      BY <1>1, <2>1, GrownNot
  <2> QED BY <1>1, <1>3, <2>2
<1>5. ASSUME NEW k \in 1..n, k - 1 \in T PROVE k \in T
  <2>1. PICK r \in St : r = f[k - 1]
    <3> HIDE DEF T
    <3>1. k - 1 \in 0..n
        BY <1>1
    <3> QED BY <1>3, <3>1
  <2>2. f[k] = IF r.fifo = <<>> \/ WindowFull(r.segs, r.next) THEN r
               ELSE [segs |-> QueueSegment(r.segs, r.next, Take(r.fifo, SegmentUnits)),
                     next |-> IF Len(r.segs) >= Window THEN r.next ELSE r.next + 1,
                     fifo |-> Drop(r.fifo, SegmentUnits)]
      BY <1>2, <2>1 DEF Cuts
  <2>3. r.segs \in Seq(SendSegment(U)) /\ r.next \in Nat /\ r.fifo \in Seq(U) /\ Good(r)
      BY <1>5, <2>1
  <2>4. CASE r.fifo = <<>> \/ WindowFull(r.segs, r.next)
      BY <2>2, <2>3, <2>4
  <2>5. CASE ~(r.fifo = <<>> \/ WindowFull(r.segs, r.next))
    <3> DEFINE new == QueueSegment(r.segs, r.next, Take(r.fifo, SegmentUnits))
               rest == Drop(r.fifo, SegmentUnits)
    <3>1. Take(r.fifo, SegmentUnits) \in Seq(U)
        BY <2>3, TakeDrop, SessionAssumption
    <3>2. Len(r.segs) < Window
        BY <2>3, <2>5, QueueRoom
    <3>3. SendQueue(U, new, r.next + 1) /\ Grown(r.segs, r.next, new, r.next + 1)
        BY <2>3, <2>5, <3>1, Enqueue
    <3>4. rest \in Seq(U) /\ Len(rest) <= Len(r.fifo)
      <4>1. /\ rest \in Seq(U)
            /\ Len(rest) = Len(r.fifo) - Least(SegmentUnits, Len(r.fifo))
          BY <2>3, TakeDrop, SessionAssumption
      <4>2. Len(r.fifo) \in Nat /\ SegmentUnits \in Nat
          BY <2>3, SessionAssumption
      <4>3. Least(SegmentUnits, Len(r.fifo)) \in Nat
          BY <4>2, LeastOf
      <4> QED BY <4>1, <4>2, <4>3
    <3>5. f[k].segs = new /\ f[k].next = r.next + 1 /\ f[k].fifo = rest
      <4>1. ~(Len(r.segs) >= Window)
          BY <2>3, <3>2, SessionAssumption
      <4> QED BY <2>2, <2>5, <4>1
    <3> HIDE DEF new, rest
    <3>6. Len(segs) \in Nat /\ Len(r.segs) \in Nat /\ Len(new) \in Nat /\ r.next + 1 \in Nat
        BY <1>1, <2>3, <3>3 DEF SendQueue
    <3>7. Grown(segs, next, new, r.next + 1)
        BY <1>1, <2>3, <3>3, <3>6, GrownTwice
    <3>8. Len(rest) <= n
        BY <1>1, <2>3, <3>4
    <3>9. Good(f[k])
        BY <3>3, <3>5, <3>7, <3>8
    <3> QED BY <3>9
  <2> QED BY <2>4, <2>5
<1>6. \A k \in 0..n : k \in T
  <2> HIDE DEF T
  <2> QED BY <1>1, <1>4, <1>5, SetInduction
<1>7. Good(f[n]) /\ f[n].fifo \in Seq(U)
    BY <1>1, <1>3, <1>6
<1>8. SegmentSendFifo(segs, next, fifo) = f[n]
    BY <1>2 DEF Cuts
<1> QED BY <1>7, <1>8

LEMMA GapSum ==
    ASSUME NEW a \in Nat, NEW b \in Nat, NEW c \in Nat, NEW m \in Nat, NEW i \in Nat,
           a - b >= 1, b - c >= m + 1 - i
    PROVE  a - c >= m + 1 + 1 - i
    OBVIOUS

\* What rt_process_ack leaves of the queue: what is not acknowledged.
LEMMA AcksKeep ==
    ASSUME NEW U, NEW segs, NEW next, SendQueue(U, segs, next), NEW max_ack, NEW acks
    PROVE  /\ SendQueue(U, ProcessAcks(segs, max_ack, acks), next)
           /\ \A i \in 1..Len(ProcessAcks(segs, max_ack, acks)) :
                 \E j \in 1..Len(segs) : ProcessAcks(segs, max_ack, acks)[i] = segs[j]
           /\ \A s \in SeqsOf(segs) :
                 s \in SeqsOf(ProcessAcks(segs, max_ack, acks)) \/ ~(s > max_ack) \/ s \in acks
<1> DEFINE n == Len(segs)
           SS == SendSegment(U)
<1>1. segs \in Seq(SS) /\ next \in Nat \ {0} /\ n \in Nat
    BY DEF SendQueue
<1>2. PICK f : Acks(f, SS, segs, max_ack, acks)
    BY <1>1, AckLoop
<1> DEFINE From(r, k) == \A i \in 1..Len(r) : \E j \in 1..k : r[i] = segs[j]
           Gaps(r) == \A i, j \in 1..Len(r) : i <= j => r[j].seq - r[i].seq >= j - i
           Ahead(r, k) == \A i \in 1..Len(r) : \A j \in (k + 1)..n :
                            segs[j].seq - r[i].seq >= Len(r) + 1 - i
           All(r, k) == \A j \in 1..k :
                          segs[j].seq \in SeqsOf(r) \/ ~(segs[j].seq > max_ack) \/ segs[j].seq \in acks
           Good(r, k) == From(r, k) /\ Gaps(r) /\ Ahead(r, k) /\ All(r, k)
           T == {k \in Nat : Good(f[k], k)}
<1>3. f \in [0..n -> Seq(SS)] /\ f[0] = <<>>
    BY <1>2 DEF Acks
<1>4. 0 \in T
  <2>1. Good(<<>>, 0)
      BY DEF SeqsOf
  <2> HIDE DEF Good
  <2> QED BY <1>3, <2>1
<1>5. ASSUME NEW k \in 1..n, k - 1 \in T PROVE k \in T
  <2>0. k - 1 \in 0..n /\ k \in 0..n /\ k \in Nat
      BY <1>1
  <2>1. PICK r \in Seq(SS) : r = f[k - 1]
    <3> HIDE DEF T
    <3> QED BY <1>3, <2>0
  <2>2. f[k] = IF segs[k].seq > max_ack /\ segs[k].seq \notin acks THEN Append(r, segs[k]) ELSE r
      BY <1>2, <2>1 DEF Acks
  <2>3. Good(r, k - 1)
      BY <1>5, <2>1
  <2>4. CASE ~(segs[k].seq > max_ack /\ segs[k].seq \notin acks)
    <3>1. From(r, k) /\ Gaps(r)
      <4>1. Gaps(r)
          BY <2>3
      <4>2. From(r, k - 1)
          BY <2>3
      <4>3. \A j \in 1..(k - 1) : j \in 1..k
          BY <2>0
      <4>4. From(r, k)
          BY <4>2, <4>3
      <4> HIDE DEF From, Gaps
      <4> QED BY <4>1, <4>4
    <3>2. Ahead(r, k)
        BY <2>0, <2>3
    <3>3. All(r, k)
        BY <2>0, <2>3, <2>4
    <3>4. f[k] = r
        BY <2>2, <2>4
    <3> HIDE DEF From, Gaps, Ahead, All
    <3> QED BY <2>0, <3>1, <3>2, <3>3, <3>4
  <2>5. CASE segs[k].seq > max_ack /\ segs[k].seq \notin acks
    <3> DEFINE m == Len(r)
               x == segs[k]
    <3>1. x \in SS /\ m \in Nat
        BY <1>1
    <3>2. PICK new : new = Append(r, x)
        OBVIOUS
    <3>3. f[k] = new
        BY <2>2, <2>5, <3>2
    <3>4. /\ new \in Seq(SS) /\ Len(new) = m + 1
          /\ \A i \in 1..m : new[i] = r[i]
          /\ new[m + 1] = x
        BY <3>1, <3>2
    <3>5. \A i \in 1..n : segs[i].seq \in 1..(next - 1)
        BY DEF SendQueue
    <3>6. \A i \in 1..m : r[i].seq \in 1..(next - 1) /\ x.seq - r[i].seq >= m + 1 - i
      <4> TAKE i \in 1..m
      <4>1. PICK j \in 1..(k - 1) : r[i] = segs[j]
          BY <2>3
      <4>2. j \in 1..n
          BY <1>1, <2>0
      <4>3. x.seq - r[i].seq >= m + 1 - i
          BY <2>3, <2>0
      <4> QED BY <3>5, <4>1, <4>2, <4>3
    <3>7. From(new, k)
      <4> SUFFICES ASSUME NEW i \in 1..Len(new) PROVE \E j \in 1..k : new[i] = segs[j]
          OBVIOUS
      <4>1. CASE i \in 1..m
        <5>1. PICK j \in 1..(k - 1) : r[i] = segs[j]
            BY <2>3, <4>1
        <5>2. j \in 1..k
            BY <2>0
        <5> QED BY <3>4, <4>1, <5>1, <5>2
      <4>2. CASE i = m + 1
          BY <3>4, <4>2, <2>0
      <4> QED BY <3>1, <3>4, <4>1, <4>2
    <3>8. Gaps(new)
      <4> SUFFICES ASSUME NEW i \in 1..Len(new), NEW j \in 1..Len(new), i <= j
                   PROVE  new[j].seq - new[i].seq >= j - i
          OBVIOUS
      <4>1. CASE j \in 1..m
        <5>1. i \in 1..m
            BY <3>1, <3>4, <4>1
        <5>2. r[j].seq - r[i].seq >= j - i
            BY <2>3, <4>1, <5>1
        <5> QED BY <3>4, <4>1, <5>1, <5>2
      <4>2. CASE j = m + 1 /\ i \in 1..m
          BY <3>4, <3>6, <4>2
      <4>3. CASE j = m + 1 /\ i = m + 1
        <5>1. new[j].seq = x.seq /\ new[i].seq = x.seq /\ x.seq \in 1..(next - 1)
            BY <3>4, <3>5, <4>3
        <5> QED BY <5>1, <4>3, <3>1, <1>1
      <4> QED BY <3>1, <3>4, <4>1, <4>2, <4>3
    <3>9. Ahead(new, k)
      <4> SUFFICES ASSUME NEW i \in 1..Len(new), NEW j \in (k + 1)..n
                   PROVE  segs[j].seq - new[i].seq >= Len(new) + 1 - i
          OBVIOUS
      <4>1. j \in 1..n /\ k <= j /\ j >= k + 1
          BY <1>1, <2>0
      <4>2. segs[j].seq - x.seq >= j - k
          BY <4>1 DEF SendQueue
      <4>3. segs[j].seq \in 1..(next - 1) /\ x.seq \in 1..(next - 1)
          BY <3>5, <4>1
      <4>4. segs[j].seq - x.seq >= 1
        <5> HIDE DEF x, n
        <5>1. segs[j].seq \in Nat /\ x.seq \in Nat /\ j \in Int /\ j - k >= 1
            BY <1>1, <2>0, <4>1, <4>3
        <5> QED BY <2>0, <4>2, <5>1
      <4>5. CASE i \in 1..m
        <5>1. new[i].seq = r[i].seq
            BY <3>4, <4>5
        <5>2. r[i].seq \in 1..(next - 1) /\ x.seq - r[i].seq >= m + 1 - i
          <6> HIDE DEF x, m
          <6> QED BY <3>6, <4>5
        <5> HIDE DEF x, m
        <5>3. segs[j].seq \in Nat /\ x.seq \in Nat /\ r[i].seq \in Nat /\ i \in Nat
            BY <1>1, <3>1, <4>3, <4>5, <5>2
        <5>4. segs[j].seq - r[i].seq >= m + 1 + 1 - i
            BY <3>1, <4>4, <5>2, <5>3, GapSum
        <5> QED BY <3>4, <5>1, <5>4
      <4>6. CASE i = m + 1
        <5>1. new[i].seq = x.seq
            BY <3>4, <4>6
        <5> HIDE DEF x, m
        <5> QED BY <1>1, <3>1, <3>4, <4>3, <4>4, <4>6, <5>1
      <4> QED BY <3>1, <3>4, <4>5, <4>6
    <3>10. All(new, k)
      <4>1. SeqsOf(r) \subseteq SeqsOf(new)
          BY <3>1, <3>4 DEF SeqsOf
      <4>2. x.seq \in SeqsOf(new)
          BY <3>1, <3>4 DEF SeqsOf
      <4> SUFFICES ASSUME NEW j \in 1..k
                   PROVE  segs[j].seq \in SeqsOf(new) \/ ~(segs[j].seq > max_ack) \/ segs[j].seq \in acks
          OBVIOUS
      <4>3. CASE j = k
          BY <4>2, <4>3
      <4>4. CASE j \in 1..(k - 1)
          BY <2>3, <4>1, <4>4
      <4> QED BY <2>0, <4>3, <4>4
    <3> HIDE DEF From, Gaps, Ahead, All
    <3> QED BY <2>0, <3>3, <3>7, <3>8, <3>9, <3>10
  <2> QED BY <2>4, <2>5
<1>6. \A k \in 0..n : k \in T
  <2> HIDE DEF T
  <2> QED BY <1>1, <1>4, <1>5, SetInduction
<1>7. PICK r \in Seq(SS) : r = ProcessAcks(segs, max_ack, acks) /\ Good(r, n)
  <2>1. n \in 0..n
      BY <1>1
  <2>2. ProcessAcks(segs, max_ack, acks) = f[n]
      BY <1>2 DEF Acks
  <2> HIDE DEF Good
  <2> QED BY <1>3, <1>6, <2>1, <2>2
<1>8. SendQueue(U, r, next)
  <2>1. \A i \in 1..Len(r) : r[i].seq \in 1..(next - 1)
      BY <1>7 DEF SendQueue
  <2>2. r # <<>> => next <= r[1].seq + Window
    <3> HAVE r # <<>>
    <3>1. 1 \in 1..Len(r)
        OBVIOUS
    <3>2. PICK j \in 1..n : r[1] = segs[j]
        BY <1>7, <3>1
    <3>3. 1 \in 1..n /\ 1 <= j /\ segs # <<>>
        BY <1>1
    <3>4. segs[j].seq - segs[1].seq >= j - 1
        BY <3>3 DEF SendQueue
    <3>5. next <= segs[1].seq + Window
        BY <3>3 DEF SendQueue
    <3>6. segs[j].seq \in 1..(next - 1) /\ segs[1].seq \in 1..(next - 1)
        BY <3>3 DEF SendQueue
    <3>7. r[1].seq = segs[j].seq
        BY <3>2
    <3>8. Window \in Nat
        BY SessionAssumption
    <3> QED
      <4> HIDE DEF T, Good, From, Gaps, Ahead, All
      <4>1. \A a, b \in Int : a - b >= j - 1 /\ next <= b + Window => next <= a + Window
          BY <1>1, <3>3, <3>8
      <4>2. segs[j].seq \in Int /\ segs[1].seq \in Int
          BY <3>6
      <4> QED BY <3>4, <3>5, <3>7, <4>1, <4>2
  <2> QED BY <1>1, <1>7, <2>1, <2>2 DEF SendQueue
<1>9. \A s \in SeqsOf(segs) : s \in SeqsOf(r) \/ ~(s > max_ack) \/ s \in acks
    BY <1>7 DEF SeqsOf
<1> QED BY <1>7, <1>8, <1>9

-----------------------------------------------------------------------------
(* The upstream units, with segments of one unit. *)

Agree(C, D, next) == \A s \in 0..(next - 1) : D[s] = C[s]

\* One more segment, with or without a unit.
LEMMA OneMore ==
    ASSUME NEW C, NEW next \in Nat \ {0}, Counts(C, next),
           NEW v \in {C[next - 1], C[next - 1] + 1}
    PROVE  \E D : Counts(D, next + 1) /\ Agree(C, D, next) /\ D[next] = v
<1> DEFINE D == [s \in 0..next |-> IF s = next THEN v ELSE C[s]]
<1>1. next - 1 \in 0..(next - 1) /\ (next + 1) - 1 = next
    OBVIOUS
<1>2. C[next - 1] \in Nat
    BY <1>1 DEF Counts
<1>3. v \in Nat
    BY <1>2
<1>4. \A s \in 0..(next - 1) : s \in 0..next /\ s # next /\ C[s] \in Nat
    BY DEF Counts
<1>5. D \in [0..next -> Nat] /\ D[next] = v
    BY <1>3, <1>4
<1>6. \A s \in 0..(next - 1) : D[s] = C[s]
    BY <1>4
<1> HIDE DEF D
<1>7. D[0] = 0
    BY <1>6 DEF Counts
<1>8. \A s \in 1..next : D[s] \in {D[s - 1], D[s - 1] + 1}
  <2> TAKE s \in 1..next
  <2>1. s - 1 \in 0..(next - 1)
      OBVIOUS
  <2>2. CASE s = next
      BY <1>5, <1>6, <2>1, <2>2
  <2>3. CASE s \in 1..(next - 1)
      BY <1>6, <2>1, <2>3 DEF Counts
  <2> QED BY <2>2, <2>3
<1>9. Counts(D, next + 1)
    BY <1>1, <1>5, <1>7, <1>8 DEF Counts
<1> QED BY <1>5, <1>6, <1>9 DEF Agree

LEMMA AgreeCarries ==
    ASSUME NEW C, NEW D, NEW next \in Nat \ {0}, Agree(C, D, next),
           NEW x, x.seq \in 1..(next - 1), Carries(C, x)
    PROVE  Carries(D, x)
<1>1. x.seq \in 0..(next - 1) /\ x.seq - 1 \in 0..(next - 1)
    OBVIOUS
<1>2. D[x.seq] = C[x.seq] /\ D[x.seq - 1] = C[x.seq - 1]
    BY <1>1 DEF Agree
<1> QED BY <1>2 DEF Carries

LEMMA AgreeTwice ==
    ASSUME NEW C, NEW D, NEW E, NEW l \in Nat, NEW m \in Nat, l <= m,
           Agree(C, D, l), Agree(D, E, m)
    PROVE  Agree(C, E, l)
    BY DEF Agree

LEMMA AppendCarries ==
    ASSUME NEW U, NEW segs, NEW next, SendQueue(U, segs, next),
           NEW C, AllCarry(C, segs), NEW D, Agree(C, D, next),
           NEW x \in SendSegment(U), x.seq = next, Carries(D, x)
    PROVE  AllCarry(D, Append(segs, x))
<1>1. next \in Nat \ {0} /\ segs \in Seq(SendSegment(U)) /\ Len(segs) \in Nat
    BY DEF SendQueue
<1>2. \A i \in 1..Len(segs) : Carries(D, segs[i])
  <2> TAKE i \in 1..Len(segs)
  <2>1. segs[i].seq \in 1..(next - 1)
      BY DEF SendQueue
  <2>2. Carries(C, segs[i])
      BY DEF AllCarry
  <2> QED BY <1>1, <2>1, <2>2, AgreeCarries
<1>3. /\ Len(Append(segs, x)) = Len(segs) + 1
      /\ \A i \in 1..Len(segs) : Append(segs, x)[i] = segs[i]
      /\ Append(segs, x)[Len(segs) + 1] = x
    BY <1>1
<1>4. ASSUME NEW i \in 1..(Len(segs) + 1) PROVE Carries(D, Append(segs, x)[i])
  <2>1. CASE i \in 1..Len(segs)
      BY <1>2, <1>3, <2>1
  <2>2. CASE i = Len(segs) + 1
      BY <1>3, <2>2
  <2> QED BY <1>1, <2>1, <2>2
<1> QED BY <1>3, <1>4 DEF AllCarry

\* A keepalive is queued: no unit is used.
LEMMA KeepAliveFeeds ==
    ASSUME NEW U, NEW segs, NEW next, SendQueue(U, segs, next), ~WindowFull(segs, next),
           NEW data \in Seq(U), IsKeepAlive(data),
           NEW C, NEW fifo, NEW rest, NEW last, Feeds(C, segs, next, fifo, rest, last)
    PROVE  \E D : /\ Agree(C, D, next)
                  /\ Feeds(D, QueueSegment(segs, next, data), next + 1, fifo, rest, last)
<1> DEFINE x == [seq |-> next, data |-> data, sent |-> FALSE]
<1>1. next \in Nat \ {0} /\ (next + 1) - 1 = next
    BY DEF SendQueue
<1>2. QueueSegment(segs, next, data) = Append(segs, x)
    BY Enqueue
<1>3. PICK D : Counts(D, next + 1) /\ Agree(C, D, next) /\ D[next] = C[next - 1]
    BY <1>1, OneMore DEF Feeds
<1>4. D[next - 1] = C[next - 1]
    BY <1>1, <1>3 DEF Agree
<1>5. x \in SendSegment(U) /\ x.seq = next /\ x.data = data
    BY <1>1 DEF SendSegment
<1> HIDE DEF x
<1>6. Carries(D, x)
    BY <1>3, <1>4, <1>5 DEF Carries
<1>7. AllCarry(D, Append(segs, x))
    BY <1>3, <1>5, <1>6, AppendCarries DEF Feeds
<1>8. Run(fifo, rest, D[(next + 1) - 1], last)
    BY <1>1, <1>3 DEF Feeds
<1> QED BY <1>2, <1>3, <1>7, <1>8 DEF Feeds

\* A segment is cut: it takes the next unit.
LEMMA CutFeeds ==
    ASSUME SegmentUnits = 1,
           NEW U, NEW segs, NEW next, SendQueue(U, segs, next), ~WindowFull(segs, next),
           NEW fifo \in Seq(U), fifo # <<>>,
           NEW C, NEW rest \in Seq(U), NEW last \in Nat,
           Feeds(C, segs, next, fifo, rest, last)
    PROVE  \E D : /\ Agree(C, D, next)
                  /\ Feeds(D, QueueSegment(segs, next, Take(fifo, SegmentUnits)), next + 1,
                           Drop(fifo, SegmentUnits), rest, last)
<1> DEFINE data == Take(fifo, 1)
           fifo1 == Drop(fifo, 1)
           x == [seq |-> next, data |-> data, sent |-> FALSE]
           c == C[next - 1]
<1>1. next \in Nat \ {0} /\ (next + 1) - 1 = next
    BY DEF SendQueue
<1>2. c \in Nat
  <2>1. next - 1 \in 0..(next - 1)
      BY <1>1
  <2> QED BY <2>1 DEF Feeds, Counts
<1>3. /\ data \in Seq(U) /\ Len(data) = 1 /\ data[1] = fifo[1]
      /\ fifo1 \in Seq(U) /\ Len(fifo1) = Len(fifo) - 1
      /\ \A i \in 1..(Len(fifo) - 1) : fifo1[i] = fifo[1 + i]
    BY TakeOne
<1> HIDE DEF data, fifo1
<1>4. QueueSegment(segs, next, data) = Append(segs, x)
    BY <1>3, Enqueue
<1>5. PICK D : Counts(D, next + 1) /\ Agree(C, D, next) /\ D[next] = c + 1
    BY <1>1, OneMore DEF Feeds
<1>6. D[next - 1] = c
    BY <1>1, <1>5 DEF Agree
<1>7. x \in SendSegment(U) /\ x.seq = next /\ x.data = data
    BY <1>1, <1>3 DEF SendSegment
<1>8. Run(fifo, rest, c, last)
    BY DEF Feeds
<1> HIDE DEF x, c
<1>9. Len(fifo) \in Nat \ {0} /\ Len(rest) \in Nat
    OBVIOUS
<1>10. fifo[1] = c
  <2>1. 1 \in 1..Len(fifo)
      BY <1>9
  <2>2. fifo[1] = c + 1 - 1
      BY <1>8, <2>1 DEF Run
  <2> QED BY <1>2, <2>2
<1>11. data = <<c>>
    BY <1>3, <1>10
<1>12. Carries(D, x)
  <2>1. D[x.seq] # D[x.seq - 1] /\ D[x.seq - 1] = c
      BY <1>2, <1>5, <1>6, <1>7
  <2> QED BY <1>7, <1>11, <2>1 DEF Carries
<1>13. AllCarry(D, Append(segs, x))
    BY <1>5, <1>7, <1>12, AppendCarries DEF Feeds
<1>14. Run(fifo1, rest, c + 1, last)
  <2>1. \A i \in 1..Len(fifo1) : fifo1[i] = (c + 1) + i - 1
    <3> TAKE i \in 1..Len(fifo1)
    <3>1. 1 + i \in 1..Len(fifo) /\ i \in 1..(Len(fifo) - 1)
        BY <1>3, <1>9
    <3>2. fifo[1 + i] = c + (1 + i) - 1
        BY <1>8, <3>1 DEF Run
    <3>3. fifo1[i] = fifo[1 + i]
        BY <1>3, <3>1
    <3> QED BY <1>2, <3>2, <3>3
  <2>2. \A i \in 1..Len(rest) : rest[i] = (c + 1) + Len(fifo1) + i - 1
    <3> TAKE i \in 1..Len(rest)
    <3>1. rest[i] = c + Len(fifo) + i - 1
        BY <1>8 DEF Run
    <3> QED BY <1>2, <1>3, <1>9, <3>1
  <2>3. (c + 1) + Len(fifo1) + Len(rest) = last + 1
      BY <1>2, <1>3, <1>8, <1>9 DEF Run
  <2> QED BY <2>1, <2>2, <2>3 DEF Run
<1>15. Run(fifo1, rest, D[(next + 1) - 1], last)
    BY <1>1, <1>5, <1>14
<1>16. Feeds(D, QueueSegment(segs, next, data), next + 1, fifo1, rest, last)
    BY <1>4, <1>5, <1>13, <1>15 DEF Feeds
<1> QED BY <1>5, <1>16 DEF data, fifo1

\* So rt_segment_send_fifo passes the units on in order.
LEMMA CutsFeed ==
    ASSUME SegmentUnits = 1,
           NEW U, NEW segs, NEW next, SendQueue(U, segs, next), NEW fifo \in Seq(U),
           NEW C, NEW rest \in Seq(U), NEW last \in Nat,
           Feeds(C, segs, next, fifo, rest, last)
    PROVE  \E D : /\ Agree(C, D, next)
                  /\ Feeds(D, SegmentSendFifo(segs, next, fifo).segs,
                           SegmentSendFifo(segs, next, fifo).next,
                           SegmentSendFifo(segs, next, fifo).fifo, rest, last)
<1> DEFINE n == Len(fifo)
           St == [segs : Seq(SendSegment(U)), next : Nat, fifo : Seq(U)]
<1>1. segs \in Seq(SendSegment(U)) /\ next \in Nat \ {0} /\ n \in Nat
    BY DEF SendQueue
<1>2. PICK f : Cuts(f, U, segs, next, fifo)
    BY <1>1, CutLoop
<1> DEFINE Good(r) == /\ SendQueue(U, r.segs, r.next) /\ next <= r.next
                      /\ \E D : Agree(C, D, next) /\ Feeds(D, r.segs, r.next, r.fifo, rest, last)
           T == {k \in Nat : Good(f[k])}
<1>3. f \in [0..n -> St] /\ f[0] = [segs |-> segs, next |-> next, fifo |-> fifo]
    BY <1>2 DEF Cuts
<1>4. 0 \in T
  <2>1. Agree(C, C, next)
      BY DEF Agree
  <2>2. Good(f[0])
      BY <1>1, <1>3, <2>1
  <2> QED BY <2>2
<1>5. ASSUME NEW k \in 1..n, k - 1 \in T PROVE k \in T
  <2>1. PICK r \in St : r = f[k - 1]
    <3> HIDE DEF T
    <3>1. k - 1 \in 0..n
        BY <1>1
    <3> QED BY <1>3, <3>1
  <2>2. f[k] = IF r.fifo = <<>> \/ WindowFull(r.segs, r.next) THEN r
               ELSE [segs |-> QueueSegment(r.segs, r.next, Take(r.fifo, SegmentUnits)),
                     next |-> IF Len(r.segs) >= Window THEN r.next ELSE r.next + 1,
                     fifo |-> Drop(r.fifo, SegmentUnits)]
      BY <1>2, <2>1 DEF Cuts
  <2>3. r.segs \in Seq(SendSegment(U)) /\ r.next \in Nat /\ r.fifo \in Seq(U) /\ Good(r)
      BY <1>5, <2>1
  <2>4. CASE r.fifo = <<>> \/ WindowFull(r.segs, r.next)
    <3>1. f[k] = r
        BY <2>2, <2>4
    <3> HIDE DEF Good
    <3> QED BY <2>3, <3>1
  <2>5. CASE ~(r.fifo = <<>> \/ WindowFull(r.segs, r.next))
    <3> DEFINE new == QueueSegment(r.segs, r.next, Take(r.fifo, SegmentUnits))
               uncut == Drop(r.fifo, SegmentUnits)
    <3>1. Take(r.fifo, SegmentUnits) \in Seq(U)
        BY <2>3, TakeDrop, SessionAssumption
    <3>2. Len(r.segs) < Window
        BY <2>3, <2>5, QueueRoom
    <3>3. SendQueue(U, new, r.next + 1)
        BY <2>3, <2>5, <3>1, Enqueue
    <3>4. f[k].segs = new /\ f[k].next = r.next + 1 /\ f[k].fifo = uncut
      <4>1. ~(Len(r.segs) >= Window)
          BY <2>3, <3>2, SessionAssumption
      <4> QED BY <2>2, <2>5, <4>1
    <3>5. PICK D : Agree(C, D, next) /\ Feeds(D, r.segs, r.next, r.fifo, rest, last)
        BY <2>3
    <3>6. PICK E : Agree(D, E, r.next) /\ Feeds(E, new, r.next + 1, uncut, rest, last)
        BY <2>3, <2>5, <3>5, CutFeeds
    <3> HIDE DEF new, uncut
    <3>7. Agree(C, E, next)
        BY <1>1, <2>3, <3>5, <3>6, AgreeTwice
    <3>8. next <= r.next + 1
        BY <1>1, <2>3
    <3>9. Good(f[k])
        BY <3>3, <3>4, <3>6, <3>7, <3>8
    <3> HIDE DEF Good
    <3> QED BY <3>9
  <2> QED BY <2>4, <2>5
<1>6. \A k \in 0..n : k \in T
  <2> HIDE DEF T
  <2> QED BY <1>1, <1>4, <1>5, SetInduction
<1>7. Good(f[n])
  <2> HIDE DEF Good
  <2> QED BY <1>1, <1>6
<1>8. SegmentSendFifo(segs, next, fifo) = f[n]
    BY <1>2 DEF Cuts
<1> QED BY <1>7, <1>8

-----------------------------------------------------------------------------
(* The server. *)

LEMMA LoadTypes ==
    ASSUME load \in Loads
    PROVE  /\ load.app \in Nat /\ load.server \in Nat /\ load.seq \in Nat
           /\ load.up \in Nat /\ load.down \in Nat
    BY LoadAssumption

LEMMA ServerCompletes ==
    ASSUME load \in Loads, next_send_seq \in Nat \ {0}, next_send_seq <= load.seq + 1,
           \A g \in serverGot : g.seq \in 1..(next_send_seq - 1)
    PROVE  /\ ServerComplete \in 0..load.seq
           /\ \A i \in 1..ServerComplete : HasSeq(i)
<1> DEFINE T == {k \in Nat : ~HasSeq(k + 1)}
<1>1. load.seq \in Nat
    BY LoadTypes
<1>2. load.seq \in T
  <2> SUFFICES ASSUME HasSeq(load.seq + 1) PROVE FALSE
      BY <1>1
  <2>1. PICK g \in serverGot : g.seq = load.seq + 1
      BY DEF HasSeq
  <2>2. load.seq + 1 \in 1..(next_send_seq - 1)
      BY <2>1
  <2> QED BY <1>1, <2>2
<1>3. T \in SUBSET Nat
    OBVIOUS
<1>4. PICK k \in T : \A j \in T : k <= j
    BY <1>2, <1>3, LeastElement
<1>5. k \in 0..load.seq /\ ~HasSeq(k + 1)
    BY <1>1, <1>2, <1>4
<1>6. \A i \in 1..k : HasSeq(i)
  <2> SUFFICES ASSUME NEW i \in 1..k, ~HasSeq(i) PROVE FALSE
      OBVIOUS
  <2>1. i - 1 \in Nat /\ (i - 1) + 1 = i /\ ~(k <= i - 1)
      BY <1>5
  <2>2. i - 1 \in T
      BY <2>1
  <2> QED BY <1>4, <2>1, <2>2
<1>7. \E n \in 0..load.seq :
        /\ \A i \in 1..n : \E g \in serverGot : g.seq = i
        /\ ~\E g \in serverGot : g.seq = n + 1
    BY <1>5, <1>6 DEF HasSeq
<1> QED BY <1>7 DEF ServerComplete, HasSeq

\* What the server has of segment k.
Got(k) == CHOOSE g \in serverGot : g.seq = k

\* The loop over the server's segments.
Reads(f, n) ==
    /\ f \in [0..n -> Seq(Int)]
    /\ f[0] = <<>>
    /\ \A k \in 1..n : f[k] =
         f[k - 1] \o (IF IsKeepAlive(Got(k).data) THEN <<>> ELSE Got(k).data)
    /\ UpstreamData = f[n]

LEMMA ReadLoop ==
    ASSUME ServerComplete \in Nat, \A k \in 1..ServerComplete : Got(k).data \in Seq(Int)
    PROVE  \E f : Reads(f, ServerComplete)
<1> DEFINE n == ServerComplete
           St == Seq(Int)
           init == <<>>
           Step(k, r) == r \o (IF IsKeepAlive(Got(k).data) THEN <<>> ELSE Got(k).data)
           step == [k \in 1..n |-> [r \in St |-> Step(k, r)]]
           Solves(f) == f = [k \in 0..n |-> IF k = 0 THEN init ELSE Step(k, f[k - 1])]
           sol == CHOOSE f : Solves(f)
<1>1. ASSUME NEW k \in 1..n, NEW r \in St PROVE Step(k, r) \in St
    OBVIOUS
<1>2. UpstreamData = sol[n]
    BY DEF UpstreamData, Got
<1> HIDE DEF Step, sol
<1>3. n \in Nat /\ init \in St /\ step \in Steps(n, St)
  <2>1. n \in Nat /\ init \in St
      OBVIOUS
  <2> HIDE DEF n, St, init
  <2> QED BY <2>1, <1>1 DEF Steps
<1> HIDE DEF n, St, init
<1>4. PICK f : Iterates(f, n, St, init, step)
  <2> HIDE DEF step
  <2> QED BY <1>3, Recursion
<1>5. Solves(f)
  <2>1. \A k \in 1..n : f[k] = Step(k, f[k - 1])
      BY <1>3, <1>4 DEF Iterates
  <2> QED BY <1>4, <2>1 DEF Iterates
<1>6. Solves(sol)
  <2> HIDE DEF Solves
  <2> QED BY <1>5 DEF sol
<1>7. sol[0] = init /\ \A k \in 1..n : sol[k] = Step(k, sol[k - 1])
  <2>1. \A k \in 0..n : sol[k] = IF k = 0 THEN init ELSE Step(k, sol[k - 1])
      BY <1>6
  <2> QED BY <2>1, <1>3
<1>8. \A k \in 0..n : sol[k] \in St
  <2> DEFINE T == {k \in Nat : sol[k] \in St}
  <2>1. 0 \in T
      BY <1>7, <1>3
  <2>2. ASSUME NEW k \in 1..n, k - 1 \in T PROVE k \in T
      BY <2>2, <1>1, <1>3, <1>7
  <2>3. \A k \in 0..n : k \in T
    <3> HIDE DEF T
    <3> QED BY <2>1, <2>2, <1>3, SetInduction
  <2> QED BY <2>3
<1>9. sol \in [0..n -> St]
    BY <1>6, <1>8
<1> QED BY <1>2, <1>7, <1>9 DEF Step, St, init, n, Reads

\* The server reads the units in order.
LEMMA UpstreamUnits ==
    ASSUME StreamInv, UpstreamInv
    PROVE  UpstreamIsPrefix
<1> DEFINE n == ServerComplete
           next == next_send_seq
<1>1. PICK C : Upstream(C)
    BY DEF UpstreamInv
<1>2. /\ load.seq \in Nat /\ next \in Nat \ {0} /\ n \in 0..load.seq /\ n \in Nat
      /\ \A i \in 1..n : HasSeq(i)
      /\ \A g \in serverGot : g.seq \in 1..(next - 1)
  <2>1. /\ load \in Loads /\ next \in Nat \ {0} /\ next <= load.seq + 1
        /\ \A g \in serverGot : g.seq \in 1..(next - 1)
      BY DEF StreamInv, Basics, Sending, SendQueue
  <2>2. load.seq \in Nat
      BY <2>1, LoadTypes
  <2>3. n \in 0..load.seq /\ \A i \in 1..n : HasSeq(i)
      BY <2>1, ServerCompletes
  <2> QED BY <2>1, <2>2, <2>3
<1>3. Counts(C, next)
    BY <1>1 DEF Upstream, Feeds
<1>4. \A k \in 1..n : /\ Got(k) \in serverGot /\ Got(k).seq = k
                      /\ k \in 1..(next - 1)
                      /\ Carries(C, Got(k))
  <2> TAKE k \in 1..n
  <2>1. \E g \in serverGot : g.seq = k
      BY <1>2 DEF HasSeq
  <2>2. Got(k) \in serverGot /\ Got(k).seq = k
      BY <2>1 DEF Got
  <2> QED BY <1>1, <1>2, <2>2 DEF Upstream
<1>5. \A k \in 1..n : /\ C[k - 1] \in Nat /\ C[k] \in {C[k - 1], C[k - 1] + 1}
                      /\ C[k] = C[k - 1] => IsKeepAlive(Got(k).data)
                      /\ C[k] # C[k - 1] => Got(k).data = <<C[k - 1]>>
  <2> TAKE k \in 1..n
  <2>1. k \in 1..(next - 1) /\ k - 1 \in 0..(next - 1) /\ Got(k).seq = k
      BY <1>2, <1>4
  <2>2. C[k - 1] \in Nat /\ C[k] \in {C[k - 1], C[k - 1] + 1}
      BY <1>3, <2>1 DEF Counts
  <2>3. Carries(C, Got(k))
      BY <1>4
  <2> QED BY <2>1, <2>2, <2>3 DEF Carries
<1>6. \A k \in 1..n : Got(k).data \in Seq(Int)
  <2> TAKE k \in 1..n
  <2>1. CASE C[k] = C[k - 1]
    <3>1. Got(k).data \in {magic_req, magic_resp}
        BY <1>5, <2>1 DEF IsKeepAlive
    <3>2. magic_req \in Seq(Int) /\ magic_resp \in Seq(Int)
        BY Single DEF magic_req, magic_resp
    <3> QED BY <3>1, <3>2
  <2>2. CASE C[k] # C[k - 1]
    <3>1. Got(k).data = <<C[k - 1]>> /\ C[k - 1] \in Int
        BY <1>5, <2>2
    <3> QED BY <3>1, Single
  <2> QED BY <2>1, <2>2
<1>7. PICK f : Reads(f, n)
    BY <1>2, <1>6, ReadLoop
<1> DEFINE Good(k) == /\ Len(f[k]) = C[k]
                      /\ \A i \in 1..Len(f[k]) : f[k][i] = i - 1
           T == {k \in Nat : Good(k)}
<1>8. f \in [0..n -> Seq(Int)] /\ f[0] = <<>>
    BY <1>7 DEF Reads
<1>9. 0 \in T
    BY <1>3, <1>8 DEF Counts
<1>10. ASSUME NEW k \in 1..n, k - 1 \in T PROVE k \in T
  <2>1. PICK r \in Seq(Int) : r = f[k - 1]
    <3> HIDE DEF T
    <3>1. k - 1 \in 0..n
        BY <1>2
    <3> QED BY <1>8, <3>1
  <2>2. f[k] = r \o (IF IsKeepAlive(Got(k).data) THEN <<>> ELSE Got(k).data)
      BY <1>7, <2>1 DEF Reads
  <2>3. Len(r) = C[k - 1] /\ \A i \in 1..Len(r) : r[i] = i - 1
      BY <1>10, <2>1
  <2>4. CASE C[k] = C[k - 1]
    <3>1. f[k] = r \o <<>>
        BY <1>5, <2>2, <2>4
    <3>2. f[k] = r
        BY <3>1
    <3> QED BY <2>3, <2>4, <3>2, <1>2
  <2>5. CASE C[k] = C[k - 1] + 1
    <3> DEFINE c == C[k - 1]
    <3>1. c \in Nat /\ C[k] # c
        BY <1>5, <2>5
    <3>2. Got(k).data = <<c>>
        BY <1>5, <3>1
    <3> HIDE DEF c
    <3>3. ~IsKeepAlive(<<c>>)
        BY <3>1 DEF IsKeepAlive, magic_req, magic_resp
    <3>4. f[k] = r \o <<c>>
        BY <2>2, <3>2, <3>3
    <3>5. Len(r) = c
        BY <2>3 DEF c
    <3>6. PICK b \in Int : b = -1
        OBVIOUS
    <3>7. c \in Int /\ c = b + Len(r) + 1 /\ Rises(r, b)
        BY <2>3, <3>1, <3>5, <3>6 DEF Rises
    <3>8. Len(f[k]) = Len(r) + 1 /\ Rises(f[k], b)
        BY <3>4, <3>7, ExtendRun
    <3>9. Len(f[k]) = C[k]
        BY <2>5, <3>5, <3>8 DEF c
    <3>10. \A i \in 1..Len(f[k]) : f[k][i] = i - 1
        BY <3>6, <3>8 DEF Rises
    <3> QED BY <3>9, <3>10, <1>2
  <2> QED BY <1>5, <2>4, <2>5
<1>11. \A k \in 0..n : k \in T
  <2> HIDE DEF T
  <2> QED BY <1>2, <1>9, <1>10, SetInduction
<1>12. Good(n)
  <2> HIDE DEF Good
  <2> QED BY <1>2, <1>11
<1>13. UpstreamData = f[n]
    BY <1>7 DEF Reads
<1> QED BY <1>12, <1>13 DEF UpstreamIsPrefix

-----------------------------------------------------------------------------
(* The actions. *)

LEMMA SameUnit ==
    ASSUME UNCHANGED load
    PROVE  Unit' = Unit
    BY DEF Unit

LEMMA InitStream ==
    ASSUME Init
    PROVE  StreamInv /\ UpstreamInv
<1> USE DEF Init
<1>1. /\ load.app \in Nat /\ load.server \in Nat /\ load.seq \in Nat
    BY LoadTypes
<1>2. Basics
  <2>1. 0 \in Unit
      BY <1>1 DEF Unit
  <2>2. send_fifo \in Seq(Unit) /\ Len(send_fifo) = 1
      BY <2>1, Single DEF Greeting
  <2>3. Cardinality(reply_acks) = 0
      BY FS_EmptySet
  <2>4. pair \in Seq(Unit)
      OBVIOUS
  <2>5. Len(send_fifo) <= FifoUnits /\ Cardinality(reply_acks) <= Window
      BY <2>2, <2>3, SessionAssumption
  <2>6. written \in 0..load.app /\ next_send_seq <= load.seq + 1
      BY <1>1
  <2> QED BY <2>2, <2>4, <2>5, <2>6 DEF Basics
<1>3. Sending
  <2>1. SendQueue(Unit, send_segments, next_send_seq)
      BY DEF SendQueue
  <2> QED BY <2>1 DEF Sending, QueuedUntilReceived
<1>4. Receiving
    BY <1>1, SessionAssumption DEF Receiving, Below
<1>5. Acking
    BY DEF Acking
<1>6. UpstreamInv
  <2> DEFINE C == [s \in 0..0 |-> 0]
  <2>1. next_send_seq - 1 = 0 /\ C \in [0..0 -> Nat] /\ C[0] = 0
      OBVIOUS
  <2> HIDE DEF C
  <2>2. Counts(C, next_send_seq)
      BY <2>1 DEF Counts
  <2>3. AllCarry(C, send_segments)
      BY DEF AllCarry
  <2>4. Run(send_fifo, pair, C[next_send_seq - 1], written)
      BY <2>1 DEF Run, Greeting
  <2>5. Upstream(C)
      BY <2>2, <2>3, <2>4 DEF Upstream, Feeds
  <2> QED BY <2>5 DEF UpstreamInv
<1> QED BY <1>2, <1>3, <1>4, <1>5, <1>6 DEF StreamInv

LEMMA AppWritesStream ==
    ASSUME StreamInv, AppWrites, UNCHANGED load
    PROVE  StreamInv' /\ (UpstreamInv => UpstreamInv')
<1> USE DEF AppWrites
<1>1. load.app \in Nat /\ load.server \in Nat /\ Unit' = Unit
    BY LoadTypes, SameUnit DEF StreamInv, Basics
<1>2. pair \in Seq(Unit) /\ written \in 0..load.app
    BY DEF StreamInv, Basics
<1>3. written + 1 \in Unit /\ written' \in 0..load.app
    BY <1>1, <1>2 DEF Unit
<1>4. pair' \in Seq(Unit)
    BY <1>2, <1>3
<1>5. Basics'
    BY <1>1, <1>3, <1>4 DEF StreamInv, Basics, sessionVars
<1>6. Sending'
    BY <1>1 DEF StreamInv, Sending, sessionVars, serverVars, QueuedUntilReceived, HasSeq
<1>7. Receiving'
    BY <1>1 DEF StreamInv, Receiving, sessionVars, Below
<1>8. Acking'
    BY DEF StreamInv, Acking, sessionVars, serverVars, Kept
<1>9. ASSUME UpstreamInv PROVE UpstreamInv'
  <2>1. PICK C : Upstream(C)
      BY <1>9 DEF UpstreamInv
  <2>2. PICK c \in Nat : c = C[next_send_seq - 1]
    <3>1. next_send_seq \in Nat \ {0}
        BY DEF StreamInv, Sending, SendQueue
    <3>2. next_send_seq - 1 \in 0..(next_send_seq - 1)
        BY <3>1
    <3> QED BY <2>1, <3>2 DEF Upstream, Feeds, Counts
  <2>3. Run(send_fifo, pair, c, written)
      BY <2>1, <2>2 DEF Upstream, Feeds
  <2>4. Len(pair') = Len(pair) + 1 /\ pair'[Len(pair) + 1] = written + 1
        /\ \A i \in 1..Len(pair) : pair'[i] = pair[i]
      BY <1>2
  <2>5. PICK a \in Nat, b \in Nat : a = Len(send_fifo) /\ b = Len(pair)
      BY DEF StreamInv, Basics
  <2>6. c + a + b = written + 1
      BY <2>3, <2>5 DEF Run
  <2>7. \A i \in 1..Len(pair') : pair'[i] = c + Len(send_fifo) + i - 1
    <3> SUFFICES ASSUME NEW i \in 1..(b + 1) PROVE pair'[i] = c + a + i - 1
        BY <2>4, <2>5
    <3>1. CASE i \in 1..b
        BY <3>1, <2>3, <2>4, <2>5 DEF Run
    <3>2. CASE i = b + 1
        BY <3>2, <2>4, <2>5, <2>6, <1>2
    <3>3. i \in 1..b \/ i = b + 1
        OBVIOUS
    <3> QED BY <3>1, <3>2, <3>3
  <2>8. Run(send_fifo, pair', c, written')
    <3>1. c + Len(send_fifo) + Len(pair') = written' + 1
        BY <2>4, <2>5, <2>6, <1>2
    <3> QED BY <2>3, <2>7, <3>1 DEF Run
  <2>9. Upstream(C)'
      BY <2>1, <2>2, <2>8 DEF Upstream, Feeds, sessionVars, serverVars
  <2> QED BY <2>9 DEF UpstreamInv
<1> QED BY <1>5, <1>6, <1>7, <1>8, <1>9 DEF StreamInv

LEMMA LoseStream ==
    ASSUME StreamInv, Lose, UNCHANGED load
    PROVE  StreamInv' /\ (UpstreamInv => UpstreamInv')
<1> USE DEF Lose
<1>1. Unit' = Unit
    BY SameUnit
<1>2. Basics'
    BY <1>1 DEF StreamInv, Basics, sessionVars, appVars
<1>3. Sending'
    BY <1>1 DEF StreamInv, Sending, sessionVars, serverVars, QueuedUntilReceived, HasSeq
<1>4. Receiving'
    BY <1>1 DEF StreamInv, Receiving, sessionVars, appVars, Below
<1>5. Acking'
    BY DEF StreamInv, Acking, sessionVars, serverVars, Kept
<1>6. ASSUME UpstreamInv PROVE UpstreamInv'
  <2>1. PICK C : Upstream(C)
      BY <1>6 DEF UpstreamInv
  <2>2. Upstream(C)'
      BY <2>1 DEF Upstream, sessionVars, serverVars, appVars
  <2> QED BY <2>2 DEF UpstreamInv
<1> QED BY <1>2, <1>3, <1>4, <1>5, <1>6 DEF StreamInv

LEMMA ServerReceivesStream ==
    ASSUME StreamInv, NEW p \in toServer, ServerReceives(p), UNCHANGED load
    PROVE  StreamInv' /\ (UpstreamInv => UpstreamInv')
<1> USE DEF ServerReceives
<1>1. Unit' = Unit /\ toServer' \subseteq toServer
    BY SameUnit
<1>2. Basics'
    BY <1>1 DEF StreamInv, Basics, sessionVars, appVars
<1>3. Sending'
  <2>1. \A s : HasSeq(s) => HasSeq(s)'
      BY DEF HasSeq
  <2>2. \A g \in serverGot' : g.seq \in 1..(next_send_seq - 1)
      BY DEF StreamInv, Sending
  <2>3. QueuedUntilReceived'
      BY <2>1 DEF StreamInv, Sending, QueuedUntilReceived, HasSeq, sessionVars
  <2> QED BY <1>1, <2>1, <2>2, <2>3 DEF StreamInv, Sending, sessionVars
<1>4. Receiving'
    BY <1>1 DEF StreamInv, Receiving, sessionVars, appVars, Below
<1>5. Acking'
  <2>1. \A s : Kept(s) => Kept(s)'
      BY DEF Kept, sessionVars
  <2>2. last_recv_complete_seq \in Nat
      BY LoadTypes DEF StreamInv, Basics, Receiving
  <2>3. p.max_ack \in 0..last_recv_complete_seq /\ \A seq \in p.acks : Kept(seq)
      BY DEF StreamInv, Acking
  <2>4. \A seq \in 1..p.max_ack : Kept(seq)
      BY <2>2, <2>3 DEF Kept
  <2>5. \A seq \in serverAcked' : Kept(seq)
      BY <2>3, <2>4 DEF StreamInv, Acking
  <2> QED BY <1>1, <2>1, <2>5 DEF StreamInv, Acking, sessionVars
<1>6. ASSUME UpstreamInv PROVE UpstreamInv'
  <2>1. PICK C : Upstream(C)
      BY <1>6 DEF UpstreamInv
  <2>2. \A g \in serverGot' : Carries(C, g)
    <3>1. CASE p.data = <<>>
        BY <2>1, <3>1 DEF Upstream
    <3>2. CASE p.data # <<>>
      <4>1. Carries(C, p)
          BY <2>1, <3>2 DEF Upstream
      <4>2. Carries(C, [seq |-> p.seq, data |-> p.data])
          BY <4>1 DEF Carries
      <4> QED BY <2>1, <3>2, <4>2 DEF Upstream
    <3> QED BY <3>1, <3>2
  <2>3. Upstream(C)'
      BY <1>1, <2>1, <2>2 DEF Upstream, sessionVars, appVars
  <2> QED BY <2>3 DEF UpstreamInv
<1> QED BY <1>2, <1>3, <1>4, <1>5, <1>6 DEF StreamInv

LEMMA ServerSendsStream ==
    ASSUME StreamInv, NEW seq \in 0..load.server, ServerSends(seq), UNCHANGED load
    PROVE  StreamInv' /\ (UpstreamInv => UpstreamInv')
<1> USE DEF ServerSends
<1> DEFINE q == Segment(IF seq = 0 THEN serverSent + 1 ELSE seq,
                        IF seq = 0 THEN <<>> ELSE ServerPayload(seq),
                        ServerComplete, {g.seq : g \in serverGot})
<1>1. Unit' = Unit /\ load.server \in Nat /\ load.seq \in Nat
    BY SameUnit, LoadTypes DEF StreamInv, Basics
<1>2. toClient' = toClient \cup {q}
    OBVIOUS
<1>3. /\ q.max_ack = ServerComplete /\ q.acks = {g.seq : g \in serverGot}
      /\ q.data # <<>> => q.seq = seq /\ q.seq \in 1..load.server /\ q.data = ServerPayload(seq)
    BY <1>1 DEF Segment
<1>4. ServerComplete \in Nat /\ \A i \in 1..ServerComplete : HasSeq(i)
  <2>1. /\ load \in Loads /\ next_send_seq \in Nat \ {0} /\ next_send_seq <= load.seq + 1
        /\ \A g \in serverGot : g.seq \in 1..(next_send_seq - 1)
      BY DEF StreamInv, Basics, Sending, SendQueue
  <2> QED BY <1>1, <2>1, ServerCompletes
<1> HIDE DEF q
<1>5. \A s \in q.acks \cup 1..q.max_ack : HasSeq(s)
    BY <1>3, <1>4 DEF HasSeq
<1>6. Basics'
    BY <1>1 DEF StreamInv, Basics, sessionVars, appVars
<1>7. Sending'
  <2>1. \A s : HasSeq(s)' <=> HasSeq(s)
      BY DEF HasSeq
  <2>2. QueuedUntilReceived'
      BY DEF StreamInv, Sending, QueuedUntilReceived, sessionVars
  <2>3. \A p \in toClient' :
          /\ p.max_ack \in Nat
          /\ \A s \in p.acks \cup 1..p.max_ack : HasSeq(s)
      BY <1>2, <1>3, <1>4, <1>5 DEF StreamInv, Sending
  <2> QED BY <1>1, <2>1, <2>2, <2>3 DEF StreamInv, Sending, sessionVars
<1>8. Receiving'
  <2>1. \A p \in toClient' : p.data # <<>> =>
          p.seq \in 1..load.server /\ p.data = ServerPayload(p.seq)
      BY <1>2, <1>3 DEF StreamInv, Receiving
  <2> QED BY <1>1, <2>1 DEF StreamInv, Receiving, sessionVars, appVars, Below
<1>9. Acking'
    BY DEF StreamInv, Acking, sessionVars, Kept
<1>10. ASSUME UpstreamInv PROVE UpstreamInv'
  <2>1. PICK C : Upstream(C)
      BY <1>10 DEF UpstreamInv
  <2>2. Upstream(C)'
      BY <2>1 DEF Upstream, sessionVars, appVars
  <2> QED BY <2>2 DEF UpstreamInv
<1> QED BY <1>6, <1>7, <1>8, <1>9, <1>10 DEF StreamInv

LEMMA PayloadUnits ==
    ASSUME load \in Loads, NEW seq \in 1..load.server
    PROVE  ServerPayload(seq) \in Seq(Unit)
<1>1. load.app \in Nat /\ load.server \in Nat
    BY LoadTypes
<1>2. seq \in Unit /\ -1 \in Unit
    BY <1>1 DEF Unit
<1>3. <<seq>> \in Seq(Unit) /\ <<-1>> \in Seq(Unit)
    BY <1>2, Single
<1> QED BY <1>3 DEF ServerPayload, magic_req

\* rt_add_ack keeps to the window.
LEMMA AckFits ==
    ASSUME NEW n \in Nat, NEW acks \in SUBSET (1..n), Cardinality(acks) <= Window,
           NEW seq \in 1..n
    PROVE  /\ AddAck(acks, seq, Cardinality(acks)) \in SUBSET (1..n)
           /\ Cardinality(AddAck(acks, seq, Cardinality(acks))) <= Window
<1>1. IsFiniteSet(1..n)
    BY FS_Interval
<1>2. IsFiniteSet(acks)
    BY <1>1, FS_Subset
<1>3. PICK c \in Nat : c = Cardinality(acks)
    BY <1>2, FS_CardinalityType
<1>4. Cardinality(acks \cup {seq}) = c \/ Cardinality(acks \cup {seq}) = c + 1
    BY <1>2, <1>3, FS_AddElement
<1>5. CASE c >= Window
    BY <1>3, <1>5 DEF AddAck
<1>6. CASE ~(c >= Window)
  <2>1. AddAck(acks, seq, Cardinality(acks)) = acks \cup {seq}
      BY <1>3, <1>6 DEF AddAck
  <2>2. c + 1 <= Window /\ c <= Window
      BY <1>6, SessionAssumption
  <2> QED BY <1>4, <2>1, <2>2
<1> QED BY <1>5, <1>6

LEMMA HandlePacketStream ==
    ASSUME StreamInv, NEW p \in toClient, HandlePacket(p), UNCHANGED load
    PROVE  StreamInv' /\ (UpstreamInv => UpstreamInv')
<1> DEFINE segs == ProcessAcks(send_segments, p.max_ack, p.acks)
           next == next_send_seq
           complete == last_recv_complete_seq
<1>1. /\ Unit' = Unit /\ load \in Loads /\ load.server \in Nat /\ load.seq \in Nat
      /\ complete \in Nat /\ next \in Nat \ {0} /\ Window \in Nat
  <2>1. load \in Loads
      BY DEF StreamInv, Basics
  <2>2. load.server \in Nat /\ load.seq \in Nat
      BY <2>1, LoadTypes
  <2>3. complete \in Nat
      BY <2>2 DEF StreamInv, Receiving
  <2>4. next \in Nat \ {0}
      BY DEF StreamInv, Sending, SendQueue
  <2> QED BY <2>1, <2>2, <2>3, <2>4, SameUnit, SessionAssumption
<1>2. /\ send_segments' = segs
      /\ toClient' \subseteq toClient
      /\ UNCHANGED <<send_fifo, recv_fifo, next_send_seq, last_recv_complete_seq,
                     pair, written, delivered, toServer, serverGot, serverSent, serverAcked>>
      /\ established' = TRUE
    BY DEF HandlePacket, appVars, serverVars
<1>3. p.data = <<>> => recv_segments' = recv_segments /\ reply_acks' = reply_acks
    BY DEF HandlePacket
<1>4. ASSUME p.data # <<>>
      PROVE  /\ recv_segments' = RecvPayload(recv_segments, complete, p.seq, p.data)
             /\ reply_acks' = IF AcksSegment(recv_segments, complete, p.seq)
                                THEN AddAck(reply_acks, p.seq, Cardinality(reply_acks))
                                ELSE reply_acks
             /\ p.seq \in 1..load.server /\ p.data = ServerPayload(p.seq)
    BY <1>4 DEF HandlePacket, StreamInv, Receiving
<1>5. recv_segments \in Seq(RecvSegment(Unit, load.server)) /\ Len(recv_segments) \in Nat
      /\ Len(recv_segments) <= Window
    BY DEF StreamInv, Receiving
<1>6. recv_segments' = recv_segments
      \/ /\ p.data # <<>> /\ Len(recv_segments) < Window
         /\ recv_segments' = Append(recv_segments, [seq |-> p.seq, data |-> p.data])
    BY <1>3, <1>4 DEF RecvPayload, KeepsSegment
<1>7. /\ recv_segments' \in Seq(RecvSegment(Unit, load.server))
      /\ Len(recv_segments') <= Window
      /\ \A i \in 1..Len(recv_segments') :
            recv_segments'[i].data = ServerPayload(recv_segments'[i].seq)
      /\ SeqsOf(recv_segments) \subseteq SeqsOf(recv_segments')
  <2>1. CASE recv_segments' = recv_segments
      BY <1>5, <2>1 DEF StreamInv, Receiving
  <2>2. CASE /\ p.data # <<>> /\ Len(recv_segments) < Window
             /\ recv_segments' = Append(recv_segments, [seq |-> p.seq, data |-> p.data])
    <3> DEFINE x == [seq |-> p.seq, data |-> p.data]
               n == Len(recv_segments)
               new == recv_segments'
    <3>1. p.seq \in 1..load.server /\ p.data = ServerPayload(p.seq)
        BY <1>4, <2>2
    <3>2. p.data \in Seq(Unit)
        BY <1>1, <3>1, PayloadUnits
    <3>3. x \in RecvSegment(Unit, load.server) /\ x.data = ServerPayload(x.seq)
        BY <3>1, <3>2 DEF RecvSegment
    <3>4. new = Append(recv_segments, x)
        BY <2>2
    <3> HIDE DEF x
    <3>5. /\ new \in Seq(RecvSegment(Unit, load.server)) /\ Len(new) = n + 1
          /\ \A i \in 1..n : new[i] = recv_segments[i]
          /\ new[n + 1] = x
        BY <1>5, <3>3, <3>4
    <3>6. \A i \in 1..Len(new) : new[i].data = ServerPayload(new[i].seq)
      <4> TAKE i \in 1..Len(new)
      <4>1. CASE i \in 1..n
          BY <3>5, <4>1 DEF StreamInv, Receiving
      <4>2. CASE i = n + 1
          BY <3>3, <3>5, <4>2
      <4> QED BY <1>5, <3>5, <4>1, <4>2
    <3>7. SeqsOf(recv_segments) \subseteq SeqsOf(new)
        BY <1>5, <3>5 DEF SeqsOf
    <3>8. Len(new) <= Window
        BY <1>1, <1>5, <2>2, <3>5
    <3> QED BY <3>5, <3>6, <3>7, <3>8
  <2> QED BY <1>6, <2>1, <2>2
<1>8. \A s : Kept(s) => Kept(s)'
    BY <1>2, <1>7 DEF Kept
<1>9. Basics'
  <2>1. reply_acks \in SUBSET (1..load.server) /\ Cardinality(reply_acks) <= Window
      BY DEF StreamInv, Basics
  <2>2. reply_acks' \in SUBSET (1..load.server) /\ Cardinality(reply_acks') <= Window
    <3>1. CASE p.data = <<>>
        BY <1>3, <2>1, <3>1
    <3>2. CASE p.data # <<>>
      <4>1. reply_acks' = reply_acks
            \/ reply_acks' = AddAck(reply_acks, p.seq, Cardinality(reply_acks))
          BY <1>4, <3>2
      <4>2. p.seq \in 1..load.server
          BY <1>4, <3>2
      <4> QED BY <1>1, <2>1, <4>1, <4>2, AckFits
    <3> QED BY <3>1, <3>2
  <2> QED BY <1>1, <1>2, <2>2 DEF StreamInv, Basics
<1>10. /\ SendQueue(Unit, segs, next)
       /\ \A i \in 1..Len(segs) : \E j \in 1..Len(send_segments) : segs[i] = send_segments[j]
       /\ \A s \in SeqsOf(send_segments) : s \in SeqsOf(segs) \/ ~(s > p.max_ack) \/ s \in p.acks
    BY AcksKeep DEF StreamInv, Sending
<1> HIDE DEF segs
<1>11. Sending'
  <2>1. \A s : HasSeq(s)' <=> HasSeq(s)
      BY <1>2 DEF HasSeq
  <2>2. \A s \in 1..(next - 1) : s \in SeqsOf(segs) \/ HasSeq(s)
    <3> TAKE s \in 1..(next - 1)
    <3>1. s \in SeqsOf(send_segments) \/ HasSeq(s)
        BY DEF StreamInv, Sending, QueuedUntilReceived, HasSeq
    <3>2. p.max_ack \in Nat /\ \A r \in p.acks \cup 1..p.max_ack : HasSeq(r)
        BY DEF StreamInv, Sending
    <3>3. ~(s > p.max_ack) => s \in 1..p.max_ack
        BY <1>1, <3>2
    <3> QED BY <1>10, <3>1, <3>2, <3>3
  <2>3. QueuedUntilReceived'
      BY <1>2, <2>2 DEF QueuedUntilReceived, HasSeq
  <2>4. SendQueue(Unit, send_segments, next_send_seq)'
      BY <1>1, <1>2, <1>10
  <2> QED BY <1>2, <2>1, <2>3, <2>4 DEF StreamInv, Sending
<1>12. Receiving'
    BY <1>1, <1>2, <1>7 DEF StreamInv, Receiving, Below
<1>13. Acking'
  <2>1. \A seq \in reply_acks' : Kept(seq)'
    <3> SUFFICES ASSUME NEW seq \in reply_acks', seq \notin reply_acks PROVE Kept(seq)'
        BY <1>8 DEF StreamInv, Acking
    <3>1. p.data # <<>>
        BY <1>3
    <3>2. AcksSegment(recv_segments, complete, p.seq) /\ seq = p.seq
        BY <1>4, <3>1 DEF AddAck
    <3>3. p.seq \in 1..load.server
        BY <1>4, <3>1
    <3>4. CASE p.seq <= complete \/ p.seq \in SeqsOf(recv_segments)
      <4>1. Kept(p.seq)
          BY <1>1, <3>3, <3>4 DEF Kept
      <4> QED BY <1>8, <3>2, <4>1
    <3>5. CASE ~(p.seq <= complete \/ p.seq \in SeqsOf(recv_segments))
      <4>1. KeepsSegment(recv_segments, complete, p.seq)
          BY <1>1, <3>2, <3>3, <3>5 DEF AcksSegment, KeepsSegment
      <4>2. recv_segments' = Append(recv_segments, [seq |-> p.seq, data |-> p.data])
          BY <1>4, <3>1, <4>1 DEF RecvPayload
      <4>3. p.seq \in SeqsOf(recv_segments')
          BY <1>5, <4>2 DEF SeqsOf
      <4> QED BY <3>2, <4>3 DEF Kept
    <3> QED BY <3>4, <3>5
  <2> QED BY <1>2, <1>8, <2>1 DEF StreamInv, Acking
<1>14. ASSUME UpstreamInv PROVE UpstreamInv'
  <2>1. PICK C : Upstream(C)
      BY <1>14 DEF UpstreamInv
  <2>2. AllCarry(C, segs)
      BY <1>10, <2>1 DEF Upstream, Feeds, AllCarry
  <2>3. Upstream(C)'
      BY <1>2, <2>1, <2>2 DEF Upstream, Feeds
  <2> QED BY <2>3 DEF UpstreamInv
<1> QED BY <1>9, <1>11, <1>12, <1>13, <1>14 DEF StreamInv

\* rt_segment_send marks what it sends.
Marked(segs, sending) ==
    [i \in 1..Len(segs) |-> [segs[i] EXCEPT !.sent = @ \/ i \in sending]]

LEMMA Marks ==
    ASSUME NEW U, NEW segs, NEW next, SendQueue(U, segs, next), NEW sending
    PROVE  /\ SendQueue(U, Marked(segs, sending), next)
           /\ Len(Marked(segs, sending)) = Len(segs)
           /\ \A i \in 1..Len(segs) : /\ Marked(segs, sending)[i].seq = segs[i].seq
                                      /\ Marked(segs, sending)[i].data = segs[i].data
<1>0. PICK new : new = Marked(segs, sending)
    OBVIOUS
<1> DEFINE n == Len(segs)
           SS == SendSegment(U)
<1>1. segs \in Seq(SS) /\ n \in Nat
    BY DEF SendQueue
<1>2. \A i \in 1..n : segs[i] \in SS
    BY <1>1
<1>3. ASSUME NEW i \in 1..n
      PROVE  new[i] \in SS /\ new[i].seq = segs[i].seq /\ new[i].data = segs[i].data
  <2>1. segs[i].sent \in BOOLEAN
      BY <1>2 DEF SendSegment
  <2>2. PICK b \in BOOLEAN : b = (segs[i].sent \/ i \in sending)
      BY <2>1, Zenon
  <2>3. new[i] = [segs[i] EXCEPT !.sent = b]
      BY <1>0, <2>2 DEF Marked
  <2> QED BY <1>2, <2>3 DEF SendSegment
<1>4. new \in Seq(SS) /\ Len(new) = n
  <2>1. DOMAIN new = 1..n
      BY <1>0 DEF Marked
  <2>2. new \in [1..n -> SS]
      BY <1>0, <1>3 DEF Marked
  <2> HIDE DEF SS, n
  <2>3. new \in Seq(SS)
      BY <1>1, <2>2
  <2> QED BY <1>1, <2>1, <2>3
<1>5. new # <<>> => segs # <<>> /\ new[1].seq = segs[1].seq
  <2> HAVE new # <<>>
  <2>1. 1 \in 1..n
      BY <1>1, <1>4
  <2> QED BY <1>1, <1>3, <2>1
<1> HIDE DEF SS
<1>6. SendQueue(U, new, next)
  <2>1. \A i \in 1..Len(new) : new[i].seq \in 1..(next - 1)
      BY <1>3, <1>4 DEF SendQueue
  <2>2. \A i, j \in 1..Len(new) : i <= j => new[j].seq - new[i].seq >= j - i
      BY <1>3, <1>4 DEF SendQueue
  <2>3. new # <<>> => next <= new[1].seq + Window
      BY <1>5 DEF SendQueue
  <2> QED BY <1>4, <2>1, <2>2, <2>3 DEF SendQueue, SS
<1> QED BY <1>0, <1>3, <1>4, <1>6

LEMMA MagicUnits ==
    ASSUME load \in Loads
    PROVE  magic_req \in Seq(Unit) /\ magic_resp \in Seq(Unit)
<1>1. -1 \in Unit /\ -2 \in Unit
    BY LoadTypes DEF Unit
<1> QED BY <1>1, Single DEF magic_req, magic_resp

\* A keepalive is queued on an empty queue only.
LEMMA QueueKeepAlive ==
    ASSUME NEW U, NEW next, SendQueue(U, <<>>, next), NEW data \in Seq(U)
    PROVE  /\ SendQueue(U, QueueSegment(<<>>, next, data), next + 1)
           /\ Grown(<<>>, next, QueueSegment(<<>>, next, data), next + 1)
<1>1. ~WindowFull(<<>>, next)
    BY DEF WindowFull
<1> QED BY <1>1, Enqueue

\* The receive FIFO takes what is drained, ...
LEMMA Drained ==
    ASSUME NEW U, NEW fifo \in Seq(U), NEW data \in Seq(U), NEW b \in Nat,
           Rises(fifo, b), Rises(data, b + Len(fifo))
    PROVE  Rises(fifo \o data, b)
<1>1. PICK l \in Nat, m \in Nat : l = Len(fifo) /\ m = Len(data)
    OBVIOUS
<1>2. PICK all : all = fifo \o data
    OBVIOUS
<1>3. /\ Len(all) = l + m
      /\ \A i \in 1..l : all[i] = fifo[i]
      /\ \A i \in 1..m : all[l + i] = data[i]
    BY <1>1, <1>2, Concat
<1>4. \A i \in 1..(l + m) : all[i] = b + i
  <2> TAKE i \in 1..(l + m)
  <2>1. CASE i \in 1..l
      BY <1>1, <1>3, <2>1 DEF Rises
  <2>2. CASE i \in (l + 1)..(l + m)
    <3>1. i - l \in 1..m /\ l + (i - l) = i
        BY <2>2
    <3>2. all[i] = data[i - l]
        BY <1>3, <3>1
    <3>3. data[i - l] = b + l + (i - l)
        BY <1>1, <3>1 DEF Rises
    <3> QED BY <3>2, <3>3
  <2> QED BY <2>1, <2>2
<1> QED BY <1>2, <1>3, <1>4 DEF Rises

\* ... and passes the first a units on.
LEMMA Delivers ==
    ASSUME NEW U, NEW d \in Seq(U), NEW fifo \in Seq(U), NEW a \in 0..Len(fifo),
           Rises(d, 1), Rises(fifo, Len(d) + 1)
    PROVE  /\ d \o Take(fifo, a) \in Seq(U) /\ Drop(fifo, a) \in Seq(U)
           /\ Len(d \o Take(fifo, a)) = Len(d) + a
           /\ Len(Drop(fifo, a)) = Len(fifo) - a
           /\ Rises(d \o Take(fifo, a), 1)
           /\ Rises(Drop(fifo, a), Len(d) + a + 1)
<1>1. PICK l \in Nat, m \in Nat : l = Len(d) /\ m = Len(fifo)
    OBVIOUS
<1>2. a \in Nat /\ a <= m
    BY <1>1
<1>3. PICK x, y : x = Take(fifo, a) /\ y = Drop(fifo, a)
    OBVIOUS
<1>4. /\ x \in Seq(U) /\ Len(x) = a /\ (\A i \in 1..a : x[i] = fifo[i])
      /\ y \in Seq(U) /\ Len(y) = m - a
  <2>1. Split(U, fifo, a, x, y)
      BY <1>3, TakeSome
  <2> QED BY <1>1, <2>1 DEF Split
<1>5. \A i \in 1..(m - a) : y[i] = fifo[a + i]
  <2>1. Split(U, fifo, a, x, y)
      BY <1>3, TakeSome
  <2> QED BY <1>1, <2>1 DEF Split
<1>6. Rises(x, 1 + l)
  <2> SUFFICES ASSUME NEW i \in 1..a PROVE x[i] = 1 + l + i
      BY <1>4 DEF Rises
  <2>1. i \in 1..m
      BY <1>2
  <2>2. fifo[i] = l + 1 + i
      BY <1>1, <2>1 DEF Rises
  <2> QED BY <1>4, <2>2
<1>7. d \o x \in Seq(U) /\ Len(d \o x) = l + a
    BY <1>1, <1>4, Concat
<1>8. Rises(d \o x, 1)
    BY <1>1, <1>4, <1>6, Drained
<1>9. Rises(y, l + a + 1)
  <2> SUFFICES ASSUME NEW i \in 1..(m - a) PROVE y[i] = l + a + 1 + i
      BY <1>4 DEF Rises
  <2>1. a + i \in 1..m
      BY <1>2
  <2>2. fifo[a + i] = l + 1 + (a + i)
      BY <1>1, <2>1 DEF Rises
  <2> QED BY <1>2, <1>5, <2>2
<1> QED BY <1>1, <1>3, <1>4, <1>7, <1>8, <1>9

LEMMA InterruptStream ==
    ASSUME StreamInv, NEW accepts, NEW idle \in BOOLEAN, NEW due,
           Interrupt(accepts, idle, due), UNCHANGED load
    PROVE  StreamInv' /\ (SegmentUnits = 1 /\ UpstreamInv => UpstreamInv')
<1> DEFINE
        n == DrainCount(recv_segments, last_recv_complete_seq, recv_fifo)
        asked == send_segments = <<>>
                 /\ \E i \in 1..n : recv_segments[i].data = magic_req
        data == DrainedData(recv_segments, n)
        fifo == recv_fifo \o data
        segs0 == IF asked THEN QueueSegment(send_segments, next_send_seq, magic_resp)
                          ELSE send_segments
        next0 == IF asked THEN next_send_seq + 1 ELSE next_send_seq
        in == PumpPairToSend(send_fifo, pair)
        cut == SegmentSendFifo(segs0, next0, in.fifo)
        segs == IF idle THEN QueueSegment(cut.segs, cut.next, magic_req) ELSE cut.segs
        next == IF idle THEN cut.next + 1 ELSE cut.next
        complete == last_recv_complete_seq + n
        sending == {i \in 1..Len(segs) : ~segs[i].sent \/ i \in due}
        carrier == IF sending = {} THEN 0
                   ELSE CHOOSE i \in sending : \A j \in sending : i <= j
        acks(i) == IF i = carrier THEN reply_acks ELSE {}
        pkts == {Segment(segs[i].seq, segs[i].data, complete, acks(i)) : i \in sending}
                \cup (IF sending = {} /\ reply_acks # {}
                        THEN {Segment(next, <<>>, complete, reply_acks)} ELSE {})
        c == last_recv_complete_seq
<1>1. /\ idle => cut.segs = <<>>
      /\ next <= load.seq + 1
      /\ accepts \in 0..Len(fifo)
    BY DEF Interrupt
<1>2. /\ recv_segments' = Drop(recv_segments, n)
      /\ last_recv_complete_seq' = complete
      /\ delivered' = delivered \o Take(fifo, accepts)
      /\ recv_fifo' = Drop(fifo, accepts)
    BY DEF Interrupt
<1>3. /\ pair' = in.pair
      /\ send_fifo' = cut.fifo
      /\ next_send_seq' = next
      /\ send_segments' = [i \in 1..Len(segs) |->
                             [segs[i] EXCEPT !.sent = @ \/ i \in sending]]
      /\ reply_acks' = {}
      /\ UNCHANGED <<established, written, serverGot, serverSent, serverAcked, toClient>>
    BY DEF Interrupt, serverVars
<1>4. \A p \in toServer' : p \in toServer \/ p \in pkts
  <2>1. Send(pkts)
      BY DEF Interrupt
  <2> HIDE DEF pkts
  <2> QED BY <2>1 DEF Send
<1>5. \A p \in pkts : /\ p.max_ack = complete
                      /\ p.acks \subseteq reply_acks
                      /\ \/ p.data = <<>>
                         \/ \E i \in 1..Len(segs) : p.seq = segs[i].seq /\ p.data = segs[i].data
  <2> SUFFICES ASSUME NEW p \in pkts
               PROVE  /\ p.max_ack = complete
                      /\ p.acks \subseteq reply_acks
                      /\ \/ p.data = <<>>
                         \/ \E i \in 1..Len(segs) : p.seq = segs[i].seq /\ p.data = segs[i].data
      OBVIOUS
  <2>1. \A i \in sending : acks(i) \subseteq reply_acks /\ i \in 1..Len(segs)
      OBVIOUS
  <2> HIDE DEF complete, acks, sending, segs, next
  <2>2. \/ \E i \in sending : p = Segment(segs[i].seq, segs[i].data, complete, acks(i))
        \/ p = Segment(next, <<>>, complete, reply_acks)
      OBVIOUS
  <2>3. CASE \E i \in sending : p = Segment(segs[i].seq, segs[i].data, complete, acks(i))
      BY <2>1, <2>3 DEF Segment
  <2>4. CASE p = Segment(next, <<>>, complete, reply_acks)
      BY <2>4 DEF Segment
  <2> QED BY <2>2, <2>3, <2>4
<1> HIDE DEF pkts
<1>6. /\ load \in Loads /\ Unit' = Unit
      /\ load.app \in Nat /\ load.server \in Nat /\ load.seq \in Nat
      /\ c \in Nat
      /\ magic_req \in Seq(Unit) /\ magic_resp \in Seq(Unit)
  <2>1. load \in Loads
      BY DEF StreamInv, Basics
  <2>2. load.app \in Nat /\ load.server \in Nat /\ load.seq \in Nat
      BY <2>1, LoadTypes
  <2>3. c \in Nat
      BY <2>2 DEF StreamInv, Receiving
  <2> QED BY <2>1, <2>2, <2>3, SameUnit, MagicUnits
<1>7. /\ recv_segments \in Seq(RecvSegment(Unit, load.server)) /\ Len(recv_segments) \in Nat
      /\ FromServer(recv_segments)
      /\ recv_fifo \in Seq(Unit) /\ Len(recv_fifo) <= FifoUnits
      /\ delivered \in Seq(Unit)
    BY DEF StreamInv, Receiving, FromServer
<1>8. /\ n \in 0..Len(recv_segments)
      /\ Drains(recv_segments, c, recv_fifo, n)
    BY <1>6, <1>7, DrainStops
<1> HIDE DEF n
<1>9. InOrder(recv_segments, c, n)
    BY <1>8 DEF Drains, InOrder
<1>10. /\ data \in Seq(Unit)
       /\ Len(data) = Below(c + n) - Below(c)
       /\ \A i \in 1..Len(data) : data[i] = Below(c) + i + 1
    BY <1>6, <1>7, <1>8, <1>9, DrainedUnits
<1>11. Len(recv_fifo) + Len(data) <= FifoUnits
    BY <1>8 DEF Drains
<1>12. SendQueue(Unit, send_segments, next_send_seq)
    BY DEF StreamInv, Sending
<1>13. SendQueue(Unit, segs0, next0) /\ Grown(send_segments, next_send_seq, segs0, next0)
  <2>1. CASE asked
      BY <1>6, <1>12, <2>1, QueueKeepAlive
  <2>2. CASE ~asked
    <3>1. segs0 = send_segments /\ next0 = next_send_seq
        BY <2>2
    <3>2. next_send_seq \in Nat /\ Len(send_segments) \in Nat
        BY <1>12 DEF SendQueue
    <3> HIDE DEF segs0, next0
    <3> QED BY <1>12, <3>1, <3>2, GrownNot
  <2> QED BY <2>1, <2>2
<1>14. send_fifo \in Seq(Unit) /\ Len(send_fifo) <= FifoUnits /\ pair \in Seq(Unit)
       /\ written \in 0..load.app
    BY DEF StreamInv, Basics
<1>15. in.fifo \in Seq(Unit) /\ Len(in.fifo) <= FifoUnits /\ in.pair \in Seq(Unit)
    BY <1>14, PumpFits
<1>16. /\ SendQueue(Unit, cut.segs, cut.next)
       /\ Grown(segs0, next0, cut.segs, cut.next)
       /\ cut.fifo \in Seq(Unit)
       /\ Len(cut.fifo) <= Len(in.fifo)
  <2> HIDE DEF segs0, next0, in
  <2> QED BY <1>13, <1>15, CutGrows
<1>17. SendQueue(Unit, segs, next) /\ Grown(cut.segs, cut.next, segs, next)
  <2> HIDE DEF cut
  <2>1. CASE idle
      BY <1>1, <1>6, <1>16, <2>1, QueueKeepAlive
  <2>2. CASE ~idle
    <3>1. segs = cut.segs /\ next = cut.next
        BY <2>2
    <3>2. cut.next \in Nat /\ Len(cut.segs) \in Nat
        BY <1>16 DEF SendQueue
    <3> HIDE DEF segs, next
    <3> QED BY <1>16, <3>1, <3>2, GrownNot
  <2> QED BY <2>1, <2>2
<1>18. Grown(send_segments, next_send_seq, segs, next)
  <2> HIDE DEF segs0, next0, cut, segs, next
  <2>1. /\ next_send_seq \in Nat /\ next0 \in Nat /\ cut.next \in Nat /\ next \in Nat
        /\ Len(send_segments) \in Nat /\ Len(segs0) \in Nat
        /\ Len(cut.segs) \in Nat /\ Len(segs) \in Nat
      BY <1>12, <1>13, <1>16, <1>17 DEF SendQueue
  <2>2. Grown(send_segments, next_send_seq, cut.segs, cut.next)
      BY <1>13, <1>16, <2>1, GrownTwice
  <2> QED BY <1>17, <2>1, <2>2, GrownTwice
<1>19. /\ SendQueue(Unit, send_segments', next)
       /\ Len(send_segments') = Len(segs)
       /\ \A i \in 1..Len(segs) : /\ send_segments'[i].seq = segs[i].seq
                                  /\ send_segments'[i].data = segs[i].data
  <2> HIDE DEF segs, next, sending
  <2>1. send_segments' = Marked(segs, sending)
      BY <1>3 DEF Marked
  <2> QED BY <1>17, <2>1, Marks
<1> HIDE DEF segs0, next0, in, cut, segs, next, sending
<1>20. SeqsOf(send_segments') = SeqsOf(segs)
    BY <1>19 DEF SeqsOf
<1>21. /\ next \in Nat \ {0} /\ next_send_seq \in Nat \ {0} /\ next_send_seq <= next
       /\ Len(send_segments) \in Nat /\ Len(segs) \in Nat
    BY <1>12, <1>17, <1>18 DEF SendQueue, Grown
<1>22. complete \in 0..load.server /\ complete \in Nat /\ c <= complete
  <2>1. c \in 0..load.server
      BY DEF StreamInv, Receiving
  <2>2. CASE n = 0
      BY <1>6, <2>1, <2>2
  <2>3. CASE n # 0
    <3>1. n \in 1..n /\ n \in 1..Len(recv_segments)
        BY <1>7, <1>8, <2>3
    <3>2. recv_segments[n] \in RecvSegment(Unit, load.server)
        BY <1>7, <3>1
    <3>3. recv_segments[n].seq \in 1..load.server
        BY <3>2 DEF RecvSegment
    <3>4. recv_segments[n].seq = c + n
        BY <1>9, <3>1 DEF InOrder
    <3> QED BY <1>6, <1>8, <3>3, <3>4
  <2> QED BY <2>2, <2>3
<1>23. Basics'
  <2>1. Len(cut.fifo) <= FifoUnits
    <3>1. Len(cut.fifo) \in Nat /\ Len(in.fifo) \in Nat /\ FifoUnits \in Nat
        BY <1>15, <1>16, SessionAssumption
    <3> QED BY <1>15, <1>16, <3>1
  <2>2. Cardinality({}) <= Window
      BY FS_EmptySet, SessionAssumption
  <2>3. established' \in BOOLEAN
      BY <1>3 DEF StreamInv, Basics
  <2> QED BY <1>1, <1>3, <1>6, <1>14, <1>15, <1>16, <2>1, <2>2, <2>3 DEF Basics
<1>24. Sending'
  <2>1. \A s : HasSeq(s)' <=> HasSeq(s)
      BY <1>3 DEF HasSeq
  <2>2. \A s \in 1..(next_send_seq - 1) : s \in 1..(next - 1)
      BY <1>21
  <2>3. \A g \in serverGot : g.seq \in 1..(next - 1)
      BY <2>2 DEF StreamInv, Sending
  <2>4. \A p \in toServer' : p.data # <<>> => p.seq \in 1..(next - 1)
    <3> SUFFICES ASSUME NEW p \in toServer', p.data # <<>> PROVE p.seq \in 1..(next - 1)
        OBVIOUS
    <3>1. CASE p \in toServer
        BY <2>2, <3>1 DEF StreamInv, Sending
    <3>2. CASE p \in pkts
      <4>1. PICK i \in 1..Len(segs) : p.seq = segs[i].seq
          BY <1>5, <3>2
      <4> QED BY <1>17, <4>1 DEF SendQueue
    <3> QED BY <1>4, <3>1, <3>2
  <2>5. QueuedUntilReceived'
    <3> SUFFICES ASSUME NEW s \in 1..(next - 1)
                 PROVE  s \in SeqsOf(segs) \/ HasSeq(s)
        BY <1>3, <1>20 DEF QueuedUntilReceived, HasSeq
    <3>1. CASE s \in next_send_seq..(next - 1)
        BY <1>18, <3>1 DEF Grown
    <3>2. CASE s \in 1..(next_send_seq - 1)
      <4>1. s \in SeqsOf(send_segments) \/ HasSeq(s)
          BY <3>2 DEF StreamInv, Sending, QueuedUntilReceived, HasSeq
      <4>2. SeqsOf(send_segments) \subseteq SeqsOf(segs)
          BY <1>18, <1>21 DEF Grown, SeqsOf
      <4> QED BY <4>1, <4>2
    <3> QED BY <1>21, <3>1, <3>2
  <2>6. \A p \in toClient :
          /\ p.max_ack \in Nat
          /\ \A s \in p.acks \cup 1..p.max_ack : HasSeq(s)
      BY DEF StreamInv, Sending
  <2>7. SendQueue(Unit, send_segments, next_send_seq)'
      BY <1>3, <1>6, <1>19
  <2> QED BY <1>3, <2>1, <2>3, <2>4, <2>5, <2>6, <2>7 DEF Sending
<1>25. Len(fifo) \in Nat /\ fifo \in Seq(Unit)
       /\ Len(fifo) = Len(recv_fifo) + Len(data) /\ Len(fifo) <= FifoUnits
       /\ Rises(delivered, 1) /\ Rises(fifo, Len(delivered) + 1)
  <2> HIDE DEF data
  <2>1. /\ Rises(delivered, 1) /\ Rises(recv_fifo, Len(delivered) + 1)
        /\ Len(delivered) + Len(recv_fifo) = Below(c)
    <3>1. /\ \A i \in 1..Len(delivered) : delivered[i] = i + 1
          /\ \A i \in 1..Len(recv_fifo) : recv_fifo[i] = Len(delivered) + i + 1
          /\ Len(delivered) + Len(recv_fifo) = Below(c)
        BY DEF StreamInv, Receiving
    <3>2. PICK l \in Nat : l = Len(delivered)
        BY <1>7
    <3>3. \A i \in 1..Len(recv_fifo) : recv_fifo[i] = (l + 1) + i
        BY <3>1, <3>2
    <3> QED BY <3>1, <3>2, <3>3 DEF Rises
  <2>2. PICK b \in Nat, l \in Nat : b = Len(delivered) + 1 /\ l = Len(recv_fifo)
      BY <1>7
  <2>3. Below(c) \in Nat /\ Below(c) + 1 = b + l
    <3>1. Below(c) \in Nat
        BY <1>6 DEF Below
    <3>2. PICK k \in Nat : k = Len(delivered)
        BY <1>7
    <3> QED BY <2>1, <2>2, <3>1, <3>2
  <2>4. Rises(data, b + l)
    <3>1. \A i \in 1..Len(data) : data[i] = (Below(c) + 1) + i
        BY <1>10, <2>3
    <3> QED BY <2>3, <3>1 DEF Rises
  <2>5. Rises(fifo, b)
      BY <1>7, <1>10, <2>1, <2>2, <2>4, Drained
  <2>6. fifo \in Seq(Unit) /\ Len(fifo) = Len(recv_fifo) + Len(data)
      BY <1>7, <1>10, Concat
  <2> QED BY <1>11, <2>1, <2>2, <2>5, <2>6
<1>26. /\ delivered' \in Seq(Unit) /\ recv_fifo' \in Seq(Unit)
       /\ Len(delivered') = Len(delivered) + accepts
       /\ Len(recv_fifo') = Len(fifo) - accepts
       /\ Rises(delivered', 1) /\ Rises(recv_fifo', Len(delivered) + accepts + 1)
  <2> HIDE DEF fifo
  <2>1. /\ delivered' = delivered \o Take(fifo, accepts) /\ recv_fifo' = Drop(fifo, accepts)
        /\ delivered \in Seq(Unit) /\ fifo \in Seq(Unit) /\ accepts \in 0..Len(fifo)
        /\ Rises(delivered, 1) /\ Rises(fifo, Len(delivered) + 1)
      BY <1>1, <1>2, <1>7, <1>25
  <2> QED BY <2>1, Delivers
<1>27. /\ recv_segments' \in Seq(RecvSegment(Unit, load.server))
       /\ Len(recv_segments') = Len(recv_segments) - n
       /\ \A i \in 1..(Len(recv_segments) - n) : recv_segments'[i] = recv_segments[n + i]
  <2>1. Split(RecvSegment(Unit, load.server), recv_segments, n,
              Take(recv_segments, n), recv_segments')
      BY <1>2, <1>7, <1>8, TakeSome
  <2> QED BY <2>1 DEF Split
<1> HIDE DEF fifo, data
<1>28. Receiving'
  <2>1. PICK l \in Nat, k \in Nat, m \in Nat :
          l = Len(delivered) /\ k = Len(fifo) /\ m = Len(recv_segments)
      BY <1>7, <1>25
  <2>2. accepts \in Nat /\ accepts <= k
      BY <1>1, <2>1
  <2>3. Len(recv_segments') <= Window
    <3>1. m <= Window
        BY <2>1 DEF StreamInv, Receiving
    <3> QED BY <1>8, <1>27, <2>1, <3>1, SessionAssumption
  <2>4. \A i \in 1..Len(recv_segments') :
          recv_segments'[i].data = ServerPayload(recv_segments'[i].seq)
    <3> TAKE i \in 1..Len(recv_segments')
    <3>1. i \in 1..(m - n) /\ n + i \in 1..m
        BY <1>8, <1>27, <2>1
    <3>2. recv_segments'[i] = recv_segments[n + i]
        BY <1>27, <2>1, <3>1
    <3> QED BY <1>7, <2>1, <3>1, <3>2 DEF FromServer
  <2>5. Len(recv_fifo') <= FifoUnits
      BY <1>25, <1>26, <2>1, <2>2, SessionAssumption
  <2>6. Len(delivered') + Len(recv_fifo') = Below(complete)
    <3>1. Below(c) \in Nat /\ Below(c + n) \in Nat
        BY <1>6, <1>8 DEF Below
    <3>2. PICK f \in Nat, d \in Nat : f = Len(recv_fifo) /\ d = Len(data)
        BY <1>7, <1>10
    <3>3. l + f = Below(c)
        BY <2>1, <3>2 DEF StreamInv, Receiving
    <3>4. d = Below(c + n) - Below(c) /\ k = f + d
        BY <1>10, <1>25, <2>1, <3>2
    <3>5. Len(delivered') = l + accepts /\ Len(recv_fifo') = k - accepts
        BY <1>26, <2>1
    <3>6. (l + accepts) + (k - accepts) = Below(c + n)
        BY <2>2, <3>1, <3>3, <3>4
    <3> QED BY <3>5, <3>6
  <2>7. \A i \in 1..Len(delivered') : delivered'[i] = i + 1
      BY <1>26 DEF Rises
  <2>8. \A i \in 1..Len(recv_fifo') : recv_fifo'[i] = Len(delivered') + i + 1
    <3> TAKE i \in 1..Len(recv_fifo')
    <3>1. recv_fifo'[i] = l + accepts + 1 + i /\ Len(delivered') = l + accepts
        BY <1>26, <2>1 DEF Rises
    <3> QED BY <2>2, <3>1
  <2>9. \A p \in toClient' : p.data # <<>> =>
          p.seq \in 1..load.server /\ p.data = ServerPayload(p.seq)
      BY <1>3 DEF StreamInv, Receiving
  <2> QED BY <1>2, <1>6, <1>22, <1>26, <1>27, <2>3, <2>4, <2>5, <2>6, <2>7, <2>8, <2>9
          DEF Receiving
<1>29. \A s : Kept(s) => Kept(s)'
  <2> SUFFICES ASSUME NEW s, Kept(s) PROVE Kept(s)'
      OBVIOUS
  <2>1. CASE s \in 1..c
    <3>1. s \in 1..complete
        BY <1>6, <1>22, <2>1
    <3> QED BY <1>2, <3>1 DEF Kept
  <2>2. CASE s \in SeqsOf(recv_segments)
    <3>1. PICK i \in 1..Len(recv_segments) : s = recv_segments[i].seq
        BY <2>2 DEF SeqsOf
    <3>2. CASE i \in 1..n
      <4>1. s = c + i
          BY <1>9, <3>1, <3>2 DEF InOrder
      <4>2. s \in 1..complete
          BY <1>6, <1>8, <3>2, <4>1
      <4> QED BY <1>2, <4>2 DEF Kept
    <3>3. CASE i \in (n + 1)..Len(recv_segments)
      <4>1. i - n \in 1..(Len(recv_segments) - n) /\ n + (i - n) = i
          BY <1>7, <1>8, <3>3
      <4>2. recv_segments'[i - n] = recv_segments[i] /\ i - n \in 1..Len(recv_segments')
          BY <1>27, <4>1
      <4>3. s \in SeqsOf(recv_segments')
          BY <3>1, <4>2 DEF SeqsOf
      <4> QED BY <4>3 DEF Kept
    <3> QED BY <1>7, <1>8, <3>2, <3>3
  <2> QED BY <2>1, <2>2 DEF Kept
<1>30. Acking'
  <2>1. \A p \in toServer' :
          (\A s \in p.acks : Kept(s)) /\ p.max_ack \in 0..complete
    <3> SUFFICES ASSUME NEW p \in toServer'
                 PROVE  (\A s \in p.acks : Kept(s)) /\ p.max_ack \in 0..complete
        OBVIOUS
    <3>1. CASE p \in toServer
      <4>1. (\A s \in p.acks : Kept(s)) /\ p.max_ack \in 0..c
          BY <3>1 DEF StreamInv, Acking
      <4> HIDE DEF complete
      <4> QED BY <1>6, <1>22, <4>1
    <3>2. CASE p \in pkts
      <4>1. p.max_ack = complete /\ p.acks \subseteq reply_acks
          BY <1>5, <3>2
      <4>2. \A s \in reply_acks : Kept(s)
          BY DEF StreamInv, Acking
      <4> HIDE DEF complete
      <4> QED BY <1>22, <4>1, <4>2
    <3> QED BY <1>4, <3>1, <3>2
  <2>2. \A s \in serverAcked' : Kept(s)
      BY <1>3 DEF StreamInv, Acking
  <2> HIDE DEF complete
  <2> QED BY <1>2, <1>3, <1>29, <2>1, <2>2 DEF Acking
<1>31. ASSUME SegmentUnits = 1, UpstreamInv PROVE UpstreamInv'
  <2>1. PICK C : Upstream(C)
      BY <1>31 DEF UpstreamInv
  <2>2. Feeds(C, send_segments, next_send_seq, send_fifo, pair, written)
      BY <2>1 DEF Upstream
  <2>3. written \in Nat
      BY <1>6, <1>14
  <2>4. PICK D : Agree(C, D, next_send_seq) /\ Feeds(D, segs0, next0, send_fifo, pair, written)
    <3>1. CASE asked
      <4>1. IsKeepAlive(magic_resp) /\ ~WindowFull(send_segments, next_send_seq)
          BY <3>1 DEF IsKeepAlive, WindowFull
      <4>2. /\ segs0 = QueueSegment(send_segments, next_send_seq, magic_resp)
            /\ next0 = next_send_seq + 1
          BY <3>1 DEF segs0, next0
      <4> QED BY <1>6, <1>12, <2>2, <4>1, <4>2, KeepAliveFeeds
    <3>2. CASE ~asked
      <4>1. segs0 = send_segments /\ next0 = next_send_seq
          BY <3>2 DEF segs0, next0
      <4>2. Agree(C, C, next_send_seq)
          BY DEF Agree
      <4> QED BY <2>2, <4>1, <4>2
    <3> QED BY <3>1, <3>2
  <2>5. Feeds(D, segs0, next0, in.fifo, in.pair, written)
    <3>1. Counts(D, next0) /\ next0 \in Nat \ {0}
        BY <1>13, <2>4 DEF Feeds, SendQueue
    <3>2. next0 - 1 \in 0..(next0 - 1)
        BY <3>1
    <3>3. D[next0 - 1] \in Nat
        BY <3>1, <3>2 DEF Counts
    <3>4. Run(send_fifo, pair, D[next0 - 1], written)
        BY <2>4 DEF Feeds
    <3>5. Run(in.fifo, in.pair, D[next0 - 1], written)
        BY <1>14, <1>31, <2>3, <3>3, <3>4, PumpRun DEF in
    <3> QED BY <2>4, <3>5 DEF Feeds
  <2>6. PICK E : Agree(D, E, next0) /\ Feeds(E, cut.segs, cut.next, cut.fifo, in.pair, written)
      BY <1>13, <1>15, <1>31, <2>3, <2>5, CutsFeed DEF cut
  <2>7. PICK F : Agree(E, F, cut.next) /\ Feeds(F, segs, next, cut.fifo, in.pair, written)
    <3>1. CASE idle
      <4>1. cut.segs = <<>>
          BY <1>1, <3>1
      <4>2. IsKeepAlive(magic_req) /\ ~WindowFull(cut.segs, cut.next)
          BY <4>1 DEF IsKeepAlive, WindowFull
      <4>3. /\ segs = QueueSegment(cut.segs, cut.next, magic_req)
            /\ next = cut.next + 1
          BY <3>1 DEF segs, next
      <4> QED BY <1>6, <1>16, <2>6, <4>2, <4>3, KeepAliveFeeds
    <3>2. CASE ~idle
      <4>1. segs = cut.segs /\ next = cut.next
          BY <3>2 DEF segs, next
      <4>2. Agree(E, E, cut.next)
          BY DEF Agree
      <4> QED BY <2>6, <4>1, <4>2
    <3> QED BY <3>1, <3>2
  <2>8. Agree(C, F, next_send_seq)
    <3>1. /\ next0 \in Nat /\ cut.next \in Nat
          /\ next_send_seq <= next0 /\ next0 <= cut.next
        BY <1>13, <1>16 DEF SendQueue, Grown
    <3>2. Agree(C, E, next_send_seq)
        BY <1>21, <2>4, <2>6, <3>1, AgreeTwice
    <3>3. next_send_seq <= cut.next
        BY <1>21, <3>1
    <3> QED BY <1>21, <2>7, <3>1, <3>2, <3>3, AgreeTwice
  <2>9. AllCarry(F, send_segments')
    <3> SUFFICES ASSUME NEW i \in 1..Len(segs) PROVE Carries(F, send_segments'[i])
        BY <1>19 DEF AllCarry
    <3>1. Carries(F, segs[i])
        BY <2>7 DEF Feeds, AllCarry
    <3>2. send_segments'[i].seq = segs[i].seq /\ send_segments'[i].data = segs[i].data
        BY <1>19
    <3> QED BY <3>1, <3>2 DEF Carries
  <2>10. Feeds(F, send_segments', next, cut.fifo, in.pair, written)
      BY <2>7, <2>9 DEF Feeds
  <2>11. \A p \in toServer' : p.data # <<>> => Carries(F, p)
    <3> SUFFICES ASSUME NEW p \in toServer', p.data # <<>> PROVE Carries(F, p)
        OBVIOUS
    <3>1. CASE p \in toServer
      <4>1. Carries(C, p) /\ p.seq \in 1..(next_send_seq - 1)
          BY <2>1, <3>1 DEF Upstream, StreamInv, Sending
      <4> QED BY <1>21, <2>8, <4>1, AgreeCarries
    <3>2. CASE p \in pkts
      <4>1. PICK i \in 1..Len(segs) : p.seq = segs[i].seq /\ p.data = segs[i].data
          BY <1>5, <3>2
      <4>2. Carries(F, segs[i])
          BY <2>7 DEF Feeds, AllCarry
      <4> QED BY <4>1, <4>2 DEF Carries
    <3> QED BY <1>4, <3>1, <3>2
  <2>12. \A g \in serverGot : Carries(F, g)
    <3> SUFFICES ASSUME NEW g \in serverGot PROVE Carries(F, g)
        OBVIOUS
    <3>1. Carries(C, g) /\ g.seq \in 1..(next_send_seq - 1)
        BY <2>1 DEF Upstream, StreamInv, Sending
    <3> QED BY <1>21, <2>8, <3>1, AgreeCarries
  <2>13. Upstream(F)'
      BY <1>3, <2>10, <2>11, <2>12 DEF Upstream
  <2> QED BY <2>13 DEF UpstreamInv
<1> QED BY <1>23, <1>24, <1>28, <1>30, <1>31 DEF StreamInv

LEMMA NextStream ==
    ASSUME StreamInv, [Next]_vars
    PROVE  StreamInv' /\ (SegmentUnits = 1 /\ UpstreamInv => UpstreamInv')
<1>1. ASSUME NEW p \in toClient, HandlePacket(p), UNCHANGED load
      PROVE  StreamInv' /\ (UpstreamInv => UpstreamInv')
    BY <1>1, HandlePacketStream
<1>2. ASSUME NEW accepts \in 0..FifoUnits, NEW idle \in BOOLEAN,
             NEW due \in SUBSET (1..Window), Interrupt(accepts, idle, due), UNCHANGED load
      PROVE  StreamInv' /\ (SegmentUnits = 1 /\ UpstreamInv => UpstreamInv')
    BY <1>2, InterruptStream
<1>3. ASSUME AppWrites, UNCHANGED load
      PROVE  StreamInv' /\ (UpstreamInv => UpstreamInv')
    BY <1>3, AppWritesStream
<1>4. ASSUME NEW p \in toServer, ServerReceives(p), UNCHANGED load
      PROVE  StreamInv' /\ (UpstreamInv => UpstreamInv')
    BY <1>4, ServerReceivesStream
<1>5. ASSUME NEW seq \in 0..load.server, ServerSends(seq), UNCHANGED load
      PROVE  StreamInv' /\ (UpstreamInv => UpstreamInv')
    BY <1>5, ServerSendsStream
<1>6. ASSUME Lose, UNCHANGED load
      PROVE  StreamInv' /\ (UpstreamInv => UpstreamInv')
    BY <1>6, LoseStream
<1>7. ASSUME UNCHANGED vars
      PROVE  StreamInv' /\ (UpstreamInv => UpstreamInv')
  <2> USE <1>7 DEF vars, sessionVars, appVars, serverVars
  <2>1. Unit' = Unit
      BY SameUnit
  <2>2. Basics'
      BY <2>1 DEF StreamInv, Basics
  <2>3. Sending'
      BY <2>1 DEF StreamInv, Sending, QueuedUntilReceived, HasSeq
  <2>4. Receiving'
      BY <2>1 DEF StreamInv, Receiving, Below
  <2>5. Acking'
      BY DEF StreamInv, Acking, Kept
  <2>6. ASSUME UpstreamInv PROVE UpstreamInv'
    <3>1. PICK C : Upstream(C)
        BY <2>6 DEF UpstreamInv
    <3>2. Upstream(C)'
        BY <3>1 DEF Upstream
    <3> QED BY <3>2 DEF UpstreamInv
  <2> QED BY <2>2, <2>3, <2>4, <2>5, <2>6 DEF StreamInv
<1> QED BY <1>1, <1>2, <1>3, <1>4, <1>5, <1>6, <1>7 DEF Next

LEMMA StreamImpliesTypes ==
    ASSUME StreamInv
    PROVE  TypeOK /\ DownstreamIsPrefix
<1>1. load \in Loads /\ load.app \in Nat /\ load.server \in Nat /\ load.seq \in Nat
    BY LoadTypes DEF StreamInv, Basics
<1>2. Payloads = Seq(Unit)
    BY DEF Payloads, Unit
<1>3. SendQueue(Unit, send_segments, next_send_seq) /\ next_send_seq <= load.seq + 1
    BY DEF StreamInv, Basics, Sending
<1>4. Len(send_segments) <= Window
    BY <1>3, QueueRoom
<1>5. next_send_seq \in 1..(load.seq + 1)
    BY <1>1, <1>3 DEF SendQueue
<1>6. \A i \in 1..Len(send_segments) :
        send_segments[i] \in [seq : 1..load.seq, data : Payloads, sent : BOOLEAN]
  <2> TAKE i \in 1..Len(send_segments)
  <2>1. send_segments[i] \in SendSegment(Unit) /\ send_segments[i].seq \in 1..(next_send_seq - 1)
      BY <1>3 DEF SendQueue
  <2>2. send_segments[i].seq \in 1..load.seq
      BY <1>1, <1>5, <2>1
  <2> QED BY <1>2, <2>1, <2>2 DEF SendSegment
<1>7. \A i \in 1..Len(recv_segments) :
        recv_segments[i] \in [seq : 1..load.server, data : Payloads]
  <2>1. recv_segments \in Seq(RecvSegment(Unit, load.server))
      BY DEF StreamInv, Receiving
  <2>2. \A i \in 1..Len(recv_segments) : recv_segments[i] \in RecvSegment(Unit, load.server)
      BY <2>1
  <2> QED BY <1>2, <2>2 DEF RecvSegment
<1>8. TypeOK
    BY <1>1, <1>2, <1>4, <1>5, <1>6, <1>7 DEF StreamInv, Basics, Receiving, TypeOK
<1>9. Len(delivered) <= load.server
  <2>0. recv_fifo \in Seq(Unit) /\ delivered \in Seq(Unit)
      BY DEF StreamInv, Receiving
  <2>1. PICK l \in Nat, k \in Nat : l = Len(delivered) /\ k = Len(recv_fifo)
      BY <2>0
  <2>2. l + k = Below(last_recv_complete_seq) /\ last_recv_complete_seq \in 0..load.server
      BY <2>1 DEF StreamInv, Receiving
  <2>3. Below(last_recv_complete_seq) <= load.server
      BY <1>1, <2>2 DEF Below
  <2>4. Below(last_recv_complete_seq) \in Nat
      BY <1>1, <2>2 DEF Below
  <2> QED BY <1>1, <2>1, <2>2, <2>3, <2>4
<1> QED BY <1>8, <1>9 DEF StreamInv, Receiving, DownstreamIsPrefix

LEMMA StreamImpliesAcks ==
    ASSUME StreamInv
    PROVE  AcksAreTrue
<1>1. AcknowledgedIsKept
    BY DEF StreamInv, Acking, Kept, AcknowledgedIsKept
<1> QED BY <1>1 DEF StreamInv, Sending, AcksAreTrue

-----------------------------------------------------------------------------
(* The theorems. *)

LEMMA StreamInvHolds == Spec => []StreamInv
<1>1. Init => StreamInv
    BY InitStream
<1>2. StreamInv /\ [Next]_vars => StreamInv'
    BY NextStream
<1> QED BY <1>1, <1>2, PTL DEF Spec

\* What the application reads is a prefix of what the server sent, and every
\* queue keeps to its capacity, for every window, segment and FIFO size and
\* whatever the network loses, repeats or reorders: rt_handle_udp_packet's
\* reorder buffer and the drain loop of rt_interrupt.
THEOREM DownstreamIsIntact == Spec => [](TypeOK /\ DownstreamIsPrefix)
<1>1. StreamInv => TypeOK /\ DownstreamIsPrefix
    BY StreamImpliesTypes
<1> QED BY <1>1, StreamInvHolds, PTL

\* A sender drops a segment only when its receiver has it: the server what
\* rt_process_recv_payload acknowledged, the client what rt_process_ack and
\* rt_process_ack2 took off the send queue.
THEOREM AcknowledgementsAreTrue == Spec => []AcksAreTrue
<1>1. StreamInv => AcksAreTrue
    BY StreamImpliesAcks
<1> QED BY <1>1, StreamInvHolds, PTL

\* When what rt_pump_pair_to_send reads at once always fits the FIFO it writes
\* to (segments of one unit), the server reads the greeting and then the
\* application's bytes, none missing, as well.
THEOREM BothStreamsAreIntact ==
    ASSUME SegmentUnits = 1
    PROVE  Spec => []StreamsAreIntact
<1>1. Init => StreamInv /\ UpstreamInv
    BY InitStream
<1>2. StreamInv /\ UpstreamInv /\ [Next]_vars => (StreamInv /\ UpstreamInv)'
    BY NextStream
<1>3. StreamInv /\ UpstreamInv => StreamsAreIntact
    BY StreamImpliesTypes, UpstreamUnits DEF StreamsAreIntact
<1> QED BY <1>1, <1>2, <1>3, PTL DEF Spec

-----------------------------------------------------------------------------
(* The receive queue.  Its invariant: the blocks of a source that were sent  *)
(* and not read are, in order, the last ones of the source, and wait where   *)
(* they will be read next; the frames that are queued are those of the ring. *)

\* The blocks, by number, that met the fate x.
At(f, x) == {i \in 1..Len(f) : f[i] = x}

\* What of a source was sent and is going to be read.
Pending(s) ==
    IF s = "udp" THEN udp
    ELSE IF s = Queue!Primary /\ ~inSync THEN <<>>
    ELSE IF s = cur /\ left # <<>> THEN left
    ELSE IF wire[s] = <<>> THEN <<>> ELSE Head(wire[s])

Waits(s, p, f) ==
    /\ p \in Seq(Queue!Block) /\ Len(p) <= Len(f)
    /\ \A k \in 1..Len(p) : p[k].src = s /\ p[k].n = Len(f) - Len(p) + k
    /\ At(f, "sent") = Len(f) - Len(p) + 1 .. Len(f)

Control ==
    /\ phase \in {"setup", "data", "stopped"}
    /\ rpc \in {"idle", "fill", "blocks", "take"}
    /\ inSync \in BOOLEAN /\ setupFailed \in BOOLEAN /\ garbage \in BOOLEAN
    /\ batch \in 0..BatchPackets
    /\ rpc = "fill" => recvCount = 0
    /\ rpc = "take" /\ phase = "setup" => recvCount > 0
    /\ phase = "stopped" => rpc = "idle"
    /\ ~inSync => setupFailed \/ phase = "stopped"
    /\ garbage => setupFailed

Wires ==
    /\ links \subseteq Queue!Links /\ cur \in Queue!Links
    /\ wire \in [Queue!Links -> Seq(Seq(Queue!Block))]
    /\ left \in Seq(Queue!Block)
    /\ \A l \in Queue!Links : Len(wire[l]) <= 1
    /\ \A l \in Queue!Links : l \notin links => wire[l] = <<>>
    /\ rpc = "blocks" <=> left # <<>>
    /\ rpc = "blocks" => wire[cur] = <<>> /\ (cur = Queue!Primary => inSync)

Waiting ==
    /\ fate \in [Queue!Sources -> Seq(Queue!Fates)]
    /\ \A s \in Queue!Sources : Waits(s, Pending(s), fate[s])

RingShape ==
    /\ head \in 0..QueueSize - 1 /\ tail \in 0..QueueSize - 1
    /\ recvCount \in 0..QueueSize
    /\ ring \in [0..QueueSize - 1 -> Queue!Block \union {Queue!NoBlock}]
    /\ tail = (head + recvCount) % QueueSize

\* q holds the queued frames of every source, in order.
Holds(q, f) ==
    /\ q \in Seq(Queue!Block)
    /\ \A i \in 1..Len(q) :
          q[i].src \in Queue!Sources => q[i].n \in At(f[q[i].src], "queued")
    /\ \A i, j \in 1..Len(q) :
          i < j /\ q[i].src = q[j].src /\ q[i].src # "garbage" => q[i].n < q[j].n
    /\ \A s \in Queue!Sources : \A k \in At(f[s], "queued") :
          \E i \in 1..Len(q) : q[i].src = s /\ q[i].n = k

Ring ==
    /\ RingShape
    /\ Holds(Queue!Queued, fate)
    /\ \A i \in 1..recvCount : Queue!Queued[i].src = "garbage" => setupFailed
    /\ \A s \in Queue!Sources :
          \A i \in At(fate[s], "queued"), j \in At(fate[s], "delivered") : j < i

Counted ==
    /\ skippedBlocks = Cardinality(Queue!Skipped) /\ IsFiniteSet(Queue!Skipped)
    /\ \A l \in Queue!Links :
          At(fate[l], "lost") # {} => l \notin links \/ setupFailed \/ phase = "stopped"

QueueInv == Control /\ Wires /\ Waiting /\ Ring /\ Counted

-----------------------------------------------------------------------------
LEMMA Modulo ==
    ASSUME NEW N \in Nat \ {0}, NEW x \in 0..2 * N - 1
    PROVE  x % N = IF x < N THEN x ELSE x - N
<1>1. CASE x < N
    BY <1>1
<1>2. CASE ~(x < N)
    BY <1>2
<1> QED BY <1>1, <1>2

\* The slots of a ring of N from h on, c of which are taken.
LEMMA RingSlots ==
    ASSUME NEW N \in Nat \ {0}, NEW h \in 0..N - 1, NEW c \in 0..N
    PROVE  /\ \A i \in 1..N : (h + i - 1) % N \in 0..N - 1
           /\ \A i, j \in 1..N : i # j => (h + i - 1) % N # (h + j - 1) % N
           /\ c < N => /\ (h + c) % N = (h + (c + 1) - 1) % N
                       /\ (((h + c) % N) + 1) % N = (h + (c + 1)) % N
           /\ \A i \in 1..N : (((h + 1) % N) + i - 1) % N = (h + (i + 1) - 1) % N
           /\ c > 0 => (h + c) % N = (((h + 1) % N) + (c - 1)) % N
<1> DEFINE W(x) == IF x < N THEN x ELSE x - N
<1>1. ASSUME NEW x \in 0..2 * N - 1 PROVE x % N = W(x) /\ W(x) \in 0..N - 1
  <2>1. x % N = W(x)
      BY Modulo
  <2> QED BY <2>1
<1>2. ASSUME NEW i \in 1..N PROVE (h + i - 1) % N = W(h + i - 1) /\ h + i - 1 \in 0..2 * N - 1
  <2>1. h + i - 1 \in 0..2 * N - 1
      OBVIOUS
  <2> HIDE DEF W
  <2> QED BY <1>1, <2>1
<1>3. (h + c) % N = W(h + c) /\ (h + 1) % N = W(h + 1)
  <2>1. h + c \in 0..2 * N - 1 /\ h + 1 \in 0..2 * N - 1
      OBVIOUS
  <2> HIDE DEF W
  <2> QED BY <1>1, <2>1
<1>4. \A i \in 1..N : (h + i - 1) % N \in 0..N - 1
    BY <1>2
<1>5. \A i, j \in 1..N : i # j => (h + i - 1) % N # (h + j - 1) % N
    BY <1>2
<1>6. ASSUME c < N
      PROVE  (h + c) % N = (h + (c + 1) - 1) % N /\ (((h + c) % N) + 1) % N = (h + (c + 1)) % N
  <2>1. h + c = h + (c + 1) - 1
      OBVIOUS
  <2>2. W(h + c) + 1 \in 0..2 * N - 1 /\ h + (c + 1) \in 0..2 * N - 1
      BY <1>6
  <2>3. (W(h + c) + 1) % N = W(W(h + c) + 1) /\ (h + (c + 1)) % N = W(h + (c + 1))
    <3> HIDE DEF W
    <3> QED BY <1>1, <2>2
  <2>4. W(W(h + c) + 1) = W(h + (c + 1))
      BY <1>6
  <2> HIDE DEF W
  <2> QED BY <1>3, <2>1, <2>3, <2>4
<1>7. ASSUME NEW i \in 1..N PROVE (((h + 1) % N) + i - 1) % N = (h + (i + 1) - 1) % N
  <2>1. W(h + 1) + i - 1 \in 0..2 * N - 1 /\ h + i \in 0..2 * N - 1 /\ h + (i + 1) - 1 = h + i
      OBVIOUS
  <2>2. (W(h + 1) + i - 1) % N = W(W(h + 1) + i - 1) /\ (h + i) % N = W(h + i)
    <3> HIDE DEF W
    <3> QED BY <1>1, <2>1
  <2>3. W(W(h + 1) + i - 1) = W(h + i)
      OBVIOUS
  <2> HIDE DEF W
  <2> QED BY <1>3, <2>1, <2>2, <2>3
<1>8. ASSUME c > 0 PROVE (h + c) % N = (((h + 1) % N) + (c - 1)) % N
  <2>1. W(h + 1) + (c - 1) \in 0..2 * N - 1
      BY <1>8
  <2>2. (W(h + 1) + (c - 1)) % N = W(W(h + 1) + (c - 1))
    <3> HIDE DEF W
    <3> QED BY <1>1, <2>1
  <2>3. W(W(h + 1) + (c - 1)) = W(h + c)
      BY <1>8
  <2> HIDE DEF W
  <2> QED BY <1>3, <2>2, <2>3
<1> HIDE DEF W
<1> QED BY <1>4, <1>5, <1>6, <1>7, <1>8

LEMMA RingBack ==
    ASSUME NEW N \in Nat \ {0}, NEW h \in 0..N - 1, NEW i \in 1..N
    PROVE  (((h + i - 1) % N) + N - h) % N = i - 1
<1> DEFINE W(x) == IF x < N THEN x ELSE x - N
<1>1. h + i - 1 \in 0..2 * N - 1 /\ W(h + i - 1) + N - h \in 0..2 * N - 1
    OBVIOUS
<1>2. (h + i - 1) % N = W(h + i - 1) /\ (W(h + i - 1) + N - h) % N = W(W(h + i - 1) + N - h)
    BY <1>1, Modulo
<1>3. W(W(h + i - 1) + N - h) = i - 1
    OBVIOUS
<1> HIDE DEF W
<1> QED BY <1>2, <1>3

Slot(i) == (head + i - 1) % QueueSize

LEMMA QueuedIs ==
    ASSUME RingShape
    PROVE  /\ Queue!Queued = [i \in 1..recvCount |-> ring[Slot(i)]]
           /\ recvCount \in Nat /\ Len(Queue!Queued) = recvCount
           /\ \A i \in 1..recvCount : Queue!Queued[i] = ring[Slot(i)]
<1>1. Queue!Queued = [i \in 1..recvCount |-> ring[Slot(i)]]
    BY DEF Queue!Queued, Slot
<1>2. recvCount \in Nat
    BY QueueAssumption DEF RingShape
<1> QED BY <1>1, <1>2

LEMMA EnqueueAppends ==
    ASSUME RingShape, Queue!Queued \in Seq(Queue!Block), recvCount < QueueSize,
           NEW b \in Queue!Block, Queue!Enqueue(b)
    PROVE  /\ RingShape'
           /\ Queue!Queued' \in Seq(Queue!Block) /\ recvCount' = recvCount + 1
           /\ Len(Queue!Queued') = recvCount + 1
           /\ \A i \in 1..recvCount + 1 :
                 Queue!Queued'[i] = IF i = recvCount + 1 THEN b ELSE Queue!Queued[i]
<1>1. QueueSize \in Nat \ {0}
    BY QueueAssumption
<1>2. head' = head /\ tail' = (tail + 1) % QueueSize /\ recvCount' = recvCount + 1
      /\ ring' = [ring EXCEPT ![tail] = b]
    BY DEF Queue!Enqueue, Queue!NextSlot
<1>3. /\ head \in 0..QueueSize - 1 /\ tail \in 0..QueueSize - 1
      /\ recvCount \in 0..QueueSize
      /\ ring \in [0..QueueSize - 1 -> Queue!Block \union {Queue!NoBlock}]
      /\ tail = (head + recvCount) % QueueSize
    BY DEF RingShape
<1>4. /\ \A i \in 1..QueueSize : Slot(i) \in 0..QueueSize - 1
      /\ \A i, j \in 1..QueueSize : i # j => Slot(i) # Slot(j)
      /\ tail = Slot(recvCount + 1)
      /\ (tail + 1) % QueueSize = (head + (recvCount + 1)) % QueueSize
    BY <1>1, <1>3, RingSlots DEF Slot
<1>5. (tail + 1) % QueueSize \in 0..QueueSize - 1
    BY <1>1, <1>3
<1>6. RingShape'
  <2>1. ring' \in [0..QueueSize - 1 -> Queue!Block \union {Queue!NoBlock}]
      BY <1>2, <1>3
  <2>2. recvCount' \in 0..QueueSize
      BY <1>1, <1>2, <1>3
  <2> QED BY <1>2, <1>3, <1>4, <1>5, <2>1, <2>2 DEF RingShape
<1>7. Queue!Queued' = [i \in 1..recvCount + 1 |-> ring'[Slot(i)]]
    BY <1>2 DEF Queue!Queued, Slot
<1>8. \A i \in 1..recvCount + 1 :
          ring'[Slot(i)] = IF i = recvCount + 1 THEN b ELSE Queue!Queued[i]
  <2> TAKE i \in 1..recvCount + 1
  <2>1. i \in 1..QueueSize /\ recvCount + 1 \in 1..QueueSize
      BY <1>1, <1>3
  <2>2. ring'[Slot(i)] = IF Slot(i) = tail THEN b ELSE ring[Slot(i)]
      BY <1>2, <1>3, <1>4, <2>1
  <2>3. Slot(i) = tail <=> i = recvCount + 1
      BY <1>4, <2>1
  <2>4. i # recvCount + 1 => i \in 1..recvCount
      BY <1>1, <1>3
  <2> HIDE DEF Slot
  <2> QED BY <2>2, <2>3, <2>4, QueuedIs
<1>9. \A i \in 1..recvCount + 1 :
          Queue!Queued'[i] = IF i = recvCount + 1 THEN b ELSE Queue!Queued[i]
    BY <1>7, <1>8
<1>10. Queue!Queued' \in Seq(Queue!Block) /\ Len(Queue!Queued') = recvCount + 1
  <2>1. ASSUME NEW i \in 1..recvCount + 1
        PROVE  (IF i = recvCount + 1 THEN b ELSE Queue!Queued[i]) \in Queue!Block
    <3>1. i # recvCount + 1 => i \in 1..Len(Queue!Queued)
        BY QueuedIs
    <3> QED BY <3>1
  <2>2. Queue!Queued' \in [1..recvCount + 1 -> Queue!Block]
      BY <1>7, <1>8, <2>1
  <2>3. recvCount + 1 \in Nat
      BY QueuedIs
  <2> QED BY <1>7, <2>2, <2>3
<1> QED BY <1>2, <1>6, <1>9, <1>10

LEMMA DequeueTails ==
    ASSUME RingShape, Queue!Queued \in Seq(Queue!Block), recvCount > 0, Queue!Dequeue
    PROVE  /\ RingShape'
           /\ Queue!Queued' \in Seq(Queue!Block) /\ recvCount' = recvCount - 1
           /\ Len(Queue!Queued') = recvCount - 1
           /\ \A i \in 1..recvCount - 1 : Queue!Queued'[i] = Queue!Queued[i + 1]
           /\ ring[head] = Queue!Queued[1]
<1>1. QueueSize \in Nat \ {0}
    BY QueueAssumption
<1>2. tail' = tail /\ head' = (head + 1) % QueueSize /\ recvCount' = recvCount - 1
      /\ ring' = [ring EXCEPT ![head] = Queue!NoBlock]
    BY DEF Queue!Dequeue, Queue!NextSlot
<1>3. /\ head \in 0..QueueSize - 1 /\ tail \in 0..QueueSize - 1
      /\ recvCount \in 0..QueueSize
      /\ ring \in [0..QueueSize - 1 -> Queue!Block \union {Queue!NoBlock}]
      /\ tail = (head + recvCount) % QueueSize
    BY DEF RingShape
<1>4. /\ \A i \in 1..QueueSize : Slot(i) \in 0..QueueSize - 1
      /\ \A i, j \in 1..QueueSize : i # j => Slot(i) # Slot(j)
      /\ \A i \in 1..QueueSize : (((head + 1) % QueueSize) + i - 1) % QueueSize = Slot(i + 1)
      /\ tail = (((head + 1) % QueueSize) + (recvCount - 1)) % QueueSize
    BY <1>1, <1>3, RingSlots DEF Slot
<1>5. (head + 1) % QueueSize \in 0..QueueSize - 1
    BY <1>1, <1>3
<1>6. head = Slot(1)
  <2>1. head + 1 - 1 = head /\ head % QueueSize = head
      BY <1>1, <1>3
  <2> QED BY <2>1 DEF Slot
<1>7. RingShape'
  <2>1. ring' \in [0..QueueSize - 1 -> Queue!Block \union {Queue!NoBlock}]
      BY <1>2, <1>3
  <2>2. recvCount' \in 0..QueueSize
      BY <1>1, <1>2, <1>3
  <2> QED BY <1>2, <1>3, <1>4, <1>5, <2>1, <2>2 DEF RingShape
<1>8. Queue!Queued' =
          [i \in 1..recvCount - 1 |-> ring'[(((head + 1) % QueueSize) + i - 1) % QueueSize]]
    BY <1>2 DEF Queue!Queued
<1>9. \A i \in 1..recvCount - 1 : /\ Queue!Queued'[i] = Queue!Queued[i + 1]
                                 /\ Queue!Queued'[i] \in Queue!Block
  <2> TAKE i \in 1..recvCount - 1
  <2>1. /\ i \in 1..QueueSize /\ i + 1 \in 1..QueueSize /\ 1 \in 1..QueueSize
        /\ i + 1 # 1 /\ i + 1 \in 1..recvCount
      BY <1>1, <1>3
  <2>2. Queue!Queued'[i] = ring'[Slot(i + 1)]
      BY <1>4, <1>8, <2>1
  <2>3. Slot(i + 1) # head
      BY <1>4, <1>6, <2>1
  <2>4. ring'[Slot(i + 1)] = ring[Slot(i + 1)]
      BY <1>2, <1>3, <1>4, <2>1, <2>3
  <2>5. Queue!Queued'[i] = Queue!Queued[i + 1]
      BY <2>1, <2>2, <2>4, QueuedIs
  <2>6. i + 1 \in 1..Len(Queue!Queued)
      BY <2>1, QueuedIs
  <2> QED BY <2>5, <2>6
<1>10. ring[head] = Queue!Queued[1]
  <2>1. 1 \in 1..recvCount
      BY <1>3
  <2> QED BY <1>6, <2>1, QueuedIs
<1>11. Queue!Queued' \in Seq(Queue!Block) /\ Len(Queue!Queued') = recvCount - 1
  <2>1. Queue!Queued' \in [1..recvCount - 1 -> Queue!Block]
      BY <1>8, <1>9
  <2>2. recvCount - 1 \in Nat
      BY <1>3
  <2> QED BY <2>1, <2>2
<1> QED BY <1>2, <1>7, <1>9, <1>10, <1>11

\* drain_rudp_into_recv_queue.
LEMMA FillIsPrefix ==
    ASSUME RingShape, recvCount = 0, udp \in Seq(Queue!Block),
           NEW n \in 0..QueueSize, n <= Len(udp),
           ring' = [i \in 0..QueueSize - 1 |->
                       LET k == 1 + ((i + QueueSize - tail) % QueueSize)
                       IN IF k <= n THEN udp[k] ELSE ring[i]],
           head' = head, tail' = (tail + n) % QueueSize, recvCount' = n
    PROVE  /\ RingShape'
           /\ Queue!Queued' \in Seq(Queue!Block) /\ Len(Queue!Queued') = n
           /\ \A i \in 1..n : Queue!Queued'[i] = udp[i]
<1>1. QueueSize \in Nat \ {0}
    BY QueueAssumption
<1>2. /\ head \in 0..QueueSize - 1
      /\ ring \in [0..QueueSize - 1 -> Queue!Block \union {Queue!NoBlock}]
    BY DEF RingShape
<1>3. tail = head
  <2>1. head + 0 = head /\ head % QueueSize = head
      BY <1>1, <1>2
  <2> QED BY <2>1 DEF RingShape
<1>4. /\ \A i \in 1..QueueSize : Slot(i) \in 0..QueueSize - 1
      /\ \A i \in 1..QueueSize : (Slot(i) + QueueSize - head) % QueueSize = i - 1
    BY <1>1, <1>2, RingSlots, RingBack DEF Slot
<1>5. \A i \in 0..QueueSize - 1 : ring'[i] \in Queue!Block \union {Queue!NoBlock}
  <2> TAKE i \in 0..QueueSize - 1
  <2> DEFINE k == 1 + ((i + QueueSize - tail) % QueueSize)
  <2>1. ring'[i] = IF k <= n THEN udp[k] ELSE ring[i]
      OBVIOUS
  <2>2. i + QueueSize - tail \in Nat
      BY <1>1, <1>2, <1>3
  <2>3. k \in 1..QueueSize
      BY <1>1, <2>2
  <2> HIDE DEF k
  <2>4. k <= n => k \in 1..Len(udp)
      BY <1>1, <2>3
  <2> QED BY <1>2, <2>1, <2>4
<1>6. RingShape'
  <2>1. (head + n) % QueueSize \in 0..QueueSize - 1
      BY <1>1, <1>2
  <2>2. ring' \in [0..QueueSize - 1 -> Queue!Block \union {Queue!NoBlock}]
      BY <1>5
  <2> QED BY <1>2, <1>3, <2>1, <2>2 DEF RingShape
<1>7. Queue!Queued' = [i \in 1..n |-> ring'[Slot(i)]]
    BY DEF Queue!Queued, Slot
<1>8. \A i \in 1..n : Queue!Queued'[i] = udp[i] /\ udp[i] \in Queue!Block
  <2> TAKE i \in 1..n
  <2>1. i \in 1..QueueSize /\ i \in 1..Len(udp)
      BY <1>1
  <2>2. ring'[Slot(i)] =
            LET k == 1 + ((Slot(i) + QueueSize - tail) % QueueSize)
            IN IF k <= n THEN udp[k] ELSE ring[Slot(i)]
    <3> HIDE DEF Slot
    <3> QED BY <1>4, <2>1
  <2>3. 1 + ((Slot(i) + QueueSize - tail) % QueueSize) = i
      BY <1>3, <1>4, <2>1
  <2> HIDE DEF Slot
  <2> QED BY <1>7, <2>1, <2>2, <2>3
<1>9. Queue!Queued' \in [1..n -> Queue!Block]
    BY <1>7, <1>8
<1>10. n \in Nat
    BY <1>1
<1>11. Len(Queue!Queued') = n
    BY <1>7, <1>10
<1> QED BY <1>6, <1>8, <1>9, <1>10, <1>11

LEMMA SourceNames ==
    /\ "garbage" \notin Queue!Sources /\ "udp" \in Queue!Sources /\ "udp" \notin Queue!Links
    /\ Queue!Links \subseteq Queue!Sources /\ Queue!Primary \in Queue!Links
    /\ Queue!Sources = Queue!Links \union {"udp"}
    /\ \A b \in Queue!Block : /\ b.src \in Queue!Sources \/ b.src = "garbage"
                             /\ b.n \in Nat
BY QueueAssumption DEF Queue!Sources, Queue!Links, Queue!Primary, Queue!Block

\* Of all blocks only b met the fate x.
OneMet(f, g, b, x) ==
    \A s \in Queue!Sources : \A k :
        k \in At(g[s], x) <=> k \in At(f[s], x) \/ (s = b.src /\ k = b.n)

\* No block met a fate of ys, and none that had changed it.
Untouched(f, g, ys) ==
    \A s \in Queue!Sources : \A y \in ys : At(g[s], y) = At(f[s], y)

\* b comes after the blocks of its source that met the fate x.
After(f, b, x) == b.src \in Queue!Sources => \A k \in At(f[b.src], x) : k < b.n

OneAdded(q, b, r) ==
    /\ r \in Seq(Queue!Block) /\ Len(r) = Len(q) + 1
    /\ \A i \in 1..Len(r) : r[i] = IF i = Len(r) THEN b ELSE q[i]

LEMMA HoldsKept ==
    ASSUME NEW q, NEW f, NEW g, Holds(q, f),
           \A s \in Queue!Sources : At(g[s], "queued") = At(f[s], "queued")
    PROVE  Holds(q, g)
BY DEF Holds

LEMMA HoldsOneMore ==
    ASSUME NEW q, NEW f, NEW g, Holds(q, f), NEW b \in Queue!Block,
           NEW r, OneAdded(q, b, r), OneMet(f, g, b, "queued"), After(f, b, "queued")
    PROVE  Holds(r, g)
<1>0. /\ r \in Seq(Queue!Block) /\ Len(r) = Len(q) + 1
      /\ \A i \in 1..Len(r) : r[i] = IF i = Len(r) THEN b ELSE q[i]
      /\ \A s \in Queue!Sources : \A k :
            k \in At(g[s], "queued") <=> k \in At(f[s], "queued") \/ (s = b.src /\ k = b.n)
      /\ b.src \in Queue!Sources => \A k \in At(f[b.src], "queued") : k < b.n
    BY DEF OneAdded, OneMet, After
<1>1. Len(q) \in Nat
    BY DEF Holds
<1>2. \A i \in 1..Len(r) : i # Len(r) => i \in 1..Len(q) /\ r[i] = q[i]
    BY <1>0, <1>1
<1>3. Len(r) \in 1..Len(r) /\ r[Len(r)] = b
    BY <1>0, <1>1
<1>4. ASSUME NEW i \in 1..Len(r), r[i].src \in Queue!Sources
      PROVE  r[i].n \in At(g[r[i].src], "queued")
    BY <1>0, <1>2, <1>3, <1>4 DEF Holds
<1>5. ASSUME NEW i \in 1..Len(r), NEW j \in 1..Len(r), i < j, r[i].src = r[j].src,
             r[i].src # "garbage"
      PROVE  r[i].n < r[j].n
  <2>1. i # Len(r)
      BY <1>0, <1>1, <1>5
  <2>2. CASE j = Len(r)
    <3>1. i \in 1..Len(q) /\ q[i] = r[i] /\ q[i] \in Queue!Block
        BY <1>0, <1>2, <2>1 DEF Holds
    <3>2. q[i].n \in At(f[q[i].src], "queued") /\ q[i].src = b.src /\ b.src \in Queue!Sources
        BY <1>0, <1>3, <1>5, <2>2, <3>1, SourceNames DEF Holds
    <3> QED BY <1>0, <1>3, <2>2, <3>1, <3>2
  <2>3. CASE j # Len(r)
      BY <1>0, <1>2, <1>5, <2>1, <2>3 DEF Holds
  <2> QED BY <1>0, <2>2, <2>3
<1>6. ASSUME NEW s \in Queue!Sources, NEW k \in At(g[s], "queued")
      PROVE  \E i \in 1..Len(r) : r[i].src = s /\ r[i].n = k
  <2>1. CASE s = b.src /\ k = b.n
      BY <1>0, <1>3, <2>1
  <2>2. CASE ~(s = b.src /\ k = b.n)
    <3>1. k \in At(f[s], "queued")
        BY <1>0, <2>2
    <3>2. PICK i \in 1..Len(q) : q[i].src = s /\ q[i].n = k
        BY <1>0, <3>1 DEF Holds
    <3>3. i \in 1..Len(r) /\ i # Len(r)
        BY <1>0, <1>1
    <3> QED BY <1>0, <1>2, <3>2, <3>3
  <2> QED BY <1>0, <2>1, <2>2
<1> QED BY <1>0, <1>4, <1>5, <1>6 DEF Holds

LEMMA HoldsOneLess ==
    ASSUME NEW q, NEW f, NEW g, Holds(q, f), Len(q) > 0,
           NEW r \in Seq(Queue!Block), Len(r) = Len(q) - 1,
           \A i \in 1..Len(r) : r[i] = q[i + 1],
           \A s \in Queue!Sources : \A k :
               k \in At(g[s], "queued") <=>
                   k \in At(f[s], "queued") /\ ~(s = q[1].src /\ k = q[1].n)
    PROVE  Holds(r, g)
<1>1. Len(q) \in Nat /\ q \in Seq(Queue!Block)
    BY DEF Holds
<1>2. \A i \in 1..Len(r) : i + 1 \in 1..Len(q) /\ r[i] = q[i + 1] /\ 1 < i + 1 /\ 1 \in 1..Len(q)
    BY <1>1
<1>3. ASSUME NEW i \in 1..Len(r), r[i].src \in Queue!Sources
      PROVE  r[i].n \in At(g[r[i].src], "queued")
  <2>1. q[i + 1].n \in At(f[q[i + 1].src], "queued")
      BY <1>2, <1>3 DEF Holds
  <2>2. q[1].src = q[i + 1].src => q[1].n < q[i + 1].n
      BY <1>2, <1>3, SourceNames DEF Holds
  <2>3. q[1] \in Queue!Block /\ q[i + 1] \in Queue!Block
      BY <1>1, <1>2
  <2>4. q[1].n \in Nat /\ q[i + 1].n \in Nat
      BY <2>3, SourceNames
  <2>5. q[i + 1].n \in At(g[q[i + 1].src], "queued")
    <3>1. q[i + 1].src \in Queue!Sources
        BY <1>2, <1>3
    <3>2. q[1].src = q[i + 1].src => q[i + 1].n # q[1].n
        BY <2>2, <2>4
    <3> QED BY <2>1, <3>1, <3>2
  <2> QED BY <1>2, <2>5
<1>4. ASSUME NEW i \in 1..Len(r), NEW j \in 1..Len(r), i < j, r[i].src = r[j].src,
             r[i].src # "garbage"
      PROVE  r[i].n < r[j].n
  <2>1. i + 1 < j + 1
      BY <1>4
  <2>2. /\ r[i] = q[i + 1] /\ r[j] = q[j + 1]
        /\ i + 1 \in 1..Len(q) /\ j + 1 \in 1..Len(q)
      BY <1>2
  <2>3. q[i + 1].n < q[j + 1].n
      BY <1>4, <2>1, <2>2 DEF Holds
  <2> QED BY <2>2, <2>3
<1>5. ASSUME NEW s \in Queue!Sources, NEW k \in At(g[s], "queued")
      PROVE  \E i \in 1..Len(r) : r[i].src = s /\ r[i].n = k
  <2>1. k \in At(f[s], "queued") /\ ~(s = q[1].src /\ k = q[1].n)
      OBVIOUS
  <2>2. PICK i \in 1..Len(q) : q[i].src = s /\ q[i].n = k
      BY <2>1 DEF Holds
  <2>3. i # 1
      BY <2>1, <2>2
  <2>4. i - 1 \in 1..Len(r) /\ (i - 1) + 1 = i
      BY <1>1, <2>3
  <2> QED BY <1>2, <2>2, <2>4
<1> QED BY <1>3, <1>4, <1>5 DEF Holds

LEMMA HoldsFrames ==
    ASSUME NEW f, NEW g, NEW s \in Queue!Sources, NEW r \in Seq(Queue!Block),
           \A i \in 1..Len(r) : r[i].src = s,
           \A i, j \in 1..Len(r) : i < j => r[i].n < r[j].n,
           At(g[s], "queued") = {r[i].n : i \in 1..Len(r)},
           \A t \in Queue!Sources : t # s => At(g[t], "queued") = {}
    PROVE  Holds(r, g)
<1>1. \A i \in 1..Len(r) : r[i].src \in Queue!Sources => r[i].n \in At(g[r[i].src], "queued")
    OBVIOUS
<1>2. ASSUME NEW t \in Queue!Sources, NEW k \in At(g[t], "queued")
      PROVE  \E i \in 1..Len(r) : r[i].src = t /\ r[i].n = k
    OBVIOUS
<1> QED BY <1>1, <1>2 DEF Holds

\* The blocks of s among bs, by number.
Hits(bs, s) == {i \in 1..Len(fate[s]) : \E b \in bs : b.src = s /\ b.n = i}

LEMMA BecomesEffect ==
    ASSUME fate \in [Queue!Sources -> Seq(Queue!Fates)],
           NEW bs, NEW x \in Queue!Fates, fate' = Queue!Becomes(bs, x)
    PROVE  /\ fate' \in [Queue!Sources -> Seq(Queue!Fates)]
           /\ \A s \in Queue!Sources : Len(fate'[s]) = Len(fate[s])
           /\ \A s \in Queue!Sources : At(fate'[s], x) = At(fate[s], x) \union Hits(bs, s)
           /\ \A s \in Queue!Sources : \A y \in Queue!Fates \ {x} :
                 At(fate'[s], y) = At(fate[s], y) \ Hits(bs, s)
<1>1. ASSUME NEW s \in Queue!Sources
      PROVE  /\ fate'[s] = [i \in 1..Len(fate[s]) |-> IF i \in Hits(bs, s) THEN x ELSE fate[s][i]]
             /\ fate'[s] \in Seq(Queue!Fates)
             /\ Len(fate'[s]) = Len(fate[s])
  <2>1. fate[s] \in Seq(Queue!Fates)
      OBVIOUS
  <2>2. DOMAIN fate[s] = 1..Len(fate[s]) /\ Len(fate[s]) \in Nat
      BY <2>1
  <2>3. fate'[s] = [i \in DOMAIN fate[s] |->
                       IF \E b \in bs : b.src = s /\ b.n = i THEN x ELSE fate[s][i]]
      BY DEF Queue!Becomes
  <2>4. fate'[s] = [i \in 1..Len(fate[s]) |-> IF i \in Hits(bs, s) THEN x ELSE fate[s][i]]
      BY <2>2, <2>3 DEF Hits
  <2>5. \A i \in 1..Len(fate[s]) : (IF i \in Hits(bs, s) THEN x ELSE fate[s][i]) \in Queue!Fates
      BY <2>1
  <2>6. fate'[s] \in [1..Len(fate[s]) -> Queue!Fates]
      BY <2>4, <2>5
  <2> QED BY <2>2, <2>4, <2>6
<1>2. fate' \in [Queue!Sources -> Seq(Queue!Fates)]
  <2>1. fate' = [s \in Queue!Sources |-> fate'[s]]
      BY DEF Queue!Becomes
  <2> QED BY <1>1, <2>1
<1>3. ASSUME NEW s \in Queue!Sources PROVE Hits(bs, s) \subseteq 1..Len(fate[s])
    BY DEF Hits
<1>4. ASSUME NEW s \in Queue!Sources
      PROVE  At(fate'[s], x) = At(fate[s], x) \union Hits(bs, s)
    BY <1>1, <1>3 DEF At
<1>5. ASSUME NEW s \in Queue!Sources, NEW y \in Queue!Fates \ {x}
      PROVE  At(fate'[s], y) = At(fate[s], y) \ Hits(bs, s)
    BY <1>1, <1>3 DEF At
<1> QED BY <1>1, <1>2, <1>4, <1>5

LEMMA FateNames ==
    /\ Queue!Fates = {"sent", "queued", "delivered", "consumed", "skipped", "lost"}
    /\ \A f, x : At(f, x) \subseteq 1..Len(f)
    /\ \A f, x, y : x # y => At(f, x) \intersect At(f, y) = {}
BY DEF Queue!Fates, At

LEMMA SkippedIs ==
    ASSUME fate \in [Queue!Sources -> Seq(Queue!Fates)]
    PROVE  Queue!Skipped = UNION {{<<s, i>> : i \in At(fate[s], "skipped")} : s \in Queue!Sources}
<1>1. \A s \in Queue!Sources : Queue!SkippedAt(s) = At(fate[s], "skipped")
    BY DEF Queue!SkippedAt, At
<1> QED BY <1>1 DEF Queue!Skipped

\* Nothing is skipped.
LEMMA SkipsKept ==
    ASSUME fate \in [Queue!Sources -> Seq(Queue!Fates)],
           fate' \in [Queue!Sources -> Seq(Queue!Fates)],
           \A s \in Queue!Sources : At(fate'[s], "skipped") = At(fate[s], "skipped")
    PROVE  Queue!Skipped' = Queue!Skipped
<1>1. Queue!Skipped' = UNION {{<<s, i>> : i \in At(fate'[s], "skipped")} : s \in Queue!Sources}
  <2>1. \A s \in Queue!Sources : Queue!SkippedAt(s)' = At(fate'[s], "skipped")
      BY DEF Queue!SkippedAt, At
  <2> QED BY <2>1 DEF Queue!Skipped
<1> QED BY <1>1, SkippedIs

LEMMA WaitsKept ==
    ASSUME NEW s, NEW p, NEW f, NEW g, Waits(s, p, f), Len(g) = Len(f),
           At(g, "sent") = At(f, "sent")
    PROVE  Waits(s, p, g)
BY DEF Waits

\* The first n blocks of those that wait are read.
LEMMA WaitsLess ==
    ASSUME NEW s, NEW p, NEW f, NEW g, Waits(s, p, f), Len(g) = Len(f), Len(f) \in Nat,
           NEW n \in 0..Len(p), NEW q \in Seq(Queue!Block), Len(q) = Len(p) - n,
           \A i \in 1..Len(q) : q[i] = p[n + i],
           At(g, "sent") = At(f, "sent") \ {p[k].n : k \in 1..n}
    PROVE  Waits(s, q, g)
<1>1. Len(p) \in Nat /\ Len(p) <= Len(f)
    BY DEF Waits
<1>2. \A k \in 1..Len(p) : p[k].src = s /\ p[k].n = Len(f) - Len(p) + k
    BY DEF Waits
<1>3. \A k \in 1..Len(q) : q[k].src = s /\ q[k].n = Len(g) - Len(q) + k
    BY <1>1, <1>2
<1>4. {p[k].n : k \in 1..n} = Len(f) - Len(p) + 1 .. Len(f) - Len(p) + n
  <2>1. \A k \in 1..n : p[k].n = Len(f) - Len(p) + k
      BY <1>1, <1>2
  <2>2. ASSUME NEW m \in Len(f) - Len(p) + 1 .. Len(f) - Len(p) + n
        PROVE  \E k \in 1..n : p[k].n = m
    <3>1. m - (Len(f) - Len(p)) \in 1..n
        BY <1>1
    <3>2. p[m - (Len(f) - Len(p))].n = m
        BY <1>1, <2>1, <3>1
    <3> QED BY <3>1, <3>2
  <2>3. ASSUME NEW k \in 1..n PROVE p[k].n \in Len(f) - Len(p) + 1 .. Len(f) - Len(p) + n
    <3>1. p[k].n = Len(f) - Len(p) + k
        BY <2>1
    <3> QED BY <1>1, <3>1
  <2> QED BY <2>2, <2>3
<1>5. At(g, "sent") = Len(g) - Len(q) + 1 .. Len(g)
  <2>1. At(f, "sent") = Len(f) - Len(p) + 1 .. Len(f)
      BY DEF Waits
  <2>2. PICK d \in Nat : d = Len(f) - Len(p)
    <3>1. Len(f) - Len(p) \in Nat
        BY <1>1
    <3> QED BY <3>1, Zenon
  <2>3. At(g, "sent") = (d + 1 .. Len(f)) \ (d + 1 .. d + n)
      BY <1>4, <2>1, <2>2
  <2>4. (d + 1 .. Len(f)) \ (d + 1 .. d + n) = d + n + 1 .. Len(f)
      OBVIOUS
  <2>5. Len(g) - Len(q) = d + n
      BY <1>1, <2>2
  <2> QED BY <2>3, <2>4, <2>5
<1> QED BY <1>1, <1>3, <1>5 DEF Waits

LEMMA NothingWaits ==
    ASSUME NEW s, NEW f, Len(f) \in Nat, At(f, "sent") = {}
    PROVE  Waits(s, <<>>, f)
<1>1. <<>> \in Seq(Queue!Block) /\ Len(<<>>) = 0
    OBVIOUS
<1>2. Len(f) - Len(<<>>) + 1 .. Len(f) = {} /\ 1..Len(<<>>) = {}
    BY <1>1
<1>3. Len(<<>>) <= Len(f)
    BY <1>1
<1>4. \A k \in 1..Len(<<>>) : <<>>[k].src = s /\ <<>>[k].n = Len(f) - Len(<<>>) + k
    BY <1>2
<1>5. At(f, "sent") = Len(f) - Len(<<>>) + 1 .. Len(f)
    BY <1>2
<1> QED BY <1>1, <1>3, <1>4, <1>5, Zenon DEF Waits

\* More blocks are sent.
LEMMA WaitsMore ==
    ASSUME NEW s, NEW p, NEW f, NEW g, Waits(s, p, f), NEW n \in Nat,
           Len(f) \in Nat, Len(g) = Len(f) + n,
           NEW q \in Seq(Queue!Block), Len(q) = Len(p) + n,
           \A i \in 1..Len(p) : q[i] = p[i],
           \A i \in Len(p) + 1 .. Len(q) : q[i].src = s /\ q[i].n = Len(f) - Len(p) + i,
           At(g, "sent") = At(f, "sent") \union (Len(f) + 1 .. Len(f) + n)
    PROVE  Waits(s, q, g)
<1>1. Len(p) \in Nat /\ Len(p) <= Len(f)
    BY DEF Waits
<1>2. ASSUME NEW k \in 1..Len(q) PROVE q[k].src = s /\ q[k].n = Len(g) - Len(q) + k
  <2>1. CASE k \in 1..Len(p)
      BY <1>1, <2>1 DEF Waits
  <2>2. CASE k \notin 1..Len(p)
      BY <1>1, <2>2
  <2> QED BY <2>1, <2>2
<1>3. At(g, "sent") = Len(g) - Len(q) + 1 .. Len(g)
  <2>1. At(f, "sent") = Len(f) - Len(p) + 1 .. Len(f)
      BY DEF Waits
  <2>2. PICK d \in Nat : d = Len(f) - Len(p)
    <3>1. Len(f) - Len(p) \in Nat
        BY <1>1
    <3> QED BY <3>1, Zenon
  <2>3. (d + 1 .. Len(f)) \union (Len(f) + 1 .. Len(f) + n) = d + 1 .. Len(f) + n
      BY <1>1, <2>2
  <2>4. Len(g) - Len(q) = d
      BY <1>1, <2>2
  <2> QED BY <2>1, <2>2, <2>3, <2>4
<1> QED BY <1>1, <1>2, <1>3 DEF Waits

\* Ring and counts stay as they are, whatever else becomes of blocks that were sent.
LEMMA RingStays ==
    ASSUME QueueInv, UNCHANGED <<ring, head, tail, recvCount>>, setupFailed => setupFailed',
           \A s \in Queue!Sources : /\ At(fate'[s], "queued") = At(fate[s], "queued")
                                   /\ At(fate'[s], "delivered") = At(fate[s], "delivered")
    PROVE  Ring'
<1>1. RingShape'
    BY DEF QueueInv, Ring, RingShape
<1>2. Queue!Queued' = Queue!Queued
    BY DEF Queue!Queued
<1>3. Holds(Queue!Queued, fate')
  <2>1. Holds(Queue!Queued, fate)
      BY DEF QueueInv, Ring
  <2> QED BY <2>1, HoldsKept
<1>4. \A i \in 1..recvCount' : Queue!Queued'[i].src = "garbage" => setupFailed'
    BY <1>2 DEF QueueInv, Ring
<1>5. \A s \in Queue!Sources :
          \A i \in At(fate'[s], "queued"), j \in At(fate'[s], "delivered") : j < i
    BY DEF QueueInv, Ring
<1> QED BY <1>1, <1>2, <1>3, <1>4, <1>5 DEF Ring

LEMMA CountStays ==
    ASSUME QueueInv, UNCHANGED skippedBlocks, setupFailed => setupFailed',
           phase = "stopped" => phase' = "stopped", links' \subseteq links,
           fate' \in [Queue!Sources -> Seq(Queue!Fates)],
           \A s \in Queue!Sources : At(fate'[s], "skipped") = At(fate[s], "skipped"),
           \A l \in Queue!Links : At(fate'[l], "lost") # At(fate[l], "lost") =>
               l \notin links' \/ setupFailed' \/ phase' = "stopped"
    PROVE  Counted'
<1>1. Queue!Skipped' = Queue!Skipped
    BY SkipsKept DEF QueueInv, Waiting
<1>2. skippedBlocks' = Cardinality(Queue!Skipped') /\ IsFiniteSet(Queue!Skipped')
    BY <1>1 DEF QueueInv, Counted
<1>3. ASSUME NEW l \in Queue!Links, At(fate'[l], "lost") # {}
      PROVE  l \notin links' \/ setupFailed' \/ phase' = "stopped"
    BY <1>3 DEF QueueInv, Counted
<1> QED BY <1>2, <1>3 DEF Counted

\* A step that moves no block.
LEMMA QuietStep ==
    ASSUME QueueInv, Control', rpc # "blocks", rpc' # "blocks",
           UNCHANGED <<links, wire, udp, cur, left, inSync, ring, head, tail, recvCount,
                       skippedBlocks, fate>>,
           setupFailed => setupFailed', phase = "stopped" => phase' = "stopped"
    PROVE  QueueInv'
<1>1. Wires'
    BY DEF QueueInv, Wires
<1>2. Waiting'
  <2>1. \A s : Pending(s)' = Pending(s)
      BY DEF Pending
  <2> QED BY <2>1 DEF QueueInv, Waiting
<1>3. Ring'
    BY RingStays
<1>4. Counted'
    BY CountStays DEF QueueInv, Waiting
<1> QED BY <1>1, <1>2, <1>3, <1>4 DEF QueueInv

\* The one block that is taken from the ring, or read.
LEMMA OneHit ==
    ASSUME NEW b, NEW x, b.src \in Queue!Sources => b.n \in At(fate[b.src], x)
    PROVE  \A s \in Queue!Sources : Hits({b}, s) = IF s = b.src THEN {b.n} ELSE {}
BY DEF Hits, At

LEMMA DequeueStep ==
    ASSUME QueueInv, rpc = "take", recvCount > 0, Queue!Dequeue,
           NEW x \in {"consumed", "delivered"}, fate' = Queue!Becomes({ring[head]}, x),
           Control', rpc' # "blocks",
           UNCHANGED <<phase, links, wire, udp, cur, left, inSync, setupFailed>>
    PROVE  QueueInv'
<1> DEFINE q == Queue!Queued
           b == ring[head]
<1>1. RingShape /\ Holds(q, fate) /\ q \in Seq(Queue!Block)
    BY DEF QueueInv, Ring, Holds
<1>2. /\ RingShape'
      /\ q' \in Seq(Queue!Block) /\ recvCount' = recvCount - 1
      /\ Len(q') = recvCount - 1
      /\ \A i \in 1..recvCount - 1 : q'[i] = q[i + 1]
      /\ b = q[1]
    BY <1>1, DequeueTails
<1>3. recvCount \in Nat /\ Len(q) = recvCount /\ Len(q') = recvCount - 1
  <2>1. recvCount \in Nat /\ Len(q) = recvCount
      BY <1>1, QueuedIs
  <2> QED BY <1>2, <2>1
<1>4. 1 \in 1..Len(q) /\ b \in Queue!Block
    BY <1>1, <1>2, <1>3
<1>5. b.src \in Queue!Sources => b.n \in At(fate[b.src], "queued")
    BY <1>1, <1>2, <1>4 DEF Holds
<1>6. fate \in [Queue!Sources -> Seq(Queue!Fates)] /\ x \in Queue!Fates
    BY FateNames DEF QueueInv, Waiting
<1> HIDE DEF b
<1>7. /\ fate' \in [Queue!Sources -> Seq(Queue!Fates)]
      /\ \A s \in Queue!Sources : Len(fate'[s]) = Len(fate[s])
      /\ \A s \in Queue!Sources : At(fate'[s], x) = At(fate[s], x) \union Hits({b}, s)
      /\ \A s \in Queue!Sources : \A y \in Queue!Fates \ {x} :
            At(fate'[s], y) = At(fate[s], y) \ Hits({b}, s)
    BY <1>6, BecomesEffect DEF b
<1>8. \A s \in Queue!Sources : Hits({b}, s) = IF s = b.src THEN {b.n} ELSE {}
    BY <1>5, OneHit
<1>9. \A s \in Queue!Sources :
         /\ \A y \in {"sent", "skipped", "lost"} : At(fate'[s], y) = At(fate[s], y)
         /\ At(fate'[s], "queued") = At(fate[s], "queued") \ (IF s = b.src THEN {b.n} ELSE {})
         /\ At(fate'[s], "delivered") \subseteq
                At(fate[s], "delivered") \union (IF s = b.src THEN {b.n} ELSE {})
  <2> TAKE s \in Queue!Sources
  <2>1. ASSUME NEW y \in {"sent", "skipped", "lost"} PROVE At(fate'[s], y) = At(fate[s], y)
    <3>1. y \in Queue!Fates \ {x} /\ y # "queued"
        BY FateNames
    <3>2. At(fate'[s], y) = At(fate[s], y) \ Hits({b}, s)
        BY <1>7, <3>1
    <3>3. Hits({b}, s) \intersect At(fate[s], y) = {}
        BY <1>5, <1>8, <3>1, FateNames
    <3> QED BY <3>2, <3>3
  <2>2. "queued" \in Queue!Fates \ {x}
      BY FateNames
  <2>3. At(fate'[s], "queued") = At(fate[s], "queued") \ Hits({b}, s)
      BY <1>7, <2>2
  <2>4. CASE x = "delivered"
      BY <1>7, <1>8, <2>1, <2>3, <2>4
  <2>5. CASE x = "consumed"
    <3>1. "delivered" \in Queue!Fates \ {x}
        BY <2>5, FateNames
    <3>2. At(fate'[s], "delivered") = At(fate[s], "delivered") \ Hits({b}, s)
        BY <1>7, <3>1
    <3> QED BY <1>8, <2>1, <2>3, <3>2
  <2> QED BY <2>4, <2>5
<1>10. Wires'
    BY DEF QueueInv, Wires, Control
<1>11. Waiting'
  <2>1. \A s : Pending(s)' = Pending(s)
      BY DEF Pending
  <2>2. \A s \in Queue!Sources : Waits(s, Pending(s), fate'[s])
      BY <1>7, <1>9, WaitsKept DEF QueueInv, Waiting
  <2> QED BY <1>7, <2>1, <2>2 DEF Waiting
<1>12. Ring'
  <2>1. Holds(q', fate')
    <3> HIDE DEF q
    <3>1. Len(q) > 0 /\ Len(q') = Len(q) - 1
        BY <1>3
    <3>2. \A i \in 1..Len(q') : q'[i] = q[i + 1]
        BY <1>2, <1>3
    <3>3. \A s \in Queue!Sources : \A k :
             k \in At(fate'[s], "queued") <=>
                 k \in At(fate[s], "queued") /\ ~(s = q[1].src /\ k = q[1].n)
        BY <1>2, <1>9
    <3> DEFINE r == q'
               f == fate
               g == fate'
    <3>4. /\ Holds(q, f) /\ r \in Seq(Queue!Block)
          /\ \A s \in Queue!Sources : \A k :
                k \in At(g[s], "queued") <=>
                    k \in At(f[s], "queued") /\ ~(s = q[1].src /\ k = q[1].n)
        BY <1>1, <1>2, <3>3
    <3>5. Len(r) = Len(q) - 1 /\ \A i \in 1..Len(r) : r[i] = q[i + 1]
        BY <3>1, <3>2
    <3> HIDE DEF r, f, g
    <3>6. Holds(r, g)
        BY <3>1, <3>4, <3>5, HoldsOneLess, Zenon
    <3> QED BY <3>6 DEF r, g
  <2>2. \A i \in 1..recvCount' : q'[i].src = "garbage" => setupFailed'
    <3> TAKE i \in 1..recvCount'
    <3>1. i + 1 \in 1..recvCount /\ q'[i] = q[i + 1]
        BY <1>2, <1>3
    <3>2. q[i + 1].src = "garbage" => setupFailed
        BY <3>1 DEF QueueInv, Ring
    <3> QED BY <3>1, <3>2
  <2>3. ASSUME NEW s \in Queue!Sources,
               NEW i \in At(fate'[s], "queued"), NEW j \in At(fate'[s], "delivered")
        PROVE  j < i
    <3>1. i \in At(fate[s], "queued") /\ (s = b.src => i # b.n)
        BY <1>9
    <3>2. CASE j \in At(fate[s], "delivered")
        BY <3>1, <3>2 DEF QueueInv, Ring
    <3>3. CASE s = b.src /\ j = b.n
      <4>1. PICK k \in 1..Len(q) : q[k].src = s /\ q[k].n = i
          BY <1>1, <3>1 DEF Holds
      <4>2. k # 1
          BY <1>2, <3>1, <3>3, <4>1
      <4>3. 1 < k
          BY <1>3, <4>2
      <4>4. q[1].src = q[k].src /\ q[1].src # "garbage"
          BY <1>2, <3>3, <4>1, SourceNames
      <4>5. q[1].n < q[k].n
          BY <1>1, <1>4, <4>3, <4>4 DEF Holds
      <4> QED BY <1>2, <3>3, <4>1, <4>5
    <3> QED BY <1>9, <3>2, <3>3
  <2> QED BY <1>2, <2>1, <2>2, <2>3 DEF Ring
<1>13. Counted'
    BY <1>7, <1>9, CountStays, SourceNames DEF Queue!Dequeue
<1> QED BY <1>10, <1>11, <1>12, <1>13 DEF QueueInv

\* The next block of the message that is being read.
LEMMA NextBlock ==
    ASSUME QueueInv, rpc = "blocks", NEW b, b = Head(left)
    PROVE  /\ left \in Seq(Queue!Block) /\ Len(left) \in Nat \ {0}
           /\ b \in Queue!Block /\ b.src = cur /\ cur \in Queue!Links
           /\ b.n \in At(fate[cur], "sent") /\ b.n \in Nat
           /\ Pending(cur) = left /\ Waits(cur, left, fate[cur]) /\ left[1] = b
           /\ \A x : x # "sent" => After(fate, b, x)
<1>1. /\ left \in Seq(Queue!Block) /\ left # <<>> /\ cur \in Queue!Links
      /\ cur = Queue!Primary => inSync
    BY DEF QueueInv, Wires
<1>2. Pending(cur) = left
    BY <1>1, SourceNames DEF Pending
<1>3. cur \in Queue!Sources /\ Waits(cur, left, fate[cur])
    BY <1>1, <1>2, SourceNames DEF QueueInv, Waiting
<1>4. Len(left) \in Nat \ {0} /\ 1 \in 1..Len(left) /\ b = left[1] /\ b \in Queue!Block
    BY <1>1
<1>5. fate[cur] \in Seq(Queue!Fates)
    BY <1>3 DEF QueueInv, Waiting
<1>6. Len(fate[cur]) \in Nat
    BY <1>5
<1>7. /\ b.src = cur /\ b.n = Len(fate[cur]) - Len(left) + 1
      /\ At(fate[cur], "sent") = Len(fate[cur]) - Len(left) + 1 .. Len(fate[cur])
      /\ Len(left) <= Len(fate[cur])
    BY <1>3, <1>4 DEF Waits
<1>8. b.n \in At(fate[cur], "sent") /\ b.n \in Nat
    BY <1>4, <1>6, <1>7
<1>9. ASSUME NEW x, x # "sent", NEW i \in At(fate[cur], x) PROVE i < b.n
  <2>1. i \in 1..Len(fate[cur]) /\ i \notin At(fate[cur], "sent")
      BY <1>9, FateNames
  <2> QED BY <1>4, <1>6, <1>7, <2>1
<1> QED BY <1>1, <1>2, <1>3, <1>4, <1>7, <1>8, <1>9 DEF After

LEMMA ReadStep ==
    ASSUME QueueInv, rpc = "blocks", NEW b, b = Head(left),
           NEW x \in {"consumed", "queued", "skipped"}, fate' = Queue!Becomes({b}, x),
           left' = Tail(left), UNCHANGED <<links, wire, udp, cur, inSync>>,
           rpc' = "blocks" <=> Len(left) # 1
    PROVE  /\ Wires' /\ Waiting'
           /\ OneMet(fate, fate', b, x)
           /\ Untouched(fate, fate', Queue!Fates \ {x, "sent"})
<1>1. /\ left \in Seq(Queue!Block) /\ Len(left) \in Nat \ {0}
      /\ b \in Queue!Block /\ b.src = cur /\ cur \in Queue!Links
      /\ b.n \in At(fate[cur], "sent")
      /\ Pending(cur) = left /\ Waits(cur, left, fate[cur]) /\ left[1] = b
    BY NextBlock
<1>2. cur \in Queue!Sources
    BY <1>1, SourceNames
<1>3. fate \in [Queue!Sources -> Seq(Queue!Fates)] /\ x \in Queue!Fates
    BY FateNames DEF QueueInv, Waiting
<1>4. /\ fate' \in [Queue!Sources -> Seq(Queue!Fates)]
      /\ \A s \in Queue!Sources : Len(fate'[s]) = Len(fate[s])
      /\ \A s \in Queue!Sources : At(fate'[s], x) = At(fate[s], x) \union Hits({b}, s)
      /\ \A s \in Queue!Sources : \A y \in Queue!Fates \ {x} :
            At(fate'[s], y) = At(fate[s], y) \ Hits({b}, s)
    BY <1>3, BecomesEffect
<1>5. \A s \in Queue!Sources : Hits({b}, s) = IF s = b.src THEN {b.n} ELSE {}
    BY <1>1, OneHit
<1>6. left # <<>> /\ left' \in Seq(Queue!Block) /\ Len(left') = Len(left) - 1
      /\ \A i \in 1..Len(left') : left'[i] = left[1 + i]
    BY <1>1, HeadTailProperties
<1>7. left' # <<>> <=> Len(left) # 1
    BY <1>1, <1>6
<1>8. Wires'
    BY <1>6, <1>7 DEF QueueInv, Wires
<1>9. ASSUME NEW s \in Queue!Sources, s # cur
      PROVE  Waits(s, Pending(s)', fate'[s])
  <2>1. Pending(s)' = Pending(s)
      BY <1>9 DEF Pending
  <2>2. "sent" \in Queue!Fates \ {x}
      BY FateNames
  <2>3. At(fate'[s], "sent") = At(fate[s], "sent")
    <3>1. At(fate'[s], "sent") = At(fate[s], "sent") \ Hits({b}, s)
        BY <1>4, <2>2
    <3>2. Hits({b}, s) = {}
        BY <1>1, <1>5, <1>9
    <3> QED BY <3>1, <3>2
  <2> QED BY <1>4, <2>1, <2>3, WaitsKept DEF QueueInv, Waiting
<1>10. Waits(cur, Pending(cur)', fate'[cur])
  <2>1. Pending(cur)' = left'
    <3>1. wire[cur] = <<>> /\ (cur = Queue!Primary => inSync) /\ cur # "udp"
        BY <1>1, SourceNames DEF QueueInv, Wires
    <3> QED BY <3>1 DEF Pending
  <2>2. "sent" \in Queue!Fates \ {x}
      BY FateNames
  <2>3. At(fate'[cur], "sent") = At(fate[cur], "sent") \ {left[1].n}
      BY <1>1, <1>2, <1>4, <1>5, <2>2
  <2>4. {left[1].n} = {left[k].n : k \in 1..1}
      OBVIOUS
  <2>5. fate[cur] \in Seq(Queue!Fates)
      BY <1>2, <1>3
  <2>6. Len(fate[cur]) \in Nat /\ 1 \in 0..Len(left)
      BY <1>1, <2>5
  <2>7. Len(fate'[cur]) = Len(fate[cur])
      BY <1>2, <1>4
  <2>8. Waits(cur, left', fate'[cur])
    <3> DEFINE p == left
               q == left'
               f == fate[cur]
               g == fate'[cur]
    <3>1. PICK n \in 0..Len(p) : n = 1
        BY <2>6
    <3>2. At(g, "sent") = At(f, "sent") \ {p[k].n : k \in 1..n}
        BY <2>3, <2>4, <3>1
    <3>3. Waits(cur, p, f) /\ Len(q) = Len(p) - n /\ \A i \in 1..Len(q) : q[i] = p[n + i]
        BY <1>1, <1>6, <3>1
    <3>4. Len(g) = Len(f) /\ Len(f) \in Nat /\ q \in Seq(Queue!Block)
        BY <1>6, <2>6, <2>7
    <3> HIDE DEF p, q, f, g
    <3>5. Waits(cur, q, g)
        BY <3>2, <3>3, <3>4, WaitsLess, Zenon
    <3> QED BY <3>5 DEF q, g
  <2> QED BY <2>1, <2>8
<1>11. Waiting'
  <2>1. \A s \in Queue!Sources : Waits(s, Pending(s)', fate'[s])
    <3> TAKE s \in Queue!Sources
    <3>1. CASE s = cur
        BY <1>10, <3>1
    <3> QED BY <1>9, <3>1
  <2> QED BY <1>4, <2>1 DEF Waiting
<1>12. ASSUME NEW s \in Queue!Sources, NEW y \in Queue!Fates \ {x, "sent"}
       PROVE  At(fate'[s], y) = At(fate[s], y)
  <2>1. At(fate'[s], y) = At(fate[s], y) \ Hits({b}, s)
      BY <1>4
  <2>2. CASE s = cur
    <3>1. Hits({b}, s) \subseteq At(fate[s], "sent")
        BY <1>1, <1>5, <2>2
    <3>2. At(fate[s], "sent") \intersect At(fate[s], y) = {}
        BY FateNames, Zenon
    <3> QED BY <2>1, <3>1, <3>2
  <2>3. CASE s # cur
    <3>1. Hits({b}, s) = {}
        BY <1>1, <1>5, <2>3
    <3> QED BY <2>1, <3>1
  <2> QED BY <2>2, <2>3
<1>13. ASSUME NEW s \in Queue!Sources, NEW k
       PROVE  k \in At(fate'[s], x) <=> k \in At(fate[s], x) \/ (s = b.src /\ k = b.n)
    BY <1>4, <1>5
<1> QED BY <1>8, <1>11, <1>12, <1>13 DEF OneMet, Untouched

\* A frame is put into the ring.
LEMMA EnqueueStep ==
    ASSUME QueueInv, recvCount < QueueSize, NEW b \in Queue!Block, Queue!Enqueue(b),
           setupFailed => setupFailed', b.src = "garbage" => setupFailed',
           OneMet(fate, fate', b, "queued"), Untouched(fate, fate', {"delivered"}),
           After(fate, b, "queued"), After(fate, b, "delivered")
    PROVE  Ring' /\ recvCount' = recvCount + 1
<1> DEFINE q == Queue!Queued
           r == q'
           f == fate
           g == fate'
<1>1. RingShape /\ Holds(q, f) /\ q \in Seq(Queue!Block)
    BY DEF QueueInv, Ring, Holds
<1>2. /\ RingShape'
      /\ r \in Seq(Queue!Block) /\ recvCount' = recvCount + 1
      /\ Len(r) = recvCount + 1
      /\ \A i \in 1..recvCount + 1 : r[i] = IF i = recvCount + 1 THEN b ELSE q[i]
    BY <1>1, EnqueueAppends
<1>3. recvCount \in Nat /\ Len(q) = recvCount
    BY <1>1, QueuedIs
<1>4. Holds(r, g)
  <2>1. OneAdded(q, b, r)
      BY <1>2, <1>3 DEF OneAdded
  <2>2. OneMet(f, g, b, "queued") /\ After(f, b, "queued") /\ Holds(q, f)
      BY <1>1
  <2> HIDE DEF q, r, f, g
  <2> QED BY <2>1, <2>2, HoldsOneMore
<1>5. \A i \in 1..recvCount' : r[i].src = "garbage" => setupFailed'
  <2> TAKE i \in 1..recvCount'
  <2>1. CASE i = recvCount + 1
      BY <1>2, <2>1
  <2>2. CASE i # recvCount + 1
    <3>1. i \in 1..recvCount /\ r[i] = q[i]
        BY <1>2, <1>3, <2>2
    <3>2. q[i].src = "garbage" => setupFailed
        BY <3>1 DEF QueueInv, Ring
    <3> QED BY <3>1, <3>2
  <2> QED BY <2>1, <2>2
<1>6. ASSUME NEW s \in Queue!Sources,
             NEW i \in At(g[s], "queued"), NEW j \in At(g[s], "delivered")
      PROVE  j < i
  <2>1. j \in At(f[s], "delivered") /\ (i \in At(f[s], "queued") \/ (s = b.src /\ i = b.n))
      BY DEF OneMet, Untouched
  <2>2. CASE i \in At(f[s], "queued")
      BY <2>1, <2>2 DEF QueueInv, Ring
  <2>3. CASE s = b.src /\ i = b.n
      BY <2>1, <2>3 DEF After
  <2> QED BY <2>1, <2>2, <2>3
<1> QED BY <1>2, <1>4, <1>5, <1>6 DEF Ring

LEMMA ReadBlockStep ==
    ASSUME QueueInv, Queue!ReadBlock
    PROVE  QueueInv'
<1>1. PICK b : b = Head(left)
    OBVIOUS
<1>2. /\ rpc = "blocks" /\ left' = Tail(left)
      /\ UNCHANGED <<links, wire, udp, cur, inSync, batch, garbage>>
      /\ IF Len(left) = 1 THEN Queue!Filled(recvCount') ELSE UNCHANGED <<rpc, phase, setupFailed>>
      /\ \/ /\ UNCHANGED <<ring, head, tail, recvCount, skippedBlocks>>
            /\ fate' = Queue!Becomes({b}, "consumed")
         \/ Queue!Stores(b) /\ Queue!Enqueue(b) /\ fate' = Queue!Becomes({b}, "queued")
         \/ /\ skippedBlocks' = skippedBlocks + 1
            /\ fate' = Queue!Becomes({b}, "skipped")
            /\ UNCHANGED <<ring, head, tail, recvCount>>
    BY <1>1 DEF Queue!ReadBlock, Queue!ringVars
<1>3. /\ UNCHANGED <<phase, setupFailed>> /\ rpc' \in {"idle", "blocks", "take"}
      /\ rpc' = "blocks" <=> Len(left) # 1
      /\ rpc' = "take" /\ phase = "setup" /\ recvCount' \in Nat => recvCount' > 0
    BY <1>2 DEF Queue!Filled
<1>4. /\ left \in Seq(Queue!Block) /\ Len(left) \in Nat \ {0}
      /\ b \in Queue!Block /\ b.src = cur /\ cur \in Queue!Links
      /\ b.n \in At(fate[cur], "sent") /\ b.n \in Nat
      /\ \A x : x # "sent" => After(fate, b, x)
    BY <1>1, <1>2, NextBlock
<1>5. b.src \in Queue!Sources /\ b.src # "garbage"
    BY <1>4, SourceNames
<1>6. ASSUME NEW x \in {"consumed", "queued", "skipped"}, fate' = Queue!Becomes({b}, x)
      PROVE  /\ Wires' /\ Waiting'
             /\ OneMet(fate, fate', b, x)
             /\ Untouched(fate, fate', Queue!Fates \ {x, "sent"})
  <2>1. /\ rpc = "blocks" /\ left' = Tail(left)
        /\ UNCHANGED <<links, wire, udp, cur, inSync>>
      BY <1>2
  <2>2. rpc' = "blocks" <=> Len(left) # 1
      BY <1>3
  <2> QED BY <1>1, <1>6, <2>1, <2>2, ReadStep
<1>7. recvCount \in Nat
    BY QueueAssumption DEF QueueInv, Ring, RingShape
<1>8. ASSUME recvCount' \in Nat PROVE Control'
    BY <1>2, <1>3, <1>8 DEF QueueInv, Control
<1>9. CASE UNCHANGED <<ring, head, tail, recvCount, skippedBlocks>>
           /\ fate' = Queue!Becomes({b}, "consumed")
  <2>1. /\ Wires' /\ Waiting'
        /\ \A s \in Queue!Sources : \A y \in {"queued", "delivered", "skipped", "lost"} :
              At(fate'[s], y) = At(fate[s], y)
    <3>1. {"queued", "delivered", "skipped", "lost"} \subseteq Queue!Fates \ {"consumed", "sent"}
        BY FateNames
    <3>2. "consumed" \in {"consumed", "queued", "skipped"}
        OBVIOUS
    <3> QED BY <1>6, <1>9, <3>1, <3>2 DEF Untouched
  <2>2. Ring'
      BY <1>3, <1>9, <2>1, RingStays
  <2>3. Counted'
      BY <1>2, <1>3, <1>9, <2>1, CountStays, SourceNames DEF Waiting
  <2> QED BY <1>7, <1>8, <1>9, <2>1, <2>2, <2>3 DEF QueueInv
<1>10. CASE Queue!Stores(b) /\ Queue!Enqueue(b) /\ fate' = Queue!Becomes({b}, "queued")
  <2>1. /\ Wires' /\ Waiting'
        /\ OneMet(fate, fate', b, "queued")
        /\ \A s \in Queue!Sources :
             /\ \A y \in {"delivered", "skipped", "lost"} : At(fate'[s], y) = At(fate[s], y)
    <3>1. {"delivered", "skipped", "lost"} \subseteq Queue!Fates \ {"queued", "sent"}
        BY FateNames
    <3>2. "queued" \in {"consumed", "queued", "skipped"}
        OBVIOUS
    <3> QED BY <1>6, <1>10, <3>1, <3>2 DEF Untouched
  <2>2. recvCount < QueueSize
      BY <1>10 DEF Queue!Stores
  <2>3. Ring' /\ recvCount' = recvCount + 1
    <3>1. Untouched(fate, fate', {"delivered"})
        BY <2>1 DEF Untouched
    <3>2. After(fate, b, "queued") /\ After(fate, b, "delivered")
        BY <1>4
    <3> QED BY <1>3, <1>4, <1>5, <1>10, <2>1, <2>2, <3>1, <3>2, EnqueueStep
  <2>4. Counted'
      BY <1>2, <1>3, <1>10, <2>1, CountStays, SourceNames DEF Waiting, Queue!Enqueue
  <2> QED BY <1>7, <1>8, <2>1, <2>3, <2>4 DEF QueueInv
<1>11. CASE skippedBlocks' = skippedBlocks + 1 /\ fate' = Queue!Becomes({b}, "skipped")
            /\ UNCHANGED <<ring, head, tail, recvCount>>
  <2>1. /\ Wires' /\ Waiting'
        /\ OneMet(fate, fate', b, "skipped")
        /\ \A s \in Queue!Sources :
             /\ \A y \in {"queued", "delivered", "lost"} : At(fate'[s], y) = At(fate[s], y)
    <3>1. {"queued", "delivered", "lost"} \subseteq Queue!Fates \ {"skipped", "sent"}
        BY FateNames
    <3>2. "skipped" \in {"consumed", "queued", "skipped"}
        OBVIOUS
    <3> QED BY <1>6, <1>11, <3>1, <3>2 DEF Untouched
  <2>2. Ring'
      BY <1>3, <1>11, <2>1, RingStays
  <2>3. Queue!Skipped' = Queue!Skipped \union {<<b.src, b.n>>}
    <3>1. Queue!Skipped =
              UNION {{<<s, i>> : i \in At(fate[s], "skipped")} : s \in Queue!Sources}
        BY SkippedIs DEF QueueInv, Waiting
    <3>2. Queue!Skipped' =
              UNION {{<<s, i>> : i \in At(fate'[s], "skipped")} : s \in Queue!Sources}
      <4>1. \A s \in Queue!Sources : Queue!SkippedAt(s)' = At(fate'[s], "skipped")
        <5>1. fate' \in [Queue!Sources -> Seq(Queue!Fates)]
            BY <2>1 DEF Waiting
        <5> QED BY <5>1 DEF Queue!SkippedAt, At
      <4> QED BY <4>1 DEF Queue!Skipped
    <3>3. ASSUME NEW e
          PROVE  e \in Queue!Skipped' <=> e \in Queue!Skipped \/ e = <<b.src, b.n>>
      <4>1. e \in Queue!Skipped' <=>
                \E s \in Queue!Sources : \E i \in At(fate'[s], "skipped") : e = <<s, i>>
          BY <3>2
      <4>2. e \in Queue!Skipped <=>
                \E s \in Queue!Sources : \E i \in At(fate[s], "skipped") : e = <<s, i>>
          BY <3>1
      <4>3. \A s \in Queue!Sources : \A i :
                i \in At(fate'[s], "skipped") <=>
                    i \in At(fate[s], "skipped") \/ (s = b.src /\ i = b.n)
          BY <2>1 DEF OneMet
      <4> QED BY <1>5, <4>1, <4>2, <4>3
    <3> QED BY <3>3
  <2>4. <<b.src, b.n>> \notin Queue!Skipped
    <3>1. Queue!Skipped =
              UNION {{<<s, i>> : i \in At(fate[s], "skipped")} : s \in Queue!Sources}
        BY SkippedIs DEF QueueInv, Waiting
    <3>2. SUFFICES ASSUME <<b.src, b.n>> \in Queue!Skipped PROVE FALSE
        OBVIOUS
    <3>3. PICK s \in Queue!Sources : \E i \in At(fate[s], "skipped") : <<b.src, b.n>> = <<s, i>>
        BY <3>1, <3>2
    <3>4. b.n \in At(fate[b.src], "skipped")
        BY <3>3
    <3> QED BY <1>4, <3>4, FateNames
  <2>5. skippedBlocks' = Cardinality(Queue!Skipped') /\ IsFiniteSet(Queue!Skipped')
    <3>1. skippedBlocks = Cardinality(Queue!Skipped) /\ IsFiniteSet(Queue!Skipped)
        BY DEF QueueInv, Counted
    <3> QED BY <1>11, <2>3, <2>4, <3>1, FS_AddElement
  <2>6. ASSUME NEW l \in Queue!Links, At(fate'[l], "lost") # {}
        PROVE  l \notin links' \/ setupFailed' \/ phase' = "stopped"
    <3>1. At(fate[l], "lost") # {}
        BY <2>1, <2>6, SourceNames
    <3> QED BY <1>2, <1>3, <3>1 DEF QueueInv, Counted
  <2> QED BY <1>7, <1>8, <1>11, <2>1, <2>2, <2>5, <2>6 DEF QueueInv, Counted
<1> QED BY <1>2, <1>9, <1>10, <1>11

LEMMA FillUdpStep ==
    ASSUME QueueInv, Queue!FillUdp
    PROVE  QueueInv'
<1> DEFINE m == IF Len(udp) < QueueSize THEN Len(udp) ELSE QueueSize
<1>1. /\ rpc = "fill" /\ udp # <<>> /\ Queue!Filled(m)
      /\ ring' = [i \in 0..QueueSize - 1 |->
                     LET k == 1 + ((i + QueueSize - tail) % QueueSize)
                     IN IF k <= m THEN udp[k] ELSE ring[i]]
      /\ tail' = (tail + m) % QueueSize /\ recvCount' = m
      /\ udp' = SubSeq(udp, m + 1, Len(udp))
      /\ fate' = Queue!Becomes({udp[k] : k \in 1..m}, "queued")
      /\ UNCHANGED <<links, wire, cur, left, inSync, head, batch, skippedBlocks, garbage>>
    BY DEF Queue!FillUdp
<1>2. /\ fate \in [Queue!Sources -> Seq(Queue!Fates)] /\ Waits("udp", udp, fate["udp"])
      /\ recvCount = 0 /\ RingShape
  <2>1. Pending("udp") = udp
      BY DEF Pending
  <2> QED BY <1>1, <2>1, SourceNames DEF QueueInv, Waiting, Control, Ring
<1>3. udp \in Seq(Queue!Block) /\ QueueSize \in Nat \ {0}
    BY <1>2, QueueAssumption DEF Waits
<1>4. m \in 0..QueueSize /\ m \in 1..Len(udp) /\ m \in 0..Len(udp)
  <2>1. Len(udp) \in Nat \ {0}
      BY <1>1, <1>3
  <2> QED BY <1>3, <2>1
<1>5. PICK n \in 0..QueueSize : n = m
    BY <1>4
<1> DEFINE bs == {udp[k] : k \in 1..n}
           new == {udp[k].n : k \in 1..n}
<1>6. n \in 1..Len(udp) /\ n \in Nat /\ fate' = Queue!Becomes(bs, "queued")
    BY <1>1, <1>3, <1>4, <1>5
<1>7. /\ UNCHANGED <<phase, setupFailed, links, wire, cur, left, inSync, skippedBlocks>>
      /\ rpc' = "take" /\ recvCount' = n
    BY <1>1, <1>4, <1>5 DEF Queue!Filled
<1>8. udp' \in Seq(Queue!Block) /\ Len(udp') = Len(udp) - n
      /\ \A i \in 1..Len(udp') : udp'[i] = udp[n + i]
  <2>1. udp' = SubSeq(udp, n + 1, Len(udp)) /\ Len(udp) \in Nat
      BY <1>1, <1>3, <1>5
  <2> HIDE DEF m
  <2> QED BY <1>3, <1>6, <2>1, SubSeqProperties
<1>9. /\ RingShape'
      /\ Queue!Queued' \in Seq(Queue!Block) /\ Len(Queue!Queued') = n
      /\ \A i \in 1..n : Queue!Queued'[i] = udp[i]
  <2>1. /\ ring' = [i \in 0..QueueSize - 1 |->
                     LET k == 1 + ((i + QueueSize - tail) % QueueSize)
                     IN IF k <= n THEN udp[k] ELSE ring[i]]
        /\ head' = head /\ tail' = (tail + n) % QueueSize /\ recvCount' = n
      BY <1>1, <1>5
  <2>2. n <= Len(udp)
      BY <1>6
  <2> HIDE DEF m, bs, new
  <2> QED BY <1>2, <1>3, <2>1, <2>2, FillIsPrefix
<1> HIDE DEF m
<1>10. \A k \in 1..Len(udp) :
           /\ udp[k].src = "udp" /\ udp[k].n = Len(fate["udp"]) - Len(udp) + k
           /\ udp[k].n \in At(fate["udp"], "sent")
  <2>1. fate["udp"] \in Seq(Queue!Fates)
      BY <1>2, SourceNames
  <2>2. Len(fate["udp"]) \in Nat /\ Len(udp) \in Nat /\ Len(udp) <= Len(fate["udp"])
      BY <1>2, <1>3, <2>1 DEF Waits
  <2>3. At(fate["udp"], "sent") = Len(fate["udp"]) - Len(udp) + 1 .. Len(fate["udp"])
      BY <1>2 DEF Waits
  <2> TAKE k \in 1..Len(udp)
  <2>4. udp[k].src = "udp" /\ udp[k].n = Len(fate["udp"]) - Len(udp) + k
      BY <1>2 DEF Waits
  <2> QED BY <2>2, <2>3, <2>4
<1>11. \A k \in 1..n : k \in 1..Len(udp)
    BY <1>3, <1>6
<1>12. \A s \in Queue!Sources : Hits(bs, s) = IF s = "udp" THEN new ELSE {}
  <2> TAKE s \in Queue!Sources
  <2>1. \A b \in bs : b.src = "udp" /\ b.n \in new
      BY <1>10, <1>11
  <2>2. CASE s # "udp"
      BY <2>1, <2>2 DEF Hits
  <2>3. CASE s = "udp"
    <3>1. \A i \in new : i \in 1..Len(fate["udp"]) /\ \E b \in bs : b.src = "udp" /\ b.n = i
        BY <1>10, <1>11 DEF At
    <3>2. \A b \in bs : b.n \in new
        BY <2>1
    <3> HIDE DEF bs, new
    <3>3. Hits(bs, "udp") = new
        BY <3>1, <3>2 DEF Hits
    <3> QED BY <2>3, <3>3
  <2> QED BY <2>2, <2>3
<1>13. /\ fate' \in [Queue!Sources -> Seq(Queue!Fates)]
       /\ \A s \in Queue!Sources : Len(fate'[s]) = Len(fate[s])
       /\ \A s \in Queue!Sources :
             At(fate'[s], "queued") = At(fate[s], "queued") \union Hits(bs, s)
       /\ \A s \in Queue!Sources : \A y \in Queue!Fates \ {"queued"} :
             At(fate'[s], y) = At(fate[s], y) \ Hits(bs, s)
  <2>1. "queued" \in Queue!Fates
      BY FateNames
  <2> HIDE DEF bs
  <2> QED BY <1>2, <1>6, <2>1, BecomesEffect
<1>14. new \subseteq At(fate["udp"], "sent")
    BY <1>10, <1>11
<1>15. \A s \in Queue!Sources : \A y \in {"delivered", "skipped", "lost"} :
          At(fate'[s], y) = At(fate[s], y)
  <2> TAKE s \in Queue!Sources, y \in {"delivered", "skipped", "lost"}
  <2>1. y \in Queue!Fates \ {"queued"} /\ y # "sent"
      BY FateNames
  <2>2. At(fate'[s], y) = At(fate[s], y) \ Hits(bs, s)
      BY <1>13, <2>1
  <2>3. Hits(bs, s) \intersect At(fate[s], y) = {}
    <3> HIDE DEF new, bs
    <3> QED BY <1>12, <1>14, <2>1, FateNames
  <2> HIDE DEF new, bs
  <2> QED BY <2>2, <2>3
<1>16. Control'
    BY <1>1, <1>3, <1>6, <1>7 DEF QueueInv, Control
<1>17. Wires'
    BY <1>1, <1>7 DEF QueueInv, Wires
<1>18. Waiting'
  <2>1. ASSUME NEW s \in Queue!Sources, s # "udp"
        PROVE  Waits(s, Pending(s)', fate'[s])
    <3>1. Pending(s)' = Pending(s)
        BY <1>7, <2>1 DEF Pending
    <3>2. "sent" \in Queue!Fates \ {"queued"}
        BY FateNames
    <3>3. At(fate'[s], "sent") = At(fate[s], "sent") \ Hits(bs, s)
        BY <1>13, <3>2
    <3>4. Hits(bs, s) = {}
        BY <1>12, <2>1
    <3>5. At(fate'[s], "sent") = At(fate[s], "sent")
        BY <3>3, <3>4
    <3> QED BY <1>13, <3>1, <3>5, WaitsKept DEF QueueInv, Waiting
  <2>2. Waits("udp", udp', fate'["udp"])
    <3> DEFINE p == udp
               q == udp'
               f == fate["udp"]
               g == fate'["udp"]
    <3>1. "sent" \in Queue!Fates \ {"queued"} /\ "udp" \in Queue!Sources
        BY FateNames, SourceNames
    <3>2. At(g, "sent") = At(f, "sent") \ Hits(bs, "udp") /\ Hits(bs, "udp") = new
        BY <1>12, <1>13, <3>1
    <3>3. At(g, "sent") = At(f, "sent") \ {p[k].n : k \in 1..n}
        BY <3>2
    <3>4. Waits("udp", p, f) /\ Len(q) = Len(p) - n /\ \A i \in 1..Len(q) : q[i] = p[n + i]
        BY <1>2, <1>8
    <3>5. fate["udp"] \in Seq(Queue!Fates)
        BY <1>2, <3>1
    <3>6. Len(g) = Len(f) /\ Len(f) \in Nat /\ q \in Seq(Queue!Block) /\ n \in 0..Len(p)
        BY <1>6, <1>8, <1>13, <3>1, <3>5
    <3> HIDE DEF p, q, f, g, new, bs
    <3>7. Waits("udp", q, g)
        BY <3>3, <3>4, <3>6, WaitsLess, Zenon
    <3> QED BY <3>7 DEF q, g
  <2>3. Pending("udp")' = udp'
      BY DEF Pending
  <2>4. ASSUME NEW s \in Queue!Sources PROVE Waits(s, Pending(s)', fate'[s])
      BY <2>1, <2>2, <2>3
  <2> QED BY <1>13, <2>4 DEF Waiting
<1>19. Ring'
  <2> DEFINE r == Queue!Queued'
  <2>1. \A i \in 1..n : r[i].src = "udp" /\ r[i].n = udp[i].n
      BY <1>9, <1>10, <1>11
  <2>2. Holds(r, fate')
    <3>1. \A i \in 1..Len(r) : r[i].src = "udp"
        BY <1>9, <2>1
    <3>2. \A i, j \in 1..Len(r) : i < j => r[i].n < r[j].n
      <4> TAKE i \in 1..Len(r), j \in 1..Len(r)
      <4>1. fate["udp"] \in Seq(Queue!Fates)
          BY <1>2, SourceNames
      <4>2. Len(fate["udp"]) \in Nat /\ Len(udp) \in Nat
          BY <1>3, <4>1
      <4>3. r[i].n = Len(fate["udp"]) - Len(udp) + i /\ r[j].n = Len(fate["udp"]) - Len(udp) + j
          BY <1>9, <1>10, <1>11, <2>1
      <4> QED BY <4>2, <4>3
    <3>3. \A s \in Queue!Sources : At(fate[s], "queued") = {}
      <4>1. Holds(Queue!Queued, fate) /\ Len(Queue!Queued) = 0
          BY <1>2, QueuedIs DEF QueueInv, Ring
      <4> QED BY <4>1 DEF Holds
    <3>4. At(fate'["udp"], "queued") = {r[i].n : i \in 1..Len(r)}
      <4>1. At(fate'["udp"], "queued") = new
          BY <1>12, <1>13, <3>3, SourceNames
      <4>2. new = {r[i].n : i \in 1..n}
          BY <2>1
      <4> QED BY <1>9, <4>1, <4>2
    <3>5. \A s \in Queue!Sources : s # "udp" => At(fate'[s], "queued") = {}
        BY <1>12, <1>13, <3>3
    <3>6. r \in Seq(Queue!Block) /\ "udp" \in Queue!Sources
        BY <1>9, SourceNames
    <3> HIDE DEF r
    <3> QED BY <3>1, <3>2, <3>4, <3>5, <3>6, HoldsFrames
  <2>3. \A i \in 1..recvCount' : r[i].src = "garbage" => setupFailed'
      BY <1>7, <2>1
  <2>4. ASSUME NEW s \in Queue!Sources,
               NEW i \in At(fate'[s], "queued"), NEW j \in At(fate'[s], "delivered")
        PROVE  j < i
    <3>1. j \in At(fate[s], "delivered") /\ i \in At(fate[s], "queued") \union Hits(bs, s)
        BY <1>13, <1>15
    <3>2. CASE i \in At(fate[s], "queued")
        BY <3>1, <3>2 DEF QueueInv, Ring
    <3>3. CASE i \in Hits(bs, s)
      <4>1. s = "udp" /\ i \in At(fate[s], "sent")
          BY <1>12, <1>14, <3>3
      <4>2. j \in 1..Len(fate[s]) /\ j \notin At(fate[s], "sent")
          BY <3>1, FateNames
      <4>3. At(fate[s], "sent") = Len(fate[s]) - Len(udp) + 1 .. Len(fate[s])
          BY <1>2, <4>1 DEF Waits
      <4>4. fate[s] \in Seq(Queue!Fates)
          BY <1>2
      <4>5. Len(fate[s]) \in Nat /\ Len(udp) \in Nat
          BY <1>3, <4>4
      <4> QED BY <4>1, <4>2, <4>3, <4>5
    <3> QED BY <3>1, <3>2, <3>3
  <2> QED BY <1>9, <2>2, <2>3, <2>4 DEF Ring
<1>20. Counted'
    BY <1>7, <1>13, <1>15, CountStays, SourceNames
<1> QED BY <1>16, <1>17, <1>18, <1>19, <1>20 DEF QueueInv

LEMMA SelectStep ==
    ASSUME QueueInv, NEW l \in Queue!Links, Queue!Select(l)
    PROVE  QueueInv'
<1>1. /\ rpc = "fill" /\ l \in links /\ wire[l] # <<>> /\ (l = Queue!Primary => inSync)
      /\ cur' = l /\ left' = Head(wire[l]) /\ wire' = [wire EXCEPT ![l] = Tail(@)]
      /\ IF left' = <<>> THEN Queue!Filled(0)
                         ELSE rpc' = "blocks" /\ UNCHANGED <<phase, setupFailed>>
      /\ UNCHANGED <<links, udp, inSync, ring, head, tail, recvCount, skippedBlocks,
                     batch, fate, garbage>>
    BY DEF Queue!Select, Queue!Readable, Queue!ringVars
<1>2. /\ left = <<>> /\ wire \in [Queue!Links -> Seq(Seq(Queue!Block))]
      /\ Len(wire[l]) <= 1 /\ wire[l] \in Seq(Seq(Queue!Block))
    BY <1>1 DEF QueueInv, Wires
<1>3. /\ wire[l] # <<>> /\ Head(wire[l]) \in Seq(Queue!Block)
      /\ Tail(wire[l]) = <<>>
    BY <1>1, <1>2
<1>4. /\ UNCHANGED <<phase, setupFailed>> /\ rpc' \in {"idle", "blocks", "take"}
      /\ rpc' = "blocks" <=> left' # <<>>
      /\ rpc' = "take" => phase # "setup"
    BY <1>1 DEF Queue!Filled
<1>5. Control'
    BY <1>1, <1>4 DEF QueueInv, Control
<1>6. wire' \in [Queue!Links -> Seq(Seq(Queue!Block))] /\ wire'[l] = <<>>
      /\ \A k \in Queue!Links : k # l => wire'[k] = wire[k]
  <2>1. wire' = [wire EXCEPT ![l] = <<>>]
      BY <1>1, <1>3
  <2>2. <<>> \in Seq(Seq(Queue!Block))
      OBVIOUS
  <2> QED BY <1>2, <2>1, <2>2
<1>7. Wires'
  <2>1. \A k \in Queue!Links : Len(wire'[k]) <= 1 /\ (k \notin links => wire'[k] = <<>>)
      BY <1>1, <1>6 DEF QueueInv, Wires
  <2> QED BY <1>1, <1>3, <1>4, <1>6, <2>1 DEF QueueInv, Wires
<1>8. Waiting'
  <2>1. ASSUME NEW s \in Queue!Sources PROVE Pending(s)' = Pending(s)
    <3>1. CASE s = "udp"
        BY <1>1, <3>1 DEF Pending
    <3>2. CASE s = l
      <4>1. s # "udp" /\ ~(s = Queue!Primary /\ ~inSync)
          BY <1>1, <3>2, SourceNames
      <4>2. Pending(s) = Head(wire[l])
          BY <1>1, <1>2, <3>2, <4>1 DEF Pending
      <4>3. Pending(s)' = left'
          BY <1>1, <1>6, <3>2, <4>1 DEF Pending
      <4> QED BY <1>1, <4>2, <4>3
    <3>3. CASE s # "udp" /\ s # l
      <4>1. s \in Queue!Links
          BY <3>3, SourceNames
      <4>2. wire'[s] = wire[s]
          BY <1>6, <3>3, <4>1
      <4> QED BY <1>1, <1>2, <3>3, <4>2 DEF Pending
    <3> QED BY <3>1, <3>2, <3>3
  <2> QED BY <1>1, <2>1 DEF QueueInv, Waiting
<1>9. Ring'
    BY <1>1, <1>4, RingStays
<1>10. Counted'
    BY <1>1, <1>4, CountStays DEF QueueInv, Waiting
<1> QED BY <1>5, <1>7, <1>8, <1>9, <1>10 DEF QueueInv

\* What is not going to be read is what waits on the link.
LEMMA UnreadIsPending ==
    ASSUME QueueInv, NEW l \in Queue!Links, l = Queue!Primary => inSync,
           rpc = "fill" \/ (rpc = "blocks" /\ l = cur)
    PROVE  Queue!Unread(l) = {Pending(l)[k] : k \in 1..Len(Pending(l))}
<1>1. /\ wire \in [Queue!Links -> Seq(Seq(Queue!Block))] /\ left \in Seq(Queue!Block)
      /\ Len(wire[l]) <= 1 /\ (rpc = "blocks" <=> left # <<>>)
      /\ rpc = "blocks" => wire[cur] = <<>>
    BY DEF QueueInv, Wires
<1>2. l # "udp"
    BY SourceNames
<1>3. Queue!Unread(l) =
          Queue!Range(left) \union UNION {Queue!Range(m) : m \in Queue!Range(wire[l])}
    BY DEF Queue!Unread
<1>4. \A q \in Seq(Queue!Block) : Queue!Range(q) = {q[k] : k \in 1..Len(q)}
    BY DEF Queue!Range
<1>5. wire[l] \in Seq(Seq(Queue!Block))
    BY <1>1
<1>6. Queue!Range(wire[l]) = {wire[l][i] : i \in 1..Len(wire[l])}
    BY <1>5 DEF Queue!Range
<1>7. <<>> \in Seq(Queue!Block) /\ Queue!Range(<<>>) = {}
  <2>1. <<>> \in Seq(Queue!Block) /\ 1..Len(<<>>) = {}
      OBVIOUS
  <2> QED BY <1>4, <2>1
<1>8. CASE wire[l] = <<>>
  <2>1. Pending(l) = left
      BY <1>1, <1>2, <1>8 DEF Pending
  <2>2. Queue!Range(wire[l]) = {}
      BY <1>6, <1>8
  <2>3. Queue!Unread(l) = Queue!Range(left)
      BY <1>3, <2>2
  <2> QED BY <1>1, <1>4, <2>1, <2>3
<1>9. CASE wire[l] # <<>>
  <2>1. left = <<>> /\ Pending(l) = Head(wire[l])
      BY <1>1, <1>2, <1>9 DEF Pending
  <2>2. Len(wire[l]) = 1 /\ Head(wire[l]) = wire[l][1] /\ Head(wire[l]) \in Seq(Queue!Block)
    <3>1. Len(wire[l]) \in Nat \ {0}
        BY <1>5, <1>9
    <3>2. Len(wire[l]) <= 1
        BY DEF QueueInv, Wires
    <3>3. \A n \in Nat \ {0} : n <= 1 => n = 1
        OBVIOUS
    <3>4. Len(wire[l]) = 1
        BY <3>1, <3>2, <3>3, Zenon
    <3> QED BY <1>5, <1>9, <3>4, HeadTailProperties
  <2>3. Queue!Range(wire[l]) = {Pending(l)}
    <3>1. 1..Len(wire[l]) = {1}
        BY <2>2
    <3> QED BY <1>6, <2>1, <2>2, <3>1
  <2>4. Queue!Unread(l) = Queue!Range(Pending(l))
      BY <1>3, <1>7, <2>1, <2>3
  <2> QED BY <1>4, <2>1, <2>2, <2>4
<1> QED BY <1>8, <1>9

LEMMA ReadFailsStep ==
    ASSUME QueueInv, NEW l \in Queue!Links, Queue!ReadFails(l)
    PROVE  QueueInv'
<1>1. /\ rpc \in {"fill", "blocks"} /\ (rpc = "fill" \/ (rpc = "blocks" /\ l = cur))
      /\ l = Queue!Primary => inSync
      /\ cur' = l /\ left' = <<>> /\ fate' = Queue!Becomes(Queue!Unread(l), "lost")
      /\ UNCHANGED <<udp, ring, head, tail, recvCount, skippedBlocks, batch, garbage>>
    BY DEF Queue!ReadFails, Queue!Readable, Queue!ringVars, QueueInv, Wires
<1>2. \/ /\ l = Queue!Primary /\ inSync' = FALSE /\ Queue!FillError
         /\ UNCHANGED <<links, wire>>
      \/ /\ l # Queue!Primary /\ links' = links \ {l} /\ wire' = [wire EXCEPT ![l] = <<>>]
         /\ Queue!Filled(0) /\ UNCHANGED inSync
    BY DEF Queue!ReadFails
<1>3. /\ rpc' \in {"idle", "take"} /\ phase # "stopped"
      /\ phase' \in {"setup", "data", "stopped"} /\ setupFailed' \in BOOLEAN
      /\ setupFailed => setupFailed'
      /\ rpc' = "take" => phase' # "setup" /\ phase' # "stopped"
      /\ phase' = "stopped" => rpc' = "idle"
      /\ ~inSync' => setupFailed' \/ phase' = "stopped"
      /\ inSync' \in BOOLEAN
      /\ l \notin links' \/ setupFailed' \/ phase' = "stopped"
    BY <1>1, <1>2 DEF QueueInv, Control, Queue!FillError, Queue!Filled
<1>4. Control'
    BY <1>1, <1>3 DEF QueueInv, Control
<1>5. /\ wire \in [Queue!Links -> Seq(Seq(Queue!Block))]
      /\ wire' \in [Queue!Links -> Seq(Seq(Queue!Block))] /\ links' \subseteq links
      /\ \A k \in Queue!Links : k # l => wire'[k] = wire[k] /\ (k \in links' <=> k \in links)
      /\ l # Queue!Primary => wire'[l] = <<>>
      /\ l = Queue!Primary => wire' = wire /\ links' = links
  <2>1. wire \in [Queue!Links -> Seq(Seq(Queue!Block))]
      BY DEF QueueInv, Wires
  <2>2. <<>> \in Seq(Seq(Queue!Block))
      OBVIOUS
  <2> QED BY <1>2, <2>1, <2>2
<1>6. Wires'
  <2>1. \A k \in Queue!Links : Len(wire'[k]) <= 1 /\ (k \notin links' => wire'[k] = <<>>)
    <3> TAKE k \in Queue!Links
    <3>1. Len(wire[k]) <= 1 /\ (k \notin links => wire[k] = <<>>)
        BY DEF QueueInv, Wires
    <3>2. CASE k = l /\ l # Queue!Primary
        BY <1>5, <3>2
    <3>3. CASE ~(k = l /\ l # Queue!Primary)
        BY <1>5, <3>1, <3>3
    <3> QED BY <3>2, <3>3
  <2>2. links' \subseteq Queue!Links /\ left' \in Seq(Queue!Block)
      BY <1>1, <1>5 DEF QueueInv, Wires
  <2> QED BY <1>1, <1>3, <1>5, <2>1, <2>2 DEF Wires
<1>7. /\ fate \in [Queue!Sources -> Seq(Queue!Fates)] /\ "lost" \in Queue!Fates
      /\ l \in Queue!Sources /\ Waits(l, Pending(l), fate[l])
    BY FateNames, SourceNames DEF QueueInv, Waiting
<1>8. PICK bs : bs = Queue!Unread(l)
    OBVIOUS
<1>9. /\ fate' \in [Queue!Sources -> Seq(Queue!Fates)]
      /\ \A s \in Queue!Sources : Len(fate'[s]) = Len(fate[s])
      /\ \A s \in Queue!Sources : At(fate'[s], "lost") = At(fate[s], "lost") \union Hits(bs, s)
      /\ \A s \in Queue!Sources : \A y \in Queue!Fates \ {"lost"} :
            At(fate'[s], y) = At(fate[s], y) \ Hits(bs, s)
  <2>1. fate' = Queue!Becomes(bs, "lost")
      BY <1>1, <1>8
  <2> QED BY <1>7, <2>1, BecomesEffect
<1>10. \A s \in Queue!Sources : Hits(bs, s) = IF s = l THEN At(fate[l], "sent") ELSE {}
  <2> DEFINE p == Pending(l)
             f == fate[l]
  <2>1. bs = {p[k] : k \in 1..Len(p)}
      BY <1>1, <1>8, UnreadIsPending
  <2>2. f \in Seq(Queue!Fates) /\ Waits(l, p, f)
      BY <1>7
  <2>3. Len(f) \in Nat
      BY <2>2
  <2> HIDE DEF p, f
  <2>4. /\ p \in Seq(Queue!Block) /\ Len(p) <= Len(f)
        /\ \A k \in 1..Len(p) : p[k].src = l /\ p[k].n = Len(f) - Len(p) + k
        /\ At(f, "sent") = Len(f) - Len(p) + 1 .. Len(f)
      BY <2>2 DEF Waits
  <2>5. Len(p) \in Nat
      BY <2>4
  <2>6. \A b \in bs : b.src = l /\ b.n \in At(f, "sent")
    <3> TAKE b \in bs
    <3>1. PICK k \in 1..Len(p) : b = p[k]
        BY <2>1
    <3>2. Len(f) - Len(p) + k \in Len(f) - Len(p) + 1 .. Len(f)
        BY <2>3, <2>5
    <3> QED BY <2>4, <3>1, <3>2
  <2>7. \A i \in At(f, "sent") : i \in 1..Len(f) /\ \E b \in bs : b.src = l /\ b.n = i
    <3> TAKE i \in At(f, "sent")
    <3>1. i \in Len(f) - Len(p) + 1 .. Len(f)
        BY <2>4
    <3>2. i - (Len(f) - Len(p)) \in 1..Len(p)
        BY <2>3, <2>5, <3>1
    <3>3. p[i - (Len(f) - Len(p))].n = i /\ p[i - (Len(f) - Len(p))].src = l
        BY <2>3, <2>4, <2>5, <3>1, <3>2
    <3> QED BY <2>1, <3>2, <3>3, FateNames
  <2> TAKE s \in Queue!Sources
  <2>8. CASE s # l
      BY <2>6, <2>8 DEF Hits
  <2>9. CASE s = l
    <3>1. Hits(bs, l) = At(f, "sent")
        BY <2>6, <2>7 DEF Hits, f
    <3> QED BY <2>9, <3>1 DEF f
  <2> QED BY <2>8, <2>9
<1>11. \A s \in Queue!Sources : \A y \in {"queued", "delivered", "skipped"} :
          At(fate'[s], y) = At(fate[s], y)
  <2> TAKE s \in Queue!Sources, y \in {"queued", "delivered", "skipped"}
  <2>1. y \in Queue!Fates \ {"lost"} /\ y # "sent"
      BY FateNames
  <2>2. At(fate'[s], y) = At(fate[s], y) \ Hits(bs, s)
      BY <1>9, <2>1
  <2>3. Hits(bs, s) \intersect At(fate[s], y) = {}
      BY <1>10, <2>1, FateNames
  <2> QED BY <2>2, <2>3
<1>12. "sent" \in Queue!Fates \ {"lost"}
    BY FateNames
<1>13. Waiting'
  <2>1. ASSUME NEW s \in Queue!Sources, s # l
        PROVE  Waits(s, Pending(s)', fate'[s])
    <3>1. Pending(s)' = Pending(s)
      <4>1. CASE s = "udp"
          BY <1>1, <4>1 DEF Pending
      <4>2. CASE s # "udp"
        <5>1. s \in Queue!Links /\ wire'[s] = wire[s]
            BY <1>5, <2>1, <4>2, SourceNames
        <5>2. s = cur => left = <<>>
            BY <1>1, <2>1 DEF QueueInv, Wires
        <5>3. s = Queue!Primary => inSync' = inSync
            BY <1>2, <2>1
        <5> QED BY <1>1, <2>1, <4>2, <5>1, <5>2, <5>3 DEF Pending
      <4> QED BY <4>1, <4>2
    <3>2. At(fate'[s], "sent") = At(fate[s], "sent") \ Hits(bs, s)
        BY <1>9, <1>12
    <3>3. Hits(bs, s) = {}
        BY <1>10, <2>1
    <3>4. At(fate'[s], "sent") = At(fate[s], "sent")
        BY <3>2, <3>3
    <3> QED BY <1>9, <3>1, <3>4, WaitsKept DEF QueueInv, Waiting
  <2>2. Waits(l, Pending(l)', fate'[l])
    <3>1. Pending(l)' = <<>>
        BY <1>1, <1>2, <1>5, SourceNames DEF Pending
    <3>2. At(fate'[l], "sent") = At(fate[l], "sent") \ Hits(bs, l)
        BY <1>7, <1>9, <1>12
    <3>3. Hits(bs, l) = At(fate[l], "sent")
        BY <1>7, <1>10
    <3>4. fate'[l] \in Seq(Queue!Fates)
        BY <1>7, <1>9
    <3>5. Len(fate'[l]) \in Nat /\ At(fate'[l], "sent") = {}
        BY <3>2, <3>3, <3>4
    <3>6. Waits(l, <<>>, fate'[l])
        BY <3>5, NothingWaits
    <3> QED BY <3>1, <3>6
  <2>3. ASSUME NEW s \in Queue!Sources PROVE Waits(s, Pending(s)', fate'[s])
    <3>1. CASE s = l
        BY <2>2, <3>1
    <3> QED BY <2>1, <3>1
  <2> QED BY <1>9, <2>3 DEF Waiting
<1>14. Ring'
    BY <1>1, <1>3, <1>11, RingStays
<1>15. Counted'
  <2>1. \A k \in Queue!Links : At(fate'[k], "lost") # At(fate[k], "lost") =>
            k \notin links' \/ setupFailed' \/ phase' = "stopped"
    <3> TAKE k \in Queue!Links
    <3>1. CASE k = l
        BY <1>3, <3>1
    <3>2. CASE k # l
      <4>1. Hits(bs, k) = {} /\ k \in Queue!Sources
          BY <1>10, <3>2, SourceNames
      <4>2. At(fate'[k], "lost") = At(fate[k], "lost") \union Hits(bs, k)
          BY <1>9, <4>1
      <4> QED BY <4>1, <4>2
    <3> QED BY <3>1, <3>2
  <2> QED BY <1>1, <1>3, <1>5, <1>9, <1>11, <2>1, CountStays
<1> QED BY <1>4, <1>6, <1>13, <1>14, <1>15 DEF QueueInv

LEMMA MisreadStep ==
    ASSUME QueueInv, Queue!Misread
    PROVE  QueueInv'
<1>1. /\ rpc = "fill" /\ ~inSync /\ wire' = [wire EXCEPT ![Queue!Primary] = <<>>]
      /\ UNCHANGED <<links, udp, cur, left, inSync, batch, fate, garbage>>
    BY DEF Queue!Misread
<1>2. setupFailed /\ recvCount = 0 /\ phase # "stopped" /\ left = <<>>
    BY <1>1 DEF QueueInv, Control, Wires
<1>3. /\ wire \in [Queue!Links -> Seq(Seq(Queue!Block))]
      /\ wire' \in [Queue!Links -> Seq(Seq(Queue!Block))]
      /\ \A k \in Queue!Links : wire'[k] = IF k = Queue!Primary THEN <<>> ELSE wire[k]
  <2>1. wire \in [Queue!Links -> Seq(Seq(Queue!Block))]
      BY DEF QueueInv, Wires
  <2>2. <<>> \in Seq(Seq(Queue!Block))
      OBVIOUS
  <2> QED BY <1>1, <2>1, <2>2
<1>4. rpc' # "blocks" => Wires'
  <2>1. \A k \in Queue!Links : Len(wire'[k]) <= 1 /\ (k \notin links => wire'[k] = <<>>)
    <3> TAKE k \in Queue!Links
    <3>1. Len(wire[k]) <= 1 /\ (k \notin links => wire[k] = <<>>)
        BY DEF QueueInv, Wires
    <3> QED BY <1>3, <3>1
  <2> QED BY <1>1, <1>2, <1>3, <2>1 DEF QueueInv, Wires
<1>5. Waiting'
  <2>1. ASSUME NEW s \in Queue!Sources PROVE Pending(s)' = Pending(s)
    <3>1. CASE s \in {"udp", Queue!Primary}
        BY <1>1, <3>1 DEF Pending
    <3>2. CASE s \notin {"udp", Queue!Primary}
      <4>1. s \in Queue!Links /\ wire'[s] = wire[s]
          BY <1>3, <3>2, SourceNames
      <4> QED BY <1>1, <1>2, <3>2, <4>1 DEF Pending
    <3> QED BY <3>1, <3>2
  <2> QED BY <1>1, <2>1 DEF QueueInv, Waiting
<1>6. CASE Queue!FillError /\ UNCHANGED Queue!ringVars
  <2>1. /\ UNCHANGED <<ring, head, tail, recvCount, skippedBlocks>>
        /\ rpc' = "idle" /\ setupFailed' /\ (phase = "stopped" => phase' = "stopped")
        /\ setupFailed' \in BOOLEAN /\ phase' \in {"setup", "stopped"}
      BY <1>2, <1>6 DEF Queue!FillError, Queue!ringVars, QueueInv, Control
  <2>2. Control'
      BY <1>1, <1>2, <2>1 DEF QueueInv, Control
  <2>3. Ring'
      BY <1>1, <2>1, RingStays
  <2>4. Counted'
      BY <1>1, <2>1, CountStays DEF QueueInv, Waiting
  <2> QED BY <1>4, <1>5, <2>1, <2>2, <2>3, <2>4 DEF QueueInv
<1>7. CASE \E k \in Kinds \ {"large", "empty"} :
              Queue!Enqueue([src |-> "garbage", n |-> 0, kind |-> k]) /\ Queue!Filled(1)
  <2>1. PICK k \in Kinds : Queue!Enqueue([src |-> "garbage", n |-> 0, kind |-> k]) /\ Queue!Filled(1)
      BY <1>7
  <2>2. PICK b : b = [src |-> "garbage", n |-> 0, kind |-> k]
      OBVIOUS
  <2>3. b \in Queue!Block /\ b.src = "garbage" /\ b.src \notin Queue!Sources
      BY <2>2, SourceNames DEF Queue!Block
  <2>4. Queue!Enqueue(b) /\ rpc' = "take" /\ UNCHANGED <<phase, setupFailed, skippedBlocks>>
      BY <2>1, <2>2 DEF Queue!Filled, Queue!Enqueue
  <2>5. Ring' /\ recvCount' = recvCount + 1
    <3>1. OneMet(fate, fate', b, "queued") /\ Untouched(fate, fate', {"delivered"})
        BY <1>1, <2>3 DEF OneMet, Untouched
    <3>2. After(fate, b, "queued") /\ After(fate, b, "delivered")
        BY <2>3 DEF After
    <3>3. recvCount < QueueSize /\ setupFailed'
        BY <1>2, <2>4, QueueAssumption
    <3> QED BY <2>3, <2>4, <3>1, <3>2, <3>3, EnqueueStep
  <2>6. Control'
      BY <1>1, <1>2, <2>4, <2>5 DEF QueueInv, Control
  <2>7. Counted'
      BY <1>1, <2>4, CountStays DEF QueueInv, Waiting
  <2> QED BY <1>4, <1>5, <2>4, <2>5, <2>6, <2>7 DEF QueueInv
<1> QED BY <1>6, <1>7 DEF Queue!Misread

\* Blocks of l are sent, which all meet the fate y.
Repeats(t, m, y) ==
    t \in Seq(Queue!Fates) /\ Len(t) = m /\ \A i \in 1..m : t[i] = y

\* m more blocks were sent, which all met the fate y.
AllMeet(f, g, m, y) ==
    /\ g \in Seq(Queue!Fates)
    /\ Len(f) \in Nat /\ Len(g) = Len(f) + m
    /\ At(g, y) = At(f, y) \union (Len(f) + 1 .. Len(f) + m)
    /\ \A x : x # y => At(g, x) = At(f, x)

LEMMA FateGrows ==
    ASSUME NEW f \in Seq(Queue!Fates), NEW m \in Nat, NEW y \in Queue!Fates,
           NEW t, Repeats(t, m, y)
    PROVE  AllMeet(f, f \o t, m, y)
<1> DEFINE g == f \o t
<1>1. t \in Seq(Queue!Fates) /\ Len(t) = m /\ \A i \in 1..m : t[i] = y
    BY DEF Repeats
<1>2. /\ g \in Seq(Queue!Fates) /\ Len(g) = Len(f) + m /\ Len(f) \in Nat
      /\ \A i \in 1..Len(f) + m : g[i] = IF i <= Len(f) THEN f[i] ELSE t[i - Len(f)]
  <2>1. /\ g \in Seq(Queue!Fates) /\ Len(g) = Len(f) + Len(t)
        /\ \A i \in 1..Len(f) + Len(t) : g[i] = IF i <= Len(f) THEN f[i] ELSE t[i - Len(f)]
      BY <1>1, ConcatProperties
  <2> HIDE DEF g
  <2> QED BY <1>1, <2>1
<1> HIDE DEF g
<1>3. PICK L \in Nat : L = Len(f)
    BY <1>2
<1>4. \A i \in 1..L : g[i] = f[i]
    BY <1>2, <1>3
<1>5. \A i \in L + 1 .. L + m : g[i] = y
  <2> TAKE i \in L + 1 .. L + m
  <2>1. i - L \in 1..m /\ i \in 1..L + m /\ ~(i <= L)
      BY <1>3
  <2>2. g[i] = t[i - L]
      BY <1>2, <1>3, <2>1
  <2> QED BY <1>1, <2>1, <2>2
<1>6. PICK A, B : A = 1..L /\ B = L + 1 .. L + m
    OBVIOUS
<1>7. 1..L + m = A \union B
    BY <1>3, <1>6
<1>8. \A x, i : /\ i \in At(g, x) <=> (i \in A \/ i \in B) /\ g[i] = x
                /\ i \in At(f, x) <=> i \in A /\ f[i] = x
    BY <1>2, <1>3, <1>6, <1>7 DEF At
<1>9. \A i \in A : g[i] = f[i]
    BY <1>4, <1>6
<1>10. \A i \in B : g[i] = y
    BY <1>5, <1>6
<1>11. At(g, y) = At(f, y) \union B
  <2>1. \A i : i \in At(g, y) <=> i \in At(f, y) \/ i \in B
      BY <1>8, <1>9, <1>10
  <2> QED BY <2>1
<1>12. ASSUME NEW x, x # y PROVE At(g, x) = At(f, x)
  <2>1. \A i : i \in At(g, x) <=> i \in At(f, x)
      BY <1>8, <1>9, <1>10, <1>12
  <2> QED BY <2>1
<1>13. AllMeet(f, g, m, y)
    BY <1>2, <1>3, <1>6, <1>11, <1>12 DEF AllMeet
<1> QED BY <1>13 DEF g

LEMMA UdpArrivesStep ==
    ASSUME QueueInv, Queue!UdpArrives
    PROVE  QueueInv'
<1>1. PICK k \in Kinds :
          udp' = Append(udp, [src |-> "udp", n |-> Len(fate["udp"]) + 1, kind |-> k])
    BY DEF Queue!UdpArrives
<1>2. /\ rpc = "fill" /\ fate' = [fate EXCEPT !["udp"] = Append(@, "sent")]
      /\ UNCHANGED <<phase, rpc, links, wire, cur, left, inSync, ring, head, tail, recvCount,
                     skippedBlocks, batch, setupFailed, garbage>>
    BY DEF Queue!UdpArrives, Queue!ringVars
<1>3. /\ fate \in [Queue!Sources -> Seq(Queue!Fates)] /\ "udp" \in Queue!Sources
      /\ Waits("udp", udp, fate["udp"])
  <2>1. Pending("udp") = udp
      BY DEF Pending
  <2> QED BY <2>1, SourceNames DEF QueueInv, Waiting
<1>4. fate["udp"] \in Seq(Queue!Fates) /\ udp \in Seq(Queue!Block)
    BY <1>3 DEF Waits
<1>5. "sent" \in Queue!Fates
    BY FateNames
<1>6. /\ fate' \in [Queue!Sources -> Seq(Queue!Fates)]
      /\ Len(fate["udp"]) \in Nat /\ Len(fate'["udp"]) = Len(fate["udp"]) + 1
      /\ At(fate'["udp"], "sent") =
             At(fate["udp"], "sent") \union (Len(fate["udp"]) + 1 .. Len(fate["udp"]) + 1)
      /\ \A x : x # "sent" => At(fate'["udp"], x) = At(fate["udp"], x)
      /\ \A s \in Queue!Sources : s # "udp" => fate'[s] = fate[s]
  <2>1. PICK t : t = <<"sent">>
      OBVIOUS
  <2>2. Repeats(t, 1, "sent")
      BY <1>5, <2>1 DEF Repeats
  <2>3. Append(fate["udp"], "sent") = fate["udp"] \o t
      BY <1>4, <1>5, <2>1, AppendIsConcat
  <2>4. fate'["udp"] = fate["udp"] \o t
      BY <1>2, <1>3, <2>3
  <2>5. AllMeet(fate["udp"], fate'["udp"], 1, "sent")
    <3>1. 1 \in Nat
        OBVIOUS
    <3> QED BY <1>4, <1>5, <2>2, <2>4, <3>1, FateGrows
  <2>6. /\ fate' \in [Queue!Sources -> Seq(Queue!Fates)]
        /\ \A s \in Queue!Sources : s # "udp" => fate'[s] = fate[s]
    <3>1. fate'["udp"] \in Seq(Queue!Fates)
        BY <2>5 DEF AllMeet
    <3> QED BY <1>2, <1>3, <3>1
  <2> QED BY <2>5, <2>6 DEF AllMeet
<1>7. Control' /\ Wires'
    BY <1>2 DEF QueueInv, Control, Wires
<1>8. \A s \in Queue!Sources : \A x : x # "sent" => At(fate'[s], x) = At(fate[s], x)
  <2> TAKE s \in Queue!Sources
  <2>1. CASE s = "udp"
      BY <1>6, <2>1
  <2>2. CASE s # "udp"
      BY <1>6, <2>2
  <2> QED BY <2>1, <2>2
<1>9. Waiting'
  <2>1. ASSUME NEW s \in Queue!Sources, s # "udp"
        PROVE  Waits(s, Pending(s)', fate'[s])
    <3>1. Pending(s)' = Pending(s)
        BY <1>2, <2>1 DEF Pending
    <3> QED BY <1>6, <2>1, <3>1 DEF QueueInv, Waiting
  <2>2. Waits("udp", udp', fate'["udp"])
    <3>1. PICK b : b = [src |-> "udp", n |-> Len(fate["udp"]) + 1, kind |-> k]
        OBVIOUS
    <3>2. b \in Queue!Block /\ b.src = "udp" /\ b.n = Len(fate["udp"]) + 1
        BY <1>6, <3>1, SourceNames DEF Queue!Block
    <3>3. udp' = Append(udp, b)
        BY <1>1, <3>1
    <3>4. udp' \in Seq(Queue!Block) /\ Len(udp') = Len(udp) + 1
          /\ udp'[Len(udp) + 1] = b /\ \A i \in 1..Len(udp) : udp'[i] = udp[i]
        BY <1>4, <3>2, <3>3, AppendProperties
    <3> DEFINE p == udp
               q == udp'
               f == fate["udp"]
               g == fate'["udp"]
    <3>5. PICK n \in Nat : n = 1
        OBVIOUS
    <3>6. /\ Len(g) = Len(f) + n /\ Len(f) \in Nat /\ q \in Seq(Queue!Block)
          /\ Len(q) = Len(p) + n /\ \A i \in 1..Len(p) : q[i] = p[i]
          /\ At(g, "sent") = At(f, "sent") \union (Len(f) + 1 .. Len(f) + n)
        BY <1>6, <3>4, <3>5
    <3>7. \A i \in Len(p) + 1 .. Len(q) : q[i].src = "udp" /\ q[i].n = Len(f) - Len(p) + i
      <4> TAKE i \in Len(p) + 1 .. Len(q)
      <4>1. Len(p) \in Nat
          BY <1>4
      <4>2. i = Len(p) + 1
          BY <3>4, <4>1
      <4>3. q[i] = b
          BY <3>4, <4>2
      <4> HIDE DEF p, q, f, g
      <4>4. b.n = Len(f) + 1
          BY <3>2 DEF f
      <4>5. Len(f) - Len(p) + i = Len(f) + 1
          BY <3>6, <4>1, <4>2
      <4> QED BY <3>2, <4>3, <4>4, <4>5
    <3>8. Waits("udp", p, f)
        BY <1>3
    <3> HIDE DEF p, q, f, g
    <3>9. Waits("udp", q, g)
        BY <3>6, <3>7, <3>8, WaitsMore
    <3> QED BY <3>9 DEF q, g
  <2>3. Pending("udp")' = udp'
      BY DEF Pending
  <2>4. ASSUME NEW s \in Queue!Sources PROVE Waits(s, Pending(s)', fate'[s])
      BY <2>1, <2>2, <2>3
  <2> QED BY <1>6, <2>4 DEF Waiting
<1>10. Ring'
    BY <1>2, <1>8, RingStays
<1>11. Counted'
    BY <1>2, <1>6, <1>8, CountStays, SourceNames
<1> QED BY <1>7, <1>9, <1>10, <1>11 DEF QueueInv

LEMMA ServerSendsStep ==
    ASSUME QueueInv, NEW l \in Queue!Links, Queue!ServerSends(l)
    PROVE  QueueInv'
<1>1. /\ rpc = "fill" /\ l \in links /\ wire[l] = <<>>
      /\ UNCHANGED <<phase, rpc, links, udp, cur, left, inSync, ring, head, tail, recvCount,
                     skippedBlocks, batch, setupFailed, garbage>>
    BY DEF Queue!ServerSends, Queue!ringVars
<1>2. PICK ks \in Queue!SeqOf(Kinds, MaxBlocks) :
          /\ wire' = [wire EXCEPT ![l] = Append(@,
                [i \in DOMAIN ks |-> [src |-> l, n |-> Len(fate[l]) + i, kind |-> ks[i]]])]
          /\ fate' = [fate EXCEPT ![l] = @ \o [i \in DOMAIN ks |->
                IF l = Queue!Primary /\ ~inSync THEN "lost" ELSE "sent"]]
    BY DEF Queue!ServerSends
<1>3. PICK m \in Nat : ks \in [1..m -> Kinds]
  <2>1. PICK m \in 0..MaxBlocks : ks \in [1..m -> Kinds]
      BY DEF Queue!SeqOf
  <2> QED BY <2>1, QueueAssumption
<1>4. PICK y \in {"sent", "lost"} : y = IF l = Queue!Primary /\ ~inSync THEN "lost" ELSE "sent"
    OBVIOUS
<1>5. /\ fate \in [Queue!Sources -> Seq(Queue!Fates)] /\ l \in Queue!Sources /\ l # "udp"
      /\ Waits(l, Pending(l), fate[l]) /\ y \in Queue!Fates
      /\ wire \in [Queue!Links -> Seq(Seq(Queue!Block))] /\ left = <<>>
    BY <1>1, SourceNames, FateNames DEF QueueInv, Waiting, Wires
<1>6. /\ fate' \in [Queue!Sources -> Seq(Queue!Fates)]
      /\ Len(fate[l]) \in Nat /\ Len(fate'[l]) = Len(fate[l]) + m
      /\ At(fate'[l], y) = At(fate[l], y) \union (Len(fate[l]) + 1 .. Len(fate[l]) + m)
      /\ \A x : x # y => At(fate'[l], x) = At(fate[l], x)
      /\ \A s \in Queue!Sources : s # l => fate'[s] = fate[s]
  <2>1. PICK t : t = [i \in 1..m |-> y]
      OBVIOUS
  <2>2. Repeats(t, m, y)
    <3>1. t \in [1..m -> Queue!Fates]
        BY <1>5, <2>1
    <3> QED BY <2>1, <3>1 DEF Repeats
  <2>3. fate' = [fate EXCEPT ![l] = @ \o t]
    <3>1. DOMAIN ks = 1..m
        BY <1>3
    <3> QED BY <1>2, <1>4, <2>1, <3>1
  <2>4. fate'[l] = fate[l] \o t /\ fate[l] \in Seq(Queue!Fates)
      BY <1>5, <2>3
  <2>5. AllMeet(fate[l], fate'[l], m, y)
      BY <1>5, <2>2, <2>4, FateGrows
  <2>6. /\ fate' \in [Queue!Sources -> Seq(Queue!Fates)]
        /\ \A s \in Queue!Sources : s # l => fate'[s] = fate[s]
    <3>1. fate'[l] \in Seq(Queue!Fates)
        BY <2>5 DEF AllMeet
    <3> QED BY <1>5, <2>3, <3>1
  <2> QED BY <2>5, <2>6 DEF AllMeet
<1>7. PICK msg : msg = [i \in 1..m |-> [src |-> l, n |-> Len(fate[l]) + i, kind |-> ks[i]]]
    OBVIOUS
<1>8. /\ msg \in Seq(Queue!Block) /\ Len(msg) = m
      /\ \A i \in 1..m : msg[i].src = l /\ msg[i].n = Len(fate[l]) + i
  <2>1. ASSUME NEW i \in 1..m
        PROVE  [src |-> l, n |-> Len(fate[l]) + i, kind |-> ks[i]] \in Queue!Block
    <3>1. Len(fate[l]) + i \in Nat /\ ks[i] \in Kinds
        BY <1>3, <1>6
    <3> QED BY <1>5, <3>1 DEF Queue!Block
  <2>2. msg \in [1..m -> Queue!Block]
      BY <1>7, <2>1
  <2> QED BY <1>7, <2>2
<1>9. /\ wire' \in [Queue!Links -> Seq(Seq(Queue!Block))] /\ wire'[l] = <<msg>>
      /\ \A k \in Queue!Links : k # l => wire'[k] = wire[k]
  <2>1. DOMAIN ks = 1..m
      BY <1>3
  <2>2. wire' = [wire EXCEPT ![l] = Append(@, msg)]
      BY <1>2, <1>7, <2>1
  <2>3. Append(<<>>, msg) = <<msg>> /\ <<msg>> \in Seq(Seq(Queue!Block))
      BY <1>8
  <2> QED BY <1>1, <1>5, <2>2, <2>3
<1>10. Control'
    BY <1>1 DEF QueueInv, Control
<1>11. Wires'
  <2>1. Len(wire'[l]) <= 1
      BY <1>9
  <2>2. \A k \in Queue!Links : Len(wire'[k]) <= 1 /\ (k \notin links => wire'[k] = <<>>)
    <3> TAKE k \in Queue!Links
    <3>1. Len(wire[k]) <= 1 /\ (k \notin links => wire[k] = <<>>)
        BY DEF QueueInv, Wires
    <3>2. CASE k = l
      <4>1. l \in links
          BY <1>1
      <4> QED BY <2>1, <3>2, <4>1
    <3>3. CASE k # l
        BY <1>9, <3>1, <3>3
    <3> QED BY <3>2, <3>3
  <2> QED BY <1>1, <1>5, <1>9, <2>2 DEF QueueInv, Wires
<1>12. \A s \in Queue!Sources : \A x \in {"queued", "delivered", "skipped"} :
           At(fate'[s], x) = At(fate[s], x)
  <2> TAKE s \in Queue!Sources, x \in {"queued", "delivered", "skipped"}
  <2>1. CASE s = l
      BY <1>6, <2>1
  <2>2. CASE s # l
      BY <1>6, <2>2
  <2> QED BY <2>1, <2>2
<1>13. Waiting'
  <2>1. ASSUME NEW s \in Queue!Sources, s # l
        PROVE  Waits(s, Pending(s)', fate'[s])
    <3>1. Pending(s)' = Pending(s)
      <4>1. CASE s = "udp"
          BY <1>1, <4>1 DEF Pending
      <4>2. CASE s # "udp"
        <5>1. s \in Queue!Links /\ wire'[s] = wire[s]
            BY <1>9, <2>1, <4>2, SourceNames
        <5> QED BY <1>1, <4>2, <5>1 DEF Pending
      <4> QED BY <4>1, <4>2
    <3> QED BY <1>6, <2>1, <3>1 DEF QueueInv, Waiting
  <2>2. Pending(l) = <<>>
      BY <1>1, <1>5 DEF Pending
  <2>3. ASSUME l = Queue!Primary /\ ~inSync
        PROVE  Waits(l, Pending(l)', fate'[l])
    <3>1. Pending(l)' = <<>> /\ y = "lost"
        BY <1>1, <1>4, <1>5, <2>3 DEF Pending
    <3>2. At(fate[l], "sent") = {}
      <4>1. At(fate[l], "sent") = Len(fate[l]) - Len(<<>>) + 1 .. Len(fate[l])
          BY <1>5, <2>2 DEF Waits
      <4> QED BY <1>6, <4>1
    <3>3. At(fate'[l], "sent") = {} /\ Len(fate'[l]) \in Nat
        BY <1>6, <3>1, <3>2
    <3>4. Waits(l, <<>>, fate'[l])
        BY <3>3, NothingWaits
    <3> QED BY <3>1, <3>4
  <2>4. ASSUME ~(l = Queue!Primary /\ ~inSync)
        PROVE  Waits(l, Pending(l)', fate'[l])
    <3>1. Pending(l)' = msg /\ y = "sent"
      <4>1. wire'[l] # <<>> /\ Head(wire'[l]) = msg /\ left' = <<>>
          BY <1>1, <1>5, <1>9
      <4>2. ~(l = Queue!Primary /\ ~inSync')
          BY <1>1, <2>4
      <4>3. Pending(l)' = msg
          BY <1>5, <4>1, <4>2 DEF Pending
      <4> QED BY <1>4, <2>4, <4>3
    <3> DEFINE p == Pending(l)
               q == msg
               f == fate[l]
               g == fate'[l]
    <3>2. Len(p) = 0
        BY <2>2
    <3>3. /\ Len(g) = Len(f) + m /\ Len(f) \in Nat /\ q \in Seq(Queue!Block)
          /\ Len(q) = Len(p) + m /\ Waits(l, p, f)
          /\ At(g, "sent") = At(f, "sent") \union (Len(f) + 1 .. Len(f) + m)
        BY <1>5, <1>6, <1>8, <3>1, <3>2
    <3>4. \A i \in 1..Len(p) : q[i] = p[i]
        BY <3>2
    <3>5. \A i \in Len(p) + 1 .. Len(q) : q[i].src = l /\ q[i].n = Len(f) - Len(p) + i
      <4> TAKE i \in Len(p) + 1 .. Len(q)
      <4>1. i \in 1..m
          BY <1>8, <3>2
      <4> HIDE DEF p
      <4>2. Len(f) - Len(p) + i = Len(f) + i
          BY <3>2, <3>3
      <4> QED BY <1>8, <4>1, <4>2
    <3> HIDE DEF p, q, f, g
    <3>6. Waits(l, q, g)
        BY <3>3, <3>4, <3>5, WaitsMore
    <3> QED BY <3>1, <3>6 DEF q, g
  <2>5. ASSUME NEW s \in Queue!Sources PROVE Waits(s, Pending(s)', fate'[s])
    <3>1. CASE s = l
        BY <2>3, <2>4, <3>1
    <3> QED BY <2>1, <3>1
  <2> QED BY <1>6, <2>5 DEF Waiting
<1>14. Ring'
    BY <1>1, <1>12, RingStays
<1>15. Counted'
  <2>1. \A k \in Queue!Links : At(fate'[k], "lost") # At(fate[k], "lost") =>
            k \notin links' \/ setupFailed' \/ phase' = "stopped"
    <3> TAKE k \in Queue!Links
    <3>1. CASE k # l
        BY <1>6, <3>1, SourceNames
    <3>2. CASE k = l /\ y = "sent"
        BY <1>6, <3>2
    <3>3. CASE y = "lost"
        BY <1>1, <1>4, <3>3 DEF QueueInv, Control
    <3> QED BY <3>1, <3>2, <3>3
  <2> QED BY <1>1, <1>6, <1>12, <2>1, CountStays
<1> QED BY <1>10, <1>11, <1>13, <1>14, <1>15 DEF QueueInv

\* The steps that move no block.
LEMMA OtherSteps ==
    ASSUME QueueInv,
           Queue!Call \/ Queue!FillIdle \/ Queue!PollFails \/ Queue!BatchReturns \/ Queue!SetupEnds
    PROVE  QueueInv'
<1>1. /\ UNCHANGED <<links, wire, udp, cur, left, inSync, ring, head, tail, recvCount,
                     skippedBlocks, fate, garbage>>
      /\ rpc # "blocks" /\ rpc' # "blocks"
  <2>1. CASE Queue!Call
      BY <2>1 DEF Queue!Call, Queue!ringVars
  <2>2. CASE Queue!FillIdle
      BY <2>2 DEF Queue!FillIdle, Queue!Filled, Queue!ringVars
  <2>3. CASE Queue!PollFails
      BY <2>3 DEF Queue!PollFails, Queue!FillError, Queue!ringVars
  <2>4. CASE Queue!BatchReturns
      BY <2>4 DEF Queue!BatchReturns, Queue!ringVars
  <2>5. CASE Queue!SetupEnds
      BY <2>5 DEF Queue!SetupEnds, Queue!ringVars
  <2> QED BY <2>1, <2>2, <2>3, <2>4, <2>5
<1>2. /\ Control' /\ (setupFailed => setupFailed') /\ (phase = "stopped" => phase' = "stopped")
  <2>1. Control /\ recvCount \in Nat
      BY QueueAssumption DEF QueueInv, Ring, RingShape
  <2>2. CASE Queue!Call
      BY <1>1, <2>1, <2>2 DEF Queue!Call, Control
  <2>3. CASE Queue!FillIdle
      BY <1>1, <2>1, <2>3 DEF Queue!FillIdle, Queue!Filled, Control
  <2>4. CASE Queue!PollFails
    <3>1. /\ rpc = "fill" /\ rpc' = "idle" /\ UNCHANGED batch
          /\ \/ phase = "setup" /\ setupFailed' = TRUE /\ UNCHANGED phase
             \/ phase' = "stopped" /\ UNCHANGED setupFailed
        BY <2>4 DEF Queue!PollFails, Queue!FillError
    <3> QED BY <1>1, <2>1, <3>1 DEF Control
  <2>5. CASE Queue!BatchReturns
      BY <1>1, <2>1, <2>5, QueueAssumption DEF Queue!BatchReturns, Control
  <2>6. CASE Queue!SetupEnds
      BY <1>1, <2>1, <2>6 DEF Queue!SetupEnds, Control
  <2> QED BY <2>2, <2>3, <2>4, <2>5, <2>6
<1> QED BY <1>1, <1>2, QuietStep

LEMMA GarbageIsFromSetup ==
    ASSUME QueueInv, recvCount > 0
    PROVE  ring[head].src = "garbage" => setupFailed
<1>1. RingShape /\ recvCount \in Nat /\ QueueSize \in Nat \ {0}
    BY QueueAssumption DEF QueueInv, Ring, RingShape
<1>2. 1 \in 1..recvCount
    BY <1>1
<1>3. head + 1 - 1 = head /\ head % QueueSize = head
    BY <1>1 DEF RingShape
<1>4. ring[head] = Queue!Queued[1]
    BY <1>1, <1>2, <1>3, QueuedIs DEF Slot
<1> QED BY <1>2, <1>4 DEF QueueInv, Ring

LEMMA TakeSteps ==
    ASSUME QueueInv, Queue!TakeRaw \/ Queue!TakeFrame
    PROVE  QueueInv'
<1>1. recvCount \in Nat
    BY QueueAssumption DEF QueueInv, Ring, RingShape
<1>2. CASE Queue!TakeRaw
  <2>1. /\ rpc = "take" /\ phase = "setup" /\ rpc' = "idle"
        /\ Queue!Dequeue /\ fate' = Queue!Becomes({ring[head]}, "consumed")
        /\ UNCHANGED <<phase, links, wire, udp, cur, left, inSync, batch, setupFailed, garbage>>
      BY <1>2 DEF Queue!TakeRaw
  <2>2. recvCount > 0 /\ recvCount' = recvCount - 1
      BY <2>1 DEF QueueInv, Control, Queue!Dequeue
  <2>3. Control'
      BY <2>1 DEF QueueInv, Control
  <2>4. PICK x \in {"consumed", "delivered"} : x = "consumed"
      OBVIOUS
  <2> QED BY <2>1, <2>2, <2>3, <2>4, DequeueStep
<1>3. CASE Queue!TakeFrame
  <2>1. PICK x \in {"consumed", "delivered"} : fate' = Queue!Becomes({ring[head]}, x)
      BY <1>3 DEF Queue!TakeFrame
  <2>2. /\ rpc = "take" /\ phase = "data" /\ recvCount > 0 /\ batch < BatchPackets
        /\ Queue!Dequeue /\ batch' \in {batch, batch + 1}
        /\ garbage' = (garbage \/ (ring[head].src = "garbage" /\ ring[head].kind = "ip"))
        /\ UNCHANGED <<phase, rpc, links, wire, udp, cur, left, inSync, setupFailed>>
      BY <1>3 DEF Queue!TakeFrame
  <2>3. garbage' \in BOOLEAN /\ (garbage' => setupFailed)
      BY <2>2, GarbageIsFromSetup DEF QueueInv, Control
  <2>4. batch' \in 0..BatchPackets
      BY <2>2, QueueAssumption DEF QueueInv, Control
  <2>5. Control'
      BY <2>2, <2>3, <2>4 DEF QueueInv, Control
  <2> QED BY <2>1, <2>2, <2>5, DequeueStep
<1> QED BY <1>2, <1>3

LEMMA QueueStarts == Queue!Init => QueueInv
<1> SUFFICES ASSUME Queue!Init PROVE QueueInv
    OBVIOUS
<1>1. /\ phase = "setup" /\ rpc = "idle"
      /\ links = Queue!Links /\ wire = [l \in Queue!Links |-> <<>>] /\ udp = <<>>
      /\ cur = Queue!Primary /\ left = <<>> /\ inSync = TRUE
      /\ ring = [i \in 0..QueueSize - 1 |-> Queue!NoBlock]
      /\ head = 0 /\ tail = 0 /\ recvCount = 0 /\ batch = 0 /\ skippedBlocks = 0
      /\ fate = [s \in Queue!Sources |-> <<>>]
      /\ setupFailed = FALSE /\ garbage = FALSE
    BY DEF Queue!Init
<1>2. QueueSize \in Nat \ {0} /\ BatchPackets \in Nat
    BY QueueAssumption
<1>3. Control
  <2>1. batch \in 0..BatchPackets
      BY <1>1, <1>2
  <2>2. /\ rpc = "idle" /\ phase = "setup" /\ inSync /\ inSync \in BOOLEAN
        /\ ~setupFailed /\ setupFailed \in BOOLEAN /\ ~garbage /\ garbage \in BOOLEAN
      BY <1>1
  <2> QED BY <2>1, <2>2 DEF Control
<1>4. Wires
  <2>1. <<>> \in Seq(Seq(Queue!Block)) /\ <<>> \in Seq(Queue!Block) /\ Len(<<>>) <= 1
      OBVIOUS
  <2> QED BY <1>1, <2>1, SourceNames DEF Wires
<1>5. \A s \in Queue!Sources : fate[s] = <<>> /\ \A x : At(fate[s], x) = {}
  <2>1. 1..Len(<<>>) = {}
      OBVIOUS
  <2> QED BY <1>1, <2>1 DEF At
<1>6. Waiting
  <2>1. fate \in [Queue!Sources -> Seq(Queue!Fates)]
    <3>1. <<>> \in Seq(Queue!Fates)
        OBVIOUS
    <3> QED BY <1>1, <3>1
  <2>2. ASSUME NEW s \in Queue!Sources PROVE Waits(s, Pending(s), fate[s])
    <3>1. s # "udp" => wire[s] = <<>>
        BY <1>1, SourceNames
    <3>2. Pending(s) = <<>>
        BY <1>1, <3>1 DEF Pending
    <3>3. Len(fate[s]) \in Nat /\ At(fate[s], "sent") = {}
        BY <1>5
    <3> QED BY <3>2, <3>3, NothingWaits
  <2> QED BY <2>1, <2>2 DEF Waiting
<1>7. Ring
  <2>1. RingShape
    <3>1. 0 % QueueSize = 0
        BY <1>2
    <3> QED BY <1>1, <1>2, <3>1 DEF RingShape
  <2>2. Queue!Queued = <<>>
    <3>1. Queue!Queued = [i \in 1..0 |-> ring[Slot(i)]]
        BY <1>1, <2>1, QueuedIs
    <3> QED BY <3>1
  <2>3. Holds(Queue!Queued, fate)
    <3>1. <<>> \in Seq(Queue!Block) /\ 1..Len(<<>>) = {}
        OBVIOUS
    <3> QED BY <1>5, <2>2, <3>1 DEF Holds
  <2>4. 1..recvCount = {}
      BY <1>1
  <2> QED BY <1>5, <2>1, <2>3, <2>4 DEF Ring
<1>8. Counted
  <2>1. Queue!Skipped = {}
    <3>1. \A s \in Queue!Sources : Queue!SkippedAt(s) = {}
        BY <1>5 DEF Queue!SkippedAt
    <3> QED BY <3>1 DEF Queue!Skipped
  <2>2. skippedBlocks = Cardinality(Queue!Skipped) /\ IsFiniteSet(Queue!Skipped)
      BY <1>1, <2>1, FS_EmptySet
  <2> QED BY <1>5, <2>2, SourceNames DEF Counted
<1> QED BY <1>3, <1>4, <1>6, <1>7, <1>8 DEF QueueInv

LEMMA QueueStutters ==
    ASSUME QueueInv, UNCHANGED queueVars
    PROVE  QueueInv'
<1>1. /\ UNCHANGED <<phase, rpc, links, wire, udp, cur, left, inSync>>
      /\ UNCHANGED <<ring, head, tail, recvCount, batch, skippedBlocks, fate, setupFailed, garbage>>
    BY DEF queueVars
<1>2. Control' /\ Wires'
    BY <1>1 DEF QueueInv, Control, Wires
<1>3. Waiting'
  <2>1. \A s : Pending(s)' = Pending(s)
      BY <1>1 DEF Pending
  <2> QED BY <1>1, <2>1 DEF QueueInv, Waiting
<1>4. Ring'
    BY <1>1, RingStays
<1>5. Counted'
    BY <1>1, CountStays DEF QueueInv, Waiting
<1> QED BY <1>2, <1>3, <1>4, <1>5 DEF QueueInv

LEMMA QueueNext == QueueInv /\ [MCNext]_mcVars => QueueInv'
<1> SUFFICES ASSUME QueueInv, [MCNext]_mcVars PROVE QueueInv'
    OBVIOUS
<1>1. CASE Queue!Next
  <2>1. CASE Queue!Call \/ Queue!FillIdle \/ Queue!PollFails \/ Queue!BatchReturns \/ Queue!SetupEnds
      BY <2>1, OtherSteps
  <2>2. CASE Queue!TakeRaw \/ Queue!TakeFrame
      BY <2>2, TakeSteps
  <2>3. CASE Queue!FillUdp
      BY <2>3, FillUdpStep
  <2>4. CASE Queue!ReadBlock
      BY <2>4, ReadBlockStep
  <2>5. CASE Queue!Misread
      BY <2>5, MisreadStep
  <2>6. CASE Queue!UdpArrives
      BY <2>6, UdpArrivesStep
  <2>7. ASSUME NEW l \in Queue!Links, Queue!Select(l) PROVE QueueInv'
      BY <2>7, SelectStep
  <2>8. ASSUME NEW l \in Queue!Links, Queue!ReadFails(l) PROVE QueueInv'
      BY <2>8, ReadFailsStep
  <2>9. ASSUME NEW l \in Queue!Links, Queue!ServerSends(l) PROVE QueueInv'
      BY <2>9, ServerSendsStep
  <2> QED BY <1>1, <2>1, <2>2, <2>3, <2>4, <2>5, <2>6, <2>7, <2>8, <2>9
          DEF Queue!Next, Queue!Receiver
<1>2. CASE UNCHANGED queueVars
    BY <1>2, QueueStutters
<1>3. Queue!Next \/ UNCHANGED queueVars
    BY DEF MCNext, mcVars
<1> QED BY <1>1, <1>2, <1>3

LEMMA QueueInvHolds ==
    ASSUME QueueInv
    PROVE  /\ Queue!TypeOK /\ Queue!RingIsQueue /\ Queue!DeliveredInOrder
           /\ Queue!DropsAreCounted /\ Queue!NoGarbage
<1>1. /\ fate \in [Queue!Sources -> Seq(Queue!Fates)] /\ RingShape
      /\ Holds(Queue!Queued, fate)
      /\ \A s \in Queue!Sources : Waits(s, Pending(s), fate[s])
    BY DEF QueueInv, Waiting, Ring
<1>2. \A s \in Queue!Sources : DOMAIN fate[s] = 1..Len(fate[s]) /\ Len(fate[s]) \in Nat
  <2> TAKE s \in Queue!Sources
  <2>1. fate[s] \in Seq(Queue!Fates)
      BY <1>1
  <2> QED BY <2>1
<1>3. Queue!TypeOK
  <2>1. udp \in Seq(Queue!Block)
    <3>1. Pending("udp") = udp /\ "udp" \in Queue!Sources
        BY SourceNames DEF Pending
    <3> QED BY <1>1, <3>1 DEF Waits
  <2>2. skippedBlocks \in Nat
      BY FS_CardinalityType DEF QueueInv, Counted
  <2>3. /\ phase \in {"setup", "data", "stopped"}
        /\ rpc \in {"idle", "fill", "blocks", "take"}
        /\ batch \in 0..BatchPackets
        /\ inSync \in BOOLEAN /\ setupFailed \in BOOLEAN /\ garbage \in BOOLEAN
      BY DEF QueueInv, Control
  <2>4. /\ links \subseteq Queue!Links /\ cur \in Queue!Links
        /\ wire \in [Queue!Links -> Seq(Seq(Queue!Block))] /\ left \in Seq(Queue!Block)
      BY DEF QueueInv, Wires
  <2>5. /\ ring \in [0..QueueSize - 1 -> Queue!Block \union {Queue!NoBlock}]
        /\ head \in 0..QueueSize - 1 /\ tail \in 0..QueueSize - 1 /\ recvCount \in 0..QueueSize
      BY <1>1 DEF RingShape
  <2> QED BY <1>1, <2>1, <2>2, <2>3, <2>4, <2>5 DEF Queue!TypeOK
<1>4. Queue!RingIsQueue
  <2>1. tail = (head + recvCount) % QueueSize
      BY <1>1 DEF RingShape
  <2>2. Queue!Range(Queue!Queued) = {Queue!Queued[i] : i \in 1..Len(Queue!Queued)}
        /\ DOMAIN Queue!Queued = 1..Len(Queue!Queued)
    <3>1. Queue!Queued \in Seq(Queue!Block)
        BY <1>1 DEF Holds
    <3> QED BY <3>1 DEF Queue!Range
  <2>3. ASSUME NEW s \in Queue!Sources, NEW i \in DOMAIN fate[s]
        PROVE  fate[s][i] = "queued" <=>
                   \E b \in Queue!Range(Queue!Queued) : b.src = s /\ b.n = i
    <3>1. fate[s][i] = "queued" <=> i \in At(fate[s], "queued")
        BY <1>2, <2>3 DEF At
    <3>2. ASSUME i \in At(fate[s], "queued")
          PROVE  \E b \in Queue!Range(Queue!Queued) : b.src = s /\ b.n = i
      <4>1. PICK k \in 1..Len(Queue!Queued) : Queue!Queued[k].src = s /\ Queue!Queued[k].n = i
          BY <1>1, <3>2 DEF Holds
      <4> QED BY <2>2, <4>1
    <3>3. ASSUME NEW b \in Queue!Range(Queue!Queued), b.src = s, b.n = i
          PROVE  i \in At(fate[s], "queued")
      <4>1. PICK k \in 1..Len(Queue!Queued) : b = Queue!Queued[k]
          BY <2>2
      <4> QED BY <1>1, <3>3, <4>1 DEF Holds
    <3> QED BY <3>1, <3>2, <3>3
  <2>4. \A i, j \in DOMAIN Queue!Queued :
            i < j /\ Queue!Queued[i].src = Queue!Queued[j].src /\ Queue!Queued[i].src # "garbage"
                => Queue!Queued[i].n < Queue!Queued[j].n
      BY <1>1, <2>2 DEF Holds
  <2> QED BY <2>1, <2>3, <2>4 DEF Queue!RingIsQueue
<1>5. Queue!DeliveredInOrder
  <2> SUFFICES ASSUME NEW s \in Queue!Sources, NEW i \in DOMAIN fate[s], NEW j \in DOMAIN fate[s],
                      i < j, fate[s][j] = "delivered"
               PROVE  fate[s][i] \notin {"sent", "queued"}
      BY DEF Queue!DeliveredInOrder
  <2>1. i \in 1..Len(fate[s]) /\ j \in 1..Len(fate[s]) /\ Len(fate[s]) \in Nat
      BY <1>2
  <2>2. j \in At(fate[s], "delivered") /\ j \notin At(fate[s], "sent")
      BY <2>1 DEF At
  <2>3. fate[s][i] # "queued"
    <3>1. SUFFICES ASSUME fate[s][i] = "queued" PROVE FALSE
        OBVIOUS
    <3>2. i \in At(fate[s], "queued")
        BY <2>1, <3>1 DEF At
    <3>3. j < i
        BY <2>2, <3>2 DEF QueueInv, Ring
    <3> QED BY <2>1, <3>3
  <2>4. fate[s][i] # "sent"
    <3>1. SUFFICES ASSUME fate[s][i] = "sent" PROVE FALSE
        OBVIOUS
    <3>2. i \in At(fate[s], "sent")
        BY <2>1, <3>1 DEF At
    <3>3. /\ At(fate[s], "sent") = Len(fate[s]) - Len(Pending(s)) + 1 .. Len(fate[s])
          /\ Pending(s) \in Seq(Queue!Block)
        BY <1>1 DEF Waits
    <3>4. Len(Pending(s)) \in Nat
        BY <3>3
    <3> QED BY <2>1, <2>2, <3>2, <3>3, <3>4
  <2> QED BY <2>3, <2>4
<1>6. Queue!DropsAreCounted
  <2>1. skippedBlocks = Queue!Cardinality(Queue!Skipped)
    <3>1. \A S : Queue!Cardinality(S) = Cardinality(S)
        BY Zenon DEF Cardinality, Queue!Cardinality
    <3> QED BY <3>1 DEF QueueInv, Counted
  <2>2. ASSUME NEW l \in Queue!Links, NEW i \in DOMAIN fate[l], fate[l][i] = "lost"
        PROVE  l \notin links \/ setupFailed \/ phase = "stopped"
    <3>1. i \in At(fate[l], "lost")
        BY <1>2, <2>2, SourceNames DEF At
    <3> QED BY <3>1 DEF QueueInv, Counted
  <2>3. \A l \in Queue!Links : \A i \in DOMAIN fate[l] :
            fate[l][i] = "lost" => l \notin links \/ setupFailed \/ phase = "stopped"
      BY <2>2
  <2> QED BY <2>1, <2>3, Zenon DEF Queue!DropsAreCounted
<1>7. Queue!NoGarbage
    BY DEF QueueInv, Control, Queue!NoGarbage
<1> QED BY <1>3, <1>4, <1>5, <1>6, <1>7

\* The frames of every link and of UDP acceleration reach the TUN in order, once
\* and as they were sent, for every size of the queue and of a batch: none is
\* overwritten in the ring, dropped without being counted or left behind by a
\* batch that returns nothing.
THEOREM FramesReachTheTun == MCSpec => FramesAreDelivered
<1>1. MCInit => QueueInv
    BY QueueStarts DEF MCInit
<1>2. QueueInv /\ [MCNext]_mcVars => QueueInv'
    BY QueueNext
<1>3. QueueInv => /\ Queue!TypeOK /\ Queue!RingIsQueue /\ Queue!DeliveredInOrder
                  /\ Queue!DropsAreCounted /\ Queue!NoGarbage
    BY QueueInvHolds
<1>4. QueueInv /\ [MCNext]_mcVars =>
          [rpc = "take" /\ rpc' = "idle" /\ phase = "data" /\ batch = 0 => recvCount = 0]_Queue!vars
  <2> SUFFICES ASSUME QueueInv, [MCNext]_mcVars, rpc = "take", rpc' = "idle", phase = "data",
                      batch = 0
               PROVE  recvCount = 0
      OBVIOUS
  <2>1. Queue!Next
      BY DEF MCNext, mcVars, queueVars
  <2>2. Queue!BatchReturns
      BY <2>1 DEF Queue!Next, Queue!Receiver, Queue!Call, Queue!FillUdp, Queue!FillIdle,
         Queue!PollFails, Queue!ReadBlock, Queue!Misread, Queue!TakeRaw, Queue!TakeFrame,
         Queue!SetupEnds, Queue!Select, Queue!ReadFails, Queue!Readable, Queue!UdpArrives,
         Queue!ServerSends
  <2>3. recvCount = 0 \/ batch = BatchPackets \/ batch >= RoomFor
      BY <2>2 DEF Queue!BatchReturns, Queue!NoRoom
  <2> QED BY <2>3, QueueAssumption
<1> QED BY <1>1, <1>2, <1>3, <1>4, PTL DEF MCSpec, FramesAreDelivered, Queue!ZeroMeansEmpty
==============================================================================
